-------------------------- MODULE CacheOrderProofs --------------------------
(***************************************************************************)
(* That no slow leader overwrites a newer answer, that the store and its   *)
(* byte counter agree and stay within the limits, and that a put survives  *)
(* its own evictions: NoRegress, CacheCoherent and PutSurvives of          *)
(* GatewayCache, for every set of requests and every length of run.        *)
(*                                                                         *)
(* What a step may leave in the store is stated by the set its entries are *)
(* taken from, so that the lemmas of CacheStoreProofs say what it keeps.   *)
(***************************************************************************)
EXTENDS GatewayCacheProofs

-----------------------------------------------------------------------------
(* No key is stored twice *)

Unique(s) == \A i, j \in DOMAIN s : s[i].key = s[j].key => i = j

(* To take a key out leaves none of its entries, and no other key twice. *)
LEMMA WithoutUnique ==
  ASSUME NEW S, NEW s \in Seq(S), Unique(s), NEW k
  PROVE  Unique(Without(s, k)) /\ ~Holds(Without(s, k), k)
<1>1. CASE ~Holds(s, k)
  BY <1>1 DEF Without
<1>2. CASE Holds(s, k)
  <2> DEFINE i == Index(s, k)
             w == Without(s, k)
  <2> HIDE DEF w
  <2>1. i \in 1 .. Len(s) /\ s[i].key = k
    BY <1>2, GetHeld DEF Get
  <2> HIDE DEF i
  <2>2. w = RemoveAt(s, i)
    BY <1>2 DEF Without, i, w
  <2> DEFINE from(j) == IF j < i THEN j ELSE j + 1
  <2>4. /\ DOMAIN w = 1 .. Len(s) - 1
        /\ \A j \in DOMAIN w : from(j) \in DOMAIN s /\ from(j) # i /\ w[j] = s[from(j)]
    <3>1. /\ w \in Seq(S) /\ Len(w) = Len(s) - 1
          /\ \A j \in 1 .. Len(s) - 1 : w[j] = s[IF j < i THEN j ELSE j + 1]
      <4>1. i \in DOMAIN s
        BY <2>1
      <4> QED BY <2>2, <4>1, RemoveAtFacts
    <3>2. \A j \in 1 .. Len(s) - 1 : from(j) \in DOMAIN s /\ from(j) # i
      BY <2>1
    <3> QED BY <3>1, <3>2
  <2>5. Unique(w)
    <3> SUFFICES ASSUME NEW a \in DOMAIN w, NEW b \in DOMAIN w, w[a].key = w[b].key
                 PROVE  a = b
      BY DEF Unique
    <3>1. from(a) = from(b)
      <4> HIDE DEF from
      <4> QED BY <2>4 DEF Unique
    <3> QED BY <2>1, <2>4, <3>1
  <2>6. ~Holds(w, k)
    <3> HIDE DEF from
    <3> QED BY <2>1, <2>4 DEF Unique, Holds
  <2> QED BY <2>5, <2>6 DEF w
<1> QED BY <1>1, <1>2

(* An entry may be added at the end if its key is not there. *)
LEMMA AppendUnique ==
  ASSUME NEW S, NEW s \in Seq(S), Unique(s), NEW e \in S, ~Holds(s, e.key)
  PROVE  Unique(Append(s, e))
BY DEF Unique, Holds

LEMMA DropOldestUnique ==
  ASSUME NEW S, NEW c, c.lru \in Seq(S), Unique(c.lru), NEW n \in Nat
  PROVE  Unique(DropOldest(c, n).lru)
<1> DEFINE s == c.lru
           d == SubSeq(s, n + 1, Len(s))
<1>1. /\ DOMAIN d \subseteq {j \in Nat : n + j \in DOMAIN s}
      /\ \A j \in DOMAIN d : d[j] = s[n + j]
  BY SubSeqProperties
<1> HIDE DEF d
<1>2. Unique(d)
  <2> SUFFICES ASSUME NEW a \in DOMAIN d, NEW b \in DOMAIN d, d[a].key = d[b].key
               PROVE  a = b
    BY DEF Unique
  <2>1. n + a = n + b
    BY <1>1 DEF Unique
  <2> QED BY <1>1, <2>1
<1> QED BY <1>2 DEF DropOldest, d

(* The whole of a lookup and of a put. *)
LEMMA AfterLookupUnique ==
  ASSUME NEW S, NEW c, DOMAIN c = {"lru", "bytes"}, c.lru \in Seq(S), Unique(c.lru),
         NEW k, NEW t
  PROVE  Unique(AfterLookup(c, k, t).lru)
<1>1. Without(c.lru, k) \in Seq(S) /\ Unique(Without(c.lru, k)) /\ ~Holds(Without(c.lru, k), k)
  BY WithoutType, WithoutUnique
<1>2. CASE Classify(c.lru, k, t) = "MISS"
  BY <1>1, <1>2 DEF AfterLookup, Delete
<1>3. CASE Classify(c.lru, k, t) # "MISS"
  <2>1. Get(c.lru, k) \in S /\ Get(c.lru, k).key = k
    BY <1>3, GetHeld DEF Classify
  <2>2. Unique(Append(Without(c.lru, k), Get(c.lru, k)))
    BY <1>1, <2>1, AppendUnique
  <2> QED BY <1>3, <2>2 DEF AfterLookup, MoveToEnd
<1> QED BY <1>2, <1>3

LEMMA AfterPutUnique ==
  ASSUME NEW S, NEW c, c.lru \in Seq(S), Unique(c.lru), NEW e \in S
  PROVE  Unique(AfterPut(c, e).lru)
<1> DEFINE c1 == Insert(c, e)
           c2 == EvictByCount(c1)
<1>1. c1.lru \in Seq(S) /\ Unique(c1.lru)
  <2>1. /\ Without(c.lru, e.key) \in Seq(S) /\ Unique(Without(c.lru, e.key))
        /\ ~Holds(Without(c.lru, e.key), e.key)
    BY WithoutType, WithoutUnique
  <2> QED BY <2>1, AppendUnique DEF Insert
<1>2. c2.lru \in Seq(S) /\ Unique(c2.lru)
  <2> DEFINE n == IF Len(c1.lru) > MaxEntries THEN Len(c1.lru) - MaxEntries ELSE 0
  <2>1. n \in Nat
    BY <1>1, CacheConfig
  <2>2. c2 = DropOldest(c1, n)
    BY DEF EvictByCount
  <2> HIDE DEF n, c1, c2
  <2> QED BY <1>1, <2>1, <2>2, DropOldestType, DropOldestUnique
<1>3. Unique(EvictByBytes(c2).lru)
  <2> HIDE DEF c1, c2
  <2>1. CASE MaxTotal = 0
    BY <1>2, <2>1 DEF EvictByBytes
  <2>2. CASE MaxTotal # 0
    <3> DEFINE T == {n \in 0 .. Len(c2.lru) : Fits(DropOldest(c2, n))}
    <3>1. DropOldest(c2, Len(c2.lru)).lru = <<>>
      BY <1>2, SubSeqEmpty DEF DropOldest
    <3>2. Len(c2.lru) \in T
      BY <1>2, <3>1 DEF Fits
    <3>3. Min(T) \in Nat
      <4>1. T \subseteq Nat /\ T # {}
        BY <1>2, <3>2
      <4> QED BY <4>1, MinNat
    <3>4. EvictByBytes(c2) = DropOldest(c2, Min(T))
      BY <2>2 DEF EvictByBytes
    <3> HIDE DEF T
    <3> QED BY <1>2, <3>3, <3>4, DropOldestUnique
  <2> QED BY <2>1, <2>2
<1> QED BY <1>3 DEF AfterPut

-----------------------------------------------------------------------------
(* The invariant *)

(* The entries a store may have at this time, *)
Past == {e \in EntryType : e.born =< now}

(* and those it may have when a thread is about to put what it fetched: of   *)
(* its own era and key, none that was put later. *)
Earlier(r) ==
    {e \in EntryType : e.key = Key(r) /\ e.era = frame[r].led => e.born =< frame[r].clk}

(* The clock is read before the lock is taken, but a putter is alone with    *)
(* its key: what it is about to put is the newest of its era. *)
OrderInv ==
    /\ Unique(cache.lru)
    /\ cache.lru \in Seq(Past)
    /\ \A r \in Requests : frame[r].clk =< now
    /\ \A r \in Requests : pc[r] = "put" => cache.lru \in Seq(Earlier(r))

LEMMA InitOrder == Init => OrderInv
BY EmptySeq DEF Init, EmptyCache, NewFrame, OrderInv, Unique

(* A store is one of entries of a set if its entries are. *)
LEMMA Entries ==
  ASSUME NEW S, NEW T, NEW s \in Seq(S), \A e \in S : e \in T
  PROVE  s \in Seq(T)
OBVIOUS

(* A step that takes no entry in, of a thread that is not about to put. *)
LEMMA TakesNone ==
  ASSUME IInv, OrderInv, UNCHANGED <<now, req>>, Unique(cache'.lru),
         \A S : cache.lru \in Seq(S) => cache'.lru \in Seq(S),
         \A q \in Requests : frame'[q].clk \in {0, frame[q].clk, now},
         \A q \in Requests : pc'[q] = "put" =>
            pc[q] = "put" /\ frame'[q] = frame[q]
  PROVE  OrderInv'
<1>1. now \in Nat /\ \A q \in Requests : frame'[q].clk =< now
  BY DEF IInv, TypeOK, OrderInv
<1>2. cache'.lru \in Seq(Past') /\ Past' = Past
  BY DEF OrderInv, Past, EntryType, Keys
<1>3. ASSUME NEW q \in Requests, pc'[q] = "put" PROVE cache'.lru \in Seq(Earlier(q)')
  <2>1. Earlier(q)' = Earlier(q) /\ cache.lru \in Seq(Earlier(q))
    BY <1>3 DEF OrderInv, Earlier, EntryType, Keys, Key, KeyOf
  <2> QED BY <2>1
<1> QED BY <1>1, <1>2, <1>3 DEF OrderInv

(* The lookups. *)
LEMMA LookupOrder ==
  ASSUME IInv, OrderInv, NEW r \in Requests, Lookup(r) \/ Relook(r)
  PROVE  OrderInv'
<1>1. cache' = AfterLookup(cache, Key(r), frame[r].clk) /\ UNCHANGED <<now, req>>
  BY DEF Lookup, Relook
<1>2. cache.lru \in Seq(EntryType) /\ Unique(cache.lru)
  BY DEF IInv, TypeOK, OrderInv
<1>3. Unique(cache'.lru) /\ \A S : cache.lru \in Seq(S) => cache'.lru \in Seq(S)
  BY <1>1, <1>2, AfterLookupUnique, AfterLookupType DEF IInv, TypeOK
<1>4. \A q \in Requests : frame'[q].clk \in {0, frame[q].clk, now}
  BY DEF Lookup, LookupHit, LookupStale, LookupSie, LookupMiss, Relook, Exit, NewFrame,
         IInv, TypeOK, FrameType
<1>5. \A q \in Requests : pc'[q] = "put" => pc[q] = "put" /\ frame'[q] = frame[q]
  BY DEF Lookup, LookupHit, LookupStale, LookupSie, LookupMiss, Relook, Exit, Goto,
         IInv, TypeOK
<1> QED BY <1>1, <1>3, <1>4, <1>5, TakesNone

(* The steps that leave the store alone. *)
LEMMA ThreadOrder ==
  ASSUME IInv, OrderInv, NEW r \in Requests,
         \/ Arrive(r) \/ Lead(r) \/ Follow(r) \/ Resume(r)
         \/ EndSet(r) \/ EndPop(r) \/ Pass(r)
  PROVE  OrderInv'
<1>1. cache' = cache /\ UNCHANGED <<now, req>>
  BY DEF Arrive, Lead, Follow, Resume, EndSet, EndPop, Pass
<1>2. \A q \in Requests : frame'[q].clk \in {0, frame[q].clk, now}
  BY DEF Arrive, Lead, Follow, Resume, EndSet, EndPop, Pass, Exit, NewFrame,
         IInv, TypeOK, FrameType
<1>3. \A q \in Requests : pc'[q] = "put" => pc[q] = "put" /\ frame'[q] = frame[q]
  BY DEF Arrive, FirstStage, Lead, Follow, Resume, EndSet, EndPop, Pass, Exit, Goto,
         IInv, TypeOK
<1> QED BY <1>1, <1>2, <1>3, TakesNone DEF OrderInv

(* A fetch that is over reads the clock: whatever is stored is older. *)
LEMMA FetchOrder ==
  ASSUME IInv, OrderInv, NEW r \in Requests, NEW o \in Outcomes, Fetch(r, o)
  PROVE  OrderInv'
<1>1. cache' = cache /\ UNCHANGED <<now, req>> /\ now \in Nat
  BY DEF Fetch, IInv, TypeOK
<1>2. /\ \A q \in Requests : q # r => pc'[q] = pc[q] /\ frame'[q] = frame[q]
      /\ frame'[r].clk \in {frame[r].clk, now}
      /\ pc'[r] = "put" => frame'[r].clk = now
  BY DEF Fetch, Goto, IInv, TypeOK, FrameType
<1>3. Unique(cache'.lru) /\ cache'.lru \in Seq(Past') /\ Past' = Past
  BY <1>1 DEF OrderInv, Past, EntryType, Keys
<1>4. \A q \in Requests : frame'[q].clk =< now
  BY <1>1, <1>2 DEF OrderInv
<1>5. ASSUME NEW q \in Requests, pc'[q] = "put" PROVE cache'.lru \in Seq(Earlier(q)')
  <2>1. CASE q = r
    <3>1. \A e \in Past : e \in Earlier(q)'
      BY <1>1, <1>2, <1>5, <2>1 DEF Past, Earlier, EntryType, Keys
    <3> QED BY <1>3, <3>1, Entries
  <2>2. CASE q # r
    <3>1. Earlier(q)' = Earlier(q) /\ cache.lru \in Seq(Earlier(q))
      BY <1>1, <1>2, <1>5, <2>2 DEF OrderInv, Earlier, EntryType, Keys, Key, KeyOf
    <3> QED BY <1>1, <3>1
  <2> QED BY <2>1, <2>2
<1> QED BY <1>1, <1>3, <1>4, <1>5 DEF OrderInv

(* What a put stores is of the time its clock shows, and nobody else is      *)
(* about to put for the same key and era. *)
LEMMA PutOrder ==
  ASSUME IInv, OrderInv, NEW r \in Requests, Put(r)
  PROVE  OrderInv'
<1>1. /\ UNCHANGED <<now, req, frame>> /\ pc[r] = "put" /\ pc'[r] = "end"
      /\ \A q \in Requests : q # r => pc'[q] = pc[q]
  BY DEF Put, Goto, IInv, TypeOK
<1>2. PICK size \in Sizes, life \in Lifetimes :
        cache' = IF Storable(size) THEN AfterPut(cache, Made(r, size, life)) ELSE cache
  BY DEF Put
<1> DEFINE e == Made(r, size, life)
<1>3. e \in EntryType /\ e.key = Key(r) /\ e.era = frame[r].led /\ e.born = frame[r].clk
  <2>1. frame[r].got \in Outcomes
    BY <1>1 DEF IInv, OwnInv, PutsComplete, Outcomes
  <2> QED BY <2>1, MadeType DEF Made, IInv
<1> HIDE DEF e
<1>4. cache.lru \in Seq(EntryType)
  BY DEF IInv, TypeOK
<1>5. Unique(cache'.lru)
  BY <1>2, <1>3, <1>4, AfterPutUnique DEF OrderInv, e
<1>6. \A S : cache.lru \in Seq(S) /\ e \in S => cache'.lru \in Seq(S)
  BY <1>2, AfterPutType DEF e
<1>7. cache'.lru \in Seq(Past') /\ Past' = Past
  BY <1>1, <1>3, <1>6 DEF OrderInv, Past, EntryType, Keys
<1>8. ASSUME NEW q \in Requests, pc'[q] = "put" PROVE cache'.lru \in Seq(Earlier(q)')
  <2>1. Earlier(q)' = Earlier(q) /\ cache.lru \in Seq(Earlier(q)) /\ q # r /\ pc[q] = "put"
    BY <1>1, <1>8 DEF OrderInv, Earlier, EntryType, Keys, Key, KeyOf
  <2>2. ~(Key(q) = Key(r) /\ frame[q].led = frame[r].led)
    BY <1>1, <2>1 DEF IInv, FlightInv, Singleflight, Leading
  <2>3. e \in Earlier(q)
    BY <1>3, <2>2 DEF Earlier
  <2> QED BY <1>6, <2>1, <2>3
<1> QED BY <1>1, <1>5, <1>7, <1>8 DEF OrderInv

(* A clear leaves nothing; the clock only goes on. *)
LEMMA EnvironmentOrder ==
  ASSUME IInv, OrderInv, Clear \/ Tick \/ UNCHANGED vars
  PROVE  OrderInv'
<1>1. /\ UNCHANGED <<req, pc, frame>> /\ now \in Nat /\ now' \in {now, now + 1}
      /\ \A q \in Requests : frame[q].clk \in Nat
  BY DEF Clear, Tick, vars, IInv, TypeOK, FrameType
<1>2. CASE Clear
  BY <1>1, <1>2, EmptySeq DEF Clear, EmptyCache, OrderInv, Unique
<1>3. CASE Tick \/ UNCHANGED vars
  <2>1. cache' = cache
    BY <1>3 DEF Tick, vars
  <2>2. \A e \in Past : e \in Past'
    BY <1>1 DEF Past, EntryType, Keys
  <2>3. cache'.lru \in Seq(Past')
    BY <2>1, <2>2, Entries DEF OrderInv
  <2>4. \A q \in Requests : Earlier(q)' = Earlier(q)
    BY <1>1 DEF Earlier, EntryType, Keys, Key, KeyOf
  <2>5. \A q \in Requests : frame'[q].clk =< now'
    BY <1>1 DEF OrderInv
  <2> QED BY <1>1, <2>1, <2>3, <2>4, <2>5 DEF OrderInv
<1> QED BY <1>2, <1>3

LEMMA StepOrder ==
  ASSUME IInv, OrderInv, [Next]_vars
  PROVE  OrderInv'
<1>1. ASSUME NEW r \in Requests, Arrive(r) \/ TimeOut(r) \/ Progress(r)
      PROVE  OrderInv'
  BY <1>1, LookupOrder, ThreadOrder, FetchOrder, PutOrder DEF Progress, TimeOut, Wake
<1> QED BY <1>1, EnvironmentOrder DEF Next, Over

-----------------------------------------------------------------------------
(* The theorems *)

(* What a lookup keeps of a key is what there was. *)
LEMMA LookupKeeps ==
  ASSUME TypeOK, Unique(cache.lru), NEW k, NEW t, cache' = AfterLookup(cache, k, t),
         NEW key, Holds(cache.lru, key), Holds(cache'.lru, key)
  PROVE  Get(cache'.lru, key) = Get(cache.lru, key)
<1> DEFINE T == {e \in EntryType : e.key = key => e = Get(cache.lru, key)}
<1>1. cache.lru \in Seq(T)
  <2>1. \A i \in DOMAIN cache.lru : cache.lru[i] \in T
    <3> SUFFICES ASSUME NEW i \in DOMAIN cache.lru, cache.lru[i].key = key
                 PROVE  cache.lru[i] = Get(cache.lru, key)
      BY DEF TypeOK
    <3>1. Index(cache.lru, key) \in DOMAIN cache.lru /\ cache.lru[Index(cache.lru, key)].key = key
      BY GetHeld DEF Get, TypeOK
    <3> QED BY <3>1 DEF Unique, Get
  <2> HIDE DEF T
  <2> QED BY <2>1 DEF TypeOK
<1> HIDE DEF T
<1>2. cache'.lru \in Seq(T)
  BY <1>1, AfterLookupType DEF TypeOK
<1>3. Get(cache'.lru, key) \in T /\ Get(cache'.lru, key).key = key
  BY <1>2, GetHeld
<1> QED BY <1>3 DEF T

(* A put leaves of a key what there was, or what was put. *)
LEMMA PutKeeps ==
  ASSUME cache.lru \in Seq(EntryType), Unique(cache.lru), NEW n \in EntryType,
         cache' = AfterPut(cache, n), NEW key, Holds(cache.lru, key), Holds(cache'.lru, key)
  PROVE  \/ Get(cache'.lru, key) = Get(cache.lru, key)
         \/ Get(cache'.lru, key) = n /\ n.key = key
<1> DEFINE T == {e \in EntryType : e.key = key => e = Get(cache.lru, key) \/ e = n}
<1>1. cache.lru \in Seq(T) /\ n \in T
  <2>1. \A i \in DOMAIN cache.lru : cache.lru[i] \in T
    <3> SUFFICES ASSUME NEW i \in DOMAIN cache.lru, cache.lru[i].key = key
                 PROVE  cache.lru[i] = Get(cache.lru, key)
      OBVIOUS
    <3>1. Index(cache.lru, key) \in DOMAIN cache.lru /\ cache.lru[Index(cache.lru, key)].key = key
      BY GetHeld DEF Get
    <3> QED BY <3>1 DEF Unique, Get
  <2>2. n \in T
    OBVIOUS
  <2> HIDE DEF T
  <2> QED BY <2>1, <2>2
<1> HIDE DEF T
<1>2. cache'.lru \in Seq(T)
  BY <1>1, AfterPutType
<1>3. Get(cache'.lru, key) \in T /\ Get(cache'.lru, key).key = key
  BY <1>2, GetHeld
<1> QED BY <1>3 DEF T

(* In every reachable state no key is stored twice, nothing stored is of the *)
(* future, and a thread about to put has the newest answer of its era. *)
THEOREM OrderIsKept == Spec => [](IInv /\ OrderInv)
<1>1. Init => OrderInv
  BY InitOrder
<1>2. IInv /\ OrderInv /\ [Next]_vars => OrderInv'
  BY StepOrder
<1> QED BY <1>1, <1>2, Inductive, PTL DEF Spec

(* Between two clears an answer is only replaced by a later one, however     *)
(* long its leader took between the clock and the lock. *)
THEOREM NoLeaderOverwritesNewer == Spec => NoRegress
<1> DEFINE Later ==
      \A k \in Keys :
         Holds(cache.lru, k) /\ Holds(cache'.lru, k)
         => LET old == Get(cache.lru, k)
                new == Get(cache'.lru, k)
            IN  old.era = new.era => new.born >= old.born
<1>1. ASSUME IInv, OrderInv, [Next]_vars
      PROVE  [Later]_vars
  <2>1. cache.lru \in Seq(EntryType) /\ Unique(cache.lru)
    BY <1>1 DEF IInv, TypeOK, OrderInv
  <2>2. \A k \in Keys : Holds(cache.lru, k) => Get(cache.lru, k).born \in Nat
    <3> SUFFICES ASSUME NEW k \in Keys, Holds(cache.lru, k) PROVE Get(cache.lru, k).born \in Nat
      OBVIOUS
    <3>1. Get(cache.lru, k) \in EntryType
      BY <2>1, GetHeld
    <3> QED BY <3>1 DEF EntryType
  <2>3. ASSUME NEW r \in Requests, Lookup(r) \/ Relook(r)
        PROVE  Later
    <3> SUFFICES ASSUME NEW k \in Keys, Holds(cache.lru, k), Holds(cache'.lru, k)
                 PROVE  Get(cache'.lru, k) = Get(cache.lru, k)
      BY <2>2
    <3>1. cache' = AfterLookup(cache, Key(r), frame[r].clk)
      BY <2>3 DEF Lookup, Relook
    <3> QED BY <1>1, <2>1, <3>1, LookupKeeps DEF IInv
  <2>4. ASSUME NEW r \in Requests, Put(r)
        PROVE  Later
    <3>1. PICK size \in Sizes, life \in Lifetimes :
            cache' = IF Storable(size) THEN AfterPut(cache, Made(r, size, life)) ELSE cache
      BY <2>4 DEF Put
    <3> DEFINE e == Made(r, size, life)
    <3>2. e \in EntryType /\ e.key = Key(r) /\ e.era = frame[r].led /\ e.born = frame[r].clk
      <4>1. frame[r].got \in Outcomes
        BY <1>1, <2>4 DEF Put, IInv, OwnInv, PutsComplete, Outcomes
      <4> QED BY <1>1, <4>1, MadeType DEF Made, IInv
    <3>3. cache.lru \in Seq(Earlier(r))
      BY <1>1, <2>4 DEF OrderInv, Put
    <3> SUFFICES ASSUME NEW k \in Keys, Holds(cache.lru, k), Holds(cache'.lru, k),
                        Get(cache.lru, k).era = Get(cache'.lru, k).era
                 PROVE  Get(cache'.lru, k).born >= Get(cache.lru, k).born
      OBVIOUS
    <3>4. \/ Get(cache'.lru, k) = Get(cache.lru, k)
          \/ Get(cache'.lru, k) = e /\ e.key = k
      <4>1. cache' = cache \/ cache' = AfterPut(cache, e)
        BY <3>1
      <4> HIDE DEF e
      <4> QED BY <2>1, <3>2, <4>1, PutKeeps
    <3>5. Get(cache.lru, k) \in Earlier(r) /\ Get(cache.lru, k).key = k
      BY <3>3, GetHeld
    <3> HIDE DEF e
    <3> QED BY <2>2, <3>2, <3>4, <3>5 DEF Earlier
  <2>5. CASE Clear
    BY <2>5 DEF Clear, EmptyCache, Holds
  <2>6. CASE cache' = cache
    BY <2>2, <2>6
  <2>7. ASSUME NEW r \in Requests, Arrive(r) \/ TimeOut(r) \/ Progress(r)
        PROVE  Lookup(r) \/ Relook(r) \/ Put(r) \/ cache' = cache
    BY <2>7 DEF Arrive, TimeOut, Progress, Lead, Follow, Wake, Resume, Fetch, EndSet, EndPop, Pass
  <2> QED BY <1>1, <2>3, <2>4, <2>5, <2>6, <2>7 DEF Next, Tick, Over, vars
<1> QED BY <1>1, OrderIsKept, PTL DEF Spec, NoRegress

-----------------------------------------------------------------------------
(* The store and its counter *)

(* The entries that _cache_put does not refuse for their size. *)
Admitted == {e \in EntryType : MaxBody > 0 => e.size =< MaxBody}

CoherentInv ==
    /\ Balanced(cache)
    /\ Len(cache.lru) =< MaxEntries
    /\ MaxTotal > 0 => cache.bytes =< MaxTotal
    /\ cache.lru \in Seq(Admitted)

LEMMA InitCoherent == Init => CoherentInv
<1> SUFFICES ASSUME Init PROVE CoherentInv
  OBVIOUS
<1>1. cache.lru = <<>> /\ cache.bytes = 0
  BY DEF Init, EmptyCache
<1>2. Len(cache.lru) =< MaxEntries /\ (MaxTotal > 0 => cache.bytes =< MaxTotal)
  BY <1>1, CacheConfig
<1> QED BY <1>1, <1>2, BytesEmpty, EmptySeq DEF CoherentInv, Balanced

(* What a step may do to the store. *)
LEMMA StoreSteps ==
  ASSUME IInv, [Next]_vars
  PROVE  \/ cache' = cache
         \/ cache' = EmptyCache
         \/ \E r \in Requests : cache' = AfterLookup(cache, Key(r), frame[r].clk)
         \/ \E r \in Requests, size \in Sizes, life \in Lifetimes :
               /\ pc[r] = "put" /\ Storable(size)
               /\ Made(r, size, life) \in EntryType
               /\ cache' = AfterPut(cache, Made(r, size, life))
<1>1. ASSUME NEW r \in Requests, Lookup(r) \/ Relook(r)
      PROVE  cache' = AfterLookup(cache, Key(r), frame[r].clk)
  BY <1>1 DEF Lookup, Relook
<1>2. ASSUME NEW r \in Requests, Put(r)
      PROVE  \/ cache' = cache
             \/ \E size \in Sizes, life \in Lifetimes :
                   /\ pc[r] = "put" /\ Storable(size)
                   /\ Made(r, size, life) \in EntryType
                   /\ cache' = AfterPut(cache, Made(r, size, life))
  <2>1. pc[r] = "put" /\ frame[r].got \in Outcomes
    BY <1>2 DEF Put, IInv, OwnInv, PutsComplete, Outcomes
  <2>2. \A size \in Sizes, life \in Lifetimes : Made(r, size, life) \in EntryType
    BY <2>1, MadeType DEF IInv
  <2>3. PICK size \in Sizes, life \in Lifetimes :
          cache' = IF Storable(size) THEN AfterPut(cache, Made(r, size, life)) ELSE cache
    BY <1>2 DEF Put
  <2> QED BY <2>1, <2>2, <2>3
<1>3. ASSUME NEW r \in Requests, Arrive(r) \/ TimeOut(r) \/ Progress(r)
      PROVE  Lookup(r) \/ Relook(r) \/ Put(r) \/ cache' = cache
  BY <1>3 DEF Arrive, TimeOut, Progress, Lead, Follow, Wake, Resume, Fetch, EndSet, EndPop, Pass
<1>4. CASE Clear \/ Tick \/ Over \/ UNCHANGED vars
  BY <1>4 DEF Clear, Tick, Over, vars
<1> QED BY <1>1, <1>2, <1>3, <1>4 DEF Next

LEMMA StoredSizes ==
  ASSUME cache.lru \in Seq(EntryType)
  PROVE  Sized(cache.lru)
<1> SUFFICES ASSUME NEW i \in DOMAIN cache.lru PROVE cache.lru[i].size \in Nat
  BY DEF Sized
<1>1. cache.lru[i] \in EntryType
  OBVIOUS
<1>2. cache.lru[i].size \in Sizes
  BY <1>1 DEF EntryType
<1> QED BY <1>2, GatewayConfig

LEMMA StepCoherent ==
  ASSUME IInv, CoherentInv, [Next]_vars
  PROVE  CoherentInv'
<1>1. /\ cache.lru \in Seq(EntryType) /\ DOMAIN cache = {"lru", "bytes"} /\ cache.bytes \in Nat
      /\ cache.lru \in Seq(Admitted) /\ Balanced(cache) /\ Len(cache.lru) =< MaxEntries
      /\ (MaxTotal > 0 => cache.bytes =< MaxTotal) /\ MaxEntries \in Nat /\ MaxTotal \in Nat
  <2>1. Sized(cache.lru) /\ cache.bytes = Bytes(cache.lru)
    BY StoredSizes DEF IInv, TypeOK, CoherentInv, Balanced
  <2>2. Bytes(cache.lru) \in Nat
    BY <2>1, BytesType DEF CoherentInv
  <2> QED BY <2>1, <2>2, CacheConfig DEF IInv, TypeOK, CoherentInv
<1>2. Admitted' = Admitted
  BY DEF Admitted, EntryType, Keys
<1>3. Sized(cache.lru)
  BY <1>1, StoredSizes
<1>4. CASE cache' = cache
  BY <1>2, <1>4 DEF CoherentInv, Balanced
<1>5. CASE cache' = EmptyCache
  <2>1. cache'.lru = <<>> /\ cache'.bytes = 0
    BY <1>5 DEF EmptyCache
  <2>2. Len(cache'.lru) =< MaxEntries /\ (MaxTotal > 0 => cache'.bytes =< MaxTotal)
    BY <1>1, <2>1
  <2> QED BY <2>1, <2>2, BytesEmpty, EmptySeq DEF CoherentInv, Balanced
<1>6. ASSUME NEW r \in Requests, cache' = AfterLookup(cache, Key(r), frame[r].clk)
      PROVE  CoherentInv'
  <2>1. cache'.lru \in Seq(Admitted)
    BY <1>1, <1>6, AfterLookupType
  <2>2. /\ Balanced(AfterLookup(cache, Key(r), frame[r].clk))
        /\ Sized(cache'.lru) /\ Len(cache'.lru) =< Len(cache.lru)
        /\ cache'.bytes =< cache.bytes
    BY <1>1, <1>3, <1>6, LookupBalanced
  <2>3. cache'.bytes = Bytes(cache'.lru)
    BY <1>6, <2>2 DEF Balanced
  <2>4. cache'.bytes \in Nat /\ Len(cache'.lru) \in Nat
    BY <2>1, <2>2, <2>3, BytesType
  <2>5. Len(cache'.lru) =< MaxEntries /\ (MaxTotal > 0 => cache'.bytes =< MaxTotal)
    BY <1>1, <2>2, <2>4
  <2> QED BY <1>2, <2>1, <2>3, <2>5 DEF CoherentInv, Balanced
<1>7. ASSUME NEW r \in Requests, NEW size \in Sizes, NEW life \in Lifetimes,
             Storable(size), Made(r, size, life) \in EntryType,
             cache' = AfterPut(cache, Made(r, size, life))
      PROVE  CoherentInv'
  <2> DEFINE e == Made(r, size, life)
  <2>1. e.size = size /\ size \in Nat
    BY GatewayConfig DEF Made
  <2>2. e \in Admitted /\ e.size \in Nat /\ Storable(e.size)
    BY <1>7, <2>1 DEF Admitted, Storable
  <2> HIDE DEF e
  <2>3. /\ Balanced(AfterPut(cache, e)) /\ Len(cache'.lru) =< MaxEntries
        /\ (MaxTotal > 0 => cache'.bytes =< MaxTotal) /\ cache'.lru \in Seq(Admitted)
    BY <1>1, <1>3, <1>7, <2>2, PutBalanced DEF e
  <2>4. cache'.bytes = Bytes(cache'.lru)
    BY <1>7, <2>3 DEF Balanced, e
  <2> QED BY <1>2, <2>3, <2>4 DEF CoherentInv, Balanced
<1> QED BY <1>4, <1>5, <1>6, <1>7, StoreSteps

LEMMA CoherentIsKept == Spec => []CoherentInv
<1>1. Init => CoherentInv
  BY InitCoherent
<1>2. IInv /\ CoherentInv /\ [Next]_vars => CoherentInv'
  BY StepCoherent
<1> QED BY <1>1, <1>2, Inductive, PTL DEF Spec

(* The byte counter is the sum of the stored sizes, no key is stored twice   *)
(* and every limit holds, after any interleaving of the lookups that delete, *)
(* the puts that replace and evict, and the clears.                          *)
THEOREM CounterAgrees == Spec => []CacheCoherent
<1>1. IInv /\ OrderInv /\ CoherentInv => CacheCoherent
  <2> SUFFICES ASSUME IInv, OrderInv, CoherentInv PROVE CacheCoherent
    OBVIOUS
  <2>1. \A i \in DOMAIN cache.lru : cache.lru[i] \in Admitted
    BY DEF CoherentInv
  <2> QED BY <2>1 DEF OrderInv, Unique, CoherentInv, Balanced, Admitted, CacheCoherent
<1> QED BY <1>1, OrderIsKept, CoherentIsKept, PTL

(* The evictions a put causes never take what was just put: it is the most   *)
(* recently used, and alone it is within both limits.                        *)
THEOREM PutsSurvive == Spec => PutSurvives
<1> DEFINE Survives ==
      \A r \in Requests :
         pc[r] = "put" /\ pc'[r] = "end" /\ cache' # cache
         => Holds(cache'.lru, Key(r)) /\ Get(cache'.lru, Key(r)).by = r
<1>1. ASSUME IInv, OrderInv, CoherentInv, [Next]_vars
      PROVE  [Survives]_vars
  <2> SUFFICES ASSUME NEW r \in Requests, pc[r] = "put", pc'[r] = "end", cache' # cache
               PROVE  Holds(cache'.lru, Key(r)) /\ Get(cache'.lru, Key(r)).by = r
    OBVIOUS
  <2>1. Put(r)
    <3>1. ASSUME NEW q \in Requests, Arrive(q) \/ TimeOut(q) \/ Progress(q)
          PROVE  q = r
      BY <1>1, <3>1 DEF Arrive, FirstStage, TimeOut, Progress, Lookup, LookupHit, LookupStale,
              LookupSie, LookupMiss, Lead, Follow, Wake, Resume, Relook, Fetch, Put, EndSet,
              EndPop, Pass, Exit, Goto, IInv, TypeOK
    <3>2. ~(Clear \/ Tick \/ Over \/ UNCHANGED vars)
      BY DEF Clear, Tick, Over, vars
    <3>3. Arrive(r) \/ TimeOut(r) \/ Progress(r)
      BY <1>1, <3>1, <3>2 DEF Next
    <3> QED BY <3>3 DEF Arrive, TimeOut, Progress, Lookup, Lead, Follow, Wake, Resume, Relook,
              Fetch, EndSet, EndPop, Pass
  <2>2. PICK size \in Sizes, life \in Lifetimes :
          cache' = IF Storable(size) THEN AfterPut(cache, Made(r, size, life)) ELSE cache
    BY <2>1 DEF Put
  <2> DEFINE e == Made(r, size, life)
  <2>3. /\ e \in EntryType /\ e.key = Key(r) /\ e.by = r /\ e.size \in Nat /\ Storable(e.size)
        /\ cache' = AfterPut(cache, e)
    <3>1. frame[r].got \in Outcomes
      BY <1>1 DEF IInv, OwnInv, PutsComplete, Outcomes
    <3>2. e \in EntryType
      BY <1>1, <3>1, MadeType DEF IInv
    <3>3. e.size = size /\ size \in Nat /\ e.key = Key(r) /\ e.by = r
      BY GatewayConfig DEF Made
    <3> QED BY <2>2, <3>2, <3>3
  <2> HIDE DEF e
  <2>4. cache.lru \in Seq(EntryType) /\ Sized(cache.lru) /\ Balanced(cache) /\ Unique(cache.lru)
    BY <1>1, StoredSizes DEF IInv, TypeOK, CoherentInv, OrderInv
  <2>5. /\ cache'.lru \in Seq(EntryType) /\ cache'.lru # <<>>
        /\ cache'.lru[Len(cache'.lru)] = e
    BY <2>3, <2>4, PutBalanced
  <2>6. Unique(cache'.lru)
    BY <2>3, <2>4, AfterPutUnique
  <2>7. Len(cache'.lru) \in DOMAIN cache'.lru
    BY <2>5
  <2>8. Holds(cache'.lru, Key(r))
    BY <2>3, <2>5, <2>7 DEF Holds
  <2>9. Index(cache'.lru, Key(r)) \in DOMAIN cache'.lru
        /\ cache'.lru[Index(cache'.lru, Key(r))].key = Key(r)
    BY <2>5, <2>8, GetHeld DEF Get
  <2>10. Index(cache'.lru, Key(r)) = Len(cache'.lru)
    BY <2>3, <2>5, <2>6, <2>7, <2>9 DEF Unique
  <2> QED BY <2>3, <2>5, <2>8, <2>10 DEF Get
<1> QED BY <1>1, OrderIsKept, CoherentIsKept, PTL DEF Spec, PutSurvives
=============================================================================
