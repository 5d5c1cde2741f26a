------------------------- MODULE GatewayCacheProofs -------------------------
(***************************************************************************)
(* What GatewayCache does for every set of requests, every menu, every     *)
(* configuration and every length of run.                                  *)
(***************************************************************************)
EXTENDS GatewayCache, CacheStoreProofs

-----------------------------------------------------------------------------
(* Types *)

LEMMA KeyType ==
  ASSUME TypeOK, NEW r \in Requests
  PROVE  Key(r) \in Keys
BY DEF TypeOK, Key, Keys

(* What a lookup returns is an entry. *)
LEMMA FoundType ==
  ASSUME TypeOK, NEW k, NEW t, Classify(cache.lru, k, t) # "MISS"
  PROVE  /\ Get(cache.lru, k) \in EntryType
         /\ Get(cache.lru, k).key = k
<1>1. Holds(cache.lru, k)
  BY DEF Classify
<1> QED BY <1>1, GetHeld DEF TypeOK

LEMMA InitType == Init => TypeOK
<1> SUFFICES ASSUME Init PROVE TypeOK
  OBVIOUS
<1>1. NewFrame \in FrameType
  BY DEF NewFrame, FrameType, Kinds
<1>2. Nothing \in SentType
  BY DEF Nothing, SentType
<1>3. DOMAIN cache = {"lru", "bytes"} /\ cache.lru \in Seq(EntryType)
  BY EmptySeq DEF Init, EmptyCache
<1> QED BY <1>1, <1>2, <1>3 DEF Init, TypeOK, Stages

(* The operators that steps are made of *)

LEMMA ExitType ==
  ASSUME TypeOK, NEW r \in Requests, Exit(r)
  PROVE  pc' \in [Requests -> Stages] /\ frame' \in [Requests -> FrameType]
<1>1. NewFrame \in FrameType
  BY DEF NewFrame, FrameType, Kinds
<1> QED BY <1>1 DEF Exit, Goto, TypeOK, Stages

LEMMA AnswerType ==
  ASSUME TypeOK, NEW r \in Requests, NEW e \in EntryType \cup {NoEntry},
         NEW tag \in {"HIT", "STALE", "SIE", "MISS", "BYPASS"}, Answer(r, tag, e)
  PROVE  sent' \in SentType
BY DEF Answer, TypeOK, FrameType, SentType

LEMMA SilentType == Silent => sent' \in SentType
BY DEF Silent, Nothing, SentType

LEMMA CacheLookupType ==
  ASSUME TypeOK, NEW k, NEW t, cache' = AfterLookup(cache, k, t)
  PROVE  DOMAIN cache' = {"lru", "bytes"} /\ cache'.lru \in Seq(EntryType)
BY AfterLookupType DEF TypeOK

LEMMA FrameOf ==
  ASSUME TypeOK, NEW r \in Requests
  PROVE  frame[r] \in FrameType
BY DEF TypeOK

LEMMA FrameStep ==
  ASSUME TypeOK, NEW r \in Requests, NEW f \in FrameType, frame' = [frame EXCEPT ![r] = f]
  PROVE  frame' \in [Requests -> FrameType]
BY DEF TypeOK

LEMMA ArriveType ==
  ASSUME TypeOK, NEW r \in Requests, Arrive(r)
  PROVE  TypeOK'
<1>1. FirstStage(r) \in Stages
  BY DEF FirstStage, Stages
<1>2. Settled(Key(r)) \in EntryType \cup {NoEntry}
  BY GetHeld DEF Settled, TypeOK
<1>3. frame' \in [Requests -> FrameType]
  <2> DEFINE e == IF req[r].ctl = "refresh" THEN Settled(Key(r)) ELSE NoEntry
  <2>1. e \in EntryType \cup {NoEntry}
    BY <1>2
  <2>2. frame' = [frame EXCEPT ![r].clk = now, ![r].seen = e]
    BY DEF Arrive
  <2> HIDE DEF e
  <2>3. [frame[r] EXCEPT !.clk = now, !.seen = e] \in FrameType
    BY <2>1, FrameOf, ZenonT(30) DEF TypeOK, FrameType
  <2> QED BY <2>2, <2>3, FrameStep, ZenonT(30)
<1> QED BY <1>1, <1>3, SilentType DEF Arrive, Goto, TypeOK

LEMMA LookupType ==
  ASSUME TypeOK, NEW r \in Requests, Lookup(r)
  PROVE  TypeOK'
<1> DEFINE k == Key(r)
           t == frame[r].clk
<1>1. DOMAIN cache' = {"lru", "bytes"} /\ cache'.lru \in Seq(EntryType)
  BY CacheLookupType DEF Lookup
<1>2. /\ pc' \in [Requests -> Stages]
      /\ frame' \in [Requests -> FrameType]
      /\ sent' \in SentType
  <2>1. CASE LookupHit(r)
    <3>1. Get(cache.lru, k) \in EntryType
      BY <2>1, FoundType DEF LookupHit
    <3> QED BY <2>1, <3>1, ExitType, AnswerType DEF LookupHit
  <2>2. CASE LookupStale(r)
    <3>1. Get(cache.lru, k) \in EntryType
      BY <2>2, FoundType DEF LookupStale
    <3>2. sent' \in SentType
      BY <2>2, <3>1, AnswerType DEF LookupStale
    <3>3. CASE Exit(r)
      BY <3>2, <3>3, ExitType
    <3>4. CASE Goto(r, "begin") /\ frame' = [frame EXCEPT ![r].kind = "SWR"]
      <4>1. [frame[r] EXCEPT !.kind = "SWR"] \in FrameType
        BY FrameOf DEF FrameType, Kinds
      <4>2. frame' \in [Requests -> FrameType]
        BY <3>4, <4>1, FrameStep
      <4> QED BY <3>2, <3>4, <4>2 DEF Goto, TypeOK, Stages
    <3> QED BY <2>2, <3>3, <3>4 DEF LookupStale
  <2>3. CASE LookupSie(r)
    <3>1. Get(cache.lru, k) \in EntryType
      BY <2>3, FoundType DEF LookupSie
    <3>2. frame' \in [Requests -> FrameType]
      <4>1. [frame[r] EXCEPT !.kind = "SIE", !.held = Get(cache.lru, Key(r))] \in FrameType
        BY <3>1, FrameOf DEF FrameType, Kinds
      <4> QED BY <2>3, <4>1, FrameStep DEF LookupSie
    <3> QED BY <2>3, <3>2, SilentType DEF LookupSie, Goto, TypeOK, Stages
  <2>4. CASE LookupMiss(r)
    BY <2>4, SilentType DEF LookupMiss, Goto, TypeOK, Stages
  <2> QED BY <2>1, <2>2, <2>3, <2>4 DEF Lookup
<1> QED BY <1>1, <1>2 DEF Lookup, TypeOK

LEMMA RelookType ==
  ASSUME TypeOK, NEW r \in Requests, Relook(r)
  PROVE  TypeOK'
<1>1. DOMAIN cache' = {"lru", "bytes"} /\ cache'.lru \in Seq(EntryType)
  BY CacheLookupType DEF Relook
<1>2. /\ pc' \in [Requests -> Stages]
      /\ frame' \in [Requests -> FrameType]
      /\ sent' \in SentType
  <2> DEFINE found == Classify(cache.lru, Key(r), frame[r].clk)
  <2>1. CASE found = "HIT" /\ Answer(r, "HIT", Get(cache.lru, Key(r))) /\ Exit(r)
    <3>1. Get(cache.lru, Key(r)) \in EntryType
      BY <2>1, FoundType
    <3> QED BY <2>1, <3>1, ExitType, AnswerType
  <2>2. CASE found # "HIT" /\ frame[r].kind = "SIE" /\ Answer(r, "SIE", frame[r].held) /\ Exit(r)
    <3>1. frame[r].held \in EntryType \cup {NoEntry}
      BY DEF TypeOK, FrameType
    <3> QED BY <2>2, <3>1, ExitType, AnswerType
  <2>3. CASE found # "HIT" /\ frame[r].kind = "MISS" /\ Goto(r, "pass") /\ Silent /\ UNCHANGED frame
    BY <2>3, SilentType DEF Goto, TypeOK, Stages
  <2> QED BY <2>1, <2>2, <2>3 DEF Relook
<1> QED BY <1>1, <1>2 DEF Relook, TypeOK

LEMMA LeadType ==
  ASSUME TypeOK, NEW r \in Requests, Lead(r)
  PROVE  TypeOK'
<1>1. [frame[r] EXCEPT !.led = era] \in FrameType
  BY FrameOf, ZenonT(30) DEF TypeOK, FrameType
<1>2. frame' \in [Requests -> FrameType]
  BY <1>1, FrameStep DEF Lead
<1>3. inflight' \in [Keys -> Requests \cup {NoRequest}]
  BY KeyType DEF Lead, TypeOK
<1> QED BY <1>2, <1>3, SilentType DEF Lead, Goto, TypeOK, Stages, Leading

LEMMA FollowType ==
  ASSUME TypeOK, NEW r \in Requests, Follow(r)
  PROVE  TypeOK'
<1>1. pc' \in [Requests -> Stages] /\ frame' \in [Requests -> FrameType]
  <2>1. CASE frame[r].kind = "SWR"
    BY <2>1, ExitType DEF Follow
  <2>2. CASE frame[r].kind # "SWR"
    <3>1. inflight[Key(r)] \in Requests \cup {NoRequest}
      BY KeyType DEF TypeOK
    <3>2. [frame[r] EXCEPT !.waits = inflight[Key(r)]] \in FrameType
      BY <3>1, FrameOf DEF FrameType
    <3>3. frame' \in [Requests -> FrameType]
      BY <2>2, <3>2, FrameStep DEF Follow
    <3> QED BY <2>2, <3>3 DEF Follow, Goto, TypeOK, Stages
  <2> QED BY <2>1, <2>2
<1> QED BY <1>1, SilentType DEF Follow, TypeOK

LEMMA ResumeType ==
  ASSUME TypeOK, NEW r \in Requests, Resume(r)
  PROVE  TypeOK'
<1>1. [frame[r] EXCEPT !.waits = NoRequest, !.clk = now] \in FrameType
  BY FrameOf, ZenonT(30) DEF TypeOK, FrameType
<1>2. frame' \in [Requests -> FrameType]
  BY <1>1, FrameStep, ZenonT(30) DEF Resume
<1> QED BY <1>2, SilentType DEF Resume, Goto, TypeOK, Stages

LEMMA FetchType ==
  ASSUME TypeOK, NEW r \in Requests, NEW o \in Outcomes, Fetch(r, o)
  PROVE  TypeOK'
<1>1. sent' \in SentType
  <2>1. frame[r].held \in EntryType \cup {NoEntry}
    BY FrameOf DEF FrameType
  <2> QED BY <2>1, AnswerType, SilentType DEF Fetch, FetchAnswer
<1>2. frame' \in [Requests -> FrameType]
  <2>1. [frame[r] EXCEPT !.got = o, !.clk = now] \in FrameType
    BY FrameOf, ZenonT(30) DEF TypeOK, FrameType
  <2>2. CASE Cacheable(r, o)
    <3>1. frame' = [frame EXCEPT ![r].got = o, ![r].clk = now]
      BY <2>2 DEF Fetch
    <3> QED BY <2>1, <3>1, FrameStep, ZenonT(30)
  <2>3. CASE ~Cacheable(r, o)
    BY <2>3 DEF Fetch, TypeOK
  <2> QED BY <2>2, <2>3
<1>3. pc' \in [Requests -> Stages]
  BY DEF Fetch, Goto, TypeOK, Stages, Leading
<1> QED BY <1>1, <1>2, <1>3 DEF Fetch, TypeOK

(* An entry expires after it was put. *)
LEMMA LifetimeType == Lifetimes \subseteq Nat /\ \A life \in Lifetimes : life =< TTL
<1> DEFINE T == {Jitter, TTL - 1}
<1>1. T \subseteq Nat /\ TTL - 1 \in T
  BY CacheConfig
<1>2. Min(T) \in Nat /\ Min(T) =< TTL - 1
  <2> HIDE DEF T
  <2> QED BY <1>1, MinNat
<1>3. Lifetimes = {TTL - j : j \in 0 .. Min(T)}
  BY DEF Lifetimes
<1> HIDE DEF T
<1> QED BY <1>2, <1>3, CacheConfig

LEMMA MadeType ==
  ASSUME TypeOK, NEW r \in Requests, frame[r].got \in Outcomes, NEW size \in Sizes, NEW life \in Lifetimes
  PROVE  Made(r, size, life) \in EntryType
<1>1. frame[r].clk \in Nat /\ frame[r].led \in Nat /\ frame[r].clk + life \in Nat
  BY LifetimeType, FrameOf DEF FrameType
<1> QED BY <1>1, KeyType DEF Made, EntryType

LEMMA PutType ==
  ASSUME TypeOK, NEW r \in Requests, Put(r), frame[r].got \in Outcomes
  PROVE  TypeOK'
<1>1. DOMAIN cache' = {"lru", "bytes"} /\ cache'.lru \in Seq(EntryType)
  <2>1. PICK size \in Sizes, life \in Lifetimes :
          cache' = IF Storable(size) THEN AfterPut(cache, Made(r, size, life)) ELSE cache
    BY DEF Put
  <2>2. Made(r, size, life) \in EntryType
    BY MadeType
  <2>3. CASE Storable(size)
    BY <2>1, <2>2, <2>3, AfterPutType DEF TypeOK
  <2>4. CASE ~Storable(size)
    BY <2>1, <2>4 DEF TypeOK
  <2> QED BY <2>3, <2>4
<1> QED BY <1>1, SilentType DEF Put, Goto, TypeOK, Stages, Leading

LEMMA EndType ==
  ASSUME TypeOK, NEW r \in Requests, EndSet(r) \/ EndPop(r) \/ Pass(r)
  PROVE  TypeOK'
<1>1. CASE EndSet(r)
  BY <1>1, SilentType DEF EndSet, Goto, TypeOK, Stages, Leading
<1>2. CASE EndPop(r)
  <2>1. inflight' \in [Keys -> Requests \cup {NoRequest}]
    BY <1>2, KeyType DEF EndPop, TypeOK
  <2> QED BY <1>2, <2>1, ExitType, SilentType DEF EndPop, TypeOK
<1>3. CASE Pass(r)
  BY <1>3, ExitType, AnswerType DEF Pass, TypeOK
<1> QED BY <1>1, <1>2, <1>3

LEMMA EnvironmentType ==
  ASSUME TypeOK, Clear \/ Tick \/ UNCHANGED vars
  PROVE  TypeOK'
<1>1. CASE Clear
  BY <1>1, SilentType, EmptySeq DEF Clear, EmptyCache, TypeOK
<1>2. CASE Tick
  BY <1>2, SilentType DEF Tick, TypeOK
<1>3. CASE UNCHANGED vars
  BY <1>3 DEF vars, TypeOK
<1> QED BY <1>1, <1>2, <1>3
-----------------------------------------------------------------------------
(* The inductive invariant of the singleflight protocol                    *)

(* The leaders of the present era are exactly the owners of the events in    *)
(* the table.  Earlier leaders are those a clear left running.               *)
OwnersLead ==
    \A k \in Keys : inflight[k] # NoRequest =>
        /\ pc[inflight[k]] \in Leading
        /\ Key(inflight[k]) = k
        /\ frame[inflight[k]].led = era

LeadersOwn ==
    \A r \in Requests : pc[r] \in Leading =>
        /\ frame[r].led =< era
        /\ frame[r].led = era => inflight[Key(r)] = r

(* A leader that removes its event has set it. *)
PopsFired == \A r \in Requests : pc[r] = "pop" => r \in fired

WaitsForLeader ==
    \A r \in Requests : pc[r] = "wait" =>
        /\ frame[r].waits \in Requests
        /\ frame[r].waits \in fired \/ pc[frame[r].waits] \in Leading \ {"pop"}

FlightInv ==
    /\ OwnersLead
    /\ LeadersOwn
    /\ Singleflight
    /\ PopsFired
    /\ WaitsForLeader

LEMMA InitFlight == Init => FlightInv
BY GatewayConfig DEF Init, FlightInv, OwnersLead, LeadersOwn, Singleflight, PopsFired,
   WaitsForLeader, Leading

(* Most steps do not touch the protocol. *)
LEMMA QuietStep ==
  ASSUME TypeOK, FlightInv, UNCHANGED <<inflight, fired, era, req>>,
         \A q \in Requests :
            /\ pc'[q] \in Leading <=> pc[q] \in Leading
            /\ pc'[q] = "pop" <=> pc[q] = "pop"
            /\ pc'[q] = "wait" => pc[q] = "wait" /\ frame'[q].waits = frame[q].waits
            /\ pc[q] \in Leading => frame'[q].led = frame[q].led
  PROVE  FlightInv'
<1>1. \A q \in Requests : Key(q)' = Key(q)
  BY DEF Key, KeyOf
<1>2. OwnersLead'
  BY <1>1 DEF FlightInv, OwnersLead, TypeOK
<1>3. LeadersOwn'
  BY <1>1 DEF FlightInv, LeadersOwn
<1>4. Singleflight'
  BY <1>1 DEF FlightInv, Singleflight
<1>5. PopsFired'
  BY DEF FlightInv, PopsFired
<1>6. WaitsForLeader'
  BY DEF FlightInv, WaitsForLeader
<1> QED BY <1>2, <1>3, <1>4, <1>5, <1>6 DEF FlightInv

LEMMA LeadFlight ==
  ASSUME TypeOK, FlightInv, NEW r \in Requests, Lead(r)
  PROVE  FlightInv'
<1>1. \A q \in Requests : Key(q)' = Key(q)
  BY DEF Lead, Key, KeyOf
<1>2. /\ pc'[r] = "fetch" /\ frame'[r].led = era
      /\ inflight'[Key(r)] = r /\ inflight[Key(r)] = NoRequest
      /\ pc[r] = "begin"
  BY KeyType DEF Lead, Goto, Free, TypeOK, FrameType
<1>3. /\ \A q \in Requests : q # r => pc'[q] = pc[q] /\ frame'[q] = frame[q]
      /\ \A k \in Keys : k # Key(r) => inflight'[k] = inflight[k]
      /\ era' = era /\ fired' = fired
  BY DEF Lead, Goto, TypeOK
<1>4. OwnersLead'
  BY <1>1, <1>2, <1>3 DEF FlightInv, OwnersLead, TypeOK, Leading
<1>5. LeadersOwn'
  <2> SUFFICES ASSUME NEW q \in Requests, pc'[q] \in Leading
               PROVE  frame'[q].led =< era /\ (frame'[q].led = era => inflight'[Key(q)] = q)
    BY <1>1, <1>3 DEF LeadersOwn
  <2>1. CASE q = r
    BY <1>2, <2>1 DEF TypeOK
  <2>2. CASE q # r
    <3>1. frame[q].led = era => Key(q) # Key(r)
      BY <1>2, <1>3, <2>2, GatewayConfig DEF FlightInv, LeadersOwn
    <3> QED BY <1>3, <2>2, <3>1, KeyType DEF FlightInv, LeadersOwn
  <2> QED BY <2>1, <2>2
<1>6. Singleflight'
  <2>1. \A q \in Requests : pc'[q] \in Leading /\ Key(q) = Key(r) /\ frame'[q].led = era => q = r
    BY <1>1, <1>2, <1>3, <1>5 DEF LeadersOwn
  <2> QED BY <1>1, <1>2, <1>3, <2>1 DEF FlightInv, Singleflight
<1>7. PopsFired'
  BY <1>2, <1>3 DEF FlightInv, PopsFired
<1>8. WaitsForLeader'
  BY <1>2, <1>3 DEF FlightInv, WaitsForLeader, Leading
<1> QED BY <1>4, <1>5, <1>6, <1>7, <1>8 DEF FlightInv

LEMMA FollowFlight ==
  ASSUME TypeOK, FlightInv, NEW r \in Requests, Follow(r)
  PROVE  FlightInv'
<1>1. CASE frame[r].kind = "SWR"
  <2>1. \A q \in Requests : q # r => pc'[q] = pc[q] /\ frame'[q] = frame[q]
    BY <1>1 DEF Follow, Exit, Goto, TypeOK
  <2>2. pc[r] = "begin" /\ pc'[r] = "done"
    BY <1>1 DEF Follow, Exit, Goto, TypeOK
  <2> QED BY <2>1, <2>2, QuietStep DEF Follow, Leading
<1>2. CASE frame[r].kind # "SWR"
  <2>1. \A q \in Requests : Key(q)' = Key(q)
    BY DEF Follow, Key, KeyOf
  <2>2. /\ pc[r] = "begin" /\ pc'[r] = "wait"
        /\ frame'[r].waits = inflight[Key(r)] /\ frame'[r].led = frame[r].led
        /\ inflight[Key(r)] # NoRequest
    BY <1>2 DEF Follow, Goto, Free, TypeOK, FrameType
  <2>3. /\ \A q \in Requests : q # r => pc'[q] = pc[q] /\ frame'[q] = frame[q]
        /\ UNCHANGED <<inflight, era, fired>>
    BY <1>2 DEF Follow, Goto, TypeOK
  <2>4. OwnersLead'
    BY <2>1, <2>2, <2>3 DEF FlightInv, OwnersLead, TypeOK, Leading
  <2>5. LeadersOwn' /\ Singleflight'
    BY <2>1, <2>2, <2>3 DEF FlightInv, LeadersOwn, Singleflight, Leading
  <2>6. PopsFired'
    BY <2>2, <2>3 DEF FlightInv, PopsFired
  <2>7. /\ inflight[Key(r)] \in Requests
        /\ pc[inflight[Key(r)]] \in Leading
        /\ pc[inflight[Key(r)]] = "pop" => inflight[Key(r)] \in fired
    BY <2>2, KeyType DEF FlightInv, OwnersLead, PopsFired, TypeOK
  <2>8. WaitsForLeader'
    BY <2>2, <2>3, <2>7 DEF FlightInv, WaitsForLeader, Leading
  <2> QED BY <2>4, <2>5, <2>6, <2>8 DEF FlightInv
<1> QED BY <1>1, <1>2

LEMMA EndSetFlight ==
  ASSUME TypeOK, FlightInv, NEW r \in Requests, EndSet(r)
  PROVE  FlightInv'
<1>1. /\ \A q \in Requests : Key(q)' = Key(q)
      /\ UNCHANGED <<inflight, era, frame>>
      /\ fired' = fired \cup {r}
  BY DEF EndSet, Key, KeyOf
<1>2. /\ pc[r] = "end" /\ pc'[r] = "pop"
      /\ \A q \in Requests : q # r => pc'[q] = pc[q]
  BY DEF EndSet, Goto, TypeOK
<1>3. OwnersLead' /\ LeadersOwn' /\ Singleflight'
  BY <1>1, <1>2 DEF FlightInv, OwnersLead, LeadersOwn, Singleflight, TypeOK, Leading
<1>4. PopsFired' /\ WaitsForLeader'
  BY <1>1, <1>2 DEF FlightInv, PopsFired, WaitsForLeader, Leading
<1> QED BY <1>3, <1>4 DEF FlightInv

LEMMA EndPopFlight ==
  ASSUME TypeOK, FlightInv, NEW r \in Requests, EndPop(r)
  PROVE  FlightInv'
<1>1. /\ \A q \in Requests : Key(q)' = Key(q)
      /\ UNCHANGED <<era, fired>>
  BY DEF EndPop, Key, KeyOf
<1>2. /\ pc[r] = "pop" /\ pc'[r] = "done" /\ r \in fired
      /\ \A q \in Requests : q # r => pc'[q] = pc[q] /\ frame'[q] = frame[q]
  BY DEF EndPop, Exit, Goto, TypeOK, FlightInv, PopsFired
<1>3. \A k \in Keys : inflight'[k] = IF k = Key(r) /\ inflight[k] = r THEN NoRequest ELSE inflight[k]
  BY KeyType DEF EndPop, Owns, TypeOK
<1>4. OwnersLead'
  <2> SUFFICES ASSUME NEW k \in Keys, inflight'[k] # NoRequest
               PROVE  /\ pc'[inflight'[k]] \in Leading
                      /\ Key(inflight[k])' = k
                      /\ frame'[inflight'[k]].led = era'
    BY DEF OwnersLead
  <2>1. inflight'[k] = inflight[k] /\ inflight[k] \in Requests /\ inflight[k] # r
    BY <1>3 DEF FlightInv, OwnersLead, TypeOK
  <2>2. pc[inflight[k]] \in Leading /\ Key(inflight[k]) = k /\ frame[inflight[k]].led = era
    BY <2>1 DEF FlightInv, OwnersLead
  <2>3. Key(inflight[k])' = Key(inflight[k])
    BY <1>1, <2>1
  <2> QED BY <1>1, <1>2, <2>1, <2>2, <2>3
<1>5. LeadersOwn'
  BY <1>1, <1>2, <1>3, KeyType DEF FlightInv, LeadersOwn, Leading
<1>6. Singleflight'
  BY <1>1, <1>2 DEF FlightInv, Singleflight, Leading
<1>7. PopsFired' /\ WaitsForLeader'
  BY <1>1, <1>2 DEF FlightInv, PopsFired, WaitsForLeader, Leading
<1> QED BY <1>4, <1>5, <1>6, <1>7 DEF FlightInv

(* A clear takes every event out of the table, and opens an era in which no  *)
(* running leader has its place.                                             *)
LEMMA ClearFlight ==
  ASSUME TypeOK, FlightInv, Clear
  PROVE  FlightInv'
<1>1. /\ \A q \in Requests : Key(q)' = Key(q)
      /\ UNCHANGED <<pc, frame, fired>>
      /\ era' = era + 1
      /\ \A k \in Keys : inflight'[k] = NoRequest
  BY DEF Clear, Key, KeyOf
<1>2. \A q \in Requests : frame[q].led \in Nat
  BY DEF TypeOK, FrameType
<1>3. OwnersLead'
  BY <1>1 DEF OwnersLead
<1>4. LeadersOwn'
  BY <1>1, <1>2 DEF FlightInv, LeadersOwn, TypeOK
<1>5. Singleflight' /\ PopsFired' /\ WaitsForLeader'
  BY <1>1 DEF FlightInv, Singleflight, PopsFired, WaitsForLeader
<1> QED BY <1>3, <1>4, <1>5 DEF FlightInv

(* The steps that leave the protocol alone, all by QuietStep. *)
LEMMA ArriveFlight ==
  ASSUME TypeOK, FlightInv, NEW r \in Requests, Arrive(r)
  PROVE  FlightInv'
<1>1. pc[r] = "idle" /\ pc'[r] \in {"pass", "begin", "lookup"}
  BY DEF Arrive, FirstStage, Goto, TypeOK
<1>2. \A q \in Requests : q # r => pc'[q] = pc[q] /\ frame'[q] = frame[q]
  BY DEF Arrive, Goto, TypeOK
<1> QED BY <1>1, <1>2, QuietStep DEF Arrive, Leading

LEMMA LookupFlight ==
  ASSUME TypeOK, FlightInv, NEW r \in Requests, Lookup(r)
  PROVE  FlightInv'
<1>1. pc[r] = "lookup" /\ pc'[r] \in {"begin", "done"}
  BY DEF Lookup, LookupHit, LookupStale, LookupSie, LookupMiss, Exit, Goto, TypeOK
<1>2. \A q \in Requests : q # r => pc'[q] = pc[q] /\ frame'[q] = frame[q]
  BY DEF Lookup, LookupHit, LookupStale, LookupSie, LookupMiss, Exit, Goto, TypeOK
<1> QED BY <1>1, <1>2, QuietStep DEF Lookup, Leading

LEMMA RelookFlight ==
  ASSUME TypeOK, FlightInv, NEW r \in Requests, Relook(r)
  PROVE  FlightInv'
<1>1. pc[r] = "relook" /\ pc'[r] \in {"pass", "done"}
  BY DEF Relook, Exit, Goto, TypeOK
<1>2. \A q \in Requests : q # r => pc'[q] = pc[q] /\ frame'[q] = frame[q]
  BY DEF Relook, Exit, Goto, TypeOK
<1> QED BY <1>1, <1>2, QuietStep DEF Relook, Leading

LEMMA ResumeFlight ==
  ASSUME TypeOK, FlightInv, NEW r \in Requests, Resume(r)
  PROVE  FlightInv'
<1>1. pc[r] = "wait" /\ pc'[r] = "relook"
  BY DEF Resume, Goto, TypeOK
<1>2. \A q \in Requests : q # r => pc'[q] = pc[q] /\ frame'[q] = frame[q]
  BY DEF Resume, Goto, TypeOK
<1> QED BY <1>1, <1>2, QuietStep DEF Resume, Leading

LEMMA FetchFlight ==
  ASSUME TypeOK, FlightInv, NEW r \in Requests, NEW o \in Outcomes, Fetch(r, o)
  PROVE  FlightInv'
<1>1. pc[r] = "fetch" /\ pc'[r] \in {"put", "end"} /\ frame'[r].led = frame[r].led
  BY DEF Fetch, Goto, TypeOK, FrameType
<1>2. \A q \in Requests : q # r => pc'[q] = pc[q] /\ frame'[q] = frame[q]
  BY DEF Fetch, Goto, TypeOK
<1> QED BY <1>1, <1>2, QuietStep DEF Fetch, Leading

LEMMA PutFlight ==
  ASSUME TypeOK, FlightInv, NEW r \in Requests, Put(r)
  PROVE  FlightInv'
<1>1. pc[r] = "put" /\ pc'[r] = "end" /\ frame' = frame
  BY DEF Put, Goto, TypeOK
<1>2. \A q \in Requests : q # r => pc'[q] = pc[q]
  BY DEF Put, Goto, TypeOK
<1> QED BY <1>1, <1>2, QuietStep DEF Put, Leading

LEMMA PassFlight ==
  ASSUME TypeOK, FlightInv, NEW r \in Requests, Pass(r)
  PROVE  FlightInv'
<1>1. pc[r] = "pass" /\ pc'[r] = "done"
  BY DEF Pass, Exit, Goto, TypeOK
<1>2. \A q \in Requests : q # r => pc'[q] = pc[q] /\ frame'[q] = frame[q]
  BY DEF Pass, Exit, Goto, TypeOK
<1> QED BY <1>1, <1>2, QuietStep DEF Pass, Leading

LEMMA TimeFlight ==
  ASSUME TypeOK, FlightInv, Tick \/ UNCHANGED vars
  PROVE  FlightInv'
BY QuietStep DEF Tick, vars

LEMMA StepFlight ==
  ASSUME TypeOK, FlightInv, [Next]_vars
  PROVE  FlightInv'
<1>1. ASSUME NEW r \in Requests, Arrive(r) \/ TimeOut(r) \/ Progress(r)
      PROVE  FlightInv'
  BY <1>1, ArriveFlight, LookupFlight, LeadFlight, FollowFlight, ResumeFlight, RelookFlight,
     FetchFlight, PutFlight, EndSetFlight, EndPopFlight, PassFlight
     DEF Progress, TimeOut, Wake
<1> QED BY <1>1, ClearFlight, TimeFlight DEF Next, Over
-----------------------------------------------------------------------------
(* Where answers come from *)

(* The entries that may be stored: complete answers to requests that allow   *)
(* it, under their own key.                                                  *)
Good ==
    { e \in EntryType : /\ e.body \in {"ok", "sse"}
                        /\ req[e.by].ctl # "no-store"
                        /\ e.key = Key(e.by)
                        /\ e.exp =< e.born + TTL }

StoredGood == cache.lru \in Seq(Good)

HeldGood ==
    \A r \in Requests : frame[r].held # NoEntry =>
        frame[r].held \in Good /\ frame[r].held.key = Key(r)

(* A no-store request never reaches the caching path. *)
Caching == {"lookup", "begin", "wait", "relook"} \cup Leading

Caches ==
    \A r \in Requests :
        pc[r] \in Caching => req[r].ctl # "no-store"

PutsComplete == \A r \in Requests : pc[r] = "put" => frame[r].got \in {"ok", "sse"}

SentGood ==
    sent.entry # NoEntry =>
        /\ sent.to \in Requests
        /\ sent.entry \in Good
        /\ sent.entry.key = Key(sent.to)

SentFresh ==
    /\ sent.tag \in {"HIT", "STALE"} => sent.entry \in Good
    /\ sent.tag = "HIT" => sent.at < sent.entry.exp
    /\ sent.tag = "STALE" => sent.at < StaleUntil(sent.entry)

OwnInv == StoredGood /\ HeldGood /\ Caches /\ PutsComplete /\ SentGood /\ SentFresh

LEMMA InitOwn == Init => OwnInv
BY EmptySeq, GatewayConfig DEF Init, EmptyCache, NewFrame, Nothing, OwnInv, StoredGood, HeldGood, Caches,
   PutsComplete, SentGood, SentFresh, Caching, Leading

LEMMA OwnAnswered == TypeOK /\ OwnInv => OwnAnswers
BY DEF OwnInv, SentGood, OwnAnswers, Good, Key, KeyOf

LEMMA FreshAnswered == TypeOK /\ OwnInv => FreshAnswers
<1> SUFFICES ASSUME TypeOK, OwnInv PROVE FreshAnswers
  OBVIOUS
<1>1. CASE sent.tag \in {"HIT", "STALE"}
  <2>1. /\ sent.entry.exp =< sent.entry.born + TTL
        /\ sent.entry.exp \in Nat /\ sent.entry.born \in Nat
    BY <1>1 DEF OwnInv, SentFresh, Good, EntryType
  <2>2. sent.at \in Nat
    BY DEF TypeOK, SentType
  <2> QED BY <2>1, <2>2, CacheConfig DEF OwnInv, SentFresh, FreshAnswers, StaleUntil
<1>2. CASE sent.tag \notin {"HIT", "STALE"}
  BY <1>2 DEF FreshAnswers
<1> QED BY <1>1, <1>2

LEMMA GoodStays == UNCHANGED req => Good' = Good
BY DEF Good, Key, KeyOf

LEMMA FoundGood ==
  ASSUME TypeOK, OwnInv, NEW k, NEW t, Classify(cache.lru, k, t) # "MISS"
  PROVE  /\ Get(cache.lru, k) \in Good
         /\ Get(cache.lru, k).key = k
<1>1. Holds(cache.lru, k)
  BY DEF Classify
<1> QED BY <1>1, GetHeld DEF OwnInv, StoredGood

(* What _cache_lookup answers at clock t is in its window at t. *)
LEMMA HitFound ==
  ASSUME TypeOK, OwnInv, NEW k, NEW t \in Nat, Classify(cache.lru, k, t) = "HIT"
  PROVE  t < Get(cache.lru, k).exp
<1>1. Get(cache.lru, k).exp \in Nat
  BY FoundType DEF EntryType
<1> QED BY <1>1 DEF Classify

LEMMA StaleFound ==
  ASSUME TypeOK, OwnInv, NEW k, NEW t \in Nat, Classify(cache.lru, k, t) = "STALE"
  PROVE  t < StaleUntil(Get(cache.lru, k))
<1>1. Get(cache.lru, k).exp \in Nat
  BY FoundType DEF EntryType
<1> QED BY <1>1, CacheConfig DEF Classify, StaleUntil

LEMMA ClockType == ASSUME TypeOK, NEW r \in Requests PROVE frame[r].clk \in Nat
BY DEF TypeOK, FrameType

LEMMA LookupGood ==
  ASSUME TypeOK, OwnInv, NEW k, NEW t, cache' = AfterLookup(cache, k, t)
  PROVE  cache'.lru \in Seq(Good)
BY AfterLookupType DEF TypeOK, OwnInv, StoredGood

(* What a step of one thread has to establish. *)
LEMMA OwnStep ==
  ASSUME TypeOK, OwnInv, NEW r \in Requests, UNCHANGED req,
         cache'.lru \in Seq(Good),
         \A q \in Requests : q # r => pc'[q] = pc[q] /\ frame'[q] = frame[q],
         frame'[r].held # NoEntry => frame'[r].held \in Good /\ frame'[r].held.key = Key(r),
         pc'[r] \in Caching => req[r].ctl # "no-store",
         pc'[r] = "put" => frame'[r].got \in {"ok", "sse"},
         sent'.entry # NoEntry =>
            sent'.to = r /\ sent'.entry \in Good /\ sent'.entry.key = Key(r),
         sent'.tag \in {"HIT", "STALE"} => sent'.entry \in Good,
         sent'.tag = "HIT" => sent'.at < sent'.entry.exp,
         sent'.tag = "STALE" => sent'.at < StaleUntil(sent'.entry)
  PROVE  OwnInv'
<1>1. Good' = Good
  BY GoodStays
<1>2. \A q \in Requests : Key(q)' = Key(q)
  BY DEF Key, KeyOf
<1>3. StoredGood'
  BY <1>1 DEF StoredGood
<1>4. HeldGood'
  BY <1>1, <1>2 DEF OwnInv, HeldGood
<1>5. Caches' /\ PutsComplete'
  BY DEF OwnInv, Caches, PutsComplete
<1>6. SentGood'
  <2>1. Key(r)' = Key(r)
    BY <1>2
  <2> QED BY <1>1, <2>1 DEF SentGood, Key
<1>7. SentFresh'
  BY <1>1 DEF SentFresh, StaleUntil
<1> QED BY <1>3, <1>4, <1>5, <1>6, <1>7 DEF OwnInv

LEMMA NoHeld == NewFrame.held = NoEntry /\ Nothing.entry = NoEntry /\ Nothing.tag = "none"
BY DEF NewFrame, Nothing

LEMMA ExitOwn ==
  ASSUME TypeOK, NEW r \in Requests, Exit(r)
  PROVE  /\ pc'[r] = "done" /\ frame'[r].held = NoEntry
         /\ \A q \in Requests : q # r => pc'[q] = pc[q] /\ frame'[q] = frame[q]
BY NoHeld DEF Exit, Goto, TypeOK

LEMMA HeldOwn ==
  ASSUME OwnInv, NEW r \in Requests, frame[r].held # NoEntry
  PROVE  frame[r].held \in Good /\ frame[r].held.key = Key(r)
BY DEF OwnInv, HeldGood

LEMMA LookupOwn ==
  ASSUME TypeOK, OwnInv, NEW r \in Requests, Lookup(r)
  PROVE  OwnInv'
<1>1. cache'.lru \in Seq(Good) /\ UNCHANGED req /\ pc[r] = "lookup"
  BY LookupGood DEF Lookup
<1>2. req[r].ctl # "no-store"
  BY <1>1 DEF OwnInv, Caches, Caching
<1>3. CASE LookupHit(r)
  BY <1>1, <1>3, FoundGood, HitFound, ClockType, ExitOwn, OwnStep DEF LookupHit, Answer, Caching, Leading
<1>4. CASE LookupStale(r)
  <2>1. /\ sent'.to = r /\ sent'.entry \in Good /\ sent'.entry.key = Key(r)
        /\ sent'.tag = "STALE" /\ sent'.at < StaleUntil(sent'.entry)
    BY <1>4, FoundGood, StaleFound, ClockType DEF LookupStale, Answer
  <2>2. CASE Exit(r)
    BY <1>1, <2>1, <2>2, ExitOwn, OwnStep DEF Caching, Leading
  <2>3. CASE Goto(r, "begin") /\ frame' = [frame EXCEPT ![r].kind = "SWR"]
    <3>1. frame'[r].held = frame[r].held /\ pc'[r] = "begin"
      BY <2>3 DEF Goto, TypeOK, FrameType
    <3>2. \A q \in Requests : q # r => pc'[q] = pc[q] /\ frame'[q] = frame[q]
      BY <2>3 DEF Goto, TypeOK
    <3> QED BY <1>1, <1>2, <2>1, <3>1, <3>2, HeldOwn, OwnStep
  <2> QED BY <1>4, <2>2, <2>3 DEF LookupStale
<1>5. CASE LookupSie(r)
  <2>1. Get(cache.lru, Key(r)) \in Good /\ Get(cache.lru, Key(r)).key = Key(r)
    BY <1>5, FoundGood DEF LookupSie
  <2>2. frame'[r].held = Get(cache.lru, Key(r)) /\ pc'[r] = "begin"
    BY <1>5 DEF LookupSie, Goto, TypeOK, FrameType
  <2>3. \A q \in Requests : q # r => pc'[q] = pc[q] /\ frame'[q] = frame[q]
    BY <1>5 DEF LookupSie, Goto, TypeOK
  <2>4. sent'.entry = NoEntry /\ sent'.tag \notin {"HIT", "STALE"}
    BY <1>5, NoHeld DEF LookupSie, Silent
  <2> QED BY <1>1, <1>2, <2>1, <2>2, <2>3, <2>4, OwnStep
<1>6. CASE LookupMiss(r)
  <2>1. frame' = frame /\ pc'[r] = "begin" /\ sent'.entry = NoEntry /\ sent'.tag \notin {"HIT", "STALE"}
    BY <1>6, NoHeld DEF LookupMiss, Goto, Silent, TypeOK
  <2>2. \A q \in Requests : q # r => pc'[q] = pc[q] /\ frame'[q] = frame[q]
    BY <1>6 DEF LookupMiss, Goto, TypeOK
  <2> QED BY <1>1, <1>2, <2>1, <2>2, HeldOwn, OwnStep
<1> QED BY <1>3, <1>4, <1>5, <1>6 DEF Lookup

LEMMA RelookOwn ==
  ASSUME TypeOK, OwnInv, NEW r \in Requests, Relook(r)
  PROVE  OwnInv'
<1> DEFINE found == Classify(cache.lru, Key(r), frame[r].clk)
<1>1. cache'.lru \in Seq(Good) /\ UNCHANGED req
  BY LookupGood DEF Relook
<1>2. CASE found = "HIT" /\ Answer(r, "HIT", Get(cache.lru, Key(r))) /\ Exit(r)
  BY <1>1, <1>2, FoundGood, HitFound, ClockType, ExitOwn, OwnStep DEF Answer, Caching, Leading
<1>3. CASE Answer(r, "SIE", frame[r].held) /\ Exit(r)
  BY <1>1, <1>3, HeldOwn, ExitOwn, OwnStep DEF Answer, Caching, Leading
<1>4. CASE Goto(r, "pass") /\ Silent /\ UNCHANGED frame
  <2>1. pc'[r] = "pass" /\ sent'.entry = NoEntry /\ sent'.tag \notin {"HIT", "STALE"}
    BY <1>4, NoHeld DEF Goto, Silent, TypeOK
  <2>2. \A q \in Requests : q # r => pc'[q] = pc[q] /\ frame'[q] = frame[q]
    BY <1>4 DEF Goto, TypeOK
  <2> QED BY <1>1, <1>4, <2>1, <2>2, HeldOwn, OwnStep DEF Caching, Leading
<1> QED BY <1>2, <1>3, <1>4 DEF Relook

LEMMA ArriveOwn ==
  ASSUME TypeOK, OwnInv, NEW r \in Requests, Arrive(r)
  PROVE  OwnInv'
<1>1. cache'.lru \in Seq(Good) /\ UNCHANGED req /\ sent'.entry = NoEntry /\ sent'.tag \notin {"HIT", "STALE"}
  BY NoHeld DEF Arrive, Silent, OwnInv, StoredGood
<1>2. pc'[r] = FirstStage(r) /\ frame'[r].held = frame[r].held
  BY DEF Arrive, Goto, TypeOK, FrameType
<1>3. \A q \in Requests : q # r => pc'[q] = pc[q] /\ frame'[q] = frame[q]
  BY DEF Arrive, Goto, TypeOK
<1>4. FirstStage(r) \in Caching => req[r].ctl # "no-store"
  BY DEF FirstStage, Caching, Leading
<1>5. FirstStage(r) # "put"
  BY DEF FirstStage
<1> QED BY <1>1, <1>2, <1>3, <1>4, <1>5, HeldOwn, OwnStep

(* The steps that change where a thread is, and keep what it holds. *)
LEMMA ThreadOwn ==
  ASSUME TypeOK, OwnInv, NEW r \in Requests, Lead(r) \/ Follow(r) \/ Resume(r) \/ EndSet(r)
  PROVE  OwnInv'
<1>1. cache'.lru \in Seq(Good) /\ UNCHANGED req /\ sent'.entry = NoEntry /\ sent'.tag \notin {"HIT", "STALE"}
  BY NoHeld DEF Lead, Follow, Resume, EndSet, Silent, OwnInv, StoredGood
<1>2. \A q \in Requests : q # r => pc'[q] = pc[q] /\ frame'[q] = frame[q]
  BY DEF Lead, Follow, Resume, EndSet, Exit, Goto, TypeOK
<1>3. pc'[r] \in {"fetch", "wait", "relook", "pop", "done"}
  BY DEF Lead, Follow, Resume, EndSet, Exit, Goto, TypeOK
<1>4. req[r].ctl # "no-store"
  BY DEF Lead, Follow, Resume, EndSet, OwnInv, Caches, Caching, Leading
<1>5. frame'[r].held \in {frame[r].held, NoEntry}
  BY NoHeld DEF Lead, Follow, Resume, EndSet, Exit, TypeOK, FrameType
<1> QED BY <1>1, <1>2, <1>3, <1>4, <1>5, HeldOwn, OwnStep

LEMMA FetchOwn ==
  ASSUME TypeOK, OwnInv, NEW r \in Requests, NEW o \in Outcomes, Fetch(r, o)
  PROVE  OwnInv'
<1>1. cache'.lru \in Seq(Good) /\ UNCHANGED req
  BY DEF Fetch, OwnInv, StoredGood
<1>2. \A q \in Requests : q # r => pc'[q] = pc[q] /\ frame'[q] = frame[q]
  BY DEF Fetch, Goto, TypeOK
<1>3. req[r].ctl # "no-store"
  BY DEF Fetch, OwnInv, Caches, Caching, Leading
<1>4. pc'[r] = "put" => frame'[r].got \in {"ok", "sse"}
  BY DEF Fetch, Cacheable, Goto, TypeOK, FrameType
<1>5. frame'[r].held = frame[r].held /\ pc'[r] \in {"put", "end"}
  BY DEF Fetch, Goto, TypeOK, FrameType
<1>6. /\ sent'.entry # NoEntry => sent'.to = r /\ sent'.entry = frame[r].held
      /\ sent'.tag \notin {"HIT", "STALE"}
  BY NoHeld DEF Fetch, FetchAnswer, Answer, Silent
<1> QED BY <1>1, <1>2, <1>3, <1>4, <1>5, <1>6, HeldOwn, OwnStep

LEMMA PutOwn ==
  ASSUME TypeOK, OwnInv, NEW r \in Requests, Put(r)
  PROVE  OwnInv'
<1>1. frame[r].got \in {"ok", "sse"} /\ req[r].ctl # "no-store"
  BY DEF Put, OwnInv, PutsComplete, Caches, Caching, Leading
<1>2. cache'.lru \in Seq(Good)
  <2>1. PICK size \in Sizes, life \in Lifetimes :
          cache' = IF Storable(size) THEN AfterPut(cache, Made(r, size, life)) ELSE cache
    BY DEF Put
  <2>2. Made(r, size, life) \in EntryType
    <3>1. frame[r].got \in Outcomes
      BY <1>1 DEF Outcomes
    <3> QED BY <3>1, MadeType
  <2>3. Made(r, size, life) \in Good
    <3>1. Made(r, size, life).exp =< Made(r, size, life).born + TTL
      BY LifetimeType, ClockType, CacheConfig DEF Made
    <3> QED BY <1>1, <2>2, <3>1 DEF Good, Made
  <2>4. CASE Storable(size)
    BY <2>1, <2>3, <2>4, AfterPutType DEF OwnInv, StoredGood
  <2>5. CASE ~Storable(size)
    BY <2>1, <2>5 DEF OwnInv, StoredGood
  <2> QED BY <2>4, <2>5
<1>3. /\ frame' = frame /\ UNCHANGED req /\ sent' = Nothing /\ pc'[r] = "end"
      /\ \A q \in Requests : q # r => pc'[q] = pc[q]
  BY NoHeld DEF Put, Silent, Goto, TypeOK
<1> QED BY <1>1, <1>2, <1>3, NoHeld, HeldOwn, OwnStep

LEMMA LeaveOwn ==
  ASSUME TypeOK, OwnInv, NEW r \in Requests, EndPop(r) \/ Pass(r)
  PROVE  OwnInv'
<1>1. cache'.lru \in Seq(Good) /\ UNCHANGED req /\ sent'.entry = NoEntry /\ sent'.tag \notin {"HIT", "STALE"}
  BY NoHeld DEF EndPop, Pass, Silent, Answer, OwnInv, StoredGood
<1>2. Exit(r)
  BY DEF EndPop, Pass
<1> QED BY <1>1, <1>2, ExitOwn, OwnStep DEF Caching, Leading

LEMMA EnvironmentOwn ==
  ASSUME TypeOK, OwnInv, Clear \/ Tick \/ UNCHANGED vars
  PROVE  OwnInv'
<1>1. Good' = Good /\ \A q \in Requests : Key(q)' = Key(q)
  BY GoodStays DEF Clear, Tick, vars, Key, KeyOf
<1>2. StoredGood'
  <2>1. CASE Clear
    BY <2>1, EmptySeq DEF Clear, EmptyCache, StoredGood
  <2>2. CASE Tick \/ UNCHANGED vars
    BY <1>1, <2>2 DEF Tick, vars, OwnInv, StoredGood
  <2> QED BY <2>1, <2>2
<1>3. HeldGood' /\ Caches' /\ PutsComplete'
  BY <1>1 DEF Clear, Tick, vars, OwnInv, HeldGood, Caches, PutsComplete
<1>4. SentGood'
  <2>1. CASE UNCHANGED vars
    BY <1>1, <2>1 DEF vars, OwnInv, SentGood, Key
  <2>2. CASE Clear \/ Tick
    BY <2>2, NoHeld DEF Clear, Tick, Silent, SentGood
  <2> QED BY <2>1, <2>2
<1>5. SentFresh'
  <2>1. CASE UNCHANGED vars
    BY <1>1, <2>1 DEF vars, OwnInv, SentFresh, StaleUntil
  <2>2. CASE Clear \/ Tick
    BY <2>2, NoHeld DEF Clear, Tick, Silent, SentFresh
  <2> QED BY <2>1, <2>2
<1> QED BY <1>2, <1>3, <1>4, <1>5 DEF OwnInv

LEMMA StepOwn ==
  ASSUME TypeOK, OwnInv, [Next]_vars
  PROVE  OwnInv'
<1>1. ASSUME NEW r \in Requests, Arrive(r) \/ TimeOut(r) \/ Progress(r)
      PROVE  OwnInv'
  BY <1>1, ArriveOwn, LookupOwn, ThreadOwn, RelookOwn, FetchOwn, PutOwn, LeaveOwn
     DEF Progress, TimeOut, Wake
<1> QED BY <1>1, EnvironmentOwn DEF Next, Over

LEMMA StepType ==
  ASSUME TypeOK, OwnInv, [Next]_vars
  PROVE  TypeOK'
<1>1. ASSUME NEW r \in Requests, Put(r)
      PROVE  TypeOK'
  <2>1. frame[r].got \in Outcomes
    BY <1>1 DEF Put, OwnInv, PutsComplete, Outcomes
  <2> QED BY <1>1, <2>1, PutType
<1>2. ASSUME NEW r \in Requests, Arrive(r) \/ TimeOut(r) \/ Progress(r)
      PROVE  TypeOK'
  BY <1>1, <1>2, ArriveType, LookupType, LeadType, FollowType, ResumeType, RelookType, FetchType,
     EndType DEF Progress, TimeOut, Wake
<1> QED BY <1>2, EnvironmentType DEF Next, Over
-----------------------------------------------------------------------------
(* The theorems *)

IInv == TypeOK /\ OwnInv /\ FlightInv

(* TypeOK, what is stored and held, and the singleflight protocol are one    *)
(* inductive invariant of the handlers' interleavings.                       *)
THEOREM Inductive == Spec => []IInv
<1>1. Init => IInv
  BY InitType, InitOwn, InitFlight DEF IInv
<1>2. IInv /\ [Next]_vars => IInv'
  BY StepType, StepOwn, StepFlight DEF IInv
<1> QED BY <1>1, <1>2, PTL DEF Spec

(* Every variable of the gateway keeps its type, whatever threads, clears    *)
(* and clock do.                                                             *)
THEOREM TypeCorrect == Spec => []TypeOK
BY Inductive, PTL DEF IInv

(* At most one thread of an era fetches for a key, however many ask for it.  *)
THEOREM AtMostOneFetch == Spec => []Singleflight
<1>1. IInv => Singleflight
  BY DEF IInv, FlightInv
<1> QED BY <1>1, Inductive, PTL

(* An event in the table always has a leader that will remove it.            *)
THEOREM EventsHaveLeaders == Spec => []InflightLive
<1>1. IInv => InflightLive
  BY DEF IInv, FlightInv, OwnersLead, InflightLive
<1> QED BY <1>1, Inductive, PTL

(* Whoever waits can be woken: its event is set or its leader has still to.  *)
THEOREM WaitersCanWake == Spec => []NoLostWakeup
<1>1. IInv => NoLostWakeup
  BY DEF IInv, FlightInv, WaitsForLeader, NoLostWakeup
<1> QED BY <1>1, Inductive, PTL

(* No answer crosses from one credential, vary header or prompt to another.  *)
THEOREM AnswersAreOwn == Spec => []OwnAnswers
<1>1. IInv => OwnAnswers
  BY OwnAnswered DEF IInv
<1> QED BY <1>1, Inductive, PTL

(* No HIT is older than the TTL, no STALE answer than its window.            *)
THEOREM AnswersAreFresh == Spec => []FreshAnswers
<1>1. IInv => FreshAnswers
  BY FreshAnswered DEF IInv
<1> QED BY <1>1, Inductive, PTL

(* A leader that ends removes its own event and no successor's.              *)
THEOREM LeadersPopTheirOwn == Spec => PopsOwnEvent
<1> DEFINE PopsOwn ==
      \A k \in Keys :
         inflight[k] # NoRequest /\ inflight'[k] # inflight[k]
         => era' # era \/ pc'[inflight[k]] = "done"
<1>1. ASSUME IInv, [Next]_vars
      PROVE  [PopsOwn]_vars
  <2>1. ASSUME NEW r \in Requests, Lead(r)
        PROVE  PopsOwn
    BY <1>1, <2>1, KeyType DEF IInv, TypeOK, Lead, Free
  <2>2. ASSUME NEW r \in Requests, EndPop(r)
        PROVE  PopsOwn
    BY <1>1, <2>2, KeyType DEF IInv, TypeOK, EndPop, Owns, Exit, Goto
  <2>3. CASE Clear
    BY <1>1, <2>3 DEF IInv, TypeOK, Clear
  <2>4. CASE inflight' = inflight
    BY <2>4
  <2>5. ASSUME NEW r \in Requests, Arrive(r) \/ TimeOut(r) \/ Progress(r)
        PROVE  Lead(r) \/ EndPop(r) \/ inflight' = inflight
    BY <2>5 DEF Arrive, TimeOut, Progress, Lookup, Follow, Wake, Resume, Relook, Fetch, Put, EndSet, Pass
  <2> QED BY <1>1, <2>1, <2>2, <2>3, <2>4, <2>5 DEF Next, Tick, Over, vars
<1> QED BY <1>1, Inductive, PTL DEF Spec, PopsOwnEvent
=============================================================================
