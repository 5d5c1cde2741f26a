--------------------------- MODULE RateGateProofs ---------------------------
(***************************************************************************)
(* What the gate does for every number of handlers and clients, every      *)
(* limit, quota and window and every number of resets: first the slots,    *)
(* then the sliding window, its history and the table of identities.       *)
(***************************************************************************)
EXTENDS RateGate, FiniteSetTheorems, SequenceFacts, TLAPS

-----------------------------------------------------------------------------
(* The concurrency slots *)

(* The part of the state the slots are in. *)
SlotType ==
    /\ active \in Nat
    /\ pc \in [Handlers -> Stages]
    /\ strays \subseteq {h \in Handlers : pc[h] # "idle"}

SlotInv == SlotType /\ NoPhantomSlots /\ ExactWhenClean

LEMMA HoldersFinite ==
    /\ IsFiniteSet(Holders)
    /\ Cardinality(Holders) \in Nat
    /\ Holders = {} <=> Cardinality(Holders) = 0
<1>1. IsFiniteSet(Holders)
  BY GateConfig, FS_Subset DEF Holders
<1> QED BY <1>1, FS_CardinalityType, FS_EmptySet

LEMMA InitSlots == Init => SlotInv
<1> SUFFICES ASSUME Init PROVE SlotInv
  OBVIOUS
<1>1. Holders = {}
  BY DEF Init, Holders
<1>2. Cardinality(Holders) = 0
  BY <1>1, HoldersFinite
<1> QED BY <1>2, GateConfig DEF Init, Stages, SlotInv, SlotType, NoPhantomSlots, ExactWhenClean

(* Steps that change neither the counter nor who is at work. *)
LEMMA SlotsKept ==
  ASSUME SlotInv, UNCHANGED <<active, strays, clean>>,
         pc' \in [Handlers -> Stages],
         \A h \in Handlers : pc'[h] = "idle" <=> pc[h] = "idle"
  PROVE  SlotInv'
<1>1. Holders' = Holders
  BY DEF Holders
<1> QED BY <1>1 DEF SlotInv, SlotType, NoPhantomSlots, ExactWhenClean

LEMMA AcquireSlots ==
  ASSUME SlotInv, NEW h \in Handlers, NEW c \in Clients, Acquire(h, c)
  PROVE  SlotInv'
<1>1. h \notin Holders /\ Holders' = Holders \cup {h}
  BY DEF SlotInv, SlotType, Acquire, Holders
<1>2. Cardinality(Holders') = Cardinality(Holders) + 1
  BY <1>1, HoldersFinite, FS_AddElement
<1>3. SlotType'
  BY DEF SlotInv, SlotType, Acquire, Stages
<1> QED BY <1>2, <1>3, HoldersFinite, GateConfig
        DEF SlotInv, SlotType, NoPhantomSlots, ExactWhenClean, Acquire, HasSlot

(* A stray gives back a slot it no longer has: the counter falls, and who is *)
(* at work does not change.                                                  *)
LEMMA StrayReleaseSlots ==
  ASSUME SlotInv, NEW h \in Handlers, Release(h), h \in strays
  PROVE  SlotInv'
<1>1. h \notin Holders /\ Holders' = Holders
  BY DEF SlotInv, SlotType, Release, Holders
<1>2. SlotType'
  BY DEF SlotInv, SlotType, Release, Released, Stages
<1>3. clean' => active' = Cardinality(Holders) /\ (Limit > 0 => Cardinality(Holders) =< Limit)
  <2>1. CASE Holders \subseteq {h}
    <3>1. Holders = {}
      BY <1>1, <2>1
    <3> QED BY <3>1, HoldersFinite, GateConfig
            DEF SlotInv, SlotType, NoPhantomSlots, Release, Released
  <2>2. CASE clean /\ active = 0
    BY <2>2, HoldersFinite DEF SlotInv, SlotType, ExactWhenClean, Release, Released
  <2> QED BY <2>1, <2>2 DEF Release
<1> QED BY <1>1, <1>2, <1>3, HoldersFinite
        DEF SlotInv, SlotType, NoPhantomSlots, ExactWhenClean, Release, Released

LEMMA ReleaseSlots ==
  ASSUME SlotInv, NEW h \in Handlers, Release(h), h \notin strays
  PROVE  SlotInv'
<1>1. h \in Holders /\ Holders' = Holders \ {h}
  BY DEF SlotInv, SlotType, Release, Holders
<1>2. Cardinality(Holders') = Cardinality(Holders) - 1 /\ Cardinality(Holders) > 0
  <2>1. Cardinality(Holders \ {h}) = Cardinality(Holders) - 1
    BY <1>1, HoldersFinite, FS_RemoveElement
  <2>2. Cardinality(Holders) # 0
    BY <1>1, HoldersFinite
  <2> QED BY <1>1, <2>1, <2>2, HoldersFinite
<1>3. SlotType'
  BY DEF SlotInv, SlotType, Release, Released, Stages
<1>4. active' =< Cardinality(Holders')
  BY <1>2, HoldersFinite DEF SlotInv, SlotType, NoPhantomSlots, Release, Released
<1>5. clean' => active' = Cardinality(Holders') /\ (Limit > 0 => Cardinality(Holders') =< Limit)
  <2>1. CASE Holders \subseteq {h}
    <3>1. Holders' = {}
      BY <1>1, <2>1
    <3>2. Cardinality(Holders') = 0
      BY <3>1, FS_EmptySet
    <3> QED BY <1>3, <1>4, <3>2, GateConfig DEF SlotType
  <2>2. CASE clean
    BY <1>2, <2>2, HoldersFinite, GateConfig
       DEF SlotInv, SlotType, ExactWhenClean, Release, Released
  <2> QED BY <2>1, <2>2 DEF Release
<1> QED BY <1>3, <1>4, <1>5 DEF SlotInv, NoPhantomSlots, ExactWhenClean

LEMMA ResetSlots ==
  ASSUME SlotInv, Reset
  PROVE  SlotInv'
<1>1. Holders' = {}
  BY DEF Reset, Holders
<1>2. Cardinality(Holders') = 0
  BY <1>1, FS_EmptySet
<1> QED BY <1>2, GateConfig
        DEF SlotInv, SlotType, NoPhantomSlots, ExactWhenClean, Reset

LEMMA StepSlots ==
  ASSUME SlotInv, [Next]_vars
  PROVE  SlotInv'
<1>1. ASSUME NEW h \in Handlers, Check(h)
      PROVE  SlotInv'
  BY <1>1, SlotsKept DEF Check, Pass, Reject, Stages, SlotInv, SlotType
<1>2. ASSUME NEW h \in Handlers, Overloaded(h)
      PROVE  SlotInv'
  BY <1>2, SlotsKept DEF Overloaded, SlotInv, SlotType
<1>3. ASSUME NEW h \in Handlers, Serve(h) \/ Linger(h) \/ Leave(h)
      PROVE  SlotInv'
  BY <1>3, SlotsKept DEF Serve, Linger, Leave, Move, Stages, SlotInv, SlotType
<1>4. CASE Tick \/ UNCHANGED vars
  BY <1>4, SlotsKept DEF Tick, vars, SlotInv, SlotType
<1> QED BY <1>1, <1>2, <1>3, <1>4, AcquireSlots, StrayReleaseSlots, ReleaseSlots, ResetSlots
        DEF Next, Work

(* The slots, who is at work and who is left over from before a reset are    *)
(* one inductive invariant.                                                  *)
THEOREM SlotsInductive == Spec => []SlotInv
<1>1. Init => SlotInv
  BY InitSlots
<1>2. SlotInv /\ [Next]_vars => SlotInv'
  BY StepSlots
<1> QED BY <1>1, <1>2, PTL DEF Spec

(* No counted slot is without a handler that will give it back.              *)
THEOREM NoSlotIsLost == Spec => []NoPhantomSlots
<1>1. SlotInv => NoPhantomSlots
  BY DEF SlotInv
<1> QED BY <1>1, SlotsInductive, PTL

(* The limit holds until a stray gives back a slot it no longer has, and     *)
(* from the next time the gateway is idle.                                   *)
THEOREM LimitHoldsWhenClean == Spec => []ExactWhenClean
<1>1. SlotInv => ExactWhenClean
  BY DEF SlotInv
<1> QED BY <1>1, SlotsInductive, PTL

-----------------------------------------------------------------------------
(* What is left of a deque *)

LEMMA GateNumbers ==
    /\ RPM \in Nat /\ Window \in Nat /\ Window > 0
    /\ MaxTracked \in Nat /\ MaxTracked > 0 /\ TicksPerSecond \in Nat /\ TicksPerSecond > 0
BY GateConfig

(* The first n hits are the expired ones at the head.                        *)
DropsFirst(s, t, n) ==
    /\ \A i \in 1 .. n : t - s[i] >= Window
    /\ n < Len(s) => t - s[n + 1] < Window

LEMMA LiveIs ==
  ASSUME NEW s \in Seq(Nat), NEW t \in Nat, NEW n \in 0 .. Len(s), DropsFirst(s, t, n)
  PROVE  /\ Live(s, t) \in Seq(Nat)
         /\ Len(Live(s, t)) = Len(s) - n
         /\ \A j \in 1 .. Len(s) - n : Live(s, t)[j] = s[n + j]
<1> DEFINE fresh == {i \in DOMAIN s : t - s[i] < Window}
<1>1. CASE n = Len(s)
  <2>1. \A i \in DOMAIN s : s[i] \in Nat /\ t - s[i] >= Window
    BY <1>1 DEF DropsFirst
  <2>2. fresh = {}
    BY <2>1, GateNumbers
  <2>3. Live(s, t) = <<>>
    BY <2>2 DEF Live
  <2> QED BY <1>1, <2>3
<1>2. CASE n < Len(s)
  <2>1. n + 1 \in fresh
    BY <1>2 DEF DropsFirst
  <2>2. \A i \in fresh : n + 1 =< i
    <3> SUFFICES ASSUME NEW i \in fresh, i < n + 1 PROVE FALSE
      OBVIOUS
    <3>1. i \in 1 .. n /\ s[i] \in Nat /\ t - s[i] < Window
      OBVIOUS
    <3> QED BY <3>1, GateConfig DEF DropsFirst
  <2>3. Min(fresh) = n + 1
    <3> HIDE DEF fresh
    <3>1. fresh \subseteq Nat
      BY DEF fresh
    <3>2. Min(fresh) \in fresh /\ \A i \in fresh : Min(fresh) =< i
      BY <2>1, <3>1, MinNat
    <3>3. Min(fresh) =< n + 1 /\ n + 1 =< Min(fresh) /\ Min(fresh) \in Nat
      BY <2>1, <2>2, <3>1, <3>2
    <3> QED BY <3>3
  <2>4. Live(s, t) = SubSeq(s, n + 1, Len(s))
    BY <2>1, <2>3 DEF Live
  <2> QED BY <2>4, SuffixFacts
<1>3. n = Len(s) \/ n < Len(s)
  OBVIOUS
<1> HIDE DEF fresh
<1> QED BY <1>1, <1>2, <1>3

(* There is such an n: the least one whose next hit, if any, is fresh.       *)
LEMMA LiveDrops ==
  ASSUME NEW s \in Seq(Nat), NEW t \in Nat
  PROVE  \E n \in 0 .. Len(s) : DropsFirst(s, t, n)
<1> DEFINE stops == {n \in 0 .. Len(s) : n < Len(s) => t - s[n + 1] < Window}
           n == Min(stops)
<1>1. stops \subseteq Nat /\ Len(s) \in stops
  OBVIOUS
<1> HIDE DEF stops
<1>2. n \in stops /\ \A m \in stops : n =< m
  BY <1>1, MinNat
<1> HIDE DEF n
<1>3. n \in 0 .. Len(s) /\ (n < Len(s) => t - s[n + 1] < Window)
  BY <1>2 DEF stops
<1>4. ASSUME NEW i \in 1 .. n PROVE t - s[i] >= Window
  <2>1. i - 1 \notin stops
    BY <1>1, <1>2, <1>3
  <2>2. i - 1 \in 0 .. Len(s) /\ i - 1 < Len(s) /\ (i - 1) + 1 = i /\ s[i] \in Nat
    BY <1>3
  <2> QED BY <2>1, <2>2, GateConfig, SMTT(30) DEF stops
<1> QED BY <1>3, <1>4 DEF DropsFirst

LEMMA LiveType ==
  ASSUME NEW s \in Seq(Nat), NEW t \in Nat
  PROVE  Live(s, t) \in Seq(Nat) /\ Len(Live(s, t)) \in 0 .. Len(s)
<1> PICK n \in 0 .. Len(s) : DropsFirst(s, t, n)
  BY LiveDrops
<1> QED BY LiveIs

(* What has expired stays expired: what a check has popped, a later one      *)
(* would have popped, and an earlier one pops nothing more.                  *)
LEMMA LiveTwice ==
  ASSUME NEW s \in Seq(Nat), NEW t \in Nat, NEW u \in Nat
  PROVE  /\ t =< u => Len(Live(Live(s, t), u)) = Len(Live(s, u))
         /\ u =< t => Len(Live(Live(s, t), u)) = Len(Live(s, t))
<1> DEFINE l == Live(s, t)
<1>1. PICK n \in 0 .. Len(s) : DropsFirst(s, t, n)
  BY LiveDrops
<1>2. l \in Seq(Nat) /\ Len(l) = Len(s) - n /\ \A j \in 1 .. Len(s) - n : l[j] = s[n + j]
  BY <1>1, LiveIs
<1> HIDE DEF l
<1>3. ASSUME t =< u PROVE Len(Live(l, u)) = Len(Live(s, u))
  <2>1. PICK m \in 0 .. Len(s) : DropsFirst(s, u, m)
    BY LiveDrops
  <2>2. n =< m
    <3> SUFFICES ASSUME m < n PROVE FALSE
      OBVIOUS
    <3>1. m + 1 \in 1 .. n /\ m < Len(s) /\ s[m + 1] \in Nat
      OBVIOUS
    <3>2. t - s[m + 1] >= Window /\ u - s[m + 1] < Window
      BY <1>1, <2>1, <3>1 DEF DropsFirst
    <3> QED BY <1>3, <3>1, <3>2, GateNumbers
  <2>3. m - n \in 0 .. Len(l)
    BY <1>2, <2>2
  <2>4. DropsFirst(l, u, m - n)
    <3>1. ASSUME NEW i \in 1 .. m - n PROVE u - l[i] >= Window
      <4>1. i \in 1 .. Len(s) - n /\ n + i \in 1 .. m
        BY <2>2
      <4> QED BY <1>2, <2>1, <4>1 DEF DropsFirst
    <3>2. ASSUME m - n < Len(l) PROVE u - l[(m - n) + 1] < Window
      <4>1. (m - n) + 1 \in 1 .. Len(s) - n /\ n + ((m - n) + 1) = m + 1 /\ m < Len(s)
        BY <1>2, <2>2, <3>2
      <4>2. l[(m - n) + 1] = s[n + ((m - n) + 1)]
        BY <1>2, <4>1
      <4> QED BY <2>1, <4>1, <4>2 DEF DropsFirst
    <3> QED BY <3>1, <3>2 DEF DropsFirst
  <2>5. Len(Live(l, u)) = Len(l) - (m - n)
    BY <1>2, <2>3, <2>4, LiveIs
  <2>6. Len(Live(s, u)) = Len(s) - m
    BY <2>1, LiveIs
  <2> QED BY <1>2, <2>5, <2>6
<1>4. ASSUME u =< t PROVE Len(Live(l, u)) = Len(l)
  <2>1. ASSUME 0 < Len(l) PROVE u - l[1] < Window
    <3>1. l[1] = s[n + 1] /\ n < Len(s) /\ n + 1 \in 1 .. Len(s) /\ s[n + 1] \in Nat
      BY <1>2, <2>1
    <3>2. t - s[n + 1] < Window
      BY <1>1, <3>1 DEF DropsFirst
    <3> QED BY <1>4, <3>1, <3>2, GateNumbers
  <2>2. DropsFirst(l, u, 0)
    BY <2>1 DEF DropsFirst
  <2>3. 0 \in 0 .. Len(l)
    BY <1>2
  <2>4. Len(Live(l, u)) = Len(l) - 0
    BY <1>2, <2>2, <2>3, LiveIs
  <2> QED BY <1>2, <2>4
<1> QED BY <1>3, <1>4 DEF l

(* A hit is appended with the clock of its check.  A check with an earlier   *)
(* clock finds all of them; a later one what it had found without the hit,   *)
(* and the hit unless that has expired too.                                  *)
LEMMA LiveAppended ==
  ASSUME NEW s \in Seq(Nat), NEW t \in Nat, NEW u \in Nat
  PROVE  /\ u =< t => Len(Live(Append(Live(s, t), t), u)) = Len(Live(s, t)) + 1
         /\ t =< u => Len(Live(Append(Live(s, t), t), u)) >=
                         Len(Live(s, u)) + (IF u - t < Window THEN 1 ELSE 0)
<1> DEFINE l == Live(s, t)
           a == Append(l, t)
<1>1. PICK n \in 0 .. Len(s) : DropsFirst(s, t, n)
  BY LiveDrops
<1>2. l \in Seq(Nat) /\ Len(l) = Len(s) - n /\ \A j \in 1 .. Len(s) - n : l[j] = s[n + j]
  BY <1>1, LiveIs
<1> HIDE DEF l
<1>3. a \in Seq(Nat) /\ Len(a) = Len(l) + 1 /\ a[Len(l) + 1] = t
      /\ \A j \in 1 .. Len(l) : a[j] = l[j]
  BY <1>2
<1> HIDE DEF a
<1>4. ASSUME u =< t PROVE Len(Live(a, u)) = Len(l) + 1
  <2>1. a[1] \in Nat /\ t - a[1] < Window
    <3>1. CASE Len(l) = 0
      BY <1>3, <3>1, GateNumbers
    <3>2. CASE 0 < Len(l)
      <4>1. 1 \in 1 .. Len(s) - n /\ 1 \in 1 .. Len(l) /\ n < Len(s)
        BY <1>2, <3>2
      <4>2. a[1] = s[n + 1]
        BY <1>2, <1>3, <4>1
      <4>3. s[n + 1] \in Nat
        BY <4>1
      <4> QED BY <1>1, <4>1, <4>2, <4>3 DEF DropsFirst
    <3> QED BY <1>2, <3>1, <3>2
  <2>2. u - a[1] < Window
    BY <1>4, <2>1, GateNumbers
  <2>3. DropsFirst(a, u, 0)
    BY <2>2 DEF DropsFirst
  <2>4. Len(Live(a, u)) = Len(a) - 0
    BY <1>3, <2>3, LiveIs
  <2> QED BY <1>2, <1>3, <2>4
<1>5. ASSUME t =< u
      PROVE  Len(Live(a, u)) >= Len(Live(s, u)) + (IF u - t < Window THEN 1 ELSE 0)
  <2>1. PICK m \in 0 .. Len(s) : DropsFirst(s, u, m)
    BY LiveDrops
  <2>2. n =< m
    <3> SUFFICES ASSUME m < n PROVE FALSE
      OBVIOUS
    <3>1. m + 1 \in 1 .. n /\ m < Len(s) /\ s[m + 1] \in Nat
      OBVIOUS
    <3>2. t - s[m + 1] >= Window /\ u - s[m + 1] < Window
      BY <1>1, <2>1, <3>1 DEF DropsFirst
    <3> QED BY <1>5, <3>1, <3>2, GateNumbers
  <2>3. Len(Live(s, u)) = Len(s) - m
    BY <2>1, LiveIs
  <2>4. \A i \in 1 .. m - n : u - a[i] >= Window
    <3> SUFFICES ASSUME NEW i \in 1 .. m - n PROVE u - a[i] >= Window
      OBVIOUS
    <3>1. i \in 1 .. Len(s) - n /\ i \in 1 .. Len(l) /\ n + i \in 1 .. m
      BY <1>2, <2>2
    <3>2. a[i] = s[n + i]
      BY <1>2, <1>3, <3>1
    <3> QED BY <2>1, <3>1, <3>2 DEF DropsFirst
  <2>5. CASE m < Len(s)
    <3>1. (m - n) + 1 \in 1 .. Len(s) - n /\ (m - n) + 1 \in 1 .. Len(l)
          /\ n + ((m - n) + 1) = m + 1
      BY <1>2, <2>2, <2>5, SMTT(30)
    <3>2. a[(m - n) + 1] = l[(m - n) + 1]
      BY <1>3, <3>1
    <3>3. l[(m - n) + 1] = s[n + ((m - n) + 1)]
      BY <1>2, <3>1
    <3>4. u - a[(m - n) + 1] < Window
      BY <2>1, <2>5, <3>1, <3>2, <3>3 DEF DropsFirst
    <3>5. DropsFirst(a, u, m - n) /\ m - n \in 0 .. Len(a)
      BY <1>2, <1>3, <2>2, <2>4, <3>4 DEF DropsFirst
    <3>6. Len(Live(a, u)) = Len(a) - (m - n)
      BY <1>3, <3>5, LiveIs
    <3> QED BY <1>2, <1>3, <2>3, <3>6
  <2>6. CASE m = Len(s) /\ u - t < Window
    <3>1. m - n = Len(l) /\ (m - n) + 1 = Len(l) + 1
      BY <1>2, <2>6
    <3>2. DropsFirst(a, u, m - n) /\ m - n \in 0 .. Len(a)
      BY <1>2, <1>3, <2>4, <2>6, <3>1, SMTT(30) DEF DropsFirst
    <3>3. Len(Live(a, u)) = Len(a) - (m - n)
      BY <1>3, <3>2, LiveIs
    <3> QED BY <1>2, <1>3, <2>3, <2>6, <3>1, <3>3
  <2>7. CASE m = Len(s) /\ ~(u - t < Window)
    <3>1. Len(Live(a, u)) \in 0 .. Len(a)
      BY <1>3, LiveType
    <3> QED BY <1>3, <2>3, <2>7, <3>1
  <2> QED BY <2>5, <2>6, <2>7
<1> QED BY <1>4, <1>5 DEF l, a

-----------------------------------------------------------------------------
(* What the deque says of the admissions *)

InWindow(R, t) == {a \in R : t - a[1] < Window}

(* Whenever a check with clock t would find room in the deque s, the deque   *)
(* holds a hit for every admission of R in the window ending at t.  Where    *)
(* the deque is full it may have lost some: hits behind an older one that is *)
(* still fresh keep their place, those before it are gone.                   *)
Accounted(s, R) ==
    \A t \in Nat : Len(Live(s, t)) < RPM => Cardinality(InWindow(R, t)) =< Len(Live(s, t))

LEMMA InWindowFinite ==
  ASSUME NEW R \in SUBSET (Nat \X Nat), IsFiniteSet(R), NEW t \in Nat
  PROVE  IsFiniteSet(InWindow(R, t)) /\ Cardinality(InWindow(R, t)) \in Nat
<1>1. InWindow(R, t) \subseteq R
  BY DEF InWindow
<1> QED BY <1>1, FS_Subset, FS_CardinalityType

LEMMA NothingAccounted == Accounted(<<>>, {})
<1> SUFFICES ASSUME NEW t \in Nat
             PROVE  Cardinality(InWindow({}, t)) =< Len(Live(<<>>, t))
  BY DEF Accounted
<1>1. InWindow({}, t) = {} /\ Cardinality({}) = 0
  BY FS_EmptySet DEF InWindow
<1>2. Len(Live(<<>>, t)) \in Nat
  BY LiveType
<1> QED BY <1>1, <1>2

(* A check that turns a client away only pops. *)
LEMMA RejectAccounted ==
  ASSUME NEW s \in Seq(Nat), NEW R, Accounted(s, R), NEW t \in Nat,
         ~(Len(Live(s, t)) < RPM)
  PROVE  Accounted(Live(s, t), R)
<1> SUFFICES ASSUME NEW u \in Nat, Len(Live(Live(s, t), u)) < RPM
             PROVE  Cardinality(InWindow(R, u)) =< Len(Live(Live(s, t), u))
  BY DEF Accounted
<1>1. Len(Live(s, t)) \in Nat
  BY LiveType
<1>2. ~(u =< t)
  BY <1>1, LiveTwice
<1>3. Len(Live(Live(s, t), u)) = Len(Live(s, u))
  BY <1>2, LiveTwice
<1> QED BY <1>3 DEF Accounted

(* A check that admits one prunes the history at the same place. *)
LEMMA PassAccounted ==
  ASSUME NEW s \in Seq(Nat), NEW R \in SUBSET (Nat \X Nat), IsFiniteSet(R),
         Accounted(s, R), NEW t \in Nat, Len(Live(s, t)) < RPM,
         NEW a \in Nat \X Nat, a[1] = t,
         NEW Q \in SUBSET (R \cup {a}), \A b \in Q : t - b[1] < Window
  PROVE  /\ IsFiniteSet(Q) /\ Cardinality(Q) =< Len(Live(s, t)) + 1
         /\ Accounted(Append(Live(s, t), t), Q)
<1> DEFINE l == Live(s, t)
           h == Append(l, t)
<1>1. l \in Seq(Nat) /\ Len(l) \in Nat /\ h \in Seq(Nat) /\ Len(h) = Len(l) + 1
  BY LiveType
<1> HIDE DEF l, h
<1>2. IsFiniteSet(R \cup {a}) /\ IsFiniteSet(Q) /\ Q \in SUBSET (Nat \X Nat)
  BY FS_AddElement, FS_Subset
<1>3. ASSUME NEW A, IsFiniteSet(A), NEW B, B \subseteq A \cup {a}
      PROVE  IsFiniteSet(B) /\ Cardinality(B) \in Nat /\ Cardinality(A) \in Nat
             /\ Cardinality(B) =< Cardinality(A) + 1
  <2>0. Cardinality(A) \in Nat
    BY <1>3, FS_CardinalityType
  <2>1. IsFiniteSet(A \cup {a}) /\ Cardinality(A \cup {a}) =< Cardinality(A) + 1
    <3>1. IsFiniteSet(A)
      BY <1>3
    <3>2. /\ IsFiniteSet(A \cup {a})
          /\ Cardinality(A \cup {a}) = IF a \in A THEN Cardinality(A) ELSE Cardinality(A) + 1
      BY <3>1, FS_AddElement, Zenon
    <3> QED BY <2>0, <3>2
  <2>2. IsFiniteSet(B) /\ Cardinality(B) =< Cardinality(A \cup {a})
    BY <1>3, <2>1, FS_Subset
  <2> QED BY <2>0, <2>1, <2>2, FS_CardinalityType
<1>4. Cardinality(Q) =< Len(l) + 1 /\ Cardinality(Q) \in Nat
  <2>1. Q \subseteq InWindow(R, t) \cup {a}
    BY DEF InWindow
  <2>2. IsFiniteSet(InWindow(R, t)) /\ Cardinality(InWindow(R, t)) =< Len(l)
    BY InWindowFinite DEF Accounted, l
  <2>3. Cardinality(Q) =< Cardinality(InWindow(R, t)) + 1 /\ Cardinality(Q) \in Nat
        /\ Cardinality(InWindow(R, t)) \in Nat
    BY <1>3, <2>1, <2>2
  <2> QED BY <1>1, <2>2, <2>3
<1>5. ASSUME NEW u \in Nat, Len(Live(h, u)) < RPM
      PROVE  Cardinality(InWindow(Q, u)) =< Len(Live(h, u))
  <2>1. IsFiniteSet(InWindow(Q, u)) /\ Cardinality(InWindow(Q, u)) \in Nat
    BY <1>2, InWindowFinite
  <2>2. CASE u =< t
    <3>1. Len(Live(h, u)) = Len(l) + 1
      BY <2>2, LiveAppended DEF h, l
    <3>2. InWindow(Q, u) \subseteq Q
      BY DEF InWindow
    <3>3. Cardinality(InWindow(Q, u)) =< Cardinality(Q)
      BY <1>2, <3>2, FS_Subset
    <3> QED BY <1>1, <1>4, <2>1, <3>1, <3>3
  <2>3. CASE t =< u
    <3>1. Len(Live(h, u)) >= Len(Live(s, u)) + (IF u - t < Window THEN 1 ELSE 0)
      BY <2>3, LiveAppended DEF h, l
    <3>2. Len(Live(s, u)) \in Nat /\ Len(Live(h, u)) \in Nat
      BY <1>1, LiveType
    <3>3. Len(Live(s, u)) < RPM
      BY <1>5, <3>1, <3>2, GateNumbers
    <3>4. Cardinality(InWindow(R, u)) =< Len(Live(s, u))
      BY <3>3 DEF Accounted
    <3>5. IsFiniteSet(InWindow(R, u)) /\ Cardinality(InWindow(R, u)) \in Nat
      BY InWindowFinite
    <3>6. CASE u - t < Window
      <4>1. InWindow(Q, u) \subseteq InWindow(R, u) \cup {a}
        BY DEF InWindow
      <4>2. Cardinality(InWindow(Q, u)) =< Cardinality(InWindow(R, u)) + 1
        BY <1>3, <3>5, <4>1
      <4> QED BY <2>1, <3>1, <3>2, <3>4, <3>5, <3>6, <4>2
    <3>7. CASE ~(u - t < Window)
      <4>1. InWindow(Q, u) \subseteq InWindow(R, u)
        BY <3>7 DEF InWindow
      <4>2. Cardinality(InWindow(Q, u)) =< Cardinality(InWindow(R, u))
        BY <3>5, <4>1, FS_Subset
      <4> QED BY <2>1, <3>1, <3>2, <3>4, <3>5, <3>7, <4>2
    <3> QED BY <3>6, <3>7
  <2> QED BY <2>2, <2>3
<1> QED BY <1>2, <1>4, <1>5 DEF Accounted, l, h

(* What is forgotten need not be accounted for. *)
LEMMA LessAccounted ==
  ASSUME NEW s \in Seq(Nat), NEW R \in SUBSET (Nat \X Nat), IsFiniteSet(R),
         Accounted(s, R), NEW Q \in SUBSET R
  PROVE  Accounted(s, Q)
<1> SUFFICES ASSUME NEW t \in Nat, Len(Live(s, t)) < RPM
             PROVE  Cardinality(InWindow(Q, t)) =< Len(Live(s, t))
  BY DEF Accounted
<1>1. InWindow(Q, t) \subseteq InWindow(R, t)
  BY DEF InWindow
<1>2. IsFiniteSet(InWindow(R, t)) /\ Cardinality(InWindow(R, t)) \in Nat
  BY InWindowFinite
<1>3. Cardinality(InWindow(R, t)) =< Len(Live(s, t)) /\ Len(Live(s, t)) \in Nat
  BY LiveType DEF Accounted
<1>4. Cardinality(InWindow(Q, t)) =< Cardinality(InWindow(R, t))
      /\ Cardinality(InWindow(Q, t)) \in Nat
  BY <1>1, <1>2, FS_Subset, FS_CardinalityType
<1> QED BY <1>2, <1>3, <1>4

-----------------------------------------------------------------------------
(* The table of identities *)

(* Whoever stands behind an identity was seen since it was seen.             *)
OldestFirst(s, o) == \A i, j \in DOMAIN s : i < j => s[j] # s[i] /\ s[j] \in o[s[i]]

LEMMA SeenLastFacts ==
  ASSUME order \in Seq(Clients), others \in [Clients -> SUBSET Clients],
         OldestFirst(order, others), NEW c \in Clients
  PROVE  /\ SeenLast(c) \in Seq(Clients)
         /\ ToSet(SeenLast(c)) = ToSet(order) \cup {c}
         /\ Len(SeenLast(c)) = Len(order) + (IF c \in ToSet(order) THEN 0 ELSE 1)
         /\ SeenLast(c) # <<>> /\ SeenLast(c)[Len(SeenLast(c))] = c
         /\ OldestFirst(SeenLast(c), SeenSince(c))
<1> DEFINE place == CHOOSE i \in DOMAIN order : order[i] = c
           held == c \in ToSet(order)
           rest == IF held THEN RemoveAt(order, place) ELSE order
           from(j) == IF held /\ ~(j < place) THEN j + 1 ELSE j
           s == Append(rest, c)
<1>1. held => place \in DOMAIN order /\ order[place] = c
  BY DEF ToSet
<1> HIDE DEF place
<1>2. /\ rest \in Seq(Clients)
      /\ Len(rest) = Len(order) - (IF held THEN 1 ELSE 0)
      /\ \A j \in 1 .. Len(rest) : from(j) \in DOMAIN order /\ rest[j] = order[from(j)]
      /\ \A j \in 1 .. Len(rest) : order[from(j)] # c
  <2>1. CASE held
    <3>1. /\ rest \in Seq(Clients) /\ Len(rest) = Len(order) - 1
          /\ \A j \in 1 .. Len(order) - 1 : rest[j] = order[IF j < place THEN j ELSE j + 1]
      BY <1>1, <2>1, RemoveAtFacts
    <3>2. ASSUME NEW j \in 1 .. Len(rest)
          PROVE  /\ from(j) \in DOMAIN order /\ from(j) # place
                 /\ from(j) = IF j < place THEN j ELSE j + 1
      BY <1>1, <2>1, <3>1
    <3>3. ASSUME NEW j \in 1 .. Len(rest) PROVE order[from(j)] # c
      <4>1. from(j) \in DOMAIN order /\ from(j) # place
        BY <3>2
      <4>2. from(j) < place \/ place < from(j)
        BY <1>1, <2>1, <4>1
      <4> QED BY <1>1, <2>1, <4>1, <4>2 DEF OldestFirst
    <3> HIDE DEF rest, from
    <3> QED BY <2>1, <3>1, <3>2, <3>3
  <2>2. CASE ~held
    BY <2>2 DEF ToSet
  <2> QED BY <2>1, <2>2
<1>3. \A i, j \in 1 .. Len(rest) : i < j => from(i) < from(j)
  BY <1>1, <1>2
<1>4. held => \A i \in DOMAIN order \ {place} : \E j \in 1 .. Len(rest) : from(j) = i
  <2> SUFFICES ASSUME held, NEW i \in DOMAIN order, i # place
               PROVE  \E j \in 1 .. Len(rest) : from(j) = i
    OBVIOUS
  <2>1. Len(rest) = Len(order) - 1 /\ place \in DOMAIN order
    BY <1>1, <1>2
  <2>2. CASE i < place
    <3>1. i \in 1 .. Len(rest) /\ from(i) = i
      BY <2>1, <2>2
    <3> HIDE DEF from
    <3> QED BY <3>1
  <2>3. CASE place < i
    <3>1. i - 1 \in 1 .. Len(rest) /\ from(i - 1) = i
      BY <2>1, <2>3
    <3> HIDE DEF from
    <3> QED BY <3>1
  <2> QED BY <2>1, <2>2, <2>3
<1>5. SeenLast(c) = s
  BY DEF SeenLast, place
<1>6. ~held => Len(rest) = Len(order) /\ \A j \in 1 .. Len(order) : from(j) = j
  <2> SUFFICES ASSUME ~held
               PROVE  Len(rest) = Len(order) /\ \A j \in 1 .. Len(order) : from(j) = j
    OBVIOUS
  <2> QED OBVIOUS
<1> HIDE DEF rest, from
<1>7. /\ s \in Seq(Clients) /\ Len(s) = Len(rest) + 1 /\ s # <<>>
      /\ s[Len(rest) + 1] = c /\ \A j \in 1 .. Len(rest) : s[j] = rest[j]
  <2>1. rest \in Seq(Clients)
    BY <1>2
  <2> QED BY <2>1
<1> HIDE DEF s
<1>8. ToSet(s) = ToSet(order) \cup {c}
  <2>1. ASSUME NEW i \in DOMAIN s PROVE s[i] \in ToSet(order) \cup {c}
    <3>1. i \in 1 .. Len(rest) \/ i = Len(rest) + 1
      BY <1>2, <1>7
    <3>2. CASE i \in 1 .. Len(rest)
      <4>1. s[i] = order[from(i)] /\ from(i) \in DOMAIN order
        BY <1>2, <1>7, <3>2
      <4> QED BY <4>1 DEF ToSet
    <3> QED BY <1>7, <3>1, <3>2
  <2>2. c \in ToSet(s)
    <3>1. Len(rest) + 1 \in DOMAIN s
      BY <1>2, <1>7
    <3> QED BY <1>7, <3>1 DEF ToSet
  <2>3. ASSUME NEW i \in DOMAIN order, order[i] # c PROVE order[i] \in ToSet(s)
    <3>1. \E j \in 1 .. Len(rest) : from(j) = i
      <4>1. CASE held
        BY <1>1, <1>4, <2>3, <4>1
      <4>2. CASE ~held
        BY <1>6, <4>2
      <4> QED BY <4>1, <4>2
    <3>2. PICK j \in 1 .. Len(rest) : from(j) = i
      BY <3>1
    <3>3. s[j] = order[i] /\ j \in DOMAIN s
      BY <1>2, <1>7, <3>2
    <3> QED BY <3>3 DEF ToSet
  <2>4. ToSet(s) \subseteq ToSet(order) \cup {c}
    BY <2>1 DEF ToSet
  <2>5. ToSet(order) \subseteq ToSet(s)
    BY <2>2, <2>3 DEF ToSet
  <2> QED BY <2>2, <2>4, <2>5
<1>9. OldestFirst(s, SeenSince(c))
  <2> SUFFICES ASSUME NEW i \in DOMAIN s, NEW j \in DOMAIN s, i < j
               PROVE  s[j] # s[i] /\ s[j] \in SeenSince(c)[s[i]]
    BY DEF OldestFirst
  <2>1. i \in 1 .. Len(rest) /\ (j \in 1 .. Len(rest) \/ j = Len(rest) + 1)
    BY <1>2, <1>7
  <2>2. from(i) \in DOMAIN order /\ s[i] = order[from(i)] /\ s[i] # c /\ s[i] \in Clients
    BY <1>2, <1>7, <2>1
  <2>3. SeenSince(c)[s[i]] = others[s[i]] \cup {c}
    BY <2>2 DEF SeenSince
  <2>4. CASE j \in 1 .. Len(rest)
    <3>1. from(j) \in DOMAIN order /\ s[j] = order[from(j)] /\ from(i) < from(j)
      BY <1>2, <1>3, <1>7, <2>1, <2>4
    <3> QED BY <2>2, <2>3, <3>1 DEF OldestFirst
  <2>5. CASE j = Len(rest) + 1
    BY <1>7, <2>2, <2>3, <2>5
  <2> QED BY <2>1, <2>4, <2>5
<1>10. Len(s) = Len(order) + (IF held THEN 0 ELSE 1) /\ s[Len(s)] = c
  BY <1>2, <1>7
<1> QED BY <1>5, <1>7, <1>8, <1>9, <1>10

(* Who is evicted has MaxTracked others behind it, all of them seen since.   *)
LEMMA KeptFacts ==
  ASSUME NEW s \in Seq(Clients), s # <<>>, NEW o \in [Clients -> SUBSET Clients],
         OldestFirst(s, o), \A d \in Clients : IsFiniteSet(o[d])
  PROVE  /\ Kept(s) \in Seq(Clients) /\ Len(Kept(s)) =< MaxTracked
         /\ OldestFirst(Kept(s), o)
         /\ s[Len(s)] \in ToSet(Kept(s)) /\ ToSet(Kept(s)) \subseteq ToSet(s)
         /\ \A d \in ToSet(s) \ ToSet(Kept(s)) : ~(Cardinality(o[d]) < MaxTracked)
<1> DEFINE n == IF Len(s) > MaxTracked THEN Len(s) - MaxTracked ELSE 0
           k == Kept(s)
<1>1. n \in 0 .. Len(s) /\ n < Len(s) /\ Len(s) - n =< MaxTracked
      /\ (n = 0 \/ Len(s) - n = MaxTracked)
  BY GateNumbers
<1>2. k = SubSeq(s, n + 1, Len(s))
  <2>1. Min({Len(s), MaxTracked}) = IF Len(s) > MaxTracked THEN MaxTracked ELSE Len(s)
    BY GateNumbers DEF Min
  <2>2. Len(s) - Min({Len(s), MaxTracked}) = n
    BY <2>1, GateNumbers
  <2> QED BY <2>2 DEF Kept
<1> HIDE DEF n
<1>3. k \in Seq(Clients) /\ Len(k) = Len(s) - n /\ \A j \in 1 .. Len(s) - n : k[j] = s[n + j]
  BY <1>1, <1>2, SuffixFacts
<1> HIDE DEF k
<1>4. OldestFirst(k, o)
  <2> SUFFICES ASSUME NEW i \in DOMAIN k, NEW j \in DOMAIN k, i < j
               PROVE  k[j] # k[i] /\ k[j] \in o[k[i]]
    BY DEF OldestFirst
  <2>1. /\ n + i \in DOMAIN s /\ n + j \in DOMAIN s /\ n + i < n + j
        /\ k[i] = s[n + i] /\ k[j] = s[n + j]
    BY <1>1, <1>3
  <2> QED BY <2>1 DEF OldestFirst
<1>5. s[Len(s)] \in ToSet(k)
  <2>1. Len(s) - n \in DOMAIN k /\ n + (Len(s) - n) = Len(s) /\ Len(s) - n \in 1 .. Len(s) - n
    BY <1>1, <1>3
  <2>2. k[Len(s) - n] = s[Len(s)]
    BY <1>3, <2>1
  <2> QED BY <2>1, <2>2 DEF ToSet
<1>6. ToSet(k) \subseteq ToSet(s)
  <2>1. \A j \in DOMAIN k : n + j \in DOMAIN s /\ k[j] = s[n + j]
    BY <1>1, <1>3
  <2> QED BY <2>1 DEF ToSet
<1>7. ASSUME NEW d \in ToSet(s) \ ToSet(k)
      PROVE  ~(Cardinality(o[d]) < MaxTracked)
  <2>1. PICK i \in DOMAIN s : d = s[i]
    BY DEF ToSet
  <2>2. i =< n
    <3> SUFFICES ASSUME n < i PROVE FALSE
      BY <1>1
    <3>0. i - n \in 1 .. Len(s) - n /\ n + (i - n) = i
      BY <1>1
    <3>1. i - n \in DOMAIN k
      BY <1>3, <3>0
    <3>2. k[i - n] = d
      BY <1>3, <2>1, <3>0
    <3> QED BY <3>1, <3>2 DEF ToSet
  <2>3. Len(s) - n = MaxTracked
    BY <1>1, <2>2
  <2> DEFINE f == [j \in 1 .. MaxTracked |-> s[n + j]]
  <2>4. ASSUME NEW j \in 1 .. MaxTracked
        PROVE  n + j \in DOMAIN s /\ i < n + j
    BY <1>1, <2>2, <2>3
  <2>5. ASSUME NEW j \in 1 .. MaxTracked PROVE f[j] \in o[d]
    BY <2>1, <2>4 DEF OldestFirst
  <2>6. ASSUME NEW j \in 1 .. MaxTracked, NEW m \in 1 .. MaxTracked, j < m
        PROVE  f[j] # f[m]
    <3>1. n + j < n + m
      BY <1>1, <2>6
    <3> QED BY <2>4, <3>1 DEF OldestFirst
  <2>7. f \in [1 .. MaxTracked -> o[d]]
    BY <2>5
  <2> HIDE DEF f
  <2>8. \A j, m \in 1 .. MaxTracked : f[j] = f[m] => j = m
    <3> SUFFICES ASSUME NEW j \in 1 .. MaxTracked, NEW m \in 1 .. MaxTracked, f[j] = f[m], j # m
                 PROVE  FALSE
      OBVIOUS
    <3>1. j < m \/ m < j
      OBVIOUS
    <3> QED BY <2>6, <3>1
  <2>9. f \in Injection(1 .. MaxTracked, o[d])
    BY <2>7, <2>8 DEF Injection, IsInjective
  <2>10. IsFiniteSet(o[d])
    <3>1. d \in Clients
      BY <2>1
    <3> QED BY <3>1
  <2>11. Cardinality(1 .. MaxTracked) =< Cardinality(o[d])
    BY <2>9, <2>10, FS_Injection
  <2>12. Cardinality(1 .. MaxTracked) = MaxTracked
    BY GateNumbers, FS_Interval
  <2>13. Cardinality(o[d]) \in Nat
    BY <2>10, FS_CardinalityType
  <2> QED BY <2>11, <2>12, <2>13, GateNumbers
<1> QED BY <1>1, <1>3, <1>4, <1>5, <1>6, <1>7 DEF k

-----------------------------------------------------------------------------
(* The inductive invariant of the sliding window *)

RateType ==
    /\ order \in Seq(Clients)
    /\ hits \in [Clients -> Seq(Nat)]
    /\ recent \in [Clients -> SUBSET (Nat \X Nat)]
    /\ others \in [Clients -> SUBSET Clients]
    /\ \A c \in Clients : IsFiniteSet(recent[c]) /\ IsFiniteSet(others[c])

RateInv ==
    /\ RateType
    /\ OldestFirst(order, others)
    /\ TableBounded
    /\ \A c \in Clients : recent[c] # {} => c \in ToSet(order)
    /\ RPM > 0 => \A c \in Clients : /\ Len(hits[c]) =< RPM
                                    /\ Cardinality(recent[c]) =< RPM
                                    /\ Accounted(hits[c], recent[c])

LEMMA EmptyRate ==
  ASSUME order = <<>>, hits = [c \in Clients |-> <<>>],
         recent = [c \in Clients |-> {}], others = [c \in Clients |-> {}]
  PROVE  RateInv
<1>1. IsFiniteSet({}) /\ Cardinality({}) = 0
  BY FS_EmptySet
<1>2. RateType
  BY <1>1 DEF RateType
<1>3. OldestFirst(order, others) /\ Len(order) =< MaxTracked
  BY GateNumbers DEF OldestFirst
<1>4. RPM > 0 => \A c \in Clients : /\ Len(hits[c]) =< RPM
                                  /\ Cardinality(recent[c]) =< RPM
                                  /\ Accounted(hits[c], recent[c])
  BY <1>1, NothingAccounted, GateNumbers
<1> QED BY <1>2, <1>3, <1>4 DEF RateInv, TableBounded

LEMMA EmptyRateNext ==
  ASSUME order' = <<>>, hits' = [c \in Clients |-> <<>>],
         recent' = [c \in Clients |-> {}], others' = [c \in Clients |-> {}]
  PROVE  RateInv'
<1>1. IsFiniteSet({}) /\ Cardinality({}) = 0
  BY FS_EmptySet
<1>2. RateType'
  BY <1>1 DEF RateType
<1>3. OldestFirst(order', others') /\ Len(order') =< MaxTracked
  BY GateNumbers DEF OldestFirst
<1>4. RPM > 0 => \A c \in Clients : /\ Len(hits'[c]) =< RPM
                                  /\ Cardinality(recent'[c]) =< RPM
                                  /\ Accounted(hits'[c], recent'[c])
  BY <1>1, NothingAccounted, GateNumbers
<1> QED BY <1>2, <1>3, <1>4 DEF RateInv, TableBounded

LEMMA SeenSinceType ==
  ASSUME RateType, NEW c \in Clients
  PROVE  /\ SeenSince(c) \in [Clients -> SUBSET Clients]
         /\ \A d \in Clients : IsFiniteSet(SeenSince(c)[d])
<1>1. \A d \in Clients : IsFiniteSet(others[d] \cup {c})
  BY FS_AddElement DEF RateType
<1> QED BY <1>1, FS_EmptySet DEF RateType, SeenSince

(* What a client is entitled to is part of its log, or nothing. *)
LEMMA EntitledFacts ==
  ASSUME NEW c \in Clients, NEW log \in [Clients -> SUBSET (Nat \X Nat)],
         \A d \in Clients : IsFiniteSet(log[d])
  PROVE  /\ Entitled(c, log) \in [Clients -> SUBSET (Nat \X Nat)]
         /\ \A d \in Clients :
               /\ IsFiniteSet(Entitled(c, log)[d])
               /\ Cardinality(Entitled(c, log)[d]) =< Cardinality(log[d])
               /\ Entitled(c, log)[d] \in SUBSET log[d]
               /\ Entitled(c, log)[d] # {} => ~(Cardinality(SeenSince(c)[d]) >= MaxTracked)
<1>1. ASSUME NEW d \in Clients
      PROVE  /\ Entitled(c, log)[d] \in SUBSET log[d]
             /\ Entitled(c, log)[d] # {} => ~(Cardinality(SeenSince(c)[d]) >= MaxTracked)
  BY DEF Entitled
<1>2. ASSUME NEW d \in Clients
      PROVE  /\ IsFiniteSet(Entitled(c, log)[d])
             /\ Cardinality(Entitled(c, log)[d]) =< Cardinality(log[d])
  BY <1>1, FS_Subset
<1>3. Entitled(c, log) \in [Clients -> SUBSET (Nat \X Nat)]
  BY DEF Entitled
<1> QED BY <1>1, <1>2, <1>3

(* The history of the client that is admitted. *)
LEMMA RememberedFacts ==
  ASSUME RateType, NEW c \in Clients, NEW t \in Nat
  PROVE  /\ Admission(c, t) \in Nat \X Nat /\ Admission(c, t)[1] = t
         /\ Remembered(c, t) \in SUBSET (recent[c] \cup {Admission(c, t)})
         /\ \A b \in Remembered(c, t) : t - b[1] < Window
<1>1. Cardinality({a \in recent[c] : a[1] = t}) \in Nat
  <2>1. IsFiniteSet({a \in recent[c] : a[1] = t})
    BY FS_Subset DEF RateType
  <2> QED BY <2>1, FS_CardinalityType
<1>2. Admission(c, t) \in Nat \X Nat /\ Admission(c, t)[1] = t
  BY <1>1 DEF Admission
<1> QED BY <1>2 DEF Remembered

LEMMA PassRate ==
  ASSUME RateInv, NEW h \in Handlers, Pass(h), RPM # 0,
         ident[h] \in Clients, clk[h] \in Nat
  PROVE  RateInv'
<1> DEFINE c == ident[h]
           t == clk[h]
           s == SeenLast(c)
           l == Live(hits[c], t)
           log == [recent EXCEPT ![c] = Remembered(c, t)]
<1>1. /\ RPM > 0 /\ c \in Clients /\ t \in Nat /\ RateType
      /\ hits[c] \in Seq(Nat) /\ Len(l) < RPM
      /\ l \in Seq(Nat) /\ Len(l) \in Nat
  <2>1. hits[c] \in Seq(Nat)
    BY DEF RateInv, RateType
  <2>2. Len(l) < RPM
    BY DEF Pass, Admits
  <2> QED BY <2>1, <2>2, LiveType, GateNumbers DEF RateInv
<1>2. /\ order' = Kept(s) /\ others' = SeenSince(c) /\ recent' = Entitled(c, log)
      /\ hits' = [d \in Clients |-> IF d \notin ToSet(order') THEN <<>>
                                    ELSE IF d = c THEN Append(l, t) ELSE hits[d]]
  BY DEF Pass
<1> HIDE DEF c, t
<1>3. /\ s \in Seq(Clients) /\ s # <<>> /\ s[Len(s)] = c
      /\ ToSet(s) = ToSet(order) \cup {c} /\ OldestFirst(s, others')
  BY <1>1, <1>2, SeenLastFacts DEF RateInv, RateType
<1>4. others' \in [Clients -> SUBSET Clients] /\ \A d \in Clients : IsFiniteSet(others'[d])
  BY <1>1, <1>2, SeenSinceType
<1> HIDE DEF s
<1>5. /\ order' \in Seq(Clients) /\ Len(order') =< MaxTracked /\ OldestFirst(order', others')
      /\ c \in ToSet(order') /\ ToSet(order') \subseteq ToSet(s)
      /\ \A d \in ToSet(s) \ ToSet(order') : ~(Cardinality(others'[d]) < MaxTracked)
  BY <1>2, <1>3, <1>4, KeptFacts
<1>6. /\ IsFiniteSet(log[c]) /\ Cardinality(log[c]) =< Len(l) + 1
      /\ Accounted(Append(l, t), log[c]) /\ log[c] \in SUBSET (Nat \X Nat)
  <2>1. log[c] = Remembered(c, t)
    BY <1>1 DEF RateType
  <2>2. /\ Admission(c, t) \in Nat \X Nat /\ Admission(c, t)[1] = t
        /\ Remembered(c, t) \in SUBSET (recent[c] \cup {Admission(c, t)})
        /\ \A b \in Remembered(c, t) : t - b[1] < Window
    BY <1>1, RememberedFacts
  <2>3. /\ recent[c] \in SUBSET (Nat \X Nat) /\ IsFiniteSet(recent[c])
        /\ Accounted(hits[c], recent[c])
    BY <1>1 DEF RateInv, RateType
  <2>4. /\ IsFiniteSet(Remembered(c, t)) /\ Cardinality(Remembered(c, t)) =< Len(l) + 1
        /\ Accounted(Append(l, t), Remembered(c, t))
    BY <1>1, <2>2, <2>3, PassAccounted
  <2>5. Remembered(c, t) \in SUBSET (Nat \X Nat)
    BY <2>2, <2>3
  <2> QED BY <2>1, <2>4, <2>5
<1> HIDE DEF l
<1>7. \A d \in Clients \ {c} : log[d] = recent[d]
  BY <1>1 DEF RateType
<1>8. log \in [Clients -> SUBSET (Nat \X Nat)] /\ \A d \in Clients : IsFiniteSet(log[d])
  BY <1>1, <1>6, <1>7 DEF RateType
<1> HIDE DEF log
<1>9. /\ recent' \in [Clients -> SUBSET (Nat \X Nat)]
      /\ \A d \in Clients :
            /\ IsFiniteSet(recent'[d]) /\ Cardinality(recent'[d]) =< Cardinality(log[d])
            /\ recent'[d] \in SUBSET log[d]
            /\ recent'[d] # {} => ~(Cardinality(others'[d]) >= MaxTracked)
  BY <1>1, <1>2, <1>8, EntitledFacts
<1>10. ASSUME NEW d \in Clients, recent'[d] # {} PROVE d \in ToSet(order')
  <2>1. CASE d = c
    BY <1>5, <2>1
  <2>2. CASE d # c
    <3>1. recent[d] # {}
      BY <1>7, <1>9, <1>10, <2>2
    <3>2. d \in ToSet(s)
      BY <1>3, <3>1 DEF RateInv
    <3>3. Cardinality(others'[d]) \in Nat
      BY <1>4, FS_CardinalityType
    <3>4. Cardinality(others'[d]) < MaxTracked
      BY <1>9, <1>10, <3>3, GateNumbers
    <3> QED BY <1>5, <3>2, <3>4
  <2> QED BY <2>1, <2>2
<1>11. /\ hits' \in [Clients -> Seq(Nat)]
       /\ \A d \in Clients : hits'[d] # <<>> => d \in ToSet(order')
  <2>1. Append(l, t) \in Seq(Nat)
    BY <1>1
  <2> QED BY <1>1, <1>2, <2>1 DEF RateType
<1>12. ASSUME NEW d \in Clients
       PROVE  /\ Len(hits'[d]) =< RPM /\ Cardinality(recent'[d]) =< RPM
              /\ Accounted(hits'[d], recent'[d])
  <2>1. CASE d \notin ToSet(order')
    <3>1. hits'[d] = <<>> /\ recent'[d] = {}
      BY <1>2, <1>10, <2>1
    <3> QED BY <1>1, <3>1, NothingAccounted, FS_EmptySet, GateNumbers
  <2>2. CASE d = c
    <3>1. hits'[d] = Append(l, t) /\ Append(l, t) \in Seq(Nat) /\ Len(Append(l, t)) = Len(l) + 1
      BY <1>1, <1>2, <1>5, <2>2
    <3>2. Accounted(hits'[d], recent'[d])
      <4>1. /\ hits'[d] \in Seq(Nat) /\ Accounted(hits'[d], log[d])
            /\ log[d] \in SUBSET (Nat \X Nat) /\ IsFiniteSet(log[d])
        BY <1>6, <2>2, <3>1
      <4>2. recent'[d] \in SUBSET log[d]
        BY <1>9
      <4> QED BY <4>1, <4>2, LessAccounted
    <3>3. Cardinality(recent'[d]) \in Nat /\ Cardinality(log[d]) \in Nat
      BY <1>8, <1>9, FS_CardinalityType
    <3>4. Cardinality(recent'[d]) =< Len(l) + 1
      BY <1>1, <1>6, <1>9, <2>2, <3>3
    <3> QED BY <1>1, <3>1, <3>2, <3>3, <3>4, GateNumbers
  <2>3. CASE d \in ToSet(order') /\ d # c
    <3>1. hits'[d] = hits[d] /\ hits[d] \in Seq(Nat) /\ log[d] = recent[d]
      BY <1>1, <1>2, <1>7, <2>3 DEF RateType
    <3>2. Len(hits[d]) =< RPM /\ Cardinality(recent[d]) =< RPM /\ Accounted(hits[d], recent[d])
      BY <1>1 DEF RateInv
    <3>3. recent[d] \in SUBSET (Nat \X Nat) /\ IsFiniteSet(recent[d])
          /\ recent'[d] \in SUBSET recent[d]
      BY <1>1, <1>9, <3>1 DEF RateType
    <3>4. Accounted(hits'[d], recent'[d])
      BY <3>1, <3>2, <3>3, LessAccounted
    <3>5. Cardinality(recent'[d]) \in Nat /\ Cardinality(recent[d]) \in Nat
      BY <1>9, <3>3, FS_CardinalityType
    <3>6. Cardinality(recent'[d]) =< RPM
      BY <1>9, <3>1, <3>2, <3>5, GateNumbers
    <3> QED BY <3>1, <3>2, <3>4, <3>6
  <2> QED BY <2>1, <2>2, <2>3
<1> QED BY <1>4, <1>5, <1>9, <1>10, <1>11, <1>12 DEF RateInv, RateType, TableBounded

(* A client that is turned away has hits, so that it is in the table: the    *)
(* table does not grow, although nothing is evicted on this path.            *)
LEMMA RejectRate ==
  ASSUME RateInv, NEW h \in Handlers, Reject(h), ident[h] \in Clients, clk[h] \in Nat
  PROVE  RateInv'
<1> DEFINE c == ident[h]
           t == clk[h]
           s == SeenLast(c)
           l == Live(hits[c], t)
<1>1. /\ RPM > 0 /\ c \in Clients /\ t \in Nat /\ RateType
      /\ hits[c] \in Seq(Nat) /\ ~(Len(l) < RPM)
      /\ l \in Seq(Nat) /\ Len(l) \in 0 .. Len(hits[c])
  <2>1. hits[c] \in Seq(Nat)
    BY DEF RateInv, RateType
  <2>2. ~(RPM = 0 \/ Len(l) < RPM)
    BY DEF Reject, Admits
  <2> QED BY <2>1, <2>2, LiveType, GateNumbers DEF RateInv
<1>2. /\ order' = s /\ others' = SeenSince(c) /\ recent' = Entitled(c, recent)
      /\ hits' = [hits EXCEPT ![c] = l]
  BY DEF Reject
<1> HIDE DEF c, t
<1>3. /\ s \in Seq(Clients)
      /\ Len(s) = Len(order) + (IF c \in ToSet(order) THEN 0 ELSE 1)
      /\ ToSet(s) = ToSet(order) \cup {c} /\ OldestFirst(s, others')
  BY <1>1, <1>2, SeenLastFacts DEF RateInv, RateType
<1>4. others' \in [Clients -> SUBSET Clients] /\ \A d \in Clients : IsFiniteSet(others'[d])
  BY <1>1, <1>2, SeenSinceType
<1> HIDE DEF s
<1>5. Len(order') =< MaxTracked
  <2>1. hits[c] # <<>>
    <3> SUFFICES ASSUME hits[c] = <<>> PROVE FALSE
      OBVIOUS
    <3>1. Len(l) = 0
      BY <1>1
    <3> QED BY <1>1, <3>1
  <2>2. c \in ToSet(order) /\ Len(order) =< MaxTracked /\ Len(order) \in Nat
    BY <1>1, <2>1 DEF RateInv, RateType, TableBounded
  <2> QED BY <1>2, <1>3, <2>2
<1>6. /\ recent' \in [Clients -> SUBSET (Nat \X Nat)]
      /\ \A d \in Clients :
            /\ IsFiniteSet(recent'[d]) /\ Cardinality(recent'[d]) =< Cardinality(recent[d])
            /\ recent'[d] \in SUBSET recent[d]
  BY <1>1, <1>2, EntitledFacts DEF RateType
<1>7. \A d \in Clients : recent'[d] # {} => d \in ToSet(order')
  BY <1>2, <1>3, <1>6 DEF RateInv
<1> HIDE DEF l
<1>8. /\ hits' \in [Clients -> Seq(Nat)]
      /\ hits'[c] = l /\ \A d \in Clients \ {c} : hits'[d] = hits[d]
  BY <1>1, <1>2 DEF RateType
<1>9. \A d \in Clients : hits'[d] # <<>> => d \in ToSet(order')
  BY <1>2, <1>3, <1>8 DEF RateInv, TableBounded
<1>10. ASSUME NEW d \in Clients
       PROVE  /\ Len(hits'[d]) =< RPM /\ Cardinality(recent'[d]) =< RPM
              /\ Accounted(hits'[d], recent'[d])
  <2>1. /\ Len(hits[d]) =< RPM /\ Cardinality(recent[d]) =< RPM /\ Accounted(hits[d], recent[d])
        /\ hits[d] \in Seq(Nat) /\ recent[d] \in SUBSET (Nat \X Nat) /\ IsFiniteSet(recent[d])
    BY <1>1 DEF RateInv, RateType
  <2>2. hits'[d] \in Seq(Nat) /\ Len(hits'[d]) =< RPM /\ Accounted(hits'[d], recent[d])
    <3>1. CASE d = c
      <4>1. Accounted(l, recent[c])
        BY <1>1, <2>1, <3>1, RejectAccounted DEF l
      <4>2. Len(l) =< RPM
        BY <1>1, <2>1, <3>1, GateNumbers
      <4> QED BY <1>1, <1>8, <3>1, <4>1, <4>2
    <3>2. CASE d # c
      BY <1>8, <2>1, <3>2
    <3> QED BY <3>1, <3>2
  <2>3. Accounted(hits'[d], recent'[d])
    BY <1>6, <2>1, <2>2, LessAccounted
  <2>4. Cardinality(recent'[d]) \in Nat /\ Cardinality(recent[d]) \in Nat
    BY <1>6, <2>1, FS_CardinalityType
  <2> QED BY <1>6, <2>1, <2>2, <2>3, <2>4, GateNumbers
<1> QED BY <1>2, <1>3, <1>4, <1>5, <1>6, <1>7, <1>8, <1>9, <1>10
        DEF RateInv, RateType, TableBounded

-----------------------------------------------------------------------------
(* Types, and the sliding window *)

GateInv ==
    /\ TypeOK
    /\ \A h \in Handlers : pc[h] = "check" => ident[h] \in Clients
    /\ RateInv

LEMMA InitGate == Init => GateInv
<1> SUFFICES ASSUME Init PROVE GateInv
  OBVIOUS
<1>1. RateInv
  BY EmptyRate DEF Init
<1> QED BY <1>1 DEF Init, Stages, GateInv, TypeOK, NotTold

LEMMA RetryAfterType ==
  ASSUME NEW s \in Seq(Nat), s # <<>>, NEW t \in Nat, t - s[1] < Window
  PROVE  /\ RetryAfter(s, t) \in Nat
         /\ t + RetryAfter(s, t) * TicksPerSecond \in Nat
         /\ (t + RetryAfter(s, t) * TicksPerSecond) - s[1] >= Window
<1> DEFINE left == Window - (t - s[1])
           q == left \div TicksPerSecond
<1>1. s[1] \in Nat /\ left \in Nat /\ Head(s) = s[1]
  BY GateNumbers
<1>2. q \in Nat /\ left < TicksPerSecond * q + TicksPerSecond
  <2> HIDE DEF left
  <2> QED BY <1>1, GateNumbers
<1>3. Truncated(left) = q
  BY <1>1 DEF Truncated
<1> HIDE DEF q
<1>4. Max({1, q + 1}) = q + 1
  BY <1>2 DEF Max
<1>5. RetryAfter(s, t) = q + 1
  BY <1>1, <1>3, <1>4 DEF RetryAfter
<1>6. (q + 1) * TicksPerSecond \in Nat /\ left < (q + 1) * TicksPerSecond
  <2>1. (q + 1) * TicksPerSecond = TicksPerSecond * q + TicksPerSecond
    BY <1>2, GateNumbers
  <2>2. (q + 1) * TicksPerSecond \in Nat
    BY <1>2, GateNumbers
  <2> QED BY <1>2, <2>1, <2>2
<1> QED BY <1>1, <1>2, <1>5, <1>6, GateNumbers

(* The hit that a client is told to wait for is the oldest of the deque that *)
(* turned it away: with that one gone there is room.                         *)
LEMMA RejectRetry ==
  ASSUME RateInv, NEW h \in Handlers, Reject(h), ident[h] \in Clients, clk[h] \in Nat
  PROVE  /\ told' \in [code : {429}, id : Clients, at : Nat, retry : Nat]
         /\ RetryAfterSuffices'
<1> DEFINE c == ident[h]
           t == clk[h]
           l == Live(hits[c], t)
           retry == RetryAfter(l, t)
           u == t + retry * TicksPerSecond
<1>1. /\ c \in Clients /\ t \in Nat /\ hits \in [Clients -> Seq(Nat)] /\ hits[c] \in Seq(Nat)
      /\ RPM > 0 /\ ~(Len(l) < RPM) /\ Len(hits[c]) =< RPM
  <2>1. ~(RPM = 0 \/ Len(l) < RPM)
    BY DEF Reject, Admits
  <2>2. RPM > 0
    BY <2>1, GateNumbers
  <2> QED BY <2>1, <2>2 DEF RateInv, RateType
<1>2. /\ hits'[c] = l /\ told' = [code |-> 429, id |-> c, at |-> t, retry |-> retry]
  BY <1>1 DEF Reject
<1> HIDE DEF c, t
<1>3. l \in Seq(Nat) /\ Len(l) = RPM
  BY <1>1, LiveType, GateNumbers
<1>4. l # <<>> /\ t - l[1] < Window
  <2>1. PICK n \in 0 .. Len(hits[c]) : DropsFirst(hits[c], t, n)
    BY <1>1, LiveDrops
  <2>2. /\ Len(l) = Len(hits[c]) - n
        /\ \A j \in 1 .. Len(hits[c]) - n : l[j] = hits[c][n + j]
    BY <1>1, <2>1, LiveIs
  <2>3. n < Len(hits[c]) /\ 1 \in 1 .. Len(hits[c]) - n
    BY <1>1, <1>3, <2>2, GateNumbers
  <2>4. l[1] = hits[c][n + 1]
    BY <2>2, <2>3
  <2>5. t - hits[c][n + 1] < Window
    BY <2>1, <2>3 DEF DropsFirst
  <2> HIDE DEF l
  <2> QED BY <1>1, <1>3, <2>4, <2>5, GateNumbers
<1> HIDE DEF l
<1>5. retry \in Nat /\ u \in Nat /\ u - l[1] >= Window
  BY <1>1, <1>3, <1>4, RetryAfterType
<1> HIDE DEF retry
<1>6. Len(Live(l, u)) < RPM
  <2>1. PICK m \in 0 .. Len(l) : DropsFirst(l, u, m)
    BY <1>3, <1>5, LiveDrops
  <2>2. m # 0
    <3> SUFFICES ASSUME m = 0 PROVE FALSE
      OBVIOUS
    <3>1. u - l[1] < Window /\ l[1] \in Nat
      BY <1>1, <1>3, <2>1 DEF DropsFirst
    <3> HIDE DEF u
    <3> QED BY <1>5, <3>1, GateNumbers
  <2>3. Len(Live(l, u)) = Len(l) - m
    BY <1>3, <1>5, <2>1, LiveIs
  <2> QED BY <1>3, <2>2, <2>3
<1>7. Admits(hits'[c], u)
  BY <1>2, <1>6 DEF Admits
<1>8. RetryAfterSuffices'
  BY <1>2, <1>7 DEF RetryAfterSuffices
<1> QED BY <1>1, <1>2, <1>5, <1>8

LEMMA StepGate ==
  ASSUME GateInv, [Next]_vars
  PROVE  GateInv'
<1> USE DEF GateInv
<1>1. ASSUME NEW h \in Handlers, Check(h), Pass(h) PROVE GateInv'
  <2>1. ident[h] \in Clients /\ clk[h] \in Nat
    BY <1>1 DEF Check, TypeOK
  <2>2. RateInv'
    <3>1. CASE RPM = 0
      BY <1>1, <3>1 DEF Pass, rate, RateInv, RateType, TableBounded
    <3>2. CASE RPM # 0
      BY <1>1, <2>1, <3>2, PassRate
    <3> QED BY <3>1, <3>2
  <2> QED BY <1>1, <2>2 DEF Check, Pass, Stages, TypeOK, RateInv, RateType, NotTold
<1>2. ASSUME NEW h \in Handlers, Check(h), Reject(h) PROVE GateInv'
  <2>1. ident[h] \in Clients /\ clk[h] \in Nat
    BY <1>2 DEF Check, TypeOK
  <2>2. RateInv'
    BY <1>2, <2>1, RejectRate
  <2>3. told' \in [code : {429}, id : Clients, at : Nat, retry : Nat]
    BY <1>2, <2>1, RejectRetry
  <2>4. told' \in [code : {0, 429, 503}, id : Clients \cup {NoClient}, at : Nat, retry : Nat]
    BY <2>3
  <2>5. pc' = [pc EXCEPT ![h] = "release"] /\ pc[h] = "check"
    BY <1>2 DEF Check, Reject
  <2>6. pc' \in [Handlers -> Stages]
    BY <2>5 DEF TypeOK, Stages
  <2>7. \A g \in Handlers : pc'[g] = "check" => pc[g] = "check" /\ ident'[g] = ident[g]
    BY <1>2, <2>5 DEF Check, TypeOK
  <2>8. /\ UNCHANGED <<now, active, resets, strays, clean>>
        /\ ident' \in [Handlers -> Clients \cup {NoClient}]
        /\ clk' \in [Handlers -> Nat]
    BY <1>2 DEF Check, TypeOK
  <2>9. recent' \in [Clients -> SUBSET (Nat \X Nat)] /\ hits' \in [Clients -> Seq(Nat)]
        /\ order' \in Seq(Clients) /\ others' \in [Clients -> SUBSET Clients]
    BY <2>2 DEF RateInv, RateType
  <2>10. TypeOK'
    BY <2>4, <2>6, <2>8, <2>9, SMTT(30) DEF TypeOK
  <2> QED BY <2>2, <2>7, <2>8, <2>10
<1>3. ASSUME UNCHANGED rate, RateInv PROVE RateInv'
  BY <1>3 DEF rate, RateInv, RateType, TableBounded
<1>4. ASSUME NEW h \in Handlers, Serve(h) \/ Linger(h) \/ Leave(h) PROVE GateInv'
  <2>1. PICK from, to \in Stages \ {"check"} : Move(h, from, to)
    BY <1>4 DEF Serve, Linger, Leave, Stages
  <2> QED BY <1>3, <2>1 DEF Move, TypeOK, NotTold, rate
<1>5. ASSUME NEW h \in Handlers, Release(h) PROVE GateInv'
  BY <1>3, <1>5 DEF Release, Released, Stages, TypeOK, NotTold, rate
<1>6. ASSUME NEW h \in Handlers, NEW c \in Clients, Acquire(h, c) PROVE GateInv'
  BY <1>3, <1>6 DEF Acquire, Stages, TypeOK, NotTold, rate
<1>7. ASSUME NEW h \in Handlers, Overloaded(h) PROVE GateInv'
  BY <1>3, <1>7 DEF Overloaded, TypeOK, rate
<1>8. CASE Reset
  <2>1. RateInv'
    BY <1>8, EmptyRateNext DEF Reset
  <2> QED BY <1>8, <2>1 DEF Reset, TypeOK, NotTold
<1>9. CASE Tick
  BY <1>3, <1>9 DEF Tick, TypeOK, NotTold, rate
<1>10. CASE UNCHANGED vars
  BY <1>3, <1>10 DEF vars, TypeOK, rate
<1> QED BY <1>1, <1>2, <1>4, <1>5, <1>6, <1>7, <1>8, <1>9, <1>10 DEF Next, Work, Check

LEMMA StepRetry ==
  ASSUME GateInv, RetryAfterSuffices, [Next]_vars
  PROVE  RetryAfterSuffices'
<1>1. ASSUME told'.code # 429 PROVE RetryAfterSuffices'
  BY <1>1 DEF RetryAfterSuffices
<1>2. ASSUME NEW h \in Handlers, Check(h) PROVE RetryAfterSuffices'
  <2>1. CASE Pass(h)
    BY <1>1, <2>1 DEF Pass, NotTold
  <2>2. CASE Reject(h)
    <3>1. ident[h] \in Clients /\ clk[h] \in Nat /\ RateInv
      BY <1>2 DEF Check, GateInv, TypeOK
    <3> QED BY <2>2, <3>1, RejectRetry
  <2> QED BY <1>2, <2>1, <2>2 DEF Check
<1>3. ASSUME NEW h \in Handlers, Serve(h) \/ Linger(h) \/ Leave(h) \/ Release(h)
      PROVE  RetryAfterSuffices'
  BY <1>1, <1>3 DEF Serve, Linger, Leave, Move, Release, NotTold
<1>4. ASSUME NEW h \in Handlers, Overloaded(h) \/ \E c \in Clients : Acquire(h, c)
      PROVE  RetryAfterSuffices'
  BY <1>1, <1>4 DEF Acquire, Overloaded, NotTold
<1>5. CASE Reset \/ Tick
  BY <1>1, <1>5 DEF Reset, Tick, NotTold
<1>6. CASE UNCHANGED vars
  BY <1>6 DEF vars, RetryAfterSuffices
<1> QED BY <1>2, <1>3, <1>4, <1>5, <1>6 DEF Next, Work

(* The deques, the table and the history are one inductive invariant.        *)
THEOREM GateInductive == Spec => []GateInv
<1>1. Init => GateInv
  BY InitGate
<1>2. GateInv /\ [Next]_vars => GateInv'
  BY StepGate
<1> QED BY <1>1, <1>2, PTL DEF Spec

(* Every variable of the gate has its type.                                  *)
THEOREM GateTypes == Spec => []TypeOK
<1>1. GateInv => TypeOK
  BY DEF GateInv
<1> QED BY <1>1, GateInductive, PTL

(* No client that is remembered is granted more than RPM requests in the     *)
(* window that ends at the latest clock value it was admitted with, in       *)
(* whatever order the handlers of _ratelimit_check read the clock and check. *)
THEOREM QuotaIsKept == Spec => []QuotaHolds
<1>1. GateInv => QuotaHolds
  BY DEF GateInv, RateInv, QuotaHolds
<1> QED BY <1>1, GateInductive, PTL

(* The table of identities never outgrows _RATELIMIT_MAX_TRACKED, also on    *)
(* the path that turns a client away and evicts nobody, and nobody outside   *)
(* of it has hits.                                                           *)
THEOREM TableIsBounded == Spec => []TableBounded
<1>1. GateInv => TableBounded
  BY DEF GateInv, RateInv
<1> QED BY <1>1, GateInductive, PTL

(* The Retry-After of a 429 is long enough, whatever its rounding.           *)
THEOREM RetryIsEnough == Spec => []RetryAfterSuffices
<1>1. Init => RetryAfterSuffices
  BY DEF Init, RetryAfterSuffices, NotTold
<1>2. GateInv /\ RetryAfterSuffices /\ [Next]_vars => RetryAfterSuffices'
  BY StepRetry
<1> QED BY <1>1, <1>2, GateInductive, PTL DEF Spec
=============================================================================
