---------------------------- MODULE MonitorProofs ----------------------------
(***************************************************************************)
(* Proofs about Monitor: its types, what becomes of the secret, and that   *)
(* the flag `running` has a thread behind it, for any number of callers,   *)
(* loops and faults.                                                       *)
(***************************************************************************)
EXTENDS Monitor, TLAPS

(* A file the program can have left: its secret is not empty. *)
Kept == {f \in Files : f.secret # Empty}

-----------------------------------------------------------------------------
(* The operators of Settings *)

(* What is loaded are values, whatever the file and the fault. *)
LEMMA LoadedType ==
  ASSUME NEW x \in Files \cup {NoFile}, NEW f \in Faults
  PROVE  /\ Merged(x, f) \in Files
         /\ Loaded(x, f) \in Values
<1>1. Default \in Values /\ Stored(Default, FALSE, FALSE) \in Files
  BY DEF Default, Stored, Values, Files
<1>2. Merged(x, f) \in Files
  BY <1>1 DEF Merged
<1> QED
  BY <1>2 DEF Loaded, Values, Files

(* What is written is a sealed file of this version. *)
LEMMA WrittenType ==
  ASSUME NEW v \in Values
  PROVE  /\ Written(v) \in Files
         /\ Written(v).secret = v.secret
         /\ Written(v).sealed /\ ~Written(v).retired
BY DEF Written, Stored, Values, Files

(* A load leaves a file or none. *)
LEMMA AfterLoadType ==
  ASSUME NEW x \in Files \cup {NoFile}, NEW f \in Faults
  PROVE  AfterLoad(x, f) \in Files \cup {NoFile}
BY LoadedType, WrittenType DEF AfterLoad

(* A save keeps the types. *)
LEMMA SavedType ==
  ASSUME NEW x \in Files \cup {NoFile}, NEW v \in Values, NEW f \in Faults
  PROVE  Saved(x, v, f) \in Values
<1>1. Loaded(x, f) \in Values
  BY LoadedType
<1> QED
  BY <1>1 DEF Saved, Changed, Values

(* Without a fault a load loses no secret, *)
LEMMA LoadedKeeps ==
  ASSUME NEW x \in Kept \cup {NoFile}
  PROVE  Loaded(x, "none").secret # Empty
BY MonitorConfig DEF Loaded, Merged, Stored, Default, Kept, Files

(* leaves a file with one, and one with nothing in the clear. *)
LEMMA AfterLoadKeeps ==
  ASSUME NEW x \in Kept \cup {NoFile}
  PROVE  LET y == AfterLoad(x, "none") IN
         y \in Kept /\ y.sealed /\ ~y.retired
<1>1. Loaded(x, "none") \in Values
  BY LoadedType DEF Kept, Faults
<1>2. CASE Migrates(x, "none")
  BY <1>1, <1>2, WrittenType, LoadedKeeps DEF AfterLoad, Kept
<1>3. CASE ~Migrates(x, "none")
  <2>1. x # NoFile
    BY <1>3, MonitorConfig DEF Migrates, Merged, Stored, Default
  <2>2. x \in Kept /\ ~x.retired /\ x.sealed
    BY <1>3, <2>1 DEF Migrates, Merged, Kept, Files
  <2> QED
    BY <1>3, <2>2 DEF AfterLoad
<1> QED
  BY <1>2, <1>3

(* So does a save, whatever was typed. *)
LEMMA SavedKeeps ==
  ASSUME NEW x \in Kept \cup {NoFile}, NEW v \in Values
  PROVE  Saved(x, v, "none").secret # Empty
<1>1. Loaded(x, "none").secret # Empty
  BY LoadedKeeps
<1>2. Saved(x, v, "none").secret =
        IF v.secret = Empty THEN Loaded(x, "none").secret ELSE v.secret
  BY DEF Saved, Changed, Values
<1> QED
  BY <1>1, <1>2

-----------------------------------------------------------------------------
(* The file *)

(* What is so of the file and the faults, once something was read or written. *)
FileType == file \in Files \cup {NoFile} /\ faults \in 0 .. MaxFaults

Sealed == faults = 0 => file \in Kept /\ file.sealed /\ ~file.retired

(* While the program starts, the file may be as an earlier version left it. *)
FileInv == FileType /\ SecretSurvives /\ (~At(Main, "boot") => Sealed)

(* A sealed file is what the two properties of the file ask for. *)
LEMMA SealedIsEnough == FileInv => NothingInTheClear
BY MonitorConfig DEF Sealed, FileInv, NothingInTheClear, Kept

(* After a step, too. *)
LEMMA SealedNext ==
  ASSUME FileType', Sealed'
  PROVE  FileInv'
<1>1. faults' = 0 => file'.secret # Empty
  BY DEF Sealed, Kept
<1> QED
  BY <1>1 DEF FileInv, SecretSurvives

(* Whoever loads the settings, fault or not, leaves them sealed. *)
LEMMA LoadSeals ==
  ASSUME FileInv, NEW f \in Faults, Fault(f), file' = AfterLoad(file, f)
  PROVE  FileInv'
<1>1. FileType'
  BY AfterLoadType, MonitorConfig DEF FileInv, FileType, Fault
<1>2. ASSUME faults' = 0 PROVE f = "none" /\ faults = 0
  BY <1>2, MonitorConfig DEF FileInv, FileType, Fault
<1>3. faults = 0 => file \in Kept \cup {NoFile}
  BY DEF FileInv, FileType, SecretSurvives, Kept
<1>4. Sealed'
  BY <1>2, <1>3, AfterLoadKeeps DEF Sealed
<1> QED
  BY <1>1, <1>4, SealedNext

(* So does whoever saves them, once the program has started. *)
LEMMA SaveSeals ==
  ASSUME FileInv, ~At(Main, "boot"), NEW f \in Faults, Fault(f), NEW v \in Values,
         file' = IF f = "write" THEN file ELSE Written(Saved(file, v, f))
  PROVE  FileInv'
<1>1. Saved(file, v, f) \in Values
  BY SavedType DEF FileInv, FileType
<1>2. FileType'
  BY <1>1, WrittenType, MonitorConfig DEF FileInv, FileType, Fault
<1>3. ASSUME faults' = 0 PROVE f = "none" /\ faults = 0
  BY <1>3, MonitorConfig DEF FileInv, FileType, Fault
<1>4. faults = 0 => file \in Kept \cup {NoFile}
  BY DEF FileInv, FileType, SecretSurvives, Kept
<1>5. ASSUME faults' = 0 PROVE file' \in Kept /\ file'.sealed /\ ~file'.retired
  BY <1>1, <1>3, <1>4, <1>5, SavedKeeps, WrittenType DEF Kept
<1>6. Sealed'
  BY <1>5 DEF Sealed
<1> QED
  BY <1>2, <1>6, SealedNext

-----------------------------------------------------------------------------
(* The callers and the loops *)

Stages == {"unborn", "head", "config", "check", "clear", "wait", "end", "over", "dead"}

CallerStages ==
    {"boot", "done", "idle", "before", "save", "start", "spawn", "stop", "stop wakes",
     "stopped", "trigger", "load port", "save port"}

(* The rest of the types, with what the proofs need of the functions. *)
CallerType ==
    /\ pc \in [Callers -> CallerStages]
    /\ old \in [Callers -> Values] /\ new \in [Callers -> Values]
    /\ calls \in 0 .. MaxCalls

LoopType ==
    /\ {cancel, wake, running, asked} \subseteq BOOLEAN
    /\ loop \in [Loops -> Stages]

(* Panels do nothing while the program starts. *)
Booting ==
    /\ \A p \in Callers : At(p, "boot") => p = Main
    /\ At(Main, "boot") => \A p \in Panels : At(p, "idle")

(* A start that found a thread for its loop keeps it: _lock is held. *)
Spawning ==
    \A p \in Callers : At(p, "spawn") =>
        /\ Unborn # {}
        /\ \A q \in Callers : At(q, "spawn") => q = p

(* The inductive invariant. *)
IInv == FileInv /\ CallerType /\ LoopType /\ Booting /\ Spawning /\ RunningHasThread

(* The initial state has it. *)
LEMMA Initially == Init => IInv
<1> SUFFICES ASSUME Init PROVE IInv
  OBVIOUS
<1> USE DEF Init
<1>1. Default \in Values
  BY DEF Default, Values
<1>2. At(Main, "boot") /\ Main \in Callers
  BY DEF At, Callers
<1>3. FileInv
  <2>1. file \in Kept \cup {NoFile} /\ MaxFaults \in Nat
    BY MonitorConfig DEF Kept
  <2>2. FileType
    BY <2>1 DEF FileType, Kept
  <2> QED
    BY <1>2, <2>1, <2>2 DEF FileInv, SecretSurvives, Kept
<1>4. CallerType /\ Booting /\ Spawning
  <2>1. pc \in [Callers -> CallerStages] /\ \A p \in Callers : ~At(p, "spawn")
    BY DEF CallerStages, At
  <2>2. Booting
    BY MonitorConfig DEF Booting, At, Callers
  <2>3. calls \in 0 .. MaxCalls
    BY MonitorConfig
  <2> QED
    BY <1>1, <2>1, <2>2, <2>3 DEF CallerType, Spawning
<1>5. LoopType /\ RunningHasThread
  BY DEF LoopType, Stages, RunningHasThread
<1> QED
  BY <1>3, <1>4, <1>5 DEF IInv

(* Of a caller's step to a stage that is neither boot nor spawn. *)
LEMMA Goes ==
  ASSUME CallerType, Booting, Spawning, NEW p \in Callers, p = Main \/ ~At(Main, "boot"),
         NEW label \in CallerStages \ {"boot", "spawn"}, Go(p, label),
         loop' = loop,
         old' \in [Callers -> Values], new' \in [Callers -> Values], calls' \in 0 .. MaxCalls
  PROVE  CallerType' /\ Booting' /\ Spawning'
<1>1. CallerType' /\ \A q \in Callers : pc'[q] = IF q = p THEN label ELSE pc[q]
  BY DEF CallerType, Go
<1>2. Booting'
  BY <1>1, MonitorConfig DEF Booting, At, Callers
<1>3. Spawning'
  BY <1>1 DEF Spawning, At, Unborn
<1> QED
  BY <1>1, <1>2, <1>3

(* The file's invariant is kept by whoever leaves the file and main alone. *)
LEMMA FileKept ==
  ASSUME FileInv, UNCHANGED <<file, faults>>, At(Main, "boot") <=> At(Main, "boot")'
  PROVE  FileInv'
BY DEF FileInv, FileType, Sealed, SecretSurvives

(* So is the flag's. *)
LEMMA FlagKept ==
  ASSUME LoopType, RunningHasThread, UNCHANGED <<running, loop>>
  PROVE  RunningHasThread'
BY DEF RunningHasThread, Alive

(* A loop that goes on, or dies of its interval, is still to be seen. *)
LEMMA LoopGoesOn ==
  ASSUME LoopType, RunningHasThread, NEW l \in Loops,
         NEW to \in Stages \ {"unborn", "over"}, loop' = [loop EXCEPT ![l] = to],
         running' = running
  PROVE  RunningHasThread'
<1>1. CASE \E k \in Loops : k # l /\ (Alive(k) \/ loop[k] = "dead")
  BY <1>1 DEF RunningHasThread, Alive, LoopType
<1>2. Alive(l)' \/ loop'[l] = "dead"
  BY DEF LoopType, Alive, Stages
<1> QED
  BY <1>2 DEF RunningHasThread

-----------------------------------------------------------------------------
(* The steps *)

(* A caller that is neither idle nor starting the program finds it started. *)
LEMMA Started ==
  ASSUME IInv, NEW p \in Callers, ~At(p, "boot"), ~At(p, "idle")
  PROVE  ~At(Main, "boot")
BY DEF IInv, Booting, Callers, At

(* The program starts. *)
LEMMA BootStep ==
  ASSUME IInv, Boot
  PROVE  IInv'
<1> USE DEF IInv
<1>1. FileInv'
  BY LoadSeals DEF Boot
<1>2. CallerType' /\ Booting' /\ Spawning'
  BY Goes DEF Boot, monitor, Callers, CallerStages, CallerType
<1>3. LoopType' /\ RunningHasThread'
  BY FlagKept DEF Boot, monitor, LoopType
<1> QED
  BY <1>1, <1>2, <1>3

(* A call of the management server begins. *)
LEMMA CallStep ==
  ASSUME IInv, NEW p \in Panels, Call(p)
  PROVE  IInv'
<1> USE DEF IInv
<1>0. p \in Callers /\ p # Main /\ ~At(Main, "boot")
  BY MonitorConfig DEF Callers, Call, At
<1>1. calls' \in 0 .. MaxCalls
  <2>1. calls' = calls + 1 /\ calls < MaxCalls
    BY DEF Call
  <2> QED
    BY <2>1, MonitorConfig DEF CallerType
<1>2. CallerType' /\ Booting' /\ Spawning'
  BY <1>0, <1>1, Goes DEF Call, monitor, CallerStages, CallerType
<1>3. FileInv'
  <2>1. UNCHANGED settings /\ \E label \in CallerStages : Go(p, label)
    BY DEF Call, CallerStages
  <2>2. pc'[Main] = pc[Main]
    BY <1>0, <2>1 DEF Go, CallerType, Callers
  <2> QED
    BY <2>1, <2>2, FileKept DEF settings, At
<1>4. LoopType' /\ RunningHasThread'
  BY FlagKept DEF Call, monitor, LoopType
<1> QED
  BY <1>2, <1>3, <1>4

(* A call loads or saves the settings. *)
LEMMA SettingsStep ==
  ASSUME IInv, NEW p \in Callers,
         SaveBegins(p) \/ SaveWrites(p) \/ PortLoads(p) \/ PortSaves(p)
  PROVE  IInv'
<1> USE DEF IInv
<1>0. ~At(Main, "boot")
  BY Started DEF SaveBegins, SaveWrites, PortLoads, PortSaves, At
<1>1. old[p] \in Values /\ new[p] \in Values /\ Default \in Values
  BY DEF CallerType, Default, Values
<1>2. FileInv'
  <2>1. CASE SaveBegins(p)
    BY <2>1, LoadSeals DEF SaveBegins
  <2>2. CASE PortLoads(p)
    BY <2>2, LoadSeals DEF PortLoads
  <2>3. CASE PortSaves(p)
    BY <1>0, <1>1, <2>3, SaveSeals DEF PortSaves
  <2>4. CASE SaveWrites(p)
    BY <1>0, <1>1, <2>4, SaveSeals DEF SaveWrites
  <2> QED
    BY <2>1, <2>2, <2>3, <2>4
<1>3. CallerType' /\ Booting' /\ Spawning'
  <2>1. CASE SaveBegins(p)
    <3>1. \A f \in Faults : Loaded(file, f) \in Values
      BY LoadedType DEF FileInv, FileType
    <3> QED
      BY <1>0, <2>1, <3>1, Goes, MonitorConfig DEF SaveBegins, monitor, CallerType, CallerStages
  <2>2. CASE PortLoads(p)
    <3>1. \A f \in Faults : [Loaded(file, f) EXCEPT !.port = "moved"] \in Values
      BY LoadedType DEF FileInv, FileType, Values
    <3> QED
      BY <1>0, <2>2, <3>1, Goes DEF PortLoads, monitor, CallerType, CallerStages
  <2>3. CASE PortSaves(p)
    BY <1>0, <1>1, <2>3, Goes DEF PortSaves, Forget, monitor, CallerType, CallerStages
  <2>4. CASE SaveWrites(p)
    BY <1>0, <1>1, <2>4, Goes DEF SaveWrites, Forget, monitor, CallerType, CallerStages
  <2> QED
    BY <2>1, <2>2, <2>3, <2>4
<1>4. UNCHANGED monitor
  BY DEF SaveBegins, SaveWrites, PortLoads, PortSaves
<1>5. LoopType' /\ RunningHasThread'
  BY <1>4, FlagKept DEF monitor, LoopType
<1> QED
  BY <1>2, <1>3, <1>5

(* The monitor is started or stopped, or asked for a check. *)
LEMMA CallerStep ==
  ASSUME IInv, NEW p \in Callers,
         \/ StartChecks(p) \/ StopCancels(p) \/ StopWakes(p) \/ StopEnds(p) \/ Trigger(p)
  PROVE  IInv'
<1> USE DEF IInv
<1>0. ~At(Main, "boot") /\ p \in Callers
  BY Started DEF StartChecks, StopCancels, StopWakes, StopEnds, Trigger, At
<1>1. CASE StartChecks(p) /\ ~running
  <2>1. CallerType' /\ \A q \in Callers : pc'[q] = IF q = p THEN "spawn" ELSE pc[q]
    BY <1>1 DEF StartChecks, CallerType, CallerStages, Go
  <2>2. Booting'
    BY <1>0, <2>1, MonitorConfig DEF Booting, At, Callers
  <2>3. Spawning'
    BY <1>1, <2>1 DEF Spawning, StartChecks, At, Unborn
  <2>4. FileInv'
    BY <1>0, <1>1, <2>1, FileKept DEF StartChecks, settings, At, Callers
  <2>5. LoopType' /\ RunningHasThread'
    BY <1>1, FlagKept DEF StartChecks, LoopType
  <2> QED
    BY <2>1, <2>2, <2>3, <2>4, <2>5
<1>2. CASE \/ StartChecks(p) /\ running
           \/ StopCancels(p) \/ StopWakes(p) \/ StopEnds(p) \/ Trigger(p)
  <2>1. \E label \in CallerStages \ {"boot", "spawn"} : Go(p, label)
    BY <1>2 DEF StartChecks, StopCancels, StopWakes, StopEnds, Trigger, Return, Go, CallerStages
  <2>2. UNCHANGED <<settings, calls, old, new, loop>>
    BY <1>2 DEF StartChecks, StopCancels, StopWakes, StopEnds, Trigger
  <2>3. CallerType' /\ Booting' /\ Spawning'
    BY <1>0, <2>1, <2>2, Goes DEF CallerType
  <2>4. FileInv'
    BY <1>0, <2>2, <2>3, <2>1, FileKept DEF settings, At, Go, CallerType, Callers
  <2>5. LoopType'
    BY <1>2, <2>2 DEF StartChecks, StopCancels, StopWakes, StopEnds, Trigger, LoopType
  <2>6. RunningHasThread'
    BY <1>2, <2>2, FlagKept
       DEF StartChecks, StopCancels, StopWakes, StopEnds, Trigger, RunningHasThread
  <2> QED
    BY <2>3, <2>4, <2>5, <2>6
<1> QED
  BY <1>1, <1>2 DEF StartChecks

(* A start brings up its thread. *)
LEMMA SpawnStep ==
  ASSUME IInv, NEW p \in Callers, StartSpawns(p)
  PROVE  IInv'
<1> USE DEF IInv
<1> DEFINE l == CHOOSE l \in Unborn : TRUE
<1>0. ~At(Main, "boot") /\ l \in Loops
  BY Started DEF StartSpawns, At, Spawning, Unborn
<1>1. loop' = [loop EXCEPT ![l] = "head"] /\ running' = TRUE /\ UNCHANGED <<cancel, wake, asked>>
  BY DEF StartSpawns
<1>2. LoopType'
  BY <1>0, <1>1 DEF LoopType, Stages
<1>3. RunningHasThread'
  BY <1>0, <1>1 DEF RunningHasThread, Alive, LoopType
<1>4. PICK label \in {"done", "idle"} : \A q \in Callers : pc'[q] = IF q = p THEN label ELSE pc[q]
  BY DEF StartSpawns, Return, Go, CallerType
<1>5. CallerType'
  BY DEF StartSpawns, Return, Go, CallerType, CallerStages
<1>6. Booting'
  BY <1>0, <1>4, MonitorConfig DEF Booting, At, Callers
<1>7. Spawning'
  BY <1>4 DEF Spawning, StartSpawns, At
<1>8. FileInv'
  BY <1>0, <1>4, FileKept DEF StartSpawns, settings, At, Callers
<1> QED
  BY <1>2, <1>3, <1>5, <1>6, <1>7, <1>8

(* What the loops leave alone. *)
LEMMA CallersKept ==
  ASSUME CallerType, Booting, Spawning, UNCHANGED callers,
         {l \in Loops : loop[l] = "unborn"} = {l \in Loops : loop'[l] = "unborn"}
  PROVE  CallerType' /\ Booting' /\ Spawning'
BY DEF CallerType, Booting, Spawning, callers, At, Unborn

(* A loop takes a step, or the gateway wakes it. *)
LEMMA LoopStepKeeps ==
  ASSUME IInv, NEW l \in Loops, LoopStep(l)
  PROVE  IInv'
<1> USE DEF IInv
<1>1. PICK from \in Stages \ {"unborn"}, to \in Stages \ {"unborn"} :
         loop[l] = from /\ loop' = [loop EXCEPT ![l] = to]
  BY DEF LoopStep, LoopHead, LoopConfig, LoopCheck, LoopClear, LoopWaits, LoopEnd, Step, Stages
<1>2. UNCHANGED callers /\ LoopType'
  BY <1>1 DEF LoopStep, LoopHead, LoopConfig, LoopCheck, LoopClear, LoopWaits, LoopEnd, LoopType
<1>3. CallerType' /\ Booting' /\ Spawning'
  BY <1>1, <1>2, CallersKept DEF LoopType
<1>4. FileInv'
  <2>1. CASE LoopConfig(l) \/ LoopCheck(l)
    BY <2>1, LoadSeals DEF LoopConfig, LoopCheck
  <2>2. CASE LoopHead(l) \/ LoopClear(l) \/ LoopWaits(l) \/ LoopEnd(l)
    BY <1>2, <2>2, FileKept DEF LoopHead, LoopClear, LoopWaits, LoopEnd, settings, callers, At
  <2> QED
    BY <2>1, <2>2 DEF LoopStep
<1>5. RunningHasThread'
  <2>1. CASE LoopEnd(l)
    BY <2>1 DEF LoopEnd, RunningHasThread
  <2>2. CASE LoopHead(l) \/ LoopConfig(l) \/ LoopCheck(l) \/ LoopClear(l) \/ LoopWaits(l)
    <3>1. running' = running
      BY <2>2 DEF LoopHead, LoopConfig, LoopCheck, LoopClear, LoopWaits
    <3>2. \E label \in Stages \ {"unborn", "over"} : loop' = [loop EXCEPT ![l] = label]
      BY <2>2 DEF LoopHead, LoopConfig, LoopCheck, LoopClear, LoopWaits, Step, Stages
    <3> QED
      BY <3>1, <3>2, LoopGoesOn
  <2> QED
    BY <2>1, <2>2 DEF LoopStep
<1> QED
  BY <1>2, <1>3, <1>4, <1>5

(* The gateway wakes the loop; or nothing happens. *)
LEMMA WakeStep ==
  ASSUME IInv, Wake \/ UNCHANGED vars
  PROVE  IInv'
<1> USE DEF IInv
<1>1. UNCHANGED <<settings, callers, cancel, running, loop, asked>> /\ wake' \in BOOLEAN
  BY DEF Wake, vars, settings, callers, LoopType
<1>2. CallerType' /\ Booting' /\ Spawning'
  BY <1>1, CallersKept
<1>3. FileInv'
  BY <1>1, FileKept DEF settings, callers, At
<1>4. LoopType' /\ RunningHasThread'
  BY <1>1, FlagKept DEF LoopType
<1> QED
  BY <1>2, <1>3, <1>4

(* Every step keeps the invariant. *)
LEMMA Inductive == IInv /\ [Next]_vars => IInv'
BY BootStep, CallStep, SettingsStep, CallerStep, SpawnStep, LoopStepKeeps, WakeStep
   DEF Next, Serve

-----------------------------------------------------------------------------
(* The file, the callers and the threads of the monitor, in whatever order   *)
(* they act, keep the inductive invariant. *)
THEOREM Invariance == Spec => []IInv
<1> QED
  BY Initially, Inductive, PTL DEF Spec

(* Every variable has its type: no fault of reading, decrypting or writing   *)
(* leaves something in settings.json or in a caller's hands that is none. *)
THEOREM TypeCorrect == Spec => []TypeOK
<1>1. IInv => TypeOK
  BY DEF IInv, FileInv, FileType, CallerType, LoopType, TypeOK, Stages, Alive
<1> QED
  BY <1>1, Invariance, PTL

(* Without a fault the secret in settings.json is never lost: neither to a   *)
(* blank field of the form, nor to a migration, nor to start_proxy. *)
THEOREM SecretIsKept == Spec => []SecretSurvives
<1>1. IInv => SecretSurvives
  BY DEF IInv, FileInv
<1> QED
  BY <1>1, Invariance, PTL

(* Once the program has started, and without a fault, nothing is in the      *)
(* clear and nothing retired is left. *)
THEOREM SecretIsSealed == Spec => []NothingInTheClear
<1>1. IInv => NothingInTheClear
  BY SealedIsEnough DEF IInv
<1> QED
  BY <1>1, Invariance, PTL

(* The flag that the panel shows has a thread behind it, or one its interval *)
(* killed, however many starts and stops overlap. *)
THEOREM FlagHasThread == Spec => []RunningHasThread
<1>1. IInv => RunningHasThread
  BY DEF IInv
<1> QED
  BY <1>1, Invariance, PTL
=============================================================================
