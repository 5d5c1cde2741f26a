--------------------------- MODULE LifecycleProofs ---------------------------
(***************************************************************************)
(* Proofs about Lifecycle: the type invariant, that a child which runs is *)
(* never forgotten and runs its own configuration, and that the children and *)
(* the gateways of the launcher behave as Supervisor says, for any set of *)
(* threads, any number of calls and any ports. *)
(***************************************************************************)
EXTENDS Lifecycle, TLAPS

(* A thread is in start_proxy's `with _lock` block exactly while it holds it. *)
Inside == {"select", "probe", "write", "spawn", "serve", "rollback"}

LockDiscipline == \A t \in Ops : lock = t <=> pc[t] \in Inside

(* While a start runs under _lock before it has opened its gateway, none is in *)
(* charge: start_proxy came in with no server and only it could set one. *)
LockedPart == \A t \in Ops : pc[t] \in Inside => server = 0

(* A start that has not spawned yet found no live child in charge, one that *)
(* rolls back has ended its own, and nobody else registers one meanwhile. *)
FreshStart ==
    \A t \in Ops :
        pc[t] \in {"select", "probe", "write", "spawn", "rollback"} => ~Alive(registered)

(* A watcher gets to the references only after its child has ended. *)
Watched == \A n \in Starts : watcher[n] = "clear" => child[n] = "dead"

(* A start that may spawn has a number left for its child. *)
Ready == \A t \in Ops : pc[t] = "spawn" => born < MaxOps

(* The configuration on disk, when there is one, is that of the child in charge, *)
(* or of the one about to be spawned. *)
OwnFile ==
    /\ \A t \in Ops : pc[t] = "spawn" => file \in {0, born + 1}
    /\ Alive(registered) => file \in {0, registered}

(* Children are numbered in the order of their starts, and no variable names one *)
(* that is not born yet. *)
Numbered ==
    /\ \A n \in Starts : child[n] = "unborn" <=> n > born
    /\ registered =< born
    /\ \A n \in orphans \cup served : n =< born

(* A start about to open its gateway does so for the child it has just spawned, *)
(* and for the first time. *)
Serving == \A t \in Ops : pc[t] = "serve" => born \in Starts /\ born \notin served

(* The inductive invariant: what the steps of the threads, of the children and *)
(* of their watchers preserve together. *)
IInv ==
    /\ TypeOK /\ LockDiscipline /\ LockedPart /\ FreshStart /\ Ready /\ OwnFile
    /\ Numbered /\ Serving /\ RunsItsConfig /\ Watched /\ NoChildForgotten

(* Where the control of a thread may go, and with which locals. *)
LEMMA Locals ==
  /\ Frame0 \in FrameType
  /\ \A f \in FrameType :
       /\ \A p \in Ports, gw \in BOOLEAN : [Frame0 EXCEPT !.port = p, !.gw = gw] \in FrameType
       /\ \A b \in BOOLEAN : [Frame0 EXCEPT !.ext = b] \in FrameType
       /\ \A n \in {0} \cup Starts, b \in BOOLEAN :
            [Frame0 EXCEPT !.proc = n, !.cfg = b] \in FrameType
       /\ \A n \in {0} \cup Starts : [f EXCEPT !.srv = n] \in FrameType
<1>1. 1 \in Ports
  BY LifecycleConfig DEF Ports
<1>2. Frame0 \in FrameType
  BY <1>1 DEF Frame0, FrameType
<1> QED
  BY <1>1, <1>2 DEF Frame0, FrameType

(* The half of the type invariant that is about the threads. *)
Control == pc \in [Ops -> Labels] /\ op \in [Ops -> Kinds] /\ frame \in [Ops -> FrameType]

(* A thread that returns from its call keeps the types of the threads. *)
LEMMA Returned ==
  ASSUME Control, NEW t \in Ops, Return(t)
  PROVE  Control'
<1>1. Frame0 \in FrameType
  BY Locals
<1> QED
  BY <1>1 DEF Control, Return, Labels, Kinds

(* So does one that goes on with the locals it has, *)
LEMMA Gone ==
  ASSUME Control, NEW t \in Ops, NEW label \in Labels, Goto(t, label)
  PROVE  Control'
BY DEF Control, Goto

(* one that goes on with new ones, *)
LEMMA GoneWith ==
  ASSUME Control, NEW t \in Ops, NEW label \in Labels, NEW f \in FrameType,
         GotoWith(t, label, f)
  PROVE  Control'
BY DEF Control, GotoWith

(* and one that ends a stop or goes on to the restart's start. *)
LEMMA Done ==
  ASSUME Control, NEW t \in Ops, StopDone(t)
  PROVE  Control'
BY Locals, Returned, GoneWith DEF StopDone, Labels

(* The other half of the type invariant: the launcher's globals and the world. *)
Rest ==
    /\ lock \in Ops \cup {NoOp}
    /\ {registered, file, server} \subseteq {0} \cup Starts
    /\ {pathSet, booting} \subseteq BOOLEAN
    /\ {open, orphans, served} \subseteq SUBSET Starts
    /\ child \in [Starts -> {"unborn", "starting", "up", "dead"}]
    /\ readCfg \in [Starts -> {0} \cup Starts]
    /\ made \in [Starts -> [port : Ports, gw : BOOLEAN]]
    /\ watcher \in [Starts -> {"none", "waiting", "clear", "done"}]
    /\ port \in Ports
    /\ {born, calls} \subseteq 0 .. MaxOps

(* The two halves are the type invariant. *)
LEMMA Typed == TypeOK <=> Control /\ Rest
BY DEF TypeOK, Control, Rest

(* Every step keeps the types of the threads. *)
LEMMA ControlStep ==
  ASSUME TypeOK, Next
  PROVE  Control'
<1>0. Control /\ Rest
  BY Typed
<1>1. ASSUME NEW t \in Ops, Call(t) PROVE Control'
  BY <1>0, <1>1 DEF Call, Control, Kinds, Labels
<1>2. ASSUME NEW t \in Ops, StartBegin(t) PROVE Control'
  BY <1>0, <1>2, Returned, Gone DEF StartBegin, Labels
<1>3. ASSUME NEW t \in Ops, Select(t) PROVE Control'
  BY <1>0, <1>3, Locals, GoneWith, LifecycleConfig DEF Select, Labels, Selected, Rest
<1>4. ASSUME NEW t \in Ops, PreflightFails(t) PROVE Control'
  BY <1>0, <1>4, Returned DEF PreflightFails, LeaveStart
<1>5. ASSUME NEW t \in Ops, Unmanaged(t) PROVE Control'
  BY <1>0, <1>5, Returned DEF Unmanaged, LeaveStart
<1>6. ASSUME NEW t \in Ops, Settle(t) PROVE Control'
  BY <1>0, <1>6, Gone DEF Settle, Labels
<1>7. ASSUME NEW t \in Ops, SaveFails(t) PROVE Control'
  BY <1>0, <1>7, Returned DEF SaveFails, LeaveStart
<1>8. ASSUME NEW t \in Ops, Write(t) PROVE Control'
  BY <1>0, <1>8, Gone DEF Write, Labels
<1>9. ASSUME NEW t \in Ops, WriteFails(t) PROVE Control'
  BY <1>0, <1>9, Returned DEF WriteFails, LeaveStart
<1>10. ASSUME NEW t \in Ops, Spawn(t) PROVE Control'
  BY <1>0, <1>10, Gone DEF Spawn, Labels
<1>11. ASSUME NEW t \in Ops, SpawnFails(t) PROVE Control'
  BY <1>0, <1>11, Returned DEF SpawnFails, LeaveStart
<1>12. ASSUME NEW t \in Ops, Serve(t) PROVE Control'
  BY <1>0, <1>12, Gone DEF Serve, Labels
<1>13. ASSUME NEW t \in Ops, ServeFails(t) PROVE Control'
  BY <1>0, <1>13, Gone DEF ServeFails, Labels
<1>14. ASSUME NEW t \in Ops, Rollback(t) PROVE Control'
  BY <1>0, <1>14, Returned DEF Rollback, LeaveStart
<1>15. ASSUME NEW t \in Ops, Await(t) PROVE Control'
  BY <1>0, <1>15, Returned DEF Await
<1>16. ASSUME NEW t \in Ops, StopProbe(t) PROVE Control'
  <2>1. Reachable(port) \in BOOLEAN
    BY DEF Reachable
  <2>2. PICK reached \in BOOLEAN : GotoWith(t, "take", [Frame0 EXCEPT !.ext = reached])
    BY <1>16, <2>1 DEF StopProbe, Probe
  <2> QED
    BY <1>0, <2>2, Locals, GoneWith DEF Labels
<1>17. ASSUME NEW t \in Ops, Take(t) PROVE Control'
  <2> DEFINE f == [Frame0 EXCEPT !.proc = IF Alive(registered) THEN registered ELSE 0,
                                 !.cfg = pathSet]
  <2>1. f \in FrameType
    BY <1>0, Locals DEF Rest
  <2>2. GotoWith(t, IF server # 0 THEN "ungate" ELSE "end", f)
    BY <1>17 DEF Take
  <2> QED
    BY <1>0, <2>1, <2>2, GoneWith DEF Labels
<1>18. ASSUME NEW t \in Ops, NothingToStop(t) PROVE Control'
  BY <1>0, <1>18, Done, Returned DEF NothingToStop
<1>19. ASSUME NEW t \in Ops, Ungate(t) PROVE Control'
  BY <1>0, <1>19, Locals, GoneWith DEF Ungate, Labels, Rest, Control
<1>20. ASSUME NEW t \in Ops, Close(t) PROVE Control'
  BY <1>0, <1>20, Gone DEF Close, Labels
<1>21. ASSUME NEW t \in Ops, EndChild(t) PROVE Control'
  BY <1>0, <1>21, Gone DEF EndChild, Labels
<1>22. ASSUME NEW t \in Ops, StopUnlink(t) PROVE Control'
  BY <1>0, <1>22, Done DEF StopUnlink
<1>23. ASSUME NEW t \in Ops, CleanCheck(t) PROVE Control'
  BY <1>0, <1>23, Returned, Gone DEF CleanCheck, Labels
<1>24. ASSUME NEW t \in Ops, Sweep(t) PROVE Control'
  BY <1>0, <1>24, Returned DEF Sweep
<1>25. ASSUME NEW n \in Starts, ChildBoots(n) PROVE Control'
  BY <1>0, <1>25 DEF ChildBoots, Control
<1>26. ASSUME NEW n \in Starts, ChildExits(n) PROVE Control'
  BY <1>0, <1>26 DEF ChildExits, Control
<1>27. ASSUME NEW n \in Starts, WatchUnlink(n) PROVE Control'
  BY <1>0, <1>27 DEF WatchUnlink, Control
<1>28. ASSUME NEW n \in Starts, WatchClear(n) PROVE Control'
  BY <1>0, <1>28 DEF WatchClear, Control
<1>29. ASSUME Crash PROVE Control'
  BY <1>29, Locals DEF Crash, Control, Labels, Kinds
<1>30. ASSUME MainSweeps PROVE Control'
  BY <1>0, <1>30 DEF MainSweeps, Control
<1> QED
  BY <1>1, <1>2, <1>3, <1>4, <1>5, <1>6, <1>7, <1>8, <1>9, <1>10, <1>11, <1>12,
     <1>13, <1>14, <1>15, <1>16, <1>17, <1>18, <1>19, <1>20, <1>21,
     <1>22, <1>23, <1>24, <1>25, <1>26, <1>27, <1>28, <1>29, <1>30
    DEF Next, Work, Start, Stop, Clean, Watch

(* Every step keeps the types of the globals and of the world. *)
LEMMA RestStep ==
  ASSUME TypeOK, Ready, Serving, Next
  PROVE  Rest'
<1>0. Rest
  BY Typed
<1>1. ASSUME NEW t \in Ops, Call(t) PROVE Rest'
  BY <1>0, <1>1, LifecycleConfig DEF Call, Rest, globals, kids, world, Starts
<1>2. ASSUME NEW t \in Ops, StartBegin(t) PROVE Rest'
  BY <1>0, <1>2, LifecycleConfig DEF StartBegin, Rest, Goto, globals, kids, world, Starts
<1>3. ASSUME NEW t \in Ops, Select(t) PROVE Rest'
  BY <1>0, <1>3, LifecycleConfig DEF Select, Rest, Goto, globals, kids, world, Starts
<1>4. ASSUME NEW t \in Ops, PreflightFails(t) PROVE Rest'
  BY <1>0, <1>4, LifecycleConfig
    DEF PreflightFails, Rest, LeaveStart, globals, kids, world, Starts
<1>5. ASSUME NEW t \in Ops, Unmanaged(t) PROVE Rest'
  BY <1>0, <1>5, LifecycleConfig DEF Unmanaged, Rest, LeaveStart, globals, kids, world, Starts
<1>6. ASSUME NEW t \in Ops, Settle(t) PROVE Rest'
  BY <1>0, <1>6, Typed, LifecycleConfig
    DEF Settle, Rest, Goto, globals, kids, world, Starts, Control, FrameType
<1>7. ASSUME NEW t \in Ops, SaveFails(t) PROVE Rest'
  BY <1>0, <1>7, LifecycleConfig DEF SaveFails, Rest, LeaveStart, globals, kids, world, Starts
<1>8. ASSUME NEW t \in Ops, Write(t) PROVE Rest'
  BY <1>0, <1>8, LifecycleConfig DEF Write, Rest, Goto, globals, kids, world, Starts
<1>9. ASSUME NEW t \in Ops, WriteFails(t) PROVE Rest'
  BY <1>0, <1>9, LifecycleConfig DEF WriteFails, Rest, LeaveStart, globals, kids, world, Starts
<1>10. ASSUME NEW t \in Ops, Spawn(t) PROVE Rest'
  BY <1>0, <1>10, Typed, LifecycleConfig
    DEF Spawn, Rest, Goto, globals, kids, world, Starts, Ready, Control, FrameType
<1>11. ASSUME NEW t \in Ops, SpawnFails(t) PROVE Rest'
  BY <1>0, <1>11, LifecycleConfig
    DEF SpawnFails, Rest, LeaveStart, globals, kids, world, Starts
<1>12. ASSUME NEW t \in Ops, Serve(t) PROVE Rest'
  BY <1>0, <1>12, LifecycleConfig DEF Serve, Rest, globals, kids, world, Starts, Serving
<1>13. ASSUME NEW t \in Ops, ServeFails(t) PROVE Rest'
  BY <1>0, <1>13, LifecycleConfig DEF ServeFails, Rest, globals, kids, world, Starts
<1>14. ASSUME NEW t \in Ops, Rollback(t) PROVE Rest'
  BY <1>0, <1>14, LifecycleConfig DEF Rollback, Rest, LeaveStart, globals, kids, world, Starts
<1>15. ASSUME NEW t \in Ops, Await(t) PROVE Rest'
  BY <1>0, <1>15, LifecycleConfig DEF Await, Rest, globals, kids, world, Starts
<1>16. ASSUME NEW t \in Ops, StopProbe(t) PROVE Rest'
  BY <1>0, <1>16, LifecycleConfig DEF StopProbe, Rest, globals, kids, world, Starts
<1>17. ASSUME NEW t \in Ops, Take(t) PROVE Rest'
  BY <1>0, <1>17, LifecycleConfig DEF Take, Rest, globals, kids, world, Starts
<1>18. ASSUME NEW t \in Ops, NothingToStop(t) PROVE Rest'
  BY <1>0, <1>18, LifecycleConfig DEF NothingToStop, Rest, globals, kids, world, Starts
<1>19. ASSUME NEW t \in Ops, Ungate(t) PROVE Rest'
  BY <1>0, <1>19, LifecycleConfig DEF Ungate, Rest, globals, kids, world, Starts
<1>20. ASSUME NEW t \in Ops, Close(t) PROVE Rest'
  BY <1>0, <1>20, LifecycleConfig DEF Close, Rest, globals, kids, world, Starts
<1>21. ASSUME NEW t \in Ops, EndChild(t) PROVE Rest'
  BY <1>0, <1>21, LifecycleConfig DEF EndChild, Rest, globals, kids, world, Starts
<1>22. ASSUME NEW t \in Ops, StopUnlink(t) PROVE Rest'
  BY <1>0, <1>22, LifecycleConfig DEF StopUnlink, Rest, globals, kids, world, Starts
<1>23. ASSUME NEW t \in Ops, CleanCheck(t) PROVE Rest'
  BY <1>0, <1>23, LifecycleConfig DEF CleanCheck, Rest, globals, kids, world, Starts
<1>24. ASSUME NEW t \in Ops, Sweep(t) PROVE Rest'
  BY <1>0, <1>24, LifecycleConfig DEF Sweep, Rest, globals, kids, world, Starts
<1>25. ASSUME NEW n \in Starts, ChildBoots(n) PROVE Rest'
  BY <1>0, <1>25 DEF ChildBoots, Rest, globals, kids, world
<1>26. ASSUME NEW n \in Starts, ChildExits(n) PROVE Rest'
  BY <1>0, <1>26 DEF ChildExits, Rest, globals, kids, world
<1>27. ASSUME NEW n \in Starts, WatchUnlink(n) PROVE Rest'
  BY <1>0, <1>27 DEF WatchUnlink, Rest, globals, kids, WatcherLeaves
<1>28. ASSUME NEW n \in Starts, WatchClear(n) PROVE Rest'
  BY <1>0, <1>28 DEF WatchClear, Rest, globals, kids
<1>29. ASSUME Crash PROVE Rest'
  <2>1. orphans' \in SUBSET Starts /\ open' \in SUBSET Starts
    BY <1>0, <1>29 DEF Crash, Rest
  <2>2. watcher' \in [Starts -> {"none", "waiting", "clear", "done"}] /\ calls' \in 0 .. MaxOps
    BY <1>0, <1>29, LifecycleConfig DEF Crash, Rest
  <2>3. /\ UNCHANGED <<file, child, readCfg, made, born, port, served>>
        /\ lock' = NoOp /\ registered' = 0 /\ server' = 0
        /\ pathSet' = FALSE /\ booting' = TRUE
    BY <1>29 DEF Crash, kids
  <2> QED
    BY <1>0, <2>1, <2>2, <2>3 DEF Rest
<1>30. ASSUME MainSweeps PROVE Rest'
  BY <1>0, <1>30, LifecycleConfig DEF MainSweeps, Rest, globals, kids
<1> QED
  BY <1>1, <1>2, <1>3, <1>4, <1>5, <1>6, <1>7, <1>8, <1>9, <1>10, <1>11, <1>12,
     <1>13, <1>14, <1>15, <1>16, <1>17, <1>18, <1>19, <1>20, <1>21,
     <1>22, <1>23, <1>24, <1>25, <1>26, <1>27, <1>28, <1>29, <1>30
    DEF Next, Work, Start, Stop, Clean, Watch

(* Every step keeps the lock with the one thread that is inside. *)
LEMMA LockStep ==
  ASSUME TypeOK, LockDiscipline, Next
  PROVE  LockDiscipline'
<1>1. ASSUME NEW t \in Ops, Call(t) PROVE LockDiscipline'
  BY <1>1, Typed, LifecycleConfig
    DEF Call, globals, kids, Kinds, LockDiscipline, Inside, Control
<1>2. ASSUME NEW t \in Ops, StartBegin(t) PROVE LockDiscipline'
  BY <1>2, Typed, LifecycleConfig
    DEF StartBegin, Goto, Return, globals, kids, world, LockDiscipline, Inside, Control
<1>3. ASSUME NEW t \in Ops, Select(t) PROVE LockDiscipline'
  BY <1>3, Typed, LifecycleConfig
    DEF Select, GotoWith, globals, kids, world, LockDiscipline, Inside, Control
<1>4. ASSUME NEW t \in Ops, PreflightFails(t) PROVE LockDiscipline'
  BY <1>4, Typed, LifecycleConfig
    DEF PreflightFails, LeaveStart, Return, globals, kids, world, LockDiscipline, Inside,
        Control
<1>5. ASSUME NEW t \in Ops, Unmanaged(t) PROVE LockDiscipline'
  BY <1>5, Typed, LifecycleConfig
    DEF Unmanaged, LeaveStart, Return, globals, kids, world, LockDiscipline, Inside, Control
<1>6. ASSUME NEW t \in Ops, Settle(t) PROVE LockDiscipline'
  BY <1>6, Typed, LifecycleConfig DEF Settle, Goto, kids, LockDiscipline, Inside, Control
<1>7. ASSUME NEW t \in Ops, SaveFails(t) PROVE LockDiscipline'
  BY <1>7, Typed, LifecycleConfig
    DEF SaveFails, LeaveStart, Return, globals, kids, world, LockDiscipline, Inside, Control
<1>8. ASSUME NEW t \in Ops, Write(t) PROVE LockDiscipline'
  BY <1>8, Typed, LifecycleConfig
    DEF Write, Goto, globals, kids, world, LockDiscipline, Inside, Control
<1>9. ASSUME NEW t \in Ops, WriteFails(t) PROVE LockDiscipline'
  BY <1>9, Typed, LifecycleConfig
    DEF WriteFails, LeaveStart, Return, globals, kids, world, LockDiscipline, Inside,
        Control
<1>10. ASSUME NEW t \in Ops, Spawn(t) PROVE LockDiscipline'
  BY <1>10, Typed, LifecycleConfig DEF Spawn, Goto, LockDiscipline, Inside, Control
<1>11. ASSUME NEW t \in Ops, SpawnFails(t) PROVE LockDiscipline'
  BY <1>11, Typed, LifecycleConfig
    DEF SpawnFails, LeaveStart, Return, globals, kids, world, LockDiscipline, Inside,
        Control
<1>12. ASSUME NEW t \in Ops, Serve(t) PROVE LockDiscipline'
  BY <1>12, Typed, LifecycleConfig DEF Serve, Goto, kids, LockDiscipline, Inside, Control
<1>13. ASSUME NEW t \in Ops, ServeFails(t) PROVE LockDiscipline'
  BY <1>13, Typed, LifecycleConfig
    DEF ServeFails, Goto, globals, world, LockDiscipline, Inside, Control
<1>14. ASSUME NEW t \in Ops, Rollback(t) PROVE LockDiscipline'
  BY <1>14, Typed, LifecycleConfig
    DEF Rollback, LeaveStart, Return, kids, world, LockDiscipline, Inside, Control
<1>15. ASSUME NEW t \in Ops, Await(t) PROVE LockDiscipline'
  BY <1>15, Typed, LifecycleConfig
    DEF Await, Return, globals, kids, world, LockDiscipline, Inside, Control
<1>16. ASSUME NEW t \in Ops, StopProbe(t) PROVE LockDiscipline'
  BY <1>16, Typed, LifecycleConfig
    DEF StopProbe, GotoWith, globals, kids, world, LockDiscipline, Inside, Control
<1>17. ASSUME NEW t \in Ops, Take(t) PROVE LockDiscipline'
  BY <1>17, Typed, LifecycleConfig
    DEF Take, GotoWith, kids, world, LockDiscipline, Inside, Control
<1>18. ASSUME NEW t \in Ops, NothingToStop(t) PROVE LockDiscipline'
  BY <1>18, Typed, LifecycleConfig
    DEF NothingToStop, Return, StopDone, GotoWith, kids, world, LockDiscipline, Inside,
        Control
<1>19. ASSUME NEW t \in Ops, Ungate(t) PROVE LockDiscipline'
  BY <1>19, Typed, LifecycleConfig
    DEF Ungate, GotoWith, kids, world, LockDiscipline, Inside, Control
<1>20. ASSUME NEW t \in Ops, Close(t) PROVE LockDiscipline'
  BY <1>20, Typed, LifecycleConfig
    DEF Close, Goto, globals, kids, LockDiscipline, Inside, Control
<1>21. ASSUME NEW t \in Ops, EndChild(t) PROVE LockDiscipline'
  BY <1>21, Typed, LifecycleConfig
    DEF EndChild, Goto, globals, world, LockDiscipline, Inside, Control
<1>22. ASSUME NEW t \in Ops, StopUnlink(t) PROVE LockDiscipline'
  BY <1>22, Typed, LifecycleConfig
    DEF StopUnlink, StopDone, GotoWith, Return, globals, kids, world, LockDiscipline,
        Inside, Control
<1>23. ASSUME NEW t \in Ops, CleanCheck(t) PROVE LockDiscipline'
  BY <1>23, Typed, LifecycleConfig
    DEF CleanCheck, Goto, Return, globals, kids, world, LockDiscipline, Inside, Control
<1>24. ASSUME NEW t \in Ops, Sweep(t) PROVE LockDiscipline'
  BY <1>24, Typed, LifecycleConfig
    DEF Sweep, Return, globals, kids, world, LockDiscipline, Inside, Control
<1>25. ASSUME NEW n \in Starts, ChildBoots(n) PROVE LockDiscipline'
  BY <1>25 DEF ChildBoots, globals, world, LockDiscipline
<1>26. ASSUME NEW n \in Starts, ChildExits(n) PROVE LockDiscipline'
  BY <1>26 DEF ChildExits, globals, world, LockDiscipline
<1>27. ASSUME NEW n \in Starts, WatchUnlink(n) PROVE LockDiscipline'
  BY <1>27 DEF WatchUnlink, globals, kids, WatcherLeaves, LockDiscipline
<1>28. ASSUME NEW n \in Starts, WatchClear(n) PROVE LockDiscipline'
  BY <1>28 DEF WatchClear, kids, LockDiscipline
<1>29. ASSUME Crash PROVE LockDiscipline'
  BY <1>29, Typed, LifecycleConfig DEF Crash, kids, LockDiscipline, Inside, Control
<1>30. ASSUME MainSweeps PROVE LockDiscipline'
  BY <1>30 DEF MainSweeps, globals, kids, LockDiscipline
<1> QED
  BY <1>1, <1>2, <1>3, <1>4, <1>5, <1>6, <1>7, <1>8, <1>9, <1>10, <1>11, <1>12,
     <1>13, <1>14, <1>15, <1>16, <1>17, <1>18, <1>19, <1>20, <1>21,
     <1>22, <1>23, <1>24, <1>25, <1>26, <1>27, <1>28, <1>29, <1>30
  DEF Next, Work, Start, Stop, Clean, Watch

(* No step opens a gateway behind the back of a start under way. *)
LEMMA LockedStep ==
  ASSUME TypeOK, LockDiscipline, LockedPart, Next
  PROVE  LockedPart'
<1>1. ASSUME NEW t \in Ops, Call(t) PROVE LockedPart'
  BY <1>1, Typed DEF Call, globals, kids, Kinds, LockedPart, Inside, Control
<1>2. ASSUME NEW t \in Ops, StartBegin(t) PROVE LockedPart'
  BY <1>2, Typed
    DEF StartBegin, Goto, Return, globals, kids, world, Startable, LockedPart, Inside,
        Control, LockDiscipline
<1>3. ASSUME NEW t \in Ops, Select(t) PROVE LockedPart'
  BY <1>3, Typed DEF Select, GotoWith, globals, kids, world, LockedPart, Inside, Control
<1>4. ASSUME NEW t \in Ops, PreflightFails(t) PROVE LockedPart'
  BY <1>4, Typed
    DEF PreflightFails, LeaveStart, Return, globals, kids, world, LockedPart, Inside,
        Control
<1>5. ASSUME NEW t \in Ops, Unmanaged(t) PROVE LockedPart'
  BY <1>5, Typed
    DEF Unmanaged, LeaveStart, Return, globals, kids, world, LockedPart, Inside, Control
<1>6. ASSUME NEW t \in Ops, Settle(t) PROVE LockedPart'
  BY <1>6, Typed DEF Settle, Goto, kids, LockedPart, Inside, Control
<1>7. ASSUME NEW t \in Ops, SaveFails(t) PROVE LockedPart'
  BY <1>7, Typed
    DEF SaveFails, LeaveStart, Return, globals, kids, world, LockedPart, Inside, Control
<1>8. ASSUME NEW t \in Ops, Write(t) PROVE LockedPart'
  BY <1>8, Typed DEF Write, Goto, globals, kids, world, LockedPart, Inside, Control
<1>9. ASSUME NEW t \in Ops, WriteFails(t) PROVE LockedPart'
  BY <1>9, Typed
    DEF WriteFails, LeaveStart, Return, globals, kids, world, LockedPart, Inside, Control
<1>10. ASSUME NEW t \in Ops, Spawn(t) PROVE LockedPart'
  BY <1>10, Typed DEF Spawn, Goto, LockedPart, Inside, Control
<1>11. ASSUME NEW t \in Ops, SpawnFails(t) PROVE LockedPart'
  BY <1>11, Typed
    DEF SpawnFails, LeaveStart, Return, globals, kids, world, LockedPart, Inside, Control
<1>12. ASSUME NEW t \in Ops, Serve(t) PROVE LockedPart'
  BY <1>12, Typed DEF Serve, Goto, kids, LockedPart, Inside, Control, LockDiscipline
<1>13. ASSUME NEW t \in Ops, ServeFails(t) PROVE LockedPart'
  BY <1>13, Typed DEF ServeFails, Goto, globals, world, LockedPart, Inside, Control
<1>14. ASSUME NEW t \in Ops, Rollback(t) PROVE LockedPart'
  BY <1>14, Typed DEF Rollback, LeaveStart, Return, kids, world, LockedPart, Inside, Control
<1>15. ASSUME NEW t \in Ops, Await(t) PROVE LockedPart'
  BY <1>15, Typed DEF Await, Return, globals, kids, world, LockedPart, Inside, Control
<1>16. ASSUME NEW t \in Ops, StopProbe(t) PROVE LockedPart'
  BY <1>16, Typed DEF StopProbe, GotoWith, globals, kids, world, LockedPart, Inside, Control
<1>17. ASSUME NEW t \in Ops, Take(t) PROVE LockedPart'
  BY <1>17, Typed DEF Take, GotoWith, kids, world, LockedPart, Inside, Control
<1>18. ASSUME NEW t \in Ops, NothingToStop(t) PROVE LockedPart'
  BY <1>18 DEF NothingToStop, Return, StopDone, GotoWith, kids, world, LockedPart
<1>19. ASSUME NEW t \in Ops, Ungate(t) PROVE LockedPart'
  BY <1>19 DEF Ungate, GotoWith, kids, world, LockedPart
<1>20. ASSUME NEW t \in Ops, Close(t) PROVE LockedPart'
  BY <1>20, Typed DEF Close, Goto, globals, kids, LockedPart, Inside, Control
<1>21. ASSUME NEW t \in Ops, EndChild(t) PROVE LockedPart'
  BY <1>21, Typed DEF EndChild, Goto, globals, world, LockedPart, Inside, Control
<1>22. ASSUME NEW t \in Ops, StopUnlink(t) PROVE LockedPart'
  BY <1>22, Typed
    DEF StopUnlink, StopDone, GotoWith, Return, globals, kids, world, LockedPart, Inside,
        Control
<1>23. ASSUME NEW t \in Ops, CleanCheck(t) PROVE LockedPart'
  BY <1>23, Typed
    DEF CleanCheck, Goto, Return, globals, kids, world, LockedPart, Inside, Control
<1>24. ASSUME NEW t \in Ops, Sweep(t) PROVE LockedPart'
  BY <1>24, Typed DEF Sweep, Return, globals, kids, world, LockedPart, Inside, Control
<1>25. ASSUME NEW n \in Starts, ChildBoots(n) PROVE LockedPart'
  BY <1>25 DEF ChildBoots, globals, world, LockedPart
<1>26. ASSUME NEW n \in Starts, ChildExits(n) PROVE LockedPart'
  BY <1>26 DEF ChildExits, globals, world, LockedPart
<1>27. ASSUME NEW n \in Starts, WatchUnlink(n) PROVE LockedPart'
  BY <1>27 DEF WatchUnlink, globals, kids, WatcherLeaves, LockedPart
<1>28. ASSUME NEW n \in Starts, WatchClear(n) PROVE LockedPart'
  BY <1>28 DEF WatchClear, kids, LockedPart
<1>29. ASSUME Crash PROVE LockedPart'
  BY <1>29 DEF Crash, kids, LockedPart
<1>30. ASSUME MainSweeps PROVE LockedPart'
  BY <1>30 DEF MainSweeps, globals, kids, LockedPart
<1> QED
  BY <1>1, <1>2, <1>3, <1>4, <1>5, <1>6, <1>7, <1>8, <1>9, <1>10, <1>11, <1>12,
     <1>13, <1>14, <1>15, <1>16, <1>17, <1>18, <1>19, <1>20, <1>21,
     <1>22, <1>23, <1>24, <1>25, <1>26, <1>27, <1>28, <1>29, <1>30
  DEF Next, Work, Start, Stop, Clean, Watch

(* No step brings up a child in charge beside a start that has not spawned. *)
LEMMA FreshStep ==
  ASSUME TypeOK, LockDiscipline, FreshStart, Next
  PROVE  FreshStart'
<1>1. ASSUME NEW t \in Ops, Call(t) PROVE FreshStart'
  BY <1>1 DEF Call, globals, kids, Kinds, FreshStart, Alive
<1>2. ASSUME NEW t \in Ops, StartBegin(t) PROVE FreshStart'
  BY <1>2, Typed
    DEF StartBegin, Goto, Return, globals, kids, world, Startable, FreshStart, Alive,
        Control, Rest, LockDiscipline, Inside, Starts
<1>3. ASSUME NEW t \in Ops, Select(t) PROVE FreshStart'
  BY <1>3 DEF Select, GotoWith, globals, kids, world, FreshStart, Alive
<1>4. ASSUME NEW t \in Ops, PreflightFails(t) PROVE FreshStart'
  BY <1>4 DEF PreflightFails, LeaveStart, Return, globals, kids, world, FreshStart, Alive
<1>5. ASSUME NEW t \in Ops, Unmanaged(t) PROVE FreshStart'
  BY <1>5 DEF Unmanaged, LeaveStart, Return, globals, kids, world, FreshStart, Alive
<1>6. ASSUME NEW t \in Ops, Settle(t) PROVE FreshStart'
  BY <1>6 DEF Settle, Goto, kids, FreshStart, Alive
<1>7. ASSUME NEW t \in Ops, SaveFails(t) PROVE FreshStart'
  BY <1>7 DEF SaveFails, LeaveStart, Return, globals, kids, world, FreshStart, Alive
<1>8. ASSUME NEW t \in Ops, Write(t) PROVE FreshStart'
  BY <1>8 DEF Write, Goto, globals, kids, world, FreshStart, Alive
<1>9. ASSUME NEW t \in Ops, WriteFails(t) PROVE FreshStart'
  BY <1>9 DEF WriteFails, LeaveStart, Return, globals, kids, world, FreshStart, Alive
<1>10. ASSUME NEW t \in Ops, Spawn(t) PROVE FreshStart'
  BY <1>10, Typed
    DEF Spawn, Goto, FreshStart, Alive, Control, Rest, LockDiscipline, Inside, Starts
<1>11. ASSUME NEW t \in Ops, SpawnFails(t) PROVE FreshStart'
  BY <1>11 DEF SpawnFails, LeaveStart, Return, globals, kids, world, FreshStart, Alive
<1>12. ASSUME NEW t \in Ops, Serve(t) PROVE FreshStart'
  BY <1>12 DEF Serve, Goto, kids, FreshStart, Alive
<1>13. ASSUME NEW t \in Ops, ServeFails(t) PROVE FreshStart'
  BY <1>13, Typed
    DEF ServeFails, Goto, globals, world, FreshStart, Alive, Control, Rest, LockDiscipline,
        Inside
<1>14. ASSUME NEW t \in Ops, Rollback(t) PROVE FreshStart'
  BY <1>14 DEF Rollback, LeaveStart, Return, kids, world, FreshStart, Alive
<1>15. ASSUME NEW t \in Ops, Await(t) PROVE FreshStart'
  BY <1>15 DEF Await, Return, globals, kids, world, FreshStart, Alive
<1>16. ASSUME NEW t \in Ops, StopProbe(t) PROVE FreshStart'
  BY <1>16 DEF StopProbe, GotoWith, globals, kids, world, FreshStart, Alive
<1>17. ASSUME NEW t \in Ops, Take(t) PROVE FreshStart'
  BY <1>17 DEF Take, GotoWith, kids, world, FreshStart, Alive
<1>18. ASSUME NEW t \in Ops, NothingToStop(t) PROVE FreshStart'
  BY <1>18 DEF NothingToStop, Return, StopDone, GotoWith, kids, world, FreshStart, Alive
<1>19. ASSUME NEW t \in Ops, Ungate(t) PROVE FreshStart'
  BY <1>19 DEF Ungate, GotoWith, kids, world, FreshStart, Alive
<1>20. ASSUME NEW t \in Ops, Close(t) PROVE FreshStart'
  BY <1>20 DEF Close, Goto, globals, kids, FreshStart, Alive
<1>21. ASSUME NEW t \in Ops, EndChild(t) PROVE FreshStart'
  BY <1>21, Typed
    DEF EndChild, Goto, globals, world, FreshStart, Alive, Control, Rest, LockDiscipline,
        Inside, Starts
<1>22. ASSUME NEW t \in Ops, StopUnlink(t) PROVE FreshStart'
  BY <1>22, Typed
    DEF StopUnlink, StopDone, GotoWith, Return, globals, kids, world, FreshStart, Alive,
        Control
<1>23. ASSUME NEW t \in Ops, CleanCheck(t) PROVE FreshStart'
  BY <1>23, Typed
    DEF CleanCheck, Goto, Return, globals, kids, world, FreshStart, Alive, Control
<1>24. ASSUME NEW t \in Ops, Sweep(t) PROVE FreshStart'
  BY <1>24 DEF Sweep, Return, globals, kids, world, FreshStart, Alive
<1>25. ASSUME NEW n \in Starts, ChildBoots(n) PROVE FreshStart'
  BY <1>25 DEF ChildBoots, globals, world, FreshStart, Alive
<1>26. ASSUME NEW n \in Starts, ChildExits(n) PROVE FreshStart'
  BY <1>26 DEF ChildExits, globals, world, FreshStart, Alive
<1>27. ASSUME NEW n \in Starts, WatchUnlink(n) PROVE FreshStart'
  BY <1>27 DEF WatchUnlink, globals, kids, WatcherLeaves, FreshStart, Alive
<1>28. ASSUME NEW n \in Starts, WatchClear(n) PROVE FreshStart'
  BY <1>28 DEF WatchClear, kids, FreshStart, Alive
<1>29. ASSUME Crash PROVE FreshStart'
  BY <1>29 DEF Crash, kids, FreshStart, Alive
<1>30. ASSUME MainSweeps PROVE FreshStart'
  BY <1>30 DEF MainSweeps, globals, kids, FreshStart, Alive
<1> QED
  BY <1>1, <1>2, <1>3, <1>4, <1>5, <1>6, <1>7, <1>8, <1>9, <1>10, <1>11, <1>12,
     <1>13, <1>14, <1>15, <1>16, <1>17, <1>18, <1>19, <1>20, <1>21,
     <1>22, <1>23, <1>24, <1>25, <1>26, <1>27, <1>28, <1>29, <1>30
  DEF Next, Work, Start, Stop, Clean, Watch

(* No step uses up the number a start is about to give. *)
LEMMA ReadyStep ==
  ASSUME TypeOK, LockDiscipline, Ready, Next
  PROVE  Ready'
<1>1. ASSUME NEW t \in Ops, Call(t) PROVE Ready'
  BY <1>1 DEF Call, globals, kids, Kinds, Ready
<1>2. ASSUME NEW t \in Ops, StartBegin(t) PROVE Ready'
  BY <1>2, Typed, LifecycleConfig
    DEF StartBegin, Goto, Return, globals, kids, world, Ready, Control
<1>3. ASSUME NEW t \in Ops, Select(t) PROVE Ready'
  BY <1>3 DEF Select, GotoWith, globals, kids, world, Ready
<1>4. ASSUME NEW t \in Ops, PreflightFails(t) PROVE Ready'
  BY <1>4 DEF PreflightFails, LeaveStart, Return, globals, kids, world, Ready
<1>5. ASSUME NEW t \in Ops, Unmanaged(t) PROVE Ready'
  BY <1>5 DEF Unmanaged, LeaveStart, Return, globals, kids, world, Ready
<1>6. ASSUME NEW t \in Ops, Settle(t) PROVE Ready'
  BY <1>6 DEF Settle, Goto, kids, Ready
<1>7. ASSUME NEW t \in Ops, SaveFails(t) PROVE Ready'
  BY <1>7 DEF SaveFails, LeaveStart, Return, globals, kids, world, Ready
<1>8. ASSUME NEW t \in Ops, Write(t) PROVE Ready'
  BY <1>8 DEF Write, Goto, globals, kids, world, Ready
<1>9. ASSUME NEW t \in Ops, WriteFails(t) PROVE Ready'
  BY <1>9 DEF WriteFails, LeaveStart, Return, globals, kids, world, Ready
<1>10. ASSUME NEW t \in Ops, Spawn(t) PROVE Ready'
  BY <1>10, Typed, LifecycleConfig
    DEF Spawn, Goto, Ready, Control, Rest, LockDiscipline, Inside
<1>11. ASSUME NEW t \in Ops, SpawnFails(t) PROVE Ready'
  BY <1>11 DEF SpawnFails, LeaveStart, Return, globals, kids, world, Ready
<1>12. ASSUME NEW t \in Ops, Serve(t) PROVE Ready'
  BY <1>12 DEF Serve, Goto, kids, Ready
<1>13. ASSUME NEW t \in Ops, ServeFails(t) PROVE Ready'
  BY <1>13 DEF ServeFails, Goto, globals, world, Ready
<1>14. ASSUME NEW t \in Ops, Rollback(t) PROVE Ready'
  BY <1>14 DEF Rollback, LeaveStart, Return, kids, world, Ready
<1>15. ASSUME NEW t \in Ops, Await(t) PROVE Ready'
  BY <1>15 DEF Await, Return, globals, kids, world, Ready
<1>16. ASSUME NEW t \in Ops, StopProbe(t) PROVE Ready'
  BY <1>16 DEF StopProbe, GotoWith, globals, kids, world, Ready
<1>17. ASSUME NEW t \in Ops, Take(t) PROVE Ready'
  BY <1>17 DEF Take, GotoWith, kids, world, Ready
<1>18. ASSUME NEW t \in Ops, NothingToStop(t) PROVE Ready'
  BY <1>18, Typed, LifecycleConfig
    DEF NothingToStop, Return, StopDone, GotoWith, kids, world, Ready, Control
<1>19. ASSUME NEW t \in Ops, Ungate(t) PROVE Ready'
  BY <1>19 DEF Ungate, GotoWith, kids, world, Ready
<1>20. ASSUME NEW t \in Ops, Close(t) PROVE Ready'
  BY <1>20 DEF Close, Goto, globals, kids, Ready
<1>21. ASSUME NEW t \in Ops, EndChild(t) PROVE Ready'
  BY <1>21 DEF EndChild, Goto, globals, world, Ready
<1>22. ASSUME NEW t \in Ops, StopUnlink(t) PROVE Ready'
  BY <1>22, Typed, LifecycleConfig
    DEF StopUnlink, StopDone, GotoWith, Return, globals, kids, world, Ready, Control
<1>23. ASSUME NEW t \in Ops, CleanCheck(t) PROVE Ready'
  BY <1>23, Typed, LifecycleConfig
    DEF CleanCheck, Goto, Return, globals, kids, world, Ready, Control
<1>24. ASSUME NEW t \in Ops, Sweep(t) PROVE Ready'
  BY <1>24 DEF Sweep, Return, globals, kids, world, Ready
<1>25. ASSUME NEW n \in Starts, ChildBoots(n) PROVE Ready'
  BY <1>25 DEF ChildBoots, globals, world, Ready
<1>26. ASSUME NEW n \in Starts, ChildExits(n) PROVE Ready'
  BY <1>26 DEF ChildExits, globals, world, Ready
<1>27. ASSUME NEW n \in Starts, WatchUnlink(n) PROVE Ready'
  BY <1>27 DEF WatchUnlink, globals, kids, WatcherLeaves, Ready
<1>28. ASSUME NEW n \in Starts, WatchClear(n) PROVE Ready'
  BY <1>28 DEF WatchClear, kids, Ready
<1>29. ASSUME Crash PROVE Ready'
  BY <1>29 DEF Crash, kids, Ready
<1>30. ASSUME MainSweeps PROVE Ready'
  BY <1>30 DEF MainSweeps, globals, kids, Ready
<1> QED
  BY <1>1, <1>2, <1>3, <1>4, <1>5, <1>6, <1>7, <1>8, <1>9, <1>10, <1>11, <1>12,
     <1>13, <1>14, <1>15, <1>16, <1>17, <1>18, <1>19, <1>20, <1>21,
     <1>22, <1>23, <1>24, <1>25, <1>26, <1>27, <1>28, <1>29, <1>30
  DEF Next, Work, Start, Stop, Clean, Watch

(* No step leaves another child's configuration on disk. *)
LEMMA OwnStep ==
  ASSUME TypeOK, LockDiscipline, FreshStart, Numbered, OwnFile, Next
  PROVE  OwnFile'
<1>1. ASSUME NEW t \in Ops, Call(t) PROVE OwnFile'
  BY <1>1 DEF Call, globals, kids, Kinds, OwnFile, Alive
<1>2. ASSUME NEW t \in Ops, StartBegin(t) PROVE OwnFile'
  BY <1>2, Typed, LifecycleConfig
    DEF StartBegin, Goto, Return, globals, kids, world, OwnFile, Alive, Control, Rest
<1>3. ASSUME NEW t \in Ops, Select(t) PROVE OwnFile'
  BY <1>3 DEF Select, GotoWith, globals, kids, world, OwnFile, Alive
<1>4. ASSUME NEW t \in Ops, PreflightFails(t) PROVE OwnFile'
  BY <1>4 DEF PreflightFails, LeaveStart, Return, globals, kids, world, OwnFile, Alive
<1>5. ASSUME NEW t \in Ops, Unmanaged(t) PROVE OwnFile'
  BY <1>5 DEF Unmanaged, LeaveStart, Return, globals, kids, world, OwnFile, Alive
<1>6. ASSUME NEW t \in Ops, Settle(t) PROVE OwnFile'
  BY <1>6 DEF Settle, Goto, kids, OwnFile, Alive
<1>7. ASSUME NEW t \in Ops, SaveFails(t) PROVE OwnFile'
  BY <1>7 DEF SaveFails, LeaveStart, Return, globals, kids, world, OwnFile, Alive
<1>8. ASSUME NEW t \in Ops, Write(t) PROVE OwnFile'
  BY <1>8, Typed, LifecycleConfig
    DEF Write, Goto, globals, kids, world, OwnFile, Alive, Control, Rest, FreshStart,
        LockDiscipline, Inside, Starts, Numbered
<1>9. ASSUME NEW t \in Ops, WriteFails(t) PROVE OwnFile'
  BY <1>9, Typed, LifecycleConfig
    DEF WriteFails, LeaveStart, Return, globals, kids, world, OwnFile, Alive, Control,
        Rest, FreshStart, LockDiscipline, Inside, Starts, Numbered
<1>10. ASSUME NEW t \in Ops, Spawn(t) PROVE OwnFile'
  <2>1. registered' = born + 1 /\ file' = file /\ file \in {0, born + 1}
    BY <1>10 DEF Spawn, OwnFile
  <2>2. \A u \in Ops : pc'[u] # "spawn"
    BY <1>10, Typed DEF Spawn, Goto, Control, LockDiscipline, Inside
  <2> QED
    BY <2>1, <2>2 DEF OwnFile
<1>11. ASSUME NEW t \in Ops, SpawnFails(t) PROVE OwnFile'
  BY <1>11 DEF SpawnFails, LeaveStart, Return, globals, kids, world, OwnFile, Alive
<1>12. ASSUME NEW t \in Ops, Serve(t) PROVE OwnFile'
  BY <1>12 DEF Serve, Goto, kids, OwnFile, Alive
<1>13. ASSUME NEW t \in Ops, ServeFails(t) PROVE OwnFile'
  BY <1>13 DEF ServeFails, Goto, globals, world, OwnFile, Alive
<1>14. ASSUME NEW t \in Ops, Rollback(t) PROVE OwnFile'
  BY <1>14 DEF Rollback, LeaveStart, Return, kids, world, OwnFile, Alive
<1>15. ASSUME NEW t \in Ops, Await(t) PROVE OwnFile'
  BY <1>15 DEF Await, Return, globals, kids, world, OwnFile, Alive
<1>16. ASSUME NEW t \in Ops, StopProbe(t) PROVE OwnFile'
  BY <1>16 DEF StopProbe, GotoWith, globals, kids, world, OwnFile, Alive
<1>17. ASSUME NEW t \in Ops, Take(t) PROVE OwnFile'
  BY <1>17 DEF Take, GotoWith, kids, world, OwnFile, Alive
<1>18. ASSUME NEW t \in Ops, NothingToStop(t) PROVE OwnFile'
  BY <1>18, Typed, LifecycleConfig
    DEF NothingToStop, Return, StopDone, GotoWith, kids, world, OwnFile, Alive, Control,
        Rest
<1>19. ASSUME NEW t \in Ops, Ungate(t) PROVE OwnFile'
  BY <1>19 DEF Ungate, GotoWith, kids, world, OwnFile, Alive
<1>20. ASSUME NEW t \in Ops, Close(t) PROVE OwnFile'
  BY <1>20 DEF Close, Goto, globals, kids, OwnFile, Alive
<1>21. ASSUME NEW t \in Ops, EndChild(t) PROVE OwnFile'
  BY <1>21, Typed, LifecycleConfig
    DEF EndChild, Goto, globals, world, OwnFile, Alive, Control, Rest
<1>22. ASSUME NEW t \in Ops, StopUnlink(t) PROVE OwnFile'
  BY <1>22, Typed, LifecycleConfig
    DEF StopUnlink, StopDone, GotoWith, Return, globals, kids, world, OwnFile, Alive,
        Control, Rest
<1>23. ASSUME NEW t \in Ops, CleanCheck(t) PROVE OwnFile'
  BY <1>23, Typed, LifecycleConfig
    DEF CleanCheck, Goto, Return, globals, kids, world, OwnFile, Alive, Control, Rest
<1>24. ASSUME NEW t \in Ops, Sweep(t) PROVE OwnFile'
  BY <1>24 DEF Sweep, Return, globals, kids, world, OwnFile, Alive
<1>25. ASSUME NEW n \in Starts, ChildBoots(n) PROVE OwnFile'
  BY <1>25 DEF ChildBoots, globals, world, OwnFile, Alive
<1>26. ASSUME NEW n \in Starts, ChildExits(n) PROVE OwnFile'
  BY <1>26 DEF ChildExits, globals, world, OwnFile, Alive
<1>27. ASSUME NEW n \in Starts, WatchUnlink(n) PROVE OwnFile'
  BY <1>27 DEF WatchUnlink, globals, kids, WatcherLeaves, OwnFile, Alive
<1>28. ASSUME NEW n \in Starts, WatchClear(n) PROVE OwnFile'
  BY <1>28 DEF WatchClear, kids, OwnFile, Alive
<1>29. ASSUME Crash PROVE OwnFile'
  BY <1>29 DEF Crash, kids, OwnFile, Alive
<1>30. ASSUME MainSweeps PROVE OwnFile'
  BY <1>30 DEF MainSweeps, globals, kids, OwnFile, Alive
<1> QED
  BY <1>1, <1>2, <1>3, <1>4, <1>5, <1>6, <1>7, <1>8, <1>9, <1>10, <1>11, <1>12,
     <1>13, <1>14, <1>15, <1>16, <1>17, <1>18, <1>19, <1>20, <1>21,
     <1>22, <1>23, <1>24, <1>25, <1>26, <1>27, <1>28, <1>29, <1>30
  DEF Next, Work, Start, Stop, Clean, Watch

(* Every step numbers the children in order. *)
LEMMA NumberedStep ==
  ASSUME TypeOK, Ready, Numbered, Serving, Next
  PROVE  Numbered'
<1>1. ASSUME NEW t \in Ops, Call(t) PROVE Numbered'
  BY <1>1 DEF Call, globals, kids, Kinds, Numbered
<1>2. ASSUME NEW t \in Ops, StartBegin(t) PROVE Numbered'
  BY <1>2 DEF StartBegin, Goto, Return, globals, kids, world, Numbered
<1>3. ASSUME NEW t \in Ops, Select(t) PROVE Numbered'
  BY <1>3 DEF Select, GotoWith, globals, kids, world, Numbered
<1>4. ASSUME NEW t \in Ops, PreflightFails(t) PROVE Numbered'
  BY <1>4 DEF PreflightFails, LeaveStart, Return, globals, kids, world, Numbered
<1>5. ASSUME NEW t \in Ops, Unmanaged(t) PROVE Numbered'
  BY <1>5 DEF Unmanaged, LeaveStart, Return, globals, kids, world, Numbered
<1>6. ASSUME NEW t \in Ops, Settle(t) PROVE Numbered'
  BY <1>6 DEF Settle, Goto, kids, Numbered
<1>7. ASSUME NEW t \in Ops, SaveFails(t) PROVE Numbered'
  BY <1>7 DEF SaveFails, LeaveStart, Return, globals, kids, world, Numbered
<1>8. ASSUME NEW t \in Ops, Write(t) PROVE Numbered'
  BY <1>8 DEF Write, Goto, globals, kids, world, Numbered
<1>9. ASSUME NEW t \in Ops, WriteFails(t) PROVE Numbered'
  BY <1>9 DEF WriteFails, LeaveStart, Return, globals, kids, world, Numbered
<1>10. ASSUME NEW t \in Ops, Spawn(t) PROVE Numbered'
  BY <1>10, Typed, LifecycleConfig DEF Spawn, Goto, Numbered, Rest, Starts
<1>11. ASSUME NEW t \in Ops, SpawnFails(t) PROVE Numbered'
  BY <1>11 DEF SpawnFails, LeaveStart, Return, globals, kids, world, Numbered
<1>12. ASSUME NEW t \in Ops, Serve(t) PROVE Numbered'
  BY <1>12, Typed, LifecycleConfig DEF Serve, Goto, kids, Numbered, Rest, Starts
<1>13. ASSUME NEW t \in Ops, ServeFails(t) PROVE Numbered'
  BY <1>13, Typed, LifecycleConfig DEF ServeFails, Goto, globals, world, Numbered, Rest, Starts
<1>14. ASSUME NEW t \in Ops, Rollback(t) PROVE Numbered'
  BY <1>14, Typed, LifecycleConfig
    DEF Rollback, LeaveStart, Return, kids, world, Numbered, Rest, Starts
<1>15. ASSUME NEW t \in Ops, Await(t) PROVE Numbered'
  BY <1>15 DEF Await, Return, globals, kids, world, Numbered
<1>16. ASSUME NEW t \in Ops, StopProbe(t) PROVE Numbered'
  BY <1>16 DEF StopProbe, GotoWith, globals, kids, world, Numbered
<1>17. ASSUME NEW t \in Ops, Take(t) PROVE Numbered'
  BY <1>17, Typed, LifecycleConfig DEF Take, GotoWith, kids, world, Numbered, Rest, Starts
<1>18. ASSUME NEW t \in Ops, NothingToStop(t) PROVE Numbered'
  BY <1>18 DEF NothingToStop, Return, StopDone, GotoWith, kids, world, Numbered
<1>19. ASSUME NEW t \in Ops, Ungate(t) PROVE Numbered'
  BY <1>19 DEF Ungate, GotoWith, kids, world, Numbered
<1>20. ASSUME NEW t \in Ops, Close(t) PROVE Numbered'
  BY <1>20 DEF Close, Goto, globals, kids, Numbered
<1>21. ASSUME NEW t \in Ops, EndChild(t) PROVE Numbered'
  BY <1>21, Typed, LifecycleConfig
    DEF EndChild, Goto, globals, world, Numbered, Rest, Starts, Control, Alive, Ready,
        Serving
<1>22. ASSUME NEW t \in Ops, StopUnlink(t) PROVE Numbered'
  BY <1>22 DEF StopUnlink, StopDone, GotoWith, Return, globals, kids, world, Numbered
<1>23. ASSUME NEW t \in Ops, CleanCheck(t) PROVE Numbered'
  BY <1>23 DEF CleanCheck, Goto, Return, globals, kids, world, Numbered
<1>24. ASSUME NEW t \in Ops, Sweep(t) PROVE Numbered'
  BY <1>24 DEF Sweep, Return, globals, kids, world, Numbered
<1>25. ASSUME NEW n \in Starts, ChildBoots(n) PROVE Numbered'
  BY <1>25 DEF ChildBoots, globals, world, Numbered
<1>26. ASSUME NEW n \in Starts, ChildExits(n) PROVE Numbered'
  BY <1>26, Typed, LifecycleConfig
    DEF ChildExits, globals, world, Numbered, Rest, Starts, Control, Alive, Ready, Serving
<1>27. ASSUME NEW n \in Starts, WatchUnlink(n) PROVE Numbered'
  BY <1>27 DEF WatchUnlink, globals, kids, WatcherLeaves, Numbered
<1>28. ASSUME NEW n \in Starts, WatchClear(n) PROVE Numbered'
  BY <1>28, Typed, LifecycleConfig DEF WatchClear, kids, Numbered, Rest, Starts
<1>29. ASSUME Crash PROVE Numbered'
  BY <1>29, Typed, LifecycleConfig
    DEF Crash, kids, Numbered, Rest, Starts, Control, Alive, Ready, Serving
<1>30. ASSUME MainSweeps PROVE Numbered'
  BY <1>30 DEF MainSweeps, globals, kids, Numbered
<1> QED
  BY <1>1, <1>2, <1>3, <1>4, <1>5, <1>6, <1>7, <1>8, <1>9, <1>10, <1>11, <1>12,
     <1>13, <1>14, <1>15, <1>16, <1>17, <1>18, <1>19, <1>20, <1>21,
     <1>22, <1>23, <1>24, <1>25, <1>26, <1>27, <1>28, <1>29, <1>30
  DEF Next, Work, Start, Stop, Clean, Watch

(* No step serves the gateway of a start that is about to open it. *)
LEMMA ServingStep ==
  ASSUME TypeOK, LockDiscipline, Ready, Numbered, Serving, Next
  PROVE  Serving'
<1>1. ASSUME NEW t \in Ops, Call(t) PROVE Serving'
  BY <1>1 DEF Call, globals, kids, Kinds, Serving
<1>2. ASSUME NEW t \in Ops, StartBegin(t) PROVE Serving'
  BY <1>2, Typed, LifecycleConfig
    DEF StartBegin, Goto, Return, globals, kids, world, Serving, Control, Rest
<1>3. ASSUME NEW t \in Ops, Select(t) PROVE Serving'
  BY <1>3 DEF Select, GotoWith, globals, kids, world, Serving
<1>4. ASSUME NEW t \in Ops, PreflightFails(t) PROVE Serving'
  BY <1>4 DEF PreflightFails, LeaveStart, Return, globals, kids, world, Serving
<1>5. ASSUME NEW t \in Ops, Unmanaged(t) PROVE Serving'
  BY <1>5 DEF Unmanaged, LeaveStart, Return, globals, kids, world, Serving
<1>6. ASSUME NEW t \in Ops, Settle(t) PROVE Serving'
  BY <1>6 DEF Settle, Goto, kids, Serving
<1>7. ASSUME NEW t \in Ops, SaveFails(t) PROVE Serving'
  BY <1>7 DEF SaveFails, LeaveStart, Return, globals, kids, world, Serving
<1>8. ASSUME NEW t \in Ops, Write(t) PROVE Serving'
  BY <1>8 DEF Write, Goto, globals, kids, world, Serving
<1>9. ASSUME NEW t \in Ops, WriteFails(t) PROVE Serving'
  BY <1>9 DEF WriteFails, LeaveStart, Return, globals, kids, world, Serving
<1>10. ASSUME NEW t \in Ops, Spawn(t) PROVE Serving'
  BY <1>10, Typed, LifecycleConfig
    DEF Spawn, Goto, Serving, Control, Rest, Numbered, Ready, LockDiscipline, Inside, Starts
<1>11. ASSUME NEW t \in Ops, SpawnFails(t) PROVE Serving'
  BY <1>11 DEF SpawnFails, LeaveStart, Return, globals, kids, world, Serving
<1>12. ASSUME NEW t \in Ops, Serve(t) PROVE Serving'
  BY <1>12, Typed, LifecycleConfig
    DEF Serve, Goto, kids, Serving, Control, Rest, Numbered, Ready, LockDiscipline,
        Inside, Starts
<1>13. ASSUME NEW t \in Ops, ServeFails(t) PROVE Serving'
  BY <1>13 DEF ServeFails, Goto, globals, world, Serving
<1>14. ASSUME NEW t \in Ops, Rollback(t) PROVE Serving'
  BY <1>14 DEF Rollback, LeaveStart, Return, kids, world, Serving
<1>15. ASSUME NEW t \in Ops, Await(t) PROVE Serving'
  BY <1>15 DEF Await, Return, globals, kids, world, Serving
<1>16. ASSUME NEW t \in Ops, StopProbe(t) PROVE Serving'
  BY <1>16 DEF StopProbe, GotoWith, globals, kids, world, Serving
<1>17. ASSUME NEW t \in Ops, Take(t) PROVE Serving'
  BY <1>17 DEF Take, GotoWith, kids, world, Serving
<1>18. ASSUME NEW t \in Ops, NothingToStop(t) PROVE Serving'
  BY <1>18, Typed, LifecycleConfig
    DEF NothingToStop, Return, StopDone, GotoWith, kids, world, Serving, Control, Rest
<1>19. ASSUME NEW t \in Ops, Ungate(t) PROVE Serving'
  BY <1>19 DEF Ungate, GotoWith, kids, world, Serving
<1>20. ASSUME NEW t \in Ops, Close(t) PROVE Serving'
  BY <1>20 DEF Close, Goto, globals, kids, Serving
<1>21. ASSUME NEW t \in Ops, EndChild(t) PROVE Serving'
  BY <1>21 DEF EndChild, Goto, globals, world, Serving
<1>22. ASSUME NEW t \in Ops, StopUnlink(t) PROVE Serving'
  BY <1>22, Typed, LifecycleConfig
    DEF StopUnlink, StopDone, GotoWith, Return, globals, kids, world, Serving, Control, Rest
<1>23. ASSUME NEW t \in Ops, CleanCheck(t) PROVE Serving'
  BY <1>23, Typed, LifecycleConfig
    DEF CleanCheck, Goto, Return, globals, kids, world, Serving, Control, Rest
<1>24. ASSUME NEW t \in Ops, Sweep(t) PROVE Serving'
  BY <1>24 DEF Sweep, Return, globals, kids, world, Serving
<1>25. ASSUME NEW n \in Starts, ChildBoots(n) PROVE Serving'
  BY <1>25 DEF ChildBoots, globals, world, Serving
<1>26. ASSUME NEW n \in Starts, ChildExits(n) PROVE Serving'
  BY <1>26 DEF ChildExits, globals, world, Serving
<1>27. ASSUME NEW n \in Starts, WatchUnlink(n) PROVE Serving'
  BY <1>27 DEF WatchUnlink, globals, kids, WatcherLeaves, Serving
<1>28. ASSUME NEW n \in Starts, WatchClear(n) PROVE Serving'
  BY <1>28 DEF WatchClear, kids, Serving
<1>29. ASSUME Crash PROVE Serving'
  BY <1>29 DEF Crash, kids, Serving
<1>30. ASSUME MainSweeps PROVE Serving'
  BY <1>30 DEF MainSweeps, globals, kids, Serving
<1> QED
  BY <1>1, <1>2, <1>3, <1>4, <1>5, <1>6, <1>7, <1>8, <1>9, <1>10, <1>11, <1>12,
     <1>13, <1>14, <1>15, <1>16, <1>17, <1>18, <1>19, <1>20, <1>21,
     <1>22, <1>23, <1>24, <1>25, <1>26, <1>27, <1>28, <1>29, <1>30
  DEF Next, Work, Start, Stop, Clean, Watch

(* No step lets a child read a configuration that is not its own. *)
LEMMA ConfigStep ==
  ASSUME TypeOK, OwnFile, Ready, RunsItsConfig, Next
  PROVE  RunsItsConfig'
<1>1. ASSUME NEW t \in Ops, Call(t) PROVE RunsItsConfig'
  BY <1>1 DEF Call, globals, kids, Kinds, RunsItsConfig
<1>2. ASSUME NEW t \in Ops, StartBegin(t) PROVE RunsItsConfig'
  BY <1>2 DEF StartBegin, Goto, Return, globals, kids, world, RunsItsConfig
<1>3. ASSUME NEW t \in Ops, Select(t) PROVE RunsItsConfig'
  BY <1>3 DEF Select, GotoWith, globals, kids, world, RunsItsConfig
<1>4. ASSUME NEW t \in Ops, PreflightFails(t) PROVE RunsItsConfig'
  BY <1>4 DEF PreflightFails, LeaveStart, Return, globals, kids, world, RunsItsConfig
<1>5. ASSUME NEW t \in Ops, Unmanaged(t) PROVE RunsItsConfig'
  BY <1>5 DEF Unmanaged, LeaveStart, Return, globals, kids, world, RunsItsConfig
<1>6. ASSUME NEW t \in Ops, Settle(t) PROVE RunsItsConfig'
  BY <1>6 DEF Settle, Goto, kids, RunsItsConfig
<1>7. ASSUME NEW t \in Ops, SaveFails(t) PROVE RunsItsConfig'
  BY <1>7 DEF SaveFails, LeaveStart, Return, globals, kids, world, RunsItsConfig
<1>8. ASSUME NEW t \in Ops, Write(t) PROVE RunsItsConfig'
  BY <1>8 DEF Write, Goto, globals, kids, world, RunsItsConfig
<1>9. ASSUME NEW t \in Ops, WriteFails(t) PROVE RunsItsConfig'
  BY <1>9 DEF WriteFails, LeaveStart, Return, globals, kids, world, RunsItsConfig
<1>10. ASSUME NEW t \in Ops, Spawn(t) PROVE RunsItsConfig'
  BY <1>10, Typed, LifecycleConfig DEF Spawn, Goto, RunsItsConfig, Rest, Starts
<1>11. ASSUME NEW t \in Ops, SpawnFails(t) PROVE RunsItsConfig'
  BY <1>11 DEF SpawnFails, LeaveStart, Return, globals, kids, world, RunsItsConfig
<1>12. ASSUME NEW t \in Ops, Serve(t) PROVE RunsItsConfig'
  BY <1>12 DEF Serve, Goto, kids, RunsItsConfig
<1>13. ASSUME NEW t \in Ops, ServeFails(t) PROVE RunsItsConfig'
  BY <1>13 DEF ServeFails, Goto, globals, world, RunsItsConfig
<1>14. ASSUME NEW t \in Ops, Rollback(t) PROVE RunsItsConfig'
  BY <1>14, Typed, LifecycleConfig
    DEF Rollback, LeaveStart, Return, kids, world, RunsItsConfig, Rest, Starts
<1>15. ASSUME NEW t \in Ops, Await(t) PROVE RunsItsConfig'
  BY <1>15 DEF Await, Return, globals, kids, world, RunsItsConfig
<1>16. ASSUME NEW t \in Ops, StopProbe(t) PROVE RunsItsConfig'
  BY <1>16 DEF StopProbe, GotoWith, globals, kids, world, RunsItsConfig
<1>17. ASSUME NEW t \in Ops, Take(t) PROVE RunsItsConfig'
  BY <1>17, Typed, LifecycleConfig DEF Take, GotoWith, kids, world, RunsItsConfig, Rest, Starts
<1>18. ASSUME NEW t \in Ops, NothingToStop(t) PROVE RunsItsConfig'
  BY <1>18 DEF NothingToStop, Return, StopDone, GotoWith, kids, world, RunsItsConfig
<1>19. ASSUME NEW t \in Ops, Ungate(t) PROVE RunsItsConfig'
  BY <1>19 DEF Ungate, GotoWith, kids, world, RunsItsConfig
<1>20. ASSUME NEW t \in Ops, Close(t) PROVE RunsItsConfig'
  BY <1>20 DEF Close, Goto, globals, kids, RunsItsConfig
<1>21. ASSUME NEW t \in Ops, EndChild(t) PROVE RunsItsConfig'
  BY <1>21 DEF EndChild, Goto, globals, world, RunsItsConfig
<1>22. ASSUME NEW t \in Ops, StopUnlink(t) PROVE RunsItsConfig'
  BY <1>22 DEF StopUnlink, StopDone, GotoWith, Return, globals, kids, world, RunsItsConfig
<1>23. ASSUME NEW t \in Ops, CleanCheck(t) PROVE RunsItsConfig'
  BY <1>23 DEF CleanCheck, Goto, Return, globals, kids, world, RunsItsConfig
<1>24. ASSUME NEW t \in Ops, Sweep(t) PROVE RunsItsConfig'
  BY <1>24 DEF Sweep, Return, globals, kids, world, RunsItsConfig
<1>25. ASSUME NEW n \in Starts, ChildBoots(n) PROVE RunsItsConfig'
  BY <1>25, Typed, LifecycleConfig
    DEF ChildBoots, globals, world, RunsItsConfig, Rest, Starts, OwnFile, Alive, Ready
<1>26. ASSUME NEW n \in Starts, ChildExits(n) PROVE RunsItsConfig'
  BY <1>26 DEF ChildExits, globals, world, RunsItsConfig
<1>27. ASSUME NEW n \in Starts, WatchUnlink(n) PROVE RunsItsConfig'
  BY <1>27 DEF WatchUnlink, globals, kids, WatcherLeaves, RunsItsConfig
<1>28. ASSUME NEW n \in Starts, WatchClear(n) PROVE RunsItsConfig'
  BY <1>28, Typed, LifecycleConfig DEF WatchClear, kids, RunsItsConfig, Rest, Starts
<1>29. ASSUME Crash PROVE RunsItsConfig'
  BY <1>29, Typed, LifecycleConfig DEF Crash, kids, RunsItsConfig, Rest, Starts
<1>30. ASSUME MainSweeps PROVE RunsItsConfig'
  BY <1>30 DEF MainSweeps, globals, kids, RunsItsConfig
<1> QED
  BY <1>1, <1>2, <1>3, <1>4, <1>5, <1>6, <1>7, <1>8, <1>9, <1>10, <1>11, <1>12,
     <1>13, <1>14, <1>15, <1>16, <1>17, <1>18, <1>19, <1>20, <1>21,
     <1>22, <1>23, <1>24, <1>25, <1>26, <1>27, <1>28, <1>29, <1>30
  DEF Next, Work, Start, Stop, Clean, Watch

(* A child that has ended stays so, and a watcher starts out waiting. *)
LEMMA WatchedStep ==
  ASSUME TypeOK, Watched, Next
  PROVE  Watched'
<1>1. ASSUME NEW t \in Ops, Call(t) \/ Clean(t) PROVE Watched'
  BY <1>1 DEF Call, Clean, CleanCheck, Sweep, kids, world, Watched
<1>2. ASSUME NEW t \in Ops, Start(t), ~Spawn(t), ~ServeFails(t) PROVE Watched'
  <2>1. UNCHANGED <<child, watcher>>
    BY <1>2 DEF Start, StartBegin, Select, PreflightFails, Unmanaged, Settle, SaveFails,
       Write, WriteFails, SpawnFails, Serve, Rollback, Await, kids, world
  <2> QED
    BY <2>1 DEF Watched
<1>3. ASSUME NEW t \in Ops, Spawn(t) PROVE Watched'
  BY <1>3, Typed DEF Spawn, Rest, Watched
<1>4. ASSUME NEW t \in Ops, ServeFails(t) PROVE Watched'
  BY <1>4, Typed DEF ServeFails, world, Rest, Watched
<1>5. ASSUME NEW t \in Ops, Stop(t), ~EndChild(t) PROVE Watched'
  <2>1. UNCHANGED <<child, watcher>>
    BY <1>5 DEF Stop, StopProbe, Take, NothingToStop, Ungate, Close, StopUnlink, kids, world
  <2> QED
    BY <2>1 DEF Watched
<1>6. ASSUME NEW t \in Ops, EndChild(t) PROVE Watched'
  BY <1>6, Typed DEF EndChild, world, Rest, Watched
<1>7. ASSUME NEW n \in Starts, ChildBoots(n) \/ ChildExits(n) PROVE Watched'
  BY <1>7, Typed DEF ChildBoots, ChildExits, Alive, world, Rest, Watched
<1>8. ASSUME NEW n \in Starts, Watch(n) PROVE Watched'
  BY <1>8, Typed DEF Watch, WatchUnlink, WatchClear, kids, Rest, Watched
<1>9. CASE Crash \/ MainSweeps
  BY <1>9 DEF Crash, MainSweeps, kids, Watched
<1> QED
  BY <1>1, <1>2, <1>3, <1>4, <1>5, <1>6, <1>7, <1>8, <1>9 DEF Next, Work

(* Nobody is forgotten by a step that leaves the one in charge in its place, *)
(* starts no child and takes nobody out of a stop's hands. *)
LEMMA StillKept ==
  ASSUME NoChildForgotten, registered' = registered, orphans' = orphans,
         \A n \in Starts : Alive(n)' => Alive(n),
         \A u \in Ops : pc[u] \in Ending =>
            pc'[u] \in Ending /\ frame'[u].proc = frame[u].proc
  PROVE  NoChildForgotten'
BY DEF NoChildForgotten

(* A child leaves the place in charge only when it has ended, or with a stop. *)
LEMMA KeeperStep ==
  ASSUME TypeOK, FreshStart, Watched, NoChildForgotten, Next
  PROVE  NoChildForgotten'
<1>1. Control /\ Rest
  BY Typed
<1>2. ASSUME NEW t \in Ops, pc[t] \notin Ending, registered' = registered, orphans' = orphans,
             \A n \in Starts : Alive(n)' => Alive(n),
             \A u \in Ops \ {t} : pc'[u] = pc[u] /\ frame'[u] = frame[u]
      PROVE  NoChildForgotten'
  BY <1>2, StillKept
<1>3. ASSUME NEW t \in Ops
      PROVE  /\ \A label : Goto(t, label) =>
                   \A u \in Ops \ {t} : pc'[u] = pc[u] /\ frame'[u] = frame[u]
             /\ \A label, f : GotoWith(t, label, f) =>
                   \A u \in Ops \ {t} : pc'[u] = pc[u] /\ frame'[u] = frame[u]
             /\ Return(t) => \A u \in Ops \ {t} : pc'[u] = pc[u] /\ frame'[u] = frame[u]
  BY <1>1 DEF Goto, GotoWith, Return, Control
<1>4. ASSUME NEW t \in Ops, Call(t) PROVE NoChildForgotten'
  BY <1>1, <1>2, <1>4 DEF Call, globals, kids, Alive, Ending, Control
<1>5. ASSUME NEW t \in Ops, Start(t), ~Spawn(t), ~ServeFails(t), ~Rollback(t)
      PROVE  NoChildForgotten'
  <2>1. UNCHANGED <<registered, orphans, child>> /\ pc[t] \notin Ending
    BY <1>5 DEF Start, StartBegin, Select, PreflightFails, Unmanaged, Settle, SaveFails,
       Write, WriteFails, SpawnFails, Serve, Await, globals, kids, world, Ending
  <2>2. (\E label : Goto(t, label)) \/ (\E label, f : GotoWith(t, label, f)) \/ Return(t)
    BY <1>5 DEF Start, StartBegin, Select, PreflightFails, Unmanaged, Settle, SaveFails,
       Write, WriteFails, SpawnFails, Serve, Await, LeaveStart
  <2>3. \A u \in Ops \ {t} : pc'[u] = pc[u] /\ frame'[u] = frame[u]
    BY <1>3, <2>2
  <2> QED
    BY <1>2, <2>1, <2>3 DEF Alive
<1>6. ASSUME NEW t \in Ops, Spawn(t) PROVE NoChildForgotten'
  <2>1. /\ ~Alive(registered) /\ registered' = born + 1 /\ orphans' = orphans
        /\ \A n \in Starts : n # born + 1 => child'[n] = child[n]
        /\ \A u \in Ops : pc[u] \in Ending => pc'[u] = pc[u] /\ frame'[u] = frame[u]
    BY <1>1, <1>6 DEF Spawn, Goto, FreshStart, Ending, Control, Rest
  <2> QED
    BY <2>1 DEF NoChildForgotten, Alive, Starts
<1>7. ASSUME NEW t \in Ops, ServeFails(t) PROVE NoChildForgotten'
  <2>1. UNCHANGED <<registered, orphans>> /\ pc[t] \notin Ending
    BY <1>7 DEF ServeFails, globals, world, Ending
  <2>2. \A n \in Starts : Alive(n)' => Alive(n)
    BY <1>1, <1>7 DEF ServeFails, Alive, Rest, Starts
  <2>3. \A u \in Ops \ {t} : pc'[u] = pc[u] /\ frame'[u] = frame[u]
    BY <1>3, <1>7 DEF ServeFails
  <2> QED
    BY <1>2, <2>1, <2>2, <2>3
<1>8. ASSUME NEW t \in Ops, Rollback(t) PROVE NoChildForgotten'
  <2>1. ~Alive(registered) /\ UNCHANGED <<child, orphans>> /\ pc[t] \notin Ending
    BY <1>8 DEF Rollback, FreshStart, kids, world, Ending
  <2>2. \A u \in Ops \ {t} : pc'[u] = pc[u] /\ frame'[u] = frame[u]
    BY <1>3, <1>8 DEF Rollback, LeaveStart
  <2> QED
    BY <2>1, <2>2 DEF NoChildForgotten, Alive, Starts
<1>9. ASSUME NEW t \in Ops, StopProbe(t) \/ NothingToStop(t) \/ StopUnlink(t) \/ Clean(t)
      PROVE  NoChildForgotten'
  <2>1. UNCHANGED <<registered, orphans, child>> /\ pc[t] \notin Ending
    BY <1>9 DEF StopProbe, NothingToStop, StopUnlink, Clean, CleanCheck, Sweep, globals, kids,
       world, Ending
  <2>2. (\E label : Goto(t, label)) \/ (\E label, f : GotoWith(t, label, f)) \/ Return(t)
    BY <1>9 DEF StopProbe, NothingToStop, StopUnlink, StopDone, Clean, CleanCheck, Sweep
  <2>3. \A u \in Ops \ {t} : pc'[u] = pc[u] /\ frame'[u] = frame[u]
    BY <1>3, <2>2
  <2> QED
    BY <1>2, <2>1, <2>3 DEF Alive
<1>10. ASSUME NEW t \in Ops, Take(t) PROVE NoChildForgotten'
  <2>1. /\ pc'[t] \in Ending /\ UNCHANGED <<child, orphans>>
        /\ Alive(registered) => frame'[t].proc = registered
        /\ ~Alive(registered) => registered' = registered
        /\ \A u \in Ops : pc[u] \in Ending => pc'[u] = pc[u] /\ frame'[u] = frame[u]
    BY <1>1, <1>10 DEF Take, GotoWith, kids, world, Frame0, Ending, Control
  <2> QED
    BY <2>1 DEF NoChildForgotten, Alive
<1>11. ASSUME NEW t \in Ops, Ungate(t) \/ Close(t) PROVE NoChildForgotten'
  <2>1. UNCHANGED <<registered, orphans, child>>
    BY <1>11 DEF Ungate, Close, globals, kids, world
  <2>2. \A u \in Ops : pc[u] \in Ending => pc'[u] \in Ending /\ frame'[u].proc = frame[u].proc
    BY <1>1, <1>11 DEF Ungate, Close, Goto, GotoWith, Ending, Control, FrameType
  <2> QED
    BY <2>1, <2>2, StillKept DEF Alive
<1>12. ASSUME NEW t \in Ops, EndChild(t) PROVE NoChildForgotten'
  <2>1. /\ UNCHANGED <<registered, orphans>>
        /\ \A n \in Starts : Alive(n)' => Alive(n) /\ frame[t].proc # n
        /\ \A u \in Ops \ {t} : pc'[u] = pc[u] /\ frame'[u] = frame[u]
    BY <1>1, <1>12 DEF EndChild, Goto, globals, world, Alive, Control, Starts
  <2> QED
    BY <2>1 DEF NoChildForgotten
<1>13. ASSUME NEW n \in Starts, ChildBoots(n) \/ ChildExits(n) PROVE NoChildForgotten'
  <2>1. UNCHANGED <<registered, orphans, pc, frame>> /\ \A m \in Starts : Alive(m)' => Alive(m)
    BY <1>1, <1>13 DEF ChildBoots, ChildExits, Alive, globals, world, Rest, Starts
  <2> QED
    BY <2>1, StillKept
<1>14. ASSUME NEW n \in Starts, WatchUnlink(n) PROVE NoChildForgotten'
  BY <1>14, StillKept DEF WatchUnlink, Alive, globals, kids
<1>15. ASSUME NEW n \in Starts, WatchClear(n) PROVE NoChildForgotten'
  <2>1. UNCHANGED <<pc, frame, orphans, child>> /\ child[n] = "dead"
        /\ (registered' = registered \/ registered = n)
    BY <1>15 DEF WatchClear, InCharge, Watched, kids
  <2> QED
    BY <2>1 DEF NoChildForgotten, Alive
<1>16. ASSUME Crash PROVE NoChildForgotten'
  BY <1>16 DEF Crash, kids, NoChildForgotten, Alive
<1>17. ASSUME MainSweeps PROVE NoChildForgotten'
  BY <1>17, StillKept DEF MainSweeps, Alive, globals, kids
<1> QED
  BY <1>4, <1>5, <1>6, <1>7, <1>8, <1>9, <1>10, <1>11, <1>12, <1>13, <1>14, <1>15, <1>16, <1>17
  DEF Next, Work, Stop, Watch

(* The launcher as it comes up satisfies the invariant, *)
LEMMA Initially == Init => IInv
<1> SUFFICES ASSUME Init PROVE IInv
  OBVIOUS
<1>1. Control
  BY Locals DEF Init, Control, Labels, Kinds
<1>2. Rest
  <2>1. 1 \in Ports /\ 0 \in 0 .. MaxOps
    BY LifecycleConfig DEF Ports
  <2>2. made \in [Starts -> [port : Ports, gw : BOOLEAN]]
    BY <2>1 DEF Init
  <2> QED
    BY <2>1, <2>2 DEF Init, Rest
<1>3. \A t \in Ops : pc[t] = "idle"
  BY DEF Init
<1>4. LockDiscipline
  BY <1>3, LifecycleConfig DEF Init, LockDiscipline, Inside
<1>5. LockedPart /\ FreshStart /\ Ready /\ Serving
  BY <1>3 DEF LockedPart, FreshStart, Ready, Serving, Inside
<1>6. OwnFile
  BY <1>3 DEF Init, OwnFile, Alive
<1>7. Numbered /\ RunsItsConfig /\ Watched /\ NoChildForgotten
  BY DEF Init, Numbered, RunsItsConfig, Watched, NoChildForgotten, Alive, Starts
<1> QED
  BY <1>1, <1>2, <1>4, <1>5, <1>6, <1>7, Typed DEF IInv

(* and every step, or none, preserves it. *)
LEMMA Inductive == IInv /\ [Next]_vars => IInv'
<1> SUFFICES ASSUME IInv, [Next]_vars PROVE IInv'
  OBVIOUS
<1>1. CASE Next
  <2>1. TypeOK'
    BY <1>1, ControlStep, RestStep, Typed DEF IInv, TypeOK, Control, Rest
  <2> QED
    BY <1>1, <2>1, LockStep, LockedStep, FreshStep, ReadyStep, OwnStep, NumberedStep,
       ServingStep, ConfigStep, WatchedStep, KeeperStep DEF IInv
<1>2. CASE UNCHANGED vars
  BY <1>2 DEF vars, IInv, TypeOK, LockDiscipline, LockedPart, FreshStart, Ready, OwnFile,
     Numbered, Serving, RunsItsConfig, Watched, NoChildForgotten, Alive
<1> QED
  BY <1>1, <1>2

(* In every state a start, a stop, a clean-up, a child or a crash can lead *)
(* to, the invariant holds, whatever the number of threads and calls. *)
THEOREM Invariance == Spec => []IInv
<1> QED
  BY Initially, Inductive, PTL DEF Spec

(* Every variable of the launcher's lifecycle keeps its type. *)
THEOREM TypeCorrect == Spec => []TypeOK
<1>1. IInv => TypeOK
  BY DEF IInv
<1> QED
  BY <1>1, Invariance, PTL

(* However starts, stops, exits and watchers overlap, a child process that *)
(* runs is in charge or about to be ended, or a crash has left it behind. *)
THEOREM NoneForgotten == Spec => []NoChildForgotten
<1>1. IInv => NoChildForgotten
  BY DEF IInv
<1> QED
  BY <1>1, Invariance, PTL

(* The child that start_proxy spawns reads the configuration written for it, or *)
(* finds none: never the one of an earlier or of a later start. *)
THEOREM OwnConfig == Spec => []RunsItsConfig
<1>1. IInv => RunsItsConfig
  BY DEF IInv
<1> QED
  BY <1>1, Invariance, PTL

-----------------------------------------------------------------------------
(* The refinement *)

(* A step of the lifecycle is a step of the children's supervisor or stutters. *)
LEMMA ChildStep ==
  ASSUME IInv, [Next]_vars
  PROVE  Children!Next \/ UNCHANGED ChildStatus
<1>0. TypeOK
  BY DEF IInv
<1>1. CASE UNCHANGED <<child, registered, orphans>>
  BY <1>1 DEF ChildStatus
<1>2. ASSUME NEW t \in Ops, Spawn(t) PROVE Children!Next
  <2> DEFINE n == born + 1
  <2>1. /\ n \in Starts /\ registered' = n /\ orphans' = orphans
        /\ child' = [child EXCEPT ![n] = "starting"]
    BY <1>0, <1>2, LifecycleConfig DEF Spawn, IInv, Ready, TypeOK, Starts, world
  <2>2. child[n] = "unborn" /\ n \notin orphans /\ ~Alive(registered)
    BY <1>0, <1>2, <2>1 DEF IInv, Numbered, FreshStart, TypeOK, Spawn, Starts
  <2>3. ChildStatus[n] = "new" /\ ChildStatus'[n] = "running"
    BY <1>0, <2>1, <2>2 DEF ChildStatus, TypeOK
  <2>4. \A m \in Starts : ChildStatus[m] # "running"
    BY <1>0, <2>2 DEF ChildStatus, TypeOK, Alive, Starts
  <2>5. \A m \in Starts : m # n => ChildStatus'[m] = ChildStatus[m]
    BY <1>0, <2>1, <2>4 DEF ChildStatus, TypeOK
  <2>6. ChildStatus' = [ChildStatus EXCEPT ![n] = "running"]
    BY <2>1, <2>3, <2>5 DEF ChildStatus
  <2> QED
    BY <2>1, <2>3, <2>4, <2>6 DEF Children!Next, Children!Launch
<1>3. ASSUME NEW n \in Starts, child[n] # "unborn", UNCHANGED <<registered, orphans>>,
             child' = [child EXCEPT ![n] = "dead"]
      PROVE  Children!Next \/ UNCHANGED ChildStatus
  <2>1. \A m \in Starts : m # n => ChildStatus'[m] = ChildStatus[m]
    BY <1>0, <1>3 DEF ChildStatus, TypeOK
  <2>2. ChildStatus'[n] = "gone"
    BY <1>0, <1>3 DEF ChildStatus, TypeOK
  <2>3. ChildStatus[n] \in {"running", "retired", "lost", "gone"}
    BY <1>3 DEF ChildStatus
  <2>4. ChildStatus' = [ChildStatus EXCEPT ![n] = "gone"]
    BY <2>1, <2>2 DEF ChildStatus
  <2>5. CASE ChildStatus[n] = "gone"
    BY <2>1, <2>2, <2>5 DEF ChildStatus
  <2>6. CASE ChildStatus[n] # "gone"
    BY <2>3, <2>4, <2>6 DEF Children!Next, Children!End
  <2> QED
    BY <2>5, <2>6
<1>4. ASSUME UNCHANGED <<child, orphans>>, registered' = 0
      PROVE  Children!Next \/ UNCHANGED ChildStatus
  <2>1. \A m \in Starts : m # registered => ChildStatus'[m] = ChildStatus[m]
    BY <1>0, <1>4 DEF ChildStatus, TypeOK, Starts
  <2>2. CASE registered \in Starts /\ ChildStatus[registered] = "running"
    <3>1. ChildStatus'[registered] = "retired"
      BY <1>4, <2>2 DEF ChildStatus, Starts
    <3>2. ChildStatus' = [ChildStatus EXCEPT ![registered] = "retired"]
      BY <2>1, <3>1 DEF ChildStatus
    <3> QED
      BY <2>2, <3>2 DEF Children!Next, Children!Retire
  <2>3. CASE ~(registered \in Starts /\ ChildStatus[registered] = "running")
    <3>1. \A m \in Starts : ChildStatus'[m] = ChildStatus[m]
      BY <1>4, <2>1, <2>3 DEF ChildStatus
    <3> QED
      BY <3>1 DEF ChildStatus
  <2> QED
    BY <2>2, <2>3
<1>5. ASSUME Crash PROVE Children!Next
  <2>1. /\ child' = child /\ registered' = 0
        /\ orphans' = orphans \cup {n \in Starts : Alive(n)}
    BY <1>5 DEF Crash, kids
  <2>2. \A n \in Starts :
          ChildStatus'[n] = IF ChildStatus[n] \in {"running", "retired"} THEN "lost"
                            ELSE ChildStatus[n]
    BY <1>0, <2>1 DEF ChildStatus, Alive, TypeOK, Starts
  <2>3. ChildStatus' = [n \in Starts |->
                          IF ChildStatus[n] \in {"running", "retired"} THEN "lost"
                          ELSE ChildStatus[n]]
    BY <2>2 DEF ChildStatus
  <2> QED
    BY <2>3 DEF Children!Next, Children!Abandon
<1>6. ASSUME NEW t \in Ops, Start(t) PROVE Children!Next \/ UNCHANGED ChildStatus
  <2>1. CASE ServeFails(t)
    <3>1. CASE registered = 0
      BY <1>0, <1>1, <2>1, <3>1 DEF ServeFails, globals, world, TypeOK, Starts
    <3>2. CASE registered # 0
      <4>1. registered \in Starts /\ child[registered] # "unborn"
        BY <1>0, <3>2, LifecycleConfig DEF TypeOK, IInv, Numbered, Starts
      <4> QED
        BY <1>3, <2>1, <4>1 DEF ServeFails, globals, world
    <3> QED
      BY <3>1, <3>2
  <2>2. CASE Rollback(t)
    BY <1>4, <2>2 DEF Rollback, kids, world
  <2>3. CASE StartBegin(t) \/ Select(t) \/ PreflightFails(t) \/ Unmanaged(t) \/ Settle(t)
               \/ SaveFails(t)
    BY <1>1, <2>3 DEF StartBegin, Select, PreflightFails, Unmanaged, Settle, SaveFails,
       globals, kids, world
  <2>4. CASE Write(t) \/ WriteFails(t) \/ SpawnFails(t) \/ Serve(t) \/ Await(t)
    BY <1>1, <2>4 DEF Write, WriteFails, SpawnFails, Serve, Await, globals, kids, world
  <2> QED
    BY <1>2, <1>6, <2>1, <2>2, <2>3, <2>4 DEF Start
<1>7. ASSUME NEW t \in Ops, Stop(t) PROVE Children!Next \/ UNCHANGED ChildStatus
  <2>1. CASE Take(t)
    BY <1>1, <1>4, <2>1 DEF Take, kids, world
  <2>2. CASE EndChild(t)
    <3>1. CASE frame[t].proc \in Starts /\ Alive(frame[t].proc)
      <4>1. /\ child' = [child EXCEPT ![frame[t].proc] = "dead"]
            /\ child[frame[t].proc] # "unborn"
        BY <1>0, <2>2, <3>1 DEF EndChild, Alive, TypeOK
      <4> QED
        BY <1>3, <2>2, <3>1, <4>1 DEF EndChild, globals, world
    <3>2. CASE ~(frame[t].proc \in Starts /\ Alive(frame[t].proc))
      <4>1. child' = child
        BY <1>0, <2>2, <3>2 DEF EndChild, TypeOK
      <4> QED
        BY <1>1, <2>2, <4>1 DEF EndChild, globals, world
    <3> QED
      BY <3>1, <3>2
  <2>3. CASE StopProbe(t) \/ NothingToStop(t) \/ Ungate(t) \/ Close(t) \/ StopUnlink(t)
    BY <1>1, <2>3 DEF StopProbe, NothingToStop, Ungate, Close, StopUnlink, globals, kids, world
  <2> QED
    BY <1>7, <2>1, <2>2, <2>3 DEF Stop
<1>8. ASSUME NEW t \in Ops, Call(t) \/ Clean(t) PROVE Children!Next \/ UNCHANGED ChildStatus
  <2>1. CASE Call(t)
    BY <1>1, <2>1 DEF Call, globals, kids
  <2>2. CASE CleanCheck(t) \/ Sweep(t)
    BY <1>1, <2>2 DEF CleanCheck, Sweep, globals, kids, world
  <2> QED
    BY <1>8, <2>1, <2>2 DEF Clean
<1>9. ASSUME NEW n \in Starts, ChildBoots(n) \/ ChildExits(n)
      PROVE  Children!Next \/ UNCHANGED ChildStatus
  <2>1. CASE child' = [child EXCEPT ![n] = "dead"]
    BY <1>3, <1>9, <2>1 DEF ChildBoots, ChildExits, Alive, globals, world
  <2>2. CASE ChildBoots(n) /\ child' = [child EXCEPT ![n] = "up"]
    BY <1>0, <2>2 DEF ChildBoots, ChildStatus, globals, world, TypeOK
  <2> QED
    BY <1>9, <2>1, <2>2 DEF ChildBoots, ChildExits
<1>10. ASSUME NEW n \in Starts, Watch(n) PROVE Children!Next \/ UNCHANGED ChildStatus
  BY <1>1, <1>4, <1>10 DEF Watch, WatchUnlink, WatchClear, globals, kids
<1>11. CASE MainSweeps
  BY <1>1, <1>11 DEF MainSweeps, globals, kids
<1>12. CASE UNCHANGED vars
  BY <1>1, <1>12 DEF vars
<1> QED
  BY <1>5, <1>6, <1>7, <1>8, <1>9, <1>10, <1>11, <1>12 DEF Next, Work

(* The launcher's children are supervised as Supervisor says, for any number *)
(* of threads, calls and crashes: a start never runs beside the child of *)
(* another one that is in charge, and what is ended does not come back. *)
THEOREM SupervisesChildren == Spec => ChildrenSupervised
<1>1. Init => Children!Init
  BY DEF Init, Children!Init, ChildStatus
<1> QED
  BY <1>1, ChildStep, Invariance, PTL DEF Spec, ChildrenSupervised, Children!Spec

(* A step of the lifecycle is a step of the gateways' supervisor or stutters. *)
LEMMA GatewayStep ==
  ASSUME IInv, [Next]_vars
  PROVE  Gateways!Next \/ UNCHANGED GatewayStatus
<1>0. TypeOK
  BY DEF IInv
<1>1. CASE UNCHANGED <<server, open, served>>
  BY <1>1 DEF GatewayStatus
<1>2. ASSUME NEW t \in Ops, Serve(t) PROVE Gateways!Next
  <2>1. /\ server' = born /\ open' = open \cup {born} /\ served' = served \cup {born}
        /\ server = 0 /\ born \in Starts /\ born \notin served
    BY <1>2 DEF Serve, IInv, LockedPart, Serving, Inside
  <2>2. GatewayStatus[born] = "new" /\ GatewayStatus'[born] = "running"
    BY <2>1 DEF GatewayStatus
  <2>3. \A m \in Starts : GatewayStatus[m] # "running"
    BY <2>1 DEF GatewayStatus, Starts
  <2>4. \A m \in Starts : m # born => GatewayStatus'[m] = GatewayStatus[m]
    BY <2>1, <2>3 DEF GatewayStatus
  <2>5. GatewayStatus' = [GatewayStatus EXCEPT ![born] = "running"]
    BY <2>1, <2>2, <2>4 DEF GatewayStatus
  <2> QED
    BY <2>1, <2>2, <2>3, <2>5 DEF Gateways!Next, Gateways!Launch
<1>3. ASSUME NEW t \in Ops, Ungate(t) PROVE Gateways!Next \/ UNCHANGED GatewayStatus
  <2>1. server' = 0 /\ UNCHANGED <<open, served>>
    BY <1>3 DEF Ungate, world
  <2>2. \A m \in Starts : m # server => GatewayStatus'[m] = GatewayStatus[m]
    BY <2>1 DEF GatewayStatus, Starts
  <2>3. CASE server \in Starts /\ GatewayStatus[server] = "running"
    <3>1. GatewayStatus'[server] = "retired"
      BY <2>1, <2>3 DEF GatewayStatus, Starts
    <3>2. GatewayStatus' = [GatewayStatus EXCEPT ![server] = "retired"]
      BY <2>2, <3>1 DEF GatewayStatus
    <3> QED
      BY <2>3, <3>2 DEF Gateways!Next, Gateways!Retire
  <2>4. CASE ~(server \in Starts /\ GatewayStatus[server] = "running")
    <3>1. \A m \in Starts : GatewayStatus'[m] = GatewayStatus[m]
      BY <2>1, <2>2, <2>4 DEF GatewayStatus
    <3> QED
      BY <3>1 DEF GatewayStatus
  <2> QED
    BY <2>3, <2>4
<1>4. ASSUME NEW t \in Ops, Close(t) PROVE Gateways!Next \/ UNCHANGED GatewayStatus
  <2> DEFINE n == frame[t].srv
  <2>1. open' = open \ {n} /\ UNCHANGED <<server, served>>
    BY <1>4 DEF Close, globals
  <2>2. \A m \in Starts : m # n => GatewayStatus'[m] = GatewayStatus[m]
    BY <2>1 DEF GatewayStatus
  <2>3. CASE n \in Starts /\ GatewayStatus[n] \in {"running", "retired"}
    <3>1. GatewayStatus'[n] = "gone"
      BY <2>1, <2>3 DEF GatewayStatus
    <3>2. GatewayStatus' = [GatewayStatus EXCEPT ![n] = "gone"]
      BY <2>2, <3>1 DEF GatewayStatus
    <3> QED
      BY <2>3, <3>2 DEF Gateways!Next, Gateways!End
  <2>4. CASE ~(n \in Starts /\ GatewayStatus[n] \in {"running", "retired"})
    <3>1. \A m \in Starts : GatewayStatus'[m] = GatewayStatus[m]
      BY <2>1, <2>2, <2>4 DEF GatewayStatus
    <3> QED
      BY <3>1 DEF GatewayStatus
  <2> QED
    BY <2>3, <2>4
<1>5. ASSUME Crash PROVE Gateways!Next
  <2>1. server' = 0 /\ open' = {} /\ served' = served
    BY <1>5 DEF Crash
  <2>2. GatewayStatus' = [n \in Starts |->
                            IF GatewayStatus[n] \in {"running", "retired"} THEN "gone"
                            ELSE GatewayStatus[n]]
    BY <2>1 DEF GatewayStatus
  <2> QED
    BY <2>2 DEF Gateways!Next, Gateways!Abandon
<1>6. ASSUME NEW t \in Ops, Start(t) PROVE Gateways!Next \/ UNCHANGED GatewayStatus
  <2>1. CASE StartBegin(t) \/ Select(t) \/ PreflightFails(t) \/ Unmanaged(t) \/ Settle(t)
               \/ SaveFails(t) \/ Write(t)
    BY <1>1, <2>1 DEF StartBegin, Select, PreflightFails, Unmanaged, Settle, SaveFails, Write,
       globals, world
  <2>2. CASE WriteFails(t) \/ Spawn(t) \/ SpawnFails(t) \/ ServeFails(t) \/ Rollback(t)
               \/ Await(t)
    BY <1>1, <2>2
      DEF WriteFails, Spawn, SpawnFails, ServeFails, Rollback, Await, globals, world
  <2> QED
    BY <1>2, <1>6, <2>1, <2>2 DEF Start
<1>7. ASSUME NEW t \in Ops, Stop(t) PROVE Gateways!Next \/ UNCHANGED GatewayStatus
  <2>1. CASE StopProbe(t) \/ Take(t) \/ NothingToStop(t) \/ EndChild(t) \/ StopUnlink(t)
    BY <1>1, <2>1 DEF StopProbe, Take, NothingToStop, EndChild, StopUnlink, globals, world
  <2> QED
    BY <1>3, <1>4, <1>7, <2>1 DEF Stop
<1>8. ASSUME NEW t \in Ops, Call(t) \/ Clean(t) PROVE Gateways!Next \/ UNCHANGED GatewayStatus
  <2>1. CASE Call(t)
    BY <1>1, <2>1 DEF Call, globals
  <2>2. CASE CleanCheck(t) \/ Sweep(t)
    BY <1>1, <2>2 DEF CleanCheck, Sweep, globals, world
  <2> QED
    BY <1>8, <2>1, <2>2 DEF Clean
<1>9. ASSUME NEW n \in Starts, ChildBoots(n) \/ ChildExits(n) \/ Watch(n)
      PROVE  Gateways!Next \/ UNCHANGED GatewayStatus
  BY <1>1, <1>9 DEF ChildBoots, ChildExits, Watch, WatchUnlink, WatchClear, globals, world
<1>10. CASE MainSweeps \/ UNCHANGED vars
  BY <1>1, <1>10 DEF MainSweeps, globals, vars
<1> QED
  BY <1>5, <1>6, <1>7, <1>8, <1>9, <1>10 DEF Next, Work

(* So are its gateways: none is opened while another one is in charge, and *)
(* one that is closed stays closed. *)
THEOREM SupervisesGateways == Spec => GatewaysSupervised
<1>1. Init => Gateways!Init
  BY DEF Init, Gateways!Init, GatewayStatus
<1> QED
  BY <1>1, GatewayStep, Invariance, PTL DEF Spec, GatewaysSupervised, Gateways!Spec
=============================================================================
