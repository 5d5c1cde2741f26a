------------------------------ MODULE Lifecycle ------------------------------
(***************************************************************************)
(* The lifecycle of the proxy: start_proxy, stop_proxy, restart_proxy and  *)
(* secure_cleanup_outputs, each run by a thread of the panel's server, the *)
(* watcher thread of each child process, start_gateway and stop_gateway,   *)
(* and the start-up of the launcher after it crashed.                      *)
(*                                                                         *)
(* The n-th start that reaches its child process is start n: its child,    *)
(* its gateway and the configuration it writes have that number.  A thread *)
(* holds _lock from "select" until it leaves start_proxy's locked part;    *)
(* what has no lock in the code (watcher and clean-up unlinking the file,  *)
(* stop_proxy waiting for the child, the child itself) interleaves.        *)
(***************************************************************************)
EXTENDS Naturals, FiniteSets

CONSTANTS
    Ops,             \* threads of the panel that run an operation
    NoOp,            \* nobody holds _lock
    MaxOps,          \* bound on the operations and the launcher's crashes
    GatewayModes,    \* the values gateway_enabled or cache_enabled may have
    Foreign          \* what another program does with port 1: none, busy, proxy

ASSUME LifecycleConfig ==
    /\ NoOp \notin Ops
    /\ MaxOps \in Nat
    /\ GatewayModes \subseteq BOOLEAN
    /\ Foreign \in {"none", "busy", "proxy"}

Starts == 1 .. MaxOps
Ports == 1 .. MaxOps + 1

VARIABLES
    pc,          \* where each thread is
    op,          \* what it runs
    frame,       \* its locals
    lock,        \* the thread that holds _lock
    registered,  \* proxy_process, 0 when None
    pathSet,     \* proxy_config_path is not None
    file,        \* the start whose configuration is on disk, 0 for no file
    server,      \* gateway_server, 0 when None
    open,        \* the gateways whose socket listens
    child,       \* the child process of each start
    readCfg,     \* the start whose configuration it read
    made,        \* the external port of each start, and whether it has a gateway
    watcher,     \* _watch_process_cleanup of each child
    port,        \* proxy_port in the settings
    born,        \* how many children were started
    calls,       \* how many operations were called, a crash counting as one
    booting,     \* main() has not cleaned up yet
    orphans,     \* history: children left behind by a crash
    served       \* history: the gateways that ever listened

vars == <<pc, op, frame, lock, registered, pathSet, file, server, open, child,
          readCfg, made, watcher, port, born, calls, booting, orphans, served>>

(* The groups of variables an action leaves alone. *)
globals == <<registered, pathSet, server>>
kids == <<child, readCfg, made, born>>
world == <<open, watcher, port, calls, booting, orphans, served>>

Kinds == {"start", "stop", "restart", "clean"}

Frame0 == [gw |-> FALSE, port |-> 1, ext |-> FALSE,
           proc |-> 0, cfg |-> FALSE, srv |-> 0]

Init ==
    /\ pc = [t \in Ops |-> "idle"]
    /\ op = [t \in Ops |-> "start"]
    /\ frame = [t \in Ops |-> Frame0]
    /\ lock = NoOp
    /\ registered = 0 /\ pathSet = FALSE /\ server = 0
    /\ file = 0
    /\ open = {}
    /\ child = [n \in Starts |-> "unborn"]
    /\ readCfg = [n \in Starts |-> 0]
    /\ made = [n \in Starts |-> [port |-> 1, gw |-> FALSE]]
    /\ watcher = [n \in Starts |-> "none"]
    /\ port = 1
    /\ born = 0 /\ calls = 0
    /\ booting = FALSE
    /\ orphans = {} /\ served = {}

-----------------------------------------------------------------------------
(* Processes and ports *)

Alive(n) == n # 0 /\ child[n] \in {"starting", "up"}

(* A gateway answers a probe with what its child answers. *)
Reachable(p) ==
    \/ Foreign = "proxy" /\ p = 1
    \/ \E n \in Starts : /\ made[n].port = p /\ child[n] = "up"
                         /\ made[n].gw => n \in open

(* _proxy_reachable gives up after 0.6 s, whatever listens there. *)
Probe(p) == {FALSE, Reachable(p)}

Busy(p) ==
    \/ Foreign # "none" /\ p = 1
    \/ \E n \in Starts : /\ made[n].port = p
                         /\ IF made[n].gw THEN n \in open ELSE child[n] = "up"

(* A faulty variant: that no port was found is not noticed. *)
NoneSelected(reached) == IF reached \/ ~Busy(port) THEN {port} ELSE {0}

(* _select_proxy_port: the configured port if something answers there or if  *)
(* it is free, else the next one or, if that is not free, one that is.       *)
Selected(reached) ==
    IF reached \/ ~Busy(port) THEN {port}
    ELSE IF port + 1 \in Ports /\ ~Busy(port + 1) THEN {port + 1}
    ELSE {p \in Ports : ~Busy(p)}

-----------------------------------------------------------------------------
(* start_proxy *)

Goto(t, label) == pc' = [pc EXCEPT ![t] = label] /\ UNCHANGED <<op, frame>>

GotoWith(t, label, f) ==
    /\ pc' = [pc EXCEPT ![t] = label]
    /\ frame' = [frame EXCEPT ![t] = f]
    /\ UNCHANGED op

(* The operation answers, its locals go. *)
Return(t) ==
    /\ pc' = [pc EXCEPT ![t] = "idle"]
    /\ op' = [op EXCEPT ![t] = "start"]
    /\ frame' = [frame EXCEPT ![t] = Frame0]

Call(t) ==
    /\ pc[t] = "idle" /\ ~booting
    /\ calls < MaxOps
    /\ calls' = calls + 1
    /\ \E kind \in Kinds :
         /\ op' = [op EXCEPT ![t] = kind]
         /\ pc' = [pc EXCEPT ![t] = IF kind = "restart" THEN "stop" ELSE kind]
    /\ UNCHANGED <<frame, lock, globals, file, kids, open, watcher, port, booting, orphans, served>>

(* A faulty variant: the process is not polled. *)
TakenForDead == server = 0

(* A faulty variant: a gateway whose child is gone is not looked for. *)
GatewayIgnored == ~Alive(registered)

Startable == ~Alive(registered) /\ server = 0

(* Under _lock from here on, unless something runs: then the answer is       *)
(* already_running.                                                          *)
StartBegin(t) ==
    /\ pc[t] = "start" /\ lock = NoOp
    /\ IF Startable THEN Goto(t, "select") /\ lock' = t
                    ELSE Return(t) /\ UNCHANGED lock
    /\ UNCHANGED <<globals, file, kids, world>>

(* An early return or an exception leaves the `with _lock` block. *)
LeaveStart(t) ==
    /\ Return(t)
    /\ lock' = NoOp

(* load_settings, preflight, and the port of this start. *)
Select(t) ==
    /\ pc[t] = "select"
    /\ \E reached \in Probe(port), gw \in GatewayModes :
         \E p \in Selected(reached) :
            GotoWith(t, "probe", [Frame0 EXCEPT !.port = p, !.gw = gw])
    /\ UNCHANGED <<lock, globals, file, kids, world>>

PreflightFails(t) ==
    /\ pc[t] = "select"
    /\ LeaveStart(t)
    /\ UNCHANGED <<globals, file, kids, world>>

(* Something answers on that port: not ours to start. *)
Unmanaged(t) ==
    /\ pc[t] = "probe" /\ TRUE \in Probe(frame[t].port)
    /\ LeaveStart(t)
    /\ UNCHANGED <<globals, file, kids, world>>

(* The port is saved when it is another one; with a gateway the cache is     *)
(* cleared and the gate reset (GatewayCache!Clear, RateGate!Reset).          *)
Settle(t) ==
    /\ pc[t] = "probe" /\ FALSE \in Probe(frame[t].port)
    /\ port' = frame[t].port
    /\ pathSet' = TRUE
    /\ Goto(t, "write")
    /\ UNCHANGED <<lock, registered, server, file, kids,
                   open, watcher, calls, booting, orphans, served>>

SaveFails(t) ==
    /\ pc[t] = "probe" /\ port # frame[t].port
    /\ LeaveStart(t)
    /\ UNCHANGED <<globals, file, kids, world>>

(* generate_proxy_config *)
Write(t) ==
    /\ pc[t] = "write" /\ born < MaxOps
    /\ file' = born + 1
    /\ Goto(t, "spawn")
    /\ UNCHANGED <<lock, globals, kids, world>>

WriteFails(t) ==
    /\ pc[t] = "write" /\ born < MaxOps
    /\ file' \in {file, born + 1}
    /\ LeaveStart(t)
    /\ UNCHANGED <<globals, kids, world>>

(* Popen, and the watcher thread; without a gateway the lock is given back. *)
Spawn(t) ==
    /\ pc[t] = "spawn"
    /\ LET n == born + 1 IN
         /\ born' = n
         /\ registered' = n
         /\ child' = [child EXCEPT ![n] = "starting"]
         /\ made' = [made EXCEPT ![n] = [port |-> frame[t].port, gw |-> frame[t].gw]]
         /\ watcher' = [watcher EXCEPT ![n] = "waiting"]
    /\ IF frame[t].gw THEN Goto(t, "serve") /\ UNCHANGED lock
                      ELSE Goto(t, "await") /\ lock' = NoOp
    /\ UNCHANGED <<pathSet, server, file, readCfg,
                   open, port, calls, booting, orphans, served>>

(* Popen raises: the file stays. *)
SpawnFails(t) ==
    /\ pc[t] = "spawn"
    /\ LeaveStart(t)
    /\ UNCHANGED <<globals, file, kids, world>>

(* start_gateway, called with the lock held. *)
Serve(t) ==
    /\ pc[t] = "serve" /\ ~Busy(frame[t].port)
    /\ server' = born
    /\ open' = open \cup {born}
    /\ served' = served \cup {born}
    /\ Goto(t, "await")
    /\ lock' = NoOp
    /\ UNCHANGED <<registered, pathSet, file, kids,
                   watcher, port, calls, booting, orphans>>

(* The gateway cannot bind: the child is terminated, then forgotten. *)
ServeFails(t) ==
    /\ pc[t] = "serve"
    /\ child' = [child EXCEPT ![registered] = "dead"]
    /\ Goto(t, "rollback")
    /\ UNCHANGED <<lock, globals, file, readCfg, made, born, world>>

Rollback(t) ==
    /\ pc[t] = "rollback"
    /\ registered' = 0 /\ pathSet' = FALSE /\ file' = 0
    /\ LeaveStart(t)
    /\ UNCHANGED <<server, kids, world>>

(* The polls outside the lock end with a reachable proxy, the exit of the    *)
(* registered child, or after 20 s and the time for the models.              *)
Await(t) ==
    /\ pc[t] = "await"
    /\ Return(t)
    /\ UNCHANGED <<lock, globals, file, kids, world>>

-----------------------------------------------------------------------------
(* stop_proxy, restart_proxy *)

StopProbe(t) ==
    /\ pc[t] = "stop"
    /\ \E reached \in Probe(port) : GotoWith(t, "take", [Frame0 EXCEPT !.ext = reached])
    /\ UNCHANGED <<lock, globals, file, kids, world>>

(* A stop that is done answers, or is the first half of a restart. *)
StopDone(t) == IF op[t] = "restart" THEN GotoWith(t, "start", Frame0) ELSE Return(t)

(* What runs is taken over, to be ended outside the lock. *)
Take(t) ==
    /\ pc[t] = "take" /\ lock = NoOp
    /\ Alive(registered) \/ server # 0
    /\ GotoWith(t, IF server # 0 THEN "ungate" ELSE "end",
                [Frame0 EXCEPT !.proc = IF Alive(registered) THEN registered ELSE 0,
                               !.cfg = pathSet])
    /\ registered' = IF Alive(registered) THEN 0 ELSE registered
    /\ pathSet' = FALSE
    /\ UNCHANGED <<lock, server, file, kids, world>>

(* Nothing runs: what is left of the configuration is removed under the     *)
(* lock.  A restart gives up when another program answered on the port.     *)
NothingToStop(t) ==
    /\ pc[t] = "take" /\ lock = NoOp
    /\ ~Alive(registered) /\ server = 0
    /\ pathSet' = FALSE
    /\ file' = IF pathSet THEN 0 ELSE file
    /\ IF frame[t].ext THEN Return(t) ELSE StopDone(t)
    /\ UNCHANGED <<lock, registered, server, kids, world>>

(* stop_gateway: the reference goes under the lock, the socket after it,     *)
(* and stop_proxy clears the cache (GatewayCache!Clear).                     *)
Ungate(t) ==
    /\ pc[t] = "ungate" /\ lock = NoOp
    /\ GotoWith(t, "close", [frame[t] EXCEPT !.srv = server])
    /\ server' = 0
    /\ UNCHANGED <<lock, registered, pathSet, file, kids, world>>

Close(t) ==
    /\ pc[t] = "close"
    /\ open' = open \ {frame[t].srv}
    /\ Goto(t, "end")
    /\ UNCHANGED <<lock, globals, file, kids,
                   watcher, port, calls, booting, orphans, served>>

(* terminate, wait 3 s, kill *)
EndChild(t) ==
    /\ pc[t] = "end"
    /\ child' = [n \in Starts |->
                   IF n = frame[t].proc /\ Alive(n) THEN "dead" ELSE child[n]]
    /\ Goto(t, "unlink")
    /\ UNCHANGED <<lock, globals, file, readCfg, made, born, world>>

StopUnlink(t) ==
    /\ pc[t] = "unlink"
    /\ file' = IF frame[t].cfg THEN 0 ELSE file
    /\ StopDone(t)
    /\ UNCHANGED <<lock, globals, kids, world>>

-----------------------------------------------------------------------------
(* secure_cleanup_outputs: two checks without a lock, then the removal *)

CleanCheck(t) ==
    /\ pc[t] = "clean"
    /\ \E reached \in Probe(port) :
         IF Alive(registered) \/ reached \/ file = 0 THEN Return(t) ELSE Goto(t, "sweep")
    /\ UNCHANGED <<lock, globals, file, kids, world>>

Sweep(t) ==
    /\ pc[t] = "sweep"
    /\ file' = 0
    /\ Return(t)
    /\ UNCHANGED <<lock, globals, kids, world>>

-----------------------------------------------------------------------------
(* The child process and its watcher *)

(* CLIProxyAPI reads its configuration once; without one it exits. *)
ChildBoots(n) ==
    /\ child[n] = "starting"
    /\ child' = [child EXCEPT ![n] = IF file = 0 THEN "dead" ELSE "up"]
    /\ readCfg' = [readCfg EXCEPT ![n] = file]
    /\ UNCHANGED <<pc, op, frame, lock, globals, file, made, born, world>>

ChildExits(n) ==
    /\ Alive(n)
    /\ child' = [child EXCEPT ![n] = "dead"]
    /\ UNCHANGED <<pc, op, frame, lock, globals, file, readCfg, made, born, world>>

(* A faulty variant: the watcher only logs the exit. *)
LoggedOnly == file

WatcherLeaves == 0

(* The file goes by its path, whoever wrote it. *)
WatchUnlink(n) ==
    /\ watcher[n] = "waiting" /\ child[n] = "dead"
    /\ file' = WatcherLeaves
    /\ watcher' = [watcher EXCEPT ![n] = "clear"]
    /\ UNCHANGED <<pc, op, frame, lock, globals, kids,
                   open, port, calls, booting, orphans, served>>

(* A faulty variant: whatever is in charge is taken for the one that ended. *)
TakenForItsOwn(n) == registered # 0

InCharge(n) == registered = n

WatchClear(n) ==
    /\ watcher[n] = "clear" /\ lock = NoOp
    /\ IF InCharge(n) THEN registered' = 0 /\ pathSet' = FALSE
                      ELSE UNCHANGED <<registered, pathSet>>
    /\ watcher' = [watcher EXCEPT ![n] = "done"]
    /\ UNCHANGED <<pc, op, frame, lock, server, file, kids,
                   open, port, calls, booting, orphans, served>>

-----------------------------------------------------------------------------
(* The launcher *)

(* Every thread and every socket of the launcher goes, its children stay. *)
Crash ==
    /\ calls < MaxOps
    /\ calls' = calls + 1
    /\ pc' = [t \in Ops |-> "idle"]
    /\ op' = [t \in Ops |-> "start"]
    /\ frame' = [t \in Ops |-> Frame0]
    /\ lock' = NoOp
    /\ registered' = 0 /\ pathSet' = FALSE /\ server' = 0
    /\ open' = {}
    /\ watcher' = [n \in Starts |-> "none"]
    /\ booting' = TRUE
    /\ orphans' = orphans \cup {n \in Starts : Alive(n)}
    /\ UNCHANGED <<file, kids, port, served>>

(* main() removes a configuration left behind unless a proxy answers. *)
MainSweeps ==
    /\ booting
    /\ \E reached \in Probe(port) : file' = IF reached THEN file ELSE 0
    /\ booting' = FALSE
    /\ UNCHANGED <<pc, op, frame, lock, globals, kids,
                   open, watcher, port, calls, orphans, served>>

Start(t) ==
    \/ StartBegin(t) \/ Select(t) \/ PreflightFails(t) \/ Unmanaged(t) \/ Settle(t)
    \/ SaveFails(t) \/ Write(t) \/ WriteFails(t) \/ Spawn(t) \/ SpawnFails(t)
    \/ Serve(t) \/ ServeFails(t) \/ Rollback(t) \/ Await(t)

Stop(t) ==
    \/ StopProbe(t) \/ Take(t) \/ NothingToStop(t) \/ Ungate(t) \/ Close(t)
    \/ EndChild(t) \/ StopUnlink(t)

Clean(t) == CleanCheck(t) \/ Sweep(t)

Work(t) == Start(t) \/ Stop(t) \/ Clean(t)

Watch(n) == WatchUnlink(n) \/ WatchClear(n)

Next ==
    \/ \E t \in Ops : Call(t) \/ Work(t)
    \/ \E n \in Starts : ChildBoots(n) \/ ChildExits(n) \/ Watch(n)
    \/ Crash
    \/ MainSweeps

Spec == Init /\ [][Next]_vars

(* Some thread that can take a step takes one: the operations and the steps  *)
(* of each being few, that is fairness to each thread, also to those that    *)
(* wait for _lock.  Nothing is assumed of calls, children or crashes.        *)
Threads == (\E t \in Ops : Work(t)) \/ (\E n \in Starts : Watch(n)) \/ MainSweeps

FairSpec == Spec /\ WF_vars(Threads)

-----------------------------------------------------------------------------
(* Properties *)

FrameType ==
    [gw : BOOLEAN, port : Ports, ext : BOOLEAN,
     proc : {0} \cup Starts, cfg : BOOLEAN, srv : {0} \cup Starts]

Labels == {"idle", "start", "select", "probe", "write", "spawn", "serve", "rollback",
           "await", "stop", "take", "ungate", "close", "end", "unlink", "clean", "sweep"}

(* Every variable has its type. *)
TypeOK ==
    /\ pc \in [Ops -> Labels]
    /\ op \in [Ops -> Kinds]
    /\ frame \in [Ops -> FrameType]
    /\ lock \in Ops \cup {NoOp}
    /\ {registered, file, server} \subseteq {0} \cup Starts
    /\ {pathSet, booting} \subseteq BOOLEAN
    /\ {open, orphans, served} \subseteq SUBSET Starts
    /\ child \in [Starts -> {"unborn", "starting", "up", "dead"}]
    /\ readCfg \in [Starts -> {0} \cup Starts]
    /\ made \in [Starts -> [port : Ports, gw : BOOLEAN]]
    /\ watcher \in [Starts -> {"none", "waiting", "clear", "done"}]
    /\ port \in Ports
    /\ {born, calls} \subseteq 0 .. MaxOps

(* A stop that has taken a child over and has yet to end it is at one of     *)
(* these.                                                                    *)
Ending == {"ungate", "close", "end"}

(* A child process that runs is in charge, or some stop is about to end it,  *)
(* or a crash of the launcher has left it behind: no start puts another one  *)
(* in its place, no watcher forgets it for one that exited, and no start     *)
(* that fails gives it up.                                                   *)
NoChildForgotten ==
    \A n \in Starts : Alive(n) =>
        \/ registered = n
        \/ n \in orphans
        \/ \E t \in Ops : pc[t] \in Ending /\ frame[t].proc = n

(* The child the launcher answers for has read the configuration of its own  *)
(* start, not that of a start before or after it.                            *)
RunsItsConfig ==
    \A n \in Starts : registered = n /\ child[n] = "up" => readCfg[n] = n

(* The child a start registered still finds its configuration when it reads  *)
(* it ("waits for the child to end, then removes its configuration").        *)
ConfigOutlivesReader ==
    \A n \in Starts : registered = n /\ child[n] = "starting" => file = n

(* The two refinement mappings: a child is in charge while it is registered, *)
(* a gateway while gateway_server refers to it.                              *)
ChildStatus ==
    [n \in Starts |->
        IF child[n] = "unborn" THEN "new"
        ELSE IF child[n] = "dead" THEN "gone"
        ELSE IF n \in orphans THEN "lost"
        ELSE IF registered = n THEN "running" ELSE "retired"]

Children == INSTANCE Supervisor WITH Things <- Starts, status <- ChildStatus

GatewayStatus ==
    [n \in Starts |->
        IF n \notin served THEN "new"
        ELSE IF n \notin open THEN "gone"
        ELSE IF server = n THEN "running" ELSE "retired"]

Gateways == INSTANCE Supervisor WITH Things <- Starts, status <- GatewayStatus

(* The children are supervised: one is in charge at a time, and a stop that  *)
(* drops its reference under the lock does end it.                           *)
ChildrenSupervised == Children!Spec

(* So are the gateways: no listening socket is left without a reference,     *)
(* except while a stop is about to close it.                                 *)
GatewaysSupervised == Gateways!Spec

(* Whatever is called, the launcher comes to rest: every operation answers,  *)
(* no child or gateway that a stop took over is left running, and the        *)
(* configuration, which holds secrets, does not outlive the process it was   *)
(* written for (unless a crash left a child that answers main()'s probe).    *)
Settled ==
    /\ \A t \in Ops : pc[t] = "idle"
    /\ \A n \in Starts : "retired" \notin {ChildStatus[n], GatewayStatus[n]}
    /\ orphans = {} => \A n \in Starts : ~(child[n] = "dead" /\ file = n)

ComesToRest == ~Settled ~> Settled
=============================================================================
