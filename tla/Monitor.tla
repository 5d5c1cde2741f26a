------------------------------ MODULE Monitor ------------------------------
(***************************************************************************)
(* The health monitor (launcher_monitor) and the settings it reads, with   *)
(* the threads of the management server that save settings, start, stop    *)
(* and trigger it, and start_proxy, which loads all the settings and saves *)
(* them again with another port.                                           *)
(*                                                                         *)
(* _settings_lock makes a load and a save one step each; what a caller     *)
(* does with the loaded settings afterwards is another.  start_monitor     *)
(* works under _lock, stop_monitor under no lock at all.                   *)
(***************************************************************************)
EXTENDS Settings, Naturals, FiniteSets

CONSTANTS
    Main,          \* the thread that starts the program
    Panels,        \* threads of the management server
    Bodies,        \* the settings a form may send
    FirstFiles,    \* what settings.json may be at the beginning
    MaxLoops,      \* bound on the monitor threads
    MaxCalls,      \* bound on the calls of the management server
    MaxFaults      \* bound on the faults of the settings

(* What a user may type and what is found on the disk. *)
ASSUME MonitorConfig ==
    /\ Empty \notin Secrets /\ Generated # Empty
    /\ NoFile \notin Files
    /\ Bodies \subseteq Values
    /\ FirstFiles \subseteq {f \in Files : f.secret # Empty} \cup {NoFile}
    /\ Main \notin Panels
    /\ {MaxLoops, MaxCalls, MaxFaults} \subseteq Nat

Callers == Panels \cup {Main}
Loops == 1 .. MaxLoops

VARIABLES
    file,          \* settings.json
    faults,        \* how many faults there were
    calls,
    pc,            \* where each caller is
    old, new,      \* of each caller: the settings it loaded; those it will save
    cancel, wake,  \* _monitor_cancel, _monitor_wake
    running,       \* _monitor_running
    loop,          \* where each monitor thread is
    asked          \* history: a trigger was accepted and no check has ended since

vars == <<file, faults, calls, pc, old, new, cancel, wake, running, loop, asked>>
settings == <<file, faults>>
callers == <<calls, pc, old, new>>
monitor == <<cancel, wake, running, loop, asked>>

Init ==
    /\ file \in FirstFiles
    /\ faults = 0 /\ calls = 0
    /\ pc = [p \in Callers |-> IF p = Main THEN "boot" ELSE "idle"]
    /\ old = [p \in Callers |-> Default]
    /\ new = [p \in Callers |-> Default]
    /\ cancel = FALSE /\ wake = FALSE /\ running = FALSE
    /\ loop = [l \in Loops |-> "unborn"]
    /\ asked = FALSE

(* What may go wrong in a call of load_settings or save_settings. *)
Fault(f) ==
    /\ f # "none" => faults < MaxFaults
    /\ faults' = faults + (IF f = "none" THEN 0 ELSE 1)

At(p, label) == pc[p] = label
Go(p, label) == pc' = [pc EXCEPT ![p] = label]

(* The locals of a call that is done with the settings. *)
Forget(p) == old' = [old EXCEPT ![p] = Default] /\ new' = [new EXCEPT ![p] = Default]

-----------------------------------------------------------------------------
(* The program starts *)

(* main loads the settings, and the monitor starts if they say so. *)
Boot ==
    /\ At(Main, "boot")
    /\ \E f \in Faults :
         /\ Fault(f)
         /\ file' = AfterLoad(file, f)
         /\ Go(Main, IF Loaded(file, f).monitor THEN "start" ELSE "done")
    /\ UNCHANGED <<calls, old, new, monitor>>

-----------------------------------------------------------------------------
(* Calls of the management server *)

(* /api/save begins with a load, start_monitor, stop_monitor and trigger do  *)
(* not; start_proxy is of interest when it finds that its port is taken.     *)
Call(p) ==
    /\ At(p, "idle") /\ At(Main, "done") /\ calls < MaxCalls
    /\ calls' = calls + 1
    /\ \E label \in {"before", "start", "stop", "trigger", "load port"} : Go(p, label)
    /\ UNCHANGED <<settings, old, new, monitor>>

(* before = load_settings() *)
SaveBegins(p) ==
    /\ At(p, "before")
    /\ \E f \in Faults :
         /\ Fault(f)
         /\ file' = AfterLoad(file, f)
         /\ old' = [old EXCEPT ![p] = Loaded(file, f)]
    /\ \E body \in Bodies : new' = [new EXCEPT ![p] = body]
    /\ Go(p, "save")
    /\ UNCHANGED <<calls, monitor>>

(* after = save_settings(body); the monitor is started or stopped if the     *)
(* setting differs between the two.  A write that fails ends the call.       *)
SaveWrites(p) ==
    /\ At(p, "save")
    /\ \E f \in Faults :
         LET v == Saved(file, new[p], f) IN
         /\ Fault(f)
         /\ file' = IF f = "write" THEN file ELSE Written(v)
         /\ Go(p, IF f = "write" \/ v.monitor = old[p].monitor THEN "idle"
                  ELSE IF v.monitor THEN "start" ELSE "stop")
    /\ Forget(p)
    /\ UNCHANGED <<calls, monitor>>

(* start_proxy: s = load_settings(), a free port is found ... *)
PortLoads(p) ==
    /\ At(p, "load port")
    /\ \E f \in Faults :
         /\ Fault(f)
         /\ file' = AfterLoad(file, f)
         /\ new' = [new EXCEPT ![p] = [Loaded(file, f) EXCEPT !.port = "moved"]]
    /\ Go(p, "save port")
    /\ UNCHANGED <<calls, old, monitor>>

(* ... and save_settings(s) writes back all that was loaded. *)
PortSaves(p) ==
    /\ At(p, "save port")
    /\ \E f \in Faults :
         /\ Fault(f)
         /\ file' = IF f = "write" THEN file ELSE Written(Saved(file, new[p], f))
    /\ Go(p, "idle")
    /\ Forget(p)
    /\ UNCHANGED <<calls, monitor>>

-----------------------------------------------------------------------------
(* start_monitor, stop_monitor, trigger_monitor_now *)

Return(p) == Go(p, IF p = Main THEN "done" ELSE "idle")

Unborn == {l \in Loops : loop[l] = "unborn"}

(* _lock is taken; whether a monitor runs is read, the cancellation cleared. *)
StartChecks(p) ==
    /\ At(p, "start") /\ Unborn # {}
    /\ \A q \in Callers : ~At(q, "spawn")
    /\ IF running
       THEN Return(p) /\ UNCHANGED cancel
       ELSE Go(p, "spawn") /\ cancel' = FALSE
    /\ UNCHANGED <<settings, calls, old, new, wake, running, loop, asked>>

StartSpawns(p) ==
    /\ At(p, "spawn")
    /\ running' = TRUE
    /\ loop' = [loop EXCEPT ![CHOOSE l \in Unborn : TRUE] = "head"]
    /\ Return(p)
    /\ UNCHANGED <<settings, calls, old, new, cancel, wake, asked>>

StopCancels(p) ==
    /\ At(p, "stop")
    /\ cancel' = TRUE
    /\ Go(p, "stop wakes")
    /\ UNCHANGED <<settings, calls, old, new, wake, running, loop, asked>>

StopWakes(p) ==
    /\ At(p, "stop wakes")
    /\ wake' = TRUE
    /\ Go(p, "stopped")
    /\ UNCHANGED <<settings, calls, old, new, cancel, running, loop, asked>>

StopEnds(p) ==
    /\ At(p, "stopped")
    /\ running' = FALSE
    /\ Return(p)
    /\ UNCHANGED <<settings, calls, old, new, cancel, wake, loop, asked>>

Trigger(p) ==
    /\ At(p, "trigger")
    /\ wake' = (wake \/ running)
    /\ asked' = (asked \/ running)
    /\ Return(p)
    /\ UNCHANGED <<settings, calls, old, new, cancel, running, loop>>

(* _wake_monitor, from the gateway when the upstream limits it. *)
Wake ==
    /\ ~wake
    /\ wake' = TRUE
    /\ UNCHANGED <<settings, callers, cancel, running, loop, asked>>

-----------------------------------------------------------------------------
(* _monitor_loop *)

Step(l, from, to) == loop[l] = from /\ loop' = [loop EXCEPT ![l] = to]

(* A faulty variant: the loop does not look at the cancellation here. *)
HeadForever(l) ==
    /\ Step(l, "head", "config")
    /\ UNCHANGED <<settings, callers, cancel, wake, running, asked>>

LoopHead(l) ==
    /\ Step(l, "head", IF cancel THEN "end" ELSE "config")
    /\ UNCHANGED <<settings, callers, cancel, wake, running, asked>>

(* _monitor_get_cfg is outside the `try`: an interval that is no number      *)
(* kills the thread.                                                         *)
LoopConfig(l) ==
    /\ \E f \in Faults :
         /\ Fault(f)
         /\ file' = AfterLoad(file, f)
         /\ Step(l, "config", IF Loaded(file, f).interval = "number" THEN "check" ELSE "dead")
    /\ UNCHANGED <<callers, cancel, wake, running, asked>>

(* The check loads the settings again; its results are only shown. *)
LoopCheck(l) ==
    /\ \E f \in Faults : Fault(f) /\ file' = AfterLoad(file, f)
    /\ Step(l, "check", "clear")
    /\ asked' = FALSE
    /\ UNCHANGED <<callers, cancel, wake, running>>

(* _monitor_wake.clear(): a request that came since the last wait is         *)
(* forgotten, also one that came when the check was over.                    *)
LoopClear(l) ==
    /\ Step(l, "clear", "wait")
    /\ wake' = FALSE
    /\ UNCHANGED <<settings, callers, cancel, running, asked>>

(* A request, the cancellation or the end of the interval ends the wait. *)
LoopWaits(l) ==
    /\ Step(l, "wait", "head")
    /\ UNCHANGED <<settings, callers, cancel, wake, running, asked>>

(* A faulty variant: the flag is left to stop_monitor. *)
EndsQuietly(l) ==
    /\ Step(l, "end", "over")
    /\ UNCHANGED <<settings, callers, cancel, wake, running, asked>>

LoopEnd(l) ==
    /\ Step(l, "end", "over")
    /\ running' = FALSE
    /\ UNCHANGED <<settings, callers, cancel, wake, asked>>

LoopStep(l) ==
    LoopHead(l) \/ LoopConfig(l) \/ LoopCheck(l) \/ LoopClear(l) \/ LoopWaits(l) \/ LoopEnd(l)

Serve(p) ==
    \/ SaveBegins(p) \/ SaveWrites(p) \/ PortLoads(p) \/ PortSaves(p)
    \/ StartChecks(p) \/ StartSpawns(p) \/ StopCancels(p) \/ StopWakes(p) \/ StopEnds(p)
    \/ Trigger(p)

Next ==
    \/ Boot \/ Wake
    \/ \E p \in Panels : Call(p)
    \/ \E p \in Callers : Serve(p)
    \/ \E l \in Loops : LoopStep(l)

Spec == Init /\ [][Next]_vars

(* The monitor's threads run, a wait of at most a day ends, and a call once  *)
(* begun goes on.                                                            *)
FairSpec ==
    /\ Spec
    /\ \A l \in Loops : WF_vars(LoopStep(l))
    /\ \A p \in Callers : WF_vars(Serve(p))

-----------------------------------------------------------------------------
(* Properties *)

Alive(l) == loop[l] \in {"head", "config", "check", "clear", "wait", "end"}

(* Every variable has its type: no load or save writes half of the settings. *)
TypeOK ==
    /\ file \in Files \cup {NoFile}
    /\ faults \in 0 .. MaxFaults /\ calls \in 0 .. MaxCalls
    /\ \A p \in Callers : old[p] \in Values /\ new[p] \in Values
    /\ {cancel, wake, running, asked} \subseteq BOOLEAN
    /\ \A l \in Loops : Alive(l) \/ loop[l] \in {"unborn", "over", "dead"}

(* As long as the file can be read and its secret decrypted, the secret is   *)
(* never lost: not by a form with a blank field, not by the rewriting of an  *)
(* old file, not by start_proxy, which writes all settings back.             *)
SecretSurvives ==
    faults = 0 /\ file # NoFile => file.secret # Empty

(* What a file had in the clear is sealed, and what is retired is gone, once *)
(* the program has started, unless there was a fault.                        *)
NothingInTheClear ==
    faults = 0 /\ ~At(Main, "boot") => file # NoFile /\ file.sealed /\ ~file.retired

(* When the panel shows that the monitor runs, a thread does the checks,     *)
(* however starts and stops overlap, or one was killed by its interval.      *)
RunningHasThread ==
    running => \E l \in Loops : Alive(l) \/ loop[l] = "dead"

(* A stop ends all the threads of the monitor, also those an earlier stop    *)
(* and start have left, unless another start comes before.                   *)
StopEndsThreads == cancel ~> (~cancel \/ \A l \in Loops : ~Alive(l))

(* API.md:33 promises a check at once ("立即执行一次健康检查"), and so does   *)
(* the answer (launcher_monitor.py:125, "immediate health check triggered"): *)
(* no loop waits for the end of its interval while a trigger that was        *)
(* accepted is without a check.  A trigger that comes during a check is      *)
(* forgotten by LoopClear.                                                   *)
TriggerIsPrompt == asked /\ ~cancel => \A l \in Loops : loop[l] = "wait" => wake
=============================================================================
