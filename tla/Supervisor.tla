----------------------------- MODULE Supervisor -----------------------------
(***************************************************************************)
(* What the launcher promises of the things it starts, be they child       *)
(* processes or gateway servers: at most one is in charge at any time, one *)
(* that is no longer in charge is on its way out, and nothing that went    *)
(* comes back.  Only a crash of the launcher leaves one behind.            *)
(***************************************************************************)
CONSTANT Things

VARIABLE status      \* of each thing: new, running, retired, lost or gone

Init == status = [n \in Things |-> "new"]

Launch(n) ==
    /\ status[n] = "new"
    /\ \A m \in Things : status[m] # "running"
    /\ status' = [status EXCEPT ![n] = "running"]

Retire(n) ==
    /\ status[n] = "running"
    /\ status' = [status EXCEPT ![n] = "retired"]

End(n) ==
    /\ status[n] \in {"running", "retired", "lost"}
    /\ status' = [status EXCEPT ![n] = "gone"]

(* The launcher dies: what it had started goes with it, or is left behind. *)
Abandon(left) ==
    status' = [n \in Things |->
                 IF status[n] \in {"running", "retired"} THEN left ELSE status[n]]

Next ==
    \/ \E n \in Things : Launch(n) \/ Retire(n) \/ End(n)
    \/ \E left \in {"lost", "gone"} : Abandon(left)

Spec == Init /\ [][Next]_status
=============================================================================
