----------------------------- MODULE MCMonitor -----------------------------
(* Instances of Monitor for TLC. *)
EXTENDS Monitor

CONSTANTS mine, yours

MCSecrets == {mine, yours}

Form(secret, on, interval) ==
    [secret |-> secret, monitor |-> on, interval |-> interval, port |-> "wanted"]

(* What a form sends: the password is blank or new. *)
MCBodies == {Form(Empty, TRUE, "number"), Form(yours, FALSE, "number"), Form(Empty, TRUE, "text")}

(* No file, a file of this version that starts the monitor, one of an        *)
(* earlier version with the secret in the clear, and one with a retired      *)
(* field beside a sealed secret.                                             *)
MCFirstFiles ==
    {NoFile,
     Stored(Form(mine, TRUE, "number"), TRUE, FALSE),
     Stored(Form(mine, FALSE, "number"), FALSE, FALSE),
     Stored(Form(mine, FALSE, "number"), TRUE, TRUE)}
=============================================================================
