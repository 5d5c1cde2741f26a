------------------------------ MODULE Settings ------------------------------
(***************************************************************************)
(* settings.json and what load_settings, save_settings and                 *)
(* _write_settings_encrypted make of it, on Windows.                       *)
(*                                                                         *)
(* One secret stands for SECRET_FIELDS; sealed says that it is stored as   *)
(* dpapi:..., retired that the file still has a field of                   *)
(* DEPRECATED_SETTINGS.  In memory the settings have neither.  A fault is  *)
(* what goes wrong in one call: the file cannot be read, the secret cannot *)
(* be decrypted, the file cannot be written.                               *)
(***************************************************************************)
CONSTANTS
    Secrets,       \* what a user may choose
    Generated,     \* the secret of default_settings
    Empty,         \* no secret
    NoFile

Faults == {"none", "read", "decrypt", "write"}

(* What a program has in memory. *)
Values ==
    [secret : Secrets \cup {Generated, Empty}, monitor : BOOLEAN,
     interval : {"number", "text"}, port : {"wanted", "moved"}]

Files ==
    [secret : Secrets \cup {Generated, Empty}, monitor : BOOLEAN,
     interval : {"number", "text"}, port : {"wanted", "moved"},
     sealed : BOOLEAN, retired : BOOLEAN]

Default == [secret |-> Generated, monitor |-> FALSE, interval |-> "number", port |-> "wanted"]

Stored(v, sealed, retired) ==
    [secret |-> v.secret, monitor |-> v.monitor, interval |-> v.interval, port |-> v.port,
     sealed |-> sealed, retired |-> retired]

(* A faulty variant: what is in memory is dumped. *)
WrittenAsIs(v) == v

(* The file replaced as a whole, with the secret encrypted. *)
Written(v) == Stored(v, TRUE, FALSE)

(* default_settings() with what the file says, if it is there and readable. *)
Merged(file, fault) ==
    IF file = NoFile \/ fault = "read" THEN Stored(Default, FALSE, FALSE) ELSE file

(* What load_settings returns: a secret it cannot decrypt is empty. *)
Loaded(file, fault) ==
    LET m == Merged(file, fault) IN
    [secret   |-> IF m.sealed /\ fault = "decrypt" THEN Empty ELSE m.secret,
     monitor  |-> m.monitor,
     interval |-> m.interval,
     port     |-> m.port]

(* A faulty variant: only a secret in the clear makes load_settings write. *)
ClearOnly(file, fault) ==
    LET m == Merged(file, fault) IN ~m.sealed /\ m.secret # Empty

(* load_settings writes when it has found a secret in the clear (those of    *)
(* the defaults are) or a retired field.                                     *)
Migrates(file, fault) ==
    LET m == Merged(file, fault) IN m.retired \/ (~m.sealed /\ m.secret # Empty)

(* What load_settings leaves on the disk; a write that fails is let pass. *)
AfterLoad(file, fault) ==
    IF Migrates(file, fault) /\ fault # "write" THEN Written(Loaded(file, fault)) ELSE file

(* A faulty variant: a blank secret of the form overwrites. *)
BlankOverwrites(v, body) == body

(* The settings with what the form sent: a blank secret leaves the old one. *)
Changed(v, body) ==
    [body EXCEPT !.secret = IF @ = Empty THEN v.secret ELSE @]

(* What save_settings returns and leaves on the disk, unless it cannot write *)
(* (then it raises).                                                         *)
Saved(file, body, fault) == Changed(Loaded(file, fault), body)
=============================================================================
