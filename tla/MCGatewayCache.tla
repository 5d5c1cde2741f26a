--------------------------- MODULE MCGatewayCache ---------------------------
(* Instances of GatewayCache for TLC. *)
EXTENDS GatewayCache

Ask(auth, prompt, ctl) == [auth |-> auth, vary |-> "none", prompt |-> prompt, ctl |-> ctl]

(* One client asks the same thing three times. *)
OneRequest == {Ask("alice", "text", "normal")}

(* One client asks the same thing, and asks it to be refreshed. *)
OnePrompt == {Ask("alice", "text", "normal"), Ask("alice", "text", "refresh")}

(* Two clients, and a prompt that streams. *)
ThreeKeys ==
    {Ask("alice", "text", "normal"), Ask("bob", "text", "normal"),
     Ask("alice", "stream", "normal"), Ask("alice", "text", "no-store"),
     [Ask("alice", "text", "normal") EXCEPT !.vary = "team"]}

StreamPrompt == {"stream"}
OneSize == {1}
ThreeSizes == {1, 2, 3}
Symmetric == Permutations(Requests)
=============================================================================
