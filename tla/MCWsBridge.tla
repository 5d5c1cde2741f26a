----------------------------- MODULE MCWsBridge -----------------------------
(* Instances of WsBridge for TLC. *)
EXTENDS WsBridge, TLC

CONSTANTS alice, bob

MCSessions == {alice, bob}

Frame(o, d, fin) == [op |-> o, data |-> d, fin |-> fin]

Text(data) == [op |-> "text", data |-> data]

(* A request in one frame and a close. *)
Plain == [frames   |-> <<Frame("text", "create", TRUE), Frame("close", "", TRUE)>>,
          messages |-> <<Text(<<"create">>)>>]

(* A binary message, then a request in two frames with a ping between them,  *)
(* then the end of the input.                                                *)
Fragmented ==
    [frames   |-> <<Frame("binary", "x", TRUE), Frame("text", "cre", FALSE),
                    Frame("ping", "", TRUE), Frame("cont", "ate", TRUE)>>,
     messages |-> <<[op |-> "binary", data |-> <<"x">>], Text(<<"cre", "ate">>)>>]

Model(codex) == [gpt5 |-> TRUE, dash |-> TRUE, codex |-> codex, tier |-> "none"]

World(bobs, a, b, codex) ==
    [script |-> (alice :> Plain) @@ (bob :> bobs),
     header |-> (alice :> a) @@ (bob :> b),
     models |-> {Model(codex)}]

MCWorlds ==
    {World(Fragmented, "normal", "normal", TRUE), World(Plain, "refresh", "no-store", FALSE)}

(* A stream that is kept, also when it breaks off after its part, cut in the *)
(* middle of its separator; one that is longer than MaxLines, with an event  *)
(* of two lines; one that fails, cut in the middle of an event.              *)
MCStreams ==
    {<< <<"part", "cr", "lf">>, <<"cr", "lf", "completed">> >>,
     << <<"delta", "lf", "delta", "lf", "lf", "completed">> >>,
     << <<"failed", "lf", "lf", "completed">>, <<"lf", "lf">> >>}
=============================================================================
