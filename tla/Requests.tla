------------------------------ MODULE Requests ------------------------------
(***************************************************************************)
(* What the gateway does to the requests and to the list of models: the    *)
(* rewriting of a /v1/responses body by _sanitize_responses_body_bytes and *)
(* the aliases _proxy_models_with_aliases adds to /v1/models.              *)
(*                                                                         *)
(* A model name is taken apart: gpt5, whether it is "gpt-5.X..." or        *)
(* "gpt5.X..."; dash, whether it is spelled with the dash; codex, whether  *)
(* "-codex" follows; tier, the suffix "-high" or "-xhigh".  A body is the  *)
(* record of the fields that are rewritten; a body that arrives compressed *)
(* is taken to be its decompressed form.                                   *)
(***************************************************************************)
EXTENDS Naturals

Models == [gpt5 : BOOLEAN, dash : BOOLEAN, codex : BOOLEAN, tier : {"none", "high", "xhigh"}]

Tools == {"image_generation", "function"}

Bodies ==
    [model : Models,
     effort : {"none", "high", "xhigh"},
     verbosity : {"low", "medium"},
     generate : BOOLEAN,
     tools : SUBSET Tools,
     choice : Tools \cup {"none"}]

(* gpt5.X is another spelling of gpt-5.X. *)
Dashed(m) == [m EXCEPT !.dash = @ \/ m.gpt5]

(* -codex-high and -xhigh stand for a model and an effort; -high does not. *)
NamesEffort(m) == m.gpt5 /\ (m.tier = "xhigh" \/ (m.tier = "high" /\ m.codex))

(* A faulty variant: only the missing dash is put in. *)
TargetKeepsTier(m) == Dashed(m)

Target(m) == IF NamesEffort(m) THEN [Dashed(m) EXCEPT !.tier = "none"] ELSE Dashed(m)

Sanitised(b) ==
    LET target == Target(b.model)
        image  == "image_generation" \in b.tools
    IN  [model     |-> target,
         effort    |-> IF NamesEffort(b.model) THEN b.model.tier ELSE b.effort,
         verbosity |-> IF target.codex THEN "medium" ELSE b.verbosity,
         generate  |-> FALSE,
         tools     |-> b.tools \ {"image_generation"},
         choice    |-> IF image /\ b.choice = "image_generation" THEN "none" ELSE b.choice]

(* The two spellings of the alias of a model the upstream has: codex models *)
(* get -codex-high, the others -xhigh.                                      *)
Aliases(m) ==
    IF m.gpt5 /\ m.dash /\ m.tier = "none"
    THEN {[m EXCEPT !.dash = dash, !.tier = IF m.codex THEN "high" ELSE "xhigh"]
             : dash \in BOOLEAN}
    ELSE {}

(* /v1/models as a client sees it. *)
Listed(models) == models \cup UNION {Aliases(m) : m \in models}

(* What the upstream takes: a model it has, no tool or choice of a tool it   *)
(* does not know, no `generate`, and for codex models no low verbosity.      *)
Accepts(models, b) ==
    /\ b.model \in models
    /\ "image_generation" \notin b.tools \cup {b.choice}
    /\ ~b.generate
    /\ b.model.codex => b.verbosity # "low"
=============================================================================
