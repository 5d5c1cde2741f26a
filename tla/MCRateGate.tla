----------------------------- MODULE MCRateGate -----------------------------
(* Instances of RateGate for TLC. *)
EXTENDS RateGate

Symmetric == Permutations(Handlers) \cup Permutations(Clients)
=============================================================================
