------------------------- MODULE MCUpstreamRegistry -------------------------
(* Instances of UpstreamRegistry for TLC. *)
EXTENDS UpstreamRegistry, TLC

Symmetric == Permutations(Ops) \cup Permutations(Prefix) \cup Permutations(Names)
=============================================================================
