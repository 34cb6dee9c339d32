---------------------------- MODULE MCPartsCache ----------------------------
(* Instances of PartsCache for TLC. *)
EXTENDS PartsCache, TLC

ReqSymmetry == Permutations(Reqs)
=============================================================================
