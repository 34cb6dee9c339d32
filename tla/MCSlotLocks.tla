---------------------------- MODULE MCSlotLocks -----------------------------
(* Instances of SlotLocks for TLC.  No symmetry: the same run checks liveness. *)
EXTENDS SlotLocks, TLC
=============================================================================
