--------------------------- MODULE MCHandlerReply ---------------------------
(* Instances of HandlerReply for TLC. *)
EXTENDS HandlerReply, TLC

ExecSymmetry == Permutations(Execs)
=============================================================================
