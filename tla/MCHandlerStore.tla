--------------------------- MODULE MCHandlerStore ---------------------------
(* Instances of HandlerStore for TLC.  No symmetry: the run checks liveness.  *)
EXTENDS HandlerStore, TLC
=============================================================================
