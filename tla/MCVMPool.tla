------------------------------ MODULE MCVMPool ------------------------------
(* Instances of VMPool for TLC. *)
EXTENDS VMPool, TLC

CONSTANTS b1, b2, b3, pa, pb, ka, kb

\* Two packages with a pool each; two borrowers compete for the first pool.
MCPoolOf == (b1 :> pa) @@ (b2 :> pa) @@ (b3 :> pb)
MCPkgOf == (pa :> ka) @@ (pb :> kb)

\* One package with one pool, for liveness.
MCPoolOfTwo == (b1 :> pa) @@ (b2 :> pa)
MCPkgOfOne == (pa :> ka)

InstSymmetry == Permutations(Insts)
=============================================================================
