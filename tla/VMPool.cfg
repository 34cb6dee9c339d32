\* Three borrowers, two pools (pb of handlers), three VM identities, a budget of three
\* VMs for the process and two for each package: both gates bite, the idle
\* channel of one instance overflows, and both pools close at any moment.
CONSTANTS
  b1 = b1  b2 = b2  b3 = b3  pa = pa  pb = pb  ka = ka  kb = kb
  Borrowers = {b1, b2, b3}
  Pools = {pa, pb}
  Pkgs = {ka, kb}
  Insts = {i1, i2, i3}
  NoInst = NoInst
  Nobody = Nobody
  PoolOf <- MCPoolOf
  PkgOf <- MCPkgOf
  HandlerPools = {pb}
  WarmCap = 1
  MaxBorrow = 2
  GlobalVMCap = 3
  PerPkgVMCap = 2
SPECIFICATION Spec
SYMMETRY InstSymmetry
CHECK_DEADLOCK FALSE
INVARIANTS
  BudgetExact
  ExclusiveUse
  ClosedPoolIsEmpty
