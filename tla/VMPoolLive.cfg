\* Two borrowers of one pool of handlers, a budget of one VM: a borrower polls
\* while the other holds the only VM, and Close comes at any moment.
CONSTANTS
  b1 = b1  b2 = b2  b3 = b3  pa = pa  pb = pb  ka = ka  kb = kb
  Borrowers = {b1, b2}
  Pools = {pa}
  Pkgs = {ka}
  Insts = {i1, i2}
  NoInst = NoInst
  Nobody = Nobody
  PoolOf <- MCPoolOfTwo
  PkgOf <- MCPkgOfOne
  HandlerPools = {pa}
  WarmCap = 1
  MaxBorrow = 2
  GlobalVMCap = 2
  PerPkgVMCap = 1
SPECIFICATION FairSpec
CHECK_DEADLOCK FALSE
PROPERTIES
  CallsReturn
