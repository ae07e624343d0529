SPECIFICATION Spec
CONSTANTS
  Inst = {i1, i2, i3}
  NoInst = NoInst
  Op = {o1, o2, o3}
  MaxInst = 2
  o1 = o1
  o2 = o2
  o3 = o3
  KindOf <- Mixed
CHECK_DEADLOCK FALSE
SYMMETRY Symmetry
INVARIANT SlotsAccounted
INVARIANT NobodyWaitsInVain
INVARIANT OpenWhileUsed
