SPECIFICATION LiveSpec
CONSTANTS
  Inst = {i1, i2}
  NoInst = NoInst
  Op = {o1, o2}
  MaxInst = 1
  o1 = o1
  o2 = o2
  o3 = o3
  KindOf <- Mixed
CHECK_DEADLOCK FALSE
PROPERTY RemovalEnds
PROPERTY CancelReturns
