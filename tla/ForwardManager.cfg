SPECIFICATION LiveSpec
CONSTANTS
  s1 = s1
  s2 = s2
  s3 = s3
  k1 = k1
  k2 = k2
  Asset = {a1}
  Config = {k1, k2}
  Start = {s1, s2, s3}
  ConfigOf <- TwoConfigs
  Impatient = {s1}
  N = 1
  Edited = {k1}
  MaxEdit = 1
  NoStart = NoStart
  NoAsset = NoAsset
CHECK_DEADLOCK FALSE
INVARIANT RefsExact
INVARIANT NoClientLost
INVARIANT DeletedStaysClosed
 
PROPERTY StartSettles
