SPECIFICATION LiveSpec
CONSTANTS
  Asset = {a1}
  Conn = {c1}
  Caller = {g1, g2}
  NoConn = NoConn
  NoAsset = NoAsset
  NoCaller = NoCaller
  MaxSave = 0
  Faults = {"probe", "close"}
PROPERTY ImplementsLiveRegistry
PROPERTY GetReturns
