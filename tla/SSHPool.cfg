SPECIFICATION Spec
CONSTANTS
  Asset = {a1}
  Conn = {c1, c2}
  Caller = {g1, g2}
  NoConn = NoConn
  NoAsset = NoAsset
  NoCaller = NoCaller
  MaxSave = 1
  Faults = {"probe", "save"}
SYMMETRY Symmetry
INVARIANT HoldersCounted
INVARIANT OwnContextOnly
PROPERTY ImplementsRegistry
