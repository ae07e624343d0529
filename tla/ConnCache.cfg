SPECIFICATION LiveSpec
CONSTANTS
  a1 = a1
  k1 = k1
  Asset = {a1}
  Key = {k1}
  Owner <- OneAsset
  Conn = {c1, c2}
  Caller = {g1, g2}
  NoConn = NoConn
  NoKey = NoKey
  NoCaller = NoCaller
  MaxSave = 1
  MaxClose = 1
INVARIANT CachedIsCurrent
INVARIANT CachedIsOpen
INVARIANT NoConnLost
PROPERTY EvictsOnlyUnheld
PROPERTY ImplementsLiveRegistry
PROPERTY GetOrDialReturns
