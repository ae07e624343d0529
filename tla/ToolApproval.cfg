SPECIFICATION LiveSpec
CONSTANTS
  c1 = c1
  c2 = c2
  v1 = v1
  v2 = v2
  web = web
  ls = ls
  cat = cat
  rm = rm
  blob = blob
  file = file
  other = other
  Conv = {v1, v2}
  Call = {c1, c2}
  Asset = {web}
  Cmd = {ls, cat, rm, blob, file, other}
  AssetOf <- Assets
  Verdict <- Rules
  Default <- Proposed
  Typed <- Edits
  Plan <- Pairs
  MaxMode = 1
  Local = Local
  NoCmd = NoCmd
  NoID = NoID
  NoEdit = NoEdit
CHECK_DEADLOCK FALSE
 
INVARIANT KeptIsConsented
INVARIANT TransferWhole
INVARIANT WaitingIsAnswerable
PROPERTY StopEnds
