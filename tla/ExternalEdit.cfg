SPECIFICATION Spec
CONSTANTS
  t1 = t1
  t2 = t2
  t3 = t3
  j1 = j1
  j2 = j2
  Text = {t1, t2, t3}
  Gone = Gone
  None = None
  Job = {j1, j2}
  NoJob = NoJob
  MaxUser = 3
  MaxForeign = 2
  MaxStart = 1
SYMMETRY Symmetry
INVARIANTS RestoredWaits CloseWaits
PROPERTIES NoUnseenOverwrite ConflictSticks
CHECK_DEADLOCK FALSE
