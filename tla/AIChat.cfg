SPECIFICATION Spec
CONSTANTS
  Turn = {t1, t2}
  NoTurn = NoTurn
  Msg = {m1}
CHECK_DEADLOCK FALSE
SYMMETRY Symmetry
INVARIANT NoGhostTurn
INVARIANT NotLeaked
INVARIANT QueuedNotLost
