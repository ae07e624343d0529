SPECIFICATION LiveSpec
CONSTANTS
  Turn = {t1, t2}
  NoTurn = NoTurn
  Msg = {}
CHECK_DEADLOCK FALSE
PROPERTY UINeverStuck
PROPERTY StopReturns
