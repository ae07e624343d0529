SPECIFICATION LiveSpec
CONSTANTS
  r1 = r1
  r2 = r2
  r3 = r3
  s1 = s1
  s2 = s2
  c1 = c1
  c2 = c2
  c3 = c3
  Req = {r1, r3}
  NoReq = NoReq
  Session = {s1, s2}
  NoSession = NoSession
  Command = {c1, c2, c3}
  NoCommand = NoCommand
  KindOf <- CommandsAndMFA
  SessionOf <- FirstSession
  CommandOf <- Asked
  Grants <- Granted
  Edit = {}
  Authentic = {r1, r3}
  DBFails = FALSE
CHECK_DEADLOCK FALSE
PROPERTY DecidedReturns
PROPERTY ShutdownEnds
