SPECIFICATION Spec
CONSTANTS
  r1 = r1
  r2 = r2
  r3 = r3
  s1 = s1
  s2 = s2
  c1 = c1
  c2 = c2
  c3 = c3
  Req = {r1, r2, r3}
  NoReq = NoReq
  Session = {s1, s2}
  NoSession = NoSession
  Command = {c1, c2, c3}
  NoCommand = NoCommand
  KindOf <- GrantAndCommand
  SessionOf <- TwoSessions
  CommandOf <- Asked
  Grants <- GrantedEdit
  Edit = {c3}
  Authentic = {r1, r2}
  DBFails = TRUE
CHECK_DEADLOCK FALSE
INVARIANT YesIsConsent
INVARIANT SettledIsConsented
INVARIANT ApprovedGrantTakesEffect
