SPECIFICATION Spec
CONSTANTS
  Account = {a1}
  Device = {d1}
  Imported = {d1}
  Impatient = {d1}
  ApiConn = {c1, c2}
  GwConn = {g1, g2}
  MaxSeq = 1
  MaxReq = 1
  NoConn = NoConn
  NoAccount = NoAccount
  NoDevice = NoDevice
  NoRoute = NoRoute
  Idle = Idle
INVARIANTS
  LoggedInReachable
CHECK_DEADLOCK FALSE
