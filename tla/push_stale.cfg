SPECIFICATION Spec
CONSTANTS
  Account = {a1}
  Device = {d1}
  Imported = {d1}
  Impatient = {d1}
  ApiConn = {c1, c2}
  GwConn = {g1}
  MaxSeq = 2
  MaxReq = 1
  NoConn = NoConn
  NoAccount = NoAccount
  NoDevice = NoDevice
  NoRoute = NoRoute
  Idle = Idle
PROPERTIES
  NoStaleAnswer
CHECK_DEADLOCK FALSE
