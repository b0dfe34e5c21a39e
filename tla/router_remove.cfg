SPECIFICATION Spec
CONSTANTS
  Conn = {c1, c2}
  Token = {t1}
  Loop = {l1}
  MaxSessions = 2
  NoConn = NoConn
  NoToken = NoToken
  Nowhere = Nowhere
PROPERTIES
  RemovesItself
CHECK_DEADLOCK FALSE
