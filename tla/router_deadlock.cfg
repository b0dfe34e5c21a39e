SPECIFICATION FairSpec
CONSTANTS
  Conn = {c1, c2}
  Token = {t1}
  Loop = {l1, l2}
  MaxSessions = 1
  NoConn = NoConn
  NoToken = NoToken
  Nowhere = Nowhere
PROPERTIES
  JoinedWhenAllConnected
CHECK_DEADLOCK FALSE
