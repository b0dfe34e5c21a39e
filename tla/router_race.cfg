SPECIFICATION Spec
CONSTANTS
  Conn = {c1, c2, c3}
  Token = {t1}
  Loop = {l1, l2}
  MaxSessions = 2
  NoConn = NoConn
  NoToken = NoToken
  Nowhere = Nowhere
SYMMETRY Symmetry
INVARIANTS
  TypeOK
  Exclusive
  AtMostOneRsp
  ToldIsJoined
  JoinedUnlessOverlap
PROPERTIES
  ImplementsPairing
CHECK_DEADLOCK FALSE
