SPECIFICATION FairSpec
CONSTANTS
  Account = {a1, a2}
  Device = {d1, d2}
  Imported = {d1, d2}
  Impatient = {d1}
  ApiConn = {c1, c2}
  GwConn = {g1, g2}
  MaxSeq = 1
  MaxReq = 1
  NoConn = NoConn
  NoAccount = NoAccount
  NoDevice = NoDevice
  NoRoute = NoRoute
  Idle = Idle
INVARIANTS
  TypeOK
  AtMostOneAnswer
  RepliesSolicited
  RegistrySound
  ReachableUntilOneCloses
PROPERTIES
  CorrelatedWhileKeysUnique
  ImplementsBroker
  RoutedIsAnswered
CHECK_DEADLOCK FALSE
