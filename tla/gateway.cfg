SPECIFICATION FairSpec
CONSTANTS
  Mac = {m1, m2}
  Addr = {x1, x2}
  NoMac = NoMac
  NoAddr = NoAddr
  MaxConn = 2
  MaxSent = 2
  Seqs = {1, 2}
  Kinds = {"list", "set"}
  MaxInner = 1
  SessionTicks = 1
  MaxListed = 1
  NoSession = NoSession
  NoReq = NoReq
  NoAnswer = NoAnswer
INVARIANTS
  TypeOK
  LookupsAgree
  SessionMapsAgree
  SettledBetweenRounds
  AnswersMatch
PROPERTIES
  ImplementsService
  AloneIsAnswered
CHECK_DEADLOCK FALSE
