\* The three networks: answers within RETRY_INTERVAL, later ones, and every
\* outcome of connect().
SPECIFICATION FairSpec
CONSTANTS
  FD = {0, 1}
  Networks = {"calm", "slow", "rough"}
  MaxTimers = 4
  MaxArmed = 2
  MaxUnanswered = 2
  NoFd = NoFd
  NoEvent = NoEvent
  NoTimer = NoTimer
INVARIANTS
  TypeOK
  NoDescriptorLeak
  ConnectedIsWatched
  RetryScheduled
  HandlerHasSocket
  RegisteredHere
  TimerOwned
  LoginUnderWay
PROPERTIES
  NeverSilent
  Registers
CHECK_DEADLOCK FALSE
