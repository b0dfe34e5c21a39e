\* A network on which a connection attempt can outlast RETRY_INTERVAL.
SPECIFICATION FairSpec
CONSTANTS
  FD = {0, 1}
  Networks = {"slow"}
  MaxTimers = 3
  MaxArmed = 1
  MaxUnanswered = 2
  NoFd = NoFd
  NoEvent = NoEvent
  NoTimer = NoTimer
PROPERTIES
  AbortIsRetried
CHECK_DEADLOCK FALSE
