SPECIFICATION Spec
CONSTANTS
  Polls = {p1, p2}
  Shared = Shared
  Strategies <- SharedStrategy
  Given <- NotGiven
  Timeout = 2
  FirstDelay = 1
  Throttle = 1
  MaxThrottle = 2
  Lifetime = 3
  MaxStart = 3
  MaxTime = 6
INVARIANTS
  NoEarlyTimeout
CHECK_DEADLOCK FALSE
