SPECIFICATION ActorFairSpec
CONSTANTS
  Polls = {p1}
  Shared = Shared
  Strategies <- AnyStrategy
  Given <- NeverGiven
  Timeout = 2
  FirstDelay = 1
  Throttle = 1
  MaxThrottle = 2
  Lifetime = 2
  MaxStart = 3
  MaxTime = 6
INVARIANTS
  TimesOutByAge
  NoLatePoll
  OneSignature
PROPERTIES
  KeepsPromise
  CallsSettle
CHECK_DEADLOCK FALSE
