SPECIFICATION FairSpec
CONSTANTS
  MaxLogins = 3
  Environments <- Both
INVARIANTS
  OneLoginAtATime
PROPERTY
  SingleLoginAnswered
CHECK_DEADLOCK FALSE
