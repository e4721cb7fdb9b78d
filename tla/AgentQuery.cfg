SPECIFICATION FairSpec
CONSTANTS
  q1 = q1
  q2 = q2
  ledger = ledger
  Queries <- TwoQueries
  Canisters <- OneCanister
  Verifying = {TRUE, FALSE}
  RetryTimes = 1
  MaxIterations = 1
  MaxElapsed = 2
  MaxIngress = 1
  ExpirationTime = 1
  CertAge = 0
  NodeLag = 2
  MaxRotations = 1
  MaxTime = 2
INVARIANTS
  VerifiedByRecentKeys
  RejectedByFreshKeys
PROPERTIES
  QuerySettles
CHECK_DEADLOCK FALSE
