SPECIFICATION FairSpec
CONSTANTS
  c1 = c1
  c2 = c2
  alice = alice
  Null = Null
  Calls <- TwoCalls
  FixedNonce <- NoCall
  Identities <- OneIdentity
  RetryTimes = 0
  MaxIterations = 0
  MaxElapsed = 3
  Delta = 1
  Granule = 1
  ShouldSyncTime = TRUE
  RootKeys <- KeyUnset
  SyncOutcomes <- SyncAny
  V3Modes <- MixedV3
  Skews <- SkewBehind
  Drift = 1
  Lag = 0
  MaxSync = 1
  MaxCount = 1
  StartTime = 1
  MaxTime = 2
PROPERTIES
  CallSettles
CHECK_DEADLOCK FALSE
