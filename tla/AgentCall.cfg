SPECIFICATION Spec
CONSTANTS
  c1 = c1
  c2 = c2
  alice = alice
  Null = Null
  Calls <- OneCall
  FixedNonce <- NoCall
  Identities <- OneIdentity
  RetryTimes = 1
  MaxIterations = 1
  MaxElapsed = 2
  Delta = 3
  Granule = 2
  ShouldSyncTime = FALSE
  RootKeys <- KeySet
  SyncOutcomes <- SyncAny
  V3Modes <- UniformV3
  Skews <- SkewBehindAhead
  Drift = 1
  Lag = 1
  MaxSync = 1
  MaxCount = 3
  StartTime = 2
  MaxTime = 4
INVARIANTS
  AtMostOnceUnlessResynced
  ResyncsBounded
  RequestsBounded
  SyncedExpiryAccepted
CHECK_DEADLOCK FALSE
