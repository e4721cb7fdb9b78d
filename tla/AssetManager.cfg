SPECIFICATION ManagerFairSpec
CONSTANTS
  r1 = r1
  r2 = r2
  Jobs <- ManagerJobs
  Concurrency = 2
  Files <- OneFile
  Chunks = 2
  MaxCommits = 2
  InOrder = TRUE
  Readers <- TwoReaders
  More = 2
  Plans <- SmallPlans
  MaxVersions = 2
INVARIANTS
  Saturated
  StartsInOrder
  CommitsWhole
  FirstHashesContent
  CollectsOneContent
  HashesInOrder
PROPERTIES
  CommitSettles
  ReadersSettle
CHECK_DEADLOCK FALSE
