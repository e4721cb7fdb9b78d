SPECIFICATION PageSpec
CONSTANTS
  Tabs <- OnePage
  Environments <- EveryEnvironment
  HookIn <- HookEnvironments
  Life = 2
  MaxTime = 3
  MaxKeys = 3
  IdleTimeout = 1
  MaxCreating = 2
INVARIANTS
  StoredMatchesMemory
  SessionMatchesUndisturbed
  
  SessionWatched
  ShownMatchesClient
  ActorFollowsIdentity
CHECK_DEADLOCK FALSE
