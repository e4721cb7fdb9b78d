CONSTANTS
  MaxId <- MCMaxId
  IdlHash <- MCIdlHash
  Fill <- MCFill
  Name <- MCName
  Types <- MCTypes
  Subtypes <- MCSubtypes
  Rank <- MCRank
  Sources <- MCSources
  Expectations <- MCExpectations
  Queries <- MCQueries
  MaxQueries = 2
SPECIFICATION Spec
INVARIANTS
  CacheSound
  RoundTrip
  LaterArgumentsIntact
  DecodedFits
  TruncatedRefused
  SupertypeDecodes
CHECK_DEADLOCK FALSE
