SPECIFICATION Spec
CONSTANTS
  root = root
  subnetA = subnetA
  subnetB = subnetB
  rangesA = rangesA
  rangesB = rangesB
  undefined = undefined
  None = undefined
  RootKey = root
  LookupPath <- MCLookupPath
  LookupSubtree <- MCLookupSubtree
  FindLabel <- MCFindLabel
  Reconstruct <- MCReconstruct
  NodesOf <- MCNodesOf
  SubtreesAt <- MCSubtreesAt
  ComparedAlong <- MCComparedAlong
  Height <- MCHeight
  DecodeRanges <- MCDecodeRanges
  TimePath <- MCTimePath
  RangesPath <- MCRangesPath
  KeyPath <- MCKeyPath
  Options <- MCOptions
  Labels <- TwoBytes
  Assigned <- MCAssigned
  Trees <- MCTrees
  States <- MCStates
  TreeLabels <- MCTreeLabels
  Paths <- MCPaths
  Skews <- MCSkews
  MaxAge = 2
  DelegationMaxAge = 3
  MaxFuture = 2
  Lag = 1
  MaxSync = 1
  StartTime = 2
  MaxTime = 5
INVARIANT
  LookupsTellTheState
CHECK_DEADLOCK FALSE
