\* Two pools, three blocks, two markers per pool.
SPECIFICATION Spec
CONSTANTS
  p1 = p1
  p2 = p2
  b1 = b1
  b2 = b2
  b3 = b3
  Pools <- MCPools
  Blocks <- MCBlocks
  kMinBlockSize = 2
  Sizes <- MCSizes
  MaxMarks = 2
  NoBlock = NoBlock
SYMMETRY PoolBlockSymmetry
INVARIANTS
  NoOverlap
  LiveIsHeld
  BlocksAreRecycled
PROPERTY PopReclaims
CHECK_DEADLOCK FALSE
