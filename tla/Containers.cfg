CONSTANTS
  k1 = k1
  k2 = k2
  k3 = k3
  NoKey = NoKey
  v1 = v1
  v2 = v2
  NoVal = NoVal
  Zero = Zero
  a = a
  b = b
  NoItem = NoItem
  sA = sA
  sB = sB
  sC = sC
  sD = sD
SPECIFICATION Spec
INVARIANTS
  ChainsMatchPool
  WellFormed
  WalkVisitsAll
  ListWellFormed
  NoFault
  HooksFollowIndex
PROPERTIES
  ReattachKeepsHandles
  PoolRefinement
  HashRefinement
  SetRefinement
  ListRefinement
  VectorRefinement
  RecordRingRefinement
  OverwriteRingRefinement
