CONSTANTS
  MaxNum = 3
  Buckets = 1
  k1 = k1
  k2 = k2
  k3 = k3
  k4 = k4
  NoKey = NoKey
  Keys <- MCKeys
  Hash <- MCHash
  Preds <- MCPreds
SPECIFICATION Spec
SYMMETRY MCSymmetry
INVARIANTS ChainExact
PROPERTIES LRURefinement
