CONSTANTS
  MaxNum = 2
  TSize = 24
  Buckets = 2
  k1 = k1
  k2 = k2
  k3 = k3
  NoKey = NoKey
  Keys <- MCKeys
  Hash <- MCHash
  Regions <- MCShort
SPECIFICATION Spec
INVARIANT NodesInRegion
