\* Reproduction: a region with room for the header only (HeadSize = 32).
\* Run with: tlc -workers 2 -config FixedRingBufHeaderOnly.cfg FixedRingBuf
CONSTANTS
  TSize = 4
  NoVal = NoVal
  Vals = {v1, v2}
  MemSizes = {32}
SPECIFICATION Spec
INVARIANTS NoDivByZero
CHECK_DEADLOCK FALSE
