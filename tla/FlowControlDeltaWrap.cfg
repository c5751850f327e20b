\* Reproduction, uint32_t narrowed to 4 bits: Deltas close to 2^32 (here 2^4), which CheckOption admits.
\* Run with: tlc -workers 2 -config FlowControlDeltaWrap.cfg FlowControl
CONSTANTS
  Width = 4
  NumVals = {1, 2, 3}
  DeltaVals = {1, 15}
  JudgeVals = {0, 1}
  FrameVals = {1, 3}
  MaxPhaseMs = 4
  Backlog = 3
  MaxRun = 3
SPECIFICATION Spec
INVARIANT DealWithinRange
