\* Reproduction, uint32_t narrowed to 4 bits: min_num = 0, which CheckOption admits.
\* Run with: tlc -workers 2 -config FlowControlSchedulerZero.cfg FlowControl
CONSTANTS
  Width = 4
  NumVals = {0, 1, 2}
  DeltaVals = {1, 2}
  JudgeVals = {0, 1}
  FrameVals = {1, 3}
  MaxPhaseMs = 4
  Backlog = 3
  MaxRun = 3
SPECIFICATION Spec
INVARIANT SchedulerWithinBudget
