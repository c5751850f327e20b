CONSTANTS
  r1 = r1  r2 = r2  n1 = n1  n2 = n2  p1 = p1  u1 = u1
  NoFrame = NoFrame
  t1 = t1  t2 = t2  t3 = t3
SPECIFICATION Spec
INVARIANTS
  NoOrphanEvent
  DealWithinRange
  SustainedLoadConverges
  NoRepeatCrash
  CallbackOnce
PROPERTIES
  CancelledNeverRuns
  EveryTimerRuns
  DropOnlyCrashed
  EveryHealthyHandled
  CallbackRuns
