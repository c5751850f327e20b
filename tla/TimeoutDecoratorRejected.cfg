CONSTANTS
  MaxTime = 3
  Intervals = {0, 2}
  MaxAdds = 2
  UseScheduler = TRUE
  SchedRejects = TRUE
  UseCoroutine = TRUE
  SpawnFails = FALSE
SPECIFICATION Spec
INVARIANTS NoOrphanEvent

