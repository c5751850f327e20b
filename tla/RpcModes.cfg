CONSTANTS
  r1 = r1
  r2 = r2
  NoCtx = NoCtx
SPECIFICATION Spec
INVARIANTS
  PendingTimerPaired
  PendingOwnerAlive
  CoroutineWaitsOnRow
  RunAtMostOnce
PROPERTIES
  RequestCompletes
  StopReadyEventually
  ClientContextFreed
