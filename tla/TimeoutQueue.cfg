CONSTANTS
  MaxTime = 3
  Intervals = {0, 2}
  MaxAdds = 3
SPECIFICATION Spec
INVARIANTS
  IndexMatchesQueue
  DrainFiresExactlyDue
PROPERTIES
  CancelledNeverFires
  EveryTimerFires
