CONSTANTS
  NoData = NoData
  Producers = {p1, p2}
  PushesPer = 2
  QueueSize = 3
  MaxTry = 2
SPECIFICATION Spec
INVARIANTS NoSlotRace
PROPERTIES FifoRefinement PushedArePopped
