SPECIFICATION FairSpec
CONSTANTS
  Capacity = 2
  EventName = {SHUTDOWN, RESET}
  AnyName = anyName
  Call = {w1}
  MaxEvents = 3
  MaxInst = 2
INVARIANTS
  RingHolds
  WaitsHonest
  NoBleed
  PagerAccountsForAll
PROPERTIES
  ImplementsFeed
  EveryWaitEnds
CHECK_DEADLOCK FALSE
