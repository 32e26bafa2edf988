SPECIFICATION FairSpec
CONSTANTS
  Capacity = 2
  ChannelCapacity = 1
  EventName = {SHUTDOWN, RESET}
  AnyName = anyName
  Call = {w1}
  MaxEvents = 2
  MaxInst = 2
INVARIANTS
  BufferHolds
  MatchIsFirst
  PagerAccountsForAll
PROPERTY EveryWaitEnds
CHECK_DEADLOCK FALSE
