SPECIFICATION FairSpec
CONSTANTS
  Create = {c1}
  Destroy = {d1, s1}
  Shutdown = {s1}
  Command = {k1}
  AutoStart = TRUE
  Specs <- FullSpecs
  MaxProc = 2
  MaxEnds = 1
INVARIANTS
  InstanceIsOurs
  Settled
PROPERTIES
  ImplementsLifecycle
  NobodyWaits
CHECK_DEADLOCK FALSE
