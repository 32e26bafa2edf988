SPECIFICATION TimelySpec
CONSTANTS
  Create = {c1, c2}
  Destroy = {d1, s1}
  Shutdown = {s1}
  Command = {k1}
  AutoStart = TRUE
  Specs <- Everything
  MaxProc = 2
INVARIANTS
  FieldsHold
  InstanceIsOurs
PROPERTIES
  ImplementsLifecycle
  EverythingEnds
  ShutdownTakesInstance
CHECK_DEADLOCK FALSE
