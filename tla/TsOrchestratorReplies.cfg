SPECIFICATION Spec
CONSTANTS
  Create = {c1, c2}
  Destroy = {}
  Shutdown = {}
  Command = {k1}
  AutoStart = FALSE
  Specs <- AllSpecs
  MaxProc = 3
INVARIANT InstanceIsOurs
CHECK_DEADLOCK FALSE
