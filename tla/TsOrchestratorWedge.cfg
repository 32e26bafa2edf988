SPECIFICATION FairSpec
CONSTANTS
  Create = {c1}
  Destroy = {}
  Shutdown = {}
  Command = {k1}
  AutoStart = TRUE
  Specs <- Headless
  MaxProc = 1
PROPERTY SlotComesBack
CHECK_DEADLOCK FALSE
