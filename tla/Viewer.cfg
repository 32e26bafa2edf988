SPECIFICATION Spec
CONSTANTS
    Client = {c1, c2}
    Cap = 1
    MaxViewers = 2
INVARIANTS PermitsHold OnlyAdmitted
PROPERTY RelayEnds
CHECK_DEADLOCK FALSE
