SPECIFICATION Spec
CONSTANTS
    Worlds <- AllWorlds
    Creator = {k1, k2}
INVARIANTS DeniedNeverSent OnlyTheOperatorsCallers WithinTheOperatorsLimits NothingReachesOut
CHECK_DEADLOCK FALSE
