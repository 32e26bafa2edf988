SPECIFICATION Spec
CONSTANTS
    Worlds <- ImageWorlds
    Creator = {k1, k2}
INVARIANT NeverClobbered
CHECK_DEADLOCK FALSE
