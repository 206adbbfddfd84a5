CONSTANTS
    None = None
    Worlds <- EraseWorlds
SPECIFICATION Spec
INVARIANTS ValidTargetsAreTyped
CHECK_DEADLOCK FALSE
