CONSTANTS
    None = None
    Worlds <- AllWorlds
SPECIFICATION Spec
INVARIANTS TypeOK ReferencesMatch ValidFits
CHECK_DEADLOCK FALSE
