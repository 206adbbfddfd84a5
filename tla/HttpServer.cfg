SPECIFICATION HttpSpec
CONSTANTS
    Connections = {c1, c2, c3}
    StopsFirst = TRUE
INVARIANTS CountsMatchThreads StopListeningDrains
PROPERTIES StopListeningReturns ConnectionsServed
CHECK_DEADLOCK FALSE
