SPECIFICATION Spec
CONSTANTS
    Controllers = {main}
    Workers = {w1, w2}
    NoThread = NoThread
    Uses <- OneShotStopped
PROPERTIES StopReturns
CHECK_DEADLOCK FALSE
