SPECIFICATION Spec
CONSTANTS
    Controllers = {main}
    Workers = {w1, w2, w3}
    NoThread = NoThread
    Uses <- AllUses
INVARIANTS TypeOK StopsCleanly CallbacksSerialized
PROPERTIES TimerRunsItsCourse
CHECK_DEADLOCK FALSE
