SPECIFICATION Spec
CONSTANTS
    Threads = {admin, r1, r2}
    MaxReaders = 3
    Objects = {a, b}
    NoObject = NoObject
    Admins = {admin}
    NestedUses <- AllNestedUses
INVARIANTS TypeOK MutexesMatchCalls
PROPERTIES ImplementsDirectory UnregisterReturns
CHECK_DEADLOCK FALSE
