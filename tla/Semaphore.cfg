SPECIFICATION SemSpec
CONSTANTS
    Users = {t1, t2, t3}
    StartCount = 1
    MaxCount = 3
INVARIANTS SemTypeOK NoSleeperWithTokens
PROPERTIES WaitsReturn
