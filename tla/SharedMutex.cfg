SPECIFICATION MutexSpec
CONSTANTS
    Threads = {t1, t2, t3, t4}
    MaxReaders = 3
INVARIANTS MutexTypeOK HoldersAsCounted WakeupsNotLost
PROPERTIES ImplementsRWLock
