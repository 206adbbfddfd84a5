SPECIFICATION Spec
CONSTANTS
  s1 = s1
  s2 = s2
  r = r
  Timer = Timer
  Threads <- AllThreads
  MaxReaders = 2
  Targets <- TwoTargets
  Sources <- BothSources
  Readers = {r}
  Writes <- WriteBoth
  Sends <- SendSome
  TimeTargets = {}
  MaxCalls = 1
INVARIANTS TypeOK
PROPERTIES BufferStable ImplementsSnapshot CallsReturn
CHECK_DEADLOCK FALSE
