SPECIFICATION Spec
CONSTANTS
  t1 = t1
  t2 = t2
  t3 = t3
  s1 = s1
  s2 = s2
  p1 = p1
  p2 = p2
  TargetNames = {t1, t2, t3}
  SourceNames = {s1, s2}
  Periods = {p1, p2}
  Configs <- All
  Freed = Freed
  Failures = {"target", "timer", "trigger", "handle"}
INVARIANTS MappingIntact SamplesWriteSafely TriggersServeTargets
CHECK_DEADLOCK FALSE
