--------------------------- MODULE MCMappingEngine ---------------------------
(***************************************************************************)
(* Configurations for the runs of MappingEngine.                           *)
(***************************************************************************)
EXTENDS MappingEngine

CONSTANTS t1, t2, t3, s1, s2, p1, p2

Wiring(as, rs, ns) == [assigned |-> as, received |-> rs, triggers |-> ns]

Signal(s) == <<"signal", s>>
Data(s) == <<"data", s>>
Period(p) == <<"period", p>>

\* Every target copies elements of each source it refers to, and targets that
\* share a source share the trigger on it.
SharedTriggers ==
  {[t \in {t1, t2, t3} |->
      CASE t = t1 -> Wiring({s1, s2}, {}, {Signal(s1), Data(s2), Period(p1)})
        [] t = t2 -> Wiring({s1}, {}, {Signal(s1), Period(p2)})
        [] t = t3 -> Wiring({s2}, {}, {Data(s2), Period(p1)})],
   [t \in {t1, t2} |->
      IF t = t1 THEN Wiring({s2}, {}, {Data(s2), Period(p2)})
                ELSE Wiring({}, {}, {Period(p1)})]}

\* What the mapping language allows beyond that: received() flags without a
\* copy, triggers on a source that is not copied, targets without a trigger.
Mixed ==
  {[t \in {t1, t2} |->
      IF t = t1 THEN Wiring({s1}, {s2}, {Signal(s1), Period(p1)})
                ELSE Wiring({s1}, {s1}, {Data(s2)})],
   [t \in {t1, t2} |->
      IF t = t1 THEN Wiring({s1, s2}, {}, {})
                ELSE Wiring({}, {s1}, {Signal(s2), Period(p1)})]}

All == SharedTriggers \cup Mixed
=============================================================================
