-------------------------- MODULE MCMappingDataflow --------------------------
(***************************************************************************)
(* Wirings for the runs of MappingDataflow: two targets and two sources,   *)
(* both sources writing both targets.                                      *)
(***************************************************************************)
EXTENDS MappingDataflow

CONSTANTS s1, s2, r

TwoTargets == {1, 2}
BothSources == {s1, s2}
AllThreads == {s1, s2, r, Timer}

WriteBoth == [s \in BothSources |-> TwoTargets]

\* s1 sends target 1 on each sample, the timer sends both, s2 has no trigger.
SendSome == [n \in {s1, Timer} |-> IF n = s1 THEN {1} ELSE {1, 2}]

\* Only the timer sends.
SendTimer == [n \in {Timer} |-> {1, 2}]
=============================================================================
