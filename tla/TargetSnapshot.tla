--------------------------- MODULE TargetSnapshot ---------------------------
(***************************************************************************)
(* What the mapping engine promises those who look at its targets: every   *)
(* buffer that is sent or read holds whole samples, and the trigger        *)
(* counter in it counts the buffers sent.  MappingDataflow is shown to     *)
(* implement this specification.                                           *)
(***************************************************************************)
EXTENDS Naturals

CONSTANTS Targets, Sources,
          Viewers,   \* the threads that send or read targets
          Writes,    \* the targets each source has elements in
          Samples    \* sample numbers, 0 being the default value

VARIABLES value,   \* the sample each target holds of each source
          count,   \* buffers sent of each target since the last reset
          seen     \* the last buffer each thread sent or read

vars == <<value, count, seen>>

\* A source has two elements in a target; both show the same sample.
View(t, n) == [counter |-> n,
               first   |-> [s \in Sources |-> value[t][s]],
               second  |-> [s \in Sources |-> value[t][s]]]

Init ==
  /\ value = [t \in Targets |-> [s \in Sources |-> 0]]
  /\ count = [t \in Targets |-> 0]
  /\ seen = [v \in Viewers |-> <<>>]

\* A sample appears in all targets of its source at once.
Update(s, n) ==
  /\ value' = [t \in Targets |->
                 IF t \in Writes[s] THEN [value[t] EXCEPT ![s] = n] ELSE value[t]]
  /\ UNCHANGED <<count, seen>>

Send(v, t) ==
  /\ count' = [count EXCEPT ![t] = @ + 1]
  /\ seen' = [seen EXCEPT ![v] = <<t, View(t, count[t] + 1)>>]
  /\ UNCHANGED value

Read(v, t) ==
  /\ seen' = [seen EXCEPT ![v] = <<t, View(t, count[t])>>]
  /\ UNCHANGED <<value, count>>

Reset ==
  /\ value' = [t \in Targets |-> [s \in Sources |-> 0]]
  /\ count' = [t \in Targets |-> 0]
  /\ UNCHANGED seen

Next ==
  \/ \E s \in Sources, n \in Samples : Update(s, n)
  \/ \E v \in Viewers, t \in Targets : Send(v, t) \/ Read(v, t)
  \/ Reset

Spec == Init /\ [][Next]_vars
=============================================================================
