---------------------------- MODULE MappingEngine ----------------------------
(***************************************************************************)
(* The structure the mapping engine builds at run time (ddl/mapping/engine *)
(* mapping_engine.cpp, source.cpp, target.cpp and the three triggers): who *)
(* points to whom after any sequence of Map, unmap, unmapAll, start, stop, *)
(* setConfiguration and destruction, and what a sample or a timer tick     *)
(* touches through those pointers.  One thread calls the engine and its    *)
(* callbacks; the interleavings of callbacks are module MappingDataflow.   *)
(*                                                                         *)
(* Targets, sources and triggers own nothing of each other, they hold raw  *)
(* pointers.  A pointer is the name of what it points to, and becomes      *)
(* Freed in every list that still holds it when the object is deleted.     *)
(* A target's elements live and die with it, so a pointer to an element is *)
(* a pointer to its target.  Which bytes an element copies is left out.    *)
(***************************************************************************)
EXTENDS Functions

CONSTANTS TargetNames,  \* targets a client may map
          SourceNames,  \* sources they may refer to
          Periods,      \* periods of the periodic triggers
          Configs,      \* configurations setConfiguration may be given
          Freed,        \* a pointer whose object has been deleted
          Failures      \* what may fail in a Map, a subset of FailureKinds

FailureKinds == {"target", "timer", "trigger", "handle"}

Triggers == {"signal", "data"} \X SourceNames \cup {"period"} \X Periods

\* What one target of a configuration asks for: the sources it copies elements
\* of, the sources it has a received() flag of, and its triggers.
Wirings == [assigned : SUBSET SourceNames, received : SUBSET SourceNames,
            triggers : SUBSET Triggers]

\* A configuration: the wiring of each of the targets it has.
ASSUME ConfigsAssumption ==
  \A c \in Configs : /\ DOMAIN c \subseteq TargetNames
                     /\ \A t \in DOMAIN c : c[t] \in Wirings
ASSUME FreedAssumption == Freed \notin TargetNames \cup Triggers
ASSUME FailuresAssumption == Failures \subseteq FailureKinds

VARIABLES
  config,    \* _map_config
  running,   \* _running
  targets,   \* _targets: the names that have a Target object
  sources,   \* _sources: the objects, each with its four lists of pointers
  triggers,  \* _triggers: the objects, each with its targets and its flag
  mapped,    \* targets whose Map succeeded, with the wiring they were given
  stale,     \* a client still has the handle of an unmapped target
  retired,   \* targets targetUnmapped has just been called for
  sent,      \* targets sendTarget has just been called for
  life,      \* "up", "gone" (destroyed) or "fault" (a freed object was used)
  tidy       \* history: nothing was asked for but tidy targets, see TidyWith

vars == <<config, running, targets, sources, triggers, mapped, stale, retired,
          sent, life, tidy>>

TargetPointers == TargetNames \cup {Freed}
SourceObjects == [assigned : SUBSET TargetPointers, received : SUBSET TargetPointers,
                  locks : SUBSET TargetPointers, fires : SUBSET (Triggers \cup {Freed})]
TriggerObjects == [targets : SUBSET TargetPointers, running : BOOLEAN]

TypeOK ==
  /\ config \in Configs
  /\ running \in BOOLEAN /\ stale \in BOOLEAN
  /\ targets \subseteq TargetNames
  /\ DOMAIN sources \subseteq SourceNames /\ Range(sources) \subseteq SourceObjects
  /\ DOMAIN triggers \subseteq Triggers /\ Range(triggers) \subseteq TriggerObjects
  /\ DOMAIN mapped \subseteq TargetNames /\ Range(mapped) \subseteq Wirings
  /\ retired \subseteq TargetNames /\ sent \subseteq TargetPointers
  /\ life \in {"up", "gone", "fault"} /\ tidy \in BOOLEAN

-----------------------------------------------------------------------------
(* Helpers.                                                                *)

NewSource == [assigned |-> {}, received |-> {}, locks |-> {}, fires |-> {}]
NewTrigger == [targets |-> {}, running |-> FALSE]
None == [x \in {} |-> x]

\* The sources getReferencedSources() lists: map_target.cpp enters a source for
\* every assignment and for every signal or data trigger.
References(w) ==
  w.assigned \cup w.received \cup
    {n[2] : n \in {m \in w.triggers : m[1] # "period"}}

\* The objects of f, and a fresh one under each further name of names.
Extended(f, names, fresh) ==
  [n \in DOMAIN f \cup names |-> IF n \in DOMAIN f THEN f[n] ELSE fresh]

\* Source::addAssignment of elements of target p for the sources of as (copied)
\* and rs (received()), and Source::addTrigger of the triggers fired[s].
Attached(srcs, p, as, rs, fired) ==
  [s \in DOMAIN srcs |->
     LET If(S) == IF s \in S THEN {p} ELSE {} IN
     [assigned |-> srcs[s].assigned \cup If(as),
      received |-> srcs[s].received \cup If(rs),
      locks    |-> srcs[s].locks \cup If(as \cup rs),
      fires    |-> srcs[s].fires \cup fired[s]]]

\* The triggers of names that source s itself fires.
FiredBy(s, names) == names \cap ({"signal", "data"} \X {s})

\* Pointers of P after the objects of gone have been deleted.
Dangling(P, gone) == (P \ gone) \cup (IF P \cap gone # {} THEN {Freed} ELSE {})

\* What unmap copes with: a target that copies from every source it refers to
\* and has the triggers on it that the targets sharing that source have.
TidyWith(w) ==
  /\ w.received = {} /\ References(w) \subseteq w.assigned
  /\ \A t \in DOMAIN mapped, s \in w.assigned :
       s \in mapped[t].assigned => FiredBy(s, w.triggers) = FiredBy(s, mapped[t].triggers)

-----------------------------------------------------------------------------
Init ==
  /\ config \in Configs
  /\ running = FALSE /\ stale = FALSE
  /\ targets = {} /\ retired = {} /\ sent = {}
  /\ sources = None /\ triggers = None /\ mapped = None
  /\ life = "up" /\ tidy = TRUE

Quiet == retired' = {} /\ sent' = {}

\* The process has used a deleted object; the model follows it no further.
Fault ==
  /\ life' = "fault"
  /\ Quiet
  /\ UNCHANGED <<config, running, targets, sources, triggers, mapped, stale, tidy>>

SetConfiguration(c) ==
  /\ life = "up" /\ c # config
  /\ config' = c
  /\ Quiet
  /\ UNCHANGED <<running, targets, sources, triggers, mapped, stale, life, tidy>>

\* Map returns early when the name is taken or not configured.
CanMap(t) == life = "up" /\ t \in DOMAIN config \ targets

\* Map with every step succeeding.  Triggers of a new name are created stopped,
\* even while the engine runs.  The result of addTrigger is not looked at, so a
\* data trigger may come to exist without its source knowing it (deaf).
Map(t) ==
  LET w == config[t] IN
  /\ CanMap(t)
  /\ \E deaf \in SUBSET {n \in w.triggers : n[1] = "data"} :
       /\ deaf = {} \/ "trigger" \in Failures
       /\ sources' = Attached(Extended(sources, References(w), NewSource), t,
                              w.assigned, w.received,
                              [s \in SourceNames |-> FiredBy(s, w.triggers \ deaf)])
       /\ tidy' = (tidy /\ deaf = {} /\ TidyWith(w))
  /\ triggers' = LET all == Extended(triggers, w.triggers, NewTrigger) IN
       [n \in DOMAIN all |->
          IF n \in w.triggers THEN [all[n] EXCEPT !.targets = @ \cup {t}] ELSE all[n]]
  /\ targets' = targets \cup {t}
  /\ mapped' = [u \in DOMAIN mapped \cup {t} |-> IF u = t THEN w ELSE mapped[u]]
  /\ Quiet
  /\ UNCHANGED <<config, running, stale, life>>

\* Target::create fails after some of its assignments were added: the target
\* and its elements go, and so do the sources made for it, but the lists of the
\* sources that were there before keep what they were given.  (A failure to
\* resolve a type or to create a source comes before and leaves no trace.)
MapTargetFails(t) ==
  LET w == config[t] IN
  /\ CanMap(t) /\ "target" \in Failures
  /\ \E as \in SUBSET w.assigned, rs \in SUBSET w.received :
       sources' = Attached(sources, Freed, as, rs, [s \in SourceNames |-> {}])
  /\ tidy' = FALSE
  /\ Quiet
  /\ UNCHANGED <<config, running, targets, triggers, mapped, stale, life>>

\* The environment refuses the timer of a new periodic trigger, after the
\* triggers of done were dealt with.  New sources and new triggers are deleted
\* and the target leaves the others, but it stays in _targets, and the sources
\* that were there before keep their pointers to it and to those triggers.
MapTimerFails(t) ==
  LET w == config[t] IN
  /\ CanMap(t) /\ "timer" \in Failures
  /\ \E n \in w.triggers \ DOMAIN triggers :
       /\ n[1] = "period"
       /\ \E done \in SUBSET (w.triggers \ {n}) :
            sources' = Attached(sources, t, w.assigned, w.received,
                                [s \in SourceNames |->
                                   Dangling(FiredBy(s, done), Triggers \ DOMAIN triggers)])
  /\ targets' = targets \cup {t}
  /\ tidy' = FALSE
  /\ Quiet
  /\ UNCHANGED <<config, running, triggers, mapped, stale, life>>

-----------------------------------------------------------------------------
(* unmap, on the structure m of the targets, sources and triggers: the     *)
(* target leaves the triggers and those left empty are deleted; it leaves  *)
(* the assignments and the lock list of every source, and sources left     *)
(* with no assignment are deleted; then the target itself is deleted.      *)
(* Here for a set T of targets, at least one: unmapAll takes them one      *)
(* after the other, and the order makes no difference.                     *)

LeftTriggers_KeepsEmpty(m, T) == DOMAIN m.triggers

LeftTriggers(m, T) ==
  {n \in DOMAIN m.triggers : m.triggers[n].targets \ T # {}}

LeftSources_DropsUsed(m, T) ==
  {s \in DOMAIN m.sources : T \cap m.sources[s].assigned = {}}

LeftSources(m, T) ==
  {s \in DOMAIN m.sources : m.sources[s].assigned \ T # {}}

Unmapped_KeepsLock(m, T) ==
  LET gone == DOMAIN m.triggers \ LeftTriggers(m, T) IN
  [targets |-> m.targets \ T,
   triggers |-> [n \in LeftTriggers(m, T) |->
                   [m.triggers[n] EXCEPT !.targets = @ \ T]],
   sources |-> [s \in LeftSources(m, T) |->
                  [assigned |-> m.sources[s].assigned \ T,
                   received |-> Dangling(m.sources[s].received, T),
                   locks    |-> Dangling(m.sources[s].locks, T),
                   fires    |-> Dangling(m.sources[s].fires, gone)]]]

\* Source::removeAssignmentsFor leaves received() elements and triggers alone.
Unmapped(m, T) ==
  LET gone == DOMAIN m.triggers \ LeftTriggers(m, T) IN
  [targets |-> m.targets \ T,
   triggers |-> [n \in LeftTriggers(m, T) |->
                   [m.triggers[n] EXCEPT !.targets = @ \ T]],
   sources |-> [s \in LeftSources(m, T) |->
                  [assigned |-> m.sources[s].assigned \ T,
                   received |-> Dangling(m.sources[s].received, T),
                   locks    |-> m.sources[s].locks \ T,
                   fires    |-> Dangling(m.sources[s].fires, gone)]]]

\* removeAssignmentsFor asks every copied element for its target.
ReadsFreed == \E s \in DOMAIN sources : Freed \in sources[s].assigned

Remove(T) ==
  LET m == [targets |-> targets, triggers |-> triggers, sources |-> sources]
      n == IF T = {} THEN m ELSE Unmapped(m, T)
  IN  /\ targets' = n.targets /\ triggers' = n.triggers /\ sources' = n.sources
      /\ mapped' = [u \in DOMAIN mapped \ T |-> mapped[u]]
      /\ retired' = T
      /\ sent' = {}

Unmap(t) ==
  /\ life = "up" /\ ~running
  /\ t \in DOMAIN mapped
  /\ \/ ReadsFreed /\ Fault
     \/ /\ ~ReadsFreed
        /\ Remove({t})
        /\ stale' = ("handle" \in Failures)
        /\ UNCHANGED <<config, running, life, tidy>>

\* unmap of a handle whose target has been deleted: nothing looks the handle
\* up, and the name is read from the deleted target.
UnmapStale ==
  /\ life = "up" /\ ~running /\ stale
  /\ life' = "fault" /\ tidy' = FALSE
  /\ Quiet
  /\ UNCHANGED <<config, running, targets, sources, triggers, mapped, stale>>

UnmapAll ==
  /\ life = "up" /\ ~running
  /\ targets # {}
  /\ \/ ReadsFreed /\ Fault
     \/ /\ ~ReadsFreed
        /\ Remove(targets)
        /\ stale' = (stale \/ (mapped # None /\ "handle" \in Failures))
        /\ UNCHANGED <<config, running, life, tidy>>

\* start and stop refuse when there is nothing to do, else pass to the triggers.
Switch(on) ==
  /\ life = "up" /\ running # on
  /\ running' = on
  /\ triggers' = [n \in DOMAIN triggers |-> [triggers[n] EXCEPT !.running = on]]
  /\ Quiet
  /\ UNCHANGED <<config, targets, sources, mapped, stale, life, tidy>>

Start == Switch(TRUE)
Stop == Switch(FALSE)

\* The destructor stops and unmaps everything.
Destroy ==
  /\ life = "up"
  /\ \/ ReadsFreed /\ targets # {} /\ Fault
     \/ /\ ~ReadsFreed \/ targets = {}
        /\ Remove(targets)
        /\ running' = FALSE
        /\ life' = "gone"
        /\ UNCHANGED <<config, stale, tidy>>

-----------------------------------------------------------------------------
(* What the environment calls: a source for as long as it is registered    *)
(* (from Source::create to ~Source), a timer likewise.                     *)

\* Every target of a running trigger is sent.
Transmitted(names) ==
  UNION {triggers[n].targets : n \in {m \in names : triggers[m].running}}

\* onSampleReceived uses every pointer of the source, signal triggers transmit
\* and data triggers transmit when their comparison (yes) says so.
OnSampleReceived(s) ==
  /\ life = "up" /\ s \in DOMAIN sources
  /\ LET o == sources[s] IN
     IF Freed \in o.assigned \cup o.received \cup o.locks \cup o.fires
     THEN Fault
     ELSE /\ \E yes \in SUBSET {n \in o.fires : n[1] = "data"} :
               sent' = Transmitted(yes \cup {n \in o.fires : n[1] = "signal"})
          /\ retired' = {}
          /\ UNCHANGED <<config, running, targets, sources, triggers, mapped,
                         stale, life, tidy>>

OnTimer(p) ==
  /\ life = "up" /\ <<"period", p>> \in DOMAIN triggers
  /\ sent' = Transmitted({<<"period", p>>})
  /\ retired' = {}
  /\ UNCHANGED <<config, running, targets, sources, triggers, mapped, stale, life,
                 tidy>>

Next ==
  \/ \E c \in Configs : SetConfiguration(c)
  \/ \E t \in TargetNames :
       Map(t) \/ MapTargetFails(t) \/ MapTimerFails(t) \/ Unmap(t)
  \/ UnmapStale
  \/ UnmapAll
  \/ Start \/ Stop \/ Destroy
  \/ \E s \in SourceNames : OnSampleReceived(s)
  \/ \E p \in Periods : OnTimer(p)

Spec == Init /\ [][Next]_vars

-----------------------------------------------------------------------------
(* Properties.                                                             *)

\* What Map set up for a tidy target stays in place until that target is
\* unmapped, whatever is mapped and unmapped around it: its sources copy it, it
\* belongs to its triggers, and its sources fire those that are theirs.
MappingIntact ==
  tidy => \A t \in DOMAIN mapped :
    LET w == mapped[t] IN
    /\ References(w) \subseteq DOMAIN sources
    /\ w.triggers \subseteq DOMAIN triggers
    /\ \A s \in w.assigned : t \in sources[s].assigned
    /\ \A n \in w.triggers : t \in triggers[n].targets
    /\ \A s \in References(w) : FiredBy(s, w.triggers) \subseteq sources[s].fires

\* A sample is written into a target only with that target's lock held: a source
\* locks every target it has an element of.  With tidy targets no call of the
\* engine and no sample or timer tick uses a deleted target, element or trigger,
\* however they are mapped and unmapped.
SamplesWriteSafely ==
  /\ \A s \in DOMAIN sources :
         (sources[s].assigned \cup sources[s].received) \ {Freed} \subseteq sources[s].locks
  /\ tidy => life # "fault"

\* A trigger sends targets the client has a handle of, nothing else, and it
\* goes (with its timer) with its last target; with the last target of all go
\* the last source and trigger, and so every registration with the environment.
TriggersServeTargets ==
  /\ \A n \in DOMAIN triggers :
         triggers[n].targets # {} /\ triggers[n].targets \subseteq DOMAIN mapped
  /\ targets = {} => sources = None /\ triggers = None
=============================================================================
