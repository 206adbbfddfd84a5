------------------------- MODULE MappingEngineProofs -------------------------
(***************************************************************************)
(* Proofs about MappingEngine, for every set of targets, sources, periods  *)
(* and configurations and every kind of failure: its types, that triggers  *)
(* serve mapped targets only and go with the last one, that every write is *)
(* under a lock, and that tidy targets stay wired and never meet a deleted *)
(* object.                                                                 *)
(***************************************************************************)
EXTENDS MappingEngine, TLAPS

(* The invariant *)

\* A source has its elements from targets that exist, or from deleted ones.
SourcesHang ==
  \A s \in DOMAIN sources :
    /\ (sources[s].assigned \cup sources[s].received) \ {Freed} \subseteq sources[s].locks
    /\ sources[s].assigned \subseteq targets \cup {Freed}

\* A source fires triggers that exist, or deleted ones.
FiresHang ==
  \A s \in DOMAIN sources : \A n \in sources[s].fires : n = Freed \/ n \in DOMAIN triggers

TriggersHang ==
  \A n \in DOMAIN triggers :
    triggers[n].targets # {} /\ triggers[n].targets \subseteq DOMAIN mapped

\* The pointers of the source s are those the mapped targets ask for, and all the
\* targets that share it have the same triggers on it.
TidySource(s) ==
  LET o == sources[s] IN
  /\ o.received = {} /\ o.assigned # {} /\ o.locks \subseteq o.assigned
  /\ o.assigned \subseteq DOMAIN mapped
  /\ \A t \in o.assigned : /\ s \in mapped[t].assigned
                           /\ o.fires = FiredBy(s, mapped[t].triggers)

TidyTarget(t) ==
  LET w == mapped[t] IN
  /\ w.received = {} /\ References(w) \subseteq w.assigned
  /\ \A s \in w.assigned : s \in DOMAIN sources /\ t \in sources[s].assigned
  /\ \A n \in w.triggers : n \in DOMAIN triggers /\ t \in triggers[n].targets

AllTidy ==
  /\ life # "fault"
  /\ targets = DOMAIN mapped
  /\ \A s \in DOMAIN sources : TidySource(s)
  /\ \A t \in DOMAIN mapped : TidyTarget(t)

IInv ==
  /\ TypeOK
  /\ DOMAIN mapped \subseteq targets
  /\ SourcesHang
  /\ FiresHang
  /\ TriggersHang
  /\ targets = {} => sources = None /\ triggers = None
  /\ tidy => AllTidy

-----------------------------------------------------------------------------
(* What triggers and wirings consist of *)

LEMMA FiredAreReferenced ==
  ASSUME NEW w \in Wirings, NEW s
  PROVE  /\ FiredBy(s, w.triggers) \subseteq w.triggers
         /\ FiredBy(s, w.triggers) # {} => s \in References(w)
<1>1. FiredBy(s, w.triggers) \subseteq w.triggers
  BY DEF FiredBy
<1>2. ASSUME NEW n \in FiredBy(s, w.triggers) PROVE s \in References(w)
  <2>1. n \in w.triggers /\ n \in {"signal", "data"} \X {s}
    BY <1>2 DEF FiredBy
  <2>2. n[1] # "period" /\ n[2] = s
    BY <2>1
  <2> QED
    BY <2>1, <2>2 DEF References
<1> QED
  BY <1>1, <1>2

LEMMA ReferencesAreSources ==
  ASSUME NEW w \in Wirings
  PROVE  References(w) \subseteq SourceNames
<1>1. ASSUME NEW n \in w.triggers, n[1] # "period" PROVE n[2] \in SourceNames
  <2>1. n \in {"signal", "data"} \X SourceNames \/ n \in {"period"} \X Periods
    BY DEF Wirings, Triggers
  <2> QED
    BY <1>1, <2>1
<1> QED
  BY <1>1 DEF References, Wirings

LEMMA ConfigsAreWirings ==
  ASSUME TypeOK, NEW t \in DOMAIN config
  PROVE  config[t] \in Wirings /\ t \in TargetNames
BY ConfigsAssumption DEF TypeOK

LEMMA InRange ==
  ASSUME NEW f, NEW S
  PROVE  Range(f) \subseteq S <=> \A x \in DOMAIN f : f[x] \in S
BY DEF Range

-----------------------------------------------------------------------------
(* Types *)

LEMMA TypesByObject ==
  TypeOK <=> /\ config \in Configs
             /\ running \in BOOLEAN /\ stale \in BOOLEAN
             /\ targets \subseteq TargetNames
             /\ DOMAIN sources \subseteq SourceNames
             /\ \A s \in DOMAIN sources : sources[s] \in SourceObjects
             /\ DOMAIN triggers \subseteq Triggers
             /\ \A n \in DOMAIN triggers : triggers[n] \in TriggerObjects
             /\ DOMAIN mapped \subseteq TargetNames
             /\ \A t \in DOMAIN mapped : mapped[t] \in Wirings
             /\ retired \subseteq TargetNames /\ sent \subseteq TargetPointers
             /\ life \in {"up", "gone", "fault"} /\ tidy \in BOOLEAN
<1>1. Range(sources) \subseteq SourceObjects <=> \A s \in DOMAIN sources : sources[s] \in SourceObjects
  BY InRange
<1>2. Range(triggers) \subseteq TriggerObjects <=> \A n \in DOMAIN triggers : triggers[n] \in TriggerObjects
  BY InRange
<1>3. Range(mapped) \subseteq Wirings <=> \A t \in DOMAIN mapped : mapped[t] \in Wirings
  BY InRange
<1> QED
  BY <1>1, <1>2, <1>3, Zenon DEF TypeOK

LEMMA TypesByObjectNext ==
  TypeOK' <=>
             /\ config' \in Configs
             /\ running' \in BOOLEAN /\ stale' \in BOOLEAN
             /\ targets' \subseteq TargetNames
             /\ DOMAIN sources' \subseteq SourceNames
             /\ \A s \in DOMAIN sources' : sources'[s] \in SourceObjects
             /\ DOMAIN triggers' \subseteq Triggers
             /\ \A n \in DOMAIN triggers' : triggers'[n] \in TriggerObjects
             /\ DOMAIN mapped' \subseteq TargetNames
             /\ \A t \in DOMAIN mapped' : mapped'[t] \in Wirings
             /\ retired' \subseteq TargetNames /\ sent' \subseteq TargetPointers
             /\ life' \in {"up", "gone", "fault"} /\ tidy' \in BOOLEAN
<1>1. Range(sources') \subseteq SourceObjects <=> \A s \in DOMAIN sources' : sources'[s] \in SourceObjects
  BY InRange
<1>2. Range(triggers') \subseteq TriggerObjects <=> \A n \in DOMAIN triggers' : triggers'[n] \in TriggerObjects
  BY InRange
<1>3. Range(mapped') \subseteq Wirings <=> \A t \in DOMAIN mapped' : mapped'[t] \in Wirings
  BY InRange
<1> QED
  BY <1>1, <1>2, <1>3, Zenon DEF TypeOK

LEMMA DanglingPointers ==
  ASSUME NEW All, NEW P \in SUBSET (All \cup {Freed}), NEW gone
  PROVE  Dangling(P, gone) \in SUBSET (All \cup {Freed})
BY DEF Dangling

LEMMA InitTidy == Init => IInv
<1> SUFFICES ASSUME Init PROVE IInv
  OBVIOUS
<1>1. DOMAIN sources = {} /\ DOMAIN triggers = {} /\ DOMAIN mapped = {}
  BY DEF Init, None
<1>2. TypeOK
  BY <1>1, TypesByObject DEF Init
<1> QED
  BY <1>1, <1>2 DEF Init, IInv, SourcesHang, FiresHang, TriggersHang, AllTidy

-----------------------------------------------------------------------------
(* Map *)

LEMMA AttachedPointers ==
  ASSUME NEW srcs, \A s \in DOMAIN srcs : srcs[s] \in SourceObjects,
         NEW p \in TargetPointers, NEW as, NEW rs, NEW fired,
         \A s \in DOMAIN srcs : fired[s] \in SUBSET (Triggers \cup {Freed})
  PROVE  /\ DOMAIN Attached(srcs, p, as, rs, fired) = DOMAIN srcs
         /\ \A s \in DOMAIN srcs : Attached(srcs, p, as, rs, fired)[s] \in SourceObjects
BY DEF Attached, SourceObjects

\* What a source new is, list by list, after the target p was attached to it.
Joined(new, old, p, as, rs, fired, s, x) ==
  /\ x \in new[s].assigned <=> x \in old[s].assigned \/ (s \in as /\ x = p)
  /\ x \in new[s].received <=> x \in old[s].received \/ (s \in rs /\ x = p)
  /\ x \in new[s].locks <=> x \in old[s].locks \/ ((s \in as \/ s \in rs) /\ x = p)
  /\ x \in new[s].fires <=> x \in old[s].fires \/ x \in fired[s]

LEMMA AttachedHas ==
  ASSUME NEW srcs, NEW p, NEW as, NEW rs, NEW fired, NEW new,
         new = Attached(srcs, p, as, rs, fired), NEW s \in DOMAIN srcs, NEW x
  PROVE  Joined(new, srcs, p, as, rs, fired, s, x)
<1> DEFINE If(S) == IF s \in S THEN {p} ELSE {}
           o == [assigned |-> srcs[s].assigned \cup If(as),
                 received |-> srcs[s].received \cup If(rs),
                 locks    |-> srcs[s].locks \cup If(as \cup rs),
                 fires    |-> srcs[s].fires \cup fired[s]]
<1>1. new[s] = o
  BY DEF Attached
<1>2. /\ x \in o.assigned <=> x \in srcs[s].assigned \/ (s \in as /\ x = p)
      /\ x \in o.received <=> x \in srcs[s].received \/ (s \in rs /\ x = p)
      /\ x \in o.locks <=> x \in srcs[s].locks \/ ((s \in as \/ s \in rs) /\ x = p)
      /\ x \in o.fires <=> x \in srcs[s].fires \/ x \in fired[s]
  OBVIOUS
<1> HIDE DEF o
<1> QED
  BY <1>1, <1>2 DEF Joined

LEMMA ExtendedHas ==
  ASSUME NEW f, NEW names, NEW fresh
  PROVE  /\ DOMAIN Extended(f, names, fresh) = DOMAIN f \cup names
         /\ \A n \in DOMAIN Extended(f, names, fresh) :
              Extended(f, names, fresh)[n] = IF n \in DOMAIN f THEN f[n] ELSE fresh
BY DEF Extended

\* The same, where the source may not have been there before.
Lists(new, old, p, as, rs, fired, s, x) ==
  /\ x \in new[s].assigned <=> (s \in DOMAIN old /\ x \in old[s].assigned) \/ (s \in as /\ x = p)
  /\ x \in new[s].received <=> (s \in DOMAIN old /\ x \in old[s].received) \/ (s \in rs /\ x = p)
  /\ x \in new[s].locks <=> (s \in DOMAIN old /\ x \in old[s].locks)
                               \/ ((s \in as \/ s \in rs) /\ x = p)
  /\ x \in new[s].fires <=> (s \in DOMAIN old /\ x \in old[s].fires) \/ x \in fired[s]

Mapped(new, old, names, p, as, rs, fired) ==
  /\ DOMAIN new = DOMAIN old \cup names
  /\ \A s \in DOMAIN new : \A x : Lists(new, old, p, as, rs, fired, s, x)

LEMMA MapOnSources ==
  ASSUME NEW srcs, NEW names, NEW p, NEW as, NEW rs, NEW fired, NEW new,
         new = Attached(Extended(srcs, names, NewSource), p, as, rs, fired)
  PROVE  Mapped(new, srcs, names, p, as, rs, fired)
<1> DEFINE all == Extended(srcs, names, NewSource)
<1>1. /\ DOMAIN all = DOMAIN srcs \cup names
      /\ \A s \in DOMAIN all : all[s] = IF s \in DOMAIN srcs THEN srcs[s] ELSE NewSource
  BY ExtendedHas, Zenon
<1>2. new = Attached(all, p, as, rs, fired)
  OBVIOUS
<1> HIDE DEF all
<1>3. DOMAIN new = DOMAIN all
  BY <1>2 DEF Attached
<1>4. ASSUME NEW s \in DOMAIN all, NEW x
      PROVE  Lists(new, srcs, p, as, rs, fired, s, x)
  <2>1. Joined(new, all, p, as, rs, fired, s, x)
    BY <1>2, <1>4, AttachedHas
  <2>2. /\ x \in all[s].assigned <=> (s \in DOMAIN srcs /\ x \in srcs[s].assigned)
        /\ x \in all[s].received <=> (s \in DOMAIN srcs /\ x \in srcs[s].received)
        /\ x \in all[s].locks <=> (s \in DOMAIN srcs /\ x \in srcs[s].locks)
        /\ x \in all[s].fires <=> (s \in DOMAIN srcs /\ x \in srcs[s].fires)
    BY <1>1, <1>4 DEF NewSource
  <2> QED
    BY <2>1, <2>2, Zenon DEF Lists, Joined
<1> QED
  BY <1>1, <1>3, <1>4 DEF Mapped

LEMMA MapOnTriggers ==
  ASSUME TypeOK, NEW t, Map(t)
  PROVE  LET w == config[t] IN
         /\ DOMAIN triggers' = DOMAIN triggers \cup w.triggers
         /\ \A n \in DOMAIN triggers' : \A x :
              x \in triggers'[n].targets
                <=> (n \in DOMAIN triggers /\ x \in triggers[n].targets)
                      \/ (n \in w.triggers /\ x = t)
         /\ t \in TargetNames => \A n \in DOMAIN triggers' : triggers'[n] \in TriggerObjects
<1> DEFINE w == config[t]
           all == Extended(triggers, w.triggers, NewTrigger)
<1>1. triggers' = [n \in DOMAIN all |->
          IF n \in w.triggers THEN [all[n] EXCEPT !.targets = @ \cup {t}] ELSE all[n]]
  BY DEF Map
<1>2. /\ DOMAIN all = DOMAIN triggers \cup w.triggers
      /\ \A n \in DOMAIN all : all[n] = IF n \in DOMAIN triggers THEN triggers[n] ELSE NewTrigger
  BY ExtendedHas, Zenon
<1>3. \A n \in DOMAIN all : all[n] \in TriggerObjects
  <2>1. NewTrigger \in TriggerObjects
    BY DEF NewTrigger, TriggerObjects
  <2>2. \A n \in DOMAIN triggers : triggers[n] \in TriggerObjects
    BY TypesByObject
  <2> HIDE DEF all
  <2> QED
    BY <1>2, <2>1, <2>2
<1> HIDE DEF all, w
<1>4. ASSUME NEW n \in DOMAIN all, NEW x
      PROVE x \in triggers'[n].targets <=> x \in all[n].targets \/ (n \in w.triggers /\ x = t)
  <2>1. all[n] \in TriggerObjects
    BY <1>3
  <2>2. CASE n \in w.triggers
    <3>1. triggers'[n] = [all[n] EXCEPT !.targets = @ \cup {t}]
      BY <1>1, <2>2
    <3> QED
      BY <2>1, <2>2, <3>1 DEF TriggerObjects
  <2>3. CASE n \notin w.triggers
    BY <1>1, <2>3
  <2> QED
    BY <2>2, <2>3
<1>5. ASSUME NEW n \in DOMAIN all, t \in TargetNames
      PROVE triggers'[n] \in TriggerObjects
  <2>1. all[n] \in TriggerObjects
    BY <1>3
  <2>2. CASE n \in w.triggers
    <3>1. triggers'[n] = [all[n] EXCEPT !.targets = @ \cup {t}]
      BY <1>1, <2>2
    <3> QED
      BY <1>5, <2>1, <3>1 DEF TriggerObjects, TargetPointers
  <2>3. CASE n \notin w.triggers
    BY <1>1, <2>1, <2>3
  <2> QED
    BY <2>2, <2>3
<1>6. DOMAIN triggers' = DOMAIN all
  BY <1>1
<1>7. \A n \in DOMAIN all : \A x : x \in all[n].targets <=> n \in DOMAIN triggers /\ x \in triggers[n].targets
  BY <1>2 DEF NewTrigger
<1> QED
  BY <1>2, <1>4, <1>5, <1>6, <1>7 DEF w

LEMMA MapTypes ==
  ASSUME IInv, NEW t, Map(t)
  PROVE  TypeOK'
<1> DEFINE w == config[t]
<1>1. w \in Wirings /\ t \in TargetNames
  BY ConfigsAreWirings DEF IInv, Map, CanMap
<1>2. References(w) \subseteq SourceNames
  BY <1>1, ReferencesAreSources
<1>3. PICK deaf \in SUBSET {n \in w.triggers : n[1] = "data"} :
        /\ sources' = Attached(Extended(sources, References(w), NewSource), t,
                              w.assigned, w.received,
                              [s \in SourceNames |-> FiredBy(s, w.triggers \ deaf)])
        /\ tidy' = (tidy /\ deaf = {} /\ TidyWith(w))
  BY Zenon DEF Map
<1> DEFINE all == Extended(sources, References(w), NewSource)
           fired == [s \in SourceNames |-> FiredBy(s, w.triggers \ deaf)]
<1>4. /\ DOMAIN all \subseteq SourceNames
      /\ \A s \in DOMAIN all : all[s] \in SourceObjects
  BY <1>2, TypesByObject DEF IInv, Extended, NewSource, SourceObjects
<1>5. \A s \in DOMAIN all : fired[s] \in SUBSET (Triggers \cup {Freed})
  BY <1>1, <1>4 DEF FiredBy, Wirings
<1>6. /\ DOMAIN sources' \subseteq SourceNames
      /\ \A s \in DOMAIN sources' : sources'[s] \in SourceObjects
  <2> HIDE DEF all, fired
  <2>1. sources' = Attached(all, t, w.assigned, w.received, fired)
    BY <1>3 DEF all, fired
  <2> QED
    BY <2>1, <1>1, <1>4, <1>5, AttachedPointers DEF TargetPointers
<1>7. /\ DOMAIN triggers' \subseteq Triggers
      /\ \A n \in DOMAIN triggers' : triggers'[n] \in TriggerObjects
  <2>1. TypeOK /\ w.triggers \subseteq Triggers
    BY <1>1 DEF IInv, Wirings
  <2>2. DOMAIN triggers \subseteq Triggers
    BY <2>1, TypesByObject
  <2> QED
    <3>1. DOMAIN triggers' = DOMAIN triggers \cup w.triggers
          /\ \A n \in DOMAIN triggers' : triggers'[n] \in TriggerObjects
      BY <1>1, <2>1, MapOnTriggers, Zenon
    <3> QED
      BY <2>1, <2>2, <3>1
<1>8. /\ DOMAIN mapped' \subseteq TargetNames
      /\ \A u \in DOMAIN mapped' : mapped'[u] \in Wirings
  BY <1>1, TypesByObject DEF IInv, Map
<1>9. tidy' \in BOOLEAN
  BY <1>3
<1> QED
  BY <1>1, <1>6, <1>7, <1>8, <1>9, TypesByObject, TypesByObjectNext DEF IInv, Map, Quiet

LEMMA MapHangs ==
  ASSUME IInv, NEW t, Map(t)
  PROVE  /\ DOMAIN mapped' \subseteq targets'
         /\ SourcesHang'
         /\ FiresHang'
         /\ TriggersHang'
         /\ targets' # {}
<1> DEFINE w == config[t]
<1>1. w \in Wirings /\ t \in TargetNames
  BY ConfigsAreWirings DEF IInv, Map, CanMap
<1>2. References(w) \subseteq SourceNames
  BY <1>1, ReferencesAreSources
<1>3. PICK deaf : sources' = Attached(Extended(sources, References(w), NewSource), t,
                                      w.assigned, w.received,
                                      [s \in SourceNames |-> FiredBy(s, w.triggers \ deaf)])
  BY Zenon DEF Map
<1> DEFINE fired == [s \in SourceNames |-> FiredBy(s, w.triggers \ deaf)]
<1>6. \A s \in SourceNames : fired[s] \subseteq w.triggers
  BY DEF FiredBy
<1> HIDE DEF fired
<1>7. sources' = Attached(Extended(sources, References(w), NewSource), t,
                          w.assigned, w.received, fired)
  BY <1>3 DEF fired
<1>8. Mapped(sources', sources, References(w), t, w.assigned, w.received, fired)
  BY <1>7, MapOnSources
<1>4. SourcesHang'
  <2>2. targets' = targets \cup {t}
    BY DEF Map
  <2> QED
    BY <1>8, <2>2 DEF IInv, SourcesHang, Mapped, Lists
<1>9. FiresHang'
  <2>1. DOMAIN triggers' = DOMAIN triggers \cup w.triggers
    BY MapOnTriggers DEF IInv
  <2>2. DOMAIN sources \subseteq SourceNames
    BY TypesByObject DEF IInv
  <2> QED
    BY <1>2, <1>6, <1>8, <2>1, <2>2 DEF IInv, FiresHang, Mapped, Lists
<1>5. TriggersHang'
  <2>1. DOMAIN mapped' = DOMAIN mapped \cup {t}
    BY DEF Map
  <2> QED
    BY <2>1, MapOnTriggers DEF IInv, TriggersHang
<1> QED
  BY <1>4, <1>5, <1>9 DEF IInv, Map

LEMMA MapTidies ==
  ASSUME IInv, NEW t, Map(t), tidy'
  PROVE  AllTidy'
<1> DEFINE w == config[t]
<1>1. w \in Wirings /\ t \in TargetNames
  BY ConfigsAreWirings DEF IInv, Map, CanMap
<1>2. /\ tidy /\ TidyWith(w)
      /\ sources' = Attached(Extended(sources, References(w), NewSource), t,
                             w.assigned, w.received,
                             [s \in SourceNames |-> FiredBy(s, w.triggers)])
  <2>1. PICK deaf \in SUBSET {n \in w.triggers : n[1] = "data"} :
          /\ sources' = Attached(Extended(sources, References(w), NewSource), t,
                                w.assigned, w.received,
                                [s \in SourceNames |-> FiredBy(s, w.triggers \ deaf)])
          /\ tidy' = (tidy /\ deaf = {} /\ TidyWith(w))
    BY Zenon DEF Map
  <2>2. w.triggers \ {} = w.triggers
    OBVIOUS
  <2> QED
    BY <2>1, <2>2
<1>3. AllTidy /\ t \notin DOMAIN mapped
  BY <1>2 DEF IInv, AllTidy, Map, CanMap
<1>4. /\ DOMAIN mapped' = DOMAIN mapped \cup {t}
      /\ mapped'[t] = w
      /\ \A u \in DOMAIN mapped : mapped'[u] = mapped[u]
  BY <1>3 DEF Map
<1>5. /\ References(w) \subseteq SourceNames
      /\ w.received = {} /\ References(w) = w.assigned
  BY <1>1, <1>2, ReferencesAreSources DEF TidyWith, References
<1>6. /\ DOMAIN sources' = DOMAIN sources \cup w.assigned
      /\ \A s \in DOMAIN sources' : \A x :
           LET Had(S) == s \in DOMAIN sources /\ x \in S IN
           /\ x \in sources'[s].assigned <=> Had(sources[s].assigned) \/ (s \in w.assigned /\ x = t)
           /\ x \in sources'[s].received <=> Had(sources[s].received)
           /\ x \in sources'[s].locks <=> Had(sources[s].locks) \/ (s \in w.assigned /\ x = t)
           /\ x \in sources'[s].fires <=> Had(sources[s].fires) \/ x \in FiredBy(s, w.triggers)
  <2> DEFINE fired == [s \in SourceNames |-> FiredBy(s, w.triggers)]
  <2>1. DOMAIN sources \subseteq SourceNames
    BY DEF IInv, TypeOK
  <2>2. \A s \in SourceNames : fired[s] = FiredBy(s, w.triggers)
    OBVIOUS
  <2> HIDE DEF fired
  <2>3. sources' = Attached(Extended(sources, References(w), NewSource), t,
                            w.assigned, w.received, fired)
    BY <1>2 DEF fired
  <2>4. Mapped(sources', sources, References(w), t, w.assigned, w.received, fired)
    BY <2>3, MapOnSources
  <2> QED
    BY <1>5, <2>1, <2>2, <2>4 DEF Mapped, Lists
<1>7. ASSUME NEW s \in DOMAIN sources' PROVE TidySource(s)'
  <2>1. CASE s \notin DOMAIN sources
    <3>1. s \in w.assigned /\ sources'[s].received = {}
      BY <1>6, <1>7, <2>1
    <3>2. \A x : /\ x \in sources'[s].assigned <=> x = t
                 /\ x \in sources'[s].locks <=> x = t
      BY <1>6, <1>7, <2>1, <3>1
    <3>3. sources'[s].fires = FiredBy(s, w.triggers)
      BY <1>6, <1>7, <2>1
    <3> QED
      BY <1>4, <3>1, <3>2, <3>3 DEF TidySource
  <2>2. CASE s \in DOMAIN sources /\ s \in w.assigned
    <3>1. TidySource(s)
      BY <1>3, <2>2 DEF AllTidy
    <3>2. \A u \in sources[s].assigned : FiredBy(s, mapped[u].triggers) = FiredBy(s, w.triggers)
      BY <1>2, <2>2, <3>1 DEF TidyWith, TidySource
    <3>3. sources'[s].fires = FiredBy(s, w.triggers)
      <4>1. PICK u \in sources[s].assigned : sources[s].fires = FiredBy(s, mapped[u].triggers)
        BY <3>1 DEF TidySource
      <4>2. sources[s].fires = FiredBy(s, w.triggers)
        BY <3>2, <4>1
      <4> QED
        BY <1>6, <1>7, <2>2, <4>2
    <3>4. sources'[s].received = {}
      BY <1>6, <1>7, <2>2, <3>1 DEF TidySource
    <3>5. \A x : /\ x \in sources'[s].assigned <=> x \in sources[s].assigned \/ x = t
                 /\ x \in sources'[s].locks <=> x \in sources[s].locks \/ x = t
      BY <1>6, <1>7, <2>2
    <3> QED
      BY <1>3, <1>4, <2>2, <3>1, <3>2, <3>3, <3>4, <3>5 DEF TidySource
  <2>3. CASE s \in DOMAIN sources /\ s \notin w.assigned
    <3>1. TidySource(s)
      BY <1>3, <2>3 DEF AllTidy
    <3>2. FiredBy(s, w.triggers) = {}
      BY <1>1, <1>5, <2>3, FiredAreReferenced
    <3>3. sources'[s].fires = sources[s].fires /\ sources'[s].assigned = sources[s].assigned
          /\ sources'[s].received = sources[s].received /\ sources'[s].locks = sources[s].locks
      BY <1>6, <1>7, <2>3, <3>2
    <3> QED
      BY <1>3, <1>4, <3>1, <3>3 DEF TidySource
  <2> QED
    BY <1>6, <2>1, <2>2, <2>3
<1>8. /\ DOMAIN triggers' = DOMAIN triggers \cup w.triggers
      /\ \A n \in w.triggers : t \in triggers'[n].targets
      /\ \A n \in DOMAIN triggers : triggers[n].targets \subseteq triggers'[n].targets
  BY MapOnTriggers DEF IInv
<1>9. ASSUME NEW u \in DOMAIN mapped' PROVE TidyTarget(u)'
  <2>1. CASE u = t
    BY <1>4, <1>5, <1>6, <1>8, <2>1 DEF TidyTarget
  <2>2. CASE u \in DOMAIN mapped
    <3>1. TidyTarget(u)
      BY <1>3, <2>2 DEF AllTidy
    <3> QED
      BY <1>4, <1>6, <1>8, <2>2, <3>1 DEF TidyTarget
  <2> QED
    BY <1>4, <2>1, <2>2
<1>10. targets' = DOMAIN mapped' /\ life' # "fault"
  BY <1>3, <1>4 DEF Map, CanMap, AllTidy
<1> QED
  BY <1>7, <1>9, <1>10 DEF AllTidy

LEMMA MapStep ==
  ASSUME IInv, NEW t, Map(t)
  PROVE  IInv'
BY MapTypes, MapHangs, MapTidies DEF IInv

LEMMA MapTargetFailsStep ==
  ASSUME IInv, NEW t, MapTargetFails(t)
  PROVE  IInv'
<1> DEFINE w == config[t]
<1>1. w \in Wirings /\ t \in TargetNames
  BY ConfigsAreWirings DEF IInv, MapTargetFails, CanMap
<1>2. PICK as \in SUBSET w.assigned, rs \in SUBSET w.received :
        sources' = Attached(sources, Freed, as, rs, [s \in SourceNames |-> {}])
  BY Zenon DEF MapTargetFails
<1>3. DOMAIN sources \subseteq SourceNames /\ \A s \in DOMAIN sources : sources[s] \in SourceObjects
  BY TypesByObject DEF IInv
<1>4. /\ DOMAIN sources' = DOMAIN sources
      /\ \A s \in DOMAIN sources' : sources'[s] \in SourceObjects
  <2> DEFINE fired == [s \in SourceNames |-> {}]
  <2>1. \A s \in DOMAIN sources : fired[s] \in SUBSET (Triggers \cup {Freed})
    BY <1>3
  <2>2. Freed \in TargetPointers
    BY DEF TargetPointers
  <2> HIDE DEF fired
  <2>3. sources' = Attached(sources, Freed, as, rs, fired)
    BY <1>2 DEF fired
  <2> QED
    <3>1. \A s \in DOMAIN sources : sources[s] \in SourceObjects
      BY <1>3
    <3>2. /\ DOMAIN Attached(sources, Freed, as, rs, fired) = DOMAIN sources
          /\ \A s \in DOMAIN sources : Attached(sources, Freed, as, rs, fired)[s] \in SourceObjects
      BY <2>1, <2>2, <3>1, AttachedPointers, Zenon
    <3> QED
      BY <2>3, <3>2
<1>5. TypeOK'
  BY <1>3, <1>4, TypesByObject, TypesByObjectNext DEF IInv, MapTargetFails, Quiet
<1>6. SourcesHang'
  BY <1>2 DEF IInv, SourcesHang, MapTargetFails, Attached
<1>7. sources = None => sources' = None
  BY <1>2 DEF None, Attached
<1>8. FiresHang'
  BY <1>2, <1>3 DEF IInv, FiresHang, MapTargetFails, Attached
<1> QED
  BY <1>5, <1>6, <1>7, <1>8 DEF IInv, MapTargetFails, TriggersHang

LEMMA MapTimerFailsStep ==
  ASSUME IInv, NEW t, MapTimerFails(t)
  PROVE  IInv'
<1> DEFINE w == config[t]
<1>1. w \in Wirings /\ t \in TargetNames
  BY ConfigsAreWirings DEF IInv, MapTimerFails, CanMap
<1>2. PICK done \in SUBSET w.triggers :
        sources' = Attached(sources, t, w.assigned, w.received,
                            [s \in SourceNames |->
                               Dangling(FiredBy(s, done), Triggers \ DOMAIN triggers)])
  <2>1. PICK n \in w.triggers \ DOMAIN triggers :
          \E done \in SUBSET (w.triggers \ {n}) :
            sources' = Attached(sources, t, w.assigned, w.received,
                                [s \in SourceNames |->
                                   Dangling(FiredBy(s, done), Triggers \ DOMAIN triggers)])
    BY Zenon DEF MapTimerFails
  <2> QED
    BY <2>1, Zenon
<1> DEFINE fired == [s \in SourceNames |->
                       Dangling(FiredBy(s, done), Triggers \ DOMAIN triggers)]
<1>3. DOMAIN sources \subseteq SourceNames /\ \A s \in DOMAIN sources : sources[s] \in SourceObjects
  BY TypesByObject DEF IInv
<1>4. \A s \in DOMAIN sources : fired[s] \in SUBSET (Triggers \cup {Freed})
  <2>1. done \subseteq Triggers
    BY <1>1 DEF Wirings
  <2>2. ASSUME NEW s \in SourceNames
        PROVE Dangling(FiredBy(s, done), Triggers \ DOMAIN triggers) \in SUBSET (Triggers \cup {Freed})
    BY <2>1 DEF Dangling, FiredBy
  <2> QED
    BY <1>3, <2>2
<1>10. \A s \in DOMAIN sources : \A n \in fired[s] : n = Freed \/ n \in DOMAIN triggers
  BY <1>1, <1>3 DEF Wirings, Dangling, FiredBy
<1> HIDE DEF fired
<1>5. sources' = Attached(sources, t, w.assigned, w.received, fired)
  BY <1>2 DEF fired
<1>6. /\ DOMAIN sources' = DOMAIN sources
      /\ \A s \in DOMAIN sources' : sources'[s] \in SourceObjects
  BY <1>1, <1>3, <1>4, <1>5, AttachedPointers DEF TargetPointers
<1>7. targets' = targets \cup {t} /\ ~tidy' /\ Quiet
      /\ UNCHANGED <<config, running, triggers, mapped, stale, life>>
  BY DEF MapTimerFails
<1>8. TypeOK'
  BY <1>1, <1>3, <1>6, <1>7, TypesByObject, TypesByObjectNext DEF IInv, Quiet, MapTimerFails
<1>9. SourcesHang'
  BY <1>5, <1>7 DEF IInv, SourcesHang, Attached
<1>11. FiresHang'
  BY <1>5, <1>7, <1>10 DEF IInv, FiresHang, Attached
<1> QED
  BY <1>7, <1>8, <1>9, <1>11 DEF IInv, TriggersHang

-----------------------------------------------------------------------------
(* Unmapping *)

LEMMA RemoveNothing ==
  ASSUME IInv, Remove({})
  PROVE  /\ targets' = targets /\ triggers' = triggers /\ sources' = sources
         /\ DOMAIN mapped' = DOMAIN mapped
         /\ \A t \in DOMAIN mapped : mapped'[t] = mapped[t]
         /\ retired' = {} /\ sent' = {}
BY DEF Remove

LEMMA RemoveSome ==
  ASSUME IInv, NEW T \in SUBSET targets, T # {}, Remove(T)
  PROVE  /\ targets' = targets \ T
         /\ DOMAIN mapped' = DOMAIN mapped \ T
         /\ \A t \in DOMAIN mapped' : mapped'[t] = mapped[t]
         /\ retired' = T /\ sent' = {}
BY DEF Remove, Unmapped

\* The triggers and sources that T has left, list by list.
TriggersLeft(T) ==
  /\ \A n : n \in DOMAIN triggers'
            <=> n \in DOMAIN triggers /\ \E x \in triggers[n].targets : x \notin T
  /\ \A n \in DOMAIN triggers' :
       /\ \A x : x \in triggers'[n].targets <=> x \in triggers[n].targets /\ x \notin T
       /\ triggers'[n] \in TriggerObjects
  /\ DOMAIN triggers' = {} => triggers' = None

ListsLeft(s, T) ==
  /\ \A x : x \in sources'[s].assigned <=> x \in sources[s].assigned /\ x \notin T
  /\ \A x : x \in sources'[s].locks <=> x \in sources[s].locks /\ x \notin T
  /\ \A x : x \in sources'[s].received => x = Freed \/ (x \in sources[s].received /\ x \notin T)
  /\ sources[s].received = {} => sources'[s].received = {}
  /\ (\A n \in sources[s].fires : n \in DOMAIN triggers') => sources'[s].fires = sources[s].fires
  /\ \A n \in sources'[s].fires :
       n = Freed \/ (n \in sources[s].fires /\ (n \in DOMAIN triggers => n \in DOMAIN triggers'))

SourcesLeft(T) ==
  /\ \A s : s \in DOMAIN sources'
            <=> s \in DOMAIN sources /\ \E x \in sources[s].assigned : x \notin T
  /\ \A s \in DOMAIN sources' : ListsLeft(s, T) /\ sources'[s] \in SourceObjects
  /\ DOMAIN sources' = {} => sources' = None

LEMMA RemoveOnTriggers ==
  ASSUME IInv, NEW T, T # {}, Remove(T)
  PROVE  TriggersLeft(T)
<1> DEFINE kept == {n \in DOMAIN triggers : triggers[n].targets \ T # {}}
<1>1. triggers' = [n \in kept |-> [triggers[n] EXCEPT !.targets = @ \ T]]
  BY DEF Remove, Unmapped, LeftTriggers
<1>2. \A n \in DOMAIN triggers : triggers[n] \in TriggerObjects
  BY TypesByObject DEF IInv
<1>3. DOMAIN triggers' = kept
  BY <1>1
<1>4. ASSUME NEW n \in kept
      PROVE  /\ \A x : x \in triggers'[n].targets <=> x \in triggers[n].targets /\ x \notin T
             /\ triggers'[n] \in TriggerObjects
  <2>1. triggers'[n] = [triggers[n] EXCEPT !.targets = @ \ T]
    BY <1>1
  <2>2. triggers[n] \in TriggerObjects
    BY <1>2
  <2> QED
    BY <2>1, <2>2 DEF TriggerObjects
<1>5. DOMAIN triggers' = {} => triggers' = None
  BY <1>1 DEF None
<1> QED
  BY <1>3, <1>4, <1>5 DEF TriggersLeft

LEMMA RemoveOnSources ==
  ASSUME IInv, NEW T, T # {}, Remove(T)
  PROVE  SourcesLeft(T)
<1> DEFINE left == {s \in DOMAIN sources : sources[s].assigned \ T # {}}
           kept == {n \in DOMAIN triggers : triggers[n].targets \ T # {}}
           gone == DOMAIN triggers \ kept
           New(s) == [assigned |-> sources[s].assigned \ T,
                      received |-> Dangling(sources[s].received, T),
                      locks    |-> sources[s].locks \ T,
                      fires    |-> Dangling(sources[s].fires, gone)]
<1>1. sources' = [s \in left |-> New(s)]
  BY DEF Remove, Unmapped, LeftSources, LeftTriggers
<1>2. \A s \in DOMAIN sources : sources[s] \in SourceObjects
  BY TypesByObject DEF IInv
<1>3. kept = DOMAIN triggers'
  <2>1. TriggersLeft(T)
    BY RemoveOnTriggers
  <2> QED
    BY <2>1 DEF TriggersLeft
<1>4. ASSUME NEW s \in left
      PROVE  ListsLeft(s, T) /\ sources'[s] \in SourceObjects
  <2>1. sources[s] \in SourceObjects
    BY <1>2
  <2>2. sources'[s] = New(s)
    BY <1>1
  <2> HIDE DEF kept, left
  <2>3. /\ \A x : x \in Dangling(sources[s].received, T) => x = Freed \/ (x \in sources[s].received /\ x \notin T)
        /\ sources[s].received = {} => Dangling(sources[s].received, T) = {}
        /\ (\A n \in sources[s].fires : n \in DOMAIN triggers') => Dangling(sources[s].fires, gone) = sources[s].fires
        /\ \A n \in Dangling(sources[s].fires, gone) :
             n = Freed \/ (n \in sources[s].fires /\ (n \in DOMAIN triggers => n \in DOMAIN triggers'))
    BY <1>3 DEF Dangling
  <2>4. sources[s].received \in SUBSET (TargetNames \cup {Freed})
        /\ sources[s].fires \in SUBSET (Triggers \cup {Freed})
    BY <2>1 DEF SourceObjects, TargetPointers
  <2>5. Dangling(sources[s].received, T) \in SUBSET (TargetNames \cup {Freed})
        /\ Dangling(sources[s].fires, gone) \in SUBSET (Triggers \cup {Freed})
    BY <2>4, DanglingPointers
  <2>6. New(s) \in SourceObjects
    BY <2>1, <2>5 DEF SourceObjects, TargetPointers
  <2> DEFINE received == Dangling(sources[s].received, T)
             fires == Dangling(sources[s].fires, gone)
  <2> HIDE DEF received, fires
  <2>7. sources'[s] = [assigned |-> sources[s].assigned \ T, received |-> received,
                       locks |-> sources[s].locks \ T, fires |-> fires]
    BY <2>2 DEF received, fires
  <2>8. /\ \A x : x \in received => x = Freed \/ (x \in sources[s].received /\ x \notin T)
        /\ sources[s].received = {} => received = {}
        /\ (\A n \in sources[s].fires : n \in DOMAIN triggers') => fires = sources[s].fires
        /\ \A n \in fires :
             n = Freed \/ (n \in sources[s].fires /\ (n \in DOMAIN triggers => n \in DOMAIN triggers'))
    BY <2>3 DEF received, fires
  <2>9. ListsLeft(s, T)
    BY <2>7, <2>8 DEF ListsLeft
  <2> QED
    BY <2>2, <2>6, <2>9
<1>5. DOMAIN sources' = {} => sources' = None
  BY <1>1 DEF None
<1>6. DOMAIN sources' = left
  BY <1>1
<1> QED
  BY <1>4, <1>5, <1>6 DEF SourcesLeft

LEMMA RemoveTypes ==
  ASSUME IInv, NEW T \in SUBSET targets, T # {}, Remove(T), config' = config,
         running' \in BOOLEAN, stale' \in BOOLEAN, tidy' = tidy,
         life' \in {"up", "gone", "fault"}
  PROVE  TypeOK'
<1>0. TriggersLeft(T) /\ SourcesLeft(T)
  BY RemoveOnTriggers, RemoveOnSources
<1>1. /\ DOMAIN sources' \subseteq SourceNames
      /\ \A s \in DOMAIN sources' : sources'[s] \in SourceObjects
  BY <1>0, TypesByObject DEF IInv, SourcesLeft
<1>2. /\ DOMAIN triggers' \subseteq Triggers
      /\ \A n \in DOMAIN triggers' : triggers'[n] \in TriggerObjects
  BY <1>0, TypesByObject DEF IInv, TriggersLeft
<1>3. /\ DOMAIN mapped' \subseteq TargetNames
      /\ \A u \in DOMAIN mapped' : mapped'[u] \in Wirings
  BY RemoveSome, TypesByObject DEF IInv
<1>4. targets' \subseteq TargetNames /\ retired' \subseteq TargetNames /\ sent' = {}
  BY RemoveSome, TypesByObject DEF IInv
<1> QED
  BY <1>1, <1>2, <1>3, <1>4, TypesByObject, TypesByObjectNext DEF IInv

LEMMA RemoveHangs ==
  ASSUME IInv, ~ReadsFreed, NEW T \in SUBSET targets, T # {}, Remove(T)
  PROVE  /\ DOMAIN mapped' \subseteq targets'
         /\ SourcesHang'
         /\ FiresHang'
         /\ TriggersHang'
         /\ targets' = {} => sources' = None /\ triggers' = None
<1>0. TriggersLeft(T) /\ SourcesLeft(T)
  BY RemoveOnTriggers, RemoveOnSources
<1>5. targets' = targets \ T /\ DOMAIN mapped' = DOMAIN mapped \ T
  BY RemoveSome, Zenon
<1>1. DOMAIN mapped' \subseteq targets'
  BY <1>5 DEF IInv
<1>2. SourcesHang'
  BY <1>0, <1>5 DEF IInv, SourcesHang, SourcesLeft, ListsLeft
<1>6. FiresHang'
  BY <1>0 DEF IInv, FiresHang, SourcesLeft, ListsLeft
<1>3. TriggersHang'
  BY <1>0, <1>5 DEF IInv, TriggersHang, TriggersLeft
<1>4. ASSUME targets' = {} PROVE sources' = None /\ triggers' = None
  <2>1. T = targets
    BY <1>4, <1>5
  <2>2. DOMAIN sources' = {}
    <3>1. ASSUME NEW s \in DOMAIN sources, NEW x \in sources[s].assigned PROVE x \in T
      BY <2>1, <3>1 DEF IInv, SourcesHang, ReadsFreed
    <3>2. \A s : s \in DOMAIN sources'
                 <=> s \in DOMAIN sources /\ \E x \in sources[s].assigned : x \notin T
      BY <1>0 DEF SourcesLeft
    <3> QED
      BY <3>1, <3>2
  <2>3. DOMAIN triggers' = {}
    BY <1>0, <2>1 DEF IInv, TriggersHang, TriggersLeft
  <2> QED
    BY <1>0, <2>2, <2>3 DEF SourcesLeft, TriggersLeft
<1> QED
  BY <1>1, <1>2, <1>3, <1>4, <1>6

LEMMA RemoveTidies ==
  ASSUME IInv, tidy, NEW T \in SUBSET targets, T # {}, Remove(T), life' # "fault"
  PROVE  AllTidy'
<1>0. TriggersLeft(T) /\ SourcesLeft(T)
  BY RemoveOnTriggers, RemoveOnSources
<1>1. AllTidy
  BY DEF IInv
<1>5. /\ targets' = targets \ T
      /\ DOMAIN mapped' = DOMAIN mapped \ T
      /\ \A t \in DOMAIN mapped' : mapped'[t] = mapped[t]
  BY RemoveSome, Zenon
<1>2. targets' = DOMAIN mapped'
  BY <1>1, <1>5 DEF AllTidy
<1>3. ASSUME NEW s \in DOMAIN sources' PROVE TidySource(s)'
  <2>1. s \in DOMAIN sources /\ TidySource(s)
    BY <1>0, <1>1, <1>3 DEF AllTidy, SourcesLeft
  <2>2. PICK u \in sources[s].assigned : u \notin T
    BY <1>0, <1>3 DEF SourcesLeft
  <2>3. u \in DOMAIN mapped /\ sources[s].fires = FiredBy(s, mapped[u].triggers)
    BY <2>1, <2>2 DEF TidySource
  <2>4. \A n \in sources[s].fires : n \in DOMAIN triggers'
    BY <1>0, <1>1, <2>2, <2>3 DEF AllTidy, TidyTarget, FiredBy, TriggersLeft
  <2>5. ListsLeft(s, T)
    BY <1>0, <1>3 DEF SourcesLeft
  <2>10. \A x : x \in sources'[s].assigned <=> x \in sources[s].assigned /\ x \notin T
    BY <2>5, Zenon DEF ListsLeft
  <2>11. \A x : x \in sources'[s].locks <=> x \in sources[s].locks /\ x \notin T
    BY <2>5, Zenon DEF ListsLeft
  <2>12. sources'[s].fires = sources[s].fires
    BY <2>4, <2>5 DEF ListsLeft
  <2>13. sources'[s].received = {}
    BY <2>1, <2>5 DEF ListsLeft, TidySource
  <2>6. u \in sources'[s].assigned
    BY <2>2, <2>10
  <2>7. sources'[s].locks \subseteq sources'[s].assigned
    BY <2>1, <2>10, <2>11 DEF TidySource
  <2>8. sources'[s].assigned \subseteq DOMAIN mapped'
    BY <1>5, <2>1, <2>10 DEF TidySource
  <2>9. \A t \in sources'[s].assigned :
          /\ s \in mapped'[t].assigned
          /\ sources'[s].fires = FiredBy(s, mapped'[t].triggers)
    BY <1>5, <2>1, <2>8, <2>10, <2>12 DEF TidySource
  <2> QED
    BY <2>6, <2>7, <2>8, <2>9, <2>13 DEF TidySource
<1>4. ASSUME NEW t \in DOMAIN mapped' PROVE TidyTarget(t)'
  <2>1. t \in DOMAIN mapped /\ t \notin T /\ mapped'[t] = mapped[t] /\ TidyTarget(t)
    BY <1>1, <1>4, <1>5 DEF AllTidy
  <2>2. \A s \in mapped[t].assigned : s \in DOMAIN sources' /\ t \in sources'[s].assigned
    BY <1>0, <2>1 DEF TidyTarget, SourcesLeft, ListsLeft
  <2>3. \A n \in mapped[t].triggers : n \in DOMAIN triggers' /\ t \in triggers'[n].targets
    BY <1>0, <2>1 DEF TidyTarget, TriggersLeft
  <2> QED
    BY <2>1, <2>2, <2>3 DEF TidyTarget
<1> QED
  BY <1>2, <1>3, <1>4 DEF AllTidy

LEMMA RemoveStep ==
  ASSUME IInv, ~ReadsFreed, NEW T \in SUBSET targets, Remove(T), config' = config,
         running' \in BOOLEAN, stale' \in BOOLEAN, tidy' = tidy,
         life' \in {"up", "gone"}
  PROVE  IInv'
<1>1. CASE T = {}
  <2>1. /\ targets' = targets /\ triggers' = triggers /\ sources' = sources
        /\ DOMAIN mapped' = DOMAIN mapped
        /\ \A t \in DOMAIN mapped : mapped'[t] = mapped[t]
        /\ retired' = {} /\ sent' = {}
    BY <1>1, RemoveNothing
  <2>2. TypeOK'
    BY <2>1, TypesByObject, TypesByObjectNext DEF IInv
  <2>3. tidy => AllTidy'
    BY <2>1 DEF IInv, AllTidy, TidySource, TidyTarget
  <2> QED
    BY <2>1, <2>2, <2>3 DEF IInv, SourcesHang, FiresHang, TriggersHang
<1>2. CASE T # {}
  BY <1>2, RemoveTypes, RemoveHangs, RemoveTidies DEF IInv
<1> QED
  BY <1>1, <1>2

-----------------------------------------------------------------------------
(* Every step *)

LEMMA TidyReadsNothingFreed ==
  ASSUME IInv, tidy
  PROVE  /\ ~ReadsFreed
         /\ \A s \in DOMAIN sources :
              Freed \notin sources[s].assigned \cup sources[s].received
                              \cup sources[s].locks \cup sources[s].fires
<1>1. ASSUME NEW s \in DOMAIN sources
      PROVE  Freed \notin sources[s].assigned \cup sources[s].received
                            \cup sources[s].locks \cup sources[s].fires
  <2>1. TidySource(s)
    BY <1>1 DEF IInv, AllTidy
  <2>2. Freed \notin sources[s].assigned /\ sources[s].received = {} /\ Freed \notin sources[s].locks
    BY <2>1, FreedAssumption, TypesByObject DEF IInv, TidySource
  <2>3. PICK t \in sources[s].assigned : TRUE
    BY <2>1 DEF TidySource
  <2>4. sources[s].fires \subseteq mapped[t].triggers /\ mapped[t] \in Wirings
    BY <2>1, <2>3, TypesByObject DEF IInv, TidySource, FiredBy
  <2>5. Freed \notin sources[s].fires
    BY <2>4, FreedAssumption DEF Wirings
  <2> QED
    BY <2>2, <2>5
<1> QED
  BY <1>1 DEF ReadsFreed

LEMMA FaultStep ==
  ASSUME IInv, ~tidy, Fault
  PROVE  IInv'
<1>1. TypeOK'
  BY TypesByObject, TypesByObjectNext DEF IInv, Fault, Quiet
<1> QED
  BY <1>1 DEF IInv, Fault, SourcesHang, FiresHang, TriggersHang

LEMMA SameStructureStep ==
  ASSUME IInv, TypeOK',
         UNCHANGED <<targets, sources, mapped>>,
         DOMAIN triggers' = DOMAIN triggers,
         \A n \in DOMAIN triggers : triggers'[n].targets = triggers[n].targets,
         triggers = None => triggers' = None,
         tidy' => tidy /\ life' = life
  PROVE  IInv'
<1>1. SourcesHang' /\ FiresHang' /\ TriggersHang'
  BY DEF IInv, SourcesHang, FiresHang, TriggersHang
<1>2. tidy' => AllTidy'
  BY DEF IInv, AllTidy, TidySource, TidyTarget
<1> QED
  BY <1>1, <1>2 DEF IInv

LEMMA TransmittedArePointers ==
  ASSUME TypeOK, NEW names \in SUBSET DOMAIN triggers
  PROVE  Transmitted(names) \subseteq TargetPointers
BY TypesByObject DEF Transmitted, TriggerObjects

THEOREM Inductive == Init /\ [][Next]_vars => []IInv
<1>1. Init => IInv
  BY InitTidy
<1>2. IInv /\ [Next]_vars => IInv'
  <2> SUFFICES ASSUME IInv, [Next]_vars PROVE IInv'
    OBVIOUS
  <2>1. ASSUME NEW c \in Configs, SetConfiguration(c) PROVE IInv'
    <3>1. TypeOK'
      BY <2>1, TypesByObject, TypesByObjectNext DEF IInv, SetConfiguration, Quiet
    <3> QED
      BY <2>1, <3>1, SameStructureStep DEF SetConfiguration
  <2>2. ASSUME NEW t \in TargetNames, Unmap(t) PROVE IInv'
    <3>1. CASE ReadsFreed /\ Fault
      BY <3>1, FaultStep, TidyReadsNothingFreed
    <3>2. CASE ~ReadsFreed /\ Remove({t}) /\ stale' = ("handle" \in Failures)
               /\ UNCHANGED <<config, running, life, tidy>>
      <4>1. {t} \in SUBSET targets /\ life' \in {"up", "gone"} /\ running' \in BOOLEAN
        BY <2>2, <3>2, TypesByObject DEF IInv, Unmap
      <4> QED
        BY <3>2, <4>1, RemoveStep
    <3> QED
      BY <2>2, <3>1, <3>2 DEF Unmap
  <2>3. CASE UnmapStale
    <3>1. TypeOK'
      BY <2>3, TypesByObject, TypesByObjectNext DEF IInv, UnmapStale, Quiet
    <3> QED
      BY <2>3, <3>1, SameStructureStep DEF UnmapStale
  <2>4. CASE UnmapAll
    <3>1. CASE ReadsFreed /\ Fault
      BY <3>1, FaultStep, TidyReadsNothingFreed
    <3>2. CASE ~ReadsFreed /\ Remove(targets)
               /\ stale' = (stale \/ (mapped # None /\ "handle" \in Failures))
               /\ UNCHANGED <<config, running, life, tidy>>
      <4>1. life' \in {"up", "gone"} /\ running' \in BOOLEAN /\ stale' \in BOOLEAN
        BY <2>4, <3>2, TypesByObject DEF IInv, UnmapAll
      <4> QED
        BY <3>2, <4>1, RemoveStep
    <3> QED
      BY <2>4, <3>1, <3>2 DEF UnmapAll
  <2>5. ASSUME NEW on \in BOOLEAN, Switch(on) PROVE IInv'
    <3>1. /\ DOMAIN triggers' = DOMAIN triggers
          /\ \A n \in DOMAIN triggers : /\ triggers'[n] \in TriggerObjects
                                        /\ triggers'[n].targets = triggers[n].targets
      BY <2>5, TypesByObject DEF IInv, Switch, TriggerObjects
    <3>2. TypeOK'
      BY <2>5, <3>1, TypesByObject, TypesByObjectNext DEF IInv, Switch, Quiet
    <3>3. triggers = None => triggers' = None
      BY <2>5 DEF Switch, None
    <3> QED
      BY <2>5, <3>1, <3>2, <3>3, SameStructureStep DEF Switch
  <2>6. CASE Destroy
    <3>1. CASE ReadsFreed /\ targets # {} /\ Fault
      BY <3>1, FaultStep, TidyReadsNothingFreed
    <3>2. CASE (~ReadsFreed \/ targets = {}) /\ Remove(targets) /\ running' = FALSE
               /\ life' = "gone" /\ UNCHANGED <<config, stale, tidy>>
      <4>1. ~ReadsFreed
        BY <3>2 DEF IInv, ReadsFreed, None
      <4>2. stale' \in BOOLEAN
        BY <3>2, TypesByObject DEF IInv
      <4> QED
        BY <3>2, <4>1, <4>2, RemoveStep
    <3> QED
      BY <2>6, <3>1, <3>2 DEF Destroy
  <2>7. ASSUME NEW s \in SourceNames, OnSampleReceived(s) PROVE IInv'
    <3>1. CASE Freed \in sources[s].assigned \cup sources[s].received
                            \cup sources[s].locks \cup sources[s].fires
      BY <2>7, <3>1, FaultStep, TidyReadsNothingFreed DEF OnSampleReceived
    <3>2. CASE Freed \notin sources[s].assigned \cup sources[s].received
                               \cup sources[s].locks \cup sources[s].fires
      <4>1. retired' = {}
            /\ UNCHANGED <<config, running, targets, sources, triggers, mapped, stale, life, tidy>>
        BY <2>7, <3>2 DEF OnSampleReceived
      <4>2. PICK names \in SUBSET sources[s].fires : sent' = Transmitted(names)
        <5>1. PICK yes \in SUBSET {n \in sources[s].fires : n[1] = "data"} :
                sent' = Transmitted(yes \cup {n \in sources[s].fires : n[1] = "signal"})
          BY <2>7, <3>2, Zenon DEF OnSampleReceived
        <5> QED
          BY <5>1
      <4>3. sent' \subseteq TargetPointers
        <5>1. \A n \in sources[s].fires : n \in DOMAIN triggers
          BY <2>7, <3>2 DEF IInv, FiresHang, OnSampleReceived
        <5>2. names \in SUBSET DOMAIN triggers
          BY <5>1
        <5> QED
          BY <4>2, <5>2, TransmittedArePointers DEF IInv
      <4>4. TypeOK'
        BY <4>1, <4>3, TypesByObject, TypesByObjectNext DEF IInv
      <4> QED
        BY <4>1, <4>4, SameStructureStep
    <3> QED
      BY <3>1, <3>2
  <2>8. ASSUME NEW p \in Periods, OnTimer(p) PROVE IInv'
    <3>1. sent' \subseteq TargetPointers
      BY <2>8, TransmittedArePointers DEF IInv, OnTimer
    <3>2. TypeOK'
      BY <2>8, <3>1, TypesByObject, TypesByObjectNext DEF IInv, OnTimer
    <3> QED
      BY <2>8, <3>2, SameStructureStep DEF OnTimer
  <2>9. CASE UNCHANGED vars
    <3>1. TypeOK'
      BY <2>9, TypesByObject, TypesByObjectNext DEF IInv, vars
    <3> QED
      BY <2>9, <3>1, SameStructureStep DEF vars
  <2> QED
    BY <2>1, <2>2, <2>3, <2>4, <2>5, <2>6, <2>7, <2>8, <2>9,
       MapStep, MapTargetFailsStep, MapTimerFailsStep DEF Next, Start, Stop
<1> QED
  BY <1>1, <1>2, PTL

-----------------------------------------------------------------------------
(* Theorems *)

\* Every variable keeps its type, for any configurations and failures.
THEOREM Typing == Spec => []TypeOK
<1>1. IInv => TypeOK
  BY DEF IInv
<1> QED
  BY <1>1, Inductive, PTL DEF Spec

\* What Map wired for a tidy target stays wired until the target is unmapped.
THEOREM MappingIntactHolds == Spec => []MappingIntact
<1>1. IInv => MappingIntact
  <2> SUFFICES ASSUME IInv, tidy, NEW t \in DOMAIN mapped
               PROVE LET w == mapped[t] IN
                     /\ References(w) \subseteq DOMAIN sources
                     /\ w.triggers \subseteq DOMAIN triggers
                     /\ \A s \in w.assigned : t \in sources[s].assigned
                     /\ \A n \in w.triggers : t \in triggers[n].targets
                     /\ \A s \in References(w) : FiredBy(s, w.triggers) \subseteq sources[s].fires
    BY DEF MappingIntact
  <2>1. TidyTarget(t) /\ \A s \in DOMAIN sources : TidySource(s)
    BY DEF IInv, AllTidy
  <2>2. \A s \in References(mapped[t]) : s \in DOMAIN sources /\ t \in sources[s].assigned
    BY <2>1 DEF TidyTarget
  <2> QED
    BY <2>1, <2>2 DEF TidyTarget, TidySource
<1> QED
  BY <1>1, Inductive, PTL DEF Spec

\* Every element of a source lies under a lock the source takes, and with tidy
\* targets nothing deleted is used.
THEOREM SamplesWriteSafelyHolds == Spec => []SamplesWriteSafely
<1>1. IInv => SamplesWriteSafely
  BY DEF IInv, SourcesHang, AllTidy, SamplesWriteSafely
<1> QED
  BY <1>1, Inductive, PTL DEF Spec

\* Triggers send mapped targets only, and go with the last of them.
THEOREM TriggersServeTargetsHolds == Spec => []TriggersServeTargets
<1>1. IInv => TriggersServeTargets
  BY DEF IInv, TriggersHang, TriggersServeTargets
<1> QED
  BY <1>1, Inductive, PTL DEF Spec
=============================================================================
