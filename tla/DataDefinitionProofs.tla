------------------------ MODULE DataDefinitionProofs ------------------------
(***************************************************************************)
(* The protocol of a DataDefinition is the problems of its items, for any  *)
(* names, predefined items and worlds, and however deep the functions of   *)
(* the handlers call each other.                                           *)
(***************************************************************************)
EXTENDS DataDefinition, FiniteSetTheorems, SequenceTheorems, TLAPS

-----------------------------------------------------------------------------
(* What every function of a handler keeps *)

\* An item is kept in the space of its kind, and has its name from the user or
\* because it is predefined: so nothing else is where a predefined item goes.
Placed(s, k) ==
    /\ Key(s.items[k].kind, Name(k)) = k
    /\ \/ s.items[k].kind \in world.kinds[Name(k)]
       \/ <<s.items[k].kind, Name(k)>> \in Predefined

\* The items of all kinds but two have an info.
InfosOfItems(s) == \A k \in Keys : HasInfo(s, k) <=> k \in Informable(s)

\* e is a problem of an item.
Said(s, e) == \E k \in Keys : HasInfo(s, k) /\ e \in EntriesOf(k, s.info[k])

\* The protocol is the problems of the items, and left, those of an item that
\* was just removed, which no new info of its name is taken for.
Protocolled(s, left) ==
    /\ IsFiniteSet(s.service)
    /\ \A e \in s.service : Said(s, e) \/ e \in left
    /\ \A e : Said(s, e) \/ e \in left => e \in s.service
    /\ \A e \in left : HasInfo(s, e.key) => e.id # s.info[e.key].id

Matching(s, left) ==
    /\ s \in States
    /\ \A k \in Present(s) : Placed(s, k)
    /\ InfosOfItems(s)
    /\ Protocolled(s, left)

\* No item goes, or has more or less references, or is another.
Grows(s, t) ==
    \A k \in Present(s) : /\ k \in Present(t)
                          /\ t.items[k].kind = s.items[k].kind
                          /\ DOMAIN t.items[k].refs = DOMAIN s.items[k].refs

\* The infos marked as being on the way.
Marked(s) == {k \in Keys : HasInfo(s, k) /\ s.info[k].busy}

Leads(s, t, left) == Matching(t, left) /\ Grows(s, t)
To(s, t, left) == Matching(t, left) /\ Grows(s, t) /\ Marked(t) = Marked(s)

Live(s, k) == k \in Present(s) /\ HasInfo(s, k)

LEMMA ToItself ==
  ASSUME NEW left, NEW s, Matching(s, left)
  PROVE  To(s, s, left)
BY DEF To, Grows

LEMMA ToOver ==
  ASSUME NEW left, NEW s, NEW t, NEW u, To(s, t, left), To(t, u, left)
  PROVE  To(s, u, left)
BY DEF To, Grows

\* What an item is, and its info.
LEMMA ItemOf ==
  ASSUME NEW left, NEW s, Matching(s, left), NEW k \in Present(s)
  PROVE  /\ s \in States /\ k \in Keys /\ Name(k) \in Names /\ s.items[k] \in Items
         /\ HasInfo(s, k) => s.info[k] \in Infos
         /\ HasInfo(s, k) <=> s.items[k].kind \notin {"base", "prefix"}
         /\ k = Key(s.items[k].kind, Name(k))
BY DEF Matching, States, Present, Keys, Name, HasInfo, InfosOfItems, Informable, Placed

LEMMA LeadsOver ==
  ASSUME NEW left, NEW s, NEW t, NEW u, Leads(s, t, left) \/ To(s, t, left),
         Leads(t, u, left) \/ To(t, u, left)
  PROVE  Leads(s, u, left)
BY DEF To, Leads, Grows

LEMMA LiveLed ==
  ASSUME NEW left, NEW s, NEW t, Matching(s, left), Leads(s, t, left), NEW k, Live(s, k)
  PROVE  /\ Matching(t, left) /\ Live(t, k)
         /\ t.items[k].kind = s.items[k].kind
         /\ DOMAIN t.items[k].refs = DOMAIN s.items[k].refs
<1>1. k \in Present(s) /\ k \in Present(t) /\ t.items[k].kind = s.items[k].kind
      /\ DOMAIN t.items[k].refs = DOMAIN s.items[k].refs
  BY DEF Leads, Grows, Live
<1>2. HasInfo(s, k) <=> HasInfo(t, k)
  BY <1>1, ItemOf DEF Leads
<1> QED
  BY <1>1, <1>2 DEF Live, Leads

LEMMA LiveKept ==
  ASSUME NEW left, NEW s, NEW t, Matching(s, left), To(s, t, left), NEW k, Live(s, k)
  PROVE  /\ Matching(t, left) /\ Live(t, k)
         /\ t.items[k].kind = s.items[k].kind
         /\ DOMAIN t.items[k].refs = DOMAIN s.items[k].refs
BY LiveLed DEF To, Leads

LEMMA EntryIs ==
  ASSUME NEW k, NEW info, NEW e \in EntriesOf(k, info)
  PROVE  e.key = k /\ e.id = info.id
BY DEF EntriesOf, Entry

\* The info of an item changes, and the protocol with it.
LEMMA InfoChanges ==
  ASSUME NEW left, NEW s, Matching(s, left), NEW k, Live(s, k), NEW t \in States,
         t.items = s.items, NEW i \in Infos, t.info = [s.info EXCEPT ![k] = i],
         i.id = s.info[k].id, IsFiniteSet(t.service),
         \A e : e \in t.service <=> \/ e \in s.service /\ e \notin EntriesOf(k, s.info[k])
                                    \/ e \in EntriesOf(k, i)
  PROVE  Leads(s, t, left)
<1>1. k \in Keys /\ s \in States /\ s.info[k] \in Infos /\ s.info \in [Keys -> Infos \cup {None}]
  BY ItemOf DEF Live, States
<1>2. Present(t) = Present(s)
  BY DEF Present
<1>3. \A l \in Keys : /\ HasInfo(t, l) <=> HasInfo(s, l)
                      /\ l # k => t.info[l] = s.info[l]
      /\ t.info[k] = i
  BY <1>1, NoneAssumption DEF HasInfo, Live
<1>4. InfosOfItems(t)
  BY <1>2, <1>3 DEF InfosOfItems, Informable, Matching
<1>5. \A l \in Present(t) : Placed(t, l)
  BY <1>2 DEF Matching, Placed
<1>6. Protocolled(s, left)
  BY DEF Matching
<1>7. ASSUME NEW e \in t.service PROVE Said(t, e) \/ e \in left
  <2>1. CASE e \in EntriesOf(k, i)
    BY <1>1, <1>3, <2>1 DEF Said, Live
  <2>2. CASE e \in s.service /\ e \notin EntriesOf(k, s.info[k])
    BY <1>3, <1>6, <2>2 DEF Said, Protocolled
  <2> QED
    BY <1>7, <2>1, <2>2
<1>8. ASSUME NEW e, Said(t, e) \/ e \in left PROVE e \in t.service
  <2>1. CASE e \in left
    <3>1. e \in s.service /\ (HasInfo(s, e.key) => e.id # s.info[e.key].id)
      BY <1>6, <2>1 DEF Protocolled
    <3>2. e \notin EntriesOf(k, s.info[k])
      BY <3>1, EntryIs DEF Live
    <3> QED
      BY <3>1, <3>2
  <2>2. CASE Said(t, e)
    <3>1. PICK l \in Keys : HasInfo(t, l) /\ e \in EntriesOf(l, t.info[l])
      BY <2>2 DEF Said
    <3>2. CASE l = k
      BY <1>3, <3>1, <3>2
    <3>3. CASE l # k
      <4>1. Said(s, e)
        BY <1>3, <3>1, <3>3 DEF Said
      <4>2. e.key = l
        BY <3>1, EntryIs
      <4>3. e \notin EntriesOf(k, s.info[k])
        BY <4>2, <3>3, EntryIs
      <4> QED
        BY <1>6, <4>1, <4>3 DEF Protocolled
    <3> QED
      BY <3>2, <3>3
  <2> QED
    BY <1>8, <2>1, <2>2
<1>9. ASSUME NEW e \in left, HasInfo(t, e.key) PROVE e.id # t.info[e.key].id
  <2>1. e \in s.service /\ (HasInfo(s, e.key) => e.id # s.info[e.key].id)
    BY <1>6 DEF Protocolled
  <2>2. e.key \in Keys
    BY <1>1, <2>1 DEF States
  <2> QED
    BY <1>3, <1>9, <2>1, <2>2
<1>10. Protocolled(t, left)
  BY <1>7, <1>8, <1>9 DEF Protocolled
<1> QED
  BY <1>2, <1>4, <1>5, <1>10 DEF Leads, Matching, Grows

\* What that makes of the marks.
LEMMA MarkChanges ==
  ASSUME NEW s \in States, NEW k \in Keys, HasInfo(s, k), NEW t, NEW i \in Infos,
         t.info = [s.info EXCEPT ![k] = i]
  PROVE  Marked(t) = IF i.busy = TRUE THEN Marked(s) \union {k} ELSE Marked(s) \ {k}
<1>1. s.info \in [Keys -> Infos \cup {None}]
  BY DEF States
<1>2. \A l \in Keys : /\ HasInfo(t, l) <=> HasInfo(s, l)
                      /\ l # k => t.info[l] = s.info[l]
      /\ t.info[k] = i
  BY <1>1, NoneAssumption DEF HasInfo
<1>3. i.busy \in BOOLEAN
  BY DEF Infos
<1>4. \A l \in Keys : l # k => (l \in Marked(t) <=> l \in Marked(s))
  BY <1>2 DEF Marked
<1>5. k \in Marked(t) <=> i.busy = TRUE
  BY <1>2, <1>3 DEF Marked
<1>6. Marked(s) \subseteq Keys /\ Marked(t) \subseteq Keys
  BY DEF Marked
<1> QED
  BY <1>4, <1>5, <1>6

LEMMA MarkStays ==
  ASSUME NEW s \in States, NEW k \in Keys, HasInfo(s, k), NEW t, NEW i \in Infos,
         t.info = [s.info EXCEPT ![k] = i], i.busy = s.info[k].busy
  PROVE  Marked(t) = Marked(s)
<1>1. s.info \in [Keys -> Infos \cup {None}]
  BY DEF States
<1>2. \A l \in Keys : /\ HasInfo(t, l) <=> HasInfo(s, l)
                      /\ l # k => t.info[l] = s.info[l]
      /\ t.info[k] = i
  BY <1>1, NoneAssumption DEF HasInfo
<1> QED
  BY <1>2 DEF Marked

-----------------------------------------------------------------------------
(* The steps the handlers are made of *)

LEMMA AddProblemTo ==
  ASSUME NEW left, NEW s, Matching(s, left), NEW k, Live(s, k),
         NEW at \in Nat \X Aspects, NEW level \in 0 .. 3
  PROVE  To(s, AddProblem(s, k, at, level), left)
<1> DEFINE i == [s.info[k] EXCEPT !.problems = @ \union {[at |-> at, level |-> level]}]
           e == [key |-> k, id |-> s.info[k].id, at |-> at, level |-> level]
           t == AddProblem(s, k, at, level)
<1>1. s \in States /\ k \in Keys /\ s.info[k] \in Infos
  BY ItemOf DEF Live
<1>2. i \in Infos /\ i.id = s.info[k].id /\ i.busy = s.info[k].busy
      /\ i.problems = s.info[k].problems \union {[at |-> at, level |-> level]}
  BY <1>1 DEF Infos, Problems
<1>3. t.items = s.items /\ t.info = [s.info EXCEPT ![k] = i]
      /\ t.service = s.service \union {e}
      /\ t = [s EXCEPT !.info = [s.info EXCEPT ![k] = i], !.service = s.service \union {e}]
  BY <1>1 DEF AddProblem, States
<1>4. e \in [key : Keys, id : Nat, at : Nat \X Aspects, level : 0 .. 3]
  BY <1>1 DEF Infos
<1> HIDE DEF i, e, t
<1>5. t \in States
  BY <1>1, <1>2, <1>3, <1>4 DEF States
<1>6. IsFiniteSet(t.service)
  BY <1>3, FS_AddElement DEF Matching, Protocolled
<1>7. EntriesOf(k, i) = EntriesOf(k, s.info[k]) \union {e}
  <2> DEFINE p == [at |-> at, level |-> level]
  <2>1. Entry(k, i.id, p) = e
    BY <1>2 DEF Entry, e
  <2>2. i.problems = s.info[k].problems \union {p}
    BY <1>2
  <2> HIDE DEF p
  <2> QED
    BY <1>2, <2>1, <2>2 DEF EntriesOf
<1>8. \A x \in EntriesOf(k, s.info[k]) : x \in s.service
  BY <1>1 DEF Matching, Protocolled, Said, Live
<1>9. \A x : x \in t.service <=> \/ x \in s.service /\ x \notin EntriesOf(k, s.info[k])
                                 \/ x \in EntriesOf(k, i)
  BY <1>3, <1>7, <1>8
<1>10. Leads(s, t, left)
  BY <1>2, <1>3, <1>5, <1>6, <1>9, InfoChanges
<1>11. Marked(t) = Marked(s)
  <2>1. HasInfo(s, k)
    BY DEF Live
  <2>2. t.info = [s.info EXCEPT ![k] = i] /\ i \in Infos /\ i.busy = s.info[k].busy
    BY <1>2, <1>3
  <2> QED
    BY <1>1, <2>1, <2>2, MarkStays
<1> QED
  BY <1>10, <1>11 DEF t, To, Leads

LEMMA RemoveProblemsTo ==
  ASSUME NEW left, NEW s, Matching(s, left), NEW k, Live(s, k)
  PROVE  To(s, RemoveProblems(s, k), left)
<1> DEFINE i == [s.info[k] EXCEPT !.problems = {}]
           t == RemoveProblems(s, k)
<1>1. s \in States /\ k \in Keys /\ s.info[k] \in Infos
  BY ItemOf DEF Live
<1>2. i \in Infos /\ i.id = s.info[k].id /\ i.busy = s.info[k].busy /\ i.problems = {}
  BY <1>1 DEF Infos, Problems
<1>3. t.items = s.items /\ t.info = [s.info EXCEPT ![k] = i]
      /\ t.service = s.service \ EntriesOf(k, s.info[k])
      /\ t = [s EXCEPT !.info = [s.info EXCEPT ![k] = i],
                       !.service = s.service \ EntriesOf(k, s.info[k])]
  BY <1>1 DEF RemoveProblems, States
<1> HIDE DEF i, t
<1>5. t \in States
  BY <1>1, <1>2, <1>3 DEF States
<1>6. IsFiniteSet(t.service)
  BY <1>3, FS_Subset DEF Matching, Protocolled
<1>7. EntriesOf(k, i) = {}
  BY <1>2 DEF EntriesOf
<1>8. \A x : x \in t.service <=> \/ x \in s.service /\ x \notin EntriesOf(k, s.info[k])
                                 \/ x \in EntriesOf(k, i)
  BY <1>3, <1>7
<1>10. Leads(s, t, left)
  BY <1>2, <1>3, <1>5, <1>6, <1>8, InfoChanges
<1>11. Marked(t) = Marked(s)
  <2>1. HasInfo(s, k)
    BY DEF Live
  <2>2. t.info = [s.info EXCEPT ![k] = i] /\ i \in Infos /\ i.busy = s.info[k].busy
    BY <1>2, <1>3
  <2> QED
    BY <1>1, <2>1, <2>2, MarkStays
<1> QED
  BY <1>10, <1>11 DEF t, To, Leads

\* Whether an item is validated, or on the way to be, is not in the protocol.
LEMMA FlagsChange ==
  ASSUME NEW left, NEW s, Matching(s, left), NEW k, Live(s, k), NEW i \in Infos,
         i.id = s.info[k].id, i.problems = s.info[k].problems, NEW t \in States,
         t.items = s.items, t.info = [s.info EXCEPT ![k] = i], t.service = s.service
  PROVE  Leads(s, t, left)
<1>1. s \in States /\ k \in Keys
  BY ItemOf DEF Live
<1>3. IsFiniteSet(t.service)
  BY DEF Matching, Protocolled
<1>4. EntriesOf(k, i) = EntriesOf(k, s.info[k])
  BY DEF EntriesOf
<1>5. HasInfo(s, k)
  BY DEF Live
<1>6. \A x \in EntriesOf(k, s.info[k]) : x \in s.service
  BY <1>1, <1>5 DEF Matching, Protocolled, Said
<1>7. \A x : x \in t.service <=> \/ x \in s.service /\ x \notin EntriesOf(k, s.info[k])
                                 \/ x \in EntriesOf(k, i)
  BY <1>4, <1>6
<1> QED
  BY <1>3, <1>7, InfoChanges

LEMMA ValidatedSet ==
  ASSUME NEW left, NEW s, Matching(s, left), NEW k, Live(s, k), NEW v \in BOOLEAN
  PROVE  To(s, [s EXCEPT !.info[k].validated = v], left)
<1> DEFINE i == [s.info[k] EXCEPT !.validated = v]
           t == [s EXCEPT !.info = [s.info EXCEPT ![k] = i]]
<1>1. s \in States /\ k \in Keys /\ s.info[k] \in Infos
  BY ItemOf DEF Live
<1>2. /\ i \in Infos /\ i.id = s.info[k].id /\ i.problems = s.info[k].problems
      /\ i.busy = s.info[k].busy
  BY <1>1 DEF Infos
<1>3. t = [s EXCEPT !.info[k].validated = v]
  OBVIOUS
<1> HIDE DEF i
<1>4. /\ t \in States /\ t.items = s.items /\ t.service = s.service
      /\ t.info = [s.info EXCEPT ![k] = i]
  BY <1>1, <1>2 DEF States
<1> HIDE DEF t
<1>5. Leads(s, t, left)
  BY <1>2, <1>4, FlagsChange
<1>6. HasInfo(s, k)
  BY DEF Live
<1>7. Marked(t) = Marked(s)
  BY <1>1, <1>2, <1>4, <1>6, MarkStays
<1>8. To(s, t, left)
  BY <1>5, <1>7 DEF To, Leads
<1> QED
  BY <1>3, <1>8

LEMMA BusySet ==
  ASSUME NEW left, NEW s, Matching(s, left), NEW k, Live(s, k), NEW v \in BOOLEAN
  PROVE  LET t == [s EXCEPT !.info[k].busy = v] IN
         /\ Leads(s, t, left)
         /\ Marked(t) = IF v = TRUE THEN Marked(s) \union {k} ELSE Marked(s) \ {k}
<1> DEFINE i == [s.info[k] EXCEPT !.busy = v]
           t == [s EXCEPT !.info = [s.info EXCEPT ![k] = i]]
<1>1. s \in States /\ k \in Keys /\ s.info[k] \in Infos
  BY ItemOf DEF Live
<1>2. /\ i \in Infos /\ i.id = s.info[k].id /\ i.problems = s.info[k].problems
      /\ i.busy = v
  BY <1>1 DEF Infos
<1>3. t = [s EXCEPT !.info[k].busy = v]
  OBVIOUS
<1> HIDE DEF i
<1>4. /\ t \in States /\ t.items = s.items /\ t.service = s.service
      /\ t.info = [s.info EXCEPT ![k] = i]
  BY <1>1, <1>2 DEF States
<1> HIDE DEF t
<1>5. Leads(s, t, left)
  BY <1>2, <1>4, FlagsChange
<1>6. HasInfo(s, k)
  BY DEF Live
<1>7. Marked(t) = IF i.busy = TRUE THEN Marked(s) \union {k} ELSE Marked(s) \ {k}
  BY <1>1, <1>2, <1>4, <1>6, MarkChanges
<1> QED
  BY <1>2, <1>3, <1>5, <1>7

LEMMA ForceRevalidationTo ==
  ASSUME NEW left, NEW s, Matching(s, left), NEW k, Live(s, k)
  PROVE  To(s, ForceRevalidation(s, k), left)
BY ValidatedSet DEF ForceRevalidation

LEMMA SettledLeads ==
  ASSUME NEW left, NEW s, Matching(s, left), NEW k, Live(s, k)
  PROVE  Leads(s, Settled(s, k), left) /\ Marked(Settled(s, k)) = Marked(s) \ {k}
<1> DEFINE t == [s EXCEPT !.info[k].busy = FALSE]
           u == [t EXCEPT !.info[k].validated = TRUE]
<1>1. Leads(s, t, left) /\ Marked(t) = IF FALSE = TRUE THEN Marked(s) \union {k} ELSE Marked(s) \ {k}
  BY BusySet
<1>2. u = Settled(s, k)
  BY DEF Settled
<1> HIDE DEF t
<1>3. Matching(t, left) /\ Live(t, k)
  BY <1>1, LiveLed
<1>4. To(t, u, left)
  BY <1>3, ValidatedSet
<1> HIDE DEF u
<1>5. Leads(s, u, left) /\ Marked(u) = Marked(s) \ {k}
  BY <1>1, <1>4, LeadsOver DEF To
<1> QED
  BY <1>2, <1>5

\* The index is not in the protocol.
LEMMA IndexChanges ==
  ASSUME NEW left, NEW s, Matching(s, left), NEW t \in States,
         t.items = s.items, t.info = s.info, t.service = s.service
  PROVE  To(s, t, left)
<1>1. Marked(t) = Marked(s)
  BY DEF Marked, HasInfo
<1> QED
  BY <1>1 DEF To, Matching, Present, Placed, InfosOfItems, HasInfo, Informable, Protocolled, Said, Grows

LEMMA DependTo ==
  ASSUME NEW left, NEW s, Matching(s, left), NEW fk \in Kinds, NEW tk \in Kinds,
         NEW from \in Names, NEW to \in Names \union {None}
  PROVE  To(s, Depend(s, fk, tk, from, to), left)
<1> DEFINE t == Depend(s, fk, tk, from, to)
<1>1. s \in States
  BY DEF Matching
<1>2. <<fk, tk, to>> \in Uses
  BY DEF Uses
<1>3. t = [s EXCEPT !.index = s.index \union {<<fk, tk, to>>},
                    !.users = s.users \union {<<<<fk, tk, to>>, from>>}]
  BY DEF Depend
<1>4. s.index \union {<<fk, tk, to>>} \in SUBSET Uses
      /\ s.users \union {<<<<fk, tk, to>>, from>>} \in SUBSET (Uses \X Names)
  BY <1>1, <1>2 DEF States
<1>5. t \in States /\ t.items = s.items /\ t.info = s.info /\ t.service = s.service
  BY <1>1, <1>3, <1>4 DEF States
<1> HIDE DEF t
<1>6. To(s, t, left)
  BY <1>5, IndexChanges
<1> QED
  BY <1>6 DEF t

LEMMA RemoveInMapFromTo ==
  ASSUME NEW left, NEW s, Matching(s, left), NEW pairs, NEW from
  PROVE  To(s, RemoveInMapFrom(s, pairs, from), left)
<1> DEFINE t == RemoveInMapFrom(s, pairs, from)
<1>1. s \in States
  BY DEF Matching
<1>3. t \in States /\ t.items = s.items /\ t.info = s.info /\ t.service = s.service
  BY <1>1 DEF RemoveInMapFrom, States
<1> HIDE DEF t
<1>4. To(s, t, left)
  BY <1>3, IndexChanges
<1> QED
  BY <1>4 DEF t

LEMMA RemoveInMapToTo ==
  ASSUME NEW left, NEW s, Matching(s, left), NEW fk, NEW tk, NEW to
  PROVE  To(s, RemoveInMapTo(s, fk, tk, to), left)
<1> DEFINE t == RemoveInMapTo(s, fk, tk, to)
<1>1. s \in States
  BY DEF Matching
<1>2. t = [s EXCEPT !.index = t.index, !.users = t.users] /\ t.index \subseteq s.index
      /\ t.users \subseteq s.users
  BY <1>1 DEF RemoveInMapTo, States
<1> HIDE DEF t
<1>3. t \in States /\ t.items = s.items /\ t.info = s.info /\ t.service = s.service
  BY <1>1, <1>2 DEF States
<1>4. To(s, t, left)
  BY <1>3, IndexChanges
<1> QED
  BY <1>4 DEF t

LEMMA RenameInMapFromTo ==
  ASSUME NEW left, NEW s, Matching(s, left), NEW pairs, NEW old, NEW new \in Names
  PROVE  To(s, RenameInMapFrom(s, pairs, old, new), left)
<1> DEFINE u == RemoveInMapFrom(s, pairs, old)
           t == [u EXCEPT !.users = @ \union ({d \in s.index : Between(pairs, d)} \X {new})]
<1>1. s \in States
  BY DEF Matching
<1>2. To(s, u, left)
  BY RemoveInMapFromTo
<1>3. u \in States
  BY <1>2 DEF To, Matching
<1> HIDE DEF u
<1>4. {d \in s.index : Between(pairs, d)} \X {new} \subseteq Uses \X Names
  BY <1>1 DEF States
<1>5. t \in States /\ t.items = u.items /\ t.info = u.info /\ t.service = u.service
  BY <1>3, <1>4 DEF States
<1> HIDE DEF t
<1>6. To(u, t, left)
  BY <1>2, <1>5, IndexChanges DEF To
<1>7. To(s, t, left)
  BY <1>2, <1>6, ToOver
<1> QED
  BY <1>7, ToItself DEF RenameInMapFrom, t, u

\* References are not in the protocol, as long as there is an item.
LEMMA ItemChanges ==
  ASSUME NEW left, NEW s, Matching(s, left), NEW k \in Present(s), NEW i \in Items,
         i.kind = s.items[k].kind, NEW t \in States, t.items = [s.items EXCEPT ![k] = i],
         t.info = s.info, t.service = s.service
  PROVE  /\ Matching(t, left) /\ Present(t) = Present(s) /\ Marked(t) = Marked(s)
         /\ \A l \in Keys : t.items[l] = IF l = k THEN i ELSE s.items[l]
<1>1. s \in States /\ k \in Keys
  BY ItemOf
<1>2. \A l \in Keys : t.items[l] = IF l = k THEN i ELSE s.items[l]
  BY <1>1 DEF States
<1>3. Present(t) = Present(s)
  BY <1>1, <1>2, NoneAssumption DEF Present
<1>4. \A l \in Present(t) : t.items[l].kind = s.items[l].kind /\ l \in Keys
  BY <1>2, <1>3 DEF Present
<1>5. InfosOfItems(t)
  BY <1>2, <1>3, <1>4 DEF Matching, InfosOfItems, HasInfo, Informable
<1>6. \A l \in Present(t) : Placed(t, l)
  BY <1>3, <1>4 DEF Matching, Placed
<1>7. Protocolled(t, left)
  BY <1>2 DEF Matching, Protocolled, Said, HasInfo
<1>8. Marked(t) = Marked(s)
  BY DEF Marked, HasInfo
<1> QED
  BY <1>2, <1>3, <1>5, <1>6, <1>7, <1>8 DEF Matching

LEMMA RedirectedTo ==
  ASSUME NEW left, NEW s, Matching(s, left), NEW k \in Present(s), NEW f \in {"to", "aux"},
         NEW old, NEW new \in Names
  PROVE  To(s, Redirected(s, k, f, old, new), left)
<1> DEFINE refs == s.items[k].refs
           moved == [j \in DOMAIN refs |-> IF refs[j][f] = old THEN [refs[j] EXCEPT ![f] = new]
                                            ELSE refs[j]]
           i == [s.items[k] EXCEPT !.refs = moved]
           t == Redirected(s, k, f, old, new)
<1>1. s \in States /\ k \in Keys /\ s.items[k] \in Items
  BY ItemOf
<1>2. refs \in Seq(Refs)
  BY <1>1 DEF Items
<1>3. moved \in Seq(Refs) /\ DOMAIN moved = DOMAIN refs
  <2>1. ASSUME NEW r \in Refs PROVE [r EXCEPT ![f] = new] \in Refs
    BY DEF Refs
  <2>2. PICK n \in Nat : refs \in [1 .. n -> Refs]
    BY <1>2, SeqDef
  <2>3. moved \in [1 .. n -> Refs]
    BY <2>1, <2>2
  <2> QED
    BY <2>2, <2>3, SeqDef
<1> HIDE DEF moved
<1>4. i \in Items /\ i.kind = s.items[k].kind /\ i.refs = moved
  BY <1>1, <1>3 DEF Items
<1>5. t = [s EXCEPT !.items = [s.items EXCEPT ![k] = i]]
  BY <1>1 DEF Redirected, moved, States, Items
<1> HIDE DEF i, t
<1>9. /\ t \in States /\ t.items = [s.items EXCEPT ![k] = i]
      /\ t.info = s.info /\ t.service = s.service
  BY <1>1, <1>4, <1>5 DEF States
<1>6. Matching(t, left) /\ Present(t) = Present(s) /\ Marked(t) = Marked(s)
  BY <1>4, <1>9, ItemChanges
<1>10. \A l \in Keys : t.items[l] = IF l = k THEN i ELSE s.items[l]
  BY <1>1, <1>9 DEF States
<1>7. \A l \in Present(s) : l \in Keys
  BY DEF Present
<1>8. Grows(s, t)
  BY <1>3, <1>4, <1>6, <1>7, <1>10 DEF Grows
<1> QED
  BY <1>6, <1>8 DEF To, t

-----------------------------------------------------------------------------
(* New infos and new items *)

LEMMA FreeNumber ==
  ASSUME NEW U, IsFiniteSet(U)
  PROVE  \E i \in 0 .. Cardinality(U) : i \notin U
<1> SUFFICES ASSUME \A i \in 0 .. Cardinality(U) : i \in U PROVE FALSE
  OBVIOUS
<1>1. Cardinality(U) \in Nat
  BY FS_CardinalityType
<1>2. Cardinality(0 .. Cardinality(U)) = Cardinality(U) + 1
  BY <1>1, FS_Interval
<1>3. 0 .. Cardinality(U) \in SUBSET U
  OBVIOUS
<1>4. Cardinality(0 .. Cardinality(U)) <= Cardinality(U)
  BY <1>3, FS_Subset
<1> QED
  BY <1>1, <1>2, <1>4

\* The info of a new item has an identity nothing in the protocol has.
LEMMA FreshIdentity ==
  ASSUME NEW s \in States, NEW k \in Keys, IsFiniteSet(s.service)
  PROVE  \E id \in Nat :
            /\ \A e \in s.service : e.key = k => e.id # id
            /\ NewInfo(s, k) = [s EXCEPT !.info = [s.info EXCEPT ![k] = Fresh(id)]]
<1> DEFINE its == {q \in s.service : q.key = k}
           used == {p.id : p \in its}
           id == CHOOSE i \in 0 .. Cardinality(used) : i \notin used
           f == [p \in its |-> p.id]
<1>1. IsFiniteSet(its)
  <2>1. its \in SUBSET s.service
    OBVIOUS
  <2> QED
    BY <2>1, FS_Subset
<1>2. IsFiniteSet(used)
  <2>1. f \in Surjection(its, used)
    BY DEF Surjection
  <2> HIDE DEF f, used, its
  <2> QED
    BY <1>1, <2>1, FS_Surjection
<1>3. Cardinality(used) \in Nat
  BY <1>2, FS_CardinalityType
<1>4. \E i \in 0 .. Cardinality(used) : i \notin used
  <2> HIDE DEF used
  <2> QED
    BY <1>2, FreeNumber
<1>5. id \in 0 .. Cardinality(used) /\ id \notin used
  <2> HIDE DEF used
  <2> QED
    BY <1>4
<1>6. id \in Nat
  <2> HIDE DEF used, id
  <2> QED
    BY <1>3, <1>5
<1>7. \A e \in s.service : e.key = k => e.id # id
  <2> HIDE DEF id
  <2> QED
    BY <1>5
<1>8. NewInfo(s, k) = [s EXCEPT !.info = [s.info EXCEPT ![k] = Fresh(id)]]
  BY DEF NewInfo
<1> HIDE DEF id
<1> QED
  BY <1>6, <1>7, <1>8

\* k is new, and everything else as it should be.
AllButInfo(s, k, left) ==
    /\ s \in States
    /\ \A l \in Present(s) : Placed(s, l)
    /\ \A l \in Keys \ {k} : HasInfo(s, l) <=> l \in Informable(s)
    /\ k \in Present(s) /\ ~HasInfo(s, k)
    /\ Protocolled(s, left)

LEMMA NewInfoMatches ==
  ASSUME NEW left, NEW s, NEW k, AllButInfo(s, k, left), k \in Informable(s)
  PROVE  LET t == NewInfo(s, k) IN
         Matching(t, left) /\ Live(t, k) /\ t.items = s.items /\ Marked(t) = Marked(s)
<1> DEFINE t == NewInfo(s, k)
<1>1. s \in States /\ k \in Keys /\ k \in Present(s)
  BY DEF AllButInfo, Present
<1>2. IsFiniteSet(s.service)
  BY DEF AllButInfo, Protocolled
<1>3. PICK id \in Nat : /\ \A e \in s.service : e.key = k => e.id # id
                        /\ t = [s EXCEPT !.info = [s.info EXCEPT ![k] = Fresh(id)]]
  BY <1>1, <1>2, FreshIdentity
<1>4. Fresh(id) \in Infos /\ Fresh(id).problems = {} /\ Fresh(id).id = id /\ ~Fresh(id).busy
  BY DEF Fresh, Infos
<1> HIDE DEF t
<1>5. t \in States /\ t.items = s.items /\ t.service = s.service
      /\ t.info = [s.info EXCEPT ![k] = Fresh(id)]
  BY <1>1, <1>3, <1>4 DEF States
<1>6. \A l \in Keys : t.info[l] = IF l = k THEN Fresh(id) ELSE s.info[l]
  BY <1>1, <1>5 DEF States
<1>7. Present(t) = Present(s)
  BY <1>5 DEF Present
<1>8. HasInfo(t, k) /\ \A l \in Keys : l # k => (HasInfo(t, l) <=> HasInfo(s, l))
  BY <1>1, <1>4, <1>6, NoneAssumption DEF HasInfo
<1>9. InfosOfItems(t)
  BY <1>5, <1>7, <1>8 DEF AllButInfo, InfosOfItems, Informable
<1>10. \A l \in Present(t) : Placed(t, l)
  BY <1>5, <1>7 DEF AllButInfo, Placed
<1>11. \A e : Said(t, e) <=> Said(s, e)
  <2>1. EntriesOf(k, Fresh(id)) = {}
    BY <1>4 DEF EntriesOf
  <2>2. ~HasInfo(s, k)
    BY DEF AllButInfo
  <2> QED
    BY <1>6, <1>8, <2>1, <2>2 DEF Said
<1>12. ASSUME NEW e \in left, HasInfo(t, e.key) PROVE e.id # t.info[e.key].id
  <2>1. e \in s.service /\ (HasInfo(s, e.key) => e.id # s.info[e.key].id)
    BY DEF AllButInfo, Protocolled
  <2>2. e.key \in Keys
    BY <1>1, <2>1 DEF States
  <2>3. CASE e.key = k
    BY <1>1, <1>3, <1>4, <1>6, <2>1, <2>3
  <2>4. CASE e.key # k
    BY <1>6, <1>8, <1>12, <2>1, <2>2, <2>4
  <2> QED
    BY <2>3, <2>4
<1>13. Protocolled(t, left)
  <2>1. Protocolled(s, left)
    BY DEF AllButInfo
  <2> QED
    BY <1>5, <1>11, <1>12, <2>1 DEF Protocolled
<1>14. Marked(t) = Marked(s)
  <2>1. ~HasInfo(s, k)
    BY DEF AllButInfo
  <2>2. k \notin Marked(t) /\ k \notin Marked(s)
    BY <1>1, <1>4, <1>6, <2>1 DEF Marked
  <2>3. \A l \in Keys : l # k => (l \in Marked(t) <=> l \in Marked(s))
    BY <1>6, <1>8 DEF Marked
  <2> QED
    BY <2>2, <2>3 DEF Marked
<1>15. Matching(t, left) /\ Live(t, k) /\ t.items = s.items /\ Marked(t) = Marked(s)
  BY <1>1, <1>5, <1>7, <1>8, <1>9, <1>10, <1>13, <1>14 DEF Matching, Live
<1> QED
  BY <1>15 DEF t

Put(s, k, i) == [s EXCEPT !.items[k] = i]

\* An item comes where none was.
LEMMA ItemComes ==
  ASSUME NEW left, NEW s, Matching(s, left), NEW k \in Keys, k \notin Present(s), NEW i \in Items,
         Key(i.kind, Name(k)) = k,
         i.kind \in world.kinds[Name(k)] \/ <<i.kind, Name(k)>> \in Predefined
  PROVE  LET t == Put(s, k, i) IN
         /\ AllButInfo(t, k, left) /\ t.items[k] = i /\ Grows(s, t)
         /\ i.kind \in {"base", "prefix"} => Matching(t, left)
         /\ Marked(t) = Marked(s)
<1> DEFINE t == Put(s, k, i)
<1>1. s \in States /\ s.items \in [Keys -> Items \union {None}] /\ ~HasInfo(s, k)
  BY DEF Matching, States, InfosOfItems, Informable
<1>2. /\ t \in States /\ t.items = [s.items EXCEPT ![k] = i]
       /\ t.info = s.info /\ t.service = s.service
  BY <1>1 DEF Put, States
<1>3. Marked(t) = Marked(s)
  BY <1>2 DEF Marked, HasInfo
<1> HIDE DEF t
<1>4. \A l \in Keys : t.items[l] = IF l = k THEN i ELSE s.items[l]
  BY <1>1, <1>2
<1>5. Present(t) = Present(s) \union {k}
  BY <1>4, NoneAssumption DEF Present
<1>6. \A l \in Present(s) : l \in Keys /\ l # k
  BY DEF Present
<1>7. \A l \in Present(t) : Placed(t, l)
  BY <1>4, <1>5, <1>6 DEF Matching, Placed
<1>8. \A l \in Keys \ {k} : HasInfo(t, l) <=> l \in Informable(t)
  BY <1>4, <1>5, <1>6, <1>2 DEF Matching, InfosOfItems, HasInfo, Informable
<1>9. Protocolled(t, left)
  BY <1>2 DEF Matching, Protocolled, Said, HasInfo
<1>10. AllButInfo(t, k, left) /\ t.items[k] = i
  BY <1>1, <1>4, <1>5, <1>7, <1>8, <1>9, <1>2 DEF AllButInfo, HasInfo
<1>11. Grows(s, t)
  BY <1>4, <1>5, <1>6 DEF Grows
<1>12. ASSUME i.kind \in {"base", "prefix"} PROVE Matching(t, left)
  <2>1. k \notin Informable(t) /\ ~HasInfo(t, k)
    BY <1>1, <1>4, <1>12, <1>2 DEF Informable, HasInfo
  <2>2. InfosOfItems(t)
    BY <1>8, <2>1 DEF InfosOfItems
  <2> QED
    BY <1>7, <1>9, <1>2, <2>2 DEF Matching
<1> QED
  BY <1>10, <1>11, <1>12, <1>3 DEF t

-----------------------------------------------------------------------------
(* What the functions of a handler do, if those they call do *)

Ready(c, left) ==
    /\ Matching(c.s, left)
    /\ c.k \in Present(c.s)
    /\ c.function # "renamed" => HasInfo(c.s, c.k)
    /\ c.function = "renamed" => c.old \in Names

Sound(deeper, left) == \A c \in Calls : Ready(c, left) => To(c.s, deeper[c], left)

LEMMA CallTo ==
  ASSUME NEW left, NEW deeper, Sound(deeper, left), NEW function \in Functions,
         NEW s, Matching(s, left), NEW k \in Present(s), NEW old \in Names \union {None},
         function # "renamed" => HasInfo(s, k), function = "renamed" => old \in Names
  PROVE  To(s, Call(deeper, function, s, k, old), left)
<1> DEFINE c == [function |-> function, s |-> s, k |-> k, old |-> old]
<1>1. s \in States /\ k \in Keys
  BY ItemOf
<1>2. c \in Calls
  BY <1>1 DEF Calls
<1>3. Ready(c, left)
  BY DEF Ready
<1>4. To(c.s, deeper[c], left)
  BY <1>2, <1>3 DEF Sound
<1> QED
  BY <1>4 DEF Call

LEMMA UpdateTo ==
  ASSUME NEW left, NEW deeper, Sound(deeper, left), NEW s, Matching(s, left), NEW k, Live(s, k)
  PROVE  To(s, Update(deeper, s, k), left)
BY CallTo DEF Update, Live, Functions

LEMMA RenamedTo ==
  ASSUME NEW left, NEW deeper, Sound(deeper, left), NEW s, Matching(s, left),
         NEW k \in Present(s), NEW old \in Names
  PROVE  To(s, Renamed(deeper, s, k, old), left)
BY CallTo DEF Renamed, Functions

LEMMA DataTypeNameChangedTo ==
  ASSUME NEW left, NEW deeper, Sound(deeper, left), NEW s, Matching(s, left), NEW k, Live(s, k)
  PROVE  To(s, DataTypeNameChanged(deeper, s, k), left)
BY CallTo DEF DataTypeNameChanged, Live, Functions

\* An item comes, and its event is handled.
LEMMA AddedTo ==
  ASSUME NEW left, NEW deeper, Sound(deeper, left), NEW s, Matching(s, left),
         NEW k \in Keys, k \notin Present(s), NEW i \in Items,
         Key(i.kind, Name(k)) = k,
         i.kind \in world.kinds[Name(k)] \/ <<i.kind, Name(k)>> \in Predefined
  PROVE  To(s, ItemAdded(deeper, [s EXCEPT !.items[k] = i], k), left)
<1> DEFINE t == [s EXCEPT !.items[k] = i]
           u == NewInfo(t, k)
<1>1. /\ AllButInfo(t, k, left) /\ t.items[k] = i /\ Grows(s, t)
      /\ i.kind \in {"base", "prefix"} => Matching(t, left)
      /\ Marked(t) = Marked(s)
  <2>1. t = Put(s, k, i)
    BY DEF Put
  <2> HIDE DEF t, u
  <2> QED
    BY <2>1, ItemComes
<1> HIDE DEF t
<1>2. CASE i.kind \in {"base", "prefix"}
  BY <1>1, <1>2 DEF ItemAdded, To, t
<1>3. CASE i.kind \notin {"base", "prefix"}
  <2>1. k \in Informable(t)
    BY <1>1, <1>3 DEF AllButInfo, Informable
  <2>2. Matching(u, left) /\ Live(u, k) /\ u.items = t.items /\ Marked(u) = Marked(t)
    BY <1>1, <2>1, NewInfoMatches
  <2> HIDE DEF u
  <2>3. Grows(s, u)
    BY <1>1, <2>2 DEF Grows, Present
  <2>4. To(u, Call(deeper, "added", u, k, None), left)
    BY <2>2, CallTo DEF Live, Functions
  <2>5. To(s, Call(deeper, "added", u, k, None), left)
    BY <1>1, <2>2, <2>3, <2>4, ToOver DEF To
  <2> QED
    BY <1>1, <1>3, <2>5 DEF ItemAdded, t, u
<1> QED
  BY <1>2, <1>3

LEMMA RevalidateUserTo ==
  ASSUME NEW left, NEW deeper, Sound(deeper, left), NEW s, Matching(s, left), NEW k \in Present(s)
  PROVE  To(s, RevalidateUser(deeper, s, k), left)
<1>1. CASE HasInfo(s, k)
  <2> DEFINE t == ForceRevalidation(s, k)
  <2>1. Live(s, k)
    BY <1>1 DEF Live
  <2>2. To(s, t, left)
    BY <2>1, ForceRevalidationTo
  <2> HIDE DEF t
  <2>3. Matching(t, left) /\ Live(t, k)
    BY <2>1, <2>2, LiveKept
  <2>4. To(t, Update(deeper, t, k), left)
    BY <2>3, UpdateTo
  <2>5. To(s, Update(deeper, t, k), left)
    BY <2>2, <2>4, ToOver
  <2> QED
    BY <1>1, <2>5 DEF RevalidateUser, t
<1> QED
  BY <1>1, ToItself DEF RevalidateUser

LEMMA ItselfChangedTo ==
  ASSUME NEW left, NEW deeper, Sound(deeper, left), NEW s, Matching(s, left), NEW k, Live(s, k)
  PROVE  To(s, ItselfChanged(deeper, s, k), left)
BY RevalidateUserTo DEF ItselfChanged, RevalidateUser, Live

\* A name that is predefined is free, or has the item of its kind.
LEMMA PredefinedFree ==
  ASSUME world \in Worlds, NEW left, NEW s, Matching(s, left), NEW kind, NEW n,
         <<kind, n>> \in Predefined, ~Exists(s, kind, n)
  PROVE  /\ kind \in {"data", "base", "prefix"} /\ n \in Names /\ Key(kind, n) \in Keys
         /\ Key(kind, n) \notin Present(s)
<1>1. kind \in {"data", "base", "prefix"} /\ n \in Names
  BY PredefinedAssumption
<1>2. Key(kind, n) \in Keys /\ Name(Key(kind, n)) = n
  BY <1>1 DEF Key, Keys, Space, Name
<1>3. ASSUME Key(kind, n) \in Present(s) PROVE FALSE
  <2> DEFINE k == Key(kind, n)
             other == s.items[k].kind
  <2>1. s.items[k] \in Items /\ k = Key(other, n)
    BY <1>2, <1>3, ItemOf
  <2>2. other \in Kinds /\ Space(other) = Space(kind)
    BY <2>1 DEF Items, Key
  <2>3. other # kind
    BY <1>1, <1>3 DEF Exists
  <2>4. Placed(s, k)
    BY <1>3 DEF Matching
  <2>5. other \in world.kinds[n] \/ <<other, n>> \in Predefined
    BY <1>2, <2>4 DEF Placed
  <2> HIDE DEF other
  <2>6. CASE other \in world.kinds[n]
    BY <1>1, <2>2, <2>3, <2>6, WorldsAssumption DEF Kinds
  <2>7. CASE <<other, n>> \in Predefined
    <3>1. other \in {"data", "base", "prefix"}
      BY <2>7, PredefinedAssumption
    <3> QED
      BY <1>1, <2>2, <2>3, <3>1 DEF Space
  <2> QED
    BY <2>5, <2>6, <2>7
<1> QED
  BY <1>1, <1>2, <1>3

LEMMA GetOrCreateTo ==
  ASSUME world \in Worlds, NEW left, NEW deeper, Sound(deeper, left),
         NEW s, Matching(s, left), NEW kind, NEW n
  PROVE  To(s, GetOrCreate(deeper, s, kind, n), left)
<1>1. CASE Exists(s, kind, n) \/ <<kind, n>> \notin Predefined
  BY <1>1, ToItself DEF GetOrCreate
<1>2. CASE ~Exists(s, kind, n) /\ <<kind, n>> \in Predefined
  <2> DEFINE k == Key(kind, n)
             i == PredefinedItem(kind)
  <2>1. /\ kind \in {"data", "base", "prefix"} /\ n \in Names /\ k \in Keys
        /\ k \notin Present(s)
    BY <1>2, PredefinedFree
  <2>2. i \in Items /\ i.kind = kind
    <3>1. <<[to |-> None, aux |-> None]>> \in Seq(Refs) /\ <<>> \in Seq(Refs)
      BY DEF Refs
    <3> QED
      BY <2>1, <3>1 DEF PredefinedItem, Items, Kinds
  <2>3. Name(k) = n
    BY DEF Name, Key
  <2> HIDE DEF i
  <2>4. Key(i.kind, Name(k)) = k /\ <<i.kind, Name(k)>> \in Predefined
    BY <1>2, <2>2, <2>3
  <2> HIDE DEF k
  <2>5. To(s, ItemAdded(deeper, [s EXCEPT !.items[k] = i], k), left)
    BY <2>1, <2>2, <2>4, AddedTo
  <2> QED
    BY <1>2, <2>5 DEF GetOrCreate, i, k
<1> QED
  BY <1>1, <1>2

-----------------------------------------------------------------------------
(* Validation of one item *)

LEMMA HighestIs ==
  ASSUME NEW L \in SUBSET (0 .. 3), L # {}
  PROVE  HighestOf(L) \in 0 .. 3
<1>1. \A m \in L : m = 0 \/ m = 1 \/ m = 2 \/ m = 3
  OBVIOUS
<1>2. \E l \in L : \A m \in L : m <= l
  <2>1. CASE 3 \in L
    BY <1>1, <2>1
  <2>2. CASE 3 \notin L /\ 2 \in L
    BY <1>1, <2>2
  <2>3. CASE 3 \notin L /\ 2 \notin L /\ 1 \in L
    BY <1>1, <2>3
  <2>4. CASE 3 \notin L /\ 2 \notin L /\ 1 \notin L
    <3>1. PICK l \in L : TRUE
      OBVIOUS
    <3>2. l = 0 /\ \A m \in L : m = 0
      BY <1>1, <2>4, <3>1
    <3> QED
      BY <3>2
  <2> QED
    BY <2>1, <2>2, <2>3, <2>4
<1> QED
  BY <1>2 DEF HighestOf

LEMMA LevelIs ==
  ASSUME NEW left, NEW s, Matching(s, left), NEW k, Live(s, k)
  PROVE  Level(s, k) \in 0 .. 3
<1>1. s.info[k] \in Infos
  BY ItemOf DEF Live
<1> DEFINE L == {p.level : p \in s.info[k].problems}
<1>2. L \in SUBSET (0 .. 3) /\ (s.info[k].problems # {} => L # {})
  BY <1>1 DEF Infos, Problems
<1>3. L # {} => HighestOf(L) \in 0 .. 3
  BY <1>2, HighestIs
<1> QED
  BY <1>2, <1>3 DEF Level, LevelOf, Valid, Dont_know

\* Items of most kinds have an info when they are there.
LEMMA ExistsIs ==
  ASSUME NEW left, NEW s, Matching(s, left), NEW kind, NEW n, Exists(s, kind, n)
  PROVE  /\ n \in Names /\ Key(kind, n) \in Present(s) /\ s.items[Key(kind, n)].kind = kind
         /\ kind \notin {"base", "prefix"} => Live(s, Key(kind, n))
<1>1. n \in Names /\ Key(kind, n) \in Present(s) /\ s.items[Key(kind, n)].kind = kind
  BY DEF Exists
<1> QED
  BY <1>1, ItemOf DEF Live

LEMMA TypeOfTypeIs ==
  ASSUME NEW left, NEW s, Matching(s, left), NEW n, TypeOfType(s, n) # "invalid"
  PROVE  /\ TypeOfType(s, n) \in {"data", "enum", "struct", "meta"}
         /\ n \in Names /\ Live(s, Key(TypeOfType(s, n), n))
<1>1. CASE <<"type", n>> \in Present(s)
  <2> DEFINE k == <<"type", n>>
  <2>1. s.items[k] \in Items /\ k = Key(s.items[k].kind, n) /\ n \in Names
        /\ (HasInfo(s, k) <=> s.items[k].kind \notin {"base", "prefix"})
    <3>1. Name(k) = n
      BY DEF Name
    <3> QED
      BY <1>1, <3>1, ItemOf
  <2>2. Space(s.items[k].kind) = "type" /\ s.items[k].kind \in Kinds
    BY <2>1 DEF Key, Items
  <2>3. s.items[k].kind \in {"data", "enum", "struct"}
    BY <2>2 DEF Space, Kinds
  <2>4. TypeOfType(s, n) = s.items[k].kind
    BY <1>1 DEF TypeOfType
  <2> HIDE DEF k
  <2> QED
    BY <1>1, <2>1, <2>3, <2>4 DEF Live, k
<1>2. CASE <<"type", n>> \notin Present(s)
  <2>1. TypeOfType(s, n) = "meta" /\ Exists(s, "meta", n)
    BY <1>2 DEF TypeOfType
  <2> QED
    BY <2>1, ExistsIs
<1> QED
  BY <1>1, <1>2

LEMMA JudgedTo ==
  ASSUME NEW left, NEW s, Matching(s, left), NEW k, Live(s, k),
         NEW at \in Nat \X Aspects, NEW level \in 0 .. 3
  PROVE  To(s, Judged(s, k, at, level), left)
BY AddProblemTo, ToItself DEF Judged

LEMMA InformedTo ==
  ASSUME NEW left, NEW deeper, NEW s, Matching(s, left), NEW k, Live(s, k)
  PROVE  Informed(deeper, s, k) = s
BY DEF Informed, Live

LEMMA ValidatedTo ==
  ASSUME NEW left, NEW deeper, Sound(deeper, left), NEW s, Matching(s, left), NEW k, Live(s, k)
  PROVE  To(s, Validated(deeper, s, k), left)
BY InformedTo, UpdateTo, ToItself DEF Validated, UpdateUnlessValid

\* An item notes a use, and judges it: what most checks end with.
LEMMA NotedTo ==
  ASSUME NEW left, NEW s, NEW t, Matching(s, left), To(s, t, left), NEW k, Live(s, k),
         NEW fk \in Kinds, NEW tk \in Kinds, NEW to \in Names \union {None},
         NEW at \in Nat \X Aspects, NEW level \in 0 .. 3
  PROVE  /\ To(s, Depend(t, fk, tk, Name(k), to), left)
         /\ To(s, Judged(t, k, at, level), left)
         /\ To(s, AddProblem(t, k, at, level), left)
<1>1. Matching(t, left) /\ Live(t, k) /\ Name(k) \in Names
  BY LiveKept, ItemOf DEF Live
<1>2. To(t, Depend(t, fk, tk, Name(k), to), left)
  BY <1>1, DependTo
<1>3. To(t, Judged(t, k, at, level), left)
  BY <1>1, JudgedTo
<1>4. To(t, AddProblem(t, k, at, level), left)
  BY <1>1, AddProblemTo
<1> QED
  BY <1>2, <1>3, <1>4, ToOver

LEMMA DependOnUnitTo ==
  ASSUME NEW left, NEW s, Matching(s, left), NEW k, Live(s, k), NEW i \in Nat, NEW u,
         Exists(s, "unit", u)
  PROVE  To(s, DependOnUnit(s, k, i, u), left)
<1> DEFINE level == IF Level(s, Key("unit", u)) < Valid THEN Good_enough ELSE Valid
           t == Judged(s, k, <<i, "unit">>, level)
<1>1. level \in 0 .. 3 /\ <<i, "unit">> \in Nat \X Aspects
  BY DEF Good_enough, Valid, Aspects
<1>2. s.items[k].kind \in Kinds /\ "unit" \in Kinds /\ u \in Names
  BY ItemOf, ExistsIs DEF Live, Items, Kinds
<1> HIDE DEF level
<1>3. To(s, t, left)
  BY <1>1, JudgedTo
<1> HIDE DEF t
<1>4. To(s, Depend(t, s.items[k].kind, "unit", Name(k), u), left)
  BY <1>1, <1>2, <1>3, NotedTo
<1> QED
  BY <1>4 DEF DependOnUnit, t, level

LEMMA UnitFoundTo ==
  ASSUME NEW left, NEW deeper, NEW s, Matching(s, left), NEW k, Live(s, k),
         NEW i \in Nat, NEW u \in Names
  PROVE  To(s, UnitFound(deeper, s, k, i, u), left)
<1> DEFINE kind == s.items[k].kind
           t == Depend(s, kind, "unit", Name(k), u)
           v == Depend(t, kind, "base", Name(k), u)
<1>1. kind \in Kinds /\ "unit" \in Kinds /\ "base" \in Kinds /\ <<i, "unit">> \in Nat \X Aspects
      /\ Good_enough \in 0 .. 3
  BY ItemOf DEF Live, Items, Kinds, Aspects, Good_enough
<1>2. To(s, s, left)
  BY ToItself
<1> HIDE DEF kind
<1>3. To(s, Depend(s, kind, "base", Name(k), u), left)
  BY <1>1, <1>2, NotedTo
<1>4. To(s, t, left)
  BY <1>1, <1>2, NotedTo
<1> HIDE DEF t
<1>5. To(s, v, left)
  BY <1>1, <1>4, NotedTo
<1> HIDE DEF v
<1>6. To(s, AddProblem(v, k, <<i, "unit">>, Good_enough), left)
  BY <1>1, <1>5, NotedTo
<1>7. Exists(s, "unit", u) => To(s, DependOnUnit(Informed(deeper, s, Key("unit", u)), k, i, u), left)
  BY DependOnUnitTo, InformedTo, ExistsIs
<1> QED
  BY <1>3, <1>6, <1>7 DEF UnitFound, kind, t, v

LEMMA CheckUnitTo ==
  ASSUME world \in Worlds, NEW left, NEW deeper, Sound(deeper, left), NEW s, Matching(s, left),
         NEW k, Live(s, k), NEW i \in Nat, NEW u \in Names \union {None}
  PROVE  To(s, CheckUnit(deeper, s, k, i, u), left)
<1>1. CASE u = None
  BY <1>1, ToItself DEF CheckUnit
<1>2. CASE u # None
  <2> DEFINE t == GetOrCreate(deeper, s, "base", u)
  <2>1. To(s, t, left)
    BY GetOrCreateTo
  <2> HIDE DEF t
  <2>2. To(t, UnitFound(deeper, t, k, i, u), left)
    BY <1>2, <2>1, LiveKept, UnitFoundTo
  <2>3. To(s, UnitFound(deeper, t, k, i, u), left)
    BY <2>1, <2>2, ToOver
  <2> QED
    BY <1>2, <2>3 DEF CheckUnit, t
<1> QED
  BY <1>1, <1>2

LEMMA CheckRefUnitTo ==
  ASSUME world \in Worlds, NEW left, NEW deeper, Sound(deeper, left), NEW s, Matching(s, left),
         NEW k, Live(s, k), NEW i \in Nat, NEW kind \in {"base", "prefix"}, NEW n \in Names \union {None}
  PROVE  To(s, CheckRefUnit(deeper, s, k, i, kind, n), left)
<1>1. <<i, kind>> \in Nat \X Aspects /\ Invalid \in 0 .. 3 /\ Valid \in 0 .. 3
      /\ kind \in Kinds /\ "unit" \in Kinds
  BY DEF Aspects, Invalid, Valid, Kinds
<1>2. CASE n = None
  BY <1>1, <1>2, AddProblemTo DEF CheckRefUnit
<1>3. CASE n # None
  <2> DEFINE t == Depend(s, "unit", kind, Name(k), n)
             u == GetOrCreate(deeper, t, kind, n)
             level == IF Exists(u, kind, n) THEN Valid ELSE Invalid
  <2>1. To(s, t, left)
    BY <1>1, <1>3, ToItself, NotedTo
  <2> HIDE DEF t
  <2>2. To(t, u, left)
    BY <2>1, GetOrCreateTo DEF To
  <2> HIDE DEF u
  <2>3. To(s, u, left)
    BY <2>1, <2>2, ToOver
  <2>4. level \in 0 .. 3
    BY <1>1
  <2> HIDE DEF level
  <2>5. To(s, Judged(u, k, <<i, kind>>, level), left)
    BY <1>1, <1>3, <2>3, <2>4, NotedTo
  <2> QED
    BY <1>3, <2>5 DEF CheckRefUnit, RefUnitFound, t, u, level
<1> QED
  BY <1>2, <1>3

LEMMA CheckDataTypeOfEnumTo ==
  ASSUME world \in Worlds, NEW left, NEW deeper, Sound(deeper, left), NEW s, Matching(s, left),
         NEW k, Live(s, k), NEW n \in Names \union {None}
  PROVE  To(s, CheckDataTypeOfEnum(deeper, s, k, n), left)
<1>1. <<1, "type">> \in Nat \X Aspects /\ Invalid \in 0 .. 3 /\ Valid \in 0 .. 3
      /\ Good_enough \in 0 .. 3 /\ "data" \in Kinds /\ "enum" \in Kinds
  BY DEF Aspects, Invalid, Valid, Good_enough, Kinds
<1>2. CASE n = None
  BY <1>1, <1>2, AddProblemTo DEF CheckDataTypeOfEnum
<1>3. CASE n # None
  <2> DEFINE t == Depend(s, "enum", "data", Name(k), n)
             u == GetOrCreate(deeper, t, "data", n)
             d == Key("data", n)
             level == IF ~Exists(u, "data", n) THEN Invalid
                      ELSE IF ~HasInfo(u, d) THEN Good_enough
                      ELSE IF Level(u, d) # Valid THEN Invalid ELSE Valid
  <2>1. To(s, t, left)
    BY <1>1, <1>3, ToItself, NotedTo
  <2> HIDE DEF t
  <2>2. To(t, u, left)
    BY <2>1, GetOrCreateTo DEF To
  <2> HIDE DEF u
  <2>3. To(s, u, left)
    BY <2>1, <2>2, ToOver
  <2>4. level \in 0 .. 3
    BY <1>1
  <2>5. DataTypeFound(u, k, n) = Judged(u, k, <<1, "type">>, level)
    BY DEF DataTypeFound
  <2> HIDE DEF level
  <2>6. To(s, Judged(u, k, <<1, "type">>, level), left)
    BY <1>1, <1>3, <2>3, <2>4, NotedTo
  <2> QED
    BY <1>3, <2>5, <2>6 DEF CheckDataTypeOfEnum, t, u
<1> QED
  BY <1>2, <1>3

LEMMA DependOnTo ==
  ASSUME NEW left, NEW s, NEW t, Matching(s, left), To(s, t, left), NEW k, Live(s, k),
         NEW kind \in Kinds, NEW n \in Names, Live(t, Key(kind, n)),
         NEW at \in Nat \X Aspects
  PROVE  To(s, DependOn(t, k, kind, n, at), left)
<1>0. 1 \in 0 .. 3
  OBVIOUS
<1> DEFINE level == Level(t, Key(kind, n))
           u == Depend(t, t.items[k].kind, kind, Name(k), n)
<1>1. Matching(t, left) /\ Live(t, k)
  BY LiveKept
<1>2. t.items[k].kind \in Kinds
  BY <1>1, ItemOf DEF Live, Items
<1>3. To(s, u, left)
  BY <1>0, <1>2, NotedTo
<1>5. level \in 0 .. 3
  BY <1>1, LevelIs
<1> HIDE DEF level
<1>6. To(s, Judged(u, k, at, level), left)
  <2> HIDE DEF u
  <2> QED
    BY <1>3, <1>5, NotedTo
<1> QED
  BY <1>6 DEF DependOn, u, level

LEMMA ElementTypeFoundTo ==
  ASSUME NEW left, NEW deeper, Sound(deeper, left), NEW s, Matching(s, left),
         NEW k, Live(s, k), NEW i \in Nat, NEW n \in Names \union {None}
  PROVE  To(s, ElementTypeFound(deeper, s, k, i, n), left)
<1> DEFINE kind == TypeOfType(s, n)
           t == Validated(deeper, s, Key(kind, n))
<1>1. <<i, "type">> \in Nat \X Aspects /\ Invalid \in 0 .. 3
  BY DEF Aspects, Invalid
<1>2. CASE n = None \/ kind \in {"invalid", "meta"}
  BY <1>1, <1>2, AddProblemTo DEF ElementTypeFound
<1>3. CASE ~(n = None \/ kind \in {"invalid", "meta"})
  <2>1. n \in Names /\ Live(s, Key(kind, n)) /\ kind \in Kinds
    BY <1>3, TypeOfTypeIs DEF Kinds
  <2> HIDE DEF kind
  <2>2. To(s, t, left)
    BY <2>1, ValidatedTo
  <2> HIDE DEF t
  <2>3. Live(t, Key(kind, n))
    BY <2>1, <2>2, LiveKept
  <2>4. To(s, DependOn(t, k, kind, n, <<i, "type">>), left)
    BY <1>1, <2>1, <2>2, <2>3, DependOnTo
  <2> QED
    BY <1>3, <2>4 DEF ElementTypeFound, kind, t
<1> QED
  BY <1>2, <1>3

LEMMA CheckElementTo ==
  ASSUME world \in Worlds, NEW left, NEW deeper, Sound(deeper, left), NEW s, Matching(s, left),
         NEW k, Live(s, k), NEW i \in Nat, NEW n \in Names \union {None}
  PROVE  To(s, CheckElement(deeper, s, k, i, n), left)
<1> DEFINE t == IF TypeOfType(s, n) = "invalid" THEN GetOrCreate(deeper, s, "data", n) ELSE s
<1>1. To(s, t, left)
  BY GetOrCreateTo, ToItself
<1> HIDE DEF t
<1>2. To(t, ElementTypeFound(deeper, t, k, i, n), left)
  BY <1>1, LiveKept, ElementTypeFoundTo
<1>3. To(s, ElementTypeFound(deeper, t, k, i, n), left)
  BY <1>1, <1>2, ToOver
<1> QED
  BY <1>3 DEF CheckElement, t

LEMMA CheckParentTo ==
  ASSUME NEW left, NEW deeper, Sound(deeper, left), NEW s, Matching(s, left),
         NEW k, Live(s, k), NEW n \in Names \union {None}
  PROVE  To(s, CheckParent(deeper, s, k, n), left)
<1> DEFINE known == Depend(s, "meta", "meta", Name(k), n)
           p == Key("meta", n)
           forced == ForceRevalidation(known, p)
           t == Update(deeper, forced, p)
           level == IF Level(t, p) # Valid THEN Good_enough ELSE Valid
<1>1. <<1, "parent">> \in Nat \X Aspects /\ Invalid \in 0 .. 3 /\ level \in 0 .. 3
      /\ "meta" \in Kinds
  BY DEF Aspects, Invalid, Valid, Good_enough, Kinds
<1>2. CASE n = None
  BY <1>2, ToItself DEF CheckParent
<1>3. CASE n # None
  <2>1. To(s, known, left)
    BY <1>1, <1>3, ToItself, NotedTo
  <2>2. To(s, AddProblem(known, k, <<1, "parent">>, Invalid), left)
    <3> HIDE DEF known
    <3> QED
      BY <1>1, <1>3, <2>1, NotedTo
  <2>3. CASE Exists(s, "meta", n)
    <3>1. Live(s, p)
      BY <2>3, ExistsIs
    <3> HIDE DEF known
    <3>2. Matching(known, left) /\ Live(known, p)
      BY <2>1, <3>1, LiveKept
    <3>3. To(known, forced, left)
      BY <3>2, ForceRevalidationTo
    <3> HIDE DEF forced
    <3>4. Matching(forced, left) /\ Live(forced, p)
      BY <3>2, <3>3, LiveKept
    <3>5. To(forced, t, left)
      BY <3>4, UpdateTo
    <3>6. To(s, t, left)
      BY <2>1, <3>3, <3>5, ToOver
    <3>7. ParentFound(deeper, known, k, n) = Judged(t, k, <<1, "parent">>, level)
      BY <3>2 DEF ParentFound, Live, forced
    <3> HIDE DEF t, level
    <3>8. To(s, Judged(t, k, <<1, "parent">>, level), left)
      BY <1>1, <1>3, <3>6, NotedTo
    <3> QED
      BY <1>3, <2>3, <3>7, <3>8 DEF CheckParent, known
  <2> QED
    BY <1>3, <2>2, <2>3 DEF CheckParent
<1> QED
  BY <1>2, <1>3

LEMMA CheckStreamTypeTo ==
  ASSUME NEW left, NEW deeper, Sound(deeper, left), NEW s, Matching(s, left),
         NEW k, Live(s, k), NEW n \in Names \union {None}
  PROVE  To(s, CheckStreamType(deeper, s, k, n), left)
<1> DEFINE kind == TypeOfType(s, n)
           t == Validated(deeper, s, Key(kind, n))
<1>1. <<1, "type">> \in Nat \X Aspects /\ Invalid \in 0 .. 3
  BY DEF Aspects, Invalid
<1>2. CASE n = None \/ kind \notin {"struct", "meta"}
  BY <1>1, <1>2, AddProblemTo DEF CheckStreamType
<1>3. CASE ~(n = None \/ kind \notin {"struct", "meta"})
  <2>1. n \in Names /\ Live(s, Key(kind, n)) /\ kind \in Kinds
    BY <1>3, TypeOfTypeIs DEF Kinds
  <2> HIDE DEF kind
  <2>2. To(s, t, left)
    BY <2>1, ValidatedTo
  <2> HIDE DEF t
  <2>3. Live(t, Key(kind, n))
    BY <2>1, <2>2, LiveKept
  <2>4. To(s, DependOn(t, k, kind, n, <<1, "type">>), left)
    BY <1>1, <2>1, <2>2, <2>3, DependOnTo
  <2> QED
    BY <1>3, <2>4 DEF CheckStreamType, kind, t
<1> QED
  BY <1>2, <1>3

LEMMA CheckStreamStructTo ==
  ASSUME NEW left, NEW deeper, Sound(deeper, left), NEW s, Matching(s, left),
         NEW k, Live(s, k), NEW i \in Nat, NEW n \in Names \union {None}
  PROVE  To(s, CheckStreamStruct(deeper, s, k, i, n), left)
<1> DEFINE known == Depend(s, "stream", "struct", Name(k), n)
           p == Key("struct", n)
           t == Update(deeper, s, p)
<1>1. <<i, "struct">> \in Nat \X Aspects /\ Invalid \in 0 .. 3
      /\ "stream" \in Kinds /\ "struct" \in Kinds
  BY DEF Aspects, Invalid, Kinds
<1>2. To(s, known, left)
  BY <1>1, ToItself, NotedTo
<1> HIDE DEF known
<1>3. To(s, AddProblem(known, k, <<i, "struct">>, Invalid), left)
  BY <1>1, <1>2, NotedTo
<1>4. CASE Exists(s, "struct", n)
  <2>1. Live(s, p) /\ n \in Names
    BY <1>4, ExistsIs
  <2>2. To(s, t, left)
    BY <2>1, UpdateTo
  <2> HIDE DEF t
  <2>3. Live(t, p)
    BY <2>1, <2>2, LiveKept
  <2>4. To(s, DependOn(t, k, "struct", n, <<i, "struct">>), left)
    BY <1>1, <2>1, <2>2, <2>3, DependOnTo
  <2>5. Informed(deeper, s, p) = s
    BY <2>1, InformedTo
  <2> QED
    BY <1>4, <2>4, <2>5 DEF CheckStreamStruct, StreamStructFound, t
<1> QED
  BY <1>3, <1>4 DEF CheckStreamStruct, known

-----------------------------------------------------------------------------
(* The loops of the handlers *)

\* What all of them keep, env is the state before the loop and what is left.
Reached(env, t, n) == To(env[1], t, env[2])

CheckRefNext(deeper, k, t, i) == CheckRef(deeper, t, k, i)
UpdateStructNext(deeper, q, t, n) == UpdateExisting(deeper, t, "struct", n)
UpdateEnumNext(deeper, names, t, n) == IF n \in names THEN UpdateExisting(deeper, t, "enum", n) ELSE t
RevalidateNext(deeper, q, t, n) == IF n \in q[1] THEN RevalidateExisting(deeper, t, q[2], n) ELSE t
FollowNext(deeper, q, t, n) ==
    IF n \in q[1] THEN FollowOne(deeper, t, q[2], q[3], q[4], q[5], n) ELSE t
EnumFollowNext(deeper, q, t, n) == IF n \in q[1] THEN EnumFollows(deeper, t, q[2], q[3], n) ELSE t

CheckingRefs == INSTANCE FoldTheorems WITH Op <- CheckRefNext, Inv <- Reached
UpdatingStructs == INSTANCE FoldTheorems WITH Op <- UpdateStructNext, Inv <- Reached
UpdatingEnums == INSTANCE FoldTheorems WITH Op <- UpdateEnumNext, Inv <- Reached
Revalidating == INSTANCE FoldTheorems WITH Op <- RevalidateNext, Inv <- Reached
Following == INSTANCE FoldTheorems WITH Op <- FollowNext, Inv <- Reached
EnumsFollowing == INSTANCE FoldTheorems WITH Op <- EnumFollowNext, Inv <- Reached

LEMMA FollowIs ==
  ASSUME NEW deeper, NEW s, NEW users, NEW fk, NEW f, NEW old, NEW new
  PROVE  FollowRename(deeper, s, users, fk, f, old, new)
           = Following!Folded(deeper, <<users, fk, f, old, new>>, s, order)
BY DEF FollowRename, ForEach, Following!Folded, FollowNext, FoldLeft, MapThenFoldSet, Max,
       Following!FoldLeft, Following!MapThenFoldSet, Following!Max

\* A reference of an item that has an info.
LEMMA RefOf ==
  ASSUME NEW left, NEW s, Matching(s, left), NEW k, Live(s, k), NEW i \in DOMAIN s.items[k].refs
  PROVE  /\ i \in Nat
         /\ s.items[k].refs[i].to \in Names \union {None}
         /\ s.items[k].refs[i].aux \in Names \union {None}
<1>1. s.items[k] \in Items
  BY ItemOf DEF Live
<1>2. s.items[k].refs \in Seq(Refs)
  BY <1>1 DEF Items
<1>3. i \in Nat /\ s.items[k].refs[i] \in Refs
  BY <1>2
<1> QED
  BY <1>3 DEF Refs

LEMMA CheckRefTo ==
  ASSUME world \in Worlds, NEW left, NEW deeper, Sound(deeper, left), NEW s, Matching(s, left),
         NEW k, Live(s, k), NEW i \in DOMAIN s.items[k].refs
  PROVE  To(s, CheckRef(deeper, s, k, i), left)
<1> DEFINE to == s.items[k].refs[i].to
           aux == s.items[k].refs[i].aux
           kind == s.items[k].kind
<1>1. i \in Nat /\ to \in Names \union {None} /\ aux \in Names \union {None}
  BY RefOf
<1>2. kind \in {"unit", "data", "enum", "struct", "meta", "stream"}
  <2>1. s.items[k] \in Items /\ kind \notin {"base", "prefix"}
    BY ItemOf DEF Live
  <2> QED
    BY <2>1 DEF Items, Kinds
<1> HIDE DEF to, aux, kind
<1>3. CASE kind = "unit"
  <2> DEFINE t == CheckRefUnit(deeper, s, k, i, "base", to)
  <2>1. To(s, t, left)
    BY <1>1, CheckRefUnitTo
  <2> HIDE DEF t
  <2>2. Matching(t, left) /\ Live(t, k)
    BY <2>1, LiveKept
  <2>3. To(t, CheckRefUnit(deeper, t, k, i, "prefix", aux), left)
    BY <1>1, <2>2, CheckRefUnitTo
  <2>4. To(s, CheckRefUnit(deeper, t, k, i, "prefix", aux), left)
    BY <2>1, <2>3, ToOver
  <2> QED
    BY <1>3, <2>4 DEF CheckRef, t, to, aux, kind
<1>4. CASE kind = "data"
  <2>1. To(s, CheckUnit(deeper, s, k, i, to), left)
    BY <1>1, CheckUnitTo
  <2> QED
    BY <1>4, <2>1 DEF CheckRef, to, kind
<1>5. CASE kind = "enum"
  <2>1. To(s, CheckDataTypeOfEnum(deeper, s, k, to), left)
    BY <1>1, CheckDataTypeOfEnumTo
  <2> QED
    BY <1>5, <2>1 DEF CheckRef, to, kind
<1>6. CASE kind = "struct"
  <2> DEFINE t == CheckElement(deeper, s, k, i, to)
  <2>1. To(s, t, left)
    BY <1>1, CheckElementTo
  <2> HIDE DEF t
  <2>2. Matching(t, left) /\ Live(t, k)
    BY <2>1, LiveKept
  <2>3. To(t, CheckUnit(deeper, t, k, i, aux), left)
    BY <1>1, <2>2, CheckUnitTo
  <2>4. To(s, CheckUnit(deeper, t, k, i, aux), left)
    BY <2>1, <2>3, ToOver
  <2> QED
    BY <1>6, <2>4 DEF CheckRef, t, to, aux, kind
<1>7. CASE kind = "meta"
  <2>1. To(s, CheckParent(deeper, s, k, to), left)
    BY <1>1, CheckParentTo
  <2> QED
    BY <1>7, <2>1 DEF CheckRef, to, kind
<1>8. CASE kind = "stream"
  <2>1. To(s, CheckStreamType(deeper, s, k, to), left)
    BY <1>1, CheckStreamTypeTo
  <2>2. To(s, CheckStreamStruct(deeper, s, k, i, to), left)
    BY <1>1, CheckStreamStructTo
  <2> QED
    BY <1>8, <2>1, <2>2 DEF CheckRef, to, kind
<1> QED
  BY <1>2, <1>3, <1>4, <1>5, <1>6, <1>7, <1>8

LEMMA CheckRefsIs ==
  ASSUME NEW deeper, NEW s, NEW k
  PROVE  CheckRefs(deeper, s, k)
           = CheckingRefs!Folded(deeper, k, s, [i \in DOMAIN s.items[k].refs |-> i])
BY DEF CheckRefs, CheckingRefs!Folded, CheckRefNext, FoldLeft, MapThenFoldSet, Max,
       CheckingRefs!FoldLeft, CheckingRefs!MapThenFoldSet, CheckingRefs!Max

LEMMA CheckRefsTo ==
  ASSUME world \in Worlds, NEW left, NEW deeper, Sound(deeper, left), NEW s, Matching(s, left),
         NEW k, Live(s, k)
  PROVE  To(s, CheckRefs(deeper, s, k), left)
<1> DEFINE refs == s.items[k].refs
           seq == [i \in DOMAIN refs |-> i]
           env == <<s, left>>
<1>1. refs \in Seq(Refs)
  <2>1. s.items[k] \in Items
    BY ItemOf DEF Live
  <2> QED
    BY <2>1 DEF Items
<1>2. Len(refs) \in Nat /\ DOMAIN refs = 1 .. Len(refs)
  BY <1>1
<1>3. DOMAIN seq = 1 .. Len(refs) /\ \A i \in 1 .. Len(refs) : seq[i] = i
  BY <1>2
<1>4. Reached(env, s, 0)
  BY ToItself DEF Reached
<1>5. ASSUME NEW i \in 1 .. Len(refs), NEW a, Reached(env, a, i - 1)
      PROVE  Reached(env, CheckRefNext(deeper, k, a, seq[i]), i)
  <2>1. To(s, a, left)
    BY <1>5 DEF Reached
  <2>2. Matching(a, left) /\ Live(a, k) /\ i \in DOMAIN a.items[k].refs /\ seq[i] = i
    BY <2>1, <1>2, <1>3, LiveKept
  <2>3. To(a, CheckRef(deeper, a, k, i), left)
    BY <2>2, CheckRefTo
  <2>4. To(s, CheckRef(deeper, a, k, i), left)
    BY <2>1, <2>3, ToOver
  <2> QED
    BY <2>2, <2>4 DEF Reached, CheckRefNext
<1> HIDE DEF refs, seq, env
<1>6. Reached(env, CheckingRefs!Folded(deeper, k, s, seq), Len(refs))
  BY <1>2, <1>3, <1>4, <1>5, CheckingRefs!FoldLeftInduction
<1>7. CheckRefs(deeper, s, k) = CheckingRefs!Folded(deeper, k, s, seq)
  BY CheckRefsIs DEF seq, refs
<1> QED
  BY <1>6, <1>7 DEF Reached, env

LEMMA CheckAllTo ==
  ASSUME world \in Worlds, NEW left, NEW deeper, Sound(deeper, left), NEW s, Matching(s, left),
         NEW k, Live(s, k)
  PROVE  To(s, CheckAll(deeper, s, k), left)
<1> DEFINE t == CheckRefs(deeper, s, k)
           level == IF s.items[k].bad THEN Invalid ELSE Valid
<1>1. To(s, t, left)
  BY CheckRefsTo
<1> HIDE DEF t
<1>2. Matching(t, left) /\ Live(t, k)
  BY <1>1, LiveKept
<1>3. <<0, "own">> \in Nat \X Aspects /\ level \in 0 .. 3
  BY DEF Aspects, Invalid, Valid
<1> HIDE DEF level
<1>4. To(t, Judged(t, k, <<0, "own">>, level), left)
  BY <1>2, <1>3, JudgedTo
<1>5. To(s, Judged(t, k, <<0, "own">>, level), left)
  BY <1>1, <1>4, ToOver
<1> QED
  BY <1>5 DEF CheckAll, t, level

LEMMA BegunLeads ==
  ASSUME NEW left, NEW s, Matching(s, left), NEW k, Live(s, k)
  PROVE  Leads(s, Begun(s, k), left) /\ Marked(Begun(s, k)) \ {k} = Marked(s) \ {k}
<1> DEFINE t == RemoveProblems(s, k)
           busy == s.items[k].kind \in {"struct", "meta"}
<1>1. To(s, t, left)
  BY RemoveProblemsTo
<1> HIDE DEF t
<1>2. Matching(t, left) /\ Live(t, k) /\ busy \in BOOLEAN
  BY <1>1, LiveKept
<1> HIDE DEF busy
<1> DEFINE u == [t EXCEPT !.info[k].busy = busy]
<1>3. /\ Leads(t, u, left)
      /\ Marked(u) = IF busy = TRUE THEN Marked(t) \union {k} ELSE Marked(t) \ {k}
  BY <1>2, BusySet
<1> HIDE DEF u
<1>4. Leads(s, u, left) /\ Marked(u) \ {k} = Marked(s) \ {k}
  BY <1>1, <1>3, LeadsOver DEF To
<1>5. Begun(s, k) = u
  BY DEF Begun, t, busy, u
<1> QED
  BY <1>4, <1>5

LEMMA DoUpdateTo ==
  ASSUME world \in Worlds, NEW left, NEW deeper, Sound(deeper, left), NEW s, Matching(s, left),
         NEW k, Live(s, k)
  PROVE  To(s, DoUpdate(deeper, s, k), left)
<1>1. CASE s.info[k].validated
  BY <1>1, ToItself DEF DoUpdate
<1>2. CASE ~s.info[k].validated /\ s.info[k].busy
  <2> DEFINE t == AddProblem(s, k, <<0, "recursion">>, Invalid)
             u == [t EXCEPT !.info[k].validated = TRUE]
  <2>1. To(s, t, left)
    BY AddProblemTo DEF Aspects, Invalid
  <2> HIDE DEF t
  <2>2. Matching(t, left) /\ Live(t, k)
    BY <2>1, LiveKept
  <2>3. To(t, u, left)
    BY <2>2, ValidatedSet
  <2> HIDE DEF u
  <2>4. To(s, u, left)
    BY <2>1, <2>3, ToOver
  <2> QED
    BY <1>2, <2>4 DEF DoUpdate, t, u
<1>3. CASE ~s.info[k].validated /\ ~s.info[k].busy
  <2> DEFINE t == Begun(s, k)
             u == CheckAll(deeper, t, k)
  <2>1. Leads(s, t, left) /\ Marked(t) \ {k} = Marked(s) \ {k}
    BY BegunLeads
  <2> HIDE DEF t
  <2>2. Matching(t, left) /\ Live(t, k)
    BY <2>1, LiveLed
  <2>3. To(t, u, left)
    BY <2>2, CheckAllTo
  <2> HIDE DEF u
  <2>4. Matching(u, left) /\ Live(u, k)
    BY <2>2, <2>3, LiveKept
  <2>5. Leads(u, Settled(u, k), left) /\ Marked(Settled(u, k)) = Marked(u) \ {k}
    BY <2>4, SettledLeads
  <2>6. Leads(s, Settled(u, k), left)
    BY <2>1, <2>3, <2>5, LeadsOver
  <2>7. Marked(Settled(u, k)) = Marked(s)
    <3>1. k \notin Marked(s)
      BY <1>3 DEF Marked
    <3>2. Marked(u) = Marked(t)
      BY <2>3 DEF To
    <3> QED
      BY <2>1, <2>5, <3>1, <3>2
  <2>8. To(s, Settled(u, k), left)
    BY <2>6, <2>7 DEF To, Leads
  <2> QED
    BY <1>3, <2>8 DEF DoUpdate, t, u
<1> QED
  BY <1>1, <1>2, <1>3

LEMMA UpdateLastTo ==
  ASSUME world \in Worlds, NEW left, NEW deeper, Sound(deeper, left), NEW s, Matching(s, left),
         NEW k, Live(s, k), k \notin Marked(s), s.items[k].refs # <<>>
  PROVE  To(s, UpdateLast(deeper, s, k), left)
<1> DEFINE t == [s EXCEPT !.info[k].busy = TRUE]
           last == Len(s.items[k].refs)
           u == CheckRef(deeper, t, k, last)
<1>1. Leads(s, t, left) /\ Marked(t) = Marked(s) \union {k}
  BY BusySet
<1>2. Matching(t, left) /\ Live(t, k) /\ DOMAIN t.items[k].refs = DOMAIN s.items[k].refs
  BY <1>1, LiveLed
<1>3. last \in DOMAIN s.items[k].refs
  <2>1. s.items[k] \in Items
    BY ItemOf DEF Live
  <2>2. s.items[k].refs \in Seq(Refs)
    BY <2>1 DEF Items
  <2> QED
    BY <2>2
<1>4. t.items = s.items
  BY DEF t
<1> HIDE DEF t, last
<1>5. To(t, u, left)
  BY <1>2, <1>3, CheckRefTo
<1> HIDE DEF u
<1>6. Matching(u, left) /\ Live(u, k)
  BY <1>2, <1>5, LiveKept
<1>7. Leads(u, Settled(u, k), left) /\ Marked(Settled(u, k)) = Marked(u) \ {k}
  BY <1>6, SettledLeads
<1>8. Leads(s, Settled(u, k), left)
  BY <1>1, <1>5, <1>7, LeadsOver
<1>9. CheckLast(deeper, s, k) = u
  BY DEF CheckLast, u, t, last
<1>10. Marked(Settled(u, k)) = Marked(s)
  BY <1>1, <1>5, <1>7 DEF To
<1>11. To(s, Settled(u, k), left)
  BY <1>8, <1>10 DEF To, Leads
<1> QED
  BY <1>9, <1>11 DEF UpdateLast

-----------------------------------------------------------------------------
(* Those that depend on a type *)

Finders == [Keys -> [Seq(Names) -> Seq(Names)]]

\* What the searches gather.
NamesFound(env, found, n) == found \in Seq(Names)
FindersFound(env, find, n) == find \in Finders

FollowedNext(q, find, found, n) == FollowedBy(q[1], q[2], find, found, n)
FinderNext(s, q, find, n) == NextFollowed(s, find)
BehindNext(find, names, found, n) == IF n \in names THEN find[Key("enum", n)][found] ELSE found

Gathering == INSTANCE FoldTheorems WITH Op <- FollowedNext, Inv <- NamesFound
Deepening == INSTANCE FoldTheorems WITH Op <- FinderNext, Inv <- FindersFound
Behind == INSTANCE FoldTheorems WITH Op <- BehindNext, Inv <- NamesFound

LEMMA OrderIs ==
  ASSUME world \in Worlds
  PROVE  order \in Seq(Names) /\ Len(order) \in Nat /\ DOMAIN order = 1 .. Len(order)
<1>1. order \in Seq(Names)
  BY WorldsAssumption DEF order
<1> QED
  BY <1>1

LEMMA TypeKeys ==
  ASSUME NEW n \in Names
  PROVE  Key("struct", n) \in Keys /\ Key("enum", n) \in Keys
BY DEF Key, Space, Keys

LEMMA AllFollowedIs ==
  ASSUME NEW s, NEW users, NEW find, NEW found
  PROVE  AllFollowed(s, users, find, found) = Gathering!Folded(<<s, users>>, find, found, order)
BY DEF AllFollowed, Gathering!Folded, FollowedNext, FoldLeft, MapThenFoldSet, Max,
       Gathering!FoldLeft, Gathering!MapThenFoldSet, Gathering!Max

LEMMA AllFollowedAreNames ==
  ASSUME world \in Worlds, NEW s, NEW users, NEW find \in Finders, NEW found \in Seq(Names)
  PROVE  AllFollowed(s, users, find, found) \in Seq(Names)
<1> DEFINE q == <<s, users>>
<1>1. ASSUME NEW i \in 1 .. Len(order), NEW a, NamesFound(0, a, i - 1)
      PROVE  NamesFound(0, FollowedNext(q, find, a, order[i]), i)
  <2> DEFINE n == order[i]
  <2>1. a \in Seq(Names)
    BY <1>1 DEF NamesFound
  <2>2. CASE n \in users /\ Exists(s, "struct", n) /\ n \notin ToSet(a)
    <3>1. n \in Names /\ Key("struct", n) \in Keys
      BY <2>2, TypeKeys DEF Exists
    <3> HIDE DEF n
    <3>2. Append(a, n) \in Seq(Names)
      BY <2>1, <3>1
    <3>3. find[Key("struct", n)][Append(a, n)] \in Seq(Names)
      BY <3>1, <3>2 DEF Finders
    <3> QED
      BY <2>2, <3>3 DEF NamesFound, FollowedNext, FollowedBy, q, n
  <2>3. CASE ~(n \in users /\ Exists(s, "struct", n) /\ n \notin ToSet(a))
    <3>1. FollowedBy(s, users, find, a, n) = a
      BY <2>3 DEF FollowedBy
    <3> QED
      BY <2>1, <3>1 DEF NamesFound, FollowedNext
  <2> QED
    BY <2>2, <2>3
<1>2. NamesFound(0, found, 0)
  BY DEF NamesFound
<1> HIDE DEF q
<1>3. NamesFound(0, Gathering!Folded(q, find, found, order), Len(order))
  BY <1>1, <1>2, OrderIs, Gathering!FoldLeftInduction
<1> QED
  BY <1>3, AllFollowedIs DEF NamesFound, q

LEMMA StructsUsingIs ==
  ASSUME NEW s
  PROVE  StructsUsing(s) = Deepening!Folded(s, 0, Unfollowed, order)
BY DEF StructsUsing, Deepening!Folded, FinderNext, FoldLeft, MapThenFoldSet, Max,
       Deepening!FoldLeft, Deepening!MapThenFoldSet, Deepening!Max

LEMMA StructsUsingFinds ==
  ASSUME world \in Worlds, NEW s
  PROVE  StructsUsing(s) \in Finders
<1>1. FindersFound(0, Unfollowed, 0)
  BY DEF FindersFound, Finders, Unfollowed
<1>2. ASSUME NEW i \in 1 .. Len(order), NEW a, FindersFound(0, a, i - 1)
      PROVE  FindersFound(0, FinderNext(s, 0, a, order[i]), i)
  <2>1. a \in Finders
    BY <1>2 DEF FindersFound
  <2>2. \A k \in Keys : \A found \in Seq(Names) :
           AllFollowed(s, StructUsers(s, k), a, found) \in Seq(Names)
    BY <2>1, AllFollowedAreNames
  <2>3. NextFollowed(s, a) \in Finders
    BY <2>2 DEF NextFollowed, Finders
  <2> QED
    BY <2>3 DEF FindersFound, FinderNext
<1>3. FindersFound(0, Deepening!Folded(s, 0, Unfollowed, order), Len(order))
  BY <1>1, <1>2, OrderIs, Deepening!FoldLeftInduction
<1> QED
  BY <1>3, StructsUsingIs DEF FindersFound

LEMMA DependenciesAre ==
  ASSUME NEW s, NEW k
  PROVE  Dependencies(s, k).structs
           = Behind!Folded(StructsUsing(s), EnumUsers(s, k), StructsUsing(s)[k][<<>>], order)
BY DEF Dependencies, ForEach, Behind!Folded, BehindNext, FoldLeft, MapThenFoldSet, Max,
       Behind!FoldLeft, Behind!MapThenFoldSet, Behind!Max

LEMMA DependenciesAreNames ==
  ASSUME world \in Worlds, NEW s, NEW k \in Keys
  PROVE  Dependencies(s, k).structs \in Seq(Names)
<1> DEFINE find == StructsUsing(s)
           names == EnumUsers(s, k)
<1>1. find \in Finders
  BY StructsUsingFinds
<1>2. names \subseteq Names
  BY DEF EnumUsers, UsersOf
<1> HIDE DEF find, names
<1>3. NamesFound(0, find[k][<<>>], 0)
  <2>1. <<>> \in Seq(Names)
    OBVIOUS
  <2> QED
    BY <1>1, <2>1 DEF NamesFound, Finders
<1>4. ASSUME NEW i \in 1 .. Len(order), NEW a, NamesFound(0, a, i - 1)
      PROVE  NamesFound(0, BehindNext(find, names, a, order[i]), i)
  <2> DEFINE n == order[i]
  <2>1. a \in Seq(Names)
    BY <1>4 DEF NamesFound
  <2>2. CASE n \in names
    <3>1. Key("enum", n) \in Keys
      BY <1>2, <2>2, TypeKeys
    <3> HIDE DEF n
    <3>2. find[Key("enum", n)][a] \in Seq(Names)
      BY <1>1, <2>1, <3>1 DEF Finders
    <3> QED
      BY <2>2, <3>2 DEF NamesFound, BehindNext, n
  <2>3. CASE n \notin names
    BY <2>1, <2>3 DEF NamesFound, BehindNext
  <2> QED
    BY <2>2, <2>3
<1>5. NamesFound(0, Behind!Folded(find, names, find[k][<<>>], order), Len(order))
  BY <1>3, <1>4, OrderIs, Behind!FoldLeftInduction
<1> QED
  BY <1>5, DependenciesAre DEF NamesFound, find, names

\* Infos change, their problems and identities do not.
LEMMA MarksChange ==
  ASSUME NEW left, NEW s, Matching(s, left), NEW t \in States,
         t.items = s.items, t.service = s.service,
         \A k \in Keys : /\ HasInfo(t, k) <=> HasInfo(s, k)
                         /\ HasInfo(s, k) => /\ t.info[k].id = s.info[k].id
                                             /\ t.info[k].busy = s.info[k].busy
                                             /\ t.info[k].problems = s.info[k].problems
  PROVE  To(s, t, left)
<1>1. Present(t) = Present(s) /\ Informable(t) = Informable(s)
  BY DEF Present, Informable
<1>2. \A k \in Present(t) : Placed(t, k)
  BY <1>1 DEF Matching, Placed
<1>3. InfosOfItems(t)
  BY <1>1 DEF Matching, InfosOfItems
<1>4. \A k \in Keys : HasInfo(s, k) => EntriesOf(k, t.info[k]) = EntriesOf(k, s.info[k])
  BY DEF EntriesOf
<1>5. \A e : Said(t, e) <=> Said(s, e)
  BY <1>4 DEF Said
<1>6. \A e \in left : HasInfo(t, e.key) => e.id # t.info[e.key].id
  <2> SUFFICES ASSUME NEW e \in left, HasInfo(t, e.key) PROVE e.id # t.info[e.key].id
    OBVIOUS
  <2>1. e \in s.service
    BY DEF Matching, Protocolled
  <2>2. e.key \in Keys
    BY <2>1 DEF Matching, States
  <2> QED
    BY <2>2 DEF Matching, Protocolled
<1>7. Protocolled(t, left)
  BY <1>5, <1>6 DEF Matching, Protocolled
<1>8. Marked(t) = Marked(s)
  BY DEF Marked
<1> QED
  BY <1>1, <1>2, <1>3, <1>7, <1>8 DEF To, Matching, Grows

LEMMA ForceAllTo ==
  ASSUME NEW left, NEW s, Matching(s, left), NEW r
  PROVE  To(s, ForceAll(s, r), left)
<1> DEFINE keys == {Key("struct", n) : n \in ToSet(r.structs)} \union {Key("enum", n) : n \in r.enums}
           new == [k \in Keys |-> IF k \in keys /\ HasInfo(s, k)
                                  THEN [s.info[k] EXCEPT !.validated = FALSE] ELSE s.info[k]]
           t == [s EXCEPT !.info = new]
<1> HIDE DEF keys
<1>1. s \in States
  BY DEF Matching
<1>2. \A k \in Keys : HasInfo(s, k) => s.info[k] \in Infos
  BY <1>1 DEF HasInfo, States
<1>3. \A k \in Keys : /\ new[k] \in Infos \union {None}
                      /\ new[k] # None <=> HasInfo(s, k)
                      /\ HasInfo(s, k) => /\ new[k].id = s.info[k].id /\ new[k].busy = s.info[k].busy
                                          /\ new[k].problems = s.info[k].problems
  <2> SUFFICES ASSUME NEW k \in Keys
               PROVE  /\ new[k] \in Infos \union {None}
                      /\ new[k] # None <=> HasInfo(s, k)
                      /\ HasInfo(s, k) => /\ new[k].id = s.info[k].id /\ new[k].busy = s.info[k].busy
                                          /\ new[k].problems = s.info[k].problems
    OBVIOUS
  <2>1. CASE k \in keys /\ HasInfo(s, k)
    <3>1. s.info[k] \in Infos
      BY <1>2, <2>1
    <3>2. new[k] = [s.info[k] EXCEPT !.validated = FALSE]
      BY <2>1
    <3>3. new[k] \in Infos
      BY <3>1, <3>2 DEF Infos
    <3>4. /\ new[k].id = s.info[k].id /\ new[k].busy = s.info[k].busy
          /\ new[k].problems = s.info[k].problems
      BY <3>1, <3>2 DEF Infos
    <3> QED
      BY <2>1, <3>3, <3>4, NoneAssumption
  <2>2. CASE ~(k \in keys /\ HasInfo(s, k))
    <3>1. new[k] = s.info[k]
      BY <2>2
    <3> QED
      BY <1>1, <3>1 DEF States, HasInfo
  <2> QED
    BY <2>1, <2>2
<1>4. new \in [Keys -> Infos \union {None}]
  BY <1>3
<1> HIDE DEF new
<1>5. t \in States /\ t.info = new /\ t.items = s.items /\ t.service = s.service
  BY <1>1, <1>4 DEF States
<1>6. ForceAll(s, r) = t
  BY DEF ForceAll, t, new, keys
<1> HIDE DEF t
<1>7. \A k \in Keys : /\ HasInfo(t, k) <=> HasInfo(s, k)
                      /\ HasInfo(s, k) => /\ t.info[k].id = s.info[k].id
                                          /\ t.info[k].busy = s.info[k].busy
                                          /\ t.info[k].problems = s.info[k].problems
  BY <1>3, <1>5 DEF HasInfo
<1>8. To(s, t, left)
  BY <1>5, <1>7, MarksChange
<1> QED
  BY <1>6, <1>8

-----------------------------------------------------------------------------
(* The users of an item *)

LEMMA UpdateExistingTo ==
  ASSUME NEW left, NEW deeper, Sound(deeper, left), NEW s, Matching(s, left), NEW kind, NEW n
  PROVE  /\ kind \in {"struct", "enum"} => To(s, UpdateExisting(deeper, s, kind, n), left)
         /\ To(s, RevalidateExisting(deeper, s, kind, n), left)
<1>1. CASE ~Exists(s, kind, n)
  BY <1>1, ToItself DEF UpdateExisting, RevalidateExisting
<1>2. CASE Exists(s, kind, n)
  <2>1. Key(kind, n) \in Present(s) /\ (kind \in {"struct", "enum"} => Live(s, Key(kind, n)))
    BY <1>2, ExistsIs
  <2>2. To(s, RevalidateUser(deeper, s, Key(kind, n)), left)
    BY <2>1, RevalidateUserTo
  <2>3. kind \in {"struct", "enum"} => To(s, Update(deeper, s, Key(kind, n)), left)
    BY <2>1, UpdateTo
  <2> QED
    BY <1>2, <2>2, <2>3 DEF UpdateExisting, RevalidateExisting
<1> QED
  BY <1>1, <1>2

LEMMA UpdateAllStructsIs ==
  ASSUME NEW deeper, NEW s, NEW names
  PROVE  UpdateAllStructs(deeper, s, names) = UpdatingStructs!Folded(deeper, 0, s, names)
BY DEF UpdateAllStructs, UpdatingStructs!Folded, UpdateStructNext, FoldLeft, MapThenFoldSet, Max,
       UpdatingStructs!FoldLeft, UpdatingStructs!MapThenFoldSet, UpdatingStructs!Max

LEMMA UpdateAllStructsTo ==
  ASSUME world \in Worlds, NEW left, NEW deeper, Sound(deeper, left), NEW s, Matching(s, left),
         NEW names \in Seq(Names)
  PROVE  To(s, UpdateAllStructs(deeper, s, names), left)
<1> DEFINE env == <<s, left>>
           q == 0
<1>0. Len(names) \in Nat /\ DOMAIN names = 1 .. Len(names)
  OBVIOUS
<1>1. Reached(env, s, 0)
  BY ToItself DEF Reached
<1>2. ASSUME NEW i \in 1 .. Len(names), NEW a, Reached(env, a, i - 1)
      PROVE  Reached(env, UpdateStructNext(deeper, q, a, names[i]), i)
  <2> DEFINE n == names[i]
  <2>1. To(s, a, left) /\ Matching(a, left)
    BY <1>2 DEF Reached, To
  <2> HIDE DEF n
  <2>2. To(a, UpdateExisting(deeper, a, "struct", n), left)
    BY <2>1, UpdateExistingTo
  <2>3. To(s, UpdateExisting(deeper, a, "struct", n), left)
    BY <2>1, <2>2, ToOver
  <2> QED
    BY <2>1, <2>3 DEF Reached, UpdateStructNext, n, q
<1> HIDE DEF env, q
<1>3. Reached(env, UpdatingStructs!Folded(deeper, q, s, names), Len(names))
  BY <1>1, <1>2, <1>0, UpdatingStructs!FoldLeftInduction
<1>4. UpdateAllStructs(deeper, s, names) = UpdatingStructs!Folded(deeper, q, s, names)
  BY UpdateAllStructsIs DEF q
<1> QED
  BY <1>3, <1>4 DEF Reached, env

LEMMA UpdateAllEnumsIs ==
  ASSUME NEW deeper, NEW s, NEW names
  PROVE  UpdateAllEnums(deeper, s, names) = UpdatingEnums!Folded(deeper, names, s, order)
BY DEF UpdateAllEnums, ForEach, UpdatingEnums!Folded, UpdateEnumNext, FoldLeft, MapThenFoldSet, Max,
       UpdatingEnums!FoldLeft, UpdatingEnums!MapThenFoldSet, UpdatingEnums!Max

LEMMA UpdateAllEnumsTo ==
  ASSUME world \in Worlds, NEW left, NEW deeper, Sound(deeper, left), NEW s, Matching(s, left), NEW names
  PROVE  To(s, UpdateAllEnums(deeper, s, names), left)
<1> DEFINE env == <<s, left>>
           q == names
<1>1. Reached(env, s, 0)
  BY ToItself DEF Reached
<1>2. ASSUME NEW i \in 1 .. Len(order), NEW a, Reached(env, a, i - 1)
      PROVE  Reached(env, UpdateEnumNext(deeper, q, a, order[i]), i)
  <2> DEFINE n == order[i]
  <2>1. To(s, a, left) /\ Matching(a, left)
    BY <1>2 DEF Reached, To
  <2> HIDE DEF n
  <2>2. To(a, UpdateExisting(deeper, a, "enum", n), left)
    BY <2>1, UpdateExistingTo
  <2>3. To(s, UpdateExisting(deeper, a, "enum", n), left)
    BY <2>1, <2>2, ToOver
  <2> QED
    BY <2>1, <2>3 DEF Reached, UpdateEnumNext, n, q
<1> HIDE DEF env, q
<1>3. Reached(env, UpdatingEnums!Folded(deeper, q, s, order), Len(order))
  BY <1>1, <1>2, OrderIs, UpdatingEnums!FoldLeftInduction
<1>4. UpdateAllEnums(deeper, s, names) = UpdatingEnums!Folded(deeper, q, s, order)
  BY UpdateAllEnumsIs DEF q
<1> QED
  BY <1>3, <1>4 DEF Reached, env

LEMMA RevalidateUsersIs ==
  ASSUME NEW deeper, NEW s, NEW kind, NEW names
  PROVE  RevalidateUsers(deeper, s, kind, names)
           = Revalidating!Folded(deeper, <<names, kind>>, s, order)
BY DEF RevalidateUsers, ForEach, Revalidating!Folded, RevalidateNext, FoldLeft, MapThenFoldSet, Max,
       Revalidating!FoldLeft, Revalidating!MapThenFoldSet, Revalidating!Max

LEMMA RevalidateUsersTo ==
  ASSUME world \in Worlds, NEW left, NEW deeper, Sound(deeper, left), NEW s, Matching(s, left),
         NEW kind, NEW names
  PROVE  To(s, RevalidateUsers(deeper, s, kind, names), left)
<1> DEFINE env == <<s, left>>
           q == <<names, kind>>
<1>1. Reached(env, s, 0)
  BY ToItself DEF Reached
<1>2. ASSUME NEW i \in 1 .. Len(order), NEW a, Reached(env, a, i - 1)
      PROVE  Reached(env, RevalidateNext(deeper, q, a, order[i]), i)
  <2> DEFINE n == order[i]
  <2>1. To(s, a, left) /\ Matching(a, left)
    BY <1>2 DEF Reached, To
  <2> HIDE DEF n
  <2>2. To(a, RevalidateExisting(deeper, a, kind, n), left)
    BY <2>1, UpdateExistingTo
  <2>3. To(s, RevalidateExisting(deeper, a, kind, n), left)
    BY <2>1, <2>2, ToOver
  <2> QED
    BY <2>1, <2>3 DEF Reached, RevalidateNext, n, q
<1> HIDE DEF env, q
<1>3. Reached(env, Revalidating!Folded(deeper, q, s, order), Len(order))
  BY <1>1, <1>2, OrderIs, Revalidating!FoldLeftInduction
<1>4. RevalidateUsers(deeper, s, kind, names) = Revalidating!Folded(deeper, q, s, order)
  BY RevalidateUsersIs DEF q
<1> QED
  BY <1>3, <1>4 DEF Reached, env

LEMMA UntilRenamedTo ==
  ASSUME NEW left, NEW s, Matching(s, left), NEW fk, NEW tk, NEW old, NEW new
  PROVE  To(s, UntilRenamed(s, fk, tk, old, new), left)
BY ToItself, RemoveInMapToTo DEF UntilRenamed

LEMMA FollowOneTo ==
  ASSUME NEW left, NEW deeper, Sound(deeper, left), NEW s, Matching(s, left),
         NEW fk, NEW f \in {"to", "aux"}, NEW old, NEW new \in Names, NEW n
  PROVE  To(s, FollowOne(deeper, s, fk, f, old, new, n), left)
<1>1. CASE ~Exists(s, fk, n)
  BY <1>1, ToItself DEF FollowOne
<1>2. CASE Exists(s, fk, n)
  <2> DEFINE k == Key(fk, n)
             t == Redirected(s, k, f, old, new)
  <2>1. k \in Present(s)
    BY <1>2, ExistsIs
  <2> HIDE DEF k
  <2>2. To(s, t, left)
    BY <2>1, RedirectedTo
  <2> HIDE DEF t
  <2>3. Matching(t, left) /\ k \in Present(t)
    BY <2>1, <2>2 DEF To, Grows
  <2>4. To(t, RevalidateUser(deeper, t, k), left)
    BY <2>3, RevalidateUserTo
  <2>5. To(s, RevalidateUser(deeper, t, k), left)
    BY <2>2, <2>4, ToOver
  <2> QED
    BY <1>2, <2>5 DEF FollowOne, t, k
<1> QED
  BY <1>1, <1>2

LEMMA FollowRenameTo ==
  ASSUME world \in Worlds, NEW left, NEW deeper, Sound(deeper, left), NEW s, Matching(s, left),
         NEW users, NEW fk, NEW f \in {"to", "aux"}, NEW old, NEW new \in Names
  PROVE  To(s, FollowRename(deeper, s, users, fk, f, old, new), left)
<1> DEFINE env == <<s, left>>
           q == <<users, fk, f, old, new>>
<1>1. Reached(env, s, 0)
  BY ToItself DEF Reached
<1>2. ASSUME NEW i \in 1 .. Len(order), NEW a, Reached(env, a, i - 1)
      PROVE  Reached(env, FollowNext(deeper, q, a, order[i]), i)
  <2> DEFINE n == order[i]
  <2>1. To(s, a, left) /\ Matching(a, left)
    BY <1>2 DEF Reached, To
  <2> HIDE DEF n
  <2>2. To(a, FollowOne(deeper, a, fk, f, old, new, n), left)
    BY <2>1, FollowOneTo
  <2>3. To(s, FollowOne(deeper, a, fk, f, old, new, n), left)
    BY <2>1, <2>2, ToOver
  <2> QED
    BY <2>1, <2>3 DEF Reached, FollowNext, n, q
<1> HIDE DEF env, q
<1>3. Reached(env, Following!Folded(deeper, q, s, order), Len(order))
  BY <1>1, <1>2, OrderIs, Following!FoldLeftInduction
<1>4. FollowRename(deeper, s, users, fk, f, old, new) = Following!Folded(deeper, q, s, order)
  BY FollowIs DEF q
<1> QED
  BY <1>3, <1>4 DEF Reached, env

LEMMA FollowTo ==
  ASSUME world \in Worlds, NEW left, NEW deeper, Sound(deeper, left), NEW s, Matching(s, left),
         NEW fk, NEW tk, NEW f \in {"to", "aux"}, NEW old, NEW new \in Names
  PROVE  To(s, Follow(deeper, s, fk, tk, f, old, new), left)
<1> DEFINE t == UntilRenamed(s, fk, tk, old, new)
           users == UsersOf(s, fk, tk, old)
<1>1. To(s, t, left) /\ Matching(t, left)
  BY UntilRenamedTo DEF To
<1> HIDE DEF t, users
<1>2. To(t, FollowRename(deeper, t, users, fk, f, old, new), left)
  BY <1>1, FollowRenameTo
<1>3. To(s, FollowRename(deeper, t, users, fk, f, old, new), left)
  BY <1>1, <1>2, ToOver
<1> QED
  BY <1>3 DEF Follow, t, users

LEMMA EnumFollowsTo ==
  ASSUME NEW left, NEW deeper, Sound(deeper, left), NEW s, Matching(s, left),
         NEW old, NEW new \in Names, NEW n
  PROVE  To(s, EnumFollows(deeper, s, old, new, n), left)
<1> DEFINE k == Key("enum", n)
           t == Redirected(s, k, "to", old, new)
           stays == old = new \/ ~Exists(s, "enum", n) \/ s.items[k].refs[1].to # old
<1>1. CASE stays
  BY <1>1, ToItself DEF EnumFollows
<1>2. CASE ~stays
  <2>1. k \in Present(s) /\ Live(s, k)
    BY <1>2, ExistsIs
  <2> HIDE DEF k, stays
  <2>2. To(s, t, left)
    BY <2>1, RedirectedTo
  <2> HIDE DEF t
  <2>3. Matching(t, left) /\ Live(t, k)
    BY <2>1, <2>2, LiveKept
  <2>4. To(t, DataTypeNameChanged(deeper, t, k), left)
    BY <2>3, DataTypeNameChangedTo
  <2>5. To(s, DataTypeNameChanged(deeper, t, k), left)
    BY <2>2, <2>4, ToOver
  <2> QED
    BY <1>2, <2>5 DEF EnumFollows, t, k, stays
<1> QED
  BY <1>1, <1>2

LEMMA EnumsFollowIs ==
  ASSUME NEW deeper, NEW s, NEW old, NEW new
  PROVE  EnumsFollow(deeper, s, old, new)
           = EnumsFollowing!Folded(deeper, <<UsersOf(s, "enum", "data", old), old, new>>,
                                   UntilRenamed(s, "enum", "data", old, new), order)
BY DEF EnumsFollow, ForEach, EnumsFollowing!Folded, EnumFollowNext, FoldLeft, MapThenFoldSet, Max,
       EnumsFollowing!FoldLeft, EnumsFollowing!MapThenFoldSet, EnumsFollowing!Max

LEMMA EnumsFollowTo ==
  ASSUME world \in Worlds, NEW left, NEW deeper, Sound(deeper, left), NEW s, Matching(s, left),
         NEW old, NEW new \in Names
  PROVE  To(s, EnumsFollow(deeper, s, old, new), left)
<1> DEFINE env == <<s, left>>
           begun == UntilRenamed(s, "enum", "data", old, new)
           q == <<UsersOf(s, "enum", "data", old), old, new>>
<1>1. Reached(env, begun, 0)
  BY UntilRenamedTo DEF Reached
<1>2. ASSUME NEW i \in 1 .. Len(order), NEW a, Reached(env, a, i - 1)
      PROVE  Reached(env, EnumFollowNext(deeper, q, a, order[i]), i)
  <2> DEFINE n == order[i]
  <2>1. To(s, a, left) /\ Matching(a, left)
    BY <1>2 DEF Reached, To
  <2> HIDE DEF n
  <2>2. To(a, EnumFollows(deeper, a, old, new, n), left)
    BY <2>1, EnumFollowsTo
  <2>3. To(s, EnumFollows(deeper, a, old, new, n), left)
    BY <2>1, <2>2, ToOver
  <2> QED
    BY <2>1, <2>3 DEF Reached, EnumFollowNext, n, q
<1> HIDE DEF env, q, begun
<1>3. Reached(env, EnumsFollowing!Folded(deeper, q, begun, order), Len(order))
  BY <1>1, <1>2, OrderIs, EnumsFollowing!FoldLeftInduction
<1>4. EnumsFollow(deeper, s, old, new) = EnumsFollowing!Folded(deeper, q, begun, order)
  BY EnumsFollowIs DEF q, begun
<1> QED
  BY <1>3, <1>4 DEF Reached, env

-----------------------------------------------------------------------------
(* Events *)

LEMMA TypeChangedTo ==
  ASSUME world \in Worlds, NEW left, NEW deeper, Sound(deeper, left), NEW s, Matching(s, left),
         NEW k, Live(s, k)
  PROVE  To(s, TypeChanged(deeper, s, k), left)
<1> DEFINE r == Dependencies(s, k)
           names == r.structs
           t == ForceAll(s, r)
           u == ItselfChanged(deeper, t, k)
<1>1. names \in Seq(Names)
  BY ItemOf, DependenciesAreNames DEF Live
<1>2. To(s, t, left)
  BY ForceAllTo
<1> HIDE DEF t, names
<1>3. Matching(t, left) /\ Live(t, k)
  BY <1>2, LiveKept
<1>4. To(t, u, left) /\ Matching(u, left)
  BY <1>3, ItselfChangedTo DEF To
<1> HIDE DEF u
<1>5. To(u, UpdateAllStructs(deeper, u, names), left)
  BY <1>1, <1>4, UpdateAllStructsTo
<1>6. To(s, UpdateAllStructs(deeper, u, names), left)
  BY <1>2, <1>4, <1>5, ToOver
<1> QED
  BY <1>6 DEF TypeChanged, t, u, names

LEMMA DataTypeChangedTo ==
  ASSUME world \in Worlds, NEW left, NEW deeper, Sound(deeper, left), NEW s, Matching(s, left),
         NEW k, Live(s, k)
  PROVE  To(s, DataTypeChanged(deeper, s, k), left)
<1> DEFINE t == ItselfChanged(deeper, s, k)
           r == Dependencies(t, k)
           structs == r.structs
           enums == r.enums
           u == ForceAll(t, r)
           v == UpdateAllStructs(deeper, u, structs)
<1>1. To(s, t, left) /\ Matching(t, left)
  BY ItselfChangedTo DEF To
<1>2. structs \in Seq(Names)
  BY ItemOf, DependenciesAreNames DEF Live
<1> HIDE DEF t
<1>3. To(t, u, left) /\ Matching(u, left)
  BY <1>1, ForceAllTo DEF To
<1> HIDE DEF u, structs, enums
<1>4. To(u, v, left) /\ Matching(v, left)
  BY <1>2, <1>3, UpdateAllStructsTo DEF To
<1> HIDE DEF v
<1>5. To(v, UpdateAllEnums(deeper, v, enums), left)
  BY <1>4, UpdateAllEnumsTo
<1>6. To(s, v, left)
  BY <1>1, <1>3, <1>4, ToOver
<1>7. To(s, UpdateAllEnums(deeper, v, enums), left)
  BY <1>5, <1>6, ToOver
<1> QED
  BY <1>7 DEF DataTypeChanged, t, u, v, structs, enums

LEMMA RenamedTypeTo ==
  ASSUME world \in Worlds, NEW left, NEW deeper, Sound(deeper, left), NEW s, Matching(s, left),
         NEW old \in Names, NEW new \in Names
  PROVE  /\ To(s, RenamedData(deeper, s, old, new), left)
         /\ To(s, RenamedEnum(deeper, s, old, new), left)
<1>1. To(s, RenamedData(deeper, s, old, new), left)
  <2> DEFINE t == RenameInMapFrom(s, {<<"data", "unit">>}, old, new)
             u == EnumsFollow(deeper, t, old, new)
             v == Follow(deeper, u, "struct", "data", "to", old, new)
  <2>1. To(s, t, left) /\ Matching(t, left)
    BY RenameInMapFromTo DEF To
  <2> HIDE DEF t
  <2>2. To(t, u, left) /\ Matching(u, left)
    BY <2>1, EnumsFollowTo DEF To
  <2> HIDE DEF u
  <2>3. To(u, v, left)
    BY <2>2, FollowTo
  <2> HIDE DEF v
  <2>4. To(s, v, left)
    BY <2>1, <2>2, <2>3, ToOver
  <2> QED
    BY <2>4 DEF RenamedData, t, u, v
<1>2. To(s, RenamedEnum(deeper, s, old, new), left)
  <2> DEFINE t == RenameInMapFrom(s, {<<"enum", "data">>}, old, new)
             u == Follow(deeper, t, "struct", "enum", "to", old, new)
  <2>1. To(s, t, left) /\ Matching(t, left)
    BY RenameInMapFromTo DEF To
  <2> HIDE DEF t
  <2>2. To(t, u, left)
    BY <2>1, FollowTo
  <2> HIDE DEF u
  <2>3. To(s, u, left)
    BY <2>1, <2>2, ToOver
  <2> QED
    BY <2>3 DEF RenamedEnum, t, u
<1> QED
  BY <1>1, <1>2

\* Users of two kinds follow, one kind after the other.
LEMMA FollowTwiceTo ==
  ASSUME world \in Worlds, NEW left, NEW deeper, Sound(deeper, left), NEW s, Matching(s, left),
         NEW old, NEW new \in Names, NEW fk, NEW fl, NEW tk, NEW f \in {"to", "aux"},
         NEW g \in {"to", "aux"}
  PROVE  To(s, Follow(deeper, Follow(deeper, s, fk, tk, f, old, new), fl, tk, g, old, new), left)
<1> DEFINE t == Follow(deeper, s, fk, tk, f, old, new)
           u == Follow(deeper, t, fl, tk, g, old, new)
<1>1. To(s, t, left) /\ Matching(t, left)
  BY FollowTo DEF To
<1> HIDE DEF t
<1>2. To(t, u, left)
  BY <1>1, FollowTo
<1> HIDE DEF u
<1>3. To(s, u, left)
  BY <1>1, <1>2, ToOver
<1> QED
  BY <1>3 DEF t, u

LEMMA RenamedOtherTo ==
  ASSUME world \in Worlds, NEW left, NEW deeper, Sound(deeper, left), NEW s, Matching(s, left),
         NEW old \in Names, NEW new \in Names
  PROVE  /\ To(s, RenamedStruct(deeper, s, old, new), left)
         /\ To(s, RenamedMeta(deeper, s, old, new), left)
         /\ To(s, RenamedStream(s, old, new), left)
         /\ To(s, RenamedBase(deeper, s, old, new), left)
         /\ To(s, RenamedPrefix(deeper, s, old, new), left)
         /\ To(s, RenamedUnit(deeper, s, old, new), left)
<1>1. To(s, RenamedStruct(deeper, s, old, new), left)
  <2> DEFINE t == RenameInMapFrom(s, {"struct"} \X {"data", "enum", "struct"}, old, new)
             u == Follow(deeper, Follow(deeper, t, "struct", "struct", "to", old, new),
                         "stream", "struct", "to", old, new)
  <2>1. To(s, t, left) /\ Matching(t, left)
    BY RenameInMapFromTo DEF To
  <2> HIDE DEF t
  <2>2. To(t, u, left)
    BY <2>1, FollowTwiceTo
  <2> HIDE DEF u
  <2>3. To(s, u, left)
    BY <2>1, <2>2, ToOver
  <2> QED
    BY <2>3 DEF RenamedStruct, t, u
<1>2. To(s, RenamedMeta(deeper, s, old, new), left)
  <2> DEFINE t == RenameInMapFrom(s, {<<"meta", "meta">>}, old, new)
             u == Follow(deeper, Follow(deeper, t, "meta", "meta", "to", old, new),
                         "stream", "meta", "to", old, new)
  <2>1. To(s, t, left) /\ Matching(t, left)
    BY RenameInMapFromTo DEF To
  <2> HIDE DEF t
  <2>2. To(t, u, left)
    BY <2>1, FollowTwiceTo
  <2> HIDE DEF u
  <2>3. To(s, u, left)
    BY <2>1, <2>2, ToOver
  <2> QED
    BY <2>3 DEF RenamedMeta, t, u
<1>3. To(s, RenamedStream(s, old, new), left)
  BY RenameInMapFromTo DEF RenamedStream
<1>4. To(s, RenamedBase(deeper, s, old, new), left)
  <2> DEFINE t == Follow(deeper, Follow(deeper, s, "struct", "base", "aux", old, new),
                         "data", "base", "to", old, new)
             u == Follow(deeper, t, "unit", "base", "to", old, new)
  <2>1. To(s, t, left)
    BY FollowTwiceTo
  <2> HIDE DEF t
  <2>2. Matching(t, left)
    BY <2>1 DEF To
  <2>3. To(t, u, left)
    BY <2>2, FollowTo
  <2> HIDE DEF u
  <2>4. To(s, u, left)
    BY <2>1, <2>3, ToOver
  <2> QED
    BY <2>4 DEF RenamedBase, t, u
<1>5. To(s, RenamedPrefix(deeper, s, old, new), left)
  BY FollowTo DEF RenamedPrefix
<1>6. To(s, RenamedUnit(deeper, s, old, new), left)
  <2> DEFINE t == RenameInMapFrom(s, {"unit"} \X {"base", "prefix"}, old, new)
             u == Follow(deeper, Follow(deeper, t, "struct", "unit", "aux", old, new),
                         "data", "unit", "to", old, new)
  <2>1. To(s, t, left) /\ Matching(t, left)
    BY RenameInMapFromTo DEF To
  <2> HIDE DEF t
  <2>2. To(t, u, left)
    BY <2>1, FollowTwiceTo
  <2> HIDE DEF u
  <2>3. To(s, u, left)
    BY <2>1, <2>2, ToOver
  <2> QED
    BY <2>3 DEF RenamedUnit, t, u
<1> QED
  BY <1>1, <1>2, <1>3, <1>4, <1>5, <1>6

LEMMA DoRenamedTo ==
  ASSUME world \in Worlds, NEW left, NEW deeper, Sound(deeper, left), NEW s, Matching(s, left),
         NEW k \in Present(s), NEW old \in Names
  PROVE  To(s, DoRenamed(deeper, s, k, old), left)
<1> DEFINE new == Name(k)
           kind == s.items[k].kind
<1>1. new \in Names /\ s.items[k] \in Items
  BY ItemOf
<1>2. kind \in Kinds
  BY <1>1 DEF Items
<1> HIDE DEF new, kind
<1>3. /\ To(s, RenamedData(deeper, s, old, new), left)
      /\ To(s, RenamedEnum(deeper, s, old, new), left)
  BY <1>1, RenamedTypeTo
<1>4. /\ To(s, RenamedStruct(deeper, s, old, new), left)
      /\ To(s, RenamedMeta(deeper, s, old, new), left)
      /\ To(s, RenamedStream(s, old, new), left)
      /\ To(s, RenamedBase(deeper, s, old, new), left)
      /\ To(s, RenamedPrefix(deeper, s, old, new), left)
      /\ To(s, RenamedUnit(deeper, s, old, new), left)
  BY <1>1, RenamedOtherTo
<1> QED
  BY <1>2, <1>3, <1>4 DEF DoRenamed, Kinds, new, kind

LEMMA DoItemAddedTo ==
  ASSUME NEW left, NEW deeper, Sound(deeper, left), NEW s, Matching(s, left), NEW k, Live(s, k)
  PROVE  To(s, DoItemAdded(deeper, s, k), left)
<1> DEFINE t == Update(deeper, s, k)
<1>1. To(s, t, left)
  BY UpdateTo
<1> HIDE DEF t
<1>2. Matching(t, left) /\ k \in Present(t) /\ Name(k) \in Names
  BY <1>1, LiveKept, ItemOf DEF Live
<1>3. To(t, Renamed(deeper, t, k, Name(k)), left)
  BY <1>2, RenamedTo
<1>4. To(s, Renamed(deeper, t, k, Name(k)), left)
  BY <1>1, <1>3, ToOver
<1> QED
  BY <1>1, <1>4 DEF DoItemAdded, t

-----------------------------------------------------------------------------
(* All levels of calls *)

LEMMA DoTo ==
  ASSUME world \in Worlds, NEW left, NEW deeper, Sound(deeper, left), NEW c \in Calls, Ready(c, left)
  PROVE  To(c.s, Do(deeper, c), left)
<1>1. c.function \in Functions /\ Matching(c.s, left) /\ c.k \in Present(c.s)
  BY DEF Calls, Ready
<1>2. CASE c.function = "renamed"
  <2>1. To(c.s, DoRenamed(deeper, c.s, c.k, c.old), left)
    BY <1>1, <1>2, DoRenamedTo DEF Ready
  <2> QED
    BY <1>2, <2>1 DEF Do
<1>3. CASE c.function # "renamed"
  <2>1. Live(c.s, c.k)
    BY <1>1, <1>3 DEF Ready, Live
  <2>2. To(c.s, DoUpdate(deeper, c.s, c.k), left)
    BY <1>1, <2>1, DoUpdateTo
  <2>3. To(c.s, DoItemAdded(deeper, c.s, c.k), left)
    BY <1>1, <2>1, DoItemAddedTo
  <2>4. To(c.s, TypeChanged(deeper, c.s, c.k), left)
    BY <1>1, <2>1, TypeChangedTo
  <2> QED
    BY <1>1, <1>3, <2>2, <2>3, <2>4 DEF Do, Functions, DoDataTypeNameChanged
<1> QED
  BY <1>2, <1>3

SoundSoFar(left, deeper, n) == Sound(deeper, left)
LevelNext(p, q, deeper, i) == OneLevel(deeper)
Calling == INSTANCE FoldTheorems WITH Op <- LevelNext, Inv <- SoundSoFar

LEMMA DeepestIs ==
  Deepest = Calling!Folded(0, 0, TooDeep, [i \in 1 .. world.depth |-> i])
BY DEF Deepest, Calling!Folded, LevelNext, FoldLeft, MapThenFoldSet, Max,
       Calling!FoldLeft, Calling!MapThenFoldSet, Calling!Max

\* However deep the functions call each other.
LEMMA DeepestSound ==
  ASSUME world \in Worlds, NEW left
  PROVE  Sound(Deepest, left)
<1> DEFINE levels == [i \in 1 .. world.depth |-> i]
<1>1. world.depth \in Nat /\ DOMAIN levels = 1 .. world.depth
  BY WorldsAssumption
<1>2. SoundSoFar(left, TooDeep, 0)
  <2>1. \A c \in Calls : TooDeep[c] = c.s
    BY DEF TooDeep
  <2> QED
    BY <2>1, ToItself DEF SoundSoFar, Sound, Ready
<1>3. ASSUME NEW i \in 1 .. world.depth, NEW a, SoundSoFar(left, a, i - 1)
      PROVE  SoundSoFar(left, LevelNext(0, 0, a, levels[i]), i)
  <2>1. \A c \in Calls : Ready(c, left) => To(c.s, Do(a, c), left)
    BY <1>3, DoTo DEF SoundSoFar
  <2> QED
    BY <2>1 DEF SoundSoFar, Sound, LevelNext, OneLevel
<1> HIDE DEF levels
<1>4. SoundSoFar(left, Calling!Folded(0, 0, TooDeep, levels), world.depth)
  BY <1>1, <1>2, <1>3, Calling!FoldLeftInduction
<1> QED
  BY <1>4, DeepestIs DEF SoundSoFar, levels

-----------------------------------------------------------------------------
(* The operations *)

TellingNext(kind, n, t, fk) == UsersTold(t, fk, kind, n)
ValidateItemNext(q, p, t, n) == IF n \in q[1] THEN ValidateItem(t, Key(q[2], n), q[3]) ELSE t
ValidateKindNext(force, q, t, kind) == ValidateKind(t, kind, force)

Telling == INSTANCE FoldTheorems WITH Op <- TellingNext, Inv <- Reached
ValidatingItems == INSTANCE FoldTheorems WITH Op <- ValidateItemNext, Inv <- Reached
ValidatingKinds == INSTANCE FoldTheorems WITH Op <- ValidateKindNext, Inv <- Reached

LEMMA UsersToldTo ==
  ASSUME world \in Worlds, NEW left, NEW s, Matching(s, left), NEW fk, NEW tk, NEW n
  PROVE  To(s, UsersTold(s, fk, tk, n), left)
<1> DEFINE t == RemoveInMapTo(s, fk, tk, n)
           users == UsersOf(s, fk, tk, n)
<1>1. To(s, t, left) /\ Matching(t, left)
  BY RemoveInMapToTo DEF To
<1> HIDE DEF t, users
<1>2. Sound(Deepest, left)
  BY DeepestSound
<1>3. To(t, RevalidateUsers(Deepest, t, fk, users), left)
  BY <1>1, <1>2, RevalidateUsersTo
<1>4. To(s, RevalidateUsers(Deepest, t, fk, users), left)
  BY <1>1, <1>3, ToOver
<1> QED
  BY <1>4 DEF UsersTold, t, users

LEMMA RemovedIs ==
  ASSUME NEW s, NEW kind, NEW n
  PROVE  Removed(s, kind, n)
           = Telling!Folded(kind, n, RemoveInMapFrom(s, FromsAndUsers(kind)[1], n), FromsAndUsers(kind)[2])
BY DEF Removed, Telling!Folded, TellingNext, FoldLeft, MapThenFoldSet, Max,
       Telling!FoldLeft, Telling!MapThenFoldSet, Telling!Max

LEMMA RemovedTo ==
  ASSUME world \in Worlds, NEW left, NEW s, Matching(s, left), NEW kind \in Kinds, NEW n
  PROVE  To(s, Removed(s, kind, n), left)
<1> DEFINE pairs == FromsAndUsers(kind)[1]
           users == FromsAndUsers(kind)[2]
           t == RemoveInMapFrom(s, pairs, n)
           env == <<s, left>>
<1>1. users \in Seq(Kinds)
  <2>1. ASSUME kind = "data" PROVE users \in Seq(Kinds)
    <3>1. users = <<"enum", "struct">>
      BY <2>1 DEF FromsAndUsers
    <3> QED
      BY <3>1 DEF Kinds
  <2>2. ASSUME kind = "enum" PROVE users \in Seq(Kinds)
    <3>1. users = <<"struct">>
      BY <2>2 DEF FromsAndUsers
    <3> QED
      BY <3>1 DEF Kinds
  <2>3. ASSUME kind = "struct" PROVE users \in Seq(Kinds)
    <3>1. users = <<"struct", "stream">>
      BY <2>3 DEF FromsAndUsers
    <3> QED
      BY <3>1 DEF Kinds
  <2>4. ASSUME kind = "meta" PROVE users \in Seq(Kinds)
    <3>1. users = <<"meta", "stream">>
      BY <2>4 DEF FromsAndUsers
    <3> QED
      BY <3>1 DEF Kinds
  <2>5. ASSUME kind = "stream" PROVE users \in Seq(Kinds)
    <3>1. users = <<>>
      BY <2>5 DEF FromsAndUsers
    <3> QED
      BY <3>1 DEF Kinds
  <2>6. ASSUME kind = "base" PROVE users \in Seq(Kinds)
    <3>1. users = <<"unit", "data", "struct">>
      BY <2>6 DEF FromsAndUsers
    <3> QED
      BY <3>1 DEF Kinds
  <2>7. ASSUME kind = "prefix" PROVE users \in Seq(Kinds)
    <3>1. users = <<"unit">>
      BY <2>7 DEF FromsAndUsers
    <3> QED
      BY <3>1 DEF Kinds
  <2>8. ASSUME kind = "unit" PROVE users \in Seq(Kinds)
    <3>1. users = <<"data", "struct">>
      BY <2>8 DEF FromsAndUsers
    <3> QED
      BY <3>1 DEF Kinds
  <2> QED
    BY <2>1, <2>2, <2>3, <2>4, <2>5, <2>6, <2>7, <2>8 DEF Kinds
<1> HIDE DEF users, pairs
<1>2. Len(users) \in Nat /\ DOMAIN users = 1 .. Len(users)
  BY <1>1
<1>3. To(s, t, left)
  BY RemoveInMapFromTo
<1> HIDE DEF t
<1>4. Reached(env, t, 0)
  BY <1>3 DEF Reached
<1>5. ASSUME NEW i \in 1 .. Len(users), NEW a, Reached(env, a, i - 1)
      PROVE  Reached(env, TellingNext(kind, n, a, users[i]), i)
  <2> DEFINE fk == users[i]
  <2>1. To(s, a, left) /\ Matching(a, left)
    BY <1>5 DEF Reached, To
  <2> HIDE DEF fk
  <2>2. To(a, UsersTold(a, fk, kind, n), left)
    BY <2>1, UsersToldTo
  <2>3. To(s, UsersTold(a, fk, kind, n), left)
    BY <2>1, <2>2, ToOver
  <2> QED
    BY <2>3 DEF Reached, TellingNext, fk
<1> HIDE DEF env
<1>6. Reached(env, Telling!Folded(kind, n, t, users), Len(users))
  BY <1>2, <1>4, <1>5, Telling!FoldLeftInduction
<1>7. Removed(s, kind, n) = Telling!Folded(kind, n, t, users)
  BY RemovedIs DEF t, pairs, users
<1> QED
  BY <1>6, <1>7 DEF Reached, env

LEMMA ValidateItemTo ==
  ASSUME world \in Worlds, NEW left, NEW s, Matching(s, left), NEW k, Live(s, k), NEW force
  PROVE  To(s, ValidateItem(s, k, force), left)
<1>1. Sound(Deepest, left) /\ HasInfo(s, k) /\ k \in Present(s)
  BY DeepestSound DEF Live
<1>2. To(s, RevalidateUser(Deepest, s, k), left)
  BY <1>1, RevalidateUserTo
<1> QED
  BY <1>1, <1>2, ToItself DEF ValidateItem

LEMMA ValidateKindIs ==
  ASSUME NEW s, NEW kind, NEW force
  PROVE  ValidateKind(s, kind, force)
           = ValidatingItems!Folded(<<{n \in Names : Exists(s, kind, n)}, kind, force>>, 0, s, order)
BY DEF ValidateKind, ForEach, ValidatingItems!Folded, ValidateItemNext, FoldLeft, MapThenFoldSet, Max,
       ValidatingItems!FoldLeft, ValidatingItems!MapThenFoldSet, ValidatingItems!Max

LEMMA ValidateKindTo ==
  ASSUME world \in Worlds, NEW left, NEW s, Matching(s, left), NEW kind, kind \notin {"base", "prefix"},
         NEW force
  PROVE  To(s, ValidateKind(s, kind, force), left)
<1> DEFINE names == {n \in Names : Exists(s, kind, n)}
           q == <<names, kind, force>>
           env == <<s, left>>
<1>1. Reached(env, s, 0)
  BY ToItself DEF Reached
<1>2. ASSUME NEW i \in 1 .. Len(order), NEW a, Reached(env, a, i - 1)
      PROVE  Reached(env, ValidateItemNext(q, 0, a, order[i]), i)
  <2> DEFINE n == order[i]
  <2>1. To(s, a, left) /\ Matching(a, left)
    BY <1>2 DEF Reached, To
  <2>2. CASE n \in names
    <3>1. Live(s, Key(kind, n))
      BY <2>2, ExistsIs
    <3> HIDE DEF n
    <3>2. Live(a, Key(kind, n))
      BY <2>1, <3>1, LiveKept
    <3>3. To(a, ValidateItem(a, Key(kind, n), force), left)
      BY <2>1, <3>2, ValidateItemTo
    <3>4. To(s, ValidateItem(a, Key(kind, n), force), left)
      BY <2>1, <3>3, ToOver
    <3> QED
      BY <2>2, <3>4 DEF Reached, ValidateItemNext, n
  <2>3. CASE n \notin names
    <3>1. ValidateItemNext(q, 0, a, n) = a
      BY <2>3 DEF ValidateItemNext
    <3> QED
      BY <2>1, <3>1 DEF Reached
  <2> QED
    BY <2>2, <2>3
<1> HIDE DEF env, q
<1>3. Reached(env, ValidatingItems!Folded(q, 0, s, order), Len(order))
  BY <1>1, <1>2, OrderIs, ValidatingItems!FoldLeftInduction
<1> QED
  BY <1>3, ValidateKindIs DEF Reached, env, q

ValidatedKinds == <<"unit", "data", "enum", "struct", "meta", "stream">>

LEMMA AllKindsIs ==
  ASSUME NEW force
  PROVE  FoldLeft(LAMBDA s, kind : ValidateKind(s, kind, force), dd, ValidatedKinds)
           = ValidatingKinds!Folded(force, 0, dd, ValidatedKinds)
BY DEF ValidatingKinds!Folded, ValidateKindNext, FoldLeft, MapThenFoldSet, Max,
       ValidatingKinds!FoldLeft, ValidatingKinds!MapThenFoldSet, ValidatingKinds!Max

LEMMA ValidateTo ==
  ASSUME world \in Worlds, NEW left, Matching(dd, left), NEW force, Validate(force)
  PROVE  To(dd, dd', left)
<1> DEFINE env == <<dd, left>>
           last == ValidatingKinds!Folded(force, 0, dd, ValidatedKinds)
<1>1. Len(ValidatedKinds) = 6 /\ DOMAIN ValidatedKinds = 1 .. 6
      /\ \A i \in 1 .. 6 : ValidatedKinds[i] \notin {"base", "prefix"}
  BY DEF ValidatedKinds
<1>2. Reached(env, dd, 0)
  BY ToItself DEF Reached
<1>3. ASSUME NEW i \in 1 .. 6, NEW a, Reached(env, a, i - 1)
      PROVE  Reached(env, ValidateKindNext(force, 0, a, ValidatedKinds[i]), i)
  <2> DEFINE kind == ValidatedKinds[i]
  <2>1. To(dd, a, left) /\ Matching(a, left) /\ kind \notin {"base", "prefix"}
    BY <1>1, <1>3 DEF Reached, To
  <2> HIDE DEF kind
  <2>2. To(a, ValidateKind(a, kind, force), left)
    BY <2>1, ValidateKindTo
  <2>3. To(dd, ValidateKind(a, kind, force), left)
    BY <2>1, <2>2, ToOver
  <2> QED
    BY <2>3 DEF Reached, ValidateKindNext, kind
<1> HIDE DEF env
<1>4. Reached(env, last, 6)
  BY <1>1, <1>2, <1>3, ValidatingKinds!FoldLeftInduction
<1> HIDE DEF last
<1>5. dd' = last
  BY AllKindsIs DEF Validate, last, ValidatedKinds
<1> QED
  BY <1>4, <1>5 DEF Reached, env

LEMMA ItemSet ==
  ASSUME NEW left, NEW s, Matching(s, left), NEW k \in Present(s), NEW i \in Items,
         i.kind = s.items[k].kind
  PROVE  LET t == [s EXCEPT !.items = [s.items EXCEPT ![k] = i]] IN
         /\ Matching(t, left) /\ k \in Present(t) /\ t.items[k] = i
         /\ HasInfo(s, k) => Live(t, k)
         /\ Marked(t) = Marked(s)
<1> DEFINE t == [s EXCEPT !.items = [s.items EXCEPT ![k] = i]]
<1>1. s \in States /\ k \in Keys
  BY ItemOf
<1>2. /\ t \in States /\ t.items = [s.items EXCEPT ![k] = i]
      /\ t.info = s.info /\ t.service = s.service
  BY <1>1 DEF States
<1>3. t.items[k] = i
  BY <1>1, <1>2 DEF States
<1> HIDE DEF t
<1>4. Matching(t, left) /\ Present(t) = Present(s) /\ Marked(t) = Marked(s)
  BY <1>2, ItemChanges
<1>5. HasInfo(s, k) => Live(t, k)
  BY <1>2, <1>4 DEF Live, HasInfo
<1>6. /\ Matching(t, left) /\ k \in Present(t) /\ t.items[k] = i
      /\ HasInfo(s, k) => Live(t, k)
      /\ Marked(t) = Marked(s)
  BY <1>3, <1>4, <1>5
<1> QED
  BY <1>6 DEF t

WithRefs(s, k, refs) == [s EXCEPT !.items[k].refs = refs]

LEMMA RefsChange ==
  ASSUME NEW left, NEW s, Matching(s, left), NEW k \in Present(s), NEW refs \in Seq(Refs)
  PROVE  LET t == WithRefs(s, k, refs) IN
         /\ Matching(t, left) /\ k \in Present(t)
         /\ t.items[k].kind = s.items[k].kind /\ t.items[k].refs = refs
         /\ HasInfo(s, k) => Live(t, k)
         /\ Marked(t) = Marked(s)
<1> DEFINE i == [s.items[k] EXCEPT !.refs = refs]
           t == [s EXCEPT !.items = [s.items EXCEPT ![k] = i]]
<1>1. s \in States /\ s.items[k] \in Items
  BY ItemOf
<1>2. i \in Items /\ i.kind = s.items[k].kind /\ i.refs = refs
  BY <1>1 DEF Items
<1>3. t = WithRefs(s, k, refs)
  BY DEF WithRefs
<1> HIDE DEF i
<1>4. /\ Matching(t, left) /\ k \in Present(t) /\ t.items[k] = i
      /\ HasInfo(s, k) => Live(t, k)
      /\ Marked(t) = Marked(s)
  BY <1>2, ItemSet
<1> HIDE DEF t
<1>5. /\ Matching(t, left) /\ k \in Present(t)
      /\ t.items[k].kind = s.items[k].kind /\ t.items[k].refs = refs
      /\ HasInfo(s, k) => Live(t, k)
      /\ Marked(t) = Marked(s)
  BY <1>2, <1>4
<1> QED
  BY <1>3, <1>5

LEMMA OwnChanges ==
  ASSUME NEW left, NEW s, Matching(s, left), NEW k \in Present(s)
  PROVE  LET t == [s EXCEPT !.items[k].bad = ~@] IN
         /\ Matching(t, left) /\ k \in Present(t)
         /\ t.items[k].kind = s.items[k].kind
         /\ HasInfo(s, k) => Live(t, k)
         /\ Marked(t) = Marked(s)
<1> DEFINE i == [s.items[k] EXCEPT !.bad = ~@]
           t == [s EXCEPT !.items = [s.items EXCEPT ![k] = i]]
<1>1. s \in States /\ s.items[k] \in Items
  BY ItemOf
<1>2. i \in Items /\ i.kind = s.items[k].kind
  BY <1>1 DEF Items
<1>3. t = [s EXCEPT !.items[k].bad = ~@]
  OBVIOUS
<1> HIDE DEF i
<1>4. /\ Matching(t, left) /\ k \in Present(t) /\ t.items[k] = i
      /\ HasInfo(s, k) => Live(t, k)
      /\ Marked(t) = Marked(s)
  BY <1>2, ItemSet
<1> HIDE DEF t
<1>5. /\ Matching(t, left) /\ k \in Present(t)
      /\ t.items[k].kind = s.items[k].kind
      /\ HasInfo(s, k) => Live(t, k)
      /\ Marked(t) = Marked(s)
  BY <1>2, <1>4
<1> QED
  BY <1>3, <1>5

\* What the user refers to, and from where.
LEMMA Referring ==
  ASSUME world \in Worlds, NEW left, NEW s, Matching(s, left), NEW k \in Present(s)
  PROVE  /\ s.items[k].kind \in Kinds /\ s.items[k].refs \in Seq(Refs)
         /\ \A r \in world.refs[s.items[k].kind] : r \in Refs /\ Live(s, k)
<1>1. s.items[k] \in Items /\ (HasInfo(s, k) <=> s.items[k].kind \notin {"base", "prefix"})
  BY ItemOf
<1>2. s.items[k].kind \in Kinds /\ s.items[k].refs \in Seq(Refs)
  BY <1>1 DEF Items
<1>3. world.refs[s.items[k].kind] \subseteq
         IF s.items[k].kind \in {"base", "prefix"} THEN {} ELSE Refs
  BY <1>2, WorldsAssumption
<1> QED
  BY <1>1, <1>2, <1>3 DEF Live

\* Between two calls.
Quiet(s) == Matching(s, {}) /\ Marked(s) = {}
IInv == world \in Worlds /\ Quiet(dd)

LEMMA QuietTo ==
  ASSUME NEW s, Quiet(s), NEW t, To(s, t, {})
  PROVE  Quiet(t)
BY DEF Quiet, To

LEMMA KeyOf ==
  ASSUME NEW kind \in Kinds, NEW n \in Names
  PROVE  Key(kind, n) \in Keys /\ Name(Key(kind, n)) = n
<1>1. Space(kind) \in {"type", "unit", "prefix", "meta", "stream"}
  BY DEF Kinds, Space
<1> QED
  BY <1>1 DEF Key, Keys, Name

\* One step per operation of a user.
LEMMA AddItemKeeps ==
  ASSUME IInv, NEW n \in Names, NEW kind \in Kinds, AddItem(kind, n)
  PROVE  Quiet(dd')
<1> DEFINE k == Key(kind, n)
<1>1. PICK m \in FewestRefs(kind) .. MostRefs(kind) : \E refs \in [1 .. m -> world.refs[kind]] :
         dd' = ItemAdded(Deepest, [dd EXCEPT !.items[k] = [kind |-> kind, bad |-> FALSE, refs |-> refs]], k)
  BY DEF AddItem
<1>2. PICK refs \in [1 .. m -> world.refs[kind]] :
         dd' = ItemAdded(Deepest, [dd EXCEPT !.items[k] = [kind |-> kind, bad |-> FALSE, refs |-> refs]], k)
  BY <1>1
<1> DEFINE i == [kind |-> kind, bad |-> FALSE, refs |-> refs]
<1>3. m \in Nat
  <2>1. world.most \in Nat
    BY WorldsAssumption DEF IInv
  <2>2. FewestRefs(kind) \in Nat /\ MostRefs(kind) \in Nat
    BY <2>1 DEF FewestRefs, MostRefs
  <2> QED
    BY <2>2
<1>4. world.refs[kind] \subseteq Refs
  BY WorldsAssumption DEF IInv
<1>5. refs \in [1 .. m -> Refs]
  BY <1>4
<1>6. refs \in Seq(Refs)
  BY <1>3, <1>5, SeqDef
<1>7. i \in Items /\ i.kind = kind
  BY <1>6 DEF Items
<1>8. k \in Keys /\ k \notin Present(dd) /\ Name(k) = n
  <2>1. k \in Keys /\ Name(k) = n
    BY KeyOf
  <2> QED
    BY <2>1 DEF AddItem, ValidateContains
<1>9. Key(i.kind, Name(k)) = k /\ i.kind \in world.kinds[Name(k)]
  BY <1>7, <1>8 DEF AddItem
<1>10. Sound(Deepest, {}) /\ Matching(dd, {})
  BY DeepestSound DEF IInv, Quiet
<1> HIDE DEF i, k
<1>11. To(dd, ItemAdded(Deepest, [dd EXCEPT !.items[k] = i], k), {})
  BY <1>7, <1>8, <1>9, <1>10, AddedTo
<1> QED
  BY <1>2, <1>11, QuietTo DEF i, IInv

LEMMA SetRefKeeps ==
  ASSUME IInv, NEW k \in Present(dd), NEW i \in DOMAIN dd.items[k].refs,
         NEW r \in world.refs[dd.items[k].kind], SetRef(k, i, r)
  PROVE  Quiet(dd')
<1> DEFINE refs == [dd.items[k].refs EXCEPT ![i] = r]
           t == [dd EXCEPT !.items[k].refs[i] = r]
<1>1. Sound(Deepest, {}) /\ Matching(dd, {}) /\ world \in Worlds
  BY DeepestSound DEF IInv, Quiet
<1>2. r \in Refs /\ Live(dd, k) /\ dd.items[k].refs \in Seq(Refs)
  BY <1>1, Referring
<1>3. refs \in Seq(Refs)
  BY <1>2
<1>4. t = WithRefs(dd, k, refs)
  BY DEF WithRefs
<1>5. dd' = RefSet(t, k, i)
  BY DEF SetRef
<1> HIDE DEF refs, t
<1>6. Matching(t, {}) /\ Live(t, k) /\ Quiet(t)
  BY <1>1, <1>2, <1>3, <1>4, RefsChange DEF Live, IInv, Quiet
<1>7. Quiet(DataTypeNameChanged(Deepest, t, k))
  BY <1>1, <1>6, DataTypeNameChangedTo, QuietTo
<1>8. Quiet(StructChanged(Deepest, t, k))
  BY <1>1, <1>6, TypeChangedTo, QuietTo DEF StructChanged
<1>9. Quiet(ItselfChanged(Deepest, t, k))
  BY <1>1, <1>6, ItselfChangedTo, QuietTo
<1> QED
  BY <1>5, <1>6, <1>7, <1>8, <1>9 DEF RefSet

LEMMA AddRefKeeps ==
  ASSUME IInv, NEW k \in Present(dd), NEW r \in world.refs[dd.items[k].kind], AddRef(k, r)
  PROVE  Quiet(dd')
<1> DEFINE refs == Append(dd.items[k].refs, r)
           t == WithRefs(dd, k, refs)
           u == ForceRevalidation(t, k)
<1>1. Sound(Deepest, {}) /\ Matching(dd, {}) /\ world \in Worlds
  BY DeepestSound DEF IInv, Quiet
<1>2. r \in Refs /\ Live(dd, k) /\ dd.items[k].refs \in Seq(Refs)
  BY <1>1, Referring
<1>3. refs \in Seq(Refs) /\ refs # <<>>
  BY <1>2
<1>4. dd' = RefAdded(t, k)
  BY DEF AddRef, WithRefs
<1> HIDE DEF refs
<1>5. Matching(t, {}) /\ Live(t, k) /\ Quiet(t) /\ t.items[k].refs = refs
  BY <1>1, <1>2, <1>3, RefsChange DEF Live, IInv, Quiet
<1> HIDE DEF t
<1>6. Quiet(Update(Deepest, t, k))
  BY <1>1, <1>5, UpdateTo, QuietTo
<1>7. To(t, u, {}) /\ u.items = t.items
  BY <1>5, ForceRevalidationTo DEF ForceRevalidation
<1> HIDE DEF u
<1>8. Matching(u, {}) /\ Live(u, k) /\ Quiet(u) /\ u.items[k].refs # <<>>
  BY <1>3, <1>5, <1>7, LiveKept, QuietTo
<1>9. k \notin Marked(u)
  BY <1>8 DEF Quiet
<1>10. Quiet(UpdateLast(Deepest, u, k))
  BY <1>1, <1>8, <1>9, UpdateLastTo, QuietTo
<1> QED
  BY <1>4, <1>5, <1>6, <1>10 DEF RefAdded, u

LEMMA PartsOf ==
  ASSUME NEW refs \in Seq(Refs), NEW m \in Int, NEW n \in Int, 1 <= m, n <= Len(refs)
  PROVE  SubSeq(refs, m, n) \in Seq(Refs)
<1>1. \A i \in m .. n : refs[i] \in Refs
  OBVIOUS
<1> QED
  BY <1>1, SubSeqProperties

LEMMA InsertRefKeeps ==
  ASSUME IInv, NEW k \in Present(dd), NEW r \in world.refs[dd.items[k].kind], InsertRef(k, r)
  PROVE  Quiet(dd')
<1> DEFINE old == dd.items[k].refs
           refs == InsertAt(old, 1, r)
           t == WithRefs(dd, k, refs)
<1>1. Sound(Deepest, {}) /\ Matching(dd, {}) /\ world \in Worlds
  BY DeepestSound DEF IInv, Quiet
<1>2. r \in Refs /\ Live(dd, k) /\ old \in Seq(Refs)
  BY <1>1, Referring
<1>3. refs \in Seq(Refs)
  <2> HIDE DEF old
  <2>1. SubSeq(old, 1, 1 - 1) \in Seq(Refs) /\ SubSeq(old, 1, Len(old)) \in Seq(Refs)
    BY <1>2, PartsOf
  <2>2. <<r>> \in Seq(Refs)
    BY <1>2
  <2> QED
    BY <2>1, <2>2 DEF InsertAt
<1>4. dd' = ItselfChanged(Deepest, t, k)
  BY DEF InsertRef, WithRefs
<1> HIDE DEF refs
<1>5. Matching(t, {}) /\ Live(t, k) /\ Quiet(t)
  BY <1>1, <1>2, <1>3, RefsChange DEF Live, IInv, Quiet
<1> HIDE DEF t
<1>6. To(t, ItselfChanged(Deepest, t, k), {})
  BY <1>1, <1>5, ItselfChangedTo
<1> QED
  BY <1>4, <1>5, <1>6, QuietTo

LEMMA DropRefKeeps ==
  ASSUME IInv, NEW k \in Present(dd), NEW i \in DOMAIN dd.items[k].refs, DropRef(k, i)
  PROVE  Quiet(dd')
<1> DEFINE old == dd.items[k].refs
           refs == RemoveAt(old, i)
           t == WithRefs(dd, k, refs)
<1>1. Sound(Deepest, {}) /\ Matching(dd, {}) /\ world \in Worlds
  BY DeepestSound DEF IInv, Quiet
<1>2. old \in Seq(Refs) /\ i \in DOMAIN old
  BY <1>1, Referring
<1>3. refs \in Seq(Refs)
  <2> HIDE DEF old
  <2>1. i \in 1 .. Len(old)
    BY <1>2
  <2>2. SubSeq(old, 1, i - 1) \in Seq(Refs) /\ SubSeq(old, i + 1, Len(old)) \in Seq(Refs)
    BY <1>2, <2>1, PartsOf
  <2> QED
    BY <2>2 DEF RemoveAt
<1>4. dd' = RefDropped(t, k)
  BY DEF DropRef, WithRefs
<1> HIDE DEF refs
<1>5. /\ Matching(t, {}) /\ t.items[k].kind = dd.items[k].kind
      /\ HasInfo(dd, k) => Live(t, k)
      /\ Quiet(t)
  BY <1>1, <1>3, RefsChange DEF IInv, Quiet
<1>6. HasInfo(dd, k) <=> dd.items[k].kind \notin {"base", "prefix"}
  BY <1>1, ItemOf
<1> HIDE DEF t
<1>7. CASE t.items[k].kind \in {"struct", "unit"}
  <2>1. Live(t, k)
    BY <1>5, <1>6, <1>7
  <2>2. To(t, ItselfChanged(Deepest, t, k), {})
    BY <1>1, <1>5, <2>1, ItselfChangedTo
  <2>3. To(t, Update(Deepest, t, k), {})
    BY <1>1, <1>5, <2>1, UpdateTo
  <2> QED
    BY <1>4, <1>5, <1>7, <2>2, <2>3, QuietTo DEF RefDropped
<1>8. CASE t.items[k].kind \notin {"struct", "unit"}
  BY <1>4, <1>5, <1>8 DEF RefDropped
<1> QED
  BY <1>7, <1>8

LEMMA PopRefKeeps ==
  ASSUME IInv, NEW k \in Present(dd), PopRef(k)
  PROVE  Quiet(dd')
<1> DEFINE old == dd.items[k].refs
           refs == Front(old)
           t == WithRefs(dd, k, refs)
<1>1. Matching(dd, {}) /\ world \in Worlds
  BY DEF IInv, Quiet
<1>2. old \in Seq(Refs)
  BY <1>1, Referring
<1>3. refs \in Seq(Refs)
  <2> HIDE DEF old
  <2>1. SubSeq(old, 1, Len(old) - 1) \in Seq(Refs)
    BY <1>2, PartsOf
  <2> QED
    BY <2>1 DEF Front
<1>4. dd' = t
  BY DEF PopRef, WithRefs
<1> HIDE DEF refs
<1>5. Quiet(t)
  BY <1>1, <1>3, RefsChange DEF IInv, Quiet
<1> QED
  BY <1>4, <1>5

LEMMA SetOwnKeeps ==
  ASSUME IInv, NEW k \in Present(dd), SetOwn(k)
  PROVE  Quiet(dd')
<1> DEFINE t == [dd EXCEPT !.items[k].bad = ~@]
<1>1. Sound(Deepest, {}) /\ Matching(dd, {}) /\ world \in Worlds
  BY DeepestSound DEF IInv, Quiet
<1>2. dd.items[k].kind \in {"data", "struct"}
  BY <1>1, WorldsAssumption DEF SetOwn
<1>3. HasInfo(dd, k)
  BY <1>1, <1>2, ItemOf
<1>4. Matching(t, {}) /\ Live(t, k) /\ Quiet(t)
  BY <1>1, <1>3, OwnChanges DEF IInv, Quiet
<1>5. dd' = OwnSet(t, k)
  BY DEF SetOwn
<1> HIDE DEF t
<1>6. To(t, DataTypeChanged(Deepest, t, k), {})
  BY <1>1, <1>4, DataTypeChangedTo
<1>7. To(t, StructChanged(Deepest, t, k), {})
  BY <1>1, <1>4, TypeChangedTo DEF StructChanged
<1> QED
  BY <1>4, <1>5, <1>6, <1>7, QuietTo DEF OwnSet

LEMMA ItemGoes ==
  ASSUME NEW s, Matching(s, {}), NEW k \in Present(s)
  PROVE  LET gone == [s EXCEPT !.items[k] = None, !.info[k] = None]
             its == IF HasInfo(s, k) THEN EntriesOf(k, s.info[k]) ELSE {}
         IN  Matching(gone, its) /\ Marked(gone) \subseteq Marked(s)
<1> DEFINE gone == [s EXCEPT !.items[k] = None, !.info[k] = None]
           its == IF HasInfo(s, k) THEN EntriesOf(k, s.info[k]) ELSE {}
<1>1. s \in States /\ k \in Keys
  BY ItemOf
<1>2. /\ gone \in States /\ gone.service = s.service
      /\ gone.items = [s.items EXCEPT ![k] = None] /\ gone.info = [s.info EXCEPT ![k] = None]
  BY <1>1 DEF States
<1>3. \A l \in Keys : /\ gone.items[l] = IF l = k THEN None ELSE s.items[l]
                      /\ gone.info[l] = IF l = k THEN None ELSE s.info[l]
  BY <1>1, <1>2 DEF States
<1> HIDE DEF gone
<1>4. Present(gone) = Present(s) \ {k}
  BY <1>3 DEF Present
<1>5. \A l \in Present(gone) : Placed(gone, l)
  <2>1. \A l \in Present(gone) : l \in Present(s) /\ gone.items[l].kind = s.items[l].kind
    BY <1>3, <1>4 DEF Present
  <2> QED
    BY <2>1 DEF Matching, Placed
<1>6. \A l \in Keys : HasInfo(gone, l) <=> HasInfo(s, l) /\ l # k
  BY <1>3 DEF HasInfo
<1>7. InfosOfItems(gone)
  BY <1>3, <1>4, <1>6 DEF Matching, InfosOfItems, Informable, Present
<1>8. \A e : Said(s, e) <=> Said(gone, e) \/ e \in its
  BY <1>1, <1>3, <1>6 DEF Said
<1>9. \A e \in its : e.key = k
  BY EntryIs
<1> HIDE DEF its
<1>10. Protocolled(gone, its)
  BY <1>1, <1>2, <1>6, <1>8, <1>9 DEF Matching, Protocolled
<1>11. Matching(gone, its)
  BY <1>2, <1>5, <1>7, <1>10 DEF Matching
<1>12. Marked(gone) \subseteq Marked(s)
  BY <1>3, <1>6 DEF Marked
<1> QED
  BY <1>11, <1>12 DEF gone, its

\* What is left is taken out of the protocol, and nothing else.
LEMMA LeftGoes ==
  ASSUME NEW left, NEW s, Matching(s, left)
  PROVE  LET t == [s EXCEPT !.service = @ \ left] IN
         Matching(t, {}) /\ Marked(t) = Marked(s)
<1> DEFINE t == [s EXCEPT !.service = @ \ left]
<1>1. s \in States
  BY DEF Matching
<1>2. /\ t \in States /\ t.items = s.items /\ t.info = s.info
      /\ t.service = s.service \ left
  BY <1>1 DEF States
<1> HIDE DEF t
<1>3. \A e : Said(t, e) <=> Said(s, e)
  BY <1>2 DEF Said, HasInfo
<1>4. ASSUME NEW e, Said(s, e) PROVE e \notin left
  <2>1. PICK k \in Keys : HasInfo(s, k) /\ e \in EntriesOf(k, s.info[k])
    BY <1>4 DEF Said
  <2>2. e.key = k /\ e.id = s.info[k].id
    BY <2>1, EntryIs
  <2> QED
    BY <2>1, <2>2 DEF Matching, Protocolled
<1>5. IsFiniteSet(t.service)
  <2>1. IsFiniteSet(s.service)
    BY DEF Matching, Protocolled
  <2> QED
    BY <1>2, <2>1, FS_Subset
<1>6. Protocolled(t, {})
  BY <1>2, <1>3, <1>4, <1>5 DEF Matching, Protocolled
<1>7. Present(t) = Present(s) /\ Informable(t) = Informable(s)
  BY <1>2 DEF Present, Informable
<1>8. \A k \in Present(t) : Placed(t, k)
  BY <1>2, <1>7 DEF Matching, Placed
<1>9. InfosOfItems(t)
  BY <1>2, <1>7 DEF Matching, InfosOfItems, HasInfo
<1>10. Matching(t, {})
  BY <1>2, <1>6, <1>8, <1>9 DEF Matching
<1>11. Marked(t) = Marked(s)
  BY <1>2 DEF Marked, HasInfo
<1> QED
  BY <1>10, <1>11 DEF t

LEMMA RemoveItemKeeps ==
  ASSUME IInv, NEW k \in Present(dd), RemoveItem(k)
  PROVE  Quiet(dd')
<1> DEFINE gone == [dd EXCEPT !.items[k] = None, !.info[k] = None]
           its == IF HasInfo(dd, k) THEN EntriesOf(k, dd.info[k]) ELSE {}
           kind == dd.items[k].kind
           t == Removed(gone, kind, Name(k))
<1>1. Matching(dd, {}) /\ world \in Worlds
  BY DEF IInv, Quiet
<1>2. kind \in Kinds
  BY <1>1, Referring
<1>3. Matching(gone, its) /\ Marked(gone) = {}
  BY <1>1, ItemGoes DEF IInv, Quiet
<1>4. dd' = [t EXCEPT !.service = @ \ its]
  BY DEF RemoveItem
<1> HIDE DEF gone, its, kind
<1>5. Matching(t, its) /\ Marked(t) = {}
  BY <1>1, <1>2, <1>3, RemovedTo DEF To
<1> HIDE DEF t
<1> QED
  BY <1>4, <1>5, LeftGoes DEF Quiet

LEMMA MovedMatches ==
  ASSUME IInv, NEW k \in Present(dd), NEW new \in Keys, new \notin Present(dd),
         Key(dd.items[k].kind, Name(new)) = new, dd.items[k].kind \in world.kinds[Name(new)]
  PROVE  LET t == Moved(k, new) IN Quiet(t) /\ new \in Present(t)
<1> DEFINE t == Moved(k, new)
           there(p) == IF p.key = k THEN [p EXCEPT !.key = new] ELSE p
<1>1. Matching(dd, {}) /\ dd \in States /\ k \in Keys /\ k # new /\ dd.items[k] \in Items
  BY ItemOf DEF IInv, Quiet
<1>2. dd.service \subseteq [key : Keys, id : Nat, at : Nat \X Aspects, level : 0 .. 3]
  BY <1>1 DEF States
<1>3. /\ t \in States
      /\ t.items = [dd.items EXCEPT ![new] = dd.items[k], ![k] = None]
      /\ t.info = [dd.info EXCEPT ![new] = dd.info[k], ![k] = None]
      /\ t.service = {there(p) : p \in dd.service}
  <2>1. /\ t.items = [dd.items EXCEPT ![new] = dd.items[k], ![k] = None]
        /\ t.info = [dd.info EXCEPT ![new] = dd.info[k], ![k] = None]
        /\ t.service = {there(p) : p \in dd.service}
        /\ t = [dd EXCEPT !.items = t.items, !.info = t.info, !.service = t.service]
    BY <1>1 DEF Moved, States
  <2>2. t.items \in [Keys -> Items \union {None}] /\ t.info \in [Keys -> Infos \union {None}]
    <3>1. dd.items \in [Keys -> Items \union {None}] /\ dd.info \in [Keys -> Infos \union {None}]
      BY <1>1 DEF States
    <3> DEFINE items == t.items
               info == t.info
    <3>2. /\ items = [dd.items EXCEPT ![new] = dd.items[k], ![k] = None]
          /\ info = [dd.info EXCEPT ![new] = dd.info[k], ![k] = None]
      BY <2>1
    <3> HIDE DEF items, info
    <3>3. items \in [Keys -> Items \union {None}] /\ info \in [Keys -> Infos \union {None}]
      BY <1>1, <3>1, <3>2
    <3> QED
      BY <3>3 DEF items, info
  <2>3. t.service \subseteq [key : Keys, id : Nat, at : Nat \X Aspects, level : 0 .. 3]
    <3>1. ASSUME NEW p \in dd.service
          PROVE  there(p) \in [key : Keys, id : Nat, at : Nat \X Aspects, level : 0 .. 3]
      <4>1. p \in [key : Keys, id : Nat, at : Nat \X Aspects, level : 0 .. 3]
        BY <1>2
      <4> QED
        BY <4>1
    <3> DEFINE service == t.service
    <3>2. service = {there(p) : p \in dd.service}
      BY <2>1
    <3> HIDE DEF service
    <3>3. service \subseteq [key : Keys, id : Nat, at : Nat \X Aspects, level : 0 .. 3]
      BY <3>1, <3>2
    <3> QED
      BY <3>3 DEF service
  <2> HIDE DEF t
  <2>4. t \in States
    BY <1>1, <2>1, <2>2, <2>3 DEF States
  <2> QED
    BY <2>1, <2>4
<1>4. \A l \in Keys : /\ t.items[l] = IF l = k THEN None ELSE IF l = new THEN dd.items[k] ELSE dd.items[l]
                      /\ t.info[l] = IF l = k THEN None ELSE IF l = new THEN dd.info[k] ELSE dd.info[l]
  BY <1>1, <1>3 DEF States
<1> HIDE DEF t
<1>5. \A l \in Keys : HasInfo(dd, l) => l \in Present(dd) /\ l # new
  BY <1>1 DEF Matching, InfosOfItems, Informable
<1>6. Present(t) = (Present(dd) \ {k}) \union {new}
  BY <1>1, <1>4, NoneAssumption DEF Present
<1>7. \A l \in Present(t) : Placed(t, l)
  <2>1. \A l \in Present(t) \ {new} : l \in Present(dd) /\ t.items[l].kind = dd.items[l].kind
    BY <1>4, <1>6 DEF Present
  <2>2. \A l \in Present(t) \ {new} : Placed(t, l)
    BY <1>1, <2>1 DEF Matching, Placed
  <2>3. Placed(t, new)
    BY <1>1, <1>4 DEF Placed
  <2> QED
    BY <2>2, <2>3
<1>8. InfosOfItems(t)
  <2>1. \A l \in Keys : HasInfo(dd, l) <=> l \in Present(dd) /\ dd.items[l].kind \notin {"base", "prefix"}
    BY <1>1 DEF Matching, InfosOfItems, Informable
  <2>2. \A l \in Keys : HasInfo(t, l) <=> l \in Present(t) /\ t.items[l].kind \notin {"base", "prefix"}
    BY <1>1, <1>4, <1>6, <2>1 DEF HasInfo
  <2> QED
    BY <2>2 DEF InfosOfItems, Informable
<1>9. ASSUME NEW e \in t.service PROVE Said(t, e)
  <2>1. PICK p \in dd.service : e = there(p)
    BY <1>3, <1>9
  <2>2. PICK l \in Keys : HasInfo(dd, l) /\ p \in EntriesOf(l, dd.info[l])
    BY <1>1 DEF Matching, Protocolled, Said
  <2>3. PICK q \in dd.info[l].problems : p = Entry(l, dd.info[l].id, q)
    BY <2>2 DEF EntriesOf
  <2>4. p.key = l
    BY <2>3 DEF Entry
  <2>5. CASE l = k
    <3>1. e = Entry(new, dd.info[k].id, q)
      BY <2>1, <2>3, <2>4, <2>5 DEF Entry
    <3>2. t.info[new] = dd.info[k] /\ HasInfo(t, new)
      BY <1>1, <1>4, <2>2, <2>5 DEF HasInfo
    <3> QED
      BY <2>3, <2>5, <3>1, <3>2 DEF Said, EntriesOf
  <2>6. CASE l # k
    <3>1. e = p
      BY <2>1, <2>4, <2>6
    <3>2. t.info[l] = dd.info[l] /\ HasInfo(t, l)
      BY <1>4, <1>5, <2>2, <2>6 DEF HasInfo
    <3> QED
      BY <2>2, <3>1, <3>2 DEF Said
  <2> QED
    BY <2>5, <2>6
<1>10. ASSUME NEW e, Said(t, e) PROVE e \in t.service
  <2>1. PICK l \in Keys : HasInfo(t, l) /\ e \in EntriesOf(l, t.info[l])
    BY <1>10 DEF Said
  <2>2. PICK q \in t.info[l].problems : e = Entry(l, t.info[l].id, q)
    BY <2>1 DEF EntriesOf
  <2>3. l # k
    BY <1>4, <2>1 DEF HasInfo
  <2>4. CASE l = new
    <3> DEFINE p == Entry(k, dd.info[k].id, q)
    <3>1. t.info[l] = dd.info[k] /\ HasInfo(dd, k)
      BY <1>1, <1>4, <2>1, <2>4 DEF HasInfo
    <3>2. Said(dd, p)
      BY <1>1, <2>2, <3>1 DEF Said, EntriesOf
    <3>3. p \in dd.service
      BY <1>1, <3>2 DEF Matching, Protocolled
    <3>4. e = there(p)
      BY <2>2, <2>4, <3>1 DEF Entry
    <3> HIDE DEF p
    <3> QED
      BY <1>3, <3>3, <3>4
  <2>5. CASE l # new
    <3>1. t.info[l] = dd.info[l] /\ HasInfo(dd, l)
      BY <1>4, <2>1, <2>3, <2>5 DEF HasInfo
    <3>2. Said(dd, e)
      BY <2>1, <3>1 DEF Said
    <3>3. e \in dd.service
      BY <1>1, <3>2 DEF Matching, Protocolled
    <3>4. e.key = l
      BY <2>1, EntryIs
    <3>5. e = there(e)
      BY <2>3, <3>4
    <3> QED
      BY <1>3, <3>3, <3>5
  <2> QED
    BY <2>4, <2>5
<1>11. IsFiniteSet(t.service)
  <2> DEFINE f == [p \in dd.service |-> there(p)]
  <2>1. f \in Surjection(dd.service, t.service)
    BY <1>3 DEF Surjection
  <2>2. IsFiniteSet(dd.service)
    BY <1>1 DEF Matching, Protocolled
  <2> HIDE DEF f
  <2> QED
    BY <2>1, <2>2, FS_Surjection
<1>12. Protocolled(t, {})
  BY <1>9, <1>10, <1>11 DEF Protocolled
<1>13. Matching(t, {}) /\ new \in Present(t)
  BY <1>3, <1>6, <1>7, <1>8, <1>12 DEF Matching
<1>14. Marked(t) = {}
  <2>1. Marked(dd) = {}
    BY DEF IInv, Quiet
  <2> QED
    BY <1>1, <1>4, <2>1 DEF Marked, HasInfo
<1> QED
  BY <1>13, <1>14 DEF t, Quiet

LEMMA RenameItemKeeps ==
  ASSUME IInv, NEW k \in Present(dd), NEW n \in Names, RenameItem(k, n)
  PROVE  Quiet(dd')
<1> DEFINE kind == dd.items[k].kind
           new == Key(kind, n)
           t == Moved(k, new)
<1>1. Matching(dd, {}) /\ world \in Worlds /\ Sound(Deepest, {})
  BY DeepestSound DEF IInv, Quiet
<1>2. kind \in Kinds /\ Name(k) \in Names
  BY <1>1, Referring, ItemOf
<1>3. /\ kind \in world.kinds[n] /\ new \notin Present(dd)
      /\ dd' = Renamed(Deepest, t, new, Name(k))
  BY DEF RenameItem, ValidateContains
<1>4. new \in Keys /\ Name(new) = n
  BY <1>2, KeyOf
<1>5. Key(kind, Name(new)) = new /\ kind \in world.kinds[Name(new)]
  BY <1>3, <1>4
<1> HIDE DEF new
<1>6. Quiet(t) /\ Matching(t, {}) /\ new \in Present(t)
  BY <1>3, <1>4, <1>5, MovedMatches DEF Quiet
<1> HIDE DEF t
<1>7. To(t, Renamed(Deepest, t, new, Name(k)), {})
  BY <1>1, <1>2, <1>6, RenamedTo
<1> QED
  BY <1>3, <1>6, <1>7, QuietTo

\* A definition starts empty.
LEMMA InitMatches ==
  ASSUME Init
  PROVE  IInv
<1>1. dd \in States
  BY DEF Init, States
<1>2. \A k \in Keys : dd.items[k] = None /\ dd.info[k] = None
  BY DEF Init
<1>3. Present(dd) = {} /\ Informable(dd) = {} /\ \A k \in Keys : ~HasInfo(dd, k)
  BY <1>2 DEF Present, Informable, HasInfo
<1>4. Protocolled(dd, {})
  <2>1. dd.service = {}
    BY DEF Init
  <2> QED
    BY <1>3, <2>1, FS_EmptySet DEF Protocolled, Said
<1>5. Marked(dd) = {}
  BY <1>3 DEF Marked
<1> QED
  BY <1>1, <1>3, <1>4, <1>5 DEF IInv, Quiet, Matching, InfosOfItems, Init

LEMMA NextKeeps ==
  ASSUME IInv, [Next]_vars
  PROVE  IInv'
<1>1. world \in Worlds /\ Quiet(dd) /\ Matching(dd, {})
  BY DEF IInv, Quiet
<1>2. CASE UNCHANGED vars
  <2>1. dd' = dd /\ world' = world
    BY <1>2 DEF vars
  <2>2. Quiet(dd)' = Quiet(dd)
    BY <2>1 DEF Quiet, Marked, Matching, Placed, InfosOfItems, Informable, Present, HasInfo, Protocolled, Said, EntriesOf, Entry
  <2> QED
    BY <1>1, <2>1, <2>2 DEF IInv
<1>3. CASE Next
  <2>1. world' = world
    BY <1>3 DEF Next
  <2>2. Quiet(dd')
    <3>1. ASSUME NEW n \in Names, NEW kind \in Kinds, AddItem(kind, n)
          PROVE  Quiet(dd')
      BY <3>1, AddItemKeeps
    <3>2. ASSUME NEW k \in Present(dd), RemoveItem(k)
          PROVE  Quiet(dd')
      BY <3>2, RemoveItemKeeps
    <3>3. ASSUME NEW k \in Present(dd), NEW n \in Names, RenameItem(k, n)
          PROVE  Quiet(dd')
      BY <3>3, RenameItemKeeps
    <3>4. ASSUME NEW k \in Present(dd), NEW i \in DOMAIN dd.items[k].refs,
                 NEW r \in world.refs[dd.items[k].kind], SetRef(k, i, r)
          PROVE  Quiet(dd')
      BY <3>4, SetRefKeeps
    <3>5. ASSUME NEW k \in Present(dd), NEW i \in DOMAIN dd.items[k].refs, DropRef(k, i)
          PROVE  Quiet(dd')
      BY <3>5, DropRefKeeps
    <3>6. ASSUME NEW k \in Present(dd), NEW r \in world.refs[dd.items[k].kind],
                 AddRef(k, r) \/ InsertRef(k, r)
          PROVE  Quiet(dd')
      BY <3>6, AddRefKeeps, InsertRefKeeps
    <3>7. ASSUME NEW k \in Present(dd), PopRef(k)
          PROVE  Quiet(dd')
      BY <3>7, PopRefKeeps
    <3>8. ASSUME NEW k \in Present(dd), SetOwn(k)
          PROVE  Quiet(dd')
      BY <3>8, SetOwnKeeps
    <3>9. ASSUME NEW force \in BOOLEAN, Validate(force)
          PROVE  Quiet(dd')
      BY <1>1, <3>9, ValidateTo, QuietTo
    <3> QED
      BY <1>3, <3>1, <3>2, <3>3, <3>4, <3>5, <3>6, <3>7, <3>8, <3>9 DEF Next
  <2>3. Quiet(dd)' = Quiet(dd')
    BY <2>1 DEF Quiet, Matching, Placed
  <2> QED
    BY <1>1, <2>1, <2>2, <2>3 DEF IInv
<1> QED
  BY <1>2, <1>3

LEMMA Matches ==
  ASSUME IInv
  PROVE  ProtocolMatchesItems
<1> DEFINE all == UNION {EntriesOf(k, dd.info[k]) : k \in {l \in Keys : HasInfo(dd, l)}}
<1>1. \A e : e \in all <=> Said(dd, e)
  BY DEF Said
<1>2. \A e : e \in dd.service <=> Said(dd, e)
  BY DEF IInv, Quiet, Matching, Protocolled
<1> QED
  BY <1>1, <1>2 DEF ProtocolMatchesItems

-----------------------------------------------------------------------------
(* The theorems *)

\* The protocol of getValidationProtocol and isValid has the problems of the
\* items there are, all of them and no others (ProtocolMatchesItems), whatever
\* is added, removed, renamed, changed or validated, and in whatever order.
THEOREM ProtocolMatches == Spec => []ProtocolMatchesItems
<1>1. Init => IInv
  BY InitMatches
<1>2. IInv /\ [Next]_vars => IInv'
  BY NextKeeps
<1>3. IInv => ProtocolMatchesItems
  BY Matches
<1> QED
  BY <1>1, <1>2, <1>3, PTL DEF Spec

\* In every state items are kept under their own kind, and those of the kinds
\* that are validated have an info (addItem, setInfo, and the maps of infos that
\* are moved and emptied with those of the items).
THEOREM Typing == Spec => []WellTyped
<1>1. Init => IInv
  BY InitMatches
<1>2. IInv /\ [Next]_vars => IInv'
  BY NextKeeps
<1>3. IInv => WellTyped
  <2> SUFFICES ASSUME IInv PROVE WellTyped
    OBVIOUS
  <2>1. Matching(dd, {})
    BY DEF IInv, Quiet
  <2>2. ASSUME NEW k \in Present(dd) PROVE Space(dd.items[k].kind) = k[1]
    <3>1. k = Key(dd.items[k].kind, Name(k))
      BY <2>1, ItemOf
    <3> QED
      BY <3>1 DEF Key
  <2> QED
    BY <2>1, <2>2 DEF WellTyped, Matching, InfosOfItems
<1> QED
  BY <1>1, <1>2, <1>3, PTL DEF Spec

\* No struct and no meta type stays marked as being validated when the call is
\* over (ValidationInfo::update), whatever else is validated or created on the
\* way: a mark left behind would let the next validation report a recursion that
\* is not there.
THEOREM AllComeBack == Spec => []NothingUnderWay
<1>1. Init => IInv
  BY InitMatches
<1>2. IInv /\ [Next]_vars => IInv'
  BY NextKeeps
<1>3. IInv => NothingUnderWay
  <2> SUFFICES ASSUME IInv, NEW k \in Informable(dd) PROVE ~dd.info[k].busy
    BY DEF NothingUnderWay
  <2>1. Matching(dd, {}) /\ Marked(dd) = {}
    BY DEF IInv, Quiet
  <2>2. k \in Keys /\ HasInfo(dd, k)
    BY <2>1 DEF Matching, InfosOfItems, Informable, Present
  <2> QED
    BY <2>1, <2>2 DEF Marked
<1> QED
  BY <1>1, <1>2, <1>3, PTL DEF Spec
=============================================================================
