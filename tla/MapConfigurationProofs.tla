------------------------ MODULE MapConfigurationProofs ------------------------
(***************************************************************************)
(* What holds of a configuration in every world and after every sequence   *)
(* of calls and documents: its names are distinct, each target lists the   *)
(* sources it uses, and what is flagged valid fits the data definition.    *)
(* The argument is by one inductive invariant in four parts: Shape says    *)
(* what the records look like, Names that a name means one thing, Refers   *)
(* that the lists of sources and the names of transformations lead         *)
(* somewhere, Judged what the flags promise.  The lemmas about dropping    *)
(* items from a sequence come first, since removing is where the list of   *)
(* a target and what it uses part ways.                                    *)
(***************************************************************************)
EXTENDS MapConfiguration, SequenceTheorems, TLAPS

-----------------------------------------------------------------------------
(* Sequences of items, some of which are dropped *)

\* Every item of left is one of items, at a place of its own.
Drawn(left, items) ==
  /\ IsSequence(left)
  /\ \E g \in [DOMAIN left -> DOMAIN items] :
        /\ IsInjective(g)
        /\ \A k \in DOMAIN left : left[k] = items[g[k]]

LEMMA SequenceIn ==
  ASSUME NEW s, IsSequence(s)
  PROVE  s \in Seq({s[i] : i \in DOMAIN s})
  BY DEF IsSequence

LEMMA FunctionIs ==
  ASSUME NEW n \in Nat, NEW s, s = [i \in 1..n |-> s[i]]
  PROVE  IsSequence(s) /\ Len(s) = n /\ DOMAIN s = 1..n
<1> DEFINE S == {s[i] : i \in 1..n}
<1>1. s \in [1..n -> S]
  <2> DEFINE f == [i \in 1..n |-> s[i]]
  <2>1. f \in [1..n -> S]
    OBVIOUS
  <2> QED
    BY <2>1
<1>2. s \in Seq(S)
  BY <1>1, SeqDef
<1>3. Len(s) \in Nat /\ DOMAIN s = 1..Len(s) /\ DOMAIN s = 1..n
  BY <1>1, <1>2, LenProperties
<1>4. Len(s) = n
  BY <1>3
<1> QED
  BY <1>3, <1>4 DEF IsSequence

LEMMA SequenceIs ==
  ASSUME NEW S, NEW s \in Seq(S)
  PROVE  IsSequence(s)
<1>1. Len(s) \in Nat /\ s \in [1..Len(s) -> S]
  BY LenProperties
<1>2. s = [i \in 1..Len(s) |-> s[i]]
  BY <1>1
<1> QED
  BY <1>1, <1>2 DEF IsSequence

LEMMA EmptyIs == IsSequence(<< >>) /\ Len(<< >>) = 0 /\ DOMAIN << >> = {}
<1>1. << >> \in Seq({})
  OBVIOUS
<1>2. Len(<< >>) = 0
  OBVIOUS
<1> QED
  BY <1>1, <1>2, SequenceIs DEF IsSequence

LEMMA AppendIs ==
  ASSUME NEW s, NEW e, IsSequence(s)
  PROVE  /\ IsSequence(Append(s, e)) /\ Len(Append(s, e)) = Len(s) + 1
         /\ \A i \in 1..Len(s) : Append(s, e)[i] = s[i]
         /\ Append(s, e)[Len(s) + 1] = e
<1> DEFINE S == {s[i] : i \in DOMAIN s} \cup {e}
<1>1. s \in Seq(S) /\ e \in S
  BY DEF IsSequence
<1> HIDE DEF S
<1>2. /\ Append(s, e) \in Seq(S) /\ Len(Append(s, e)) = Len(s) + 1
      /\ \A i \in 1..Len(s) : Append(s, e)[i] = s[i]
      /\ Append(s, e)[Len(s) + 1] = e
  BY <1>1, AppendProperties
<1> QED
  BY <1>2, SequenceIs

LEMMA RemoveAtIs ==
  ASSUME NEW s, IsSequence(s), NEW k \in DOMAIN s
  PROVE  /\ IsSequence(RemoveAt(s, k)) /\ Len(RemoveAt(s, k)) = Len(s) - 1
         /\ \A i \in 1..(Len(s) - 1) : RemoveAt(s, k)[i] = s[IF i < k THEN i ELSE i + 1]
<1> DEFINE S == {s[i] : i \in DOMAIN s}
           left == SubSeq(s, 1, k - 1)
           right == SubSeq(s, k + 1, Len(s))
<1>1. s \in Seq(S) /\ k \in 1..Len(s)
  BY DEF IsSequence
<1>2. left \in Seq(S) /\ Len(left) = k - 1 /\ \A i \in 1..(k - 1) : left[i] = s[i]
  BY <1>1
<1>3. right \in Seq(S) /\ Len(right) = Len(s) - k /\ \A i \in 1..(Len(s) - k) : right[i] = s[i + k]
  BY <1>1
<1> HIDE DEF left, right, S
<1>4. left \o right \in Seq(S) /\ Len(left \o right) = Len(s) - 1
  BY <1>1, <1>2, <1>3
<1>5. \A i \in 1..(Len(s) - 1) : (left \o right)[i] = s[IF i < k THEN i ELSE i + 1]
  BY <1>1, <1>2, <1>3
<1>6. RemoveAt(s, k) = left \o right
  BY DEF RemoveAt, left, right
<1> QED
  BY <1>4, <1>5, <1>6, SequenceIs

LEMMA RemoveAtDraws ==
  ASSUME NEW s, IsSequence(s), NEW k \in DOMAIN s
  PROVE  Drawn(RemoveAt(s, k), s)
<1> DEFINE r == RemoveAt(s, k)
           g == [i \in DOMAIN r |-> IF i < k THEN i ELSE i + 1]
<1>1. IsSequence(r) /\ Len(r) = Len(s) - 1 /\ \A i \in DOMAIN r : r[i] = s[g[i]]
  BY RemoveAtIs DEF IsSequence
<1> HIDE DEF r
<1>2. g \in [DOMAIN r -> DOMAIN s] /\ IsInjective(g)
  BY <1>1 DEF IsSequence, IsInjective
<1> QED
  BY <1>1, <1>2 DEF Drawn, r

LEMMA UnionIs ==
  ASSUME NEW s, NEW t, IsSequence(s), IsSequence(t)
  PROVE  /\ IsSequence(s \o t) /\ Len(s \o t) = Len(s) + Len(t)
         /\ \A i \in 1..(Len(s) + Len(t)) : (s \o t)[i] = IF i <= Len(s) THEN s[i] ELSE t[i - Len(s)]
<1> DEFINE S == {s[i] : i \in DOMAIN s} \union {t[i] : i \in DOMAIN t}
<1>1. s \in Seq(S) /\ t \in Seq(S)
  BY DEF IsSequence
<1> HIDE DEF S
<1>2. s \o t \in Seq(S)
  BY <1>1, ConcatProperties
<1>3. /\ Len(s \o t) = Len(s) + Len(t)
      /\ \A i \in 1..(Len(s) + Len(t)) : (s \o t)[i] = IF i <= Len(s) THEN s[i] ELSE t[i - Len(s)]
  BY <1>1, ConcatProperties
<1> QED
  BY <1>2, <1>3, SequenceIs

-----------------------------------------------------------------------------
(* Without *)

KeepUnless(field, values, left, item) ==
  IF item[field] \in values THEN left ELSE Append(left, item)

\* Of the first n items those are left whose field is not one of the values.
KeptOf(env, left, n) ==
  /\ IsSequence(left)
  /\ \E g \in [DOMAIN left -> 1..n] :
        /\ IsInjective(g)
        /\ \A k \in DOMAIN left : /\ left[k] = env.items[g[k]]
                                  /\ left[k][env.field] \notin env.values

Keeping == INSTANCE FoldTheorems WITH Op <- KeepUnless, Inv <- KeptOf

LEMMA WithoutDraws ==
  ASSUME NEW items, NEW field, NEW values, IsSequence(items)
  PROVE  LET left == Without(items, field, values) IN
         /\ Drawn(left, items)
         /\ \A k \in DOMAIN left : left[k][field] \notin values
<1> DEFINE env == [items |-> items, field |-> field, values |-> values]
           left == Without(items, field, values)
<1>1. left = Keeping!Folded(field, values, <<>>, items)
  BY DEF Without, Keeping!Folded, KeepUnless, FoldLeft, MapThenFoldSet, Max,
         Keeping!FoldLeft, Keeping!MapThenFoldSet, Keeping!Max
<1>2. KeptOf(env, <<>>, 0)
  <2> DEFINE g == [k \in DOMAIN << >> |-> 1]
  <2>1. g \in [DOMAIN << >> -> 1..0] /\ IsInjective(g)
    BY DEF IsInjective
  <2>2. IsSequence(<< >>) /\ DOMAIN << >> = {}
    BY EmptyIs
  <2> QED
    BY <2>1, <2>2 DEF KeptOf
<1>3. ASSUME NEW i \in 1..Len(items), NEW kept, KeptOf(env, kept, i - 1)
      PROVE  KeptOf(env, KeepUnless(field, values, kept, items[i]), i)
  <2>1. i \in Nat /\ Len(items) \in Nat
    BY DEF IsSequence
  <2>2. PICK g \in [DOMAIN kept -> 1..(i - 1)] :
           /\ IsInjective(g)
           /\ \A k \in DOMAIN kept : /\ kept[k] = items[g[k]]
                                     /\ kept[k][field] \notin values
    BY <1>3 DEF KeptOf
  <2>3. IsSequence(kept)
    BY <1>3 DEF KeptOf
  <2>4. CASE items[i][field] \in values
    <3>1. g \in [DOMAIN kept -> 1..i]
      BY <2>1, <2>2
    <3> QED
      BY <2>2, <2>3, <2>4, <3>1 DEF KeptOf, KeepUnless
  <2>5. CASE items[i][field] \notin values
    <3> DEFINE more == Append(kept, items[i])
               h == [k \in DOMAIN more |-> IF k = Len(kept) + 1 THEN i ELSE g[k]]
    <3>1. /\ IsSequence(more) /\ Len(more) = Len(kept) + 1
          /\ \A k \in 1..Len(kept) : more[k] = kept[k]
          /\ more[Len(kept) + 1] = items[i]
      BY <2>3, AppendIs
    <3> HIDE DEF more
    <3>2. DOMAIN kept = 1..Len(kept) /\ DOMAIN more = 1..(Len(kept) + 1) /\ Len(kept) \in Nat
      BY <2>3, <3>1 DEF IsSequence
    <3>3. h \in [DOMAIN more -> 1..i]
      BY <2>1, <2>2, <3>2
    <3>4. IsInjective(h)
      BY <2>1, <2>2, <3>2 DEF IsInjective
    <3>5. \A k \in DOMAIN more : more[k] = items[h[k]] /\ more[k][field] \notin values
      BY <2>2, <2>5, <3>1, <3>2
    <3>6. KeptOf(env, more, i)
      BY <3>1, <3>3, <3>4, <3>5 DEF KeptOf
    <3> QED
      BY <2>5, <3>6 DEF KeepUnless, more
  <2> QED
    BY <2>4, <2>5
<1> HIDE DEF env
<1>4. DOMAIN items = 1..Len(items) /\ Len(items) \in Nat
  BY DEF IsSequence
<1>5. KeptOf(env, Keeping!Folded(field, values, <<>>, items), Len(items))
  BY <1>2, <1>3, <1>4, Keeping!FoldLeftInduction
<1> HIDE DEF left
<1>6. KeptOf(env, left, Len(items))
  BY <1>1, <1>5
<1>7. Drawn(left, items) /\ \A k \in DOMAIN left : left[k][field] \notin values
  BY <1>4, <1>6 DEF KeptOf, Drawn, env
<1> QED
  BY <1>7 DEF left

-----------------------------------------------------------------------------
(* The inductive invariant, of any configuration c *)

TargetShape(t) ==
  /\ DOMAIN t = {"name", "type", "valid", "assigns", "triggers", "refs"}
  /\ IsSequence(t.assigns) /\ \A k \in DOMAIN t.assigns : AssignmentOK(t.assigns[k])
  /\ IsSequence(t.triggers) /\ \A k \in DOMAIN t.triggers : TriggerOK(t.triggers[k])
  /\ ElementsOnce(t.assigns)

TargetRefers(c, t) ==
  /\ t.refs = Used(t) /\ t.refs \subseteq DOMAIN c.sources
  /\ \A k \in DOMAIN t.assigns : t.assigns[k].trafo \in DOMAIN c.trafos \union {None}

TargetFits(c, t) ==
  t.valid =>
    /\ t.type \in DOMAIN Types(c)
    /\ \A k \in DOMAIN t.assigns :
          t.assigns[k].valid => /\ AssignmentTypeOK(c, t.type, t.assigns[k])
                                /\ ~Covered(t.assigns, t.assigns[k])
    /\ \A k \in DOMAIN t.triggers : t.triggers[k].valid => TriggerTypeOK(c, t.triggers[k])

Shape(c) ==
  /\ DOMAIN c = {"dd", "sources", "targets", "trafos", "fault", "judged", "tidy"}
  /\ c.dd \in DOMAIN world.dds \union {None}
  /\ None \notin DOMAIN c.sources
  /\ \A n \in DOMAIN c.sources : DOMAIN c.sources[n] = {"type", "valid"}
  /\ \A n \in DOMAIN c.trafos : DOMAIN c.trafos[n] = {"enums", "entries", "valid"}
  /\ IsSequence(c.targets) /\ \A i \in DOMAIN c.targets : TargetShape(c.targets[i])

Names(c) ==
  /\ NamesOnce(c.targets)
  /\ TargetNames(c) \intersect DOMAIN c.sources = {}

Refers(c) ==
  c.tidy => /\ c.fault # "source"
            /\ \A i \in DOMAIN c.targets : TargetRefers(c, c.targets[i])

ItemsFit(c) ==
  /\ \A n \in DOMAIN c.sources : c.sources[n].valid => c.sources[n].type \in DOMAIN Types(c)
  /\ \A n \in DOMAIN c.trafos : c.trafos[n].valid => c.trafos[n].enums \subseteq KnownEnums(c) \union {None}

Judged(c) ==
  c.judged /\ c.tidy => /\ c.fault # "type" /\ ItemsFit(c)
                        /\ \A i \in DOMAIN c.targets : TargetFits(c, c.targets[i])

Sound(c) == Shape(c) /\ Names(c) /\ Refers(c) /\ Judged(c)
IInv == world \in Worlds /\ Sound(config)

LEMMA IInvImplies == ASSUME IInv PROVE TypeOK /\ ReferencesMatch /\ ValidFits
<1>1. TypeOK
  BY DEF IInv, Sound, Shape, Names, TargetShape, TypeOK
<1>2. ReferencesMatch
  BY DEF IInv, Sound, Refers, TargetRefers, ReferencesMatch
<1>3. ValidFits
  BY DEF IInv, Sound, Judged, ItemsFit, TargetFits, ValidFits
<1> QED
  BY <1>1, <1>2, <1>3

-----------------------------------------------------------------------------
(* Targets with fewer items *)

\* The items of u are drawn from those of t, and what is no longer used is forgotten.
Thinned(t, u) ==
  /\ DOMAIN u = DOMAIN t /\ u.type = t.type /\ u.valid = t.valid /\ u.name = t.name
  /\ Drawn(u.assigns, t.assigns) /\ Drawn(u.triggers, t.triggers)
  /\ u.refs = t.refs \ (Used(t) \ Used(u))

LEMMA DrawsItself == ASSUME NEW s, IsSequence(s) PROVE Drawn(s, s)
<1> DEFINE g == [k \in DOMAIN s |-> k]
<1>1. g \in [DOMAIN s -> DOMAIN s] /\ IsInjective(g) /\ \A k \in DOMAIN s : s[k] = s[g[k]]
  BY DEF IsInjective
<1> QED
  BY <1>1 DEF Drawn

LEMMA DrawnFrom ==
  ASSUME NEW left, NEW items, Drawn(left, items)
  PROVE  /\ IsSequence(left)
         /\ \A k \in DOMAIN left : \E j \in DOMAIN items : left[k] = items[j]
  BY DEF Drawn

LEMMA DrawnOnce ==
  ASSUME NEW left, NEW assigns, Drawn(left, assigns), ElementsOnce(assigns)
  PROVE  ElementsOnce(left)
<1>1. PICK g \in [DOMAIN left -> DOMAIN assigns] :
        IsInjective(g) /\ \A k \in DOMAIN left : left[k] = assigns[g[k]]
  BY DEF Drawn
<1>2. \A i, j \in DOMAIN assigns : assigns[i].to = assigns[j].to => i = j
  BY DEF ElementsOnce, IsInjective
<1>3. \A i, j \in DOMAIN left : left[i].to = left[j].to => i = j
  BY <1>1, <1>2 DEF IsInjective
<1> QED
  BY <1>3 DEF ElementsOnce, IsInjective

LEMMA ThinnedSound ==
  ASSUME NEW t, NEW u, Thinned(t, u)
  PROVE  /\ TargetShape(t) => TargetShape(u)
         /\ \A c : TargetRefers(c, t) => TargetRefers(c, u)
         /\ \A c : TargetFits(c, t) => TargetFits(c, u)
<1>1. /\ IsSequence(u.assigns) /\ \A k \in DOMAIN u.assigns : \E j \in DOMAIN t.assigns : u.assigns[k] = t.assigns[j]
      /\ IsSequence(u.triggers) /\ \A k \in DOMAIN u.triggers : \E j \in DOMAIN t.triggers : u.triggers[k] = t.triggers[j]
  BY DrawnFrom DEF Thinned
<1>2. TargetShape(t) => TargetShape(u)
  BY <1>1, DrawnOnce DEF TargetShape, Thinned
<1>3. Used(u) \subseteq Used(t)
  BY <1>1 DEF Used, Sources
<1>4. \A c : TargetRefers(c, t) => TargetRefers(c, u)
  <2> TAKE c
  <2> SUFFICES ASSUME TargetRefers(c, t) PROVE TargetRefers(c, u)
    OBVIOUS
  <2>1. u.refs = Used(u)
    BY <1>3 DEF Thinned, TargetRefers
  <2> QED
    BY <1>1, <1>3, <2>1 DEF TargetRefers
<1>5. \A a : Covered(u.assigns, a) => Covered(t.assigns, a)
  BY <1>1 DEF Covered
<1>6. \A c : TargetFits(c, t) => TargetFits(c, u)
  BY <1>1, <1>5 DEF TargetFits, Thinned
<1> QED
  BY <1>2, <1>4, <1>6

-----------------------------------------------------------------------------
(* CheckDDL *)

\* Only flags differ.
SameItems(s, t) ==
  /\ DOMAIN t = DOMAIN s
  /\ \A k \in DOMAIN s : /\ DOMAIN t[k] = DOMAIN s[k] /\ t[k].valid \in BOOLEAN
                         /\ \A f \in DOMAIN s[k] \ {"valid"} : t[k][f] = s[k][f]

SameButFlags(t, u) ==
  /\ DOMAIN u = DOMAIN t /\ u.name = t.name /\ u.type = t.type /\ u.refs = t.refs
  /\ IsSequence(u.assigns) /\ SameItems(t.assigns, u.assigns)
  /\ IsSequence(u.triggers) /\ SameItems(t.triggers, u.triggers)

LEMMA SameButFlagsSound ==
  ASSUME NEW t, NEW u, SameButFlags(t, u), TargetShape(t)
  PROVE  TargetShape(u) /\ Used(u) = Used(t) /\ \A c : TargetRefers(c, t) => TargetRefers(c, u)
<1>1. /\ DOMAIN u.assigns = DOMAIN t.assigns
      /\ \A k \in DOMAIN t.assigns :
            /\ AssignmentOK(u.assigns[k])
            /\ u.assigns[k].source = t.assigns[k].source
            /\ u.assigns[k].to = t.assigns[k].to
            /\ u.assigns[k].trafo = t.assigns[k].trafo
  BY DEF SameButFlags, SameItems, TargetShape, AssignmentOK
<1>2. /\ DOMAIN u.triggers = DOMAIN t.triggers
      /\ \A k \in DOMAIN t.triggers :
            /\ TriggerOK(u.triggers[k])
            /\ u.triggers[k].source = t.triggers[k].source
  BY DEF SameButFlags, SameItems, TargetShape, TriggerOK
<1>3. ElementsOnce(u.assigns)
  <2>1. ElementsOnce(t.assigns)
    BY DEF TargetShape
  <2> QED
    BY <1>1, <2>1 DEF ElementsOnce, IsInjective
<1>4. Sources(u.assigns) = Sources(t.assigns)
  BY <1>1 DEF Sources
<1>5. Sources(u.triggers) = Sources(t.triggers)
  BY <1>2 DEF Sources
<1>6. Used(u) = Used(t)
  BY <1>4, <1>5 DEF Used
<1>7. TargetShape(u)
  BY <1>1, <1>2, <1>3 DEF TargetShape, SameButFlags
<1>8. \A c : TargetRefers(c, t) => TargetRefers(c, u)
  BY <1>1, <1>6 DEF TargetRefers, SameButFlags
<1> QED
  BY <1>6, <1>7, <1>8

LEMMA MarkDoublesMarks ==
  ASSUME NEW s, IsSequence(s), \A k \in DOMAIN s : AssignmentOK(s[k])
  PROVE  LET m == MarkDoubles(s) IN
         /\ IsSequence(m) /\ SameItems(s, m) /\ Len(m) = Len(s)
         /\ \A k \in DOMAIN m : m[k].valid => s[k].valid /\ ~Covered(m, m[k])
<1> DEFINE m == MarkDoubles(s)
<1>1. DOMAIN s = 1..Len(s) /\ Len(s) \in Nat
  BY DEF IsSequence
<1>2. m = [k \in 1..Len(s) |-> [s[k] EXCEPT !.valid = @ /\ ~Covered(s, s[k])]]
  BY <1>1 DEF MarkDoubles
<1>3. IsSequence(m) /\ Len(m) = Len(s) /\ DOMAIN m = DOMAIN s
  <2>1. m = [k \in 1..Len(s) |-> m[k]]
    BY <1>2
  <2> HIDE DEF m
  <2> QED
    BY <1>1, <2>1, FunctionIs
<1>4. \A k \in DOMAIN s : /\ DOMAIN m[k] = DOMAIN s[k] /\ m[k].valid = (s[k].valid /\ ~Covered(s, s[k]))
                          /\ \A f \in DOMAIN s[k] \ {"valid"} : m[k][f] = s[k][f]
  BY <1>1, <1>2 DEF AssignmentOK
<1> HIDE DEF m
<1>5. \A k \in DOMAIN s : m[k].to = s[k].to
  BY <1>4 DEF AssignmentOK
<1>6. \A k \in DOMAIN s : Covered(m, m[k]) <=> Covered(s, s[k])
  BY <1>3, <1>5 DEF Covered
<1>7. \A k \in DOMAIN s : m[k].valid \in BOOLEAN
  BY <1>4
<1> QED
  BY <1>3, <1>4, <1>6, <1>7 DEF SameItems, m

\* The checks of an item look at the type of its source, not at its name or flag.
LEMMA AssignmentFitsAlike ==
  ASSUME NEW c, NEW d, NEW type, NEW a, NEW b,
         d.dd = c.dd, b.kind = a.kind, b.to = a.to, b.from = a.from,
         a.kind = "source" /\ Found(c, type, a.to) => d.sources[b.source].type = c.sources[a.source].type,
         AssignmentTypeOK(c, type, a)
  PROVE  AssignmentTypeOK(d, type, b)
<1>1. Types(d) = Types(c)
  BY DEF Types
<1>2. Given(d, b) = Given(c, a)
  BY <1>1 DEF Given, AssignmentTypeOK
<1> QED
  BY <1>1, <1>2 DEF AssignmentTypeOK, Found

LEMMA TriggerFitsAlike ==
  ASSUME NEW c, NEW d, NEW trigger, NEW other,
         d.dd = c.dd, other.kind = trigger.kind, other.from = trigger.from,
         trigger.kind = "data" => d.sources[other.source].type = c.sources[trigger.source].type,
         TriggerTypeOK(c, trigger)
  PROVE  TriggerTypeOK(d, other)
<1>1. Types(d) = Types(c)
  BY DEF Types
<1> QED
  BY <1>1 DEF TriggerTypeOK, Found

LEMMA JudgedTargetSound ==
  ASSUME NEW c, NEW t, TargetShape(t), NEW d, d.dd = c.dd,
         t.type \in DOMAIN Types(c) =>
            /\ \A k \in DOMAIN t.assigns :
                  t.assigns[k].kind = "source" /\ Found(c, t.type, t.assigns[k].to) =>
                     d.sources[t.assigns[k].source].type = c.sources[t.assigns[k].source].type
            /\ \A k \in DOMAIN t.triggers :
                  t.triggers[k].kind = "data" =>
                     d.sources[t.triggers[k].source].type = c.sources[t.triggers[k].source].type
  PROVE  LET u == JudgedTarget(c, t) IN SameButFlags(t, u) /\ TargetFits(d, u)
<1> DEFINE u == JudgedTarget(c, t)
<1>1. DOMAIN t = {"name", "type", "valid", "assigns", "triggers", "refs"}
  BY DEF TargetShape
<1>2. CASE t.type \notin DOMAIN Types(c)
  <2>1. u = [t EXCEPT !.valid = FALSE]
    BY <1>2 DEF JudgedTarget
  <2>2. /\ DOMAIN u = DOMAIN t /\ u.name = t.name /\ u.type = t.type /\ u.refs = t.refs
        /\ u.assigns = t.assigns /\ u.triggers = t.triggers /\ ~u.valid
    BY <1>1, <2>1
  <2> HIDE DEF u
  <2>3. SameButFlags(t, u)
    BY <2>2 DEF SameButFlags, SameItems, TargetShape, AssignmentOK, TriggerOK
  <2>4. TargetFits(d, u)
    BY <2>2 DEF TargetFits
  <2> QED
    BY <2>3, <2>4 DEF u
<1>3. CASE t.type \in DOMAIN Types(c)
  <2> DEFINE checked == [i \in DOMAIN t.assigns |->
                 [t.assigns[i] EXCEPT !.valid = AssignmentTypeOK(c, t.type, t.assigns[i])]]
             fired == [i \in DOMAIN t.triggers |->
                 [t.triggers[i] EXCEPT !.valid = TriggerTypeOK(c, t.triggers[i])]]
  <2>1. u = [t EXCEPT !.valid = TRUE, !.assigns = MarkDoubles(checked), !.triggers = fired]
    BY <1>1, <1>3 DEF JudgedTarget
  <2>2. /\ DOMAIN u = DOMAIN t /\ u.name = t.name /\ u.type = t.type /\ u.refs = t.refs
        /\ u.assigns = MarkDoubles(checked) /\ u.triggers = fired
    BY <1>1, <2>1
  <2>3. /\ DOMAIN t.assigns = 1..Len(t.assigns) /\ Len(t.assigns) \in Nat
        /\ DOMAIN t.triggers = 1..Len(t.triggers) /\ Len(t.triggers) \in Nat
    BY DEF TargetShape, IsSequence
  <2>4. IsSequence(checked) /\ DOMAIN checked = DOMAIN t.assigns
    <3>1. checked = [i \in 1..Len(t.assigns) |-> checked[i]]
      BY <2>3
    <3> HIDE DEF checked
    <3> QED
      BY <2>3, <3>1, FunctionIs
  <2>5. IsSequence(fired) /\ DOMAIN fired = DOMAIN t.triggers
    <3>1. fired = [i \in 1..Len(t.triggers) |-> fired[i]]
      BY <2>3
    <3> HIDE DEF fired
    <3> QED
      BY <2>3, <3>1, FunctionIs
  <2>6. \A k \in DOMAIN t.assigns :
           /\ DOMAIN checked[k] = DOMAIN t.assigns[k]
           /\ checked[k].valid = AssignmentTypeOK(c, t.type, t.assigns[k])
           /\ checked[k].valid \in BOOLEAN
           /\ \A f \in DOMAIN t.assigns[k] \ {"valid"} : checked[k][f] = t.assigns[k][f]
    <3> TAKE k \in DOMAIN t.assigns
    <3>1. DOMAIN t.assigns[k] = {"to", "kind", "source", "from", "trafo", "valid"}
      BY DEF TargetShape, AssignmentOK
    <3>2. AssignmentTypeOK(c, t.type, t.assigns[k]) \in BOOLEAN
      BY DEF AssignmentTypeOK
    <3>3. checked[k] = [t.assigns[k] EXCEPT !.valid = AssignmentTypeOK(c, t.type, t.assigns[k])]
      OBVIOUS
    <3> HIDE DEF checked
    <3> QED
      BY <3>1, <3>2, <3>3
  <2>7. \A k \in DOMAIN t.triggers :
           /\ DOMAIN fired[k] = DOMAIN t.triggers[k]
           /\ fired[k].valid = TriggerTypeOK(c, t.triggers[k])
           /\ fired[k].valid \in BOOLEAN
           /\ \A f \in DOMAIN t.triggers[k] \ {"valid"} : fired[k][f] = t.triggers[k][f]
    <3> TAKE k \in DOMAIN t.triggers
    <3>1. DOMAIN t.triggers[k] = {"kind", "source", "from", "valid"}
      BY DEF TargetShape, TriggerOK
    <3>2. TriggerTypeOK(c, t.triggers[k]) \in BOOLEAN
      BY DEF TriggerTypeOK
    <3>3. fired[k] = [t.triggers[k] EXCEPT !.valid = TriggerTypeOK(c, t.triggers[k])]
      OBVIOUS
    <3> HIDE DEF fired
    <3> QED
      BY <3>1, <3>2, <3>3
  <2> HIDE DEF checked, fired, u
  <2>8. \A k \in DOMAIN checked : AssignmentOK(checked[k])
    BY <2>4, <2>6 DEF AssignmentOK, TargetShape
  <2>9. /\ IsSequence(u.assigns) /\ SameItems(checked, u.assigns)
        /\ \A k \in DOMAIN u.assigns : u.assigns[k].valid =>
              checked[k].valid /\ ~Covered(u.assigns, u.assigns[k])
    BY <2>2, <2>4, <2>8, MarkDoublesMarks
  <2>10. SameButFlags(t, u)
    <3>1. SameItems(t.assigns, u.assigns)
      BY <2>4, <2>6, <2>9 DEF SameItems
    <3>2. SameItems(t.triggers, u.triggers)
      BY <2>2, <2>5, <2>7 DEF SameItems
    <3> QED
      BY <2>2, <2>5, <2>9, <3>1, <3>2 DEF SameButFlags
  <2>11. \A k \in DOMAIN u.assigns : u.assigns[k].valid => AssignmentTypeOK(d, u.type, u.assigns[k])
    <3> SUFFICES ASSUME NEW k \in DOMAIN u.assigns, u.assigns[k].valid
                 PROVE  AssignmentTypeOK(d, u.type, u.assigns[k])
      OBVIOUS
    <3>1. k \in DOMAIN t.assigns /\ AssignmentTypeOK(c, t.type, t.assigns[k])
      BY <2>4, <2>6, <2>9 DEF SameItems
    <3>2. /\ u.assigns[k].kind = t.assigns[k].kind /\ u.assigns[k].to = t.assigns[k].to
          /\ u.assigns[k].from = t.assigns[k].from /\ u.assigns[k].source = t.assigns[k].source
      BY <2>10, <3>1 DEF SameButFlags, SameItems, TargetShape, AssignmentOK
    <3> QED
      BY <1>3, <2>2, <3>1, <3>2, AssignmentFitsAlike
  <2>12. \A k \in DOMAIN u.triggers : u.triggers[k].valid => TriggerTypeOK(d, u.triggers[k])
    <3> SUFFICES ASSUME NEW k \in DOMAIN u.triggers, u.triggers[k].valid
                 PROVE  TriggerTypeOK(d, u.triggers[k])
      OBVIOUS
    <3>1. k \in DOMAIN t.triggers /\ TriggerTypeOK(c, t.triggers[k])
      BY <2>2, <2>5, <2>7
    <3>2. /\ u.triggers[k].kind = t.triggers[k].kind /\ u.triggers[k].from = t.triggers[k].from
          /\ u.triggers[k].source = t.triggers[k].source
      BY <2>10, <3>1 DEF SameButFlags, SameItems, TargetShape, TriggerOK
    <3> QED
      BY <1>3, <3>1, <3>2, TriggerFitsAlike
  <2>13. u.type \in DOMAIN Types(d)
    BY <1>3, <2>2 DEF Types
  <2> QED
    BY <2>9, <2>10, <2>11, <2>12, <2>13 DEF TargetFits, u
<1> QED
  BY <1>2, <1>3

LEMMA NamesOnceIs ==
  ASSUME NEW s
  PROVE  NamesOnce(s) <=> \A i, j \in DOMAIN s : s[i].name = s[j].name => i = j
  BY DEF NamesOnce, IsInjective

LEMMA FlaggedIs ==
  ASSUME NEW c, Shape(c)
  PROVE  LET d == Flagged(c) IN
         /\ DOMAIN d = DOMAIN c /\ d.dd = c.dd /\ d.fault = c.fault /\ d.judged /\ d.tidy = c.tidy
         /\ DOMAIN d.sources = DOMAIN c.sources
         /\ \A n \in DOMAIN c.sources :
               /\ DOMAIN d.sources[n] = {"type", "valid"} /\ d.sources[n].type = c.sources[n].type
               /\ d.sources[n].valid = (c.sources[n].type \in DOMAIN Types(c))
         /\ DOMAIN d.trafos = DOMAIN c.trafos
         /\ \A n \in DOMAIN c.trafos :
               /\ DOMAIN d.trafos[n] = {"enums", "entries", "valid"} /\ d.trafos[n].enums = c.trafos[n].enums
               /\ d.trafos[n].valid = (c.trafos[n].enums \subseteq KnownEnums(c))
         /\ IsSequence(d.targets) /\ DOMAIN d.targets = DOMAIN c.targets
         /\ \A i \in DOMAIN c.targets : d.targets[i] = JudgedTarget(c, c.targets[i])
<1> DEFINE d == Flagged(c)
           sources == [n \in DOMAIN c.sources |-> [c.sources[n] EXCEPT !.valid = c.sources[n].type \in DOMAIN Types(c)]]
           targets == [i \in DOMAIN c.targets |-> JudgedTarget(c, c.targets[i])]
           trafos == [n \in DOMAIN c.trafos |-> [c.trafos[n] EXCEPT !.valid = c.trafos[n].enums \subseteq KnownEnums(c)]]
<1>1. d = [c EXCEPT !.sources = sources, !.targets = targets, !.trafos = trafos, !.judged = TRUE]
  BY DEF Flagged
<1> HIDE DEF d
<1>2. /\ DOMAIN d = DOMAIN c /\ d.dd = c.dd /\ d.fault = c.fault /\ d.judged /\ d.tidy = c.tidy
      /\ d.sources = sources /\ d.targets = targets /\ d.trafos = trafos
  BY <1>1 DEF Shape
<1>3. \A n \in DOMAIN c.sources :
         /\ DOMAIN sources[n] = {"type", "valid"} /\ sources[n].type = c.sources[n].type
         /\ sources[n].valid = (c.sources[n].type \in DOMAIN Types(c))
  BY DEF Shape
<1>4. \A n \in DOMAIN c.trafos :
         /\ DOMAIN trafos[n] = {"enums", "entries", "valid"} /\ trafos[n].enums = c.trafos[n].enums
         /\ trafos[n].valid = (c.trafos[n].enums \subseteq KnownEnums(c))
  BY DEF Shape
<1>5. IsSequence(targets) /\ DOMAIN targets = DOMAIN c.targets
  <2>1. DOMAIN c.targets = 1..Len(c.targets) /\ Len(c.targets) \in Nat
    BY DEF Shape, IsSequence
  <2>2. targets = [i \in 1..Len(c.targets) |-> targets[i]]
    BY <2>1
  <2> HIDE DEF targets
  <2> QED
    BY <2>1, <2>2, FunctionIs
<1>6. \A i \in DOMAIN c.targets : targets[i] = JudgedTarget(c, c.targets[i])
  OBVIOUS
<1>7. DOMAIN sources = DOMAIN c.sources /\ DOMAIN trafos = DOMAIN c.trafos
  OBVIOUS
<1> HIDE DEF sources, targets, trafos
<1> QED
  BY <1>2, <1>3, <1>4, <1>5, <1>6, <1>7 DEF d

\* Where the check finds all the sources that it looks up
LEMMA FlaggedSound ==
  ASSUME NEW c, Shape(c), Names(c), Refers(c), c.fault = "none", ~Unfounded(c)
  PROVE  Sound(Flagged(c))
<1> DEFINE d == Flagged(c)
<1>1. /\ DOMAIN d = DOMAIN c /\ d.dd = c.dd /\ d.fault = c.fault /\ d.judged /\ d.tidy = c.tidy
      /\ DOMAIN d.sources = DOMAIN c.sources
      /\ \A n \in DOMAIN c.sources :
            /\ DOMAIN d.sources[n] = {"type", "valid"} /\ d.sources[n].type = c.sources[n].type
            /\ d.sources[n].valid = (c.sources[n].type \in DOMAIN Types(c))
      /\ DOMAIN d.trafos = DOMAIN c.trafos
      /\ \A n \in DOMAIN c.trafos :
            /\ DOMAIN d.trafos[n] = {"enums", "entries", "valid"} /\ d.trafos[n].enums = c.trafos[n].enums
            /\ d.trafos[n].valid = (c.trafos[n].enums \subseteq KnownEnums(c))
      /\ IsSequence(d.targets) /\ DOMAIN d.targets = DOMAIN c.targets
      /\ \A i \in DOMAIN c.targets : d.targets[i] = JudgedTarget(c, c.targets[i])
  BY FlaggedIs
<1> HIDE DEF d
<1>2. ASSUME NEW i \in DOMAIN c.targets
      PROVE  SameButFlags(c.targets[i], d.targets[i]) /\ TargetFits(d, d.targets[i])
  <2> DEFINE t == c.targets[i]
  <2>1. TargetShape(t)
    BY DEF Shape
  <2>2. t.type \in DOMAIN Types(c) =>
           /\ \A k \in DOMAIN t.assigns :
                 t.assigns[k].kind = "source" /\ Found(c, t.type, t.assigns[k].to) =>
                    t.assigns[k].source \in DOMAIN c.sources
           /\ \A k \in DOMAIN t.triggers : t.triggers[k].kind = "data" => t.triggers[k].source \in DOMAIN c.sources
    BY DEF Unfounded
  <2> HIDE DEF t
  <2>3. t.type \in DOMAIN Types(c) =>
            /\ \A k \in DOMAIN t.assigns :
                  t.assigns[k].kind = "source" /\ Found(c, t.type, t.assigns[k].to) =>
                     d.sources[t.assigns[k].source].type = c.sources[t.assigns[k].source].type
            /\ \A k \in DOMAIN t.triggers :
                  t.triggers[k].kind = "data" =>
                     d.sources[t.triggers[k].source].type = c.sources[t.triggers[k].source].type
    BY <1>1, <2>2
  <2>4. SameButFlags(t, JudgedTarget(c, t)) /\ TargetFits(d, JudgedTarget(c, t))
    BY <1>1, <2>1, <2>3, JudgedTargetSound
  <2> QED
    BY <1>1, <2>4 DEF t
<1>3. \A i \in DOMAIN c.targets : TargetShape(c.targets[i])
  BY DEF Shape
<1>4. Shape(d)
  BY <1>1, <1>2, <1>3, SameButFlagsSound DEF Shape
<1>5. Names(d)
  <2>1. \A i \in DOMAIN c.targets : d.targets[i].name = c.targets[i].name
    BY <1>2 DEF SameButFlags
  <2>2. TargetNames(d) = TargetNames(c)
    BY <1>1, <2>1 DEF TargetNames
  <2>3. NamesOnce(d.targets)
    BY <1>1, <2>1, NamesOnceIs DEF Names
  <2> QED
    BY <1>1, <2>2, <2>3 DEF Names
<1>6. Refers(d)
  <2> SUFFICES ASSUME d.tidy, NEW i \in DOMAIN c.targets PROVE TargetRefers(d, d.targets[i])
    BY <1>1 DEF Refers
  <2>1. TargetRefers(c, d.targets[i])
    BY <1>1, <1>2, <1>3, SameButFlagsSound DEF Refers
  <2> QED
    BY <1>1, <2>1 DEF TargetRefers
<1>7. Types(d) = Types(c) /\ KnownEnums(d) = KnownEnums(c)
  BY <1>1 DEF Types, KnownEnums
<1>8. Judged(d)
  BY <1>1, <1>2, <1>7 DEF Judged, ItemsFit
<1> QED
  BY <1>4, <1>5, <1>6, <1>8 DEF Sound, d

LEMMA CheckDDLSound ==
  ASSUME NEW c, Shape(c), Names(c), Refers(c), c.fault = "none"
  PROVE  Sound(CheckDDL(c))
<1>1. CASE ~Unfounded(c)
  BY <1>1, FlaggedSound DEF CheckDDL
<1>2. CASE Unfounded(c)
  <2>1. ~c.tidy
    <3> SUFFICES ASSUME c.tidy PROVE FALSE
      OBVIOUS
    <3>1. PICK i \in DOMAIN c.targets :
             LET t == c.targets[i] IN
             \/ \E k \in DOMAIN t.assigns : t.assigns[k].kind = "source" /\ t.assigns[k].source \notin DOMAIN c.sources
             \/ \E k \in DOMAIN t.triggers : t.triggers[k].kind = "data" /\ t.triggers[k].source \notin DOMAIN c.sources
      BY <1>2 DEF Unfounded
    <3>2. TargetShape(c.targets[i]) /\ TargetRefers(c, c.targets[i])
      BY DEF Shape, Refers
    <3> QED
      BY <3>1, <3>2 DEF TargetShape, TargetRefers, AssignmentOK, TriggerOK, Used, Sources
  <2> DEFINE d == [c EXCEPT !.fault = "source"]
  <2>2. /\ DOMAIN d = DOMAIN c /\ d.dd = c.dd /\ d.sources = c.sources /\ d.trafos = c.trafos
        /\ d.targets = c.targets /\ d.tidy = c.tidy
    BY DEF Shape
  <2> HIDE DEF d
  <2>3. Shape(d) /\ Names(d)
    BY <2>2 DEF Shape, Names, TargetNames
  <2>4. Refers(d) /\ Judged(d)
    BY <2>1, <2>2 DEF Refers, Judged
  <2> QED
    BY <1>2, <2>3, <2>4 DEF CheckDDL, Sound, d
<1> QED
  BY <1>1, <1>2

-----------------------------------------------------------------------------
(* One target is changed *)

LEMMA FitsInFrame ==
  ASSUME NEW c, NEW d, d.dd = c.dd, d.sources = c.sources, NEW t, TargetFits(c, t)
  PROVE  TargetFits(d, t)
<1>1. Types(d) = Types(c)
  BY DEF Types
<1>2. \A type, a : AssignmentTypeOK(c, type, a) <=> AssignmentTypeOK(d, type, a)
  BY <1>1 DEF AssignmentTypeOK, Given, Found
<1>3. \A trigger : TriggerTypeOK(c, trigger) <=> TriggerTypeOK(d, trigger)
  BY <1>1 DEF TriggerTypeOK, Found
<1> QED
  BY <1>1, <1>2, <1>3 DEF TargetFits

LEMMA OneTarget ==
  ASSUME NEW c, Sound(c), NEW i \in DOMAIN c.targets, NEW u,
         u.name = c.targets[i].name, TargetShape(u),
         c.tidy => TargetRefers(c, u),
         c.judged /\ c.tidy => TargetFits(c, u)
  PROVE  Sound([c EXCEPT !.targets[i] = u])
<1> DEFINE d == [c EXCEPT !.targets[i] = u]
<1>1. /\ DOMAIN d = DOMAIN c /\ d.dd = c.dd /\ d.sources = c.sources /\ d.trafos = c.trafos
      /\ d.fault = c.fault /\ d.judged = c.judged /\ d.tidy = c.tidy
      /\ d.targets = [c.targets EXCEPT ![i] = u]
  BY DEF Sound, Shape
<1> HIDE DEF d
<1>2. DOMAIN d.targets = DOMAIN c.targets /\ \A k \in DOMAIN c.targets : d.targets[k] = IF k = i THEN u ELSE c.targets[k]
  BY <1>1
<1>3. IsSequence(d.targets)
  <2>1. c.targets = [k \in 1..Len(c.targets) |-> c.targets[k]] /\ Len(c.targets) \in Nat
    BY DEF Sound, Shape, IsSequence
  <2>2. d.targets = [k \in 1..Len(c.targets) |-> d.targets[k]]
    BY <1>1, <2>1
  <2> QED
    BY <2>1, <2>2, FunctionIs
<1>4. Shape(d)
  BY <1>1, <1>2, <1>3 DEF Sound, Shape
<1>5. Names(d)
  <2>1. TargetNames(d) = TargetNames(c)
    BY <1>2 DEF TargetNames
  <2> QED
    BY <1>1, <1>2, <2>1, NamesOnceIs DEF Sound, Names
<1>6. Refers(d)
  BY <1>1, <1>2 DEF Sound, Refers, TargetRefers
<1>7. Judged(d)
  <2> SUFFICES ASSUME d.judged, d.tidy PROVE /\ d.fault # "type" /\ ItemsFit(d)
                                             /\ \A k \in DOMAIN d.targets : TargetFits(d, d.targets[k])
    BY DEF Judged
  <2>1. \A k \in DOMAIN d.targets : TargetFits(c, d.targets[k])
    BY <1>1, <1>2 DEF Sound, Judged
  <2>2. ItemsFit(d)
    BY <1>1 DEF Sound, Judged, ItemsFit, Types, KnownEnums
  <2> QED
    BY <1>1, <2>1, <2>2, FitsInFrame DEF Sound, Judged
<1> QED
  BY <1>4, <1>5, <1>6, <1>7 DEF Sound, d

LEMMA ThinnedTarget ==
  ASSUME NEW c, Sound(c), NEW i \in DOMAIN c.targets, NEW u, Thinned(c.targets[i], u)
  PROVE  Sound([c EXCEPT !.targets[i] = u])
<1>1. TargetShape(u) /\ (c.tidy => TargetRefers(c, u)) /\ (c.judged /\ c.tidy => TargetFits(c, u))
  BY ThinnedSound DEF Sound, Shape, Refers, Judged
<1>2. u.name = c.targets[i].name
  BY DEF Thinned
<1> QED
  BY <1>1, <1>2, OneTarget

LEMMA ReleasedThins ==
  ASSUME NEW t, TargetShape(t), NEW left,
         DOMAIN left = DOMAIN t, left.name = t.name, left.type = t.type, left.valid = t.valid,
         left.refs = t.refs, Drawn(left.assigns, t.assigns), Drawn(left.triggers, t.triggers)
  PROVE  /\ Thinned(t, Released(t, left))
         /\ Released(t, left).assigns = left.assigns /\ Released(t, left).triggers = left.triggers
<1> DEFINE u == Released(t, left)
<1>1. DOMAIN left = {"name", "type", "valid", "assigns", "triggers", "refs"}
  BY DEF TargetShape
<1>2. u = [left EXCEPT !.refs = left.refs \ (Used(t) \ Used(left))]
  BY DEF Released
<1> HIDE DEF u
<1>3. /\ DOMAIN u = DOMAIN t /\ u.name = t.name /\ u.type = t.type /\ u.valid = t.valid
      /\ u.refs = t.refs \ (Used(t) \ Used(left))
      /\ u.assigns = left.assigns /\ u.triggers = left.triggers
  BY <1>1, <1>2
<1>4. Used(u) = Used(left)
  BY <1>3 DEF Used
<1> QED
  BY <1>3, <1>4 DEF Thinned, u

LEMMA WithoutAssignmentThins ==
  ASSUME NEW t, TargetShape(t), NEW k \in DOMAIN t.assigns
  PROVE  /\ Thinned(t, WithoutAssignment(t, k))
         /\ WithoutAssignment(t, k).assigns = RemoveAt(t.assigns, k)
         /\ WithoutAssignment(t, k).triggers = t.triggers
<1> DEFINE left == [t EXCEPT !.assigns = RemoveAt(@, k)]
<1>1. Drawn(RemoveAt(t.assigns, k), t.assigns) /\ Drawn(t.triggers, t.triggers)
  BY RemoveAtDraws, DrawsItself DEF TargetShape
<1>2. /\ DOMAIN left = DOMAIN t /\ left.name = t.name /\ left.type = t.type /\ left.valid = t.valid
      /\ left.refs = t.refs /\ left.assigns = RemoveAt(t.assigns, k) /\ left.triggers = t.triggers
  BY DEF TargetShape
<1>3. WithoutAssignment(t, k) = Released(t, left)
  BY DEF WithoutAssignment
<1> HIDE DEF left
<1> QED
  BY <1>1, <1>2, <1>3, ReleasedThins

LEMMA WithoutTriggerThins ==
  ASSUME NEW t, TargetShape(t), NEW k \in DOMAIN t.triggers
  PROVE  Thinned(t, WithoutTrigger(t, k))
<1> DEFINE left == [t EXCEPT !.triggers = RemoveAt(@, k)]
<1>1. Drawn(RemoveAt(t.triggers, k), t.triggers) /\ Drawn(t.assigns, t.assigns)
  BY RemoveAtDraws, DrawsItself DEF TargetShape
<1>2. /\ DOMAIN left = DOMAIN t /\ left.name = t.name /\ left.type = t.type /\ left.valid = t.valid
      /\ left.refs = t.refs /\ left.assigns = t.assigns /\ left.triggers = RemoveAt(t.triggers, k)
  BY DEF TargetShape
<1>3. WithoutTrigger(t, k) = Released(t, left)
  BY DEF WithoutTrigger
<1> HIDE DEF left
<1> QED
  BY <1>1, <1>2, <1>3, ReleasedThins

LEMMA RemoveAssignmentSound ==
  ASSUME Sound(config), NEW i \in DOMAIN config.targets, NEW k \in DOMAIN config.targets[i].assigns,
         RemoveAssignment(i, k)
  PROVE  Sound(config')
<1>1. TargetShape(config.targets[i])
  BY DEF Sound, Shape
<1> QED
  BY <1>1, WithoutAssignmentThins, ThinnedTarget DEF RemoveAssignment

LEMMA RemoveTriggerSound ==
  ASSUME Sound(config), NEW i \in DOMAIN config.targets, NEW k \in DOMAIN config.targets[i].triggers,
         RemoveTrigger(i, k)
  PROVE  Sound(config')
<1>1. TargetShape(config.targets[i])
  BY DEF Sound, Shape
<1> QED
  BY <1>1, WithoutTriggerThins, ThinnedTarget DEF RemoveTrigger

\* A target with one more assignment, to an element that has none
LEMMA OneMoreAssignment ==
  ASSUME NEW t, TargetShape(t), NEW a, AssignmentOK(a),
         \A k \in DOMAIN t.assigns : t.assigns[k].to # a.to,
         NEW u, DOMAIN u = DOMAIN t, u.triggers = t.triggers, u.assigns = Append(t.assigns, a),
         u.refs = t.refs \union ({a.source} \ {None})
  PROVE  /\ TargetShape(u)
         /\ \A c : TargetRefers(c, t) /\ AssignmentRefersOK(c, a) => TargetRefers(c, u)
<1>1. /\ DOMAIN u = DOMAIN t /\ u.assigns = Append(t.assigns, a) /\ u.triggers = t.triggers
      /\ u.refs = t.refs \union ({a.source} \ {None})
  OBVIOUS
<1>2. /\ IsSequence(u.assigns) /\ DOMAIN u.assigns = 1..(Len(t.assigns) + 1)
      /\ DOMAIN t.assigns = 1..Len(t.assigns) /\ Len(t.assigns) \in Nat
      /\ \A k \in DOMAIN t.assigns : u.assigns[k] = t.assigns[k]
      /\ u.assigns[Len(t.assigns) + 1] = a
  BY <1>1, AppendIs DEF TargetShape, IsSequence
<1>3. \A k \in DOMAIN u.assigns : k \in DOMAIN t.assigns \/ k = Len(t.assigns) + 1
  BY <1>2
<1>4. ElementsOnce(u.assigns)
  <2>1. \A k, l \in DOMAIN t.assigns : t.assigns[k].to = t.assigns[l].to => k = l
    BY DEF TargetShape, ElementsOnce, IsInjective
  <2>2. \A k, l \in DOMAIN u.assigns : u.assigns[k].to = u.assigns[l].to => k = l
    BY <1>2, <1>3, <2>1
  <2> QED
    BY <2>2 DEF ElementsOnce, IsInjective
<1>5. TargetShape(u)
  BY <1>1, <1>2, <1>3, <1>4 DEF TargetShape
<1>6. Sources(u.assigns) = Sources(t.assigns) \union ({a.source} \ {None})
  <2>1. Len(t.assigns) + 1 \in DOMAIN u.assigns /\ DOMAIN t.assigns \subseteq DOMAIN u.assigns
    BY <1>2
  <2> QED
    BY <1>2, <1>3, <2>1 DEF Sources
<1>7. \A c : TargetRefers(c, t) /\ AssignmentRefersOK(c, a) => TargetRefers(c, u)
  <2> TAKE c
  <2> SUFFICES ASSUME TargetRefers(c, t), AssignmentRefersOK(c, a) PROVE TargetRefers(c, u)
    OBVIOUS
  <2>1. u.refs = Used(u)
    BY <1>1, <1>6 DEF TargetRefers, Used
  <2>2. u.refs \subseteq DOMAIN c.sources
    BY <1>1 DEF TargetRefers, AssignmentRefersOK
  <2>3. \A k \in DOMAIN u.assigns : u.assigns[k].trafo \in DOMAIN c.trafos \union {None}
    BY <1>2, <1>3 DEF TargetRefers, AssignmentRefersOK
  <2> QED
    BY <2>1, <2>2, <2>3 DEF TargetRefers
<1> QED
  BY <1>1, <1>5, <1>7

LEMMA AddAssignmentSound ==
  ASSUME Sound(config), config.fault = "none", NEW i \in DOMAIN config.targets, NEW a, AssignmentOK(a),
         AddAssignment(i, a)
  PROVE  Sound(config')
<1> DEFINE t == config.targets[i]
           added == [t EXCEPT !.assigns = Append(@, a), !.refs = @ \union ({a.source} \ {None})]
           last == Len(added.assigns)
           marked == [added EXCEPT !.assigns = MarkDoubles(@)]
<1>1. /\ t.valid /\ AssignmentRefersOK(config, a)
      /\ \A k \in DOMAIN t.assigns : t.assigns[k].to # a.to
  BY DEF AddAssignment
<1>2. TargetShape(t) /\ (config.tidy => TargetRefers(config, t)) /\ (config.judged /\ config.tidy => TargetFits(config, t))
  BY DEF Sound, Shape, Refers, Judged
<1>3. config' = IF t.type \notin DOMAIN Types(config) THEN [config EXCEPT !.fault = "type"]
                ELSE [config EXCEPT !.targets[i] =
                         IF ~AssignmentTypeOK(config, t.type, a) THEN WithoutAssignment(added, last)
                         ELSE IF HasDoubles(added.assigns) THEN WithoutAssignment(marked, last)
                         ELSE added]
  BY DEF AddAssignment
<1>4. /\ TargetShape(added) /\ added.name = t.name /\ added.type = t.type /\ added.valid = t.valid
      /\ added.assigns = Append(t.assigns, a) /\ added.triggers = t.triggers
      /\ (config.tidy => TargetRefers(config, added))
  <2> HIDE DEF t
  <2>1. /\ DOMAIN added = DOMAIN t /\ added.name = t.name /\ added.type = t.type /\ added.valid = t.valid
        /\ added.assigns = Append(t.assigns, a) /\ added.triggers = t.triggers
        /\ added.refs = t.refs \union ({a.source} \ {None})
    BY <1>2 DEF TargetShape
  <2> HIDE DEF added
  <2> QED
    BY <1>1, <1>2, <2>1, OneMoreAssignment
<1> HIDE DEF t, added
<1>5. /\ DOMAIN added.assigns = 1..(Len(t.assigns) + 1) /\ last = Len(t.assigns) + 1
      /\ DOMAIN t.assigns = 1..Len(t.assigns) /\ Len(t.assigns) \in Nat
      /\ \A k \in DOMAIN t.assigns : added.assigns[k] = t.assigns[k]
      /\ added.assigns[last] = a /\ last \in DOMAIN added.assigns
      /\ IsSequence(t.assigns)
  BY <1>2, <1>4, AppendIs DEF TargetShape, IsSequence
<1>6. CASE t.type \notin DOMAIN Types(config)
  <2>1. ~(config.judged /\ config.tidy)
    BY <1>1, <1>2, <1>6 DEF TargetFits
  <2> DEFINE d == [config EXCEPT !.fault = "type"]
  <2>2. /\ DOMAIN d = DOMAIN config /\ d.dd = config.dd /\ d.sources = config.sources /\ d.trafos = config.trafos
        /\ d.targets = config.targets /\ d.tidy = config.tidy /\ d.judged = config.judged /\ d.fault = "type"
    BY DEF Sound, Shape
  <2> HIDE DEF d
  <2>3. Shape(d)
    BY <2>2 DEF Sound, Shape
  <2>4. Names(d)
    BY <2>2 DEF Sound, Names, TargetNames
  <2>5. Refers(d)
    BY <2>2 DEF Sound, Refers, TargetRefers
  <2>6. Judged(d)
    BY <2>1, <2>2 DEF Judged
  <2> QED
    BY <1>3, <1>6, <2>3, <2>4, <2>5, <2>6 DEF Sound, d
<1>7. CASE t.type \in DOMAIN Types(config) /\ ~AssignmentTypeOK(config, t.type, a)
  <2> DEFINE u == WithoutAssignment(added, last)
  <2>1. Thinned(added, u) /\ u.assigns = RemoveAt(added.assigns, last) /\ u.triggers = added.triggers
    BY <1>4, <1>5, WithoutAssignmentThins
  <2> HIDE DEF u
  <2>2. TargetShape(u) /\ (config.tidy => TargetRefers(config, u))
    BY <1>4, <2>1, ThinnedSound
  <2>3. u.assigns = t.assigns
    <3>1. /\ IsSequence(u.assigns) /\ Len(u.assigns) = Len(added.assigns) - 1
          /\ \A k \in 1..(Len(added.assigns) - 1) :
                u.assigns[k] = added.assigns[IF k < last THEN k ELSE k + 1]
      <4>1. IsSequence(added.assigns)
        BY <1>4 DEF TargetShape
      <4> HIDE DEF last
      <4> QED
        BY <1>5, <2>1, <4>1, RemoveAtIs
    <3>2. Len(u.assigns) = Len(t.assigns) /\ \A k \in 1..Len(t.assigns) : u.assigns[k] = t.assigns[k]
      BY <1>5, <3>1
    <3> QED
      BY <1>5, <3>1, <3>2 DEF IsSequence
  <2>4. TargetFits(config, t) => TargetFits(config, u)
    BY <1>4, <2>1, <2>3 DEF TargetFits, Thinned
  <2>5. u.name = t.name
    BY <1>4, <2>1 DEF Thinned
  <2> QED
    BY <1>2, <1>3, <1>7, <2>2, <2>4, <2>5, OneTarget DEF t, u
<1>8. CASE t.type \in DOMAIN Types(config) /\ AssignmentTypeOK(config, t.type, a) /\ HasDoubles(added.assigns)
  <2> DEFINE u == WithoutAssignment(marked, last)
  <2>1. DOMAIN added = {"name", "type", "valid", "assigns", "triggers", "refs"}
    BY <1>4 DEF TargetShape
  <2>2. /\ DOMAIN marked = DOMAIN added /\ marked.name = added.name /\ marked.type = added.type
        /\ marked.valid = added.valid /\ marked.refs = added.refs /\ marked.triggers = added.triggers
        /\ marked.assigns = MarkDoubles(added.assigns)
    BY <2>1
  <2> HIDE DEF marked
  <2>3. /\ IsSequence(marked.assigns) /\ SameItems(added.assigns, marked.assigns)
        /\ Len(marked.assigns) = Len(added.assigns)
        /\ \A k \in DOMAIN marked.assigns : marked.assigns[k].valid =>
              added.assigns[k].valid /\ ~Covered(marked.assigns, marked.assigns[k])
    BY <1>4, <2>2, MarkDoublesMarks DEF TargetShape
  <2>4. SameButFlags(added, marked)
    <3>1. SameItems(added.triggers, marked.triggers)
      BY <1>4, <2>2 DEF SameItems, TargetShape, TriggerOK
    <3> QED
      BY <1>4, <2>2, <2>3, <3>1 DEF SameButFlags, TargetShape
  <2>5. TargetShape(marked) /\ (config.tidy => TargetRefers(config, marked))
    BY <1>4, <2>4, SameButFlagsSound
  <2>6. ASSUME TargetFits(config, t) PROVE TargetFits(config, marked)
    <3>1. ASSUME NEW k \in DOMAIN marked.assigns, marked.assigns[k].valid
          PROVE  AssignmentTypeOK(config, marked.type, marked.assigns[k])
      <4>1. k \in DOMAIN added.assigns /\ added.assigns[k].valid
        BY <2>3, <3>1 DEF SameItems
      <4>2. k \in DOMAIN t.assigns \/ k = last
        BY <1>5, <4>1
      <4>3. AssignmentTypeOK(config, t.type, added.assigns[k])
        BY <1>1, <1>5, <1>8, <2>6, <4>1, <4>2 DEF TargetFits
      <4>4. /\ marked.assigns[k].kind = added.assigns[k].kind /\ marked.assigns[k].to = added.assigns[k].to
            /\ marked.assigns[k].from = added.assigns[k].from
            /\ marked.assigns[k].source = added.assigns[k].source
        BY <1>4, <2>3, <4>1 DEF SameItems, TargetShape, AssignmentOK
      <4> QED
        BY <1>4, <2>2, <4>3, <4>4, AssignmentFitsAlike
    <3>2. marked.type = t.type /\ marked.triggers = t.triggers /\ t.type \in DOMAIN Types(config)
      BY <1>4, <1>8, <2>2
    <3>3. \A k \in DOMAIN t.triggers : t.triggers[k].valid => TriggerTypeOK(config, t.triggers[k])
      BY <1>1, <2>6 DEF TargetFits
    <3> QED
      BY <2>3, <3>1, <3>2, <3>3 DEF TargetFits
  <2>7. last \in DOMAIN marked.assigns
    BY <1>5, <2>3 DEF SameItems
  <2>8. Thinned(marked, u)
    BY <2>5, <2>7, WithoutAssignmentThins
  <2> HIDE DEF u
  <2>9. /\ TargetShape(u) /\ (config.tidy => TargetRefers(config, u))
        /\ (config.judged /\ config.tidy => TargetFits(config, u))
    BY <1>2, <2>5, <2>6, <2>8, ThinnedSound
  <2>10. u.name = t.name
    BY <1>4, <2>2, <2>8 DEF Thinned
  <2> QED
    BY <1>3, <1>8, <2>9, <2>10, OneTarget DEF t, u
<1>9. CASE t.type \in DOMAIN Types(config) /\ AssignmentTypeOK(config, t.type, a) /\ ~HasDoubles(added.assigns)
  <2>1. ASSUME TargetFits(config, t) PROVE TargetFits(config, added)
    <3>1. \A k \in DOMAIN added.assigns : k \in DOMAIN t.assigns \/ k = last
      BY <1>5
    <3>2. \A k \in DOMAIN added.assigns : added.assigns[k].valid => AssignmentTypeOK(config, added.type, added.assigns[k])
      BY <1>1, <1>4, <1>5, <1>9, <2>1, <3>1 DEF TargetFits
    <3>3. \A k \in DOMAIN added.assigns : ~Covered(added.assigns, added.assigns[k])
      BY <1>9 DEF HasDoubles
    <3> QED
      BY <1>1, <1>4, <2>1, <3>2, <3>3 DEF TargetFits
  <2> QED
    BY <1>2, <1>3, <1>4, <1>9, <2>1, OneTarget DEF t
<1> QED
  BY <1>6, <1>7, <1>8, <1>9

LEMMA AddTriggerSound ==
  ASSUME Sound(config), NEW i \in DOMAIN config.targets, NEW trigger, TriggerOK(trigger),
         AddTrigger(i, trigger)
  PROVE  Sound(config')
<1> DEFINE t == config.targets[i]
           u == [t EXCEPT !.triggers = Append(@, trigger), !.refs = @ \union ({trigger.source} \ {None})]
<1>1. t.valid /\ TriggerRefersOK(config, trigger) /\ TriggerTypeOK(config, trigger)
  BY DEF AddTrigger
<1>2. TargetShape(t) /\ (config.tidy => TargetRefers(config, t)) /\ (config.judged /\ config.tidy => TargetFits(config, t))
  BY DEF Sound, Shape, Refers, Judged
<1>3. /\ DOMAIN u = DOMAIN t /\ u.name = t.name /\ u.type = t.type /\ u.valid = t.valid /\ u.assigns = t.assigns
      /\ u.triggers = Append(t.triggers, trigger) /\ u.refs = t.refs \union ({trigger.source} \ {None})
  BY <1>2 DEF TargetShape
<1>4. config' = [config EXCEPT !.targets[i] = u]
  <2>1. config' = [config EXCEPT !.targets = [config.targets EXCEPT ![i] =
                     [[t EXCEPT !.triggers = Append(@, trigger)] EXCEPT !.refs = @ \union ({trigger.source} \ {None})]]]
    BY <1>2 DEF AddTrigger, Sound, Shape, TargetShape
  <2>2. u = [[t EXCEPT !.triggers = Append(@, trigger)] EXCEPT !.refs = @ \union ({trigger.source} \ {None})]
    BY <1>2 DEF TargetShape
  <2> QED
    BY <2>1, <2>2
<1> HIDE DEF t, u
<1>5. /\ IsSequence(u.triggers) /\ DOMAIN u.triggers = 1..(Len(t.triggers) + 1)
      /\ DOMAIN t.triggers = 1..Len(t.triggers) /\ Len(t.triggers) \in Nat
      /\ \A k \in DOMAIN t.triggers : u.triggers[k] = t.triggers[k]
      /\ u.triggers[Len(t.triggers) + 1] = trigger
  BY <1>2, <1>3, AppendIs DEF TargetShape, IsSequence
<1>6. \A k \in DOMAIN u.triggers : k \in DOMAIN t.triggers \/ k = Len(t.triggers) + 1
  BY <1>5
<1>7. TargetShape(u)
  BY <1>2, <1>3, <1>5, <1>6 DEF TargetShape
<1>8. ASSUME TargetRefers(config, t) PROVE TargetRefers(config, u)
  <2>1. Sources(u.triggers) = Sources(t.triggers) \union ({trigger.source} \ {None})
    <3>1. Len(t.triggers) + 1 \in DOMAIN u.triggers /\ DOMAIN t.triggers \subseteq DOMAIN u.triggers
      BY <1>5
    <3> QED
      BY <1>5, <1>6, <3>1 DEF Sources
  <2>2. u.refs = Used(u)
    BY <1>3, <1>8, <2>1 DEF TargetRefers, Used
  <2>3. {trigger.source} \ {None} \subseteq DOMAIN config.sources
    BY <1>1 DEF TriggerRefersOK, TriggerOK
  <2> QED
    BY <1>3, <1>8, <2>2, <2>3 DEF TargetRefers
<1>9. ASSUME TargetFits(config, t) PROVE TargetFits(config, u)
  BY <1>1, <1>3, <1>5, <1>6, <1>9 DEF TargetFits
<1> QED
  BY <1>2, <1>3, <1>4, <1>7, <1>8, <1>9, OneTarget DEF t

\* Of configurations that are not tidy, only the shape and the names matter.
LEMMA SetVariableSound ==
  ASSUME Sound(config), NEW i \in DOMAIN config.targets, NEW k \in DOMAIN config.targets[i].triggers, NEW n,
         SetVariable(i, k, n)
  PROVE  Sound(config')
<1> DEFINE t == config.targets[i]
           known == n \in DOMAIN config.sources
           changed == [t.triggers[k] EXCEPT !.source = IF known \/ ~Described(config) THEN n ELSE None,
                                            !.valid = known /\ Described(config)]
           u == [t EXCEPT !.triggers = [t.triggers EXCEPT ![k] = changed]]
           c == [config EXCEPT !.tidy = FALSE]
<1>1. TargetShape(t)
  BY DEF Sound, Shape
<1>2. config' = [c EXCEPT !.targets[i] = u]
  BY DEF SetVariable, Sound, Shape
<1>3. /\ DOMAIN c = DOMAIN config /\ c.dd = config.dd /\ c.sources = config.sources /\ c.trafos = config.trafos
      /\ c.targets = config.targets /\ ~c.tidy
  BY DEF Sound, Shape
<1>4. Sound(c)
  <2> HIDE DEF c
  <2>1. Shape(c)
    BY <1>3 DEF Sound, Shape
  <2>2. Names(c)
    BY <1>3 DEF Sound, Names, TargetNames
  <2> QED
    BY <1>3, <2>1, <2>2 DEF Sound, Refers, Judged
<1>5. /\ DOMAIN u = DOMAIN t /\ u.name = t.name /\ u.assigns = t.assigns
      /\ u.triggers = [t.triggers EXCEPT ![k] = changed]
  BY <1>1 DEF TargetShape
<1>6. TriggerOK(changed)
  BY <1>1 DEF SetVariable, TargetShape, TriggerOK
<1>7. IsSequence(u.triggers) /\ DOMAIN u.triggers = DOMAIN t.triggers
  <2>1. DOMAIN t.triggers = 1..Len(t.triggers) /\ Len(t.triggers) \in Nat
    BY <1>1 DEF TargetShape, IsSequence
  <2>2. u.triggers = [l \in 1..Len(t.triggers) |-> u.triggers[l]]
    BY <1>5, <2>1
  <2> QED
    BY <2>1, <2>2, FunctionIs
<1> HIDE DEF u, t, changed
<1>8. \A l \in DOMAIN u.triggers : u.triggers[l] = IF l = k THEN changed ELSE t.triggers[l]
  BY <1>5, <1>7
<1>9. TargetShape(u)
  BY <1>1, <1>5, <1>6, <1>7, <1>8 DEF TargetShape
<1> HIDE DEF c
<1> QED
  BY <1>2, <1>3, <1>4, <1>5, <1>9, OneTarget DEF t

-----------------------------------------------------------------------------
(* Targets *)

LEMMA RenameTargetSound ==
  ASSUME Sound(config), NEW i \in DOMAIN config.targets, NEW new, RenameTarget(i, new)
  PROVE  Sound(config')
<1> DEFINE t == config.targets[i]
           u == [t EXCEPT !.name = new]
<1>1. /\ DOMAIN config' = DOMAIN config /\ config'.dd = config.dd /\ config'.sources = config.sources
      /\ config'.trafos = config.trafos /\ config'.fault = config.fault /\ config'.judged = config.judged
      /\ config'.tidy = config.tidy /\ config'.targets = [config.targets EXCEPT ![i] = u]
  BY DEF RenameTarget, Sound, Shape
<1>2. TargetShape(t)
  BY DEF Sound, Shape
<1>3. /\ DOMAIN u = DOMAIN t /\ u.name = new /\ u.type = t.type /\ u.valid = t.valid /\ u.refs = t.refs
      /\ u.assigns = t.assigns /\ u.triggers = t.triggers
  BY <1>2 DEF TargetShape
<1> HIDE DEF u
<1>4. /\ DOMAIN config'.targets = DOMAIN config.targets
      /\ \A k \in DOMAIN config.targets : config'.targets[k] = IF k = i THEN u ELSE config.targets[k]
  BY <1>1
<1>5. TargetShape(u) /\ Used(u) = Used(t)
  BY <1>2, <1>3 DEF TargetShape, Used
<1>6. \A c : TargetFits(c, t) => TargetFits(c, u)
  BY <1>3 DEF TargetFits
<1>7. Shape(config')
  <2>1. IsSequence(config'.targets)
    <3>1. config.targets = [k \in 1..Len(config.targets) |-> config.targets[k]] /\ Len(config.targets) \in Nat
      BY DEF Sound, Shape, IsSequence
    <3>2. config'.targets = [k \in 1..Len(config.targets) |-> config'.targets[k]]
      BY <1>1, <3>1
    <3> QED
      BY <3>1, <3>2, FunctionIs
  <2> QED
    BY <1>1, <1>4, <1>5, <2>1 DEF Sound, Shape
<1>8. Names(config')
  <2>1. new \notin DOMAIN config.sources /\ \A k \in DOMAIN config.targets : config.targets[k].name # new
    BY DEF RenameTarget, NameFree, TargetNames
  <2>2. NamesOnce(config'.targets)
    BY <1>3, <1>4, <2>1, NamesOnceIs DEF Sound, Names
  <2>3. TargetNames(config') \intersect DOMAIN config'.sources = {}
    BY <1>1, <1>3, <1>4, <2>1 DEF Sound, Names, TargetNames
  <2> QED
    BY <2>2, <2>3 DEF Names
<1>9. Refers(config')
  BY <1>1, <1>3, <1>4, <1>5 DEF Sound, Refers, TargetRefers
<1>10. Judged(config')
  <2> SUFFICES ASSUME config.judged, config.tidy
               PROVE  /\ config'.fault # "type" /\ ItemsFit(config')
                      /\ \A k \in DOMAIN config'.targets : TargetFits(config', config'.targets[k])
    BY <1>1 DEF Judged
  <2>1. \A k \in DOMAIN config'.targets : TargetFits(config, config'.targets[k])
    BY <1>4, <1>6 DEF Sound, Judged
  <2>2. ItemsFit(config')
    BY <1>1 DEF Sound, Judged, ItemsFit, Types, KnownEnums
  <2> QED
    BY <1>1, <2>1, <2>2, FitsInFrame DEF Sound, Judged
<1> QED
  BY <1>7, <1>8, <1>9, <1>10 DEF Sound

LEMMA AddTargetSound ==
  ASSUME Sound(config), NEW n, NEW type, AddTarget(n, type)
  PROVE  Sound(config')
<1> DEFINE u == [name |-> n, type |-> type, valid |-> TRUE, assigns |-> << >>, triggers |-> << >>, refs |-> {}]
<1>1. /\ DOMAIN config' = DOMAIN config /\ config'.dd = config.dd /\ config'.sources = config.sources
      /\ config'.trafos = config.trafos /\ config'.fault = config.fault /\ config'.judged = config.judged
      /\ config'.tidy = config.tidy /\ config'.targets = Append(config.targets, u)
  BY DEF AddTarget, Sound, Shape
<1>2. type \in DOMAIN Types(config) /\ NameFree(config, n)
  BY DEF AddTarget
<1>3. u.assigns = << >> /\ u.triggers = << >> /\ u.refs = {} /\ u.name = n /\ u.type = type
  OBVIOUS
<1>4. TargetShape(u)
  BY EmptyIs DEF TargetShape, ElementsOnce, IsInjective
<1>5. TargetRefers(config, u)
  BY <1>3, EmptyIs DEF TargetRefers, Used, Sources
<1>6. TargetFits(config, u)
  BY <1>2, <1>3, EmptyIs DEF TargetFits
<1> HIDE DEF u
<1>7. /\ IsSequence(config'.targets) /\ DOMAIN config'.targets = 1..(Len(config.targets) + 1)
      /\ DOMAIN config.targets = 1..Len(config.targets) /\ Len(config.targets) \in Nat
      /\ \A k \in DOMAIN config.targets : config'.targets[k] = config.targets[k]
      /\ config'.targets[Len(config.targets) + 1] = u
  BY <1>1, AppendIs DEF Sound, Shape, IsSequence
<1>8. \A k \in DOMAIN config'.targets : k \in DOMAIN config.targets \/ k = Len(config.targets) + 1
  BY <1>7
<1>9. Shape(config')
  BY <1>1, <1>4, <1>7, <1>8 DEF Sound, Shape
<1>10. Names(config')
  <2>1. n \notin DOMAIN config.sources /\ \A k \in DOMAIN config.targets : config.targets[k].name # n
    BY <1>2 DEF NameFree, TargetNames
  <2>2. NamesOnce(config'.targets)
    <3>1. \A k, l \in DOMAIN config.targets : config.targets[k].name = config.targets[l].name => k = l
      BY NamesOnceIs DEF Sound, Names
    <3>2. \A k, l \in DOMAIN config'.targets : config'.targets[k].name = config'.targets[l].name => k = l
      BY <1>3, <1>7, <1>8, <2>1, <3>1
    <3> QED
      BY <3>2, NamesOnceIs
  <2>3. TargetNames(config') \intersect DOMAIN config'.sources = {}
    <3>1. TargetNames(config') \subseteq TargetNames(config) \union {n}
      BY <1>3, <1>7, <1>8 DEF TargetNames
    <3> QED
      BY <1>1, <2>1, <3>1 DEF Sound, Names
  <2> QED
    BY <2>2, <2>3 DEF Names
<1>11. Refers(config')
  BY <1>1, <1>5, <1>7, <1>8 DEF Sound, Refers, TargetRefers
<1>12. Judged(config')
  <2> SUFFICES ASSUME config.judged, config.tidy
               PROVE  /\ config'.fault # "type" /\ ItemsFit(config')
                      /\ \A k \in DOMAIN config'.targets : TargetFits(config', config'.targets[k])
    BY <1>1 DEF Judged
  <2>1. \A k \in DOMAIN config'.targets : TargetFits(config, config'.targets[k])
    BY <1>6, <1>7, <1>8 DEF Sound, Judged
  <2>2. ItemsFit(config')
    BY <1>1 DEF Sound, Judged, ItemsFit, Types, KnownEnums
  <2> QED
    BY <1>1, <2>1, <2>2, FitsInFrame DEF Sound, Judged
<1> QED
  BY <1>9, <1>10, <1>11, <1>12 DEF Sound

LEMMA RemoveTargetSound ==
  ASSUME Sound(config), NEW i \in DOMAIN config.targets, RemoveTarget(i)
  PROVE  Sound(config')
<1> DEFINE all == config.targets
           others == RemoveAt(all, i)
           kept == [k \in DOMAIN others |-> [others[k] EXCEPT !.valid = all[k].valid]]
           same == \A k \in DOMAIN others : others[k].valid = all[k].valid
<1>1. /\ DOMAIN config' = DOMAIN config /\ config'.dd = config.dd /\ config'.sources = config.sources
      /\ config'.trafos = config.trafos /\ config'.fault = config.fault
      /\ config'.judged = (config.judged /\ same)
      /\ config'.tidy = config.tidy /\ config'.targets = kept
  BY DEF RemoveTarget, Sound, Shape
<1>2. Drawn(others, all)
  BY RemoveAtDraws DEF Sound, Shape
<1>3. PICK g \in [DOMAIN others -> DOMAIN all] :
         IsInjective(g) /\ \A k \in DOMAIN others : others[k] = all[g[k]]
  BY <1>2 DEF Drawn
<1>4. \A k \in DOMAIN all : TargetShape(all[k])
  BY DEF Sound, Shape
<1>5. IsSequence(kept) /\ DOMAIN kept = DOMAIN others
  <2>1. DOMAIN others = 1..Len(others) /\ Len(others) \in Nat
    BY <1>2 DEF Drawn, IsSequence
  <2>2. kept = [k \in 1..Len(others) |-> kept[k]]
    BY <2>1
  <2> HIDE DEF kept
  <2> QED
    BY <2>1, <2>2, FunctionIs
<1>6. \A k \in DOMAIN others :
         LET t == all[g[k]] IN
         /\ DOMAIN kept[k] = DOMAIN t /\ kept[k].name = t.name /\ kept[k].type = t.type /\ kept[k].refs = t.refs
         /\ kept[k].assigns = t.assigns /\ kept[k].triggers = t.triggers /\ kept[k].valid = all[k].valid
  <2> TAKE k \in DOMAIN others
  <2>1. kept[k] = [others[k] EXCEPT !.valid = all[k].valid] /\ others[k] = all[g[k]] /\ g[k] \in DOMAIN all
    BY <1>3
  <2>2. DOMAIN others[k] = {"name", "type", "valid", "assigns", "triggers", "refs"}
    BY <1>4, <2>1 DEF TargetShape
  <2> HIDE DEF kept, others, all
  <2> QED
    BY <2>1, <2>2
<1> HIDE DEF kept, others, all
<1>7. config'.judged => \A k \in DOMAIN others : kept[k].valid = all[g[k]].valid
  <2>1. config'.judged => same
    BY <1>1
  <2> QED
    BY <1>3, <1>6, <2>1
<1> HIDE DEF same
<1>8. \A k \in DOMAIN others : g[k] \in DOMAIN all
  BY <1>3
<1>9. Shape(config')
  <2>1. \A k \in DOMAIN others : TargetShape(kept[k])
    BY <1>4, <1>6, <1>8 DEF TargetShape
  <2> QED
    BY <1>1, <1>5, <2>1 DEF Sound, Shape
<1>10. Names(config')
  <2>1. \A k, l \in DOMAIN all : all[k].name = all[l].name => k = l
    BY NamesOnceIs DEF Sound, Names, all
  <2>2. \A k, l \in DOMAIN others : g[k] = g[l] => k = l
    BY <1>3 DEF IsInjective
  <2>3. \A k, l \in DOMAIN kept : kept[k].name = kept[l].name => k = l
    BY <1>5, <1>6, <1>8, <2>1, <2>2
  <2>4. TargetNames(config') \subseteq TargetNames(config)
    BY <1>1, <1>5, <1>6, <1>8 DEF TargetNames, all
  <2> QED
    BY <1>1, <2>3, <2>4, NamesOnceIs DEF Sound, Names
<1>11. Refers(config')
  <2> SUFFICES ASSUME config.tidy, NEW k \in DOMAIN others PROVE TargetRefers(config', kept[k])
    <3>1. config.tidy => config'.fault # "source"
      BY <1>1 DEF Refers, Sound
    <3> QED
      BY <1>1, <1>5, <3>1 DEF Refers
  <2>1. TargetRefers(config, all[g[k]])
    BY <1>8 DEF Sound, Refers, all
  <2> QED
    BY <1>1, <1>6, <2>1 DEF TargetRefers, Used
<1>12. Judged(config')
  <2> SUFFICES ASSUME config'.judged, config'.tidy
               PROVE  /\ config'.fault # "type" /\ ItemsFit(config')
                      /\ \A k \in DOMAIN config'.targets : TargetFits(config', config'.targets[k])
    BY DEF Judged
  <2>1. \A k \in DOMAIN others : TargetFits(config, all[g[k]])
    BY <1>1, <1>8 DEF Sound, Judged, all
  <2>2. \A k \in DOMAIN others : TargetFits(config, kept[k])
    BY <1>6, <1>7, <2>1 DEF TargetFits
  <2>3. ItemsFit(config')
    BY <1>1 DEF Sound, Judged, ItemsFit, Types, KnownEnums
  <2> QED
    BY <1>1, <1>5, <2>2, <2>3, FitsInFrame DEF Sound, Judged
<1> QED
  BY <1>9, <1>10, <1>11, <1>12 DEF Sound

-----------------------------------------------------------------------------
(* What ends with a check *)

LEMMA SetTargetTypeSound ==
  ASSUME Sound(config), config.fault = "none", NEW i \in DOMAIN config.targets, NEW type, SetTargetType(i, type)
  PROVE  Sound(config')
<1> DEFINE t == config.targets[i]
           u == [t EXCEPT !.type = type]
           c == Retyped(i, type)
<1>1. /\ DOMAIN c = DOMAIN config /\ c.dd = config.dd /\ c.sources = config.sources
      /\ c.trafos = config.trafos /\ c.fault = config.fault /\ c.judged = config.judged
      /\ c.tidy = config.tidy /\ c.targets = [config.targets EXCEPT ![i] = u]
  BY DEF Retyped, Sound, Shape
<1>2. TargetShape(t)
  BY DEF Sound, Shape
<1>3. /\ DOMAIN u = DOMAIN t /\ u.name = t.name /\ u.refs = t.refs
      /\ u.assigns = t.assigns /\ u.triggers = t.triggers
  BY <1>2 DEF TargetShape
<1> HIDE DEF u, c
<1>4. /\ DOMAIN c.targets = DOMAIN config.targets
      /\ \A k \in DOMAIN config.targets : c.targets[k] = IF k = i THEN u ELSE config.targets[k]
  BY <1>1
<1>5. TargetShape(u) /\ Used(u) = Used(t)
  BY <1>2, <1>3 DEF TargetShape, Used
<1>6. Shape(c)
  <2>1. config.targets = [k \in 1..Len(config.targets) |-> config.targets[k]] /\ Len(config.targets) \in Nat
    BY DEF Sound, Shape, IsSequence
  <2>2. c.targets = [k \in 1..Len(config.targets) |-> c.targets[k]]
    BY <1>1, <2>1
  <2>3. IsSequence(c.targets)
    BY <2>1, <2>2, FunctionIs
  <2> QED
    BY <1>1, <1>4, <1>5, <2>3 DEF Sound, Shape
<1>7. Names(c)
  <2>1. TargetNames(c) = TargetNames(config)
    BY <1>3, <1>4 DEF TargetNames
  <2> QED
    BY <1>1, <1>3, <1>4, <2>1, NamesOnceIs DEF Sound, Names
<1>8. Refers(c)
  BY <1>1, <1>3, <1>4, <1>5 DEF Sound, Refers, TargetRefers
<1> QED
  BY <1>1, <1>6, <1>7, <1>8, CheckDDLSound DEF SetTargetType, c

LEMMA SetSourceTypeSound ==
  ASSUME Sound(config), config.fault = "none", NEW n, NEW type, SetSourceType(n, type)
  PROVE  Sound(config')
<1> DEFINE c == [config EXCEPT !.sources[n].type = type]
<1>1. n \in DOMAIN config.sources /\ config' = CheckDDL(c)
  BY DEF SetSourceType
<1>2. /\ DOMAIN c = DOMAIN config /\ c.dd = config.dd /\ c.targets = config.targets
      /\ c.trafos = config.trafos /\ c.fault = config.fault /\ c.tidy = config.tidy
      /\ c.sources = [config.sources EXCEPT ![n].type = type]
  BY DEF Sound, Shape
<1> HIDE DEF c
<1>3. /\ DOMAIN c.sources = DOMAIN config.sources
      /\ \A s \in DOMAIN c.sources : DOMAIN c.sources[s] = DOMAIN config.sources[s]
  BY <1>1, <1>2
<1>4. Shape(c)
  BY <1>2, <1>3 DEF Sound, Shape
<1>5. Names(c)
  BY <1>2, <1>3 DEF Sound, Names, TargetNames
<1>6. Refers(c)
  BY <1>2, <1>3 DEF Sound, Refers, TargetRefers
<1> QED
  BY <1>1, <1>2, <1>4, <1>5, <1>6, CheckDDLSound

LEMMA WriteToDOMSound ==
  ASSUME Sound(config), config.fault = "none", WriteToDOM
  PROVE  Sound(config')
  BY CheckDDLSound DEF WriteToDOM, Sound

\* Another data definition leaves shape, names and references as they are.
LEMMA OtherDD ==
  ASSUME NEW c, Sound(c), NEW d \in DOMAIN world.dds \union {None}
  PROVE  LET other == [c EXCEPT !.dd = d] IN
         /\ Shape(other) /\ Names(other) /\ Refers(other) /\ other.fault = c.fault
         /\ DOMAIN other = DOMAIN c /\ other.dd = d /\ other.sources = c.sources
         /\ other.targets = c.targets /\ other.trafos = c.trafos /\ other.tidy = c.tidy
<1> DEFINE other == [c EXCEPT !.dd = d]
<1>1. /\ DOMAIN other = DOMAIN c /\ other.dd = d /\ other.sources = c.sources
      /\ other.targets = c.targets /\ other.trafos = c.trafos /\ other.tidy = c.tidy
      /\ other.fault = c.fault
  BY DEF Sound, Shape
<1> HIDE DEF other
<1>2. Shape(other)
  BY <1>1 DEF Sound, Shape
<1>3. Names(other)
  BY <1>1 DEF Sound, Names, TargetNames
<1>4. Refers(other)
  BY <1>1 DEF Sound, Refers, TargetRefers
<1> QED
  BY <1>1, <1>2, <1>3, <1>4 DEF other

LEMMA ModifyDDSound ==
  ASSUME Sound(config), config.fault = "none", NEW d \in DOMAIN world.dds \union {None}, ModifyDD(d)
  PROVE  Sound(config')
<1> DEFINE other == [config EXCEPT !.dd = d]
<1>1. Shape(other) /\ Names(other) /\ Refers(other) /\ other.fault = "none"
  BY OtherDD
<1>2. config' = CheckDDL(other)
  BY DEF ModifyDD
<1> HIDE DEF other
<1> QED
  BY <1>1, <1>2, CheckDDLSound

LEMMA SetDDWithoutConsistencySound ==
  ASSUME Sound(config), NEW d \in DOMAIN world.dds \union {None}, SetDDWithoutConsistency(d)
  PROVE  Sound(config')
<1>1. /\ DOMAIN config' = DOMAIN config /\ config'.dd = d /\ config'.sources = config.sources
      /\ config'.targets = config.targets /\ config'.trafos = config.trafos /\ config'.tidy = config.tidy
      /\ config'.fault = config.fault /\ ~config'.judged
  BY DEF SetDDWithoutConsistency, Sound, Shape
<1>2. Shape(config')
  BY <1>1 DEF Sound, Shape
<1>3. Names(config')
  BY <1>1 DEF Sound, Names, TargetNames
<1>4. Refers(config')
  BY <1>1 DEF Sound, Refers, TargetRefers
<1> QED
  BY <1>1, <1>2, <1>3, <1>4 DEF Sound, Judged

LEMMA BareSound ==
  ASSUME NEW c, DOMAIN c = {"dd", "sources", "targets", "trafos", "fault", "judged", "tidy"},
         c.dd \in DOMAIN world.dds \union {None}, c.sources = << >>, c.targets = << >>, c.trafos = << >>,
         c.fault = "none"
  PROVE  Sound(c)
<1>1. Shape(c)
  BY EmptyIs DEF Shape
<1>2. Names(c)
  BY EmptyIs, NamesOnceIs DEF Names, TargetNames
<1>3. Refers(c) /\ Judged(c)
  BY EmptyIs DEF Refers, Judged, ItemsFit
<1> QED
  BY <1>1, <1>2, <1>3 DEF Sound

LEMMA EmptySound ==
  /\ Sound(Empty)
  /\ \A d \in DOMAIN world.dds \union {None} : Sound([Empty EXCEPT !.dd = d])
<1>1. Sound(Empty)
  BY BareSound DEF Empty
<1>2. ASSUME NEW d \in DOMAIN world.dds \union {None} PROVE Sound([Empty EXCEPT !.dd = d])
  <2> DEFINE c == [Empty EXCEPT !.dd = d]
  <2>1. /\ DOMAIN c = {"dd", "sources", "targets", "trafos", "fault", "judged", "tidy"}
        /\ c.dd = d /\ c.sources = << >> /\ c.targets = << >> /\ c.trafos = << >> /\ c.fault = "none"
    BY DEF Empty
  <2> HIDE DEF c
  <2>2. Sound(c)
    BY <2>1, BareSound
  <2> QED
    BY <2>2 DEF c
<1> QED
  BY <1>1, <1>2

\* A configuration in which the check flags everything valid fits as it is.
LEMMA FitsThroughout ==
  ASSUME NEW c, Shape(c), ~Unfounded(c), Sound(Flagged(c)), Fits(Flagged(c)), c.tidy, c.fault = "none"
  PROVE  ItemsFit(c) /\ \A i \in DOMAIN c.targets : TargetFits(c, c.targets[i])
<1> DEFINE d == Flagged(c)
<1>1. /\ DOMAIN d = DOMAIN c /\ d.dd = c.dd /\ d.fault = c.fault /\ d.judged /\ d.tidy = c.tidy
      /\ DOMAIN d.sources = DOMAIN c.sources
      /\ \A n \in DOMAIN c.sources :
            /\ DOMAIN d.sources[n] = {"type", "valid"} /\ d.sources[n].type = c.sources[n].type
            /\ d.sources[n].valid = (c.sources[n].type \in DOMAIN Types(c))
      /\ DOMAIN d.trafos = DOMAIN c.trafos
      /\ \A n \in DOMAIN c.trafos :
            /\ DOMAIN d.trafos[n] = {"enums", "entries", "valid"} /\ d.trafos[n].enums = c.trafos[n].enums
            /\ d.trafos[n].valid = (c.trafos[n].enums \subseteq KnownEnums(c))
      /\ IsSequence(d.targets) /\ DOMAIN d.targets = DOMAIN c.targets
      /\ \A i \in DOMAIN c.targets : d.targets[i] = JudgedTarget(c, c.targets[i])
  BY FlaggedIs
<1> HIDE DEF d
<1>2. ItemsFit(c)
  BY <1>1 DEF Fits, ItemsFit, d
<1>3. ASSUME NEW i \in DOMAIN c.targets PROVE TargetFits(c, c.targets[i])
  <2> DEFINE t == c.targets[i]
             u == d.targets[i]
  <2>1. TargetShape(t)
    BY DEF Shape
  <2>2. u.valid /\ (\A k \in DOMAIN u.assigns : u.assigns[k].valid) /\ (\A k \in DOMAIN u.triggers : u.triggers[k].valid)
    BY <1>1 DEF Fits, d
  <2>3. SameButFlags(t, u) /\ TargetFits(c, u)
    <3>1. u = JudgedTarget(c, t)
      BY <1>1
    <3> HIDE DEF t, u
    <3> QED
      BY <2>1, <3>1, JudgedTargetSound
  <2> HIDE DEF t, u
  <2>4. /\ DOMAIN u.assigns = DOMAIN t.assigns
        /\ \A k \in DOMAIN t.assigns :
              /\ u.assigns[k].kind = t.assigns[k].kind /\ u.assigns[k].to = t.assigns[k].to
              /\ u.assigns[k].from = t.assigns[k].from /\ u.assigns[k].source = t.assigns[k].source
    BY <2>1, <2>3 DEF SameButFlags, SameItems, TargetShape, AssignmentOK
  <2>5. /\ DOMAIN u.triggers = DOMAIN t.triggers
        /\ \A k \in DOMAIN t.triggers :
              /\ u.triggers[k].kind = t.triggers[k].kind /\ u.triggers[k].from = t.triggers[k].from
              /\ u.triggers[k].source = t.triggers[k].source
    BY <2>1, <2>3 DEF SameButFlags, SameItems, TargetShape, TriggerOK
  <2>6. \A k \in DOMAIN t.assigns : AssignmentTypeOK(c, t.type, t.assigns[k])
    <3> TAKE k \in DOMAIN t.assigns
    <3>1. AssignmentTypeOK(c, t.type, u.assigns[k])
      BY <2>2, <2>3, <2>4 DEF TargetFits, SameButFlags
    <3> QED
      BY <2>4, <3>1, AssignmentFitsAlike
  <2>7. \A k \in DOMAIN t.triggers : TriggerTypeOK(c, t.triggers[k])
    <3> TAKE k \in DOMAIN t.triggers
    <3>1. TriggerTypeOK(c, u.triggers[k])
      BY <2>2, <2>3, <2>5 DEF TargetFits
    <3> QED
      BY <2>5, <3>1, TriggerFitsAlike
  <2>8. \A k \in DOMAIN t.assigns : ~Covered(t.assigns, t.assigns[k])
    BY <2>2, <2>3, <2>4 DEF TargetFits, Covered
  <2>9. t.type \in DOMAIN Types(c)
    BY <2>2, <2>3 DEF TargetFits, SameButFlags
  <2> QED
    BY <2>6, <2>7, <2>8, <2>9 DEF TargetFits, t
<1> QED
  BY <1>2, <1>3

LEMMA SetDDSound ==
  ASSUME Sound(config), config.fault = "none", NEW d \in DOMAIN world.dds \union {None}, SetDD(d)
  PROVE  Sound(config')
<1> DEFINE other == [config EXCEPT !.dd = d]
           checked == CheckDDL(other)
           taken == [config EXCEPT !.dd = d, !.judged = TRUE]
<1>1. /\ Shape(other) /\ Names(other) /\ Refers(other) /\ other.fault = "none"
      /\ DOMAIN other = DOMAIN config /\ other.dd = d /\ other.sources = config.sources
      /\ other.targets = config.targets /\ other.trafos = config.trafos /\ other.tidy = config.tidy
  BY OtherDD
<1>2. config' = IF checked.fault # "none" THEN checked ELSE IF Fits(checked) THEN taken ELSE Empty
  BY DEF SetDD
<1>3. /\ DOMAIN taken = DOMAIN config /\ taken.dd = d /\ taken.sources = config.sources
      /\ taken.targets = config.targets /\ taken.trafos = config.trafos /\ taken.tidy = config.tidy
      /\ taken.fault = "none"
  BY DEF Sound, Shape
<1> HIDE DEF other, taken
<1>4. Sound(checked)
  BY <1>1, CheckDDLSound
<1>5. ASSUME checked.fault = "none", Fits(checked) PROVE Sound(taken)
  <2>1. Shape(taken)
    BY <1>1, <1>3 DEF Shape
  <2>2. Names(taken)
    BY <1>1, <1>3 DEF Names, TargetNames
  <2>3. Refers(taken)
    BY <1>1, <1>3 DEF Refers, TargetRefers
  <2>4. Judged(taken)
    <3> SUFFICES ASSUME taken.tidy PROVE ItemsFit(taken) /\ \A i \in DOMAIN taken.targets : TargetFits(taken, taken.targets[i])
      BY <1>3 DEF Judged
    <3>1. ~Unfounded(other)
      <4> SUFFICES ASSUME Unfounded(other) PROVE FALSE
        OBVIOUS
      <4>1. checked = [other EXCEPT !.fault = "source"]
        BY DEF CheckDDL
      <4>2. "fault" \in DOMAIN other
        BY <1>1 DEF Shape
      <4>3. checked.fault = "source"
        BY <4>1, <4>2
      <4> QED
        BY <1>5, <4>3
    <3>2. checked = Flagged(other)
      BY <3>1 DEF CheckDDL
    <3>3. ItemsFit(other) /\ \A i \in DOMAIN other.targets : TargetFits(other, other.targets[i])
      BY <1>1, <1>3, <1>4, <1>5, <3>1, <3>2, FitsThroughout
    <3>4. ItemsFit(taken)
      BY <1>1, <1>3, <3>3 DEF ItemsFit, Types, KnownEnums
    <3> QED
      BY <1>1, <1>3, <3>3, <3>4, FitsInFrame
  <2> QED
    BY <2>1, <2>2, <2>3, <2>4 DEF Sound
<1> QED
  BY <1>2, <1>4, <1>5, EmptySound

-----------------------------------------------------------------------------
(* Sources and transformations *)

LEMMA TargetsMapped ==
  ASSUME NEW c, Sound(c), NEW d,
         DOMAIN d = DOMAIN c, d.dd = c.dd, d.fault = c.fault, d.judged = c.judged, d.tidy = c.tidy,
         None \notin DOMAIN d.sources, \A n \in DOMAIN d.sources : DOMAIN d.sources[n] = {"type", "valid"},
         \A n \in DOMAIN d.trafos : DOMAIN d.trafos[n] = {"enums", "entries", "valid"},
         c.judged /\ c.tidy => ItemsFit(d),
         TargetNames(c) \intersect DOMAIN d.sources = {},
         DOMAIN d.targets = DOMAIN c.targets, d.targets = [i \in DOMAIN c.targets |-> d.targets[i]],
         \A i \in DOMAIN c.targets :
            /\ d.targets[i].name = c.targets[i].name /\ TargetShape(d.targets[i])
            /\ c.tidy => TargetRefers(d, d.targets[i])
            /\ c.judged /\ c.tidy => TargetFits(d, d.targets[i])
  PROVE  Sound(d)
<1>1. IsSequence(d.targets)
  <2>1. DOMAIN c.targets = 1..Len(c.targets) /\ Len(c.targets) \in Nat
    BY DEF Sound, Shape, IsSequence
  <2> QED
    BY <2>1, FunctionIs
<1>2. Shape(d)
  BY <1>1 DEF Sound, Shape
<1>3. TargetNames(d) = TargetNames(c)
  BY DEF TargetNames
<1>4. Names(d)
  <2>1. \A i, j \in DOMAIN c.targets : c.targets[i].name = c.targets[j].name => i = j
    BY NamesOnceIs DEF Sound, Names
  <2>2. \A i, j \in DOMAIN d.targets : d.targets[i].name = d.targets[j].name => i = j
    BY <2>1
  <2> QED
    BY <1>3, <2>2, NamesOnceIs DEF Names
<1>5. Refers(d)
  BY DEF Sound, Refers
<1>6. Judged(d)
  BY DEF Sound, Judged
<1> QED
  BY <1>2, <1>4, <1>5, <1>6 DEF Sound

\* The types of the sources that an item uses are what they were.
LEMMA FitsWithSources ==
  ASSUME NEW c, NEW d, d.dd = c.dd, NEW t, TargetShape(t), Used(t) \subseteq DOMAIN c.sources,
         \A n \in Used(t) : d.sources[n].type = c.sources[n].type,
         TargetFits(c, t)
  PROVE  TargetFits(d, t)
<1>1. Types(d) = Types(c)
  BY DEF Types
<1>2. ASSUME NEW k \in DOMAIN t.assigns, AssignmentTypeOK(c, t.type, t.assigns[k])
      PROVE  AssignmentTypeOK(d, t.type, t.assigns[k])
  <2>1. t.assigns[k].kind = "source" => t.assigns[k].source \in Used(t)
    BY DEF TargetShape, AssignmentOK, Used, Sources
  <2> QED
    BY <1>2, <2>1, AssignmentFitsAlike
<1>3. ASSUME NEW k \in DOMAIN t.triggers, TriggerTypeOK(c, t.triggers[k])
      PROVE  TriggerTypeOK(d, t.triggers[k])
  <2>1. t.triggers[k].kind = "data" => t.triggers[k].source \in Used(t)
    BY DEF TargetShape, TriggerOK, Used, Sources
  <2> QED
    BY <1>3, <2>1, TriggerFitsAlike
<1> QED
  BY <1>1, <1>2, <1>3 DEF TargetFits

LEMMA AddSourceSound ==
  ASSUME Sound(config), NEW n, n # None, NEW type, AddSource(n, type)
  PROVE  Sound(config')
<1> DEFINE sources == Joined(config.sources, Named(n, [type |-> type, valid |-> TRUE]))
<1>1. /\ DOMAIN config' = DOMAIN config /\ config'.dd = config.dd /\ config'.targets = config.targets
      /\ config'.trafos = config.trafos /\ config'.tidy = config.tidy /\ config'.judged = config.judged
      /\ config'.fault = config.fault /\ config'.sources = sources
  BY DEF AddSource, Sound, Shape
<1>2. type \in DOMAIN Types(config) /\ n \notin DOMAIN config.sources /\ n \notin TargetNames(config)
  BY DEF AddSource, NameFree
<1>3. /\ DOMAIN sources = DOMAIN config.sources \union {n}
      /\ \A s \in DOMAIN config.sources : sources[s] = config.sources[s]
      /\ sources[n] = [type |-> type, valid |-> TRUE]
  BY <1>2 DEF Joined, Named
<1> HIDE DEF sources
<1>4. \A i \in DOMAIN config.targets : TargetShape(config.targets[i])
  BY DEF Sound, Shape
<1>5. ASSUME config.tidy, NEW i \in DOMAIN config.targets
      PROVE  /\ TargetRefers(config', config.targets[i])
             /\ config.judged => TargetFits(config', config.targets[i])
  <2>1. TargetRefers(config, config.targets[i]) /\ (config.judged => TargetFits(config, config.targets[i]))
    BY <1>5 DEF Sound, Refers, Judged
  <2>2. TargetRefers(config', config.targets[i])
    BY <1>1, <1>3, <2>1 DEF TargetRefers
  <2> QED
    BY <1>1, <1>3, <1>4, <2>1, <2>2, FitsWithSources DEF TargetRefers
<1>6. config.judged /\ config.tidy => ItemsFit(config')
  BY <1>1, <1>2, <1>3 DEF Sound, Judged, ItemsFit, Types, KnownEnums
<1>7. /\ None \notin DOMAIN sources
      /\ \A s \in DOMAIN sources : DOMAIN sources[s] = {"type", "valid"}
      /\ \A s \in DOMAIN config.trafos : DOMAIN config.trafos[s] = {"enums", "entries", "valid"}
      /\ TargetNames(config) \intersect DOMAIN sources = {}
  BY <1>2, <1>3 DEF Sound, Shape, Names
<1>8. config.targets = [i \in DOMAIN config.targets |-> config.targets[i]]
  BY DEF Sound, Shape, IsSequence
<1> QED
  BY <1>1, <1>4, <1>5, <1>6, <1>7, <1>8, TargetsMapped

\* removeSource and removeTransformation: what names the item goes with it.
LEMMA DesertedThins ==
  ASSUME NEW t, TargetShape(t), NEW n
  PROVE  LET u == Released(t, [t EXCEPT !.assigns = Without(@, "source", {n}),
                                        !.triggers = Without(@, "source", {n})])
             v == Released(t, [t EXCEPT !.assigns = Without(@, "trafo", {n})])
         IN  /\ Thinned(t, u) /\ n \notin Used(u)
             /\ Thinned(t, v) /\ \A k \in DOMAIN v.assigns : v.assigns[k].trafo # n
<1> DEFINE left == [t EXCEPT !.assigns = Without(@, "source", {n}), !.triggers = Without(@, "source", {n})]
           u == Released(t, left)
           plain == [t EXCEPT !.assigns = Without(@, "trafo", {n})]
           v == Released(t, plain)
<1>1. IsSequence(t.assigns) /\ IsSequence(t.triggers)
  BY DEF TargetShape
<1>2. /\ Drawn(Without(t.assigns, "source", {n}), t.assigns)
      /\ \A k \in DOMAIN Without(t.assigns, "source", {n}) : Without(t.assigns, "source", {n})[k]["source"] # n
  BY <1>1, WithoutDraws
<1>3. /\ Drawn(Without(t.triggers, "source", {n}), t.triggers)
      /\ \A k \in DOMAIN Without(t.triggers, "source", {n}) : Without(t.triggers, "source", {n})[k]["source"] # n
  BY <1>1, WithoutDraws
<1>4. /\ Drawn(Without(t.assigns, "trafo", {n}), t.assigns)
      /\ \A k \in DOMAIN Without(t.assigns, "trafo", {n}) : Without(t.assigns, "trafo", {n})[k]["trafo"] # n
  BY <1>1, WithoutDraws
<1>5. /\ DOMAIN left = DOMAIN t /\ left.name = t.name /\ left.type = t.type /\ left.valid = t.valid
      /\ left.refs = t.refs /\ left.assigns = Without(t.assigns, "source", {n})
      /\ left.triggers = Without(t.triggers, "source", {n})
  BY DEF TargetShape
<1>6. /\ DOMAIN plain = DOMAIN t /\ plain.name = t.name /\ plain.type = t.type /\ plain.valid = t.valid
      /\ plain.refs = t.refs /\ plain.assigns = Without(t.assigns, "trafo", {n}) /\ plain.triggers = t.triggers
  BY DEF TargetShape
<1> HIDE DEF left, plain
<1>7. Thinned(t, u) /\ u.assigns = left.assigns /\ u.triggers = left.triggers
  BY <1>2, <1>3, <1>5, ReleasedThins
<1>8. Thinned(t, v) /\ v.assigns = plain.assigns
  BY <1>1, <1>4, <1>6, DrawsItself, ReleasedThins
<1> HIDE DEF u, v
<1>9. n \notin Used(u)
  BY <1>2, <1>3, <1>5, <1>7 DEF Used, Sources
<1>10. \A k \in DOMAIN v.assigns : v.assigns[k].trafo # n
  BY <1>4, <1>6, <1>8
<1> QED
  BY <1>7, <1>8, <1>9, <1>10 DEF u, v, left, plain

LEMMA RemoveSourceSound ==
  ASSUME Sound(config), NEW n, RemoveSource(n)
  PROVE  Sound(config')
<1> DEFINE Deserted(t) == Released(t, [t EXCEPT !.assigns = Without(@, "source", {n}),
                                                !.triggers = Without(@, "source", {n})])
           targets == [i \in DOMAIN config.targets |-> Deserted(config.targets[i])]
           sources == Restrict(config.sources, DOMAIN config.sources \ {n})
<1>1. /\ DOMAIN config' = DOMAIN config /\ config'.dd = config.dd /\ config'.targets = targets
      /\ config'.trafos = config.trafos /\ config'.tidy = config.tidy /\ config'.judged = config.judged
      /\ config'.fault = config.fault /\ config'.sources = sources
  BY DEF RemoveSource, Sound, Shape
<1>2. DOMAIN sources = DOMAIN config.sources \ {n} /\ \A s \in DOMAIN sources : sources[s] = config.sources[s]
  BY DEF Restrict
<1>3. \A i \in DOMAIN config.targets : TargetShape(config.targets[i])
  BY DEF Sound, Shape
<1>4. \A i \in DOMAIN config.targets : Thinned(config.targets[i], targets[i]) /\ n \notin Used(targets[i])
  BY <1>3, DesertedThins
<1>5. DOMAIN targets = DOMAIN config.targets /\ targets = [i \in DOMAIN config.targets |-> targets[i]]
  OBVIOUS
<1> HIDE DEF sources, targets
<1>6. ASSUME NEW i \in DOMAIN config.targets
      PROVE  /\ targets[i].name = config.targets[i].name /\ TargetShape(targets[i])
             /\ config.tidy => TargetRefers(config', targets[i])
             /\ config.judged /\ config.tidy => TargetFits(config', targets[i])
  <2>1. targets[i].name = config.targets[i].name /\ TargetShape(targets[i])
    BY <1>3, <1>4, ThinnedSound DEF Thinned
  <2>2. config.tidy => TargetRefers(config, targets[i])
    BY <1>4, ThinnedSound DEF Sound, Refers
  <2>3. config.judged /\ config.tidy => TargetFits(config, targets[i])
    BY <1>4, ThinnedSound DEF Sound, Judged
  <2>4. config.tidy => TargetRefers(config', targets[i])
    BY <1>1, <1>2, <1>4, <2>2 DEF TargetRefers
  <2>5. config.tidy => /\ Used(targets[i]) \subseteq DOMAIN config.sources
                       /\ \A s \in Used(targets[i]) : config'.sources[s].type = config.sources[s].type
    BY <1>1, <1>2, <1>4, <2>2 DEF TargetRefers
  <2>6. config.judged /\ config.tidy => TargetFits(config', targets[i])
    BY <1>1, <2>1, <2>3, <2>5, FitsWithSources
  <2> QED
    BY <2>1, <2>4, <2>6
<1>7. config.judged /\ config.tidy => ItemsFit(config')
  BY <1>1, <1>2 DEF Sound, Judged, ItemsFit, Types, KnownEnums
<1>8. /\ None \notin DOMAIN sources
      /\ \A s \in DOMAIN sources : DOMAIN sources[s] = {"type", "valid"}
      /\ \A s \in DOMAIN config.trafos : DOMAIN config.trafos[s] = {"enums", "entries", "valid"}
      /\ TargetNames(config) \intersect DOMAIN sources = {}
  BY <1>2 DEF Sound, Shape, Names
<1> QED
  BY <1>1, <1>5, <1>6, <1>7, <1>8, TargetsMapped

LEMMA RemoveTransformationSound ==
  ASSUME Sound(config), NEW n, RemoveTransformation(n)
  PROVE  Sound(config')
<1> DEFINE Plainly(t) == Released(t, [t EXCEPT !.assigns = Without(@, "trafo", {n})])
           targets == [i \in DOMAIN config.targets |-> Plainly(config.targets[i])]
           trafos == Restrict(config.trafos, DOMAIN config.trafos \ {n})
<1>1. /\ DOMAIN config' = DOMAIN config /\ config'.dd = config.dd /\ config'.targets = targets
      /\ config'.sources = config.sources /\ config'.tidy = config.tidy /\ config'.judged = config.judged
      /\ config'.fault = config.fault /\ config'.trafos = trafos
  BY DEF RemoveTransformation, Sound, Shape
<1>2. DOMAIN trafos = DOMAIN config.trafos \ {n} /\ \A s \in DOMAIN trafos : trafos[s] = config.trafos[s]
  BY DEF Restrict
<1>3. \A i \in DOMAIN config.targets : TargetShape(config.targets[i])
  BY DEF Sound, Shape
<1>4. \A i \in DOMAIN config.targets : /\ Thinned(config.targets[i], targets[i])
                                       /\ \A k \in DOMAIN targets[i].assigns : targets[i].assigns[k].trafo # n
  BY <1>3, DesertedThins
<1>5. DOMAIN targets = DOMAIN config.targets /\ targets = [i \in DOMAIN config.targets |-> targets[i]]
  OBVIOUS
<1> HIDE DEF trafos, targets
<1>6. ASSUME NEW i \in DOMAIN config.targets
      PROVE  /\ targets[i].name = config.targets[i].name /\ TargetShape(targets[i])
             /\ config.tidy => TargetRefers(config', targets[i])
             /\ config.judged /\ config.tidy => TargetFits(config', targets[i])
  <2>1. targets[i].name = config.targets[i].name /\ TargetShape(targets[i])
    BY <1>3, <1>4, ThinnedSound DEF Thinned
  <2>2. config.tidy => TargetRefers(config, targets[i])
    BY <1>4, ThinnedSound DEF Sound, Refers
  <2>3. config.judged /\ config.tidy => TargetFits(config, targets[i])
    BY <1>4, ThinnedSound DEF Sound, Judged
  <2>4. config.tidy => TargetRefers(config', targets[i])
    BY <1>1, <1>2, <1>4, <2>2 DEF TargetRefers
  <2> QED
    BY <1>1, <2>1, <2>3, <2>4, FitsInFrame
<1>7. config.judged /\ config.tidy => ItemsFit(config')
  BY <1>1, <1>2 DEF Sound, Judged, ItemsFit, Types, KnownEnums
<1>8. /\ None \notin DOMAIN config.sources
      /\ \A s \in DOMAIN config.sources : DOMAIN config.sources[s] = {"type", "valid"}
      /\ \A s \in DOMAIN trafos : DOMAIN trafos[s] = {"enums", "entries", "valid"}
      /\ TargetNames(config) \intersect DOMAIN config.sources = {}
  BY <1>2 DEF Sound, Shape, Names
<1> QED
  BY <1>1, <1>5, <1>6, <1>7, <1>8, TargetsMapped

\* addTransformation and setEnums touch no target.
LEMMA TransformationSound ==
  ASSUME Sound(config), NEW trafos,
         config' = [config EXCEPT !.trafos = trafos], DOMAIN config.trafos \subseteq DOMAIN trafos,
         \A n \in DOMAIN trafos :
            /\ DOMAIN trafos[n] = {"enums", "entries", "valid"}
            /\ \/ n \in DOMAIN config.trafos /\ trafos[n] = config.trafos[n]
               \/ trafos[n].enums \subseteq KnownEnums(config) \union {None}
  PROVE  Sound(config')
<1>1. /\ DOMAIN config' = DOMAIN config /\ config'.dd = config.dd /\ config'.targets = config.targets
      /\ config'.sources = config.sources /\ config'.tidy = config.tidy /\ config'.judged = config.judged
      /\ config'.fault = config.fault /\ config'.trafos = trafos
  BY DEF Sound, Shape
<1>2. ASSUME NEW i \in DOMAIN config.targets
      PROVE  /\ TargetShape(config.targets[i])
             /\ config.tidy => TargetRefers(config', config.targets[i])
             /\ config.judged /\ config.tidy => TargetFits(config', config.targets[i])
  <2>1. TargetShape(config.targets[i])
    BY DEF Sound, Shape
  <2>2. config.tidy => TargetRefers(config', config.targets[i])
    BY <1>1 DEF Sound, Refers, TargetRefers
  <2>3. config.judged /\ config.tidy => TargetFits(config', config.targets[i])
    BY <1>1, FitsInFrame DEF Sound, Judged
  <2> QED
    BY <2>1, <2>2, <2>3
<1>3. config.judged /\ config.tidy => ItemsFit(config')
  BY <1>1 DEF Sound, Judged, ItemsFit, Types, KnownEnums
<1>4. config.targets = [i \in DOMAIN config.targets |-> config.targets[i]]
  BY DEF Sound, Shape, IsSequence
<1>5. /\ None \notin DOMAIN config.sources
      /\ \A s \in DOMAIN config.sources : DOMAIN config.sources[s] = {"type", "valid"}
      /\ TargetNames(config) \intersect DOMAIN config.sources = {}
  BY DEF Sound, Shape, Names
<1>6. \A n \in DOMAIN trafos : DOMAIN trafos[n] = {"enums", "entries", "valid"}
  OBVIOUS
<1>7. /\ \A n \in DOMAIN config'.trafos : DOMAIN config'.trafos[n] = {"enums", "entries", "valid"}
      /\ DOMAIN config'.targets = DOMAIN config.targets
      /\ config'.targets = [i \in DOMAIN config.targets |-> config'.targets[i]]
      /\ \A i \in DOMAIN config.targets :
            /\ config'.targets[i].name = config.targets[i].name /\ TargetShape(config'.targets[i])
            /\ config.tidy => TargetRefers(config', config'.targets[i])
            /\ config.judged /\ config.tidy => TargetFits(config', config'.targets[i])
  BY <1>1, <1>2, <1>4, <1>6
<1>8. /\ None \notin DOMAIN config'.sources
      /\ \A s \in DOMAIN config'.sources : DOMAIN config'.sources[s] = {"type", "valid"}
      /\ TargetNames(config) \intersect DOMAIN config'.sources = {}
  BY <1>1, <1>5
<1> QED
  BY ZenonT(60), <1>1, <1>3, <1>7, <1>8, TargetsMapped

LEMMA AddTransformationSound ==
  ASSUME Sound(config), NEW n, NEW enums, enums \subseteq {None}, AddTransformation(n, enums)
  PROVE  Sound(config')
<1> DEFINE trafos == Joined(config.trafos, Named(n, [enums |-> enums, entries |-> "new", valid |-> TRUE]))
<1>1. config' = [config EXCEPT !.trafos = trafos] /\ n \notin DOMAIN config.trafos
  BY DEF AddTransformation
<1>2. /\ DOMAIN trafos = DOMAIN config.trafos \union {n}
      /\ \A s \in DOMAIN config.trafos : trafos[s] = config.trafos[s]
      /\ trafos[n] = [enums |-> enums, entries |-> "new", valid |-> TRUE]
  BY <1>1 DEF Joined, Named
<1> HIDE DEF trafos
<1>3. \A s \in DOMAIN config.trafos : DOMAIN config.trafos[s] = {"enums", "entries", "valid"}
  BY DEF Sound, Shape
<1>4. \A s \in DOMAIN trafos :
         /\ DOMAIN trafos[s] = {"enums", "entries", "valid"}
         /\ \/ s \in DOMAIN config.trafos /\ trafos[s] = config.trafos[s]
            \/ trafos[s].enums \subseteq KnownEnums(config) \union {None}
  BY <1>2, <1>3
<1> QED
  BY <1>1, <1>2, <1>4, TransformationSound

LEMMA SetEnumsSound ==
  ASSUME Sound(config), NEW n, NEW enums, SetEnums(n, enums)
  PROVE  Sound(config')
<1> DEFINE f == config.trafos[n]
           g == IF enums \subseteq KnownEnums(config)
                THEN [f EXCEPT !.enums = enums, !.entries = "none"]
                ELSE [enums |-> {None}, entries |-> "none", valid |-> FALSE]
           trafos == [config.trafos EXCEPT ![n] = g]
<1>1. n \in DOMAIN config.trafos /\ config' = [config EXCEPT !.trafos = trafos]
  BY DEF SetEnums, Sound, Shape
<1>2. \A s \in DOMAIN config.trafos : DOMAIN config.trafos[s] = {"enums", "entries", "valid"}
  BY DEF Sound, Shape
<1>3. DOMAIN g = {"enums", "entries", "valid"} /\ g.enums \subseteq KnownEnums(config) \union {None}
  BY <1>1, <1>2
<1> HIDE DEF g
<1>4. DOMAIN trafos = DOMAIN config.trafos /\ \A s \in DOMAIN trafos : trafos[s] = IF s = n THEN g ELSE config.trafos[s]
  OBVIOUS
<1> HIDE DEF trafos
<1>5. \A s \in DOMAIN trafos :
         /\ DOMAIN trafos[s] = {"enums", "entries", "valid"}
         /\ \/ s \in DOMAIN config.trafos /\ trafos[s] = config.trafos[s]
            \/ trafos[s].enums \subseteq KnownEnums(config) \union {None}
  BY <1>1, <1>2, <1>3, <1>4
<1> QED
  BY <1>1, <1>4, <1>5, TransformationSound

\* Items with the new name for the old one
Renamed(items, old, new) ==
  [i \in DOMAIN items |-> IF items[i].source = old THEN [items[i] EXCEPT !.source = new] ELSE items[i]]

LEMMA RenamedIs ==
  ASSUME NEW items, IsSequence(items), \A i \in DOMAIN items : "source" \in DOMAIN items[i], NEW old, NEW new
  PROVE  LET r == Renamed(items, old, new) IN
         /\ IsSequence(r) /\ DOMAIN r = DOMAIN items
         /\ \A i \in DOMAIN items :
               /\ DOMAIN r[i] = DOMAIN items[i]
               /\ r[i].source = IF items[i].source = old THEN new ELSE items[i].source
               /\ \A f \in DOMAIN items[i] \ {"source"} : r[i][f] = items[i][f]
<1> DEFINE r == Renamed(items, old, new)
<1>1. DOMAIN items = 1..Len(items) /\ Len(items) \in Nat
  BY DEF IsSequence
<1>2. /\ DOMAIN r = DOMAIN items
      /\ r = [i \in 1..Len(items) |-> r[i]]
  BY <1>1 DEF Renamed
<1>3. \A i \in DOMAIN items :
         r[i] = IF items[i].source = old THEN [items[i] EXCEPT !.source = new] ELSE items[i]
  BY DEF Renamed
<1> HIDE DEF r
<1>4. IsSequence(r)
  BY <1>1, <1>2, FunctionIs
<1>5. \A i \in DOMAIN items :
         /\ DOMAIN r[i] = DOMAIN items[i]
         /\ r[i].source = IF items[i].source = old THEN new ELSE items[i].source
         /\ \A f \in DOMAIN items[i] \ {"source"} : r[i][f] = items[i][f]
  BY <1>3
<1> QED
  BY <1>2, <1>4, <1>5 DEF r

LEMMA ModifySourceNameIs ==
  ASSUME NEW t, TargetShape(t), NEW old, NEW new, old # None, new # None
  PROVE  LET u == ModifySourceName(t, old, new) IN
         /\ DOMAIN u = DOMAIN t /\ u.name = t.name /\ u.type = t.type /\ u.valid = t.valid
         /\ u.refs = (t.refs \ {old}) \union {new}
         /\ DOMAIN u.assigns = DOMAIN t.assigns
         /\ \A k \in DOMAIN t.assigns :
               /\ u.assigns[k].to = t.assigns[k].to /\ u.assigns[k].kind = t.assigns[k].kind
               /\ u.assigns[k].from = t.assigns[k].from /\ u.assigns[k].trafo = t.assigns[k].trafo
               /\ u.assigns[k].valid = t.assigns[k].valid
               /\ u.assigns[k].source = IF t.assigns[k].source = old THEN new ELSE t.assigns[k].source
         /\ DOMAIN u.triggers = DOMAIN t.triggers
         /\ \A k \in DOMAIN t.triggers :
               /\ u.triggers[k].kind = t.triggers[k].kind /\ u.triggers[k].from = t.triggers[k].from
               /\ u.triggers[k].valid = t.triggers[k].valid
               /\ u.triggers[k].source = IF t.triggers[k].source = old THEN new ELSE t.triggers[k].source
         /\ TargetShape(u)
<1> DEFINE u == ModifySourceName(t, old, new)
           assigns == Renamed(t.assigns, old, new)
           triggers == Renamed(t.triggers, old, new)
<1>1. u = [t EXCEPT !.refs = (@ \ {old}) \union {new}, !.assigns = assigns, !.triggers = triggers]
  BY DEF ModifySourceName, Renamed
<1>2. /\ IsSequence(assigns) /\ DOMAIN assigns = DOMAIN t.assigns
      /\ \A k \in DOMAIN t.assigns :
            /\ DOMAIN assigns[k] = DOMAIN t.assigns[k]
            /\ assigns[k].source = IF t.assigns[k].source = old THEN new ELSE t.assigns[k].source
            /\ \A f \in DOMAIN t.assigns[k] \ {"source"} : assigns[k][f] = t.assigns[k][f]
  <2>1. IsSequence(t.assigns) /\ \A k \in DOMAIN t.assigns : "source" \in DOMAIN t.assigns[k]
    BY DEF TargetShape, AssignmentOK
  <2> QED
    BY <2>1, RenamedIs
<1>3. /\ IsSequence(triggers) /\ DOMAIN triggers = DOMAIN t.triggers
      /\ \A k \in DOMAIN t.triggers :
            /\ DOMAIN triggers[k] = DOMAIN t.triggers[k]
            /\ triggers[k].source = IF t.triggers[k].source = old THEN new ELSE t.triggers[k].source
            /\ \A f \in DOMAIN t.triggers[k] \ {"source"} : triggers[k][f] = t.triggers[k][f]
  <2>1. IsSequence(t.triggers) /\ \A k \in DOMAIN t.triggers : "source" \in DOMAIN t.triggers[k]
    BY DEF TargetShape, TriggerOK
  <2> QED
    BY <2>1, RenamedIs
<1> HIDE DEF assigns, triggers, u
<1>4. /\ DOMAIN u = DOMAIN t /\ u.name = t.name /\ u.type = t.type /\ u.valid = t.valid
      /\ u.refs = (t.refs \ {old}) \union {new} /\ u.assigns = assigns /\ u.triggers = triggers
  BY <1>1 DEF TargetShape
<1>5. \A k \in DOMAIN t.assigns :
         /\ assigns[k].to = t.assigns[k].to /\ assigns[k].kind = t.assigns[k].kind
         /\ assigns[k].from = t.assigns[k].from /\ assigns[k].trafo = t.assigns[k].trafo
         /\ assigns[k].valid = t.assigns[k].valid
         /\ AssignmentOK(assigns[k])
  BY <1>2 DEF TargetShape, AssignmentOK
<1>6. \A k \in DOMAIN t.triggers :
         /\ triggers[k].kind = t.triggers[k].kind /\ triggers[k].from = t.triggers[k].from
         /\ triggers[k].valid = t.triggers[k].valid
         /\ TriggerOK(triggers[k])
  BY <1>3 DEF TargetShape, TriggerOK
<1>7. ElementsOnce(assigns)
  <2>1. \A k, l \in DOMAIN t.assigns : t.assigns[k].to = t.assigns[l].to => k = l
    BY DEF TargetShape, ElementsOnce, IsInjective
  <2>2. \A k, l \in DOMAIN assigns : assigns[k].to = assigns[l].to => k = l
    BY <1>2, <1>5, <2>1
  <2> QED
    BY <2>2 DEF ElementsOnce, IsInjective
<1>8. TargetShape(u)
  BY <1>2, <1>3, <1>4, <1>5, <1>6, <1>7 DEF TargetShape
<1> QED
  BY <1>2, <1>3, <1>4, <1>5, <1>6, <1>8 DEF u

LEMMA RenameSourceSound ==
  ASSUME Sound(config), NEW old, NEW new, new # None, RenameSource(old, new)
  PROVE  Sound(config')
<1> DEFINE Follow(t) == IF old \in t.refs THEN ModifySourceName(t, old, new) ELSE t
           targets == [i \in DOMAIN config.targets |-> Follow(config.targets[i])]
           sources == Joined(Restrict(config.sources, DOMAIN config.sources \ {old}), Named(new, config.sources[old]))
<1>1. /\ DOMAIN config' = DOMAIN config /\ config'.dd = config.dd /\ config'.targets = targets
      /\ config'.trafos = config.trafos /\ config'.tidy = config.tidy /\ config'.judged = config.judged
      /\ config'.fault = config.fault /\ config'.sources = sources
  BY DEF RenameSource, Sound, Shape
<1>2. old \in DOMAIN config.sources /\ old # None /\ new \notin DOMAIN config.sources /\ new \notin TargetNames(config)
  BY DEF RenameSource, NameFree, Sound, Shape
<1>3. /\ DOMAIN sources = (DOMAIN config.sources \ {old}) \union {new}
      /\ \A s \in DOMAIN config.sources \ {old} : sources[s] = config.sources[s]
      /\ sources[new] = config.sources[old]
  BY <1>2 DEF Restrict, Joined, Named
<1>4. \A i \in DOMAIN config.targets : targets[i] = Follow(config.targets[i])
  OBVIOUS
<1>5. DOMAIN targets = DOMAIN config.targets /\ targets = [i \in DOMAIN config.targets |-> targets[i]]
  OBVIOUS
<1> HIDE DEF sources, targets
<1>6. ASSUME NEW i \in DOMAIN config.targets
      PROVE  /\ targets[i].name = config.targets[i].name /\ TargetShape(targets[i])
             /\ config.tidy => TargetRefers(config', targets[i])
             /\ config.judged /\ config.tidy => TargetFits(config', targets[i])
  <2> DEFINE t == config.targets[i]
             u == targets[i]
  <2>1. TargetShape(t) /\ (config.tidy => TargetRefers(config, t)) /\ (config.judged /\ config.tidy => TargetFits(config, t))
    BY DEF Sound, Shape, Refers, Judged
  <2>2. CASE old \notin t.refs
    <3>1. u = t
      BY <1>4, <2>2
    <3> HIDE DEF t, u
    <3>2. config.tidy => TargetRefers(config', t)
      BY <1>1, <1>3, <2>1, <2>2 DEF TargetRefers
    <3>3. config.tidy => /\ Used(t) \subseteq DOMAIN config.sources
                         /\ \A s \in Used(t) : config'.sources[s].type = config.sources[s].type
      BY <1>1, <1>3, <2>1, <2>2 DEF TargetRefers
    <3>4. config.judged /\ config.tidy => TargetFits(config', t)
      BY <1>1, <2>1, <3>3, FitsWithSources
    <3> QED
      BY <2>1, <3>1, <3>2, <3>4 DEF t, u
  <2>3. CASE old \in t.refs
    <3>1. u = ModifySourceName(t, old, new)
      BY <1>4, <2>3
    <3> HIDE DEF t, u
    <3>2. /\ DOMAIN u = DOMAIN t /\ u.name = t.name /\ u.type = t.type /\ u.valid = t.valid
          /\ u.refs = (t.refs \ {old}) \union {new}
          /\ DOMAIN u.assigns = DOMAIN t.assigns
          /\ \A k \in DOMAIN t.assigns :
                /\ u.assigns[k].to = t.assigns[k].to /\ u.assigns[k].kind = t.assigns[k].kind
                /\ u.assigns[k].from = t.assigns[k].from /\ u.assigns[k].trafo = t.assigns[k].trafo
                /\ u.assigns[k].valid = t.assigns[k].valid
                /\ u.assigns[k].source = IF t.assigns[k].source = old THEN new ELSE t.assigns[k].source
          /\ DOMAIN u.triggers = DOMAIN t.triggers
          /\ \A k \in DOMAIN t.triggers :
                /\ u.triggers[k].kind = t.triggers[k].kind /\ u.triggers[k].from = t.triggers[k].from
                /\ u.triggers[k].valid = t.triggers[k].valid
                /\ u.triggers[k].source = IF t.triggers[k].source = old THEN new ELSE t.triggers[k].source
          /\ TargetShape(u)
      BY <1>2, <2>1, <3>1, ModifySourceNameIs
    <3>3. ASSUME config.tidy PROVE TargetRefers(config', u)
      <4>1. old \in Sources(t.assigns) \union Sources(t.triggers)
        BY <2>1, <2>3, <3>3 DEF TargetRefers, Used
      <4>2. \A s : s \in Sources(u.assigns) => (s \in Sources(t.assigns) /\ s # old) \/ (s = new /\ old \in Sources(t.assigns))
        BY <1>2, <3>2 DEF Sources
      <4>3. \A s : (s \in Sources(t.assigns) /\ s # old) \/ (s = new /\ old \in Sources(t.assigns)) => s \in Sources(u.assigns)
        BY <1>2, <3>2 DEF Sources
      <4>4. \A s : s \in Sources(u.triggers) => (s \in Sources(t.triggers) /\ s # old) \/ (s = new /\ old \in Sources(t.triggers))
        BY <1>2, <3>2 DEF Sources
      <4>5. \A s : (s \in Sources(t.triggers) /\ s # old) \/ (s = new /\ old \in Sources(t.triggers)) => s \in Sources(u.triggers)
        BY <1>2, <3>2 DEF Sources
      <4>6. Used(u) = (Used(t) \ {old}) \union {new}
        BY <4>1, <4>2, <4>3, <4>4, <4>5 DEF Used
      <4>7. u.refs = Used(u) /\ u.refs \subseteq DOMAIN config'.sources
        BY <1>1, <1>3, <2>1, <3>2, <3>3, <4>6 DEF TargetRefers
      <4>8. \A k \in DOMAIN u.assigns : u.assigns[k].trafo \in DOMAIN config'.trafos \union {None}
        BY <1>1, <2>1, <3>2, <3>3 DEF TargetRefers
      <4> QED
        BY <4>7, <4>8 DEF TargetRefers
    <3>4. ASSUME config.judged, config.tidy PROVE TargetFits(config', u)
      <4> SUFFICES ASSUME u.valid PROVE TargetFits(config', u)
        BY DEF TargetFits
      <4>1. Types(config') = Types(config)
        BY <1>1 DEF Types
      <4>2. t.type \in DOMAIN Types(config) /\ t.valid
        BY <2>1, <3>2, <3>4 DEF TargetFits
      <4>3. ASSUME NEW k \in DOMAIN t.assigns, t.assigns[k].valid
            PROVE  AssignmentTypeOK(config', t.type, u.assigns[k])
        <5>1. AssignmentTypeOK(config, t.type, t.assigns[k])
          BY <2>1, <3>4, <4>2, <4>3 DEF TargetFits
        <5>2. t.assigns[k].kind = "source" => t.assigns[k].source \in DOMAIN config.sources
          BY <2>1, <3>4 DEF TargetShape, AssignmentOK, TargetRefers, Used, Sources
        <5>3. t.assigns[k].kind = "source" =>
                 config'.sources[u.assigns[k].source].type = config.sources[t.assigns[k].source].type
          BY <1>1, <1>3, <3>2, <5>2
        <5> QED
          BY <1>1, <3>2, <5>1, <5>3, AssignmentFitsAlike
      <4>4. ASSUME NEW k \in DOMAIN t.triggers, t.triggers[k].valid
            PROVE  TriggerTypeOK(config', u.triggers[k])
        <5>1. TriggerTypeOK(config, t.triggers[k])
          BY <2>1, <3>4, <4>2, <4>4 DEF TargetFits
        <5>2. t.triggers[k].kind = "data" => t.triggers[k].source \in DOMAIN config.sources
          BY <2>1, <3>4 DEF TargetShape, TriggerOK, TargetRefers, Used, Sources
        <5>3. t.triggers[k].kind = "data" =>
                 config'.sources[u.triggers[k].source].type = config.sources[t.triggers[k].source].type
          BY <1>1, <1>3, <3>2, <5>2
        <5> QED
          BY <1>1, <3>2, <5>1, <5>3, TriggerFitsAlike
      <4>5. \A k \in DOMAIN t.assigns : t.assigns[k].valid => ~Covered(u.assigns, u.assigns[k])
        BY <2>1, <3>2, <3>4, <4>2 DEF TargetFits, Covered
      <4> QED
        BY <3>2, <4>1, <4>2, <4>3, <4>4, <4>5 DEF TargetFits
    <3> QED
      BY <3>2, <3>3, <3>4 DEF t, u
  <2> QED
    BY <2>2, <2>3
<1>7. config.judged /\ config.tidy => ItemsFit(config')
  <2> SUFFICES ASSUME config.judged, config.tidy PROVE ItemsFit(config')
    OBVIOUS
  <2>1. Types(config') = Types(config) /\ KnownEnums(config') = KnownEnums(config)
    BY <1>1 DEF Types, KnownEnums
  <2> QED
    BY <1>1, <1>2, <1>3, <2>1 DEF Sound, Judged, ItemsFit
<1>8. /\ None \notin DOMAIN sources
      /\ \A s \in DOMAIN sources : DOMAIN sources[s] = {"type", "valid"}
      /\ \A s \in DOMAIN config.trafos : DOMAIN config.trafos[s] = {"enums", "entries", "valid"}
      /\ TargetNames(config) \intersect DOMAIN sources = {}
  BY <1>2, <1>3 DEF Sound, Shape, Names
<1> QED
  BY <1>1, <1>5, <1>6, <1>7, <1>8, TargetsMapped

-----------------------------------------------------------------------------
(* Documents *)

LEMMA ParsedIs ==
  ASSUME NEW doc, DocumentOK(doc), config.dd \in DOMAIN world.dds \union {None}
  PROVE  LET c == Parsed(doc) IN
         /\ Shape(c) /\ Names(c) /\ c.fault = "none" /\ c.tidy /\ ~c.judged
         /\ \A i \in DOMAIN c.targets : c.targets[i].refs = Used(c.targets[i]) \intersect DOMAIN c.sources
<1> DEFINE c == Parsed(doc)
           sources == [n \in DOMAIN doc.sources |-> [type |-> doc.sources[n], valid |-> TRUE]]
           trafos == [n \in DOMAIN doc.trafos |-> [enums |-> doc.trafos[n], entries |-> "read", valid |-> TRUE]]
           targets == [i \in DOMAIN doc.targets |->
              LET t == doc.targets[i] IN
              [name |-> t.name, type |-> t.type, valid |-> TRUE, assigns |-> t.assigns,
               triggers |-> t.triggers, refs |-> Used(t) \intersect DOMAIN doc.sources]]
<1>1. /\ DOMAIN c = {"dd", "sources", "targets", "trafos", "fault", "judged", "tidy"}
      /\ c.dd = config.dd /\ c.sources = sources /\ c.trafos = trafos /\ c.targets = targets
      /\ c.fault = "none" /\ c.tidy /\ ~c.judged
  BY DEF Parsed, Empty
<1>2. DOMAIN doc.targets = 1..Len(doc.targets) /\ Len(doc.targets) \in Nat
  BY DEF DocumentOK, IsSequence
<1>3. DOMAIN targets = DOMAIN doc.targets /\ targets = [i \in 1..Len(doc.targets) |-> targets[i]]
  BY <1>2
<1>4. \A i \in DOMAIN doc.targets :
         /\ DOMAIN targets[i] = {"name", "type", "valid", "assigns", "triggers", "refs"}
         /\ targets[i].name = doc.targets[i].name
         /\ targets[i].assigns = doc.targets[i].assigns /\ targets[i].triggers = doc.targets[i].triggers
         /\ targets[i].refs = Used(doc.targets[i]) \intersect DOMAIN doc.sources
  OBVIOUS
<1>5. /\ DOMAIN sources = DOMAIN doc.sources /\ \A n \in DOMAIN sources : DOMAIN sources[n] = {"type", "valid"}
      /\ \A n \in DOMAIN trafos : DOMAIN trafos[n] = {"enums", "entries", "valid"}
  OBVIOUS
<1> HIDE DEF c, sources, trafos, targets
<1>6. IsSequence(targets)
  BY <1>2, <1>3, FunctionIs
<1>7. Shape(c)
  <2>1. \A i \in DOMAIN targets : TargetShape(targets[i])
    BY <1>3, <1>4 DEF DocumentOK, TargetShape
  <2>2. None \notin DOMAIN sources
    BY <1>5 DEF DocumentOK
  <2> QED
    BY <1>1, <1>5, <1>6, <2>1, <2>2 DEF Shape
<1>8. Names(c)
  <2>1. \A i, j \in DOMAIN doc.targets : doc.targets[i].name = doc.targets[j].name => i = j
    BY NamesOnceIs DEF DocumentOK
  <2>2. \A i, j \in DOMAIN targets : targets[i].name = targets[j].name => i = j
    BY <1>3, <1>4, <2>1
  <2>3. NamesOnce(targets)
    BY <2>2, NamesOnceIs
  <2>4. \A i \in DOMAIN targets : targets[i].name \notin DOMAIN sources
    BY <1>3, <1>4, <1>5 DEF DocumentOK
  <2>5. TargetNames(c) \intersect DOMAIN c.sources = {}
    BY <1>1, <2>4 DEF TargetNames
  <2> QED
    BY <1>1, <2>3, <2>5 DEF Names
<1>9. \A i \in DOMAIN c.targets : c.targets[i].refs = Used(c.targets[i]) \intersect DOMAIN c.sources
  BY <1>1, <1>3, <1>4, <1>5 DEF Used
<1> QED
  BY <1>1, <1>7, <1>8, <1>9 DEF c

LEMMA AcceptSound ==
  ASSUME NEW c, Shape(c), Names(c), Refers(c), ~c.judged, c.fault = "none", NEW mode, Accept(c, mode)
  PROVE  Sound(config')
<1>1. Sound(c)
  BY DEF Sound, Judged
<1>2. Sound(CheckDDL(c))
  BY CheckDDLSound
<1>3. config' = c \/ config' = CheckDDL(c)
  BY DEF Accept
<1> QED
  BY <1>1, <1>2, <1>3

\* What checkMapping finds
LEMMA CheckMappingFinds ==
  ASSUME NEW c, Shape(c), CheckMapping(c), NEW i \in DOMAIN c.targets
  PROVE  /\ Used(c.targets[i]) \subseteq DOMAIN c.sources
         /\ \A k \in DOMAIN c.targets[i].assigns : c.targets[i].assigns[k].trafo \in DOMAIN c.trafos \union {None}
<1> DEFINE t == c.targets[i]
<1>1. TargetShape(t)
  BY DEF Shape
<1>2. /\ \A k \in DOMAIN t.triggers : TriggerRefersOK(c, t.triggers[k])
      /\ \A k \in DOMAIN t.assigns : AssignmentRefersOK(c, t.assigns[k])
  BY DEF CheckMapping
<1> HIDE DEF t
<1>3. Sources(t.assigns) \subseteq DOMAIN c.sources
  BY <1>2 DEF Sources, AssignmentRefersOK
<1>4. Sources(t.triggers) \subseteq DOMAIN c.sources
  BY <1>1, <1>2 DEF Sources, TriggerRefersOK, TargetShape, TriggerOK
<1>5. \A k \in DOMAIN t.assigns : t.assigns[k].trafo \in DOMAIN c.trafos \union {None}
  BY <1>2 DEF AssignmentRefersOK
<1> QED
  BY <1>3, <1>4, <1>5 DEF Used, t

LEMMA LoadSound ==
  ASSUME Sound(config), NEW doc, DocumentOK(doc), NEW mode, Load(doc, mode)
  PROVE  Sound(config')
<1> DEFINE c == Parsed(doc)
<1>1. /\ Shape(c) /\ Names(c) /\ c.fault = "none" /\ c.tidy /\ ~c.judged
      /\ \A i \in DOMAIN c.targets : c.targets[i].refs = Used(c.targets[i]) \intersect DOMAIN c.sources
  BY ParsedIs DEF Sound, Shape
<1>2. Accept(c, mode)
  BY DEF Load
<1> HIDE DEF c
<1>3. CheckMapping(c)
  BY <1>2 DEF Accept
<1>4. Refers(c)
  BY <1>1, <1>3, CheckMappingFinds DEF Refers, TargetRefers
<1> QED
  BY <1>1, <1>2, <1>4, AcceptSound

LEMMA LoadMergingSound ==
  ASSUME Sound(config), config.fault = "none", NEW doc, DocumentOK(doc), NEW mode, LoadMerging(doc, mode)
  PROVE  Sound(config')
<1> DEFINE other == Parsed(doc)
           c == Merge(config, other)
           added == Without(other.targets, "name", TargetNames(config))
           n == Len(config.targets)
<1>1. /\ Shape(other) /\ Names(other)
      /\ \A i \in DOMAIN other.targets : other.targets[i].refs = Used(other.targets[i]) \intersect DOMAIN other.sources
  BY ParsedIs DEF Sound, Shape
<1>2. Accept(c, mode) /\ ~Conflict(config, other)
  BY DEF LoadMerging
<1> HIDE DEF other
<1>3. /\ DOMAIN c = DOMAIN config /\ c.dd = config.dd /\ c.fault = config.fault /\ ~c.judged
      /\ c.sources = Joined(config.sources, other.sources) /\ c.trafos = Joined(config.trafos, other.trafos)
      /\ c.targets = config.targets \o added
      /\ c.tidy = (config.tidy /\ \A i \in DOMAIN added : added[i].refs = Used(added[i]))
  BY DEF Merge, Sound, Shape
<1> HIDE DEF c
<1>4. Drawn(added, other.targets) /\ \A k \in DOMAIN added : added[k].name \notin TargetNames(config)
  BY <1>1, WithoutDraws DEF Shape
<1> HIDE DEF added
<1>5. PICK g \in [DOMAIN added -> DOMAIN other.targets] :
         IsInjective(g) /\ \A k \in DOMAIN added : added[k] = other.targets[g[k]]
  BY <1>4 DEF Drawn
<1>6. /\ IsSequence(config.targets) /\ IsSequence(added) /\ n \in Nat /\ Len(added) \in Nat
      /\ DOMAIN config.targets = 1..n /\ DOMAIN added = 1..Len(added)
  BY <1>4 DEF Sound, Shape, Drawn, IsSequence
<1>7. /\ IsSequence(c.targets) /\ DOMAIN c.targets = 1..(n + Len(added))
      /\ \A i \in 1..(n + Len(added)) : c.targets[i] = IF i <= n THEN config.targets[i] ELSE added[i - n]
  BY <1>3, <1>6, UnionIs DEF IsSequence
<1> HIDE DEF n
<1>8. \A i \in DOMAIN c.targets : \/ i \in DOMAIN config.targets /\ c.targets[i] = config.targets[i] /\ i <= n
                                  \/ i > n /\ i - n \in DOMAIN added /\ c.targets[i] = added[i - n]
  BY <1>6, <1>7
<1>9. /\ DOMAIN c.sources = DOMAIN config.sources \union DOMAIN other.sources
      /\ \A s \in DOMAIN c.sources : \/ s \in DOMAIN config.sources /\ c.sources[s] = config.sources[s]
                                     \/ s \in DOMAIN other.sources /\ c.sources[s] = other.sources[s]
      /\ \A s \in DOMAIN c.trafos : \/ s \in DOMAIN config.trafos /\ c.trafos[s] = config.trafos[s]
                                    \/ s \in DOMAIN other.trafos /\ c.trafos[s] = other.trafos[s]
  BY <1>3 DEF Joined
<1>10. \A k \in DOMAIN added : g[k] \in DOMAIN other.targets
  BY <1>5
<1>11. Shape(c)
  <2>1. \A i \in DOMAIN config.targets : TargetShape(config.targets[i])
    BY DEF Sound, Shape
  <2>2. \A k \in DOMAIN added : TargetShape(added[k])
    BY <1>1, <1>5, <1>10 DEF Shape
  <2>3. \A i \in DOMAIN c.targets : TargetShape(c.targets[i])
    BY <1>8, <2>1, <2>2
  <2>4. None \notin DOMAIN c.sources /\ \A s \in DOMAIN c.sources : DOMAIN c.sources[s] = {"type", "valid"}
    BY <1>1, <1>9 DEF Sound, Shape
  <2>5. \A s \in DOMAIN c.trafos : DOMAIN c.trafos[s] = {"enums", "entries", "valid"}
    BY <1>1, <1>9 DEF Sound, Shape
  <2> QED
    BY <1>3, <1>7, <2>3, <2>4, <2>5 DEF Sound, Shape
<1>12. Names(c)
  <2>1. \A i, j \in DOMAIN config.targets : config.targets[i].name = config.targets[j].name => i = j
    BY NamesOnceIs DEF Sound, Names
  <2>2. \A k, l \in DOMAIN added : added[k].name = added[l].name => k = l
    <3>1. \A i, j \in DOMAIN other.targets : other.targets[i].name = other.targets[j].name => i = j
      BY <1>1, NamesOnceIs DEF Names
    <3> QED
      BY <1>5, <1>10, <3>1 DEF IsInjective
  <2>3. \A i \in DOMAIN config.targets, k \in DOMAIN added : config.targets[i].name # added[k].name
    BY <1>4 DEF TargetNames
  <2>4. \A i, j \in DOMAIN c.targets : c.targets[i].name = c.targets[j].name => i = j
    <3> SUFFICES ASSUME NEW i \in DOMAIN c.targets, NEW j \in DOMAIN c.targets, c.targets[i].name = c.targets[j].name
                 PROVE  i = j
      OBVIOUS
    <3>0. \A k \in DOMAIN c.targets :
             /\ k \in Nat
             /\ k <= n => k \in DOMAIN config.targets /\ c.targets[k] = config.targets[k]
             /\ ~(k <= n) => k - n \in DOMAIN added /\ c.targets[k] = added[k - n]
      BY <1>6, <1>7
    <3>1. CASE i <= n /\ j <= n
      BY <2>1, <3>0, <3>1
    <3>2. CASE ~(i <= n) /\ ~(j <= n)
      <4>1. i - n = j - n
        BY <2>2, <3>0, <3>2
      <4> QED
        BY <1>6, <3>0, <4>1
    <3>3. CASE i <= n /\ ~(j <= n)
      BY <2>3, <3>0, <3>3
    <3>4. CASE ~(i <= n) /\ j <= n
      BY <2>3, <3>0, <3>4
    <3> QED
      BY <3>1, <3>2, <3>3, <3>4
  <2>5. ASSUME NEW i \in DOMAIN c.targets PROVE c.targets[i].name \notin DOMAIN c.sources
    <3>1. CASE i \in DOMAIN config.targets /\ c.targets[i] = config.targets[i]
      <4>1. c.targets[i].name \in TargetNames(config)
        BY <3>1 DEF TargetNames
      <4>2. c.targets[i].name \notin DOMAIN config.sources
        BY <4>1 DEF Sound, Names
      <4>3. \A s \in DOMAIN other.sources : s \in DOMAIN config.sources \/ s \notin TargetNames(config)
        BY <1>2 DEF Conflict
      <4> QED
        BY <1>9, <4>1, <4>2, <4>3
    <3>2. CASE i > n /\ i - n \in DOMAIN added /\ c.targets[i] = added[i - n]
      <4>1. g[i - n] \in DOMAIN other.targets /\ c.targets[i].name = other.targets[g[i - n]].name
        BY <1>5, <1>10, <3>2
      <4>2. c.targets[i].name \notin DOMAIN config.sources
        BY <1>2, <4>1 DEF Conflict
      <4>3. c.targets[i].name \notin DOMAIN other.sources
        BY <1>1, <4>1 DEF Names, TargetNames
      <4> QED
        BY <1>9, <4>2, <4>3
    <3> QED
      BY <1>8, <3>1, <3>2
  <2> QED
    BY <2>4, <2>5, NamesOnceIs DEF Names, TargetNames
<1>13. Refers(c)
  <2> SUFFICES ASSUME c.tidy, NEW i \in DOMAIN c.targets PROVE TargetRefers(c, c.targets[i])
    BY <1>3 DEF Refers
  <2>1. CheckMapping(c)
    BY <1>2 DEF Accept
  <2>2. c.targets[i].refs = Used(c.targets[i])
    BY <1>3, <1>8 DEF Sound, Refers, TargetRefers
  <2> QED
    BY <1>11, <2>1, <2>2, CheckMappingFinds DEF TargetRefers
<1> QED
  BY <1>2, <1>3, <1>11, <1>12, <1>13, AcceptSound

-----------------------------------------------------------------------------
(* The invariant *)

LEMMA InitIInv == ASSUME Init PROVE IInv
<1>1. world \in Worlds /\ config = [Empty EXCEPT !.dd = world.dd]
  BY DEF Init
<1>2. world.dd \in DOMAIN world.dds \union {None}
  BY <1>1, WorldsAssumption
<1> QED
  BY <1>1, <1>2, EmptySound DEF IInv

\* Calls with names, items and documents of the world
LEMMA NextSound ==
  ASSUME IInv, Next
  PROVE  Sound(config')
<1> USE DEF IInv
<1>1. /\ world.unchecked \subseteq DOMAIN world.dds \union {None}
      /\ None \notin world.names
      /\ \A a \in world.assigns : AssignmentOK(a)
      /\ \A trigger \in world.triggers : TriggerOK(trigger)
      /\ \A c \in world.trafos : c[2] \subseteq {None}
      /\ \A doc \in world.docs : DocumentOK(doc)
  BY WorldsAssumption
<1>2. config.fault = "none" /\ world' = world
  BY DEF Next
<1>3. CASE \E n \in world.names, type \in world.types : AddSource(n, type) \/ SetSourceType(n, type)
  BY <1>1, <1>2, <1>3, AddSourceSound, SetSourceTypeSound
<1>4. CASE \/ \E n \in world.names \union {None} : RemoveSource(n)
           \/ \E n, new \in world.names : RenameSource(n, new)
  BY <1>1, <1>4, RemoveSourceSound, RenameSourceSound
<1>5. CASE \E n \in world.targets, type \in world.types : AddTarget(n, type)
  BY <1>5, AddTargetSound
<1>6. CASE \E i \in DOMAIN config.targets :
              \/ RemoveTarget(i)
              \/ \E new \in world.targets : RenameTarget(i, new)
              \/ \E type \in world.types : SetTargetType(i, type)
  BY <1>2, <1>6, RemoveTargetSound, RenameTargetSound, SetTargetTypeSound
<1>7. CASE \E i \in DOMAIN config.targets :
              \/ \E a \in world.assigns : AddAssignment(i, a)
              \/ \E k \in DOMAIN config.targets[i].assigns : RemoveAssignment(i, k)
  BY <1>1, <1>2, <1>7, AddAssignmentSound, RemoveAssignmentSound
<1>8. CASE \E i \in DOMAIN config.targets :
              \/ \E trigger \in world.triggers : AddTrigger(i, trigger)
              \/ \E k \in DOMAIN config.targets[i].triggers :
                    RemoveTrigger(i, k) \/ \E n \in world.names : SetVariable(i, k, n)
  BY <1>1, <1>8, AddTriggerSound, RemoveTriggerSound, SetVariableSound
<1>9. CASE \E c \in world.trafos :
              AddTransformation(c[1], c[2]) \/ SetEnums(c[1], c[3]) \/ RemoveTransformation(c[1])
  BY <1>1, <1>9, AddTransformationSound, SetEnumsSound, RemoveTransformationSound
<1>10. CASE \E d \in DOMAIN world.dds \union {None} : SetDD(d) \/ ModifyDD(d)
  BY <1>2, <1>10, SetDDSound, ModifyDDSound
<1>11. CASE \E d \in world.unchecked : SetDDWithoutConsistency(d)
  BY <1>1, <1>11, SetDDWithoutConsistencySound
<1>12. CASE \E doc \in world.docs, mode \in world.modes : Load(doc, mode) \/ LoadMerging(doc, mode)
  BY <1>1, <1>2, <1>12, LoadSound, LoadMergingSound
<1>13. CASE WriteToDOM
  BY <1>2, <1>13, WriteToDOMSound
<1>14. CASE config' = Empty
  BY <1>14, EmptySound
<1> HIDE DEF IInv
<1> QED
  BY <1>3, <1>4, <1>5, <1>6, <1>7, <1>8, <1>9, <1>10, <1>11, <1>12, <1>13, <1>14 DEF Next

\* The data definitions are those of the world, which stays what it is.
LEMMA SoundNext ==
  ASSUME Sound(config'), world' = world
  PROVE  Sound(config)'
<1>1. Types(config)' = Types(config') /\ KnownEnums(config)' = KnownEnums(config')
  BY DEF Types, KnownEnums
<1>2. Shape(config)'
  BY DEF Sound, Shape
<1>3. Names(config)'
  BY DEF Sound, Names
<1>4. Refers(config)'
  BY DEF Sound, Refers
<1>5. Judged(config)'
  <2>1. \A t : TargetFits(config, t)' <=> TargetFits(config', t)
    BY <1>1 DEF TargetFits, AssignmentTypeOK, TriggerTypeOK, Given, Found
  <2>2. ItemsFit(config)' <=> ItemsFit(config')
    BY <1>1 DEF ItemsFit
  <2> QED
    BY <2>1, <2>2 DEF Sound, Judged
<1> QED
  BY <1>2, <1>3, <1>4, <1>5 DEF Sound

LEMMA NextIInv == ASSUME IInv, [Next]_vars PROVE IInv'
<1>1. CASE Next
  <2>1. Sound(config') /\ world' = world
    BY <1>1, NextSound DEF Next
  <2> QED
    BY <2>1, SoundNext DEF IInv
<1>2. CASE UNCHANGED vars
  <2>1. Sound(config') /\ world' = world
    BY <1>2 DEF vars, IInv
  <2> QED
    BY <2>1, SoundNext DEF IInv
<1> QED
  BY <1>1, <1>2

\* The inductive invariant holds whatever the client starts from and may do.
THEOREM Invariance == Spec => []IInv
  BY InitIInv, NextIInv, PTL DEF Spec

\* TypeOK: a signal has one name, and an element of a target one assignment,
\* whatever was added, renamed, read and merged.
THEOREM Typing == Spec => []TypeOK
<1>1. IInv => TypeOK
  BY IInvImplies
<1> QED
  BY <1>1, Invariance, PTL

\* ReferencesMatch: getReferencedSources tells what a target uses, and a check
\* finds every source that it looks up.
THEOREM References == Spec => []ReferencesMatch
<1>1. IInv => ReferencesMatch
  BY IInvImplies
<1> QED
  BY <1>1, Invariance, PTL

\* ValidFits: what is flagged valid fits the data definition, and
\* addAssignment dereferences no type that is not there.
THEOREM Validity == Spec => []ValidFits
<1>1. IInv => ValidFits
  BY IInvImplies
<1> QED
  BY <1>1, Invariance, PTL
=============================================================================
