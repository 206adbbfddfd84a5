------------------------- MODULE StructLayoutProofs -------------------------
(***************************************************************************)
(* Deserialized elements never overlap, in any model, after any changes    *)
(* and however much of the layout was recalculated for each; and serialized *)
(* elements that lie one behind the other stay so when some are added at   *)
(* the end, popped or removed.                                             *)
(***************************************************************************)
EXTENDS StructLayout, SequenceTheorems, FiniteSetTheorems, TLAPS

TypeInfos == [bits : Nat, bytes : Nat, align : Nat, aligned : Nat, dynamic : BOOLEAN]
Infos == ElementInfos \union {None}
Names == DOMAIN world.types
Elem == Elements(Names, Infos)

\* An element has its place: positions unless it comes after a dynamic one.
Place(e) == /\ e.info \in ElementInfos
            /\ e.info.after <=> e.info.pos = None
            /\ e.info.after <=> e.info.bytePos = None
\* The one at j is behind all static ones before it.
WellAt(elems, j) ==
    LET f == elems[j] IN
    /\ Place(f)
    /\ f.info.after => \E i \in 1 .. j - 1 : elems[i].info.dynamic
    /\ \A i \in 1 .. j - 1 :
          IsStatic(elems[i]) /\ ~f.info.after
          => elems[i].info.pos + elems[i].info.size <= f.info.pos
WellPlaced(elems) == \A j \in 1 .. Len(elems) : WellAt(elems, j)
Undynamic(elems) == \A j \in 1 .. Len(elems) : ~elems[j].info.dynamic

\* The model with what is known of it, each struct or not yet calculated
Known(t) ==
    /\ DOMAIN t = {"types", "info", "users", "file"}
    /\ DOMAIN t.types = Names /\ ModelOK(t.types, Infos)
    /\ \A n \in Names : t.types[n].kind = world.types[n].kind
    /\ t.info \in [Names -> TypeInfos] /\ DOMAIN t.users = Names /\ t.file \in Nat

LaidOut(t, s) ==
    /\ WellPlaced(t.types[s].elems)
    /\ ~t.info[s].dynamic =>
          \A j \in 1 .. Len(t.types[s].elems) :
             LET f == t.types[s].elems[j] IN
             IsStatic(f) /\ f.info.pos + f.info.size <= t.info[s].bytes

IInv == world \in Worlds /\ Known(dl) /\ \A s \in Structs : LaidOut(dl, s)

-----------------------------------------------------------------------------
(* Numbers *)

LEMMA Quotient ==
  ASSUME NEW n \in Nat, NEW a \in Nat \ {0}
  PROVE  (n \div a) \in Nat /\ n < (n \div a) * a + a
  BY SMT

LEMMA AlignedUp ==
  ASSUME NEW size \in Nat, NEW alignment \in Nat
  PROVE  /\ CalculateAlignedSize(size, alignment) \in Nat
         /\ CalculateAlignedSize(size, alignment) >= size
<1> DEFINE a == AtLeastOne(alignment)
<1>1. a \in Nat \ {0}
  BY DEF AtLeastOne
<1>2. CalculateAlignedSize(size, alignment) = ((size + a - 1) \div a) * a
  BY DEF CalculateAlignedSize
<1> HIDE DEF a
<1>3. size + a - 1 \in Nat
  BY <1>1
<1>4. /\ (size + a - 1) \div a \in Nat
      /\ size + a - 1 < ((size + a - 1) \div a) * a + a
  BY <1>1, <1>3, Quotient
<1> QED
  BY <1>1, <1>2, <1>4

LEMMA ValueIs ==
  ASSUME NEW opt \in OptionalNat
  PROVE  Value(opt) \in Nat /\ (opt # None => opt \in Nat)
  BY DEF OptionalNat, Value

LEMMA DataTypeInfoIs ==
  ASSUME NEW bits \in Nat, NEW alignment \in OptionalNat
  PROVE  DataTypeInfo(bits, alignment) \in TypeInfos
<1> DEFINE bytes == (bits + 7) \div 8
           align == IF alignment = None THEN bytes ELSE alignment
<1>1. bytes \in Nat
  BY Quotient
<1>2. align \in Nat
  BY <1>1 DEF OptionalNat
<1>3. CalculateAlignedSize(bytes, align) \in Nat
  BY <1>1, <1>2, AlignedUp
<1> QED
  BY <1>1, <1>2, <1>3 DEF DataTypeInfo, TypeInfos

-----------------------------------------------------------------------------
(* One element *)

\* What the place of an element may be calculated from
Before(prev) == prev = << >> \/ \E p \in Elem : prev = <<p>> /\ Place(p)

LEMMA ElemIs ==
  ASSUME NEW e
  PROVE  e \in Elem <=> /\ DOMAIN e = {"type", "array", "numBits", "align", "bytePos", "bitPos", "info"}
                        /\ e = [f \in DOMAIN e |-> e[f]]
                        /\ e.type \in Names /\ e.array \in Arrays /\ e.numBits \in OptionalNat
                        /\ e.align \in OptionalNat /\ e.bytePos \in OptionalNat
                        /\ e.bitPos \in OptionalNat /\ e.info \in Infos
  BY DEF Elem, Elements

LEMMA BehindIs ==
  ASSUME NEW p \in Elem, Place(p), ~p.info.after, NEW bitPos
  PROVE  /\ Behind(p, bitPos).byte \in Nat /\ Behind(p, bitPos).bit \in OptionalNat
         /\ Behind(p, bitPos).reset
<1> DEFINE end == p.info.bytePos * 8 + Value(p.bitPos) + p.info.bitSize
<1>1. end \in Nat
  <2>1. p.info.bytePos \in Nat /\ p.info.bitSize \in Nat /\ p.bitPos \in OptionalNat
    BY ElemIs DEF Place, ElementInfos, OptionalNat
  <2>2. Value(p.bitPos) \in Nat
    BY <2>1, ValueIs
  <2> QED
    BY <2>1, <2>2
<1>2. end \div 8 \in Nat /\ end % 8 \in Nat /\ (end + 7) \div 8 \in Nat
  BY <1>1, Quotient
<1> HIDE DEF end
<1> QED
  BY <1>2 DEF Behind, end, OptionalNat

LEMMA SerializedPosIs ==
  ASSUME NEW e \in Elem, NEW prev, Before(prev)
  PROVE  LET pos == CalculateSerializedPos(e, prev) IN
         /\ pos.byte \in OptionalNat /\ pos.bit \in OptionalNat /\ pos.reset \in BOOLEAN
         /\ pos.byte = None <=> IsAfterDynamic(prev)
<1>1. e.bytePos \in OptionalNat /\ e.bitPos \in OptionalNat
  BY ElemIs
<1>2. e.bytePos # None => e.bytePos \in Nat /\ Value(e.bitPos) \in Nat
  BY <1>1, ValueIs
<1>3. CASE IsAfterDynamic(prev)
  BY <1>3 DEF CalculateSerializedPos, OptionalNat
<1>4. CASE ~IsAfterDynamic(prev) /\ e.bytePos # None
  BY <1>2, <1>4, NoneAssumption DEF CalculateSerializedPos, OptionalNat
<1>5. CASE ~IsAfterDynamic(prev) /\ e.bytePos = None /\ prev = << >>
  BY <1>5, NoneAssumption DEF CalculateSerializedPos, OptionalNat
<1>6. CASE ~IsAfterDynamic(prev) /\ e.bytePos = None /\ prev # << >>
  <2>1. PICK p \in Elem : prev = <<p>> /\ Place(p)
    BY <1>6 DEF Before
  <2>2. ~p.info.after
    BY <1>6, <2>1 DEF IsAfterDynamic
  <2>3. CalculateSerializedPos(e, prev) = Behind(p, e.bitPos)
    BY <1>6, <2>1 DEF CalculateSerializedPos
  <2> QED
    BY <1>6, <2>1, <2>2, <2>3, BehindIs, NoneAssumption DEF OptionalNat
<1> QED
  BY <1>3, <1>4, <1>5, <1>6

LEMMA DeserializedPosIs ==
  ASSUME NEW e \in Elem, NEW type \in TypeInfos, NEW prev, Before(prev)
  PROVE  LET pos == CalculateDeserializedPos(e, type, prev) IN
         /\ pos \in OptionalNat
         /\ pos = None <=> IsAfterDynamic(prev)
         /\ ~IsAfterDynamic(prev) /\ prev # << >> => prev[1].info.pos + prev[1].info.size <= pos
<1>1. CASE IsAfterDynamic(prev)
  BY <1>1 DEF CalculateDeserializedPos, OptionalNat
<1>2. CASE ~IsAfterDynamic(prev) /\ prev = << >>
  BY <1>2, NoneAssumption DEF CalculateDeserializedPos, OptionalNat
<1>3. CASE ~IsAfterDynamic(prev) /\ prev # << >>
  <2>1. PICK p \in Elem : prev = <<p>> /\ Place(p)
    BY <1>3 DEF Before
  <2>2. ~p.info.after
    BY <1>3, <2>1 DEF IsAfterDynamic
  <2>3. p.info.pos \in Nat /\ p.info.size \in Nat
    BY <2>1, <2>2 DEF Place, ElementInfos, OptionalNat
  <2> DEFINE alignment == IF e.align = None THEN type.align ELSE e.align
  <2>4. alignment \in Nat
    BY ElemIs DEF TypeInfos, OptionalNat
  <2>5. CalculateDeserializedPos(e, type, prev)
        = CalculateAlignedSize(p.info.pos + p.info.size, alignment)
    BY <1>3, <2>1 DEF CalculateDeserializedPos
  <2> HIDE DEF alignment
  <2>6. p.info.pos + p.info.size \in Nat
    BY <2>3
  <2>7. /\ CalculateAlignedSize(p.info.pos + p.info.size, alignment) \in Nat
        /\ CalculateAlignedSize(p.info.pos + p.info.size, alignment) >= p.info.pos + p.info.size
    BY <2>4, <2>6, AlignedUp
  <2>8. prev[1] = p
    BY <2>1
  <2> QED
    BY <1>3, <2>5, <2>6, <2>7, <2>8, NoneAssumption DEF OptionalNat
<1> QED
  BY <1>1, <1>2, <1>3

LEMMA SizesAre ==
  ASSUME NEW e \in Elem, NEW type \in TypeInfos, NEW version \in Nat
  PROVE  /\ CalculateSerializedBitSize(e, type.bits) \in Nat
         /\ CalculateDeserializedSize(e, type, version) \in Nat
<1>1. AtLeastOne(e.array.size) \in Nat \ {0}
  BY ElemIs DEF Arrays, AtLeastOne
<1>2. e.numBits \in OptionalNat /\ type.bits \in Nat /\ type.bytes \in Nat /\ type.aligned \in Nat
  BY ElemIs DEF TypeInfos
<1>3. type.bits * AtLeastOne(e.array.size) \in Nat
  BY <1>1, <1>2
<1>4. AtLeastOne(e.array.size) * type.aligned \in Nat
      /\ (AtLeastOne(e.array.size) - 1) * type.aligned \in Nat
  <2>1. \A m \in Nat \ {0}, n \in Nat : m * n \in Nat /\ (m - 1) * n \in Nat
    OBVIOUS
  <2> QED
    BY <1>1, <1>2, <2>1
<1> QED
  BY <1>2, <1>3, <1>4 DEF CalculateSerializedBitSize, CalculateDeserializedSize, OptionalNat

\* ElementTypeInfo::update gives an element its place.
LEMMA PlacedIs ==
  ASSUME NEW e \in Elem, NEW type \in TypeInfos, NEW prev, Before(prev), NEW version \in Nat
  PROVE  /\ Placed(e, type, prev, version) \in Elem
         /\ Place(Placed(e, type, prev, version))
         /\ Placed(e, type, prev, version).info.after = IsAfterDynamic(prev)
         /\ ~IsAfterDynamic(prev) /\ prev # << >>
            => prev[1].info.pos + prev[1].info.size <= Placed(e, type, prev, version).info.pos
<1> DEFINE at == CalculateSerializedPos(e, prev)
           pos == CalculateDeserializedPos(e, type, prev)
           bitSize == CalculateSerializedBitSize(e, type.bits)
           size == CalculateDeserializedSize(e, type, version)
           q == PlacedAt(e, type, prev, version, at)
<1>1. /\ at.byte \in OptionalNat /\ at.bit \in OptionalNat /\ at.reset \in BOOLEAN
      /\ at.byte = None <=> IsAfterDynamic(prev)
  BY SerializedPosIs
<1>2. Value(at.byte) \in Nat /\ Value(at.bit) \in Nat
  BY <1>1, ValueIs
<1>3. /\ pos \in OptionalNat
      /\ pos = None <=> IsAfterDynamic(prev)
      /\ ~IsAfterDynamic(prev) /\ prev # << >> => prev[1].info.pos + prev[1].info.size <= pos
  BY DeserializedPosIs
<1>4. bitSize \in Nat /\ size \in Nat
  BY SizesAre
<1>5. IsAfterDynamic(prev) \in BOOLEAN
  BY DEF IsAfterDynamic
<1>6. e.array.dynamic \in BOOLEAN /\ type \in TypeInfos
  BY ElemIs DEF Arrays
<1>7. q = [e EXCEPT !.bytePos = IF at.reset THEN at.byte ELSE @,
                    !.bitPos = IF at.reset THEN at.bit ELSE @,
                    !.info = [bytePos |-> at.byte,
                              bitOffset |-> Value(at.byte) * 8 + Value(at.bit),
                              bitSize |-> IF e.array.dynamic \/ type.dynamic THEN 0 ELSE bitSize,
                              typeBits |-> type.bits, pos |-> pos, size |-> size,
                              typeBytes |-> type.bytes, typeAligned |-> type.aligned,
                              dynamic |-> e.array.dynamic \/ type.dynamic,
                              after |-> IsAfterDynamic(prev)]]
  BY DEF PlacedAt
<1>8. Placed(e, type, prev, version) = q
  BY DEF Placed
<1> HIDE DEF at, pos, bitSize, size, q
<1>9. /\ q.info.pos = pos /\ q.info.bytePos = at.byte /\ q.info.after = IsAfterDynamic(prev)
      /\ q.info \in ElementInfos
  BY <1>1, <1>2, <1>3, <1>4, <1>5, <1>6, <1>7, ElemIs DEF ElementInfos, TypeInfos
<1>10. q \in Elem
  BY <1>1, <1>7, <1>9, ElemIs DEF Infos, Elem, Elements
<1> QED
  BY <1>1, <1>3, <1>8, <1>9, <1>10 DEF Place

-----------------------------------------------------------------------------
(* The walk over the elements of a struct *)

WalkTyped(w) ==
    w \in [elems : Seq(Elem), bits : Nat, last : Nat, dynamic : BOOLEAN, updated : BOOLEAN]
\* What is known while some elements have been visited, and once one has been
Walking(w) == WalkTyped(w) /\ WellPlaced(w.elems) /\ (~w.dynamic => Undynamic(w.elems))
Covers(w) == LET e == Last(w.elems) IN
             w.elems # << >> /\ IsStatic(e) => w.last = e.info.pos + e.info.size

LEMMA WellAtOfPrefix ==
  ASSUME NEW a, NEW b, NEW j \in Nat \ {0}, \A i \in 1 .. j : a[i].info = b[i].info, WellAt(a, j)
  PROVE  WellAt(b, j)
<1>1. j \in 1 .. j /\ \A i \in 1 .. j - 1 : i \in 1 .. j
  OBVIOUS
<1> QED
  BY <1>1 DEF WellAt, Place, IsStatic

\* A static element has numbers for its place.
LEMMA StaticPlace ==
  ASSUME NEW e, Place(e)
  PROVE  e.info.size \in Nat /\ (~e.info.after => e.info.pos \in Nat)
  BY DEF Place, ElementInfos, OptionalNat

Previous(elems) == IF elems = << >> THEN << >> ELSE <<Last(elems)>>

LEMMA PreviousIs ==
  ASSUME NEW elems \in Seq(Elem), WellPlaced(elems)
  PROVE  Before(Previous(elems))
<1>1. CASE elems = << >>
  BY <1>1 DEF Previous, Before
<1>2. CASE elems # << >>
  <2>1. Len(elems) \in 1 .. Len(elems) /\ Last(elems) = elems[Len(elems)] /\ elems[Len(elems)] \in Elem
    BY <1>2 DEF Last
  <2> QED
    BY <1>2, <2>1 DEF Previous, Before, WellPlaced, WellAt
<1> QED
  BY <1>1, <1>2

LEMMA PlacedBehind ==
  ASSUME NEW elems \in Seq(Elem), WellPlaced(elems), NEW q \in Elem, Place(q),
         q.info.after = IsAfterDynamic(Previous(elems)),
         ~q.info.after /\ elems # << >>
         => Last(elems).info.pos + Last(elems).info.size <= q.info.pos
  PROVE  WellAt(Append(elems, q), Len(elems) + 1)
<1> DEFINE k == Len(elems)
           more == Append(elems, q)
<1>1. k \in Nat /\ more[k + 1] = q /\ \A i \in 1 .. k : more[i] = elems[i]
  OBVIOUS
<1> HIDE DEF more
<1>2. CASE elems = << >>
  <2>1. k = 0 /\ ~q.info.after
    BY <1>2 DEF IsAfterDynamic, Previous
  <2> QED
    BY <1>1, <2>1 DEF WellAt
<1>3. CASE elems # << >>
  <2> DEFINE p == elems[k]
  <2>1. k \in 1 .. k /\ Last(elems) = p
    BY <1>3 DEF Last
  <2>2. WellAt(elems, k)
    BY <2>1 DEF WellPlaced
  <2>3. q.info.after <=> p.info.dynamic \/ p.info.after
    BY <1>3, <2>1 DEF IsAfterDynamic, Previous
  <2>4. q.info.after => \E i \in 1 .. k : elems[i].info.dynamic
    <3>1. p.info.after => \E i \in 1 .. k - 1 : elems[i].info.dynamic
      BY <2>2 DEF WellAt
    <3> QED
      BY <2>1, <2>3, <3>1
  <2>5. ASSUME NEW i \in 1 .. k, IsStatic(elems[i]), ~q.info.after
        PROVE  elems[i].info.pos + elems[i].info.size <= q.info.pos
    <3>1. p.info.pos + p.info.size <= q.info.pos /\ ~p.info.after
      BY <1>3, <2>1, <2>3, <2>5
    <3>2. i # k => elems[i].info.pos + elems[i].info.size <= p.info.pos
      BY <2>2, <2>5, <3>1 DEF WellAt
    <3>3. /\ p.info.pos \in Nat /\ p.info.size \in Nat /\ q.info.pos \in Nat
          /\ elems[i].info.pos \in Nat /\ elems[i].info.size \in Nat
      <4>1. Place(p) /\ Place(elems[i])
        BY <2>1 DEF WellPlaced, WellAt
      <4> QED
        BY <2>5, <3>1, <4>1, StaticPlace DEF IsStatic
    <3>4. CASE i = k
      BY <3>1, <3>4
    <3>5. CASE i # k
      <4> HIDE DEF p, k
      <4>1. elems[i].info.pos + elems[i].info.size <= p.info.pos
        BY <3>2, <3>5
      <4> DEFINE e == elems[i].info.pos + elems[i].info.size
                 m == p.info.pos
                 n == p.info.size
                 o == q.info.pos
      <4>2. e \in Nat /\ m \in Nat /\ n \in Nat /\ o \in Nat /\ e <= m /\ m + n <= o
        BY <3>1, <3>3, <4>1
      <4> HIDE DEF e, m, n, o
      <4>3. e <= o
        BY <4>2
      <4> QED
        BY <4>3 DEF e, o
    <3> QED
      BY <3>4, <3>5
  <2> HIDE DEF p, k
  <2>6. k + 1 - 1 = k
    BY <1>1
  <2>7. WellAt(more, k + 1)
    BY <1>1, <2>4, <2>5, <2>6 DEF WellAt
  <2> QED
    BY <2>7 DEF more, k
<1> QED
  BY <1>2, <1>3

LEMMA VisitIs ==
  ASSUME NEW t, Known(t), NEW w, Walking(w), NEW e \in Elem, NEW version \in Nat,
         ~w.updated /\ e.info # None => WellAt(Append(w.elems, e), Len(w.elems) + 1)
  PROVE  LET v == Visit(t, w, e, version) IN
         /\ Walking(v) /\ Covers(v)
         /\ \E q \in Elem : v.elems = Append(w.elems, q) /\ (~v.updated => q = e /\ e.info # None)
         /\ ~v.updated => ~w.updated
<1> DEFINE prev == Previous(w.elems)
           placed == Placed(e, t.info[e.type], prev, version)
           moved == w.updated \/ e.info = None
           q == IF moved THEN placed ELSE e
           v == Visit(t, w, e, version)
<1>1. /\ w.elems \in Seq(Elem) /\ WellPlaced(w.elems) /\ w.last \in Nat /\ w.bits \in Nat
      /\ w.dynamic \in BOOLEAN /\ w.updated \in BOOLEAN
      /\ w = [elems |-> w.elems, bits |-> w.bits, last |-> w.last, dynamic |-> w.dynamic, updated |-> w.updated]
  BY DEF Walking, WalkTyped
<1>2. Before(prev)
  BY <1>1, PreviousIs
<1>3. t.info[e.type] \in TypeInfos
  BY ElemIs DEF Known
<1>4. /\ placed \in Elem /\ Place(placed) /\ placed.info.after = IsAfterDynamic(prev)
      /\ ~IsAfterDynamic(prev) /\ prev # << >> => prev[1].info.pos + prev[1].info.size <= placed.info.pos
  BY <1>2, <1>3, PlacedIs
<1>5. /\ v.elems = Append(w.elems, q)
      /\ v.bits = Larger(w.bits, GetSerializedHighestBit(q))
      /\ v.last = IF IsStatic(q) THEN q.info.pos + q.info.size ELSE w.last
      /\ v.dynamic = (w.dynamic \/ q.info.dynamic)
      /\ v.updated = moved
      /\ v = [elems |-> v.elems, bits |-> v.bits, last |-> v.last, dynamic |-> v.dynamic, updated |-> v.updated]
  <2>1. Visit(t, w, e, version) = Visited(IF moved THEN [w EXCEPT !.updated = TRUE] ELSE w, q)
    BY DEF Visit, Previous
  <2> DEFINE u == IF moved THEN [w EXCEPT !.updated = TRUE] ELSE w
  <2>2. /\ u.elems = w.elems /\ u.bits = w.bits /\ u.last = w.last /\ u.dynamic = w.dynamic
        /\ u.updated = moved
    BY <1>1
  <2>3. Visit(t, w, e, version) = Visited(u, q)
    BY <2>1
  <2> HIDE DEF q, u, moved
  <2> QED
    BY <2>2, <2>3 DEF Visited
<1> HIDE DEF placed, v
<1>6. q \in Elem /\ WellAt(Append(w.elems, q), Len(w.elems) + 1)
  <2>1. CASE moved
    <3>1. ~placed.info.after /\ w.elems # << >>
          => Last(w.elems).info.pos + Last(w.elems).info.size <= placed.info.pos
      BY <1>4 DEF Previous
    <3> QED
      BY <1>1, <1>4, <2>1, <3>1, PlacedBehind
  <2>2. CASE ~moved
    BY <2>2
  <2> QED
    BY <2>1, <2>2
<1> HIDE DEF q, moved
<1>7. /\ \A i \in 1 .. Len(w.elems) : v.elems[i] = w.elems[i]
      /\ v.elems[Len(w.elems) + 1] = q /\ Len(v.elems) = Len(w.elems) + 1 /\ Len(w.elems) \in Nat
      /\ v.elems \in Seq(Elem)
  BY <1>1, <1>5, <1>6
<1>8. Place(q) /\ q.info \in ElementInfos /\ q.bytePos \in OptionalNat /\ q.bitPos \in OptionalNat
  BY <1>6, <1>7, <1>5, ElemIs DEF WellAt, Place
<1>9. WellPlaced(v.elems)
  <2> SUFFICES ASSUME NEW j \in 1 .. Len(v.elems) PROVE WellAt(v.elems, j)
    BY DEF WellPlaced
  <2>1. CASE j = Len(w.elems) + 1
    BY <1>5, <1>6, <2>1
  <2>2. CASE j \in 1 .. Len(w.elems)
    <3>1. WellAt(w.elems, j)
      BY <1>1, <2>2 DEF WellPlaced
    <3>2. j \in Nat \ {0} /\ \A i \in 1 .. j : i \in 1 .. Len(w.elems)
      BY <1>7, <2>2
    <3>3. \A i \in 1 .. j : w.elems[i].info = v.elems[i].info
      BY <1>7, <3>2
    <3> QED
      BY <3>1, <3>2, <3>3, WellAtOfPrefix
  <2> QED
    BY <1>7, <2>1, <2>2
<1>10. WalkTyped(v)
  <2>1. GetSerializedHighestBit(q) \in Nat
    <3>1. Value(q.bytePos) \in Nat /\ Value(q.bitPos) \in Nat /\ q.info.bitSize \in Nat
      BY <1>8, ValueIs DEF ElementInfos
    <3> QED
      BY <3>1 DEF GetSerializedHighestBit
  <2>2. v.bits \in Nat
    BY <1>1, <1>5, <2>1 DEF Larger
  <2>3. v.last \in Nat
    BY <1>1, <1>5, <1>8, StaticPlace DEF IsStatic
  <2>4. v.dynamic \in BOOLEAN /\ v.updated \in BOOLEAN
    BY <1>5 DEF moved
  <2> QED
    BY <1>5, <1>7, <2>2, <2>3, <2>4 DEF WalkTyped
<1>11. ~v.dynamic => Undynamic(v.elems)
  <2>1. ~v.dynamic => ~w.dynamic /\ ~q.info.dynamic
    BY <1>1, <1>5, <1>8 DEF ElementInfos
  <2>2. ~w.dynamic => Undynamic(w.elems)
    BY DEF Walking
  <2> QED
    BY <1>7, <2>1, <2>2 DEF Undynamic
<1>12. Covers(v)
  BY <1>5, <1>7 DEF Covers, Last
<1>13. ~v.updated => q = e /\ e.info # None /\ ~w.updated
  BY <1>5 DEF q, moved
<1> QED
  BY <1>5, <1>6, <1>9, <1>10, <1>11, <1>12, <1>13 DEF v, Walking

-----------------------------------------------------------------------------
(* What a model has *)

Structlike(names, infos) ==
    [kind : {"struct"}, version : OptionalNat, align : OptionalNat, elems : Seq(Elements(names, infos))]

LEMMA StructIs ==
  ASSUME NEW t, Known(t), NEW s \in StructNames(world.types)
  PROVE  /\ s \in Names /\ t.types[s] \in Structlike(Names, Infos)
         /\ t.types[s].elems \in Seq(Elem) /\ Relevant(t, s) \in Nat
         /\ Value(t.types[s].align) \in Nat
<1>1. s \in Names /\ t.types[s].kind = "struct"
  BY DEF StructNames, Names, Known
<1>2. t.types[s] \in Structlike(Names, Infos)
  <2>1. t.types[s] \in [kind : {"data"}, bits : Nat, align : OptionalNat]
                       \union [kind : {"enum"}, base : DataNames(t.types)]
                       \union Structlike(Names, Infos)
    BY <1>1 DEF Known, ModelOK, Structlike
  <2> QED
    BY <1>1, <2>1
<1>3. /\ t.types[s].elems \in Seq(Elem) /\ t.types[s].version \in OptionalNat
      /\ t.types[s].align \in OptionalNat /\ t.file \in Nat
  BY <1>2 DEF Structlike, Elem, Known
<1> QED
  BY <1>1, <1>2, <1>3, ValueIs DEF Relevant, OptionalNat

LEMMA DataIs ==
  ASSUME NEW t, Known(t), NEW d \in DataNames(t.types)
  PROVE  /\ d \in Names /\ t.types[d] \in [kind : {"data"}, bits : Nat, align : OptionalNat]
         /\ InfoOfData(t, d) \in TypeInfos
<1>1. d \in Names /\ t.types[d].kind = "data"
  BY DEF DataNames, Known
<1>2. t.types[d] \in [kind : {"data"}, bits : Nat, align : OptionalNat]
  <2>1. t.types[d] \in [kind : {"data"}, bits : Nat, align : OptionalNat]
                       \union [kind : {"enum"}, base : DataNames(t.types)]
                       \union Structlike(Names, Infos)
    BY <1>1 DEF Known, ModelOK, Structlike
  <2> QED
    BY <1>1, <2>1 DEF Structlike
<1> QED
  BY <1>1, <1>2, DataTypeInfoIs DEF InfoOfData

LEMMA EnumIs ==
  ASSUME NEW t, Known(t), NEW e \in EnumNames(t.types)
  PROVE  e \in Names /\ t.types[e].kind = "enum" /\ t.types[e] = [kind |-> "enum", base |-> t.types[e].base]
         /\ t.types[e].base \in DataNames(t.types)
<1>1. e \in Names /\ t.types[e].kind = "enum"
  BY DEF EnumNames, Known
<1>2. t.types[e] \in [kind : {"data"}, bits : Nat, align : OptionalNat]
                     \union [kind : {"enum"}, base : DataNames(t.types)]
                     \union Structlike(Names, Infos)
  BY <1>1 DEF Known, ModelOK, Structlike
<1> QED
  BY <1>1, <1>2 DEF Structlike

LEMMA KindsKept ==
  ASSUME NEW t, Known(t)
  PROVE  /\ DataNames(t.types) = DataNames(world.types)
         /\ EnumNames(t.types) = EnumNames(world.types)
         /\ StructNames(t.types) = StructNames(world.types)
  BY DEF Known, DataNames, EnumNames, StructNames, Names

\* A type is replaced by one of its kind.
LEMMA TypeReplaced ==
  ASSUME NEW t, Known(t), NEW n \in Names, NEW new, new.kind = t.types[n].kind,
         new \in [kind : {"data"}, bits : Nat, align : OptionalNat]
                 \union [kind : {"enum"}, base : DataNames(t.types)]
                 \union Structlike(Names, Infos)
  PROVE  Known([t EXCEPT !.types[n] = new])
<1> DEFINE u == [t EXCEPT !.types[n] = new]
<1>1. /\ DOMAIN u = DOMAIN t /\ u.info = t.info /\ u.users = t.users /\ u.file = t.file
      /\ DOMAIN u.types = Names /\ u.types[n] = new /\ \A m \in Names \ {n} : u.types[m] = t.types[m]
  BY DEF Known
<1> HIDE DEF u
<1>2. \A m \in Names : u.types[m].kind = t.types[m].kind
  BY <1>1
<1>3. DataNames(u.types) = DataNames(t.types)
  BY <1>1, <1>2 DEF DataNames, Known
<1>4. \A m \in Names : t.types[m] \in [kind : {"data"}, bits : Nat, align : OptionalNat]
                                      \union [kind : {"enum"}, base : DataNames(t.types)]
                                      \union Structlike(Names, Infos)
  BY DEF Known, ModelOK, Structlike
<1>5. ModelOK(u.types, Infos)
  <2> SUFFICES ASSUME NEW m \in Names
               PROVE  u.types[m] \in [kind : {"data"}, bits : Nat, align : OptionalNat]
                                     \union [kind : {"enum"}, base : DataNames(t.types)]
                                     \union Structlike(Names, Infos)
    BY <1>1, <1>3 DEF ModelOK, Structlike
  <2> QED
    BY <1>1, <1>4
<1>6. Known(u)
  BY <1>1, <1>2, <1>5 DEF Known
<1> QED
  BY <1>6 DEF u

LEMMA InfoReplaced ==
  ASSUME NEW t, Known(t), NEW n \in Names, NEW info \in TypeInfos
  PROVE  Known([t EXCEPT !.info[n] = info])
  BY DEF Known

-----------------------------------------------------------------------------
(* TypeInfo::update of a struct *)

\* All but one struct is as it was.
OnlyOf(s, t, u) ==
    /\ u.users = t.users /\ u.file = t.file
    /\ \A r \in Names \ {s} : u.types[r] = t.types[r] /\ u.info[r] = t.info[r]

LEMMA StructInfoIs ==
  ASSUME NEW old \in TypeInfos, NEW align \in Nat, NEW version \in Nat,
         NEW w, Walking(w), Covers(w)
  PROVE  LET info == StructInfo(old, align, version, w) IN
         /\ info \in TypeInfos /\ info.dynamic = w.dynamic
         /\ ~info.dynamic =>
               \A j \in 1 .. Len(w.elems) :
                  IsStatic(w.elems[j]) /\ w.elems[j].info.pos + w.elems[j].info.size <= info.bytes
<1> DEFINE aligned == CalculateAlignedSize(w.last, align)
           info == StructInfo(old, align, version, w)
           k == Len(w.elems)
<1>1. /\ w.elems \in Seq(Elem) /\ WellPlaced(w.elems) /\ w.last \in Nat /\ w.bits \in Nat
      /\ w.dynamic \in BOOLEAN /\ k \in Nat
  BY DEF Walking, WalkTyped
<1>2. aligned \in Nat /\ aligned >= w.last
  BY <1>1, AlignedUp
<1> HIDE DEF aligned
<1>3. /\ info \in TypeInfos /\ info.dynamic = w.dynamic
      /\ ~w.dynamic /\ w.elems # << >> => info.bytes = aligned \/ info.bytes = w.last
  BY <1>1, <1>2 DEF StructInfo, aligned, TypeInfos
<1>4. ASSUME ~w.dynamic, NEW j \in 1 .. k
      PROVE  IsStatic(w.elems[j]) /\ w.elems[j].info.pos + w.elems[j].info.size <= info.bytes
  <2>1. \A i \in 1 .. k : ~w.elems[i].info.dynamic
    BY <1>4 DEF Walking, Undynamic
  <2>2. \A i \in 1 .. k : WellAt(w.elems, i)
    BY <1>1 DEF WellPlaced
  <2>3. \A i \in 1 .. k : IsStatic(w.elems[i])
    <3> SUFFICES ASSUME NEW i \in 1 .. k PROVE ~w.elems[i].info.after
      BY <2>1 DEF IsStatic
    <3>1. \A h \in 1 .. i - 1 : h \in 1 .. k
      BY <1>1
    <3> QED
      BY <2>1, <2>2, <3>1 DEF WellAt
  <2>4. k \in 1 .. k /\ w.elems # << >> /\ Last(w.elems) = w.elems[k]
    BY <1>1, <1>4 DEF Last
  <2>5. w.last = w.elems[k].info.pos + w.elems[k].info.size
    BY <2>3, <2>4 DEF Covers
  <2>6. \A i \in 1 .. k : w.elems[i].info.pos \in Nat /\ w.elems[i].info.size \in Nat
    BY <2>2, <2>3, StaticPlace DEF WellAt, IsStatic
  <2>7. j # k => w.elems[j].info.pos + w.elems[j].info.size <= w.elems[k].info.pos
    <3>1. j # k => j \in 1 .. k - 1
      BY <1>1, <1>4
    <3> QED
      BY <2>2, <2>3, <2>4, <3>1 DEF WellAt, IsStatic
  <2> DEFINE end(i) == w.elems[i].info.pos + w.elems[i].info.size
  <2>8. end(j) \in Nat /\ end(k) \in Nat /\ w.elems[k].info.pos <= end(k) /\ (j = k \/ end(j) <= w.elems[k].info.pos)
    <3>1. \A m, n \in Nat : m + n \in Nat /\ m <= m + n
      OBVIOUS
    <3>2. w.elems[j].info.pos \in Nat /\ w.elems[j].info.size \in Nat
      BY <2>6
    <3>3. w.elems[k].info.pos \in Nat /\ w.elems[k].info.size \in Nat
      BY <2>4, <2>6
    <3>4. end(j) \in Nat
      BY <3>1, <3>2, Zenon
    <3>5. end(k) \in Nat /\ w.elems[k].info.pos <= end(k)
      BY <3>1, <3>3, Zenon
    <3> QED
      BY <2>7, <3>4, <3>5
  <2>9. end(j) <= w.last
    <3>1. CASE j = k
      BY <2>5, <2>8, <3>1
    <3>2. CASE j # k
      <4> HIDE DEF end
      <4>1. w.elems[k].info.pos \in Nat /\ w.last = end(k)
        BY <2>4, <2>5, <2>6 DEF end
      <4> QED
        BY <2>8, <3>2, <4>1
    <3> QED
      BY <3>1, <3>2
  <2>10. w.last <= info.bytes
    BY <1>1, <1>2, <1>3, <1>4, <2>4
  <2>11. info.bytes \in Nat
    BY <1>3 DEF TypeInfos
  <2> HIDE DEF end, info
  <2>12. end(j) <= info.bytes
    BY <1>1, <2>8, <2>9, <2>10, <2>11
  <2> QED
    BY <2>3, <2>12 DEF end
<1> QED
  BY <1>3, <1>4

LEMMA WalkedIs ==
  ASSUME NEW t, Known(t), NEW s \in StructNames(world.types), NEW w, Walking(w), Covers(w)
  PROVE  /\ Known(Walked(t, s, w)) /\ LaidOut(Walked(t, s, w), s) /\ OnlyOf(s, t, Walked(t, s, w))
<1> DEFINE new == [t.types[s] EXCEPT !.elems = w.elems]
           info == StructInfo(t.info[s], Value(t.types[s].align), Relevant(t, s), w)
           x == [t EXCEPT !.types[s] = new]
           u == Walked(t, s, w)
<1>1. /\ s \in Names /\ t.types[s] \in Structlike(Names, Infos) /\ Relevant(t, s) \in Nat
      /\ Value(t.types[s].align) \in Nat /\ t.info[s] \in TypeInfos
  BY StructIs DEF Known
<1>2. w.elems \in Seq(Elem)
  BY DEF Walking, WalkTyped
<1>3. /\ info \in TypeInfos /\ info.dynamic = w.dynamic
      /\ ~info.dynamic =>
            \A j \in 1 .. Len(w.elems) :
               IsStatic(w.elems[j]) /\ w.elems[j].info.pos + w.elems[j].info.size <= info.bytes
  BY <1>1, StructInfoIs
<1>4. new \in Structlike(Names, Infos) /\ new.kind = t.types[s].kind /\ new.elems = w.elems
  BY <1>1, <1>2 DEF Structlike, Elem
<1>5. Known(x)
  BY <1>1, <1>4, TypeReplaced
<1>6. u = [x EXCEPT !.info[s] = info]
  BY <1>1 DEF Walked, Known
<1> HIDE DEF info, new
<1>7. /\ x.info = t.info /\ x.users = t.users /\ x.file = t.file /\ x.types[s] = new
      /\ \A r \in Names \ {s} : x.types[r] = t.types[r]
  BY <1>1 DEF Known
<1> HIDE DEF x, u
<1>8. Known(u)
  BY <1>1, <1>3, <1>5, <1>6, InfoReplaced
<1>9. /\ u.types = x.types /\ u.users = t.users /\ u.file = t.file /\ u.info[s] = info
      /\ \A r \in Names \ {s} : u.info[r] = t.info[r]
  BY <1>1, <1>5, <1>6, <1>7 DEF Known
<1>10. u.types[s].elems = w.elems
  BY <1>4, <1>7, <1>9
<1>11. LaidOut(u, s)
  BY <1>3, <1>9, <1>10 DEF LaidOut, Walking
<1> QED
  BY <1>7, <1>8, <1>9, <1>11 DEF OnlyOf, u

\* The walk as a fold: env tells the elements to visit, and whether all of
\* them are calculated again.
VisitNext(t, version, w, e) == Visit(t, w, e, version)
WalkedTo(env, w, k) ==
    /\ Walking(w) /\ Covers(w) /\ Len(w.elems) = k
    /\ env.all => w.updated
    /\ ~w.updated => \A j \in 1 .. k : w.elems[j] = env.elems[j] /\ env.elems[j].info # None
Visiting == INSTANCE FoldTheorems WITH Op <- VisitNext, Inv <- WalkedTo

\* Up to the first element without an info, elements have their places.
PlacedUpToFirst(elems) ==
    \A j \in 1 .. Len(elems) : (\A i \in 1 .. j : elems[i].info # None) => WellAt(elems, j)

LEMMA WalkIs ==
  ASSUME NEW t, Known(t), NEW s \in StructNames(world.types), NEW elems \in Seq(Elem),
         NEW start, Walking(start), start.elems = << >>,
         start.updated \/ PlacedUpToFirst(elems)
  PROVE  LET u == Walk(t, s, start, elems) IN
         Known(u) /\ LaidOut(u, s) /\ OnlyOf(s, t, u)
<1> DEFINE version == Relevant(t, s)
           w == FoldLeft(LAMBDA g, e : Visit(t, g, e, version), start, elems)
           env == [elems |-> elems, all |-> start.updated]
<1>1. w = Visiting!Folded(t, version, start, elems)
  BY DEF Visiting!Folded, VisitNext, FoldLeft, MapThenFoldSet, Max,
         Visiting!FoldLeft, Visiting!MapThenFoldSet, Visiting!Max
<1>2. version \in Nat
  BY StructIs
<1>3. Len(elems) \in Nat /\ DOMAIN elems = 1 .. Len(elems)
  OBVIOUS
<1>4. env.elems = elems /\ env.all = start.updated
  OBVIOUS
<1> HIDE DEF w, env, version
<1>5. WalkedTo(env, start, 0)
  <2>1. start.elems \in Seq(Elem) /\ Len(start.elems) = 0
    BY DEF Walking, WalkTyped
  <2> QED
    BY <1>4, <2>1 DEF WalkedTo, Covers
<1>6. ASSUME NEW i \in 1 .. Len(elems), NEW g, WalkedTo(env, g, i - 1)
      PROVE  WalkedTo(env, VisitNext(t, version, g, elems[i]), i)
  <2> DEFINE e == elems[i]
             v == Visit(t, g, e, version)
  <2>1. /\ Walking(g) /\ Len(g.elems) = i - 1 /\ (env.all => g.updated) /\ e \in Elem
        /\ ~g.updated => \A j \in 1 .. i - 1 : g.elems[j] = elems[j] /\ elems[j].info # None
        /\ g.elems \in Seq(Elem) /\ i \in Nat
    BY <1>4, <1>6 DEF WalkedTo, Walking, WalkTyped
  <2>2. ~g.updated /\ e.info # None => WellAt(Append(g.elems, e), Len(g.elems) + 1)
    <3> SUFFICES ASSUME ~g.updated, e.info # None PROVE WellAt(Append(g.elems, e), i)
      BY <2>1
    <3>1. \A j \in 1 .. i : elems[j].info # None
      <4>1. \A j \in 1 .. i : j = i \/ j \in 1 .. i - 1
        BY <2>1
      <4> QED
        BY <2>1, <4>1
    <3>2. PlacedUpToFirst(elems)
      BY <1>4, <2>1
    <3>3. WellAt(elems, i)
      BY <3>1, <3>2 DEF PlacedUpToFirst
    <3>4. \A j \in 1 .. i : Append(g.elems, e)[j] = elems[j]
      BY <2>1
    <3>5. \A j \in 1 .. i : elems[j].info = Append(g.elems, e)[j].info
      BY <3>4
    <3>6. i \in Nat \ {0}
      OBVIOUS
    <3> QED
      BY <3>3, <3>5, <3>6, WellAtOfPrefix
  <2>3. /\ Walking(v) /\ Covers(v)
        /\ \E q \in Elem : v.elems = Append(g.elems, q) /\ (~v.updated => q = e /\ e.info # None)
        /\ ~v.updated => ~g.updated
    BY <1>2, <2>1, <2>2, VisitIs
  <2> HIDE DEF v
  <2>4. PICK q \in Elem : v.elems = Append(g.elems, q) /\ (~v.updated => q = e /\ e.info # None)
    BY <2>3
  <2>5. /\ Len(v.elems) = i /\ v.elems[i] = q
        /\ \A j \in 1 .. i - 1 : v.elems[j] = g.elems[j]
    BY <2>1, <2>4
  <2>6. \A j \in 1 .. i : j = i \/ j \in 1 .. i - 1
    BY <2>1
  <2>7. ~v.updated => \A j \in 1 .. i : v.elems[j] = elems[j] /\ elems[j].info # None
    BY <2>1, <2>3, <2>4, <2>5, <2>6
  <2> QED
    BY <1>4, <2>1, <2>3, <2>5, <2>7 DEF WalkedTo, VisitNext, v
<1>7. WalkedTo(env, Visiting!Folded(t, version, start, elems), Len(elems))
  BY <1>3, <1>5, <1>6, Visiting!FoldLeftInduction
<1>8. Walking(w) /\ Covers(w)
  BY <1>1, <1>7 DEF WalkedTo
<1>9. Walk(t, s, start, elems) = Walked(t, s, w)
  BY DEF Walk, w, version
<1> QED
  BY <1>8, <1>9, WalkedIs

\* Where a walk begins
LEMMA FromIs ==
  ASSUME NEW elems \in Seq(Elem), NEW dynamic \in BOOLEAN, NEW updated \in BOOLEAN
  PROVE  /\ WalkTyped(From(elems, dynamic, updated)) /\ From(elems, dynamic, updated).elems = elems
         /\ From(elems, dynamic, updated).dynamic = dynamic
         /\ From(elems, dynamic, updated).updated = updated
  BY DEF WalkTyped, From

LEMMA FromNone ==
  ASSUME NEW dynamic \in BOOLEAN, NEW updated \in BOOLEAN
  PROVE  /\ Walking(From(<< >>, dynamic, updated)) /\ From(<< >>, dynamic, updated).elems = << >>
         /\ From(<< >>, dynamic, updated).updated = updated
<1> DEFINE w == From(<< >>, dynamic, updated)
<1>1. << >> \in Seq(Elem) /\ Len(<< >>) = 0
  OBVIOUS
<1>2. w.elems = << >> /\ w.dynamic = dynamic /\ w.updated = updated /\ WalkTyped(w)
  BY <1>1, FromIs
<1> HIDE DEF w
<1>3. WellPlaced(w.elems) /\ Undynamic(w.elems)
  BY <1>1, <1>2 DEF WellPlaced, Undynamic
<1> QED
  BY <1>2, <1>3 DEF Walking, w

LEMMA UpdateAllIs ==
  ASSUME NEW t, Known(t), NEW s \in StructNames(world.types)
  PROVE  Known(UpdateAll(t, s)) /\ LaidOut(UpdateAll(t, s), s) /\ OnlyOf(s, t, UpdateAll(t, s))
<1>1. t.types[s].elems \in Seq(Elem)
  BY StructIs
<1>2. /\ From(<< >>, FALSE, TRUE).updated /\ From(<< >>, FALSE, TRUE).elems = << >>
      /\ Walking(From(<< >>, FALSE, TRUE))
  BY FromNone
<1> QED
  BY <1>1, <1>2, WalkIs DEF UpdateAll

LEMMA UpdateChangedIs ==
  ASSUME NEW t, Known(t), NEW s \in StructNames(world.types), PlacedUpToFirst(t.types[s].elems)
  PROVE  /\ Known(UpdateChanged(t, s)) /\ LaidOut(UpdateChanged(t, s), s)
         /\ OnlyOf(s, t, UpdateChanged(t, s))
<1>1. t.types[s].elems \in Seq(Elem)
  BY StructIs
<1>2. From(<< >>, FALSE, FALSE).elems = << >> /\ Walking(From(<< >>, FALSE, FALSE))
  BY FromNone
<1> QED
  BY <1>1, <1>2, WalkIs DEF UpdateChanged

\* All but a last element that may be new have their places, and a struct that
\* calls itself static has no dynamic one among them.
LastMayBeNew(elems, dynamic) ==
    /\ \A j \in 1 .. Len(elems) : \/ WellAt(elems, j)
                                  \/ j = Len(elems) /\ elems[j].info = None
    /\ ~dynamic => \A j \in 1 .. Len(elems) - 1 : ~elems[j].info.dynamic

LEMMA UpdateLastIs ==
  ASSUME NEW t, Known(t), NEW s \in StructNames(world.types),
         LastMayBeNew(t.types[s].elems, t.info[s].dynamic)
  PROVE  Known(UpdateLast(t, s)) /\ LaidOut(UpdateLast(t, s), s) /\ OnlyOf(s, t, UpdateLast(t, s))
<1> DEFINE elems == t.types[s].elems
           n == Len(elems)
           start == From(<< >>, t.info[s].dynamic, FALSE)
           front == From(Front(elems), t.info[s].dynamic, FALSE)
           e == Last(elems)
           version == Relevant(t, s)
<1>1. elems \in Seq(Elem) /\ s \in Names /\ version \in Nat /\ t.info[s] \in TypeInfos /\ n \in Nat
  BY StructIs DEF Known
<1>2. t.info[s].dynamic \in BOOLEAN
  BY <1>1 DEF TypeInfos
<1>4. Walking(start) /\ start.elems = << >> /\ start.updated = FALSE
  BY <1>2, FromNone
<1>5. CASE ~(n > 2)
  <2>1. PlacedUpToFirst(elems)
    <3>1. \A j \in 1 .. n : j \in 1 .. j
      OBVIOUS
    <3> QED
      BY <3>1 DEF PlacedUpToFirst, LastMayBeNew
  <2>2. UpdateLast(t, s) = Walk(t, s, start, elems)
    BY <1>5 DEF UpdateLast
  <2> HIDE DEF start, elems
  <2> QED
    BY <1>1, <1>4, <2>1, <2>2, WalkIs
<1>6. CASE n > 2
  <2>1. /\ Front(elems) \in Seq(Elem) /\ Len(Front(elems)) = n - 1
        /\ \A j \in 1 .. n - 1 : Front(elems)[j] = elems[j]
        /\ e = elems[n] /\ e \in Elem /\ n \in 1 .. n
    BY <1>1, <1>6 DEF Front, Last
  <2>2. /\ front.elems = Front(elems) /\ front.dynamic = t.info[s].dynamic /\ front.updated = FALSE
        /\ WalkTyped(front)
    BY <1>2, <2>1, FromIs
  <2>3. WellPlaced(front.elems)
    <3> SUFFICES ASSUME NEW j \in 1 .. n - 1 PROVE WellAt(Front(elems), j)
      BY <2>1, <2>2 DEF WellPlaced
    <3>1. j \in Nat \ {0} /\ j \in 1 .. n /\ j # n /\ \A i \in 1 .. j : i \in 1 .. n - 1
      BY <1>1
    <3>2. WellAt(elems, j)
      BY <3>1 DEF LastMayBeNew
    <3>3. \A i \in 1 .. j : elems[i].info = Front(elems)[i].info
      BY <2>1, <3>1
    <3> QED
      BY <3>1, <3>2, <3>3, WellAtOfPrefix
  <2>4. Walking(front)
    BY <2>1, <2>2, <2>3 DEF Walking, Undynamic, LastMayBeNew
  <2>5. e.info # None => WellAt(Append(front.elems, e), Len(front.elems) + 1)
    <3>7. front.elems = Front(elems) /\ Len(front.elems) + 1 = n
      <4>1. Len(Front(elems)) = n - 1 /\ front.elems = Front(elems)
        BY <2>1, <2>2
      <4> HIDE DEF n, front, elems
      <4> QED
        BY <1>1, <4>1
    <3> HIDE DEF front
    <3> SUFFICES ASSUME e.info # None PROVE WellAt(Append(Front(elems), e), n)
      BY <3>7
    <3> DEFINE more == Append(Front(elems), e)
    <3>1. WellAt(elems, n)
      BY <2>1 DEF LastMayBeNew
    <3>2. \A i \in 1 .. n : i = n \/ i \in 1 .. n - 1
      BY <1>1
    <3>3. \A i \in 1 .. n : more[i] = elems[i]
      BY <1>1, <2>1, <3>2
    <3>4. n \in Nat \ {0}
      BY <1>1, <1>6
    <3> HIDE DEF more, elems, n
    <3>5. \A i \in 1 .. n : elems[i].info = more[i].info
      BY <3>3
    <3>6. WellAt(more, n)
      BY <3>1, <3>4, <3>5, WellAtOfPrefix
    <3> QED
      BY <3>6 DEF more
  <2> DEFINE v == Visit(t, front, e, version)
  <2> HIDE DEF front
  <2>6. Walking(v) /\ Covers(v)
    BY <1>1, <2>1, <2>2, <2>4, <2>5, VisitIs
  <2>7. UpdateLast(t, s) = Walked(t, s, FoldLeft(LAMBDA g, x : Visit(t, g, x, version), front, <<e>>))
    BY <1>6 DEF UpdateLast, Walk, front
  <2>8. FoldLeft(LAMBDA g, x : Visit(t, g, x, version), front, <<e>>) = v
    <3>1. FoldLeft(LAMBDA g, x : Visit(t, g, x, version), front, <<e>>)
          = Visiting!Folded(t, version, front, <<e>>)
      BY DEF Visiting!Folded, VisitNext, FoldLeft, MapThenFoldSet, Max,
             Visiting!FoldLeft, Visiting!MapThenFoldSet, Visiting!Max
    <3> QED
      BY <3>1, Visiting!FoldLeftOne DEF VisitNext
  <2> QED
    BY <2>6, <2>7, <2>8, WalkedIs
<1> QED
  BY <1>5, <1>6

-----------------------------------------------------------------------------
(* Many types, one after the other *)

LEMMA WorldIs ==
  ASSUME world \in Worlds
  PROVE  /\ Structs = StructNames(world.types) /\ Structs \subseteq Names
         /\ IsFiniteSet(Names)
         /\ world.order \in Seq(Structs)
         /\ world.nesting \in Seq(Structs)
         /\ \A s \in Structs : \E i \in 1 .. Len(world.nesting) : world.nesting[i] = s
<1>1. /\ IsFiniteSet(DOMAIN world.types)
      /\ world.order \in Seq(DOMAIN world.types) /\ ToSet(world.order) = StructNames(world.types)
      /\ world.nesting \in Seq(DOMAIN world.types) /\ ToSet(world.nesting) = StructNames(world.types)
  BY WorldsAssumption
<1>2. \A q \in Seq(DOMAIN world.types) : q \in Seq(ToSet(q))
  BY DEF ToSet
<1>3. Structs = StructNames(world.types) /\ Structs \subseteq Names
  BY <1>1 DEF Structs, StructNames, Names
<1>4. world.order \in Seq(Structs) /\ world.nesting \in Seq(Structs)
  BY <1>1, <1>2, <1>3, Zenon
<1>5. \A s \in ToSet(world.nesting) : \E i \in 1 .. Len(world.nesting) : world.nesting[i] = s
  BY <1>1 DEF ToSet
<1> QED
  BY <1>1, <1>3, <1>4, <1>5 DEF Names

LEMMA SetToSeqIs ==
  ASSUME NEW S, IsFiniteSet(S)
  PROVE  SetToSeq(S) \in Seq(S)
<1>1. Cardinality(S) \in Nat /\ ExistsBijection(1 .. Cardinality(S), S)
  BY FS_CardinalityType
<1>2. \E f \in [1 .. Cardinality(S) -> S] : IsInjective(f)
  BY <1>1 DEF ExistsBijection, Bijection, Injection, IsInjective
<1>3. SetToSeq(S) \in [1 .. Cardinality(S) -> S]
  BY <1>2 DEF SetToSeq
<1> QED
  BY <1>1, <1>3

\* What is laid out stays so when another struct changes.
LEMMA OthersKept ==
  ASSUME NEW t, NEW u, NEW s, OnlyOf(s, t, u), NEW r \in Names, r # s, LaidOut(t, r)
  PROVE  LaidOut(u, r)
  BY DEF OnlyOf, LaidOut

\* The folds: the structs in env[k] are laid out when k elements are done.
LaidOutSoFar(env, t, k) == Known(t) /\ \A s \in env[k] : s \in Names /\ LaidOut(t, s)
UpdateAllNext(p, q, t, s) == UpdateAll(t, s)
UpdateDataNext(p, q, t, d) == UpdateData(t, d)
UpdateEnumNext(p, q, t, e) == UpdateEnum(t, e)
AttachNext(p, q, t, s) == UpdateAll(Validate(t, s), s)
UpdatingAll == INSTANCE FoldTheorems WITH Op <- UpdateAllNext, Inv <- LaidOutSoFar
UpdatingData == INSTANCE FoldTheorems WITH Op <- UpdateDataNext, Inv <- LaidOutSoFar
UpdatingEnums == INSTANCE FoldTheorems WITH Op <- UpdateEnumNext, Inv <- LaidOutSoFar
Attaching == INSTANCE FoldTheorems WITH Op <- AttachNext, Inv <- LaidOutSoFar

\* Everything is laid out but the structs in some set.
LaidOutBut(t, except) == Known(t) /\ \A s \in Structs \ except : LaidOut(t, s)

LEMMA UpdateAllOfIs ==
  ASSUME world \in Worlds, NEW t, NEW except, LaidOutBut(t, except), NEW structs \in Seq(Structs)
  PROVE  /\ LaidOutBut(UpdateAllOf(t, structs), except)
         /\ \A i \in 1 .. Len(structs) : LaidOut(UpdateAllOf(t, structs), structs[i])
<1> DEFINE env == [k \in 0 .. Len(structs) |->
                     (Structs \ except) \union {structs[i] : i \in 1 .. k}]
<1>1. UpdateAllOf(t, structs) = UpdatingAll!Folded(1, 1, t, structs)
  BY DEF UpdateAllOf, UpdatingAll!Folded, UpdateAllNext, FoldLeft, MapThenFoldSet, Max,
         UpdatingAll!FoldLeft, UpdatingAll!MapThenFoldSet, UpdatingAll!Max
<1>2. /\ Structs = StructNames(world.types) /\ Structs \subseteq Names
      /\ DOMAIN structs = 1 .. Len(structs) /\ Len(structs) \in Nat
  BY WorldIs
<1>3. \A k \in 0 .. Len(structs) : env[k] = (Structs \ except) \union {structs[i] : i \in 1 .. k}
  OBVIOUS
<1> HIDE DEF env
<1>4. LaidOutSoFar(env, t, 0)
  <2>1. env[0] = Structs \ except
    BY <1>2, <1>3
  <2> QED
    BY <1>2, <2>1 DEF LaidOutSoFar, LaidOutBut
<1>5. ASSUME NEW i \in 1 .. Len(structs), NEW x, LaidOutSoFar(env, x, i - 1)
      PROVE  LaidOutSoFar(env, UpdateAllNext(1, 1, x, structs[i]), i)
  <2> DEFINE s == structs[i]
             u == UpdateAll(x, s)
  <2>1. s \in Structs
    BY <1>2
  <2>2. Known(u) /\ LaidOut(u, s) /\ OnlyOf(s, x, u)
    BY <1>2, <1>5, <2>1, UpdateAllIs DEF LaidOutSoFar
  <2>3. env[i] = env[i - 1] \union {s}
    <3>1. i \in 0 .. Len(structs) /\ i - 1 \in 0 .. Len(structs)
      BY <1>2
    <3>2. 1 .. i = (1 .. i - 1) \union {i}
      BY <1>2
    <3> QED
      BY <1>3, <3>1, <3>2
  <2> HIDE DEF s, u
  <2>4. \A r \in env[i] : r \in Names /\ LaidOut(u, r)
    BY <1>2, <1>5, <2>1, <2>2, <2>3, OthersKept DEF LaidOutSoFar
  <2> QED
    BY <2>2, <2>4 DEF LaidOutSoFar, UpdateAllNext, u, s
<1>6. LaidOutSoFar(env, UpdatingAll!Folded(1, 1, t, structs), Len(structs))
  BY <1>2, <1>4, <1>5, UpdatingAll!FoldLeftInduction
<1> QED
  BY <1>1, <1>2, <1>3, <1>6 DEF LaidOutSoFar, LaidOutBut

LEMMA InfoOnly ==
  ASSUME NEW t, NEW except, LaidOutBut(t, except), NEW n \in Names \ Structs, NEW info \in TypeInfos
  PROVE  LaidOutBut([t EXCEPT !.info[n] = info], except)
<1> DEFINE u == [t EXCEPT !.info[n] = info]
<1>1. Known(u)
  BY InfoReplaced DEF LaidOutBut
<1>2. u.types = t.types /\ \A s \in Structs : u.info[s] = t.info[s]
  BY DEF LaidOutBut, Known
<1> HIDE DEF u
<1>3. LaidOutBut(u, except)
  BY <1>1, <1>2 DEF LaidOutBut, LaidOut
<1> QED
  BY <1>3 DEF u

LEMMA UpdateDataIs ==
  ASSUME world \in Worlds, NEW t, NEW except, LaidOutBut(t, except), NEW d \in DataNames(world.types)
  PROVE  LaidOutBut(UpdateData(t, d), except)
<1>1. Known(t) /\ d \in DataNames(t.types)
  BY KindsKept DEF LaidOutBut
<1>2. d \in Names \ Structs /\ InfoOfData(t, d) \in TypeInfos
  BY <1>1, DataIs, WorldIs DEF DataNames, StructNames
<1> QED
  BY <1>2, InfoOnly DEF UpdateData

LEMMA UpdateEnumIs ==
  ASSUME world \in Worlds, NEW t, NEW except, LaidOutBut(t, except), NEW e \in EnumNames(world.types)
  PROVE  LaidOutBut(UpdateEnum(t, e), except)
<1>1. Known(t) /\ e \in EnumNames(t.types)
  BY KindsKept DEF LaidOutBut
<1>2. t.types[e].base \in DataNames(t.types) /\ e \in Names \ Structs
  BY <1>1, EnumIs, WorldIs DEF EnumNames, StructNames
<1>3. InfoOfData(t, t.types[e].base) \in TypeInfos
  BY <1>1, <1>2, DataIs
<1> QED
  BY <1>2, <1>3, InfoOnly DEF UpdateEnum

LEMMA UpdateDatasIs ==
  ASSUME world \in Worlds, NEW t, NEW except, LaidOutBut(t, except),
         NEW datas \in Seq(DataNames(world.types))
  PROVE  LaidOutBut(FoldLeft(UpdateData, t, datas), except)
<1> DEFINE env == [k \in 0 .. Len(datas) |-> Structs \ except]
<1>1. FoldLeft(UpdateData, t, datas) = UpdatingData!Folded(1, 1, t, datas)
  BY DEF UpdatingData!Folded, UpdateDataNext, FoldLeft, MapThenFoldSet, Max,
         UpdatingData!FoldLeft, UpdatingData!MapThenFoldSet, UpdatingData!Max
<1>2. /\ Structs \subseteq Names /\ DOMAIN datas = 1 .. Len(datas) /\ Len(datas) \in Nat
      /\ \A k \in 0 .. Len(datas) : env[k] = Structs \ except
  BY WorldIs
<1> HIDE DEF env
<1>3. \A x : \A k \in 0 .. Len(datas) : LaidOutSoFar(env, x, k) <=> LaidOutBut(x, except)
  BY <1>2 DEF LaidOutSoFar, LaidOutBut
<1>4. ASSUME NEW i \in 1 .. Len(datas), NEW x, LaidOutSoFar(env, x, i - 1)
      PROVE  LaidOutSoFar(env, UpdateDataNext(1, 1, x, datas[i]), i)
  <2>1. i \in 0 .. Len(datas) /\ i - 1 \in 0 .. Len(datas) /\ datas[i] \in DataNames(world.types)
    BY <1>2
  <2>2. LaidOutBut(UpdateData(x, datas[i]), except)
    BY <1>3, <1>4, <2>1, UpdateDataIs
  <2> QED
    BY <1>3, <2>1, <2>2 DEF UpdateDataNext
<1>5. LaidOutSoFar(env, t, 0) /\ Len(datas) \in 0 .. Len(datas)
  BY <1>2, <1>3
<1>6. LaidOutSoFar(env, UpdatingData!Folded(1, 1, t, datas), Len(datas))
  BY <1>2, <1>4, <1>5, UpdatingData!FoldLeftInduction
<1> QED
  BY <1>1, <1>3, <1>5, <1>6

LEMMA UpdateEnumsIs ==
  ASSUME world \in Worlds, NEW t, NEW except, LaidOutBut(t, except),
         NEW enums \in Seq(EnumNames(world.types))
  PROVE  LaidOutBut(FoldLeft(UpdateEnum, t, enums), except)
<1> DEFINE env == [k \in 0 .. Len(enums) |-> Structs \ except]
<1>1. FoldLeft(UpdateEnum, t, enums) = UpdatingEnums!Folded(1, 1, t, enums)
  BY DEF UpdatingEnums!Folded, UpdateEnumNext, FoldLeft, MapThenFoldSet, Max,
         UpdatingEnums!FoldLeft, UpdatingEnums!MapThenFoldSet, UpdatingEnums!Max
<1>2. /\ Structs \subseteq Names /\ DOMAIN enums = 1 .. Len(enums) /\ Len(enums) \in Nat
      /\ \A k \in 0 .. Len(enums) : env[k] = Structs \ except
  BY WorldIs
<1> HIDE DEF env
<1>3. \A x : \A k \in 0 .. Len(enums) : LaidOutSoFar(env, x, k) <=> LaidOutBut(x, except)
  BY <1>2 DEF LaidOutSoFar, LaidOutBut
<1>4. ASSUME NEW i \in 1 .. Len(enums), NEW x, LaidOutSoFar(env, x, i - 1)
      PROVE  LaidOutSoFar(env, UpdateEnumNext(1, 1, x, enums[i]), i)
  <2>1. i \in 0 .. Len(enums) /\ i - 1 \in 0 .. Len(enums) /\ enums[i] \in EnumNames(world.types)
    BY <1>2
  <2>2. LaidOutBut(UpdateEnum(x, enums[i]), except)
    BY <1>3, <1>4, <2>1, UpdateEnumIs
  <2> QED
    BY <1>3, <2>1, <2>2 DEF UpdateEnumNext
<1>5. LaidOutSoFar(env, t, 0) /\ Len(enums) \in 0 .. Len(enums)
  BY <1>2, <1>3
<1>6. LaidOutSoFar(env, UpdatingEnums!Folded(1, 1, t, enums), Len(enums))
  BY <1>2, <1>4, <1>5, UpdatingEnums!FoldLeftInduction
<1> QED
  BY <1>1, <1>3, <1>5, <1>6

\* All data types and enums get their info.
Simple(t) == FoldLeft(UpdateEnum, FoldLeft(UpdateData, t, SetToSeq(DataTypes(t))), SetToSeq(Enums(t)))

LEMMA SimpleIs ==
  ASSUME world \in Worlds, NEW t, NEW except, LaidOutBut(t, except)
  PROVE  LaidOutBut(Simple(t), except)
<1>1. Known(t) /\ IsFiniteSet(Names)
  BY WorldIs DEF LaidOutBut
<1>2. /\ DataTypes(t) = DataNames(world.types) /\ Enums(t) = EnumNames(world.types)
      /\ DataTypes(t) \subseteq Names /\ Enums(t) \subseteq Names
  BY <1>1, KindsKept DEF DataTypes, Enums, DataNames, EnumNames, Names
<1>3. IsFiniteSet(DataTypes(t)) /\ IsFiniteSet(Enums(t))
  BY <1>1, <1>2, FS_Subset
<1>4. /\ SetToSeq(DataTypes(t)) \in Seq(DataNames(world.types))
      /\ SetToSeq(Enums(t)) \in Seq(EnumNames(world.types))
  BY <1>2, <1>3, SetToSeqIs
<1>5. LaidOutBut(FoldLeft(UpdateData, t, SetToSeq(DataTypes(t))), except)
  BY <1>4, UpdateDatasIs
<1> QED
  BY <1>4, <1>5, UpdateEnumsIs DEF Simple

-----------------------------------------------------------------------------
(* The users of a type are structs *)

DependenciesNext(p, q, found, e) == Dependencies(p, found, e)
LevelNext(p, q, deeper, s) == Level(p, deeper)
OnlyStructs(env, found, k) == found \in Seq(Structs)
Finders == [Names -> [Seq(Structs) -> Seq(Structs)]]
FindsStructs(env, deeper, k) == deeper \in Finders
Following == INSTANCE FoldTheorems WITH Op <- Followed, Inv <- OnlyStructs
Deepening == INSTANCE FoldTheorems WITH Op <- LevelNext, Inv <- FindsStructs
Depending == INSTANCE FoldTheorems WITH Op <- DependenciesNext, Inv <- OnlyStructs

LEMMA LevelIs ==
  ASSUME world \in Worlds, NEW t, DOMAIN t.users = Names,
         NEW deeper \in Finders
  PROVE  Level(t, deeper) \in Finders
<1> SUFFICES ASSUME NEW found \in Seq(Structs), NEW n \in Names
             PROVE  AllFollowed(t.users[n], deeper, found) \in Seq(Structs)
  BY DEF Level, Finders
<1>1. AllFollowed(t.users[n], deeper, found) = Following!Folded(t.users[n], deeper, found, world.order)
  BY DEF AllFollowed, Following!Folded, FoldLeft, MapThenFoldSet, Max,
         Following!FoldLeft, Following!MapThenFoldSet, Following!Max
<1>2. /\ world.order \in Seq(Structs) /\ Structs \subseteq Names
      /\ DOMAIN world.order = 1 .. Len(world.order) /\ Len(world.order) \in Nat
  BY WorldIs
<1>3. OnlyStructs(1, found, 0)
  BY DEF OnlyStructs
<1>4. ASSUME NEW i \in 1 .. Len(world.order), NEW f, OnlyStructs(1, f, i - 1)
      PROVE  OnlyStructs(1, Followed(t.users[n], deeper, f, world.order[i]), i)
  <2>1. world.order[i] \in Structs /\ world.order[i] \in Names
    BY <1>2
  <2>2. f \in Seq(Structs) /\ Append(f, world.order[i]) \in Seq(Structs)
    BY <1>4, <2>1 DEF OnlyStructs
  <2>3. deeper[world.order[i]][Append(f, world.order[i])] \in Seq(Structs)
    BY <2>1, <2>2 DEF Finders
  <2> QED
    BY <2>2, <2>3 DEF OnlyStructs, Followed
<1>5. OnlyStructs(1, Following!Folded(t.users[n], deeper, found, world.order), Len(world.order))
  BY <1>2, <1>3, <1>4, Following!FoldLeftInduction
<1> QED
  BY <1>1, <1>5 DEF OnlyStructs

LEMMA DependenciesAre ==
  ASSUME world \in Worlds, NEW t, DOMAIN t.users = Names, NEW found \in Seq(Structs), NEW n \in Names
  PROVE  Dependencies(t, found, n) \in Seq(Structs)
<1> DEFINE all == FoldLeft(LAMBDA deeper, s : Level(t, deeper), Unfollowed(t), world.order)
<1>1. all = Deepening!Folded(t, 1, Unfollowed(t), world.order)
  BY DEF Deepening!Folded, LevelNext, FoldLeft, MapThenFoldSet, Max,
         Deepening!FoldLeft, Deepening!MapThenFoldSet, Deepening!Max
<1>2. DOMAIN world.order = 1 .. Len(world.order) /\ Len(world.order) \in Nat
  BY WorldIs
<1>3. FindsStructs(1, Unfollowed(t), 0)
  BY DEF FindsStructs, Finders, Unfollowed
<1>4. ASSUME NEW i \in 1 .. Len(world.order), NEW deeper, FindsStructs(1, deeper, i - 1)
      PROVE  FindsStructs(1, LevelNext(t, 1, deeper, world.order[i]), i)
  BY <1>4, LevelIs DEF FindsStructs, LevelNext
<1>5. FindsStructs(1, Deepening!Folded(t, 1, Unfollowed(t), world.order), Len(world.order))
  BY <1>2, <1>3, <1>4, Deepening!FoldLeftInduction
<1> HIDE DEF all
<1>6. all \in Finders
  BY <1>1, <1>5 DEF FindsStructs
<1>7. Dependencies(t, found, n) = all[n][found]
  BY DEF Dependencies, all
<1> QED
  BY <1>6, <1>7 DEF Finders

-----------------------------------------------------------------------------
(* What a change of the model and the recalculations for it lead to *)

LEMMA ValidateIs ==
  ASSUME NEW t, NEW except, LaidOutBut(t, except), NEW s
  PROVE  /\ LaidOutBut(Validate(t, s), except)
         /\ Validate(t, s).types = t.types /\ Validate(t, s).info = t.info
<1> DEFINE users == [n \in DOMAIN t.users |->
                       IF \E i \in DOMAIN t.types[s].elems : t.types[s].elems[i].type = n
                       THEN t.users[n] \union {s} ELSE t.users[n]]
           u == [t EXCEPT !.users = users]
<1>1. Known(t) /\ DOMAIN users = Names
  BY DEF LaidOutBut, Known
<1>2. Validate(t, s) = u
  BY DEF Validate
<1> HIDE DEF users
<1>3. /\ DOMAIN u = DOMAIN t /\ u.types = t.types /\ u.info = t.info /\ u.users = users
      /\ u.file = t.file
  BY <1>1 DEF Known
<1> HIDE DEF u
<1>4. Known(u)
  BY <1>1, <1>3 DEF Known
<1>5. LaidOutBut(u, except)
  BY <1>3, <1>4 DEF LaidOutBut, LaidOut
<1> QED
  BY <1>2, <1>3, <1>5

LEMMA StructReplaced ==
  ASSUME world \in Worlds, NEW t, LaidOutBut(t, {}), NEW s \in Structs,
         NEW new \in Structlike(Names, Infos)
  PROVE  LET u == [t EXCEPT !.types[s] = new] IN
         LaidOutBut(u, {s}) /\ u.types[s] = new /\ u.info = t.info
<1> DEFINE u == [t EXCEPT !.types[s] = new]
<1>1. /\ Structs \subseteq Names /\ s \in StructNames(world.types) /\ s \in Names
  BY WorldIs
<1>2. Known(t) /\ t.types[s] \in Structlike(Names, Infos)
  BY <1>1, StructIs DEF LaidOutBut
<1>3. new.kind = t.types[s].kind
  BY <1>2 DEF Structlike
<1>4. Known(u)
  BY <1>1, <1>2, <1>3, TypeReplaced
<1>5. u.types[s] = new /\ u.info = t.info /\ \A r \in Names \ {s} : u.types[r] = t.types[r]
  BY <1>1, <1>2 DEF Known
<1> HIDE DEF u
<1>6. LaidOutBut(u, {s})
  BY <1>1, <1>4, <1>5 DEF LaidOutBut, LaidOut
<1> QED
  BY <1>5, <1>6 DEF u

LEMMA OtherReplaced ==
  ASSUME world \in Worlds, NEW t, LaidOutBut(t, {}), NEW n \in Names \ Structs,
         NEW new, new.kind = t.types[n].kind,
         new \in [kind : {"data"}, bits : Nat, align : OptionalNat]
                 \union [kind : {"enum"}, base : DataNames(t.types)]
                 \union Structlike(Names, Infos)
  PROVE  LaidOutBut([t EXCEPT !.types[n] = new], {})
<1> DEFINE u == [t EXCEPT !.types[n] = new]
<1>1. Known(t) /\ Known(u)
  BY TypeReplaced DEF LaidOutBut
<1>2. u.info = t.info /\ \A r \in Names \ {n} : u.types[r] = t.types[r]
  BY <1>1 DEF Known
<1> HIDE DEF u
<1>3. LaidOutBut(u, {})
  BY <1>1, <1>2, WorldIs DEF LaidOutBut, LaidOut
<1> QED
  BY <1>3 DEF u

\* The struct that was changed is laid out again.
LEMMA LaidOutAgain ==
  ASSUME world \in Worlds, NEW t, NEW u, NEW s, LaidOutBut(t, {s}),
         Known(u), LaidOut(u, s), OnlyOf(s, t, u)
  PROVE  LaidOutBut(u, {})
  BY WorldIs, OthersKept DEF LaidOutBut

LEMMA DependenciesOf ==
  ASSUME world \in Worlds, NEW t, DOMAIN t.users = Names, NEW n \in Names
  PROVE  Dependencies(t, << >>, n) \in Seq(Structs)
<1>1. << >> \in Seq(Structs)
  OBVIOUS
<1> QED
  BY <1>1, DependenciesAre, Zenon

LEMMA StructChangedIs ==
  ASSUME world \in Worlds, NEW t, NEW s \in Structs, LaidOutBut(t, {s})
  PROVE  LaidOutBut(StructChanged(t, s), {})
<1> DEFINE v == Validate(t, s)
<1>1. LaidOutBut(v, {s})
  BY ValidateIs
<1> HIDE DEF v
<1>2. s \in StructNames(world.types) /\ s \in Names /\ Known(v) /\ DOMAIN v.users = Names
  BY <1>1, WorldIs DEF LaidOutBut, Known
<1>3. LaidOutBut(UpdateAll(v, s), {})
  BY <1>1, <1>2, UpdateAllIs, LaidOutAgain
<1>4. Dependencies(v, << >>, s) \in Seq(Structs)
  BY <1>2, DependenciesOf
<1>5. StructChanged(t, s) = UpdateAllOf(UpdateAll(v, s), Dependencies(v, << >>, s))
  BY DEF StructChanged, v
<1> QED
  BY <1>3, <1>4, <1>5, UpdateAllOfIs

LEMMA DataTypeChangedIs ==
  ASSUME world \in Worlds, NEW t, LaidOutBut(t, {}), NEW d \in DataNames(world.types)
  PROVE  LaidOutBut(DataTypeChanged(t, d), {})
<1> DEFINE enums == SetToSeq({e \in Enums(t) : t.types[e].base = d})
           base == Dependencies(t, << >>, d)
           structs == FoldLeft(LAMBDA f, e : Dependencies(t, f, e), base, enums)
<1>1. /\ IsFiniteSet(Names) /\ Known(t) /\ DOMAIN t.users = Names
      /\ Enums(t) = EnumNames(world.types) /\ Enums(t) \subseteq Names /\ d \in Names
  BY WorldIs, KindsKept DEF LaidOutBut, Known, Enums, EnumNames, DataNames, Names
<1>2. enums \in Seq({e \in Enums(t) : t.types[e].base = d})
  <2>1. IsFiniteSet({e \in Enums(t) : t.types[e].base = d})
    BY <1>1, FS_Subset
  <2> QED
    BY <2>1, SetToSeqIs
<1> HIDE DEF enums
<1>3. enums \in Seq(EnumNames(world.types))
  BY <1>1, <1>2
<1>4. base \in Seq(Structs)
  BY <1>1, DependenciesOf
<1> HIDE DEF base
<1>5. structs = Depending!Folded(t, 1, base, enums)
  BY DEF Depending!Folded, DependenciesNext, FoldLeft, MapThenFoldSet, Max,
         Depending!FoldLeft, Depending!MapThenFoldSet, Depending!Max
<1>6. /\ DOMAIN enums = 1 .. Len(enums) /\ Len(enums) \in Nat
      /\ \A i \in 1 .. Len(enums) : enums[i] \in Names
  BY <1>1, <1>3
<1>7. OnlyStructs(1, base, 0)
  BY <1>4 DEF OnlyStructs
<1>8. ASSUME NEW i \in 1 .. Len(enums), NEW f, OnlyStructs(1, f, i - 1)
      PROVE  OnlyStructs(1, DependenciesNext(t, 1, f, enums[i]), i)
  BY <1>1, <1>6, <1>8, DependenciesAre DEF OnlyStructs, DependenciesNext
<1>9. OnlyStructs(1, Depending!Folded(t, 1, base, enums), Len(enums))
  BY <1>6, <1>7, <1>8, Depending!FoldLeftInduction
<1>10. DataTypeChanged(t, d) = FoldLeft(UpdateEnum, UpdateAllOf(UpdateData(t, d), structs), enums)
  BY DEF DataTypeChanged, enums, base
<1> HIDE DEF structs
<1>11. structs \in Seq(Structs)
  BY <1>5, <1>9 DEF OnlyStructs
<1>12. LaidOutBut(UpdateData(t, d), {})
  BY UpdateDataIs
<1>13. LaidOutBut(UpdateAllOf(UpdateData(t, d), structs), {})
  BY <1>11, <1>12, UpdateAllOfIs
<1> QED
  BY <1>3, <1>10, <1>13, UpdateEnumsIs

LEMMA DataTypeNameChangedIs ==
  ASSUME world \in Worlds, NEW t, LaidOutBut(t, {}), NEW e \in EnumNames(world.types)
  PROVE  LaidOutBut(DataTypeNameChanged(t, e), {})
<1>1. DOMAIN t.users = Names /\ e \in Names
  BY DEF LaidOutBut, Known, EnumNames, Names
<1>2. Dependencies(t, << >>, e) \in Seq(Structs)
  BY <1>1, DependenciesOf
<1>3. LaidOutBut(UpdateAllOf(t, Dependencies(t, << >>, e)), {})
  BY <1>2, UpdateAllOfIs
<1> QED
  BY <1>3, UpdateEnumIs DEF DataTypeNameChanged

-----------------------------------------------------------------------------
(* The changes a user makes *)

\* The model with other elements in a struct
WithElems(t, s, elems) == [t EXCEPT !.types[s].elems = elems]

LEMMA ElemsReplaced ==
  ASSUME world \in Worlds, NEW t, LaidOutBut(t, {}), NEW s \in Structs, NEW elems \in Seq(Elem)
  PROVE  /\ LaidOutBut(WithElems(t, s, elems), {s})
         /\ WithElems(t, s, elems).types[s].elems = elems /\ WithElems(t, s, elems).info = t.info
<1> DEFINE new == [t.types[s] EXCEPT !.elems = elems]
           u == [t EXCEPT !.types[s] = new]
<1>1. /\ Known(t) /\ s \in StructNames(world.types) /\ s \in Names
      /\ t.types[s] \in Structlike(Names, Infos)
  BY WorldIs, StructIs DEF LaidOutBut
<1>2. new \in Structlike(Names, Infos) /\ new.elems = elems
  BY <1>1 DEF Structlike, Elem
<1> HIDE DEF new
<1>3. LaidOutBut(u, {s}) /\ u.types[s] = new /\ u.info = t.info
  BY <1>2, StructReplaced
<1>4. WithElems(t, s, elems) = u
  BY <1>1 DEF Known, new, WithElems
<1> HIDE DEF u
<1> QED
  BY <1>2, <1>3, <1>4

LEMMA SetFieldIs ==
  ASSUME world \in Worlds, LaidOutBut(dl, {}), NEW c \in world.fields, SetField(c[1], c[2], c[3], c[4])
  PROVE  LaidOutBut(dl', {})
<1> DEFINE s == c[1]
           i == c[2]
           field == c[3]
           value == c[4]
           elems == dl.types[s].elems
           e == elems[i]
           new == [e EXCEPT ![field] = value]
           more == [elems EXCEPT ![i] = new]
           changed == WithElems(dl, s, more)
<1>1. /\ s \in Structs /\ s \in StructNames(world.types) /\ Known(dl)
      /\ \/ field = "type" /\ value \in Names
         \/ field = "array" /\ value \in Arrays
         \/ field \in {"numBits", "align", "bytePos", "bitPos"} /\ value \in OptionalNat
  BY WorldIs, WorldsAssumption DEF LaidOutBut, Names
<1>2. i \in DOMAIN elems /\ elems \in Seq(Elem) /\ e \in Elem
  BY <1>1, StructIs DEF SetField
<1>3. dl' = IF field = "bitPos" THEN changed ELSE StructChanged(changed, s)
  BY DEF SetField, WithElems
<1>4. new \in Elem /\ new.info = e.info
  BY <1>1, <1>2 DEF Elem, Elements
<1> HIDE DEF new, e, field, value
<1>5. /\ more \in Seq(Elem) /\ DOMAIN more = DOMAIN elems /\ Len(more) = Len(elems)
      /\ \A j \in 1 .. Len(elems) : more[j].info = elems[j].info
  BY <1>2, <1>4 DEF e
<1> HIDE DEF i, more, elems, s
<1>6. LaidOutBut(changed, {s}) /\ changed.types[s].elems = more /\ changed.info = dl.info
  <2>1. s \in Structs /\ more \in Seq(Elem)
    BY <1>1, <1>5
  <2> QED
    BY <2>1, ElemsReplaced
<1>7. LaidOut(dl, s)
  BY <1>1 DEF LaidOutBut
<1> HIDE DEF changed
<1>8. WellPlaced(more)
  <2> SUFFICES ASSUME NEW j \in 1 .. Len(elems) PROVE WellAt(more, j)
    BY <1>5 DEF WellPlaced
  <2>1. WellAt(elems, j)
    BY <1>7 DEF LaidOut, WellPlaced, elems
  <2>2. j \in Nat \ {0} /\ \A k \in 1 .. j : k \in 1 .. Len(elems)
    BY <1>2
  <2> QED
    BY <1>5, <2>1, <2>2, WellAtOfPrefix
<1>9. LaidOut(changed, s)
  BY <1>5, <1>6, <1>7, <1>8 DEF LaidOut, IsStatic, elems
<1>10. LaidOutBut(changed, {})
  BY <1>6, <1>9 DEF LaidOutBut
<1>11. LaidOutBut(StructChanged(changed, s), {})
  BY <1>1, <1>6, StructChangedIs
<1> QED
  BY <1>3, <1>10, <1>11

LEMMA SetAttributeIs ==
  ASSUME world \in Worlds, LaidOutBut(dl, {}), NEW c \in world.attributes,
         SetAttribute(c[1], c[2], c[3])
  PROVE  LaidOutBut(dl', {})
<1> DEFINE s == c[1]
           new == [dl.types[s] EXCEPT ![c[2]] = c[3]]
           changed == [dl EXCEPT !.types[s] = new]
<1>1. /\ s \in Structs /\ s \in StructNames(world.types) /\ Known(dl)
      /\ c[2] \in {"version", "align"} /\ c[3] \in OptionalNat
  BY WorldIs, WorldsAssumption DEF LaidOutBut
<1>2. dl.types[s] \in Structlike(Names, Infos)
  BY <1>1, StructIs
<1>3. new \in Structlike(Names, Infos)
  BY <1>1, <1>2 DEF Structlike
<1>4. dl' = StructChanged(changed, s)
  BY DEF SetAttribute
<1> HIDE DEF s, new
<1>5. LaidOutBut(changed, {s})
  BY <1>1, <1>3, StructReplaced
<1> QED
  BY <1>1, <1>4, <1>5, StructChangedIs

LEMMA SetBitSizeIs ==
  ASSUME world \in Worlds, LaidOutBut(dl, {}), NEW c \in world.bits, SetBitSize(c[1], c[2])
  PROVE  LaidOutBut(dl', {})
<1> DEFINE d == c[1]
           new == [dl.types[d] EXCEPT !.bits = c[2]]
           changed == [dl EXCEPT !.types[d] = new]
<1>1. Known(dl) /\ d \in DataNames(world.types) /\ c[2] \in Nat /\ d \in DataNames(dl.types)
  BY WorldsAssumption, KindsKept DEF LaidOutBut
<1>2. d \in Names \ Structs /\ dl.types[d] \in [kind : {"data"}, bits : Nat, align : OptionalNat]
  BY <1>1, DataIs, WorldIs DEF DataNames, StructNames
<1>3. new \in [kind : {"data"}, bits : Nat, align : OptionalNat] /\ new.kind = dl.types[d].kind
  BY <1>1, <1>2
<1>4. dl' = DataTypeChanged([dl EXCEPT !.types[d].bits = c[2]], d)
  BY DEF SetBitSize
<1>5. [dl EXCEPT !.types[d].bits = c[2]] = changed
  BY <1>1, <1>2 DEF Known
<1> HIDE DEF d, new
<1>6. LaidOutBut(changed, {})
  BY <1>2, <1>3, OtherReplaced
<1> QED
  BY <1>1, <1>4, <1>5, <1>6, DataTypeChangedIs

LEMMA SetDataTypeNameIs ==
  ASSUME world \in Worlds, LaidOutBut(dl, {}), NEW c \in world.bases, SetDataTypeName(c[1], c[2])
  PROVE  LaidOutBut(dl', {})
<1> DEFINE e == c[1]
           new == [dl.types[e] EXCEPT !.base = c[2]]
           changed == [dl EXCEPT !.types[e] = new]
<1>1. /\ Known(dl) /\ e \in EnumNames(world.types) /\ e \in EnumNames(dl.types)
      /\ c[2] \in DataNames(dl.types)
  BY WorldsAssumption, KindsKept DEF LaidOutBut
<1>2. e \in Names \ Structs /\ dl.types[e] = [kind |-> "enum", base |-> dl.types[e].base]
  BY <1>1, EnumIs, WorldIs DEF EnumNames, StructNames
<1>3. new \in [kind : {"enum"}, base : DataNames(dl.types)] /\ new.kind = dl.types[e].kind
  BY <1>1, <1>2
<1>4. dl' = DataTypeNameChanged([dl EXCEPT !.types[e].base = c[2]], e)
  BY DEF SetDataTypeName
<1>5. [dl EXCEPT !.types[e].base = c[2]] = changed
  BY <1>1, <1>2 DEF Known
<1> HIDE DEF e, new
<1>6. LaidOutBut(changed, {})
  BY <1>2, <1>3, OtherReplaced
<1> QED
  BY <1>1, <1>4, <1>5, <1>6, DataTypeNameChangedIs

\* What the recalculation of the last element needs is there before it.
LEMMA FrontLaidOut ==
  ASSUME NEW t, NEW s, LaidOut(t, s), NEW elems, NEW k \in Nat, k <= Len(t.types[s].elems),
         t.types[s].elems \in Seq(Elem),
         \/ Len(elems) = k
         \/ Len(elems) = k + 1 /\ elems[k + 1].info = None,
         \A j \in 1 .. k : elems[j] = t.types[s].elems[j]
  PROVE  LastMayBeNew(elems, t.info[s].dynamic)
<1> DEFINE old == t.types[s].elems
<1>1. Len(old) \in Nat /\ \A j \in 1 .. k : j \in 1 .. Len(old)
  OBVIOUS
<1>2. \A j \in 1 .. k : WellAt(elems, j)
  <2> SUFFICES ASSUME NEW j \in 1 .. k PROVE WellAt(elems, j)
    OBVIOUS
  <2>1. WellAt(old, j)
    BY <1>1 DEF LaidOut, WellPlaced
  <2>2. j \in Nat \ {0} /\ \A i \in 1 .. j : i \in 1 .. k
    OBVIOUS
  <2>3. \A i \in 1 .. j : old[i].info = elems[i].info
    BY <2>2
  <2> QED
    BY <2>1, <2>2, <2>3, WellAtOfPrefix
<1>3. ~t.info[s].dynamic => \A j \in 1 .. k : ~elems[j].info.dynamic
  BY <1>1 DEF LaidOut, IsStatic
<1>4. /\ \A j \in 1 .. Len(elems) - 1 : j \in 1 .. k
      /\ \A j \in 1 .. Len(elems) : j \in 1 .. k \/ (j = Len(elems) /\ elems[j].info = None)
  <2> HIDE DEF old
  <2>1. CASE Len(elems) = k
    BY <2>1
  <2>2. CASE Len(elems) = k + 1 /\ elems[k + 1].info = None
    BY <2>2
  <2> QED
    BY <2>1, <2>2
<1> QED
  BY <1>2, <1>3, <1>4 DEF LastMayBeNew

LEMMA UpdateLastAgain ==
  ASSUME world \in Worlds, NEW t, NEW s \in Structs, LaidOutBut(t, {s}),
         LastMayBeNew(t.types[s].elems, t.info[s].dynamic)
  PROVE  LaidOutBut(UpdateLast(t, s), {})
<1>1. Known(t) /\ s \in StructNames(world.types)
  BY WorldIs DEF LaidOutBut
<1> QED
  BY <1>1, UpdateLastIs, LaidOutAgain

LEMMA AddElementIs ==
  ASSUME world \in Worlds, LaidOutBut(dl, {}), NEW c \in world.grow, AddElement(c[1], c[2])
  PROVE  LaidOutBut(dl', {})
<1> DEFINE s == c[1]
           e == c[2]
           elems == dl.types[s].elems
           more == Append(elems, e)
           added == WithElems(dl, s, more)
           t == Validate(added, s)
<1>1. /\ s \in Structs /\ s \in StructNames(world.types) /\ Known(dl)
      /\ e \in Elements(Names, {None})
  BY WorldIs, WorldsAssumption DEF LaidOutBut, Names
<1>2. elems \in Seq(Elem) /\ e \in Elem /\ e.info = None
  BY <1>1, StructIs DEF Elements, Elem, Infos
<1>3. dl' = UpdateLast(t, s)
  BY DEF AddElement, WithElems
<1>4. /\ more \in Seq(Elem) /\ Len(elems) \in Nat /\ Len(more) = Len(elems) + 1
      /\ more[Len(elems) + 1] = e /\ \A j \in 1 .. Len(elems) : more[j] = elems[j]
  <2> HIDE DEF elems, e
  <2> QED
    BY <1>2
<1>5. LaidOut(dl, s)
  BY <1>1 DEF LaidOutBut
<1> HIDE DEF s, e, more
<1>6. LastMayBeNew(more, dl.info[s].dynamic)
  <2> DEFINE k == Len(elems)
  <2>1. k \in Nat /\ k <= Len(dl.types[s].elems) /\ Len(more) = k + 1
    BY <1>4
  <2>2. more[k + 1].info = None /\ \A j \in 1 .. k : more[j] = dl.types[s].elems[j]
    BY <1>2, <1>4
  <2> HIDE DEF k
  <2> QED
    BY <1>2, <1>5, <2>1, <2>2, FrontLaidOut
<1>7. LaidOutBut(added, {s}) /\ added.types[s].elems = more /\ added.info = dl.info
  <2>1. s \in Structs /\ more \in Seq(Elem)
    BY <1>1, <1>4
  <2> QED
    BY <2>1, ElemsReplaced
<1> HIDE DEF added
<1>8. LaidOutBut(t, {s}) /\ t.types = added.types /\ t.info = added.info
  BY <1>7, ValidateIs
<1> HIDE DEF t
<1> QED
  BY <1>1, <1>3, <1>6, <1>7, <1>8, UpdateLastAgain

LEMMA PopBackIs ==
  ASSUME world \in Worlds, LaidOutBut(dl, {}), NEW s \in world.shrink, PopBack(s)
  PROVE  LaidOutBut(dl', {})
<1> DEFINE elems == dl.types[s].elems
           less == Front(elems)
           popped == WithElems(dl, s, less)
<1>1. s \in Structs /\ s \in StructNames(world.types) /\ Known(dl)
  BY WorldIs, WorldsAssumption DEF LaidOutBut
<1>2. elems \in Seq(Elem) /\ elems # << >>
  BY <1>1, StructIs DEF PopBack
<1>3. dl' = UpdateLast(popped, s)
  BY DEF PopBack, WithElems
<1>4. /\ less \in Seq(Elem) /\ Len(less) = Len(elems) - 1 /\ Len(less) \in Nat
      /\ Len(less) <= Len(elems) /\ \A j \in 1 .. Len(less) : less[j] = elems[j]
  BY <1>2 DEF Front
<1>5. LaidOut(dl, s)
  BY <1>1 DEF LaidOutBut
<1>6. LastMayBeNew(less, dl.info[s].dynamic)
  <2> HIDE DEF less
  <2> QED
    BY <1>2, <1>4, <1>5, FrontLaidOut
<1> HIDE DEF less
<1>7. LaidOutBut(popped, {s}) /\ popped.types[s].elems = less /\ popped.info = dl.info
  BY <1>1, <1>4, ElemsReplaced
<1> HIDE DEF popped
<1> QED
  BY <1>1, <1>3, <1>6, <1>7, UpdateLastAgain

LEMMA RemoveElementIs ==
  ASSUME world \in Worlds, LaidOutBut(dl, {}), NEW s \in world.shrink,
         NEW i \in DOMAIN dl.types[s].elems, RemoveElement(s, i)
  PROVE  LaidOutBut(dl', {})
<1> DEFINE elems == dl.types[s].elems
           less == RemoveAt(elems, i)
           removed == WithElems(dl, s, less)
<1>1. s \in Structs /\ s \in StructNames(world.types) /\ Known(dl)
  BY WorldIs, WorldsAssumption DEF LaidOutBut
<1>2. elems \in Seq(Elem)
  BY <1>1, StructIs
<1>3. less \in Seq(Elem)
  BY <1>2 DEF RemoveAt
<1>4. dl' = Validate(UpdateAll(removed, s), s)
  BY DEF RemoveElement, WithElems
<1> HIDE DEF less
<1>5. LaidOutBut(removed, {s})
  BY <1>1, <1>3, ElemsReplaced
<1> HIDE DEF removed
<1>6. LaidOutBut(UpdateAll(removed, s), {})
  BY <1>1, <1>5, UpdateAllIs, LaidOutAgain DEF LaidOutBut
<1> QED
  BY <1>4, <1>6, ValidateIs

LEMMA InsertElementIs ==
  ASSUME world \in Worlds, LaidOutBut(dl, {}), NEW c \in world.grow,
         NEW i \in DOMAIN dl.types[c[1]].elems, InsertElement(c[1], i, c[2])
  PROVE  LaidOutBut(dl', {})
<1> DEFINE s == c[1]
           e == c[2]
           elems == dl.types[s].elems
           more == InsertAt(elems, i, e)
           added == WithElems(dl, s, more)
           t == Validate(added, s)
<1>1. /\ s \in Structs /\ s \in StructNames(world.types) /\ Known(dl)
      /\ e \in Elements(Names, {None})
  BY WorldIs, WorldsAssumption DEF LaidOutBut, Names
<1>2. elems \in Seq(Elem) /\ e \in Elem /\ e.info = None /\ i \in 1 .. Len(elems)
  <2>1. elems \in Seq(Elem)
    BY <1>1, StructIs
  <2>2. i \in 1 .. Len(elems)
    BY <2>1
  <2> QED
    BY <1>1, <2>1, <2>2 DEF Elements, Elem, Infos
<1>3. dl' = UpdateChanged(t, s)
  BY DEF InsertElement, WithElems
<1>4. /\ more \in Seq(Elem) /\ Len(elems) \in Nat /\ Len(more) = Len(elems) + 1
      /\ more[i] = e /\ \A j \in 1 .. i - 1 : more[j] = elems[j]
  <2> DEFINE a == SubSeq(elems, 1, i - 1)
             b == SubSeq(elems, i, Len(elems))
  <2>1. /\ a \in Seq(Elem) /\ Len(a) = i - 1 /\ \A j \in 1 .. i - 1 : a[j] = elems[j]
        /\ b \in Seq(Elem) /\ Len(b) = Len(elems) - i + 1
    BY <1>2
  <2>2. more = a \o <<e>> \o b
    BY DEF InsertAt
  <2> HIDE DEF a, b, elems, e, more
  <2>3. Len(elems) \in Nat /\ i \in Nat /\ Len(a) \in Nat
    BY <1>2, <2>1
  <2>4. /\ a \o <<e>> \in Seq(Elem) /\ Len(a \o <<e>>) = i /\ (a \o <<e>>)[i] = e
        /\ \A j \in 1 .. i - 1 : (a \o <<e>>)[j] = a[j]
    <3>1. a \o <<e>> = Append(a, e)
      BY <1>2, <2>1, AppendIsConcat
    <3>2. /\ Append(a, e) \in Seq(Elem) /\ Len(Append(a, e)) = Len(a) + 1
          /\ Append(a, e)[Len(a) + 1] = e
          /\ \A j \in 1 .. Len(a) : Append(a, e)[j] = a[j]
      BY <1>2, <2>1
    <3>3. Len(a) + 1 = i /\ Len(a) = i - 1
      BY <2>1, <2>3
    <3> QED
      BY <3>1, <3>2, <3>3
  <2> DEFINE ae == a \o <<e>>
  <2> HIDE DEF ae
  <2>5. /\ ae \in Seq(Elem) /\ Len(ae) = i /\ ae[i] = e /\ more = ae \o b
        /\ \A j \in 1 .. i - 1 : ae[j] = a[j]
    BY <2>2, <2>4 DEF ae
  <2>6. /\ more \in Seq(Elem) /\ Len(more) = Len(ae) + Len(b)
        /\ \A j \in 1 .. Len(ae) : more[j] = ae[j]
    BY <2>1, <2>5
  <2> QED
    BY <1>2, <2>1, <2>3, <2>5, <2>6
<1>5. WellPlaced(elems)
  BY <1>1 DEF LaidOutBut, LaidOut
<1> HIDE DEF more, s, elems, e
<1>6. PlacedUpToFirst(more)
  <2> SUFFICES ASSUME NEW j \in 1 .. Len(more), \A k \in 1 .. j : more[k].info # None
               PROVE  WellAt(more, j)
    BY DEF PlacedUpToFirst
  <2>1. j < i /\ j \in Nat \ {0} /\ j \in 1 .. Len(elems) /\ \A k \in 1 .. j : k \in 1 .. i - 1
    BY <1>2, <1>4
  <2>2. WellAt(elems, j)
    BY <1>5, <2>1 DEF WellPlaced
  <2>3. \A k \in 1 .. j : elems[k].info = more[k].info
    BY <1>4, <2>1
  <2> QED
    BY <2>1, <2>2, <2>3, WellAtOfPrefix
<1>7. LaidOutBut(added, {s}) /\ added.types[s].elems = more
  <2>1. s \in Structs /\ more \in Seq(Elem)
    BY <1>1, <1>4
  <2> QED
    BY <2>1, ElemsReplaced
<1> HIDE DEF added
<1>8. LaidOutBut(t, {s}) /\ t.types = added.types
  BY <1>7, ValidateIs
<1> HIDE DEF t
<1>9. Known(t) /\ PlacedUpToFirst(t.types[s].elems)
  BY <1>6, <1>7, <1>8 DEF LaidOutBut
<1> QED
  BY <1>1, <1>3, <1>8, <1>9, UpdateChangedIs, LaidOutAgain

LEMMA SetVersionIs ==
  ASSUME world \in Worlds, LaidOutBut(dl, {}), NEW version \in world.files, SetVersion(version)
  PROVE  LaidOutBut(dl', {})
<1> DEFINE t == [dl EXCEPT !.file = version]
<1>1. Known(dl) /\ version \in Nat /\ world.order \in Seq(Structs)
  BY WorldIs, WorldsAssumption DEF LaidOutBut
<1>2. /\ DOMAIN t = DOMAIN dl /\ t.types = dl.types /\ t.info = dl.info /\ t.users = dl.users
      /\ t.file = version
  BY <1>1 DEF Known
<1>3. dl' = UpdateAllOf(t, world.order)
  BY DEF SetVersion
<1> HIDE DEF t
<1>4. Known(t)
  BY <1>1, <1>2 DEF Known
<1>5. LaidOutBut(t, {})
  BY <1>2, <1>4 DEF LaidOutBut, LaidOut
<1> QED
  BY <1>1, <1>3, <1>5, UpdateAllOfIs

LEMMA RecalculateIs ==
  ASSUME world \in Worlds, LaidOutBut(dl, {}), Recalculate
  PROVE  LaidOutBut(dl', {})
<1>1. LaidOutBut(Simple(dl), {}) /\ world.order \in Seq(Structs)
  BY SimpleIs, WorldIs
<1>2. dl' = UpdateAllOf(Simple(dl), world.order)
  BY DEF Recalculate, CalculatePositions, Simple
<1> QED
  BY <1>1, <1>2, UpdateAllOfIs

-----------------------------------------------------------------------------
(* A model is attached *)

LEMMA ModelStaysOK ==
  ASSUME NEW types, ModelOK(types, {None})
  PROVE  ModelOK(types, Infos)
<1>1. Elements(DOMAIN types, {None}) \subseteq Elements(DOMAIN types, Infos)
  BY DEF Elements, Infos
<1>2. Structlike(DOMAIN types, {None}) \subseteq Structlike(DOMAIN types, Infos)
  <2>1. Seq(Elements(DOMAIN types, {None})) \subseteq Seq(Elements(DOMAIN types, Infos))
    <3> DEFINE S == Elements(DOMAIN types, {None})
               T == Elements(DOMAIN types, Infos)
    <3> HIDE DEF S, T
    <3>1. S \subseteq T => Seq(S) \subseteq Seq(T)
      OBVIOUS
    <3> QED
      BY <1>1, <3>1 DEF S, T
  <2> QED
    BY <2>1 DEF Structlike
<1>3. \A n \in DOMAIN types :
         types[n] \in [kind : {"data"}, bits : Nat, align : OptionalNat]
                      \union [kind : {"enum"}, base : DataNames(types)]
                      \union Structlike(DOMAIN types, {None})
  BY DEF ModelOK, Structlike
<1>4. \A n \in DOMAIN types :
         types[n] \in [kind : {"data"}, bits : Nat, align : OptionalNat]
                      \union [kind : {"enum"}, base : DataNames(types)]
                      \union Structlike(DOMAIN types, Infos)
  BY <1>2, <1>3
<1> QED
  BY <1>4 DEF ModelOK, Structlike

LEMMA AttachedIs ==
  ASSUME world \in Worlds
  PROVE  LaidOutBut(Attached(world.types, world.file), {})
<1> DEFINE t == [types |-> world.types, file |-> world.file, info |-> [n \in DOMAIN world.types |-> NoInfo],
                 users |-> [n \in DOMAIN world.types |-> {}]]
           simple == Simple(t)
           nesting == world.nesting
           env == [k \in 0 .. Len(nesting) |-> {nesting[i] : i \in 1 .. k}]
           all == Attaching!Folded(1, 1, simple, nesting)
<1>1. /\ Structs = StructNames(world.types) /\ Structs \subseteq Names
      /\ nesting \in Seq(Structs) /\ DOMAIN nesting = 1 .. Len(nesting) /\ Len(nesting) \in Nat
      /\ \A s \in Structs : \E i \in 1 .. Len(nesting) : nesting[i] = s
  BY WorldIs
<1>2. LaidOutBut(t, Structs)
  <2>1. ModelOK(world.types, Infos) /\ world.file \in Nat
    BY WorldsAssumption, ModelStaysOK
  <2>2. NoInfo \in TypeInfos
    BY DEF NoInfo, TypeInfos
  <2>3. /\ DOMAIN t = {"types", "info", "users", "file"} /\ t.types = world.types
        /\ t.file = world.file /\ DOMAIN t.users = Names /\ t.info \in [Names -> TypeInfos]
    BY <2>2 DEF Names
  <2> HIDE DEF t
  <2>4. Known(t)
    BY <2>1, <2>3 DEF Known, Names
  <2> QED
    BY <2>4 DEF LaidOutBut
<1>3. LaidOutBut(simple, Structs)
  BY <1>2, SimpleIs
<1>4. Attached(world.types, world.file) = all
  BY DEF Attached, Simple, Attaching!Folded, AttachNext, FoldLeft, MapThenFoldSet, Max,
         Attaching!FoldLeft, Attaching!MapThenFoldSet, Attaching!Max
<1> HIDE DEF t, simple, nesting
<1>5. \A k \in 0 .. Len(nesting) : env[k] = {nesting[i] : i \in 1 .. k}
  OBVIOUS
<1> HIDE DEF env
<1>6. LaidOutSoFar(env, simple, 0)
  BY <1>1, <1>3, <1>5 DEF LaidOutSoFar, LaidOutBut
<1>7. ASSUME NEW i \in 1 .. Len(nesting), NEW x, LaidOutSoFar(env, x, i - 1)
      PROVE  LaidOutSoFar(env, AttachNext(1, 1, x, nesting[i]), i)
  <2> DEFINE s == nesting[i]
             v == Validate(x, s)
             u == UpdateAll(v, s)
  <2>1. s \in Structs
    BY <1>1
  <2>2. LaidOutBut(x, Structs)
    BY <1>7 DEF LaidOutSoFar, LaidOutBut
  <2>3. LaidOutBut(v, Structs) /\ v.types = x.types /\ v.info = x.info
    BY <2>2, ValidateIs
  <2> HIDE DEF v
  <2>4. Known(u) /\ LaidOut(u, s) /\ OnlyOf(s, v, u)
    BY <1>1, <2>1, <2>3, UpdateAllIs DEF LaidOutBut
  <2>5. env[i] = env[i - 1] \union {s}
    <3>1. i \in 0 .. Len(nesting) /\ i - 1 \in 0 .. Len(nesting)
      BY <1>1
    <3>2. 1 .. i = (1 .. i - 1) \union {i}
      BY <1>1
    <3> QED
      BY <1>5, <3>1, <3>2
  <2> HIDE DEF s, u
  <2>6. \A r \in env[i - 1] : r \in Names /\ LaidOut(v, r)
    BY <1>7, <2>3 DEF LaidOutSoFar, LaidOut
  <2>7. \A r \in env[i] : r \in Names /\ LaidOut(u, r)
    BY <1>1, <2>1, <2>4, <2>5, <2>6, OthersKept
  <2> QED
    BY <2>4, <2>7 DEF LaidOutSoFar, AttachNext, u, v, s
<1>8. LaidOutSoFar(env, all, Len(nesting))
  BY <1>1, <1>6, <1>7, Attaching!FoldLeftInduction
<1> HIDE DEF all
<1>9. \A s \in Structs : s \in env[Len(nesting)]
  BY <1>1, <1>5
<1>10. LaidOutBut(all, {})
  BY <1>8, <1>9 DEF LaidOutSoFar, LaidOutBut
<1> QED
  BY <1>4, <1>10

-----------------------------------------------------------------------------
(* The specification *)

LEMMA Initially == Init => IInv
  BY AttachedIs DEF Init, IInv, LaidOutBut

LEMMA Invariance == IInv /\ [Next]_vars => IInv'
<1> SUFFICES ASSUME IInv, [Next]_vars PROVE IInv'
  OBVIOUS
<1>1. world \in Worlds /\ LaidOutBut(dl, {})
  BY DEF IInv, LaidOutBut
<1>2. world' = world
  BY DEF Next, vars
<1>3. LaidOutBut(dl', {})
  <2>1. CASE \E c \in world.bits : SetBitSize(c[1], c[2])
    BY <1>1, <2>1, SetBitSizeIs
  <2>2. CASE \E c \in world.bases : SetDataTypeName(c[1], c[2])
    BY <1>1, <2>2, SetDataTypeNameIs
  <2>3. CASE \E c \in world.fields : SetField(c[1], c[2], c[3], c[4])
    BY <1>1, <2>3, SetFieldIs
  <2>4. CASE \E c \in world.attributes : SetAttribute(c[1], c[2], c[3])
    BY <1>1, <2>4, SetAttributeIs
  <2>5. CASE \E version \in world.files : SetVersion(version)
    BY <1>1, <2>5, SetVersionIs
  <2>6. CASE \E c \in world.grow : AddElement(c[1], c[2])
    BY <1>1, <2>6, AddElementIs
  <2>7. CASE \E c \in world.grow : \E i \in DOMAIN dl.types[c[1]].elems : InsertElement(c[1], i, c[2])
    BY <1>1, <2>7, InsertElementIs
  <2>8. CASE \E s \in world.shrink : \E i \in DOMAIN dl.types[s].elems : RemoveElement(s, i)
    BY <1>1, <2>8, RemoveElementIs
  <2>9. CASE \E s \in world.shrink : PopBack(s)
    BY <1>1, <2>9, PopBackIs
  <2>10. CASE Recalculate
    BY <1>1, <2>10, RecalculateIs
  <2>11. CASE UNCHANGED vars
    BY <1>1, <2>11 DEF vars
  <2> QED
    BY <2>1, <2>2, <2>3, <2>4, <2>5, <2>6, <2>7, <2>8, <2>9, <2>10, <2>11 DEF Next
<1> QED
  BY <1>1, <1>2, <1>3 DEF IInv, LaidOutBut, Known, LaidOut, Structs, Names, WellPlaced, WellAt,
                          Place, Infos

LEMMA Invariant == Spec => []IInv
  BY Initially, Invariance, PTL DEF Spec

LEMMA TypeInvariant == IInv => TypeOK
<1> SUFFICES ASSUME IInv, NEW s \in Structs
             PROVE  /\ \A i \in DOMAIN Elems(dl, s) : ElemOK(Elems(dl, s)[i])
                    /\ {dl.info[s].bits, dl.info[s].bytes, dl.info[s].aligned} \subseteq Nat
                    /\ dl.info[s].dynamic \in BOOLEAN
  BY DEF TypeOK
<1>1. Known(dl) /\ LaidOut(dl, s) /\ s \in StructNames(world.types) /\ s \in Names
  BY WorldIs DEF IInv
<1>2. dl.types[s].elems \in Seq(Elem) /\ dl.info[s] \in TypeInfos
  BY <1>1, StructIs DEF Known
<1>3. ASSUME NEW i \in DOMAIN Elems(dl, s) PROVE ElemOK(Elems(dl, s)[i])
  <2> DEFINE e == dl.types[s].elems[i]
  <2>1. i \in 1 .. Len(dl.types[s].elems) /\ Elems(dl, s)[i] = e
    BY <1>2, <1>3 DEF Elems
  <2>2. e \in Elem
    BY <1>2, <2>1
  <2>3. Place(e)
    BY <1>1, <2>1 DEF LaidOut, WellPlaced, WellAt
  <2> HIDE DEF e
  <2>4. ElemOK(e)
    BY <2>2, <2>3, ElemIs DEF ElemOK, Place, ElementInfos
  <2> QED
    BY <2>1, <2>4
<1> QED
  BY <1>2, <1>3 DEF TypeInfos

LEMMA Apart == IInv => DeserializedApart
<1> SUFFICES ASSUME IInv, NEW s \in Structs, NEW j \in DOMAIN Elems(dl, s)
             PROVE  LET f == Elems(dl, s)[j] IN
                    /\ \A i \in 1 .. j - 1 : LET e == Elems(dl, s)[i] IN
                          IsStatic(e) /\ ~f.info.after => e.info.pos + e.info.size <= f.info.pos
                    /\ ~dl.info[s].dynamic => IsStatic(f) /\ f.info.pos + f.info.size <= dl.info[s].bytes
  BY DEF DeserializedApart
<1>1. Known(dl) /\ LaidOut(dl, s) /\ s \in StructNames(world.types)
  BY WorldIs DEF IInv
<1>2. dl.types[s].elems \in Seq(Elem) /\ j \in 1 .. Len(dl.types[s].elems)
  <2>1. dl.types[s].elems \in Seq(Elem)
    BY <1>1, StructIs
  <2> QED
    BY <2>1 DEF Elems
<1>3. WellAt(dl.types[s].elems, j)
  BY <1>1, <1>2 DEF LaidOut, WellPlaced
<1> QED
  BY <1>1, <1>2, <1>3 DEF LaidOut, WellAt, Elems

\* What is known of types and elements is what a calculation leaves: every
\* element has an info, and positions unless it comes after something dynamic.
THEOREM Typing == Spec => []TypeOK
  BY Invariant, TypeInvariant, PTL

\* Deserialized elements never share a byte, and a struct that calls itself
\* static is and has room for all its elements: after every sequence of
\* changes, of which each recalculates as little as it does.
THEOREM ElementsApart == Spec => []DeserializedApart
  BY Invariant, Apart, PTL

-----------------------------------------------------------------------------
(* Where an element begins and ends when it is serialized *)

Start(e) == Value(e.bytePos) * 8 + Value(e.bitPos)
End(e) == Start(e) + e.info.bitSize

\* What an element will be when it is calculated, wherever it comes to lie
WillBeDynamic(t, e) == e.array.dynamic \/ t.info[e.type].dynamic
WillBeSize(t, e) ==
    IF WillBeDynamic(t, e) THEN 0 ELSE CalculateSerializedBitSize(e, t.info[e.type].bits)

\* q is what becomes of e: it keeps the position the user gave it, if any,
\* and has one unless it comes after something dynamic.
Took(t, e, q) ==
    /\ q.type = e.type /\ q.array = e.array /\ q.numBits = e.numBits
    /\ q.info.dynamic = WillBeDynamic(t, e) /\ q.info.bitSize = WillBeSize(t, e)
    /\ q.info.after => q.bytePos = None
    /\ ~q.info.after => q.bytePos # None /\ q.info.bytePos = q.bytePos
    /\ ~q.info.after /\ e.bytePos # None => q.bytePos = e.bytePos /\ q.bitPos = e.bitPos

LEMMA StartIs ==
  ASSUME NEW e \in Elem, Place(e)
  PROVE  Start(e) \in Nat /\ End(e) \in Nat /\ e.info.bitSize \in Nat /\ Start(e) <= End(e)
<1>1. /\ Value(e.bytePos) \in Nat /\ Value(e.bitPos) \in Nat /\ e.info.bitSize \in Nat
  BY ElemIs, ValueIs DEF Place, ElementInfos
<1> QED
  BY <1>1 DEF Start, End

LEMMA Divided ==
  ASSUME NEW n \in Nat
  PROVE  /\ (n \div 8) \in Nat /\ (n % 8) \in Nat /\ (n \div 8) * 8 + (n % 8) = n
         /\ ((n + 7) \div 8) \in Nat /\ n <= ((n + 7) \div 8) * 8
<1>1. (n \div 8) \in Nat /\ (n % 8) \in Nat
  BY SMT
<1>2. (n \div 8) * 8 + (n % 8) = n
  <2>1. n = 8 * (n \div 8) + (n % 8)
    BY SMT
  <2> DEFINE m == n \div 8
             r == n % 8
  <2> HIDE DEF m, r
  <2>2. m \in Nat /\ r \in Nat /\ n = 8 * m + r => m * 8 + r = n
    OBVIOUS
  <2> QED
    BY <1>1, <2>1, <2>2 DEF m, r
<1>3. ((n + 7) \div 8) \in Nat /\ n + 7 < ((n + 7) \div 8) * 8 + 8
  BY Quotient
<1> DEFINE m == (n + 7) \div 8
<1> HIDE DEF m
<1>4. m \in Nat /\ n + 7 < m * 8 + 8 => n <= m * 8
  OBVIOUS
<1> QED
  BY <1>1, <1>2, <1>3, <1>4 DEF m

\* The next one begins at the end of the one before it or later.
LEMMA BehindEnd ==
  ASSUME NEW p \in Elem, Place(p), p.info.bytePos = p.bytePos, p.bytePos # None, NEW bitPos
  PROVE  LET pos == Behind(p, bitPos) IN
         pos.byte \in Nat /\ End(p) <= Value(pos.byte) * 8 + Value(pos.bit)
<1> DEFINE end == p.info.bytePos * 8 + Value(p.bitPos) + p.info.bitSize
           pos == Behind(p, bitPos)
<1>1. end = End(p)
  BY ElemIs DEF End, Start, Value
<1>2. end \in Nat
  BY <1>1, StartIs
<1>3. /\ (end \div 8) \in Nat /\ (end % 8) \in Nat /\ (end \div 8) * 8 + (end % 8) = end
      /\ ((end + 7) \div 8) \in Nat /\ end <= ((end + 7) \div 8) * 8
  BY <1>2, Divided
<1>4. \/ pos.byte = end \div 8 /\ pos.bit = end % 8
      \/ pos.byte = (end + 7) \div 8 /\ pos.bit = None
  BY DEF Behind
<1> HIDE DEF end, pos
<1>5. CASE pos.byte = end \div 8 /\ pos.bit = end % 8
  <2>1. Value(pos.byte) = end \div 8 /\ Value(pos.bit) = end % 8
    BY <1>3, <1>5, NoneAssumption DEF Value
  <2> QED
    BY <1>1, <1>2, <1>3, <1>5, <2>1 DEF pos
<1>6. CASE pos.byte = (end + 7) \div 8 /\ pos.bit = None
  <2>1. Value(pos.byte) = (end + 7) \div 8 /\ Value(pos.bit) = 0
    BY <1>3, <1>6, NoneAssumption DEF Value
  <2> QED
    BY <1>1, <1>2, <1>3, <1>6, <2>1 DEF pos
<1> QED
  BY <1>4, <1>5, <1>6

\* ElementTypeInfo::update keeps a position or puts the element behind.
LEMMA TookIs ==
  ASSUME NEW t, NEW e \in Elem, t.info[e.type] \in TypeInfos, NEW prev, Before(prev), NEW version \in Nat,
         prev # << >> /\ ~prev[1].info.after
         => prev[1].bytePos # None /\ prev[1].info.bytePos = prev[1].bytePos
  PROVE  LET q == Placed(e, t.info[e.type], prev, version) IN
         /\ Took(t, e, q)
         /\ ~q.info.after /\ e.bytePos = None /\ prev # << >> => End(prev[1]) <= Start(q)
<1> DEFINE type == t.info[e.type]
           at == CalculateSerializedPos(e, prev)
           size == CalculateSerializedBitSize(e, type.bits)
           q == Placed(e, type, prev, version)
<1>1. /\ q.type = e.type /\ q.array = e.array /\ q.numBits = e.numBits
      /\ q.bytePos = (IF at.reset THEN at.byte ELSE e.bytePos)
      /\ q.bitPos = (IF at.reset THEN at.bit ELSE e.bitPos)
      /\ q.info.bytePos = at.byte /\ q.info.after = IsAfterDynamic(prev)
      /\ q.info.dynamic = (e.array.dynamic \/ type.dynamic)
      /\ q.info.bitSize = (IF e.array.dynamic \/ type.dynamic THEN 0 ELSE size)
  <2> HIDE DEF at, size, type
  <2>1. q = PlacedAt(e, type, prev, version, at)
    BY DEF Placed, at
  <2> QED
    BY <2>1, ElemIs DEF PlacedAt, size
<1>2. q.info.dynamic = WillBeDynamic(t, e) /\ q.info.bitSize = WillBeSize(t, e)
  BY <1>1 DEF WillBeDynamic, WillBeSize
<1> HIDE DEF q, size
<1>3. e.bytePos \in OptionalNat /\ e.bitPos \in OptionalNat
  BY ElemIs
<1>4. CASE IsAfterDynamic(prev)
  <2>1. at.byte = None /\ at.reset
    BY <1>4 DEF CalculateSerializedPos
  <2> QED
    BY <1>1, <1>2, <1>4, <2>1 DEF Took, q
<1>5. CASE ~IsAfterDynamic(prev) /\ e.bytePos # None
  <2>1. at.byte = e.bytePos /\ at.reset = FALSE
    BY <1>5 DEF CalculateSerializedPos
  <2> QED
    BY <1>1, <1>2, <1>5, <2>1 DEF Took, q
<1>6. CASE ~IsAfterDynamic(prev) /\ e.bytePos = None /\ prev = << >>
  <2>1. at.byte = 0 /\ at.reset
    BY <1>6 DEF CalculateSerializedPos
  <2>2. 0 # None
    BY NoneAssumption
  <2> QED
    BY <1>1, <1>2, <1>6, <2>1, <2>2 DEF Took, q
<1>7. CASE ~IsAfterDynamic(prev) /\ e.bytePos = None /\ prev # << >>
  <2>1. PICK p \in Elem : prev = <<p>> /\ Place(p)
    BY <1>7 DEF Before
  <2>2. prev[1] = p /\ ~p.info.after
    BY <1>7, <2>1 DEF IsAfterDynamic
  <2>3. at = Behind(p, e.bitPos)
    BY <1>7, <2>2 DEF CalculateSerializedPos
  <2>4. p.bytePos # None /\ p.info.bytePos = p.bytePos
    BY <1>7, <2>2
  <2>5. at.byte \in Nat /\ End(p) <= Value(at.byte) * 8 + Value(at.bit)
    BY <2>1, <2>3, <2>4, BehindEnd
  <2>6. at.reset
    BY <2>3 DEF Behind
  <2>7. at.byte # None
    BY <2>5, NoneAssumption
  <2> HIDE DEF at
  <2>8. q.bytePos = at.byte /\ q.bitPos = at.bit
    BY <1>1, <2>6
  <2>9. Took(t, e, q)
    BY <1>1, <1>2, <1>7, <2>7, <2>8 DEF Took
  <2>10. End(p) <= Start(q)
    BY <2>5, <2>8 DEF Start
  <2> QED
    BY <2>2, <2>9, <2>10 DEF q
<1> QED
  BY <1>4, <1>5, <1>6, <1>7

-----------------------------------------------------------------------------
(* All elements of a struct calculated again *)

\* What comes after something dynamic, or after such an element, is marked.
Marked(elems) ==
    \A j \in 1 .. Len(elems) : \A i \in 1 .. j - 1 :
        elems[i].info.dynamic \/ elems[i].info.after => elems[j].info.after
\* Before the calculation: the positions the user gave are in order.
InOrder(t, elems) ==
    \A j \in 1 .. Len(elems) : elems[j].bytePos # None =>
        \A i \in 1 .. j - 1 :
            elems[i].bytePos # None /\ Start(elems[i]) + WillBeSize(t, elems[i]) <= Start(elems[j])
\* And after it: those with positions lie one behind the other.
Rising(elems) ==
    \A j \in 1 .. Len(elems) : ~elems[j].info.after =>
        \A i \in 1 .. j - 1 : End(elems[i]) <= Start(elems[j])

TakenTo(env, w, k) ==
    /\ Walking(w) /\ Len(w.elems) = k /\ w.updated
    /\ \A j \in 1 .. k : Took(env.t, env.elems[j], w.elems[j])
    /\ Marked(w.elems)
    /\ InOrder(env.t, env.elems) => Rising(w.elems)
Taking == INSTANCE FoldTheorems WITH Op <- VisitNext, Inv <- TakenTo

LEMMA VisitAllIs ==
  ASSUME NEW t, NEW w, Walking(w), w.updated, NEW e, NEW version
  PROVE  LET v == Visit(t, w, e, version) IN
         /\ v.elems = Append(w.elems, Placed(e, t.info[e.type], Previous(w.elems), version))
         /\ v.updated
<1> DEFINE q == Placed(e, t.info[e.type], Previous(w.elems), version)
           u == [w EXCEPT !.updated = TRUE]
<1>1. Visit(t, w, e, version) = Visited(u, q)
  BY DEF Visit, Previous
<1>2. u.elems = w.elems /\ u.updated
  BY DEF Walking, WalkTyped
<1> HIDE DEF q, u
<1> QED
  BY <1>1, <1>2 DEF Visited, q

\* One more element: it is put behind the last, or it has a position of its
\* own, and then so had all before it.
LEMMA TakenOn ==
  ASSUME NEW t, Known(t), NEW elems \in Seq(Elem), NEW i \in 1 .. Len(elems), NEW version \in Nat,
         NEW w, TakenTo([t |-> t, elems |-> elems], w, i - 1)
  PROVE  TakenTo([t |-> t, elems |-> elems], Visit(t, w, elems[i], version), i)
<1> DEFINE env == [t |-> t, elems |-> elems]
           e == elems[i]
           prev == Previous(w.elems)
           q == Placed(e, t.info[e.type], prev, version)
           v == Visit(t, w, e, version)
<1>1. /\ Walking(w) /\ w.elems \in Seq(Elem) /\ Len(w.elems) = i - 1 /\ w.updated /\ i \in Nat
      /\ WellPlaced(w.elems) /\ e \in Elem
      /\ \A j \in 1 .. i - 1 : Took(t, elems[j], w.elems[j])
      /\ Marked(w.elems) /\ (InOrder(t, elems) => Rising(w.elems))
  BY DEF TakenTo, Walking, WalkTyped
<1>2. /\ v.elems = Append(w.elems, q) /\ v.updated
  BY <1>1, VisitAllIs
<1>3. Walking(v)
  BY <1>1, VisitIs
<1>4. /\ Len(v.elems) = i /\ v.elems[i] = q
      /\ \A j \in 1 .. i - 1 : v.elems[j] = w.elems[j]
      /\ \A j \in 1 .. i : j = i \/ j \in 1 .. i - 1
  <2> HIDE DEF q, v
  <2> QED
    BY <1>1, <1>2
<1>5. Before(prev) /\ t.info[e.type] \in TypeInfos
  BY <1>1, PreviousIs, ElemIs DEF Known
<1> DEFINE p == w.elems[i - 1]
<1>6. CASE i = 1
  <2>1. prev = << >>
    BY <1>1, <1>6 DEF Previous
  <2>2. Took(t, e, q)
    BY <1>1, <1>5, <2>1, TookIs
  <2> HIDE DEF q, v
  <2>3. Marked(v.elems) /\ Rising(v.elems)
    BY <1>4, <1>6 DEF Marked, Rising
  <2> QED
    BY <1>2, <1>3, <1>4, <1>6, <2>2, <2>3 DEF TakenTo, v
<1>7. CASE i # 1
  <2>1. /\ i - 1 \in 1 .. i - 1 /\ p \in Elem /\ prev = <<p>> /\ prev[1] = p /\ prev # << >>
    BY <1>1, <1>7 DEF Previous, Last
  <2>2. Took(t, elems[i - 1], p) /\ Place(p)
    BY <1>1, <2>1 DEF WellPlaced, WellAt
  <2>3. ~p.info.after => p.bytePos # None /\ p.info.bytePos = p.bytePos
    BY <2>2 DEF Took
  <2>4. /\ Took(t, e, q)
        /\ ~q.info.after /\ e.bytePos = None => End(p) <= Start(q)
    BY <1>1, <1>5, <2>1, <2>3, TookIs
  <2>5. q.info.after <=> p.info.dynamic \/ p.info.after
    BY <1>1, <1>5, <2>1, PlacedIs DEF IsAfterDynamic
  <2> HIDE DEF q, v, p, prev
  <2>6. \A j \in 1 .. i : Took(t, elems[j], v.elems[j])
    BY <1>1, <1>4, <2>4
  <2>7. \A j \in 1 .. i - 1 : w.elems[j].info.dynamic \/ w.elems[j].info.after => q.info.after
    <3> SUFFICES ASSUME NEW j \in 1 .. i - 1, w.elems[j].info.dynamic \/ w.elems[j].info.after
                 PROVE  q.info.after
      OBVIOUS
    <3>1. CASE j = i - 1
      BY <2>5, <3>1 DEF p
    <3>2. CASE j # i - 1
      <4>1. j \in 1 .. (i - 1) - 1 /\ i - 1 \in 1 .. Len(w.elems)
        BY <1>1, <2>1, <3>2
      <4>2. p.info.after
        BY <1>1, <4>1 DEF Marked, p
      <4> QED
        BY <2>5, <4>2
    <3> QED
      BY <3>1, <3>2
  <2>8. Marked(v.elems)
    <3> SUFFICES ASSUME NEW j \in 1 .. i, NEW k \in 1 .. j - 1,
                        v.elems[k].info.dynamic \/ v.elems[k].info.after
                 PROVE  v.elems[j].info.after
      BY <1>4 DEF Marked
    <3>1. k \in 1 .. i - 1 /\ v.elems[k] = w.elems[k]
      BY <1>1, <1>4
    <3>2. CASE j = i
      BY <1>4, <2>7, <3>1, <3>2
    <3>3. CASE j \in 1 .. i - 1
      BY <1>1, <1>4, <3>1, <3>3 DEF Marked
    <3> QED
      BY <1>4, <3>2, <3>3
  <2>9. ASSUME InOrder(t, elems), ~q.info.after, NEW k \in 1 .. i - 1
        PROVE  End(w.elems[k]) <= Start(q)
    <3> DEFINE o == elems[k]
               r == w.elems[k]
    <3>1. ~r.info.dynamic /\ ~r.info.after /\ Took(t, o, r) /\ Rising(w.elems)
      BY <1>1, <2>7, <2>9
    <3>2. r \in Elem /\ Place(r) /\ k \in 1 .. Len(w.elems)
      BY <1>1, <2>9 DEF WellPlaced, WellAt
    <3>3. CASE e.bytePos # None
      <4>1. o.bytePos # None /\ Start(o) + WillBeSize(t, o) <= Start(e)
        BY <2>9, <3>3 DEF InOrder
      <4>2. q.bytePos = e.bytePos /\ q.bitPos = e.bitPos
        BY <2>4, <2>9, <3>3 DEF Took
      <4>3. r.bytePos = o.bytePos /\ r.bitPos = o.bitPos /\ r.info.bitSize = WillBeSize(t, o)
        BY <3>1, <4>1 DEF Took
      <4> HIDE DEF o, r
      <4>4. Start(q) = Start(e) /\ End(r) = Start(o) + WillBeSize(t, o)
        BY <4>2, <4>3 DEF Start, End
      <4> QED
        BY <4>1, <4>4 DEF r
    <3>4. CASE e.bytePos = None /\ k = i - 1
      BY <2>4, <2>9, <3>4 DEF p
    <3>5. CASE e.bytePos = None /\ k # i - 1
      <4>1. ~p.info.after
        BY <2>5, <2>9
      <4>2. k \in 1 .. (i - 1) - 1 /\ i - 1 \in 1 .. Len(w.elems)
        BY <1>1, <2>1, <3>5
      <4>3. End(r) <= Start(p)
        BY <3>1, <4>1, <4>2 DEF Rising, p
      <4>4. End(p) <= Start(q)
        BY <2>4, <2>9, <3>5
      <4>5. Start(p) \in Nat /\ End(p) \in Nat /\ Start(p) <= End(p) /\ End(r) \in Nat
        BY <2>1, <2>2, <3>2, StartIs
      <4>6. q \in Elem /\ Place(q)
        BY <1>1, <1>5, PlacedIs DEF q
      <4>7. Start(q) \in Nat
        BY <4>6, StartIs
      <4> HIDE DEF r
      <4> QED
        BY <4>3, <4>4, <4>5, <4>7 DEF r
    <3> QED
      BY <3>3, <3>4, <3>5
  <2>10. ASSUME InOrder(t, elems) PROVE Rising(v.elems)
    <3> SUFFICES ASSUME NEW j \in 1 .. i, ~v.elems[j].info.after, NEW k \in 1 .. j - 1
                 PROVE  End(v.elems[k]) <= Start(v.elems[j])
      BY <1>4 DEF Rising
    <3>1. k \in 1 .. i - 1 /\ v.elems[k] = w.elems[k]
      BY <1>1, <1>4
    <3>2. CASE j = i
      BY <1>4, <2>9, <2>10, <3>1, <3>2
    <3>3. CASE j \in 1 .. i - 1
      BY <1>1, <1>4, <2>10, <3>1, <3>3 DEF Rising
    <3> QED
      BY <1>4, <3>2, <3>3
  <2>11. TakenTo(env, v, i)
    BY <1>2, <1>3, <1>4, <2>6, <2>8, <2>10 DEF TakenTo
  <2> QED
    BY <2>11 DEF v
<1> QED
  BY <1>6, <1>7

\* The elements of a struct once all have been calculated again
LEMMA CalculatedIs ==
  ASSUME NEW t, Known(t), NEW s \in StructNames(world.types)
  PROVE  LET old == t.types[s].elems
             new == UpdateAll(t, s).types[s].elems
         IN  /\ new \in Seq(Elem) /\ WellPlaced(new) /\ Len(new) = Len(old)
             /\ \A j \in 1 .. Len(old) : Took(t, old[j], new[j])
             /\ Marked(new)
             /\ InOrder(t, old) => Rising(new)
<1> DEFINE elems == t.types[s].elems
           start == From(<< >>, FALSE, TRUE)
           version == Relevant(t, s)
           w == FoldLeft(LAMBDA g, e : Visit(t, g, e, version), start, elems)
           env == [t |-> t, elems |-> elems]
<1>1. w = Taking!Folded(t, version, start, elems)
  BY DEF Taking!Folded, VisitNext, FoldLeft, MapThenFoldSet, Max,
         Taking!FoldLeft, Taking!MapThenFoldSet, Taking!Max
<1>2. elems \in Seq(Elem) /\ version \in Nat
  BY StructIs
<1>3. Len(elems) \in Nat /\ DOMAIN elems = 1 .. Len(elems)
  BY <1>2
<1>4. Walking(start) /\ start.elems = << >> /\ start.updated
  BY FromNone
<1>5. UpdateAll(t, s) = Walked(t, s, w)
  BY DEF UpdateAll, Walk
<1> HIDE DEF w, start, version, elems
<1>6. TakenTo(env, start, 0)
  <2>1. Len(start.elems) = 0
    BY <1>4
  <2> QED
    BY <1>4, <2>1 DEF TakenTo, Marked, Rising
<1>7. ASSUME NEW i \in 1 .. Len(elems), NEW g, TakenTo(env, g, i - 1)
      PROVE  TakenTo(env, VisitNext(t, version, g, elems[i]), i)
  BY <1>2, <1>7, TakenOn DEF VisitNext
<1> HIDE DEF env
<1>8. TakenTo(env, w, Len(elems))
  BY <1>1, <1>3, <1>6, <1>7, Taking!FoldLeftInduction
<1>9. s \in Names /\ Known(t) /\ t.types[s] \in Structlike(Names, Infos)
  BY StructIs
<1>10. Walked(t, s, w).types[s].elems = w.elems
  BY <1>9 DEF Walked, Known, Structlike
<1> QED
  BY <1>5, <1>8, <1>10 DEF TakenTo, Walking, WalkTyped, env, elems

\* In a struct that is up to date, the serialized elements with positions are
\* in order when they lie one behind the other.
LEMMA AscendingInOrder ==
  ASSUME NEW t, Known(t), NEW s \in StructNames(world.types), UpdateAll(t, s) = t, Ascending(t, s)
  PROVE  InOrder(t, t.types[s].elems)
<1> DEFINE elems == t.types[s].elems
<1>1. /\ elems \in Seq(Elem) /\ Marked(elems)
      /\ \A j \in 1 .. Len(elems) : Took(t, elems[j], elems[j])
  BY CalculatedIs
<1> HIDE DEF elems
<1> SUFFICES ASSUME NEW j \in 1 .. Len(elems), elems[j].bytePos # None, NEW i \in 1 .. j - 1
             PROVE  /\ elems[i].bytePos # None
                    /\ Start(elems[i]) + WillBeSize(t, elems[i]) <= Start(elems[j])
  BY DEF InOrder, elems
<1>2. i \in 1 .. Len(elems) /\ i < j /\ DOMAIN elems = 1 .. Len(elems)
  BY <1>1
<1>3. ~elems[j].info.after
  BY <1>1 DEF Took
<1>4. ~elems[i].info.after /\ ~elems[i].info.dynamic
  BY <1>1, <1>3 DEF Marked
<1>5. elems[i].bytePos # None /\ elems[i].info.bitSize = WillBeSize(t, elems[i])
  BY <1>1, <1>2, <1>4 DEF Took
<1>6. GetSerializedHighestBit(elems[i]) <= Value(elems[j].bytePos) * 8 + Value(elems[j].bitPos)
  BY <1>2, <1>3, <1>4 DEF Ascending, Elems, IsStatic, elems
<1>7. GetSerializedHighestBit(elems[i]) = Start(elems[i]) + WillBeSize(t, elems[i])
  BY <1>4, <1>5 DEF GetSerializedHighestBit, Start, IsStatic
<1> QED
  BY <1>5, <1>6, <1>7 DEF Start

LEMMA RisingAscends ==
  ASSUME NEW t, NEW s, t.types[s].elems \in Seq(Elem), Rising(t.types[s].elems)
  PROVE  Ascending(t, s)
<1> DEFINE elems == t.types[s].elems
<1> SUFFICES ASSUME NEW i \in DOMAIN elems, NEW j \in DOMAIN elems, i < j, IsStatic(elems[i]),
                    ~elems[j].info.after
             PROVE  GetSerializedHighestBit(elems[i]) <= Value(elems[j].bytePos) * 8 + Value(elems[j].bitPos)
  BY DEF Ascending, Elems
<1> HIDE DEF elems
<1>1. j \in 1 .. Len(elems) /\ i \in 1 .. j - 1
  BY DEF elems
<1>2. End(elems[i]) <= Start(elems[j])
  BY <1>1 DEF Rising, elems
<1>3. GetSerializedHighestBit(elems[i]) = End(elems[i])
  BY DEF GetSerializedHighestBit, End, Start
<1> QED
  BY <1>2, <1>3 DEF Start

LEMMA RemovedInOrder ==
  ASSUME NEW t, NEW elems \in Seq(Elem), InOrder(t, elems), NEW i \in DOMAIN elems
  PROVE  InOrder(t, RemoveAt(elems, i)) /\ RemoveAt(elems, i) \in Seq(Elem)
<1> DEFINE less == RemoveAt(elems, i)
           At(j) == IF j < i THEN j ELSE j + 1
<1>1. i \in 1 .. Len(elems) /\ Len(elems) \in Nat
  OBVIOUS
<1>2. /\ less \in Seq(Elem) /\ Len(less) = Len(elems) - 1
      /\ \A j \in 1 .. Len(elems) - 1 : less[j] = elems[At(j)]
  <2> DEFINE before == SubSeq(elems, 1, i - 1)
             behind == SubSeq(elems, i + 1, Len(elems))
  <2>1. /\ before \in Seq(Elem) /\ Len(before) = i - 1
        /\ \A j \in 1 .. i - 1 : before[j] = elems[j]
    BY <1>1
  <2>2. /\ behind \in Seq(Elem) /\ Len(behind) = Len(elems) - i
        /\ \A j \in 1 .. Len(elems) - i : behind[j] = elems[j + i]
    BY <1>1
  <2>3. less = before \o behind
    BY DEF RemoveAt
  <2> HIDE DEF before, behind, less
  <2>4. less \in Seq(Elem) /\ Len(less) = Len(elems) - 1
    BY <1>1, <2>1, <2>2, <2>3
  <2>5. ASSUME NEW j \in 1 .. Len(elems) - 1 PROVE less[j] = elems[At(j)]
    <3>1. CASE j < i
      <4>1. j \in 1 .. i - 1
        BY <1>1, <3>1
      <4>2. less[j] = before[j]
        BY <1>1, <2>1, <2>2, <2>3, <4>1
      <4> QED
        BY <2>1, <3>1, <4>1, <4>2
    <3>2. CASE ~(j < i)
      <4>1. less[j] = behind[j - (i - 1)]
        <5>1. j \in 1 .. Len(before) + Len(behind) /\ ~(j <= Len(before)) /\ Len(before) = i - 1
          BY <1>1, <2>1, <2>2, <3>2
        <5>2. before \in Seq(Elem) /\ behind \in Seq(Elem)
          BY <2>1, <2>2
        <5>3. (before \o behind)[j] = behind[j - Len(before)]
          BY <5>1, <5>2
        <5> QED
          BY <2>3, <5>1, <5>3
      <4>2. j - (i - 1) \in 1 .. Len(elems) - i /\ (j - (i - 1)) + i = j + 1
        BY <1>1, <3>2
      <4> QED
        BY <2>2, <3>2, <4>1, <4>2
    <3> QED
      BY <3>1, <3>2
  <2> QED
    BY <2>4, <2>5
<1>3. \A j \in 1 .. Len(elems) - 1 : At(j) \in 1 .. Len(elems) /\ \A k \in 1 .. j - 1 : At(k) \in 1 .. At(j) - 1
  BY <1>1
<1> HIDE DEF less, At
<1>4. \A j \in 1 .. Len(elems) - 1 : \A k \in 1 .. j - 1 : k \in 1 .. Len(elems) - 1
  BY <1>1
<1>5. InOrder(t, less)
  BY <1>2, <1>3, <1>4 DEF InOrder
<1> QED
  BY <1>2, <1>5 DEF less

\* The types' infos and the struct's other attributes stay, so an element
\* becomes what it would have become.
LEMMA InOrderOf ==
  ASSUME NEW t, NEW u, t.info = u.info, NEW elems, InOrder(t, elems)
  PROVE  InOrder(u, elems)
  BY DEF InOrder, WillBeSize, WillBeDynamic

LEMMA RemoveStaysApart ==
  ASSUME world \in Worlds, LaidOutBut(dl, {}), NEW s \in Structs, UpToDate(dl), Ascending(dl, s),
         Removes(s)
  PROVE  Ascending(dl', s)
<1>1. PICK i \in DOMAIN dl.types[s].elems : RemoveElement(s, i)
  BY DEF Removes, Elems
<1> DEFINE elems == dl.types[s].elems
           less == RemoveAt(elems, i)
           removed == WithElems(dl, s, less)
           updated == UpdateAll(removed, s)
<1>2. s \in StructNames(world.types) /\ Known(dl) /\ elems \in Seq(Elem)
  BY WorldIs, StructIs DEF LaidOutBut
<1>3. InOrder(dl, elems)
  BY <1>2, AscendingInOrder DEF UpToDate
<1>4. less \in Seq(Elem) /\ InOrder(dl, less)
  BY <1>2, <1>3, RemovedInOrder
<1>5. dl' = Validate(updated, s)
  BY <1>1 DEF RemoveElement, WithElems
<1> HIDE DEF less
<1>6. LaidOutBut(removed, {s}) /\ removed.types[s].elems = less /\ removed.info = dl.info
  BY <1>4, ElemsReplaced
<1> HIDE DEF removed
<1>7. Known(removed) /\ InOrder(removed, less)
  BY <1>4, <1>6, InOrderOf DEF LaidOutBut
<1>8. updated.types[s].elems \in Seq(Elem) /\ Rising(updated.types[s].elems)
  BY <1>2, <1>6, <1>7, CalculatedIs
<1>9. LaidOutBut(updated, {})
  BY <1>2, <1>6, <1>7, UpdateAllIs, LaidOutAgain
<1> HIDE DEF updated
<1>10. dl'.types = updated.types
  BY <1>5, <1>9, ValidateIs
<1>11. dl'.types[s].elems \in Seq(Elem) /\ Rising(dl'.types[s].elems)
  BY <1>8, <1>10
<1> QED
  BY <1>11, RisingAscends

-----------------------------------------------------------------------------
(* Only the last element calculated *)

LastOf(t, elems, version) ==
    LET e == Last(elems) IN
    IF e.info = None THEN Placed(e, t.info[e.type], Previous(Front(elems)), version) ELSE e

KeptTo(env, w, k) ==
    /\ w.elems \in Seq(Elem) /\ Len(w.elems) = k /\ {"elems", "updated"} \subseteq DOMAIN w
    /\ k < Len(env.elems) => ~w.updated
    /\ \A j \in 1 .. k : w.elems[j] = IF j < Len(env.elems) THEN env.elems[j] ELSE env.last
Keeping == INSTANCE FoldTheorems WITH Op <- VisitNext, Inv <- KeptTo

LEMMA FrontIs ==
  ASSUME NEW S, NEW a \in Seq(S), Len(a) # 0
  PROVE  /\ Front(a) \in Seq(S) /\ Len(Front(a)) = Len(a) - 1
         /\ \A j \in 1 .. Len(a) - 1 : Front(a)[j] = a[j]
<1> DEFINE n == Len(a) - 1
<1>1. Front(a) = SubSeq(a, 1, n) /\ n \in Nat /\ Len(a) = n + 1
  BY DEF Front
<1>2. \A i \in 1 .. n : a[i] \in S
  BY <1>1
<1> HIDE DEF n
<1>3. /\ SubSeq(a, 1, n) \in Seq(S)
      /\ Len(SubSeq(a, 1, n)) = IF 1 <= n THEN n - 1 + 1 ELSE 0
      /\ \A i \in 1 .. n - 1 + 1 : SubSeq(a, 1, n)[i] = a[1 + i - 1]
  BY <1>1, <1>2, SubSeqProperties
<1>4. (IF 1 <= n THEN n - 1 + 1 ELSE 0) = n /\ n - 1 + 1 = n /\ \A i \in 1 .. n : 1 + i - 1 = i
  BY <1>1
<1> QED
  BY <1>1, <1>3, <1>4 DEF n

LEMMA VisitedIs ==
  ASSUME NEW t, NEW w, {"elems", "updated"} \subseteq DOMAIN w, ~w.updated, NEW e, NEW version
  PROVE  LET v == Visit(t, w, e, version)
             q == IF e.info = None THEN Placed(e, t.info[e.type], Previous(w.elems), version) ELSE e
         IN  /\ v.elems = Append(w.elems, q) /\ {"elems", "updated"} \subseteq DOMAIN v
             /\ e.info # None => ~v.updated
<1> DEFINE q == IF e.info = None THEN Placed(e, t.info[e.type], Previous(w.elems), version) ELSE e
           u == [w EXCEPT !.updated = TRUE]
<1>1. u.elems = w.elems
  OBVIOUS
<1>2. e.info = None => Visit(t, w, e, version) = Visited(u, q)
  BY DEF Visit, Previous
<1>3. e.info # None => Visit(t, w, e, version) = Visited(w, q)
  BY DEF Visit, Previous
<1> HIDE DEF q, u
<1> QED
  BY <1>1, <1>2, <1>3 DEF Visited, q

LEMMA KeptOn ==
  ASSUME NEW t, NEW elems \in Seq(Elem), \A j \in 1 .. Len(elems) - 1 : elems[j].info # None,
         NEW version, NEW last \in Elem, last = LastOf(t, elems, version), NEW i \in 1 .. Len(elems),
         NEW w, KeptTo([elems |-> elems, last |-> last], w, i - 1)
  PROVE  KeptTo([elems |-> elems, last |-> last], Visit(t, w, elems[i], version), i)
<1> DEFINE env == [elems |-> elems, last |-> last]
           n == Len(elems)
           e == elems[i]
           q == IF e.info = None THEN Placed(e, t.info[e.type], Previous(w.elems), version) ELSE e
           v == Visit(t, w, e, version)
<1>1. /\ n \in Nat /\ i \in 1 .. n /\ e \in Elem
      /\ w.elems \in Seq(Elem) /\ Len(w.elems) = i - 1 /\ {"elems", "updated"} \subseteq DOMAIN w
      /\ ~w.updated
      /\ \A j \in 1 .. i - 1 : w.elems[j] = elems[j]
  BY DEF KeptTo
<1>2. /\ v.elems = Append(w.elems, q) /\ {"elems", "updated"} \subseteq DOMAIN v
      /\ e.info # None => ~v.updated
  BY <1>1, VisitedIs
<1> HIDE DEF v
<1>3. q = IF i < n THEN e ELSE last
  <2>1. CASE i < n
    <3>1. i \in 1 .. Len(elems) - 1
      BY <1>1, <2>1
    <3>2. e.info # None
      BY <3>1
    <3>3. q = e
      BY <3>2
    <3> HIDE DEF q, e
    <3> QED
      BY <2>1, <3>3
  <2>2. CASE i = n
    <3>1. Front(elems) \in Seq(Elem) /\ Len(Front(elems)) = n - 1 /\ \A j \in 1 .. n - 1 : Front(elems)[j] = elems[j]
      BY <1>1, FrontIs
    <3>2. w.elems = Front(elems)
      BY <1>1, <2>2, <3>1, SeqEqual
    <3>3. Last(elems) = e
      BY <2>2 DEF Last
    <3> QED
      BY <1>1, <2>2, <3>2, <3>3 DEF LastOf
  <2> QED
    BY <1>1, <2>1, <2>2
<1>4. q \in Elem
  BY <1>1, <1>3
<1>5. i < n => e.info # None
  BY <1>1
<1> HIDE DEF q, n
<1>6. /\ v.elems \in Seq(Elem) /\ Len(v.elems) = i /\ v.elems[i] = q
      /\ \A j \in 1 .. i - 1 : v.elems[j] = elems[j]
  BY <1>1, <1>2, <1>4
<1>7. \A j \in 1 .. i : j = i \/ (j \in 1 .. i - 1 /\ j < n)
  BY <1>1
<1>8. \A j \in 1 .. i : v.elems[j] = IF j < n THEN elems[j] ELSE last
  BY <1>3, <1>6, <1>7
<1>9. env.elems = elems /\ env.last = last
  OBVIOUS
<1> HIDE DEF env
<1>10. KeptTo(env, v, i)
  BY <1>2, <1>5, <1>6, <1>8, <1>9 DEF KeptTo, n
<1> QED
  BY <1>10 DEF v, env

\* The elements of a struct once only the last has been calculated
LEMMA LastCalculated ==
  ASSUME NEW t, Known(t), NEW s \in StructNames(world.types),
         LastMayBeNew(t.types[s].elems, t.info[s].dynamic)
  PROVE  LET old == t.types[s].elems
             new == UpdateLast(t, s).types[s].elems
         IN  /\ Len(new) = Len(old) /\ \A j \in 1 .. Len(old) - 1 : new[j] = old[j]
             /\ Len(old) > 0 => new[Len(old)] = LastOf(t, old, Relevant(t, s))
<1> DEFINE elems == t.types[s].elems
           n == Len(elems)
           version == Relevant(t, s)
           last == IF n = 0 THEN CHOOSE e \in Elem : TRUE ELSE LastOf(t, elems, version)
           env == [elems |-> elems, last |-> last]
           start == From(<< >>, t.info[s].dynamic, FALSE)
           front == From(Front(elems), t.info[s].dynamic, FALSE)
<1>1. /\ s \in Names /\ t.types[s] \in Structlike(Names, Infos) /\ elems \in Seq(Elem) /\ version \in Nat
      /\ n \in Nat /\ DOMAIN elems = 1 .. n
  BY StructIs
<1>2. \A j \in 1 .. n - 1 : WellAt(elems, j) /\ elems[j].info # None
  BY <1>1, NoInfoAssumption DEF LastMayBeNew, WellAt, Place
<1>3. n > 0 => LastOf(t, elems, version) \in Elem
  <2> SUFFICES ASSUME n > 0 PROVE LastOf(t, elems, version) \in Elem
    OBVIOUS
  <2>1. Last(elems) \in Elem /\ t.info[Last(elems).type] \in TypeInfos
    BY <1>1, ElemIs DEF Last, Known
  <2>2. /\ Front(elems) \in Seq(Elem) /\ Len(Front(elems)) = n - 1
        /\ \A j \in 1 .. n - 1 : Front(elems)[j] = elems[j]
    BY <1>1, FrontIs
  <2>3. WellPlaced(Front(elems))
    <3> SUFFICES ASSUME NEW j \in 1 .. n - 1 PROVE WellAt(Front(elems), j)
      BY <2>2 DEF WellPlaced
    <3>1. j \in Nat \ {0} /\ \A i \in 1 .. j : i \in 1 .. n - 1
      BY <1>1
    <3>2. \A i \in 1 .. j : elems[i].info = Front(elems)[i].info
      BY <2>2, <3>1
    <3> QED
      BY <1>2, <3>1, <3>2, WellAtOfPrefix
  <2>4. Before(Previous(Front(elems)))
    BY <2>2, <2>3, PreviousIs
  <2> QED
    BY <1>1, <2>1, <2>4, PlacedIs DEF LastOf
<1> HIDE DEF version
<1>4. ASSUME NEW i \in 1 .. n, NEW g, KeptTo(env, g, i - 1)
      PROVE  KeptTo(env, Visit(t, g, elems[i], version), i)
  <2> DEFINE l == LastOf(t, elems, version)
  <2>1. n # 0 /\ l \in Elem /\ last = l
    BY <1>1, <1>3
  <2> HIDE DEF l, n, elems
  <2>2. KeptTo([elems |-> elems, last |-> l], g, i - 1)
    BY <1>4, <2>1
  <2>3. KeptTo([elems |-> elems, last |-> l], Visit(t, g, elems[i], version), i)
    BY <1>1, <1>2, <2>1, <2>2, KeptOn DEF l, n
  <2> QED
    BY <2>1, <2>3
<1>5. \E w : KeptTo(env, w, n) /\ UpdateLast(t, s) = Walked(t, s, w)
  <2>1. CASE ~(n > 2)
    <3> DEFINE w == FoldLeft(LAMBDA g, e : Visit(t, g, e, version), start, elems)
    <3>1. w = Keeping!Folded(t, version, start, elems)
      BY DEF Keeping!Folded, VisitNext, FoldLeft, MapThenFoldSet, Max,
             Keeping!FoldLeft, Keeping!MapThenFoldSet, Keeping!Max
    <3>2. UpdateLast(t, s) = Walked(t, s, w)
      BY <2>1 DEF UpdateLast, Walk, version
    <3>3. KeptTo(env, start, 0)
      <4>1. start.elems = << >> /\ start.updated = FALSE /\ {"elems", "updated"} \subseteq DOMAIN start
        BY DEF From
      <4>2. << >> \in Seq(Elem) /\ Len(<< >>) = 0
        OBVIOUS
      <4> HIDE DEF start
      <4> QED
        BY <4>1, <4>2 DEF KeptTo
    <3> HIDE DEF w, start, env, elems
    <3>4. \A i \in 1 .. n : \A g : KeptTo(env, g, i - 1) => KeptTo(env, VisitNext(t, version, g, elems[i]), i)
      BY <1>4 DEF VisitNext
    <3> HIDE DEF n
    <3>5. KeptTo(env, Keeping!Folded(t, version, start, elems), n)
      BY <1>1, <3>3, <3>4, Keeping!FoldLeftInduction
    <3> QED
      BY <3>1, <3>2, <3>5
  <2>2. CASE n > 2
    <3> DEFINE w == Visit(t, front, elems[n], version)
    <3>1. UpdateLast(t, s) = Walked(t, s, FoldLeft(LAMBDA g, x : Visit(t, g, x, version), front, <<elems[n]>>))
      BY <1>1, <2>2 DEF UpdateLast, Walk, version, Last
    <3>2. FoldLeft(LAMBDA g, x : Visit(t, g, x, version), front, <<elems[n]>>) = w
      <4>1. FoldLeft(LAMBDA g, x : Visit(t, g, x, version), front, <<elems[n]>>)
            = Keeping!Folded(t, version, front, <<elems[n]>>)
        BY DEF Keeping!Folded, VisitNext, FoldLeft, MapThenFoldSet, Max,
               Keeping!FoldLeft, Keeping!MapThenFoldSet, Keeping!Max
      <4> QED
        BY <4>1, Keeping!FoldLeftOne DEF VisitNext
    <3>3. KeptTo(env, front, n - 1)
      <4>1. /\ Front(elems) \in Seq(Elem) /\ Len(Front(elems)) = n - 1
            /\ \A j \in 1 .. n - 1 : Front(elems)[j] = elems[j]
        BY <1>1, <2>2, FrontIs
      <4>2. front.elems = Front(elems) /\ front.updated = FALSE /\ {"elems", "updated"} \subseteq DOMAIN front
        BY DEF From
      <4>3. \A j \in 1 .. n - 1 : j < n
        BY <1>1
      <4> HIDE DEF front, n, elems
      <4> QED
        BY <4>1, <4>2, <4>3 DEF KeptTo, n
    <3>4. n \in 1 .. n
      BY <1>1, <2>2
    <3>5. KeptTo(env, w, n)
      BY <1>4, <3>3, <3>4
    <3> QED
      BY <3>1, <3>2, <3>5
  <2> QED
    BY <2>1, <2>2
<1>6. PICK w : KeptTo(env, w, n) /\ UpdateLast(t, s) = Walked(t, s, w)
  BY <1>5
<1>7. Walked(t, s, w).types[s].elems = w.elems
  BY <1>1 DEF Walked, Known, Structlike
<1>8. \A j \in 1 .. n - 1 : j \in 1 .. n /\ j < n
  BY <1>1
<1>9. n > 0 => n \in 1 .. n /\ ~(n < n) /\ last = LastOf(t, elems, version)
  BY <1>1
<1> HIDE DEF last, elems, n
<1>10. /\ Len(w.elems) = n /\ \A j \in 1 .. n - 1 : w.elems[j] = elems[j]
       /\ n > 0 => w.elems[n] = LastOf(t, elems, version)
  BY <1>6, <1>8, <1>9 DEF KeptTo, n
<1> QED
  BY <1>6, <1>7, <1>10 DEF elems, n, version

LEMMA PopStaysApart ==
  ASSUME world \in Worlds, LaidOutBut(dl, {}), NEW s \in Structs, Ascending(dl, s), PopBack(s)
  PROVE  Ascending(dl', s)
<1> DEFINE elems == dl.types[s].elems
           less == Front(elems)
           popped == WithElems(dl, s, less)
           new == UpdateLast(popped, s).types[s].elems
<1>1. s \in StructNames(world.types) /\ Known(dl) /\ elems \in Seq(Elem) /\ Len(elems) # 0 /\ LaidOut(dl, s)
  <2>1. s \in StructNames(world.types) /\ Known(dl) /\ LaidOut(dl, s)
    BY WorldIs DEF LaidOutBut
  <2>2. elems \in Seq(Elem)
    BY <2>1, StructIs
  <2>3. elems # << >>
    BY DEF PopBack
  <2> HIDE DEF elems
  <2> QED
    BY <2>1, <2>2, <2>3
<1>2. dl' = UpdateLast(popped, s)
  BY DEF PopBack, WithElems
<1>3. /\ less \in Seq(Elem) /\ Len(less) = Len(elems) - 1 /\ \A j \in 1 .. Len(elems) - 1 : less[j] = elems[j]
  BY <1>1, FrontIs
<1>4. LastMayBeNew(less, dl.info[s].dynamic)
  <2> HIDE DEF less
  <2> QED
    BY <1>1, <1>3, FrontLaidOut
<1> HIDE DEF less
<1>5. LaidOutBut(popped, {s}) /\ popped.types[s].elems = less /\ popped.info = dl.info
  BY <1>1, <1>3, ElemsReplaced
<1> HIDE DEF popped
<1>6. Known(popped) /\ LastMayBeNew(popped.types[s].elems, popped.info[s].dynamic)
  BY <1>4, <1>5 DEF LaidOutBut
<1>7. LET last == LastOf(popped, less, Relevant(popped, s)) IN
      /\ Len(new) = Len(less) /\ \A j \in 1 .. Len(less) - 1 : new[j] = less[j]
      /\ Len(less) > 0 => new[Len(less)] = last
  BY <1>1, <1>5, <1>6, LastCalculated
<1>8. \A j \in 1 .. Len(less) : less[j].info # None
  <2> SUFFICES ASSUME NEW j \in 1 .. Len(less) PROVE less[j].info # None
    OBVIOUS
  <2>1. j \in 1 .. Len(elems) /\ less[j] = elems[j]
    BY <1>1, <1>3
  <2>2. WellAt(elems, j)
    BY <1>1, <2>1 DEF LaidOut, WellPlaced
  <2> QED
    BY <2>1, <2>2, NoInfoAssumption DEF WellAt, Place
<1>9. Len(less) > 0 => new[Len(less)] = less[Len(less)]
  BY <1>3, <1>7, <1>8 DEF LastOf, Last
<1>10. new \in Seq(Elem)
  <2>1. LaidOutBut(UpdateLast(popped, s), {})
    BY <1>5, <1>6, UpdateLastAgain
  <2> QED
    BY <1>1, <2>1, StructIs DEF LaidOutBut
<1> HIDE DEF new
<1>11. Len(new) = Len(elems) - 1 /\ \A j \in 1 .. Len(new) : new[j] = elems[j]
  <2>1. Len(less) \in Nat /\ \A j \in 1 .. Len(less) : j = Len(less) \/ j \in 1 .. Len(less) - 1
    BY <1>3
  <2> QED
    BY <1>3, <1>7, <1>9, <2>1
<1>12. dl'.types[s].elems = new
  BY <1>2 DEF new
<1>13. \A j \in DOMAIN new : j \in DOMAIN elems /\ new[j] = elems[j]
  BY <1>1, <1>10, <1>11
<1> HIDE DEF elems
<1> QED
  BY <1>12, <1>13 DEF Ascending, Elems, elems

\* The new element is put behind the last, which is behind all others.
LEMMA AddStaysApart ==
  ASSUME world \in Worlds, LaidOutBut(dl, {}), NEW s \in Structs, Ascending(dl, s), PlacesKnown(dl, s),
         NEW c \in world.grow, c[1] = s, c[2].bytePos = None, AddElement(s, c[2])
  PROVE  Ascending(dl', s)
<1> DEFINE e == c[2]
           elems == dl.types[s].elems
           n == Len(elems)
           more == Append(elems, e)
           added == WithElems(dl, s, more)
           t == Validate(added, s)
           new == UpdateLast(t, s).types[s].elems
<1>1. /\ s \in StructNames(world.types) /\ Known(dl) /\ elems \in Seq(Elem) /\ n \in Nat
      /\ WellPlaced(elems) /\ LaidOut(dl, s) /\ e \in Elements(Names, {None})
  <2>1. s \in StructNames(world.types) /\ Known(dl) /\ LaidOut(dl, s)
    BY WorldIs DEF LaidOutBut
  <2>2. elems \in Seq(Elem)
    BY <2>1, StructIs
  <2>3. e \in Elements(Names, {None})
    BY WorldsAssumption DEF Names
  <2> QED
    BY <2>1, <2>2, <2>3 DEF LaidOut
<1>2. e \in Elem /\ e.info = None /\ e.bytePos = None
  BY <1>1 DEF Elements, Elem, Infos
<1>3. dl' = UpdateLast(t, s)
  BY DEF AddElement, WithElems
<1>4. LaidOutBut(dl', {})
  BY AddElementIs
<1> HIDE DEF e
<1>5. /\ more \in Seq(Elem) /\ Len(more) = n + 1 /\ more[n + 1] = e
      /\ \A j \in 1 .. n : more[j] = elems[j]
  <2> HIDE DEF elems
  <2> QED
    BY <1>1, <1>2 DEF n
<1>6. LastMayBeNew(more, dl.info[s].dynamic)
  <2>1. /\ n \in Nat /\ n <= Len(dl.types[s].elems) /\ dl.types[s].elems \in Seq(Elem)
        /\ Len(more) = n + 1 /\ more[n + 1].info = None
        /\ \A j \in 1 .. n : more[j] = dl.types[s].elems[j]
    BY <1>1, <1>2, <1>5
  <2> HIDE DEF more, n
  <2> QED
    BY <1>1, <2>1, FrontLaidOut
<1>7. Front(more) = elems /\ Last(more) = e
  <2> HIDE DEF more, elems
  <2>1. Front(more) \in Seq(Elem) /\ Len(Front(more)) = n /\ \A j \in 1 .. n : Front(more)[j] = elems[j]
    BY <1>1, <1>5, FrontIs
  <2> QED
    BY <1>1, <1>5, <2>1, SeqEqual DEF Last
<1> HIDE DEF more
<1>8. LaidOutBut(added, {s}) /\ added.types[s].elems = more /\ added.info = dl.info
  BY <1>1, <1>5, ElemsReplaced
<1> HIDE DEF added
<1>9. LaidOutBut(t, {s}) /\ t.types[s].elems = more /\ t.info = dl.info
  BY <1>8, ValidateIs
<1> HIDE DEF t
<1>10. Known(t) /\ LastMayBeNew(t.types[s].elems, t.info[s].dynamic) /\ t.types[s].elems = more
  BY <1>6, <1>9 DEF LaidOutBut
<1> DEFINE version == Relevant(t, s)
           prev == Previous(elems)
           q == Placed(e, t.info[e.type], prev, version)
<1>11. version \in Nat /\ t.info[e.type] \in TypeInfos /\ Before(prev)
  BY <1>1, <1>2, <1>10, StructIs, ElemIs, PreviousIs DEF Known
<1> HIDE DEF version
<1>12. LastOf(t, more, version) = q
  BY <1>2, <1>7 DEF LastOf
<1>13. q \in Elem /\ Place(q) /\ q.info.after = IsAfterDynamic(prev)
  BY <1>2, <1>11, PlacedIs
<1>14. /\ Len(new) = n + 1 /\ new[n + 1] = q /\ \A j \in 1 .. n : new[j] = elems[j]
  <2>1. /\ Len(new) = Len(more) /\ \A j \in 1 .. Len(more) - 1 : new[j] = more[j]
        /\ Len(more) > 0 => new[Len(more)] = LastOf(t, more, version)
    BY <1>1, <1>10, LastCalculated DEF version
  <2> HIDE DEF new, q, elems, n
  <2>2. Len(more) = n + 1 /\ (n + 1) - 1 = n /\ n + 1 > 0
    BY <1>1, <1>5
  <2> QED
    BY <1>5, <1>12, <2>1, <2>2
<1>15. dl'.types[s].elems = new
  BY <1>3
<1>16. new \in Seq(Elem)
  BY <1>1, <1>4, <1>15, StructIs DEF LaidOutBut
<1> HIDE DEF new
<1>17. ASSUME NEW i \in 1 .. n, IsStatic(elems[i]), ~q.info.after
       PROVE  GetSerializedHighestBit(elems[i]) <= Start(q)
  <2> DEFINE p == elems[n]
             o == elems[i]
  <2>1. n \in 1 .. n /\ prev = <<p>> /\ prev[1] = p /\ prev # << >> /\ p \in Elem /\ Place(p)
    <3>1. n \in 1 .. n /\ elems # << >> /\ p \in Elem
      BY <1>1
    <3>2. Place(p)
      BY <1>1, <3>1 DEF WellPlaced, WellAt
    <3> QED
      BY <3>1, <3>2 DEF Previous, Last
  <2>2. ~p.info.after /\ ~p.info.dynamic
    BY <1>13, <1>17, <2>1 DEF IsAfterDynamic
  <2>3. p.info.bytePos = p.bytePos /\ p.bytePos # None
    BY <1>1, <2>1, <2>2 DEF PlacesKnown, Elems, Place
  <2>4. End(p) <= Start(q)
    BY <1>2, <1>11, <1>17, <2>1, <2>3, TookIs
  <2>5. GetSerializedHighestBit(p) = End(p) /\ GetSerializedHighestBit(o) = End(o)
    BY <1>17, <2>2 DEF GetSerializedHighestBit, End, Start, IsStatic
  <2>6. CASE i = n
    BY <2>4, <2>5, <2>6
  <2>7. CASE i # n
    <3>1. i < n /\ i \in DOMAIN elems /\ n \in DOMAIN elems
      BY <1>1, <2>7
    <3>2. GetSerializedHighestBit(o) <= Start(p)
      BY <1>17, <2>2, <3>1 DEF Ascending, Elems, Start
    <3>3. o \in Elem /\ Place(o)
      BY <1>1, <3>1 DEF WellPlaced, WellAt
    <3>4. Start(p) \in Nat /\ End(p) \in Nat /\ Start(p) <= End(p) /\ End(o) \in Nat /\ Start(q) \in Nat
      BY <1>13, <2>1, <3>3, StartIs
    <3> HIDE DEF o, p, q
    <3>5. End(o) <= Start(q)
      BY <2>4, <2>5, <3>2, <3>4
    <3> QED
      BY <2>5, <3>5 DEF o
  <2> QED
    BY <2>6, <2>7
<1> HIDE DEF q
<1>18. ASSUME NEW i \in DOMAIN new, NEW j \in DOMAIN new, i < j, IsStatic(new[i]), ~new[j].info.after
       PROVE  GetSerializedHighestBit(new[i]) <= Start(new[j])
  <2>1. i \in 1 .. n + 1 /\ j \in 1 .. n + 1 /\ i \in 1 .. n /\ new[i] = elems[i]
    <3>1. DOMAIN new = 1 .. n + 1
      BY <1>14, <1>16
    <3> HIDE DEF n
    <3>2. i \in 1 .. n + 1 /\ j \in 1 .. n + 1 /\ i \in 1 .. n
      BY <1>1, <1>18, <3>1
    <3> QED
      BY <1>14, <3>2
  <2>2. CASE j = n + 1
    BY <1>14, <1>17, <1>18, <2>1, <2>2
  <2>3. CASE j # n + 1
    <3>1. j \in 1 .. n /\ new[j] = elems[j] /\ i \in DOMAIN elems /\ j \in DOMAIN elems
      <4>1. DOMAIN elems = 1 .. n
        BY <1>1
      <4> HIDE DEF n, elems
      <4>2. j \in 1 .. n
        BY <1>1, <2>1, <2>3
      <4> QED
        BY <1>14, <2>1, <4>1, <4>2
    <3> QED
      BY <1>18, <2>1, <3>1 DEF Ascending, Elems, Start
  <2> QED
    BY <2>2, <2>3
<1> QED
  BY <1>15, <1>18 DEF Ascending, Elems, Start

LEMMA StaysApart ==
  ASSUME IInv, NEW s \in Structs, UpToDate(dl), Ascending(dl, s), PlacesKnown(dl, s),
         \/ PopBack(s) \/ Removes(s)
         \/ \E c \in world.grow : c[1] = s /\ c[2].bytePos = None /\ AddElement(s, c[2])
  PROVE  Ascending(dl', s)
<1>1. world \in Worlds /\ LaidOutBut(dl, {})
  BY DEF IInv, LaidOutBut
<1> QED
  BY <1>1, PopStaysApart, RemoveStaysApart, AddStaysApart

\* Serialized elements that lie one behind the other stay so when elements are
\* added at the end, popped or removed.
THEOREM SerializedApart == Spec => SerializedStayApart
<1>1. IInv /\ [Next]_vars =>
      [\A s \in Structs : /\ UpToDate(dl) /\ Ascending(dl, s)
                          /\ PlacesKnown(dl, s)
                          /\ \/ PopBack(s) \/ Removes(s)
                             \/ \E c \in world.grow : /\ c[1] = s /\ c[2].bytePos = None
                                                      /\ AddElement(s, c[2])
       => Ascending(dl', s)]_vars
  BY StaysApart
<1> QED
  BY <1>1, Invariant, PTL DEF Spec, SerializedStayApart
=============================================================================
