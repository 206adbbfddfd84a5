---------------------------- MODULE StructCodec ----------------------------
(***************************************************************************)
(* What a codec makes of the layout of a struct: a tree of elements, in    *)
(* which places are looked up by the number of a leaf or by an index.  A   *)
(* decoder resolves its own copy: the sizes of dynamic arrays, found in    *)
(* the data, decide where later elements lie.  Beside it the access by     *)
(* elements and by path through the data definition, and the comparison of *)
(* two layouts.  Names, values, constants and defaults are left out.       *)
(* A tree is made from the layout as it is, up to date or not; deserialized *)
(* places are in bytes, a step of an index is <<element, array position>>. *)
(***************************************************************************)
EXTENDS StructLayout, Integers

Width == 2 ^ 24     \* one above the largest size in bits (2 ^ 64)

IsStruct(t, n) == t.types[n].kind = "struct"
DataTypeOf(t, n) == IF t.types[n].kind = "enum" THEN t.types[n].base ELSE n

(* getTypeSizes *)
TypeSize(t, n) ==
    LET info == t.info[IF IsStruct(t, n) THEN n ELSE DataTypeOf(t, n)] IN
    [bits |-> info.bits, bytes |-> info.bytes, aligned |-> info.aligned,
     align |-> info.align, dynamic |-> info.dynamic,
     version |-> IF IsStruct(t, n) THEN t.types[n].version ELSE None]

-----------------------------------------------------------------------------
(* The tree *)

HasStaticPosition(elem) == elem.after => elem.ser.at # 0 /\ elem.deser.at # 0
IsLeaf(elem) == elem.leaf # None

LeavesOf(subs) ==
    FoldLeft(LAMBDA n, sub : n + (IF HasStaticPosition(sub) THEN sub.arrayLeaves ELSE 0), 0, subs)

AddSubElement(subs, elem) ==
    Append(subs, IF HasStaticPosition(elem) THEN [elem EXCEPT !.begin = LeavesOf(subs)] ELSE elem)

ArraySize(e) == IF e.array.dynamic THEN 0 ELSE AtLeastOne(e.array.size)

(* initializeStatic of a member.  An alignment that is not set counts as one. *)
RECURSIVE SubElements(_, _)
ElementOf(e, leaf, subs, leaves, sizes) ==
    [leaf |-> leaf, type |-> e.type, subs |-> subs, sizes |-> sizes, counted |-> e.array.dynamic,
     dynamic |-> e.info.dynamic, after |-> e.info.after,
     align |-> AtLeastOne(Value(e.align)), array |-> ArraySize(e),
     ser |-> [at |-> e.info.bitOffset, size |-> e.info.bitSize, each |-> e.info.typeBits],
     deser |-> [at |-> Value(e.info.pos), size |-> e.info.size,
                each |-> sizes.bytes, aligned |-> sizes.aligned],
     begin |-> 0, leaves |-> leaves,
     arrayLeaves |-> IF leaf = None THEN ArraySize(e) * leaves ELSE AtLeastOne(ArraySize(e))]
StructElement(e, subs, sizes) == ElementOf(e, None, subs, LeavesOf(subs), sizes)
Element(t, e) ==
    IF IsStruct(t, e.type) THEN StructElement(e, SubElements(t, e.type), TypeSize(t, e.type))
    ELSE ElementOf(e, DataTypeOf(t, e.type), <<>>, 1, TypeSize(t, e.type))
SubElements(t, s) ==
    FoldLeft(LAMBDA subs, e : AddSubElement(subs, Element(t, e)), <<>>, t.types[s].elems)

(* initializeStatic of the struct itself *)
Root(s, subs, sizes) ==
    [leaf |-> None, type |-> s, subs |-> subs, sizes |-> sizes, counted |-> FALSE,
     dynamic |-> FALSE, after |-> FALSE, align |-> AtLeastOne(sizes.align), array |-> 1,
     ser |-> [at |-> 0, size |-> sizes.bits, each |-> sizes.bits],
     deser |-> [at |-> 0, size |-> sizes.bytes, each |-> sizes.bytes,
                aligned |-> sizes.aligned],
     begin |-> 0, leaves |-> LeavesOf(subs), arrayLeaves |-> LeavesOf(subs)]
StructAccess(t, s) == Root(s, SubElements(t, s), TypeSize(t, s))

-----------------------------------------------------------------------------
(* Resolving *)

(* resolveDynamicSize: the serialized size only grows *)
SizeUpTo(elem, unaligned, fileVersion) ==
    LET aligned == CalculateAlignedSize(unaligned, elem.sizes.align)
        version == IF elem.sizes.version = None THEN fileVersion ELSE elem.sizes.version
    IN  [elem.sizes EXCEPT
            !.bits = FoldLeft(LAMBDA m, sub : Larger(m, sub.ser.at + sub.ser.size), @, elem.subs),
            !.aligned = aligned,
            !.bytes = IF version >= 3 THEN aligned ELSE unaligned]
DynamicSize(elem, fileVersion) ==
    IF elem.subs = <<>> THEN elem.sizes
    ELSE SizeUpTo(elem, Last(elem.subs).deser.at + Last(elem.subs).deser.size, fileVersion)

(* Computed in bits and without sign *)
InBytes(bytes) == ((bytes * 8) % Width) \div 8

Sized(elem, sizes, each) ==
    [elem EXCEPT
        !.sizes = sizes,
        !.ser = [@ EXCEPT !.each = each, !.size = elem.array * each],
        !.deser = [@ EXCEPT !.each = sizes.bytes, !.aligned = sizes.aligned,
                     !.size = InBytes(sizes.aligned * (elem.array - 1) + sizes.bytes)],
        !.arrayLeaves = elem.leaves * elem.array]
GrownTo(elem, sizes) == Sized(elem, sizes, sizes.bits)
ResolveSizes(elem, fileVersion) ==
    IF ~elem.dynamic THEN elem
    ELSE IF elem.sizes.dynamic THEN GrownTo(elem, DynamicSize(elem, fileVersion))
    ELSE Sized(elem, elem.sizes, elem.ser.each)

\* Mutant for the runs: the alignment of the element behind is forgotten.
ResolveOffsets_Unaligned(elem, prev) ==
    IF ~elem.after THEN elem
    ELSE [elem EXCEPT !.ser.at = prev.ser.at + prev.ser.size,
                      !.deser.at = prev.deser.at + prev.deser.size]
ResolveOffsets(elem, prev) ==
    IF ~elem.after THEN elem
    ELSE [elem EXCEPT !.ser.at = prev.ser.at + prev.ser.size,
                      !.deser.at = CalculateAlignedSize(prev.deser.at + prev.deser.size, elem.align)]

(* resolveDynamics.  The sizes of the element itself are also resolved after
   each of its members, which the last time overwrites. *)
RECURSIVE ResolveDynamics(_, _, _)
\* Mutant for the runs: the numbers of the factory's tree are kept.
PutMember_OldNumbers(elem, i, sized) ==
    LET next == [elem EXCEPT !.subs[i] = sized, !.leaves = @ + sized.arrayLeaves] IN
    IF (sized.dynamic \/ sized.after) /\ i < Len(elem.subs)
    THEN [next EXCEPT !.subs[i + 1] = ResolveOffsets(@, sized)]
    ELSE next
PutMember(elem, i, sized) ==
    LET numbered == [sized EXCEPT !.begin = elem.leaves]
        next == [elem EXCEPT !.subs[i] = numbered, !.leaves = @ + sized.arrayLeaves]
    IN  IF (sized.dynamic \/ sized.after) /\ i < Len(elem.subs)
        THEN [next EXCEPT !.subs[i + 1] = ResolveOffsets(@, sized)]
        ELSE next
ResolveInner(sub, counts, version) ==
    IF IsLeaf(sub) THEN sub ELSE ResolveDynamics(sub, counts, version)
Counted(elem, i, counts) ==
    IF elem.subs[i].counted THEN [elem.subs[i] EXCEPT !.array = counts[<<elem.type, i>>]]
    ELSE elem.subs[i]
ResolveMember(elem, i, counts, version) ==
    PutMember(elem, i, ResolveSizes(ResolveInner(Counted(elem, i, counts), counts, version), version))
AllLeaves(elem) == [elem EXCEPT !.arrayLeaves = elem.leaves * elem.array]
ResolveDynamics(elem, counts, version) ==
    AllLeaves(FoldLeftDomain(LAMBDA n, i : ResolveMember(n, i, counts, version),
                             [elem EXCEPT !.leaves = 0], elem.subs))

(* resolveDynamic of the copy a decoder makes *)
ResolvedRoot(root, version) == [root EXCEPT !.sizes = DynamicSize(root, version)]
Decoder(t, s, counts, version) ==
    ResolvedRoot(ResolveDynamics(StructAccess(t, s), counts, version), version)

-----------------------------------------------------------------------------
(* Looking up *)

NotFound == [status |-> "not found", index |-> <<>>]
Thrown == [status |-> "thrown", index |-> <<>>]
Found(index) == [status |-> "found", index |-> index]

(* binaryLeafSearch, with end - 1 / 2 for (end - begin) / 2 as in the code; the
   last of no elements is the largest size_t. *)
RECURSIVE BinaryLeafSearch(_, _, _, _), StepBack(_, _, _)
StepBack(subs, mid, begin) ==
    IF mid > begin /\ ~HasStaticPosition(subs[mid]) THEN StepBack(subs, mid - 1, begin) ELSE mid
SearchFrom(subs, leaf, begin, end, mid) ==
    IF ~HasStaticPosition(subs[mid]) THEN NotFound
    ELSE IF leaf < subs[mid].begin THEN BinaryLeafSearch(subs, leaf, begin, mid - 1)
    ELSE IF leaf < subs[mid].begin + subs[mid].arrayLeaves THEN Found(<<mid>>)
    ELSE BinaryLeafSearch(subs, leaf, mid + 1, end)
BinaryLeafSearch(subs, leaf, begin, end) ==
    LET first == IF end > begin THEN (begin - 1) + end ELSE begin IN
    IF subs = <<>> \/ (end >= begin /\ first > Len(subs)) THEN Thrown
    ELSE IF end < begin THEN NotFound
    ELSE SearchFrom(subs, leaf, begin, end, StepBack(subs, first, begin))

(* addBaseLayout *)
InRange(sub, pos) == pos < sub.array \/ (pos = 0 /\ sub.array = 0 /\ HasStaticPosition(sub))

RECURSIVE FindByLeafIndex(_, _)
ArrayPos(sub, leaf) ==
    IF sub.array > 1 /\ sub.leaves > 0 THEN (leaf - sub.begin) \div sub.leaves ELSE 0
After(step, rest) == IF rest.status = "found" THEN Found(<<step>> \o rest.index) ELSE rest
FindIn(sub, step, leaf) ==
    IF ~IsLeaf(sub)
    THEN After(step, FindByLeafIndex(sub, leaf - sub.begin - step[2] * sub.leaves))
    ELSE IF InRange(sub, step[2]) THEN Found(<<step>>) ELSE Thrown
FindFrom(subs, leaf, hit) ==
    IF hit.status # "found" THEN hit
    ELSE LET i == hit.index[1] IN FindIn(subs[i], <<i, ArrayPos(subs[i], leaf)>>, leaf)
FindByLeafIndex(elem, leaf) ==
    FindFrom(elem.subs, leaf, BinaryLeafSearch(elem.subs, leaf, 1, Len(elem.subs)))

(* findCodecLayout *)
ElementAt(elem, index) == FoldLeft(LAMBDA n, step : n.subs[step[1]], elem, index)
RECURSIVE Offsets(_, _)
Offsets(elem, index) ==
    LET sub == elem.subs[Head(index)[1]]
        pos == Head(index)[2]
        inner == IF Len(index) = 1 THEN [ser |-> 0, deser |-> 0] ELSE Offsets(sub, Tail(index))
    IN  [ser |-> sub.ser.at + pos * sub.ser.each + inner.ser,
         deser |-> sub.deser.at + pos * sub.deser.aligned + inner.deser]

(* The access to elements by way of the data definition: from element to
   element, and by a path of names, which counts bytes where bits are meant
   and array positions from the third on twice. *)
RECURSIVE OffsetsOfAccess(_, _, _)
ElementOffsets(e, pos) ==
    [ser |-> e.info.bitOffset + pos * e.info.typeBits,
     deser |-> e.info.pos + pos * e.info.typeAligned]
OffsetsOfAccess(t, s, index) ==
    LET e == t.types[s].elems[Head(index)[1]]
        at == ElementOffsets(e, Head(index)[2])
        inner == IF Len(index) = 1 THEN [ser |-> 0, deser |-> 0]
                 ELSE OffsetsOfAccess(t, e.type, Tail(index))
    IN  [ser |-> at.ser + inner.ser, deser |-> at.deser + inner.deser]

RECURSIVE GetElementByPath(_, _, _)
GetElementByPath(t, s, index) ==
    LET e == t.types[s].elems[Head(index)[1]]
        pos == Head(index)[2]
        inner == GetElementByPath(t, e.type, Tail(index))
        twice == IF pos > 1 THEN (pos - 1) * e.info.size ELSE 0
    IN  IF Len(index) = 1 THEN ElementOffsets(e, pos)
        ELSE [ser |-> e.info.bytePos + (pos * e.info.typeBits + 7) \div 8 + inner.ser,
              deser |-> ElementOffsets(e, pos).deser + twice + inner.deser]

-----------------------------------------------------------------------------
(* Comparing *)

(* getAllStaticLayouts *)
LayoutAt(sub, offsets) == [type |-> sub.leaf, at |-> offsets.deser,
                           each |-> sub.deser.each, aligned |-> sub.deser.aligned]
LayoutsOf(elem, indexes) ==
    [i \in DOMAIN indexes |-> LayoutAt(ElementAt(elem, indexes[i].index), Offsets(elem, indexes[i].index))]
LayoutsAt(elem, hits) ==
    [thrown |-> \E i \in DOMAIN hits : hits[i].status = "thrown",
     seq |-> LayoutsOf(elem, SelectSeq(hits, LAMBDA hit : hit.status = "found"))]
StaticLayouts(elem, dynamics) ==
    LayoutsAt(elem, [leaf \in 1 .. (IF dynamics /\ elem.arrayLeaves = 0 THEN elem.leaves
                                    ELSE elem.arrayLeaves) |-> FindByLeafIndex(elem, leaf - 1)])

(* Those from the first dynamic one on *)
DynamicMembers(elem) ==
    LET static == {n \in 0 .. Len(elem.subs) : \A i \in 1 .. n : ~elem.subs[i].dynamic}
    IN  SubSeq(elem.subs, Cardinality(static), Len(elem.subs))

(* What the first of the answers that is not "yes" is, if any *)
FirstNot(answers) ==
    IF \A i \in DOMAIN answers : answers[i] = "yes" THEN "yes"
    ELSE SelectSeq(answers, LAMBDA a : a # "yes")[1]

CompareDynamics(left, right, Compare(_, _)) ==
    IF left = <<>> THEN "yes"
    ELSE IF Len(left) # Len(right) THEN "no"
    ELSE FirstNot([i \in DOMAIN left |-> Compare(left[i], right[i])])

RECURSIVE IsBinaryEqual(_, _, _)
EqualLayouts(l, r) == IF l.thrown \/ r.thrown THEN "thrown" ELSE IF l.seq # r.seq THEN "no" ELSE "yes"
IsBinaryEqual(left, right, dynamics) ==
    IF left.arrayLeaves # right.arrayLeaves THEN "no"
    ELSE FirstNot(<<EqualLayouts(StaticLayouts(left, dynamics), StaticLayouts(right, dynamics)),
                    CompareDynamics(DynamicMembers(left), DynamicMembers(right),
                                    LAMBDA x, y : IsBinaryEqual(x, y, TRUE))>>)

(* findEqualLeafLayout; bytes may lie anywhere in what is not known better *)
Padding == "u8"
IsLayoutBinarySubset(l, r) ==
    /\ l.at = r.at
    /\ l.type = r.type => l.each = r.each
    /\ l.type # r.type => r.type = Padding
\* Mutant for the runs: the search goes on behind the next candidate.
NextEqual_Behind(l, from, layouts) ==
    LET hits == {i \in from + 1 .. Len(layouts) : IsLayoutBinarySubset(l, layouts[i])} IN
    IF hits = {} THEN None ELSE CHOOSE i \in hits : \A j \in hits : i <= j
NextEqual(l, from, layouts) ==
    LET hits == {i \in from .. Len(layouts) : IsLayoutBinarySubset(l, layouts[i])} IN
    IF hits = {} THEN None ELSE CHOOSE i \in hits : \A j \in hits : i <= j

RECURSIVE IsBinarySubset(_, _, _)
SubsetLayouts(l, r) ==
    LET behind(hit) == IF hit = None THEN None ELSE hit + 1 IN
    IF l.thrown \/ r.thrown THEN "thrown"
    ELSE IF FoldLeft(LAMBDA from, x : IF from = None \/ x.type = Padding THEN from
                                     ELSE behind(NextEqual(x, from, r.seq)), 1, l.seq) = None
    THEN "no" ELSE "yes"
IsBinarySubset(left, right, dynamics) ==
    FirstNot(<<SubsetLayouts(StaticLayouts(left, dynamics), StaticLayouts(right, dynamics)),
               CompareDynamics(DynamicMembers(left), DynamicMembers(right),
                               LAMBDA x, y : IsBinarySubset(x, y, TRUE))>>)

(* DDCompare::isBinaryEqual *)
Compare(t, l, r, subset) ==
    IF ~subset THEN IsBinaryEqual(StructAccess(t, l), StructAccess(t, r), FALSE)
    ELSE IF t.info[l].bytes > t.info[r].bytes THEN "no"
    ELSE IsBinarySubset(StructAccess(t, l), StructAccess(t, r), FALSE)

-----------------------------------------------------------------------------
(* What the data may say of dynamic arrays, which have their size before them *)

CountedElems(t) ==
    {<<s, i>> \in Structs \X (1 .. world.most) :
        i \in DOMAIN t.types[s].elems /\ t.types[s].elems[i].array.dynamic}
Countable(t) == \A c \in CountedElems(t) :
                    c[2] > 1 /\ t.types[c[1]].elems[c[2]].info.bitOffset > 0
Counts(t, numbers) == [CountedElems(t) -> numbers]

(* The leaves in the order in which the structs say them *)
RECURSIVE Leaves(_, _)
Leaves(elem, resolved) ==
    LET size(sub) == IF IsLeaf(sub) /\ ~resolved THEN AtLeastOne(sub.array) ELSE sub.array
        steps == FoldLeftDomain(LAMBDA all, i :
                    IF ~HasStaticPosition(elem.subs[i]) THEN all
                    ELSE all \o [n \in 1 .. size(elem.subs[i]) |-> <<i, n - 1>>], <<>>, elem.subs)
    IN  FlattenSeq([n \in DOMAIN steps |->
            LET sub == elem.subs[steps[n][1]] IN
            IF IsLeaf(sub) THEN <<<<steps[n]>>>>
            ELSE LET inner == Leaves(sub, resolved) IN
                 [k \in DOMAIN inner |-> <<steps[n]>> \o inner[k]]])

LeavesNumbered(tree, resolved) ==
    LET leaves == Leaves(tree, resolved) IN
    /\ tree.arrayLeaves = Len(leaves)
    /\ \A n \in DOMAIN leaves : FindByLeafIndex(tree, n - 1) = Found(leaves[n])

(* Leaves with nothing dynamic around or before them *)
StaticIndex(tree, index) ==
    \A n \in DOMAIN index : LET elem == ElementAt(tree, SubSeq(index, 1, n)) IN
                             ~elem.dynamic /\ ~elem.after

LeavesFound(s, tree) ==
    /\ LeavesNumbered(tree, FALSE)
    /\ UpToDate(dl) =>
          \A index \in {i \in ToSet(Leaves(tree, FALSE)) : StaticIndex(tree, i)} :
              \A place \in {Offsets(tree, index)} :
                  /\ OffsetsOfAccess(dl, s, index) = place
                  /\ (\A n \in 1 .. Len(index) - 1 : index[n][2] <= 1)
                     => GetElementByPath(dl, s, index).deser = place.deser

(* The same structs with arrays of the sizes that were counted *)
Unrolled(t, counts) ==
    Attached([n \in DOMAIN t.types |->
                IF ~IsStruct(t, n) THEN t.types[n]
                ELSE [t.types[n] EXCEPT !.elems = [i \in DOMAIN @ |->
                        LET e == @[i] IN
                        [e EXCEPT
                            !.array = IF e.array.dynamic
                                      THEN [size |-> counts[<<n, i>>], dynamic |-> FALSE] ELSE @,
                            !.bytePos = IF e.info.after THEN None ELSE @,
                            !.bitPos = IF e.info.after THEN None ELSE @]]]], t.file)

(* What a dynamic struct needs to be laid out like a static one: members of
   whole bytes and types as large as they are aligned in and after dynamic
   elements, and the alignment of the members after them said. *)
Layable(t, s) ==
    \A i \in DOMAIN t.types[s].elems :
        LET e == t.types[s].elems[i]  info == t.info[e.type] IN
        /\ e.info.dynamic \/ e.info.after
              => /\ e.numBits = None /\ e.bitPos \in {None, 0} /\ e.info.typeBits % 8 = 0
                 /\ Relevant(t, s) >= 3 => info.bytes = info.aligned \/ info.dynamic
        /\ e.info.after => e.align # None \/ info.align <= 1

SamePlaces(decoder, tree) ==
    \A index \in ToSet(Leaves(decoder, TRUE)) : Offsets(decoder, index) = Offsets(tree, index)
SameSize(sizes, info) == sizes.bits = info.bits /\ sizes.bytes = info.bytes
SameAsStatic(counts, static) ==
    \A s \in {s \in Structs : dl.info[s].dynamic} :
        \A decoder \in {Decoder(dl, s, counts, dl.file)} :
            SamePlaces(decoder, StructAccess(static, s)) /\ SameSize(decoder.sizes, static.info[s])

(* Answers of both comparisons, from l to r and back *)
Consistent(l, r, equal, subset, back) ==
    /\ l = r /\ ~dl.info[l].dynamic => equal = "yes"
    /\ equal = "yes" /\ dl.info[l].bytes <= dl.info[r].bytes
       => /\ subset = "yes"
          /\ dl.info[l].dynamic = dl.info[r].dynamic => back = "yes"

-----------------------------------------------------------------------------
(* Properties *)

\* The number of a leaf leads to the leaf, in the tree of a factory and in that
\* of a decoder, whatever sizes the data gives to dynamic arrays, none included;
\* and its place is the one that is found element by element, or by path,
\* through the data definition (a path counts positions after the second one
\* wrong, and bits).
LookupsAgree ==
    Countable(dl) => \A s \in Structs :
        /\ LeavesFound(s, StructAccess(dl, s))
        /\ \A counts \in Counts(dl, 0 .. 2) : LeavesNumbered(Decoder(dl, s, counts, dl.file), TRUE)

\* A decoder lays out data with dynamic arrays as if they were static arrays of
\* the sizes found: a writer that knows the sizes and a reader that finds them
\* agree on every leaf and on the size of the buffer.
ResolvedAsStatic ==
    Countable(dl) /\ UpToDate(dl) /\ (\A s \in Structs : Layable(dl, s)) =>
        \A counts \in Counts(dl, 1 .. 2) : SameAsStatic(counts, Unrolled(dl, counts))

\* A struct is equal to itself, equality of static structs goes both ways, and
\* what is equal and not longer is a subset.
EqualIsSubset ==
    \A l, r \in Structs :
        Consistent(l, r, Compare(dl, l, r, FALSE), Compare(dl, l, r, TRUE), Compare(dl, r, l, FALSE))
=============================================================================
