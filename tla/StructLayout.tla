---------------------------- MODULE StructLayout ----------------------------
(***************************************************************************)
(* Where the elements of structs lie: serialized (bits, one element after  *)
(* the other) and deserialized (bytes, aligned).  Sizes of types and       *)
(* positions of elements are kept with the model and recalculated by hand  *)
(* after each change: all elements, those without an info and all behind   *)
(* them, or the last one only.  A serialized position, once calculated, is *)
(* stored where the user's own would be and counts as the user's from then *)
(* on.  All types an element or enum names exist and no struct contains    *)
(* itself (what happens otherwise is the subject of DataDefinition).       *)
(***************************************************************************)
EXTENDS Naturals, Sequences, SequencesExt, FiniteSets

CONSTANTS
    None,   \* an optional without value
    Worlds  \* initial models and what the user may change in them

(* A world is [types, file, order, nesting, bits, bases, fields, attributes,
   files, grow, shrink, most, span]: the model to start from and its language
   version; the structs as the hash containers have them, and inner ones
   first; then the changes: sizes of data types, data types of enums, fields
   of elements, attributes of structs, language versions, elements to add,
   structs to take elements from, the most elements of a struct, and the byte
   from which on none is added. *)

OptionalNat == Nat \union {None}
Arrays == [size : Nat, dynamic : BOOLEAN]
(* Elements of types by these names, with what is known of each *)
Elements(names, infos) ==
    [type : names, array : Arrays, numBits : OptionalNat, align : OptionalNat,
     bytePos : OptionalNat, bitPos : OptionalNat, info : infos]
DataNames(types) == {n \in DOMAIN types : types[n].kind = "data"}
EnumNames(types) == {n \in DOMAIN types : types[n].kind = "enum"}
StructNames(types) == {n \in DOMAIN types : types[n].kind = "struct"}
ModelOK(types, infos) ==
    \A n \in DOMAIN types :
        types[n] \in [kind : {"data"}, bits : Nat, align : OptionalNat]
                     \union [kind : {"enum"}, base : DataNames(types)]
                     \union [kind : {"struct"}, version : OptionalNat, align : OptionalNat,
                             elems : Seq(Elements(DOMAIN types, infos))]

(* ElementTypeInfo: serialized, then deserialized *)
ElementInfos ==
    [bytePos : OptionalNat, bitOffset : Nat, bitSize : Nat, typeBits : Nat, pos : OptionalNat,
     size : Nat, typeBytes : Nat, typeAligned : Nat, dynamic : BOOLEAN, after : BOOLEAN]

ASSUME NoneAssumption == None \notin Nat
ASSUME NoInfoAssumption == None \notin ElementInfos

(* All names are of types that exist, and of the right kind. *)
ASSUME WorldsAssumption ==
    \A w \in Worlds :
        /\ IsFiniteSet(DOMAIN w.types) /\ ModelOK(w.types, {None})
        /\ w.order \in Seq(DOMAIN w.types) /\ ToSet(w.order) = StructNames(w.types)
        /\ w.nesting \in Seq(DOMAIN w.types) /\ ToSet(w.nesting) = StructNames(w.types)
        /\ w.file \in Nat /\ w.files \subseteq Nat
        /\ w.bits \subseteq DataNames(w.types) \X Nat
        /\ w.bases \subseteq EnumNames(w.types) \X DataNames(w.types)
        /\ \A c \in w.fields :
              /\ c[1] \in StructNames(w.types)
              /\ \/ c[3] = "type" /\ c[4] \in DOMAIN w.types
                 \/ c[3] = "array" /\ c[4] \in Arrays
                 \/ c[3] \in {"numBits", "align", "bytePos", "bitPos"} /\ c[4] \in OptionalNat
        /\ w.attributes \subseteq StructNames(w.types) \X {"version", "align"} \X OptionalNat
        /\ w.grow \subseteq StructNames(w.types) \X Elements(DOMAIN w.types, {None})
        /\ w.shrink \subseteq StructNames(w.types)

VARIABLES
    world,
    dl      \* [types, info, users, file]: the model, what is known of its
            \* types, the index of their users, the language version
vars == <<world, dl>>

Value(opt) == IF opt = None THEN 0 ELSE opt
AtLeastOne(n) == IF n = 0 THEN 1 ELSE n
CalculateAlignedSize(size, alignment) ==
    LET a == AtLeastOne(alignment) IN ((size + a - 1) \div a) * a

-----------------------------------------------------------------------------
(* TypeInfo: [bits, bytes, align, aligned, dynamic] *)
NoInfo == [bits |-> 0, bytes |-> 0, align |-> 0, aligned |-> 0, dynamic |-> FALSE]

DataTypeInfo(bits, alignment) ==
    LET bytes == (bits + 7) \div 8
        align == IF alignment = None THEN bytes ELSE alignment
    IN  [bits |-> bits, bytes |-> bytes, align |-> align,
         aligned |-> CalculateAlignedSize(bytes, align), dynamic |-> FALSE]

InfoOfData(t, d) == DataTypeInfo(t.types[d].bits, t.types[d].align)
UpdateData(t, d) == [t EXCEPT !.info[d] = InfoOfData(t, d)]
UpdateEnum(t, e) == [t EXCEPT !.info[e] = InfoOfData(t, t.types[e].base)]

(* The language version that decides: of the struct, else of the file *)
Relevant(t, s) == IF t.types[s].version = None THEN t.file ELSE t.types[s].version

-----------------------------------------------------------------------------
(* The place of an element, given that before it: <<>> or <<element>> *)

IsAfterDynamic(prev) == prev # <<>> /\ (prev[1].info.dynamic \/ prev[1].info.after)

RoundedDown(p, bitPos) ==
    LET end == p.info.bytePos * 8 + Value(p.bitPos) + p.info.bitSize IN
    IF p.bitPos # None /\ bitPos # None
    THEN [byte |-> end \div 8, bit |-> end % 8, reset |-> TRUE]
    ELSE [byte |-> end \div 8, bit |-> None, reset |-> TRUE]

(* Both with a bit position: bit by bit; else from the next byte on *)
Behind(p, bitPos) ==
    LET end == p.info.bytePos * 8 + Value(p.bitPos) + p.info.bitSize IN
    IF p.bitPos # None /\ bitPos # None
    THEN [byte |-> end \div 8, bit |-> end % 8, reset |-> TRUE]
    ELSE [byte |-> (end + 7) \div 8, bit |-> None, reset |-> TRUE]

CalculateSerializedPos(e, prev) ==
    IF IsAfterDynamic(prev) THEN [byte |-> None, bit |-> None, reset |-> TRUE]
    ELSE IF e.bytePos # None
    THEN [byte |-> e.bytePos, bit |-> Value(e.bitPos), reset |-> FALSE]
    ELSE IF prev = <<>> THEN [byte |-> 0, bit |-> None, reset |-> TRUE]
    ELSE Behind(prev[1], e.bitPos)

CalculateSerializedBitSize(e, typeBits) ==
    IF e.numBits = None THEN typeBits * AtLeastOne(e.array.size)
    ELSE IF typeBits < e.numBits THEN typeBits ELSE e.numBits

CalculateDeserializedPos(e, type, prev) ==
    IF IsAfterDynamic(prev) THEN None
    ELSE IF prev = <<>> THEN 0
    ELSE CalculateAlignedSize(prev[1].info.pos + prev[1].info.size,
                              IF e.align = None THEN type.align ELSE e.align)

CalculateDeserializedSize(e, type, version) ==
    IF version >= 3 THEN AtLeastOne(e.array.size) * type.aligned
    ELSE type.bytes + (AtLeastOne(e.array.size) - 1) * type.aligned

(* ElementTypeInfo::update *)
PlacedAt(e, type, prev, version, serialized) ==
    [e EXCEPT
        !.bytePos = IF serialized.reset THEN serialized.byte ELSE @,
        !.bitPos = IF serialized.reset THEN serialized.bit ELSE @,
        !.info = [bytePos |-> serialized.byte,
                  bitOffset |-> Value(serialized.byte) * 8 + Value(serialized.bit),
                  bitSize |-> IF e.array.dynamic \/ type.dynamic THEN 0
                              ELSE CalculateSerializedBitSize(e, type.bits),
                  typeBits |-> type.bits,
                  pos |-> CalculateDeserializedPos(e, type, prev),
                  size |-> CalculateDeserializedSize(e, type, version),
                  typeBytes |-> type.bytes, typeAligned |-> type.aligned,
                  dynamic |-> e.array.dynamic \/ type.dynamic,
                  after |-> IsAfterDynamic(prev)]]
Placed(e, type, prev, version) ==
    PlacedAt(e, type, prev, version, CalculateSerializedPos(e, prev))

IsStatic(e) == ~e.info.dynamic /\ ~e.info.after
GetSerializedHighestBit(e) ==
    IF IsStatic(e) THEN Value(e.bytePos) * 8 + Value(e.bitPos) + e.info.bitSize ELSE 0

-----------------------------------------------------------------------------
(* TypeInfo::update(StructType) *)

Larger(m, n) == IF m > n THEN m ELSE n
Visited(w, e) ==
    [elems |-> Append(w.elems, e),
     bits |-> Larger(w.bits, GetSerializedHighestBit(e)),
     last |-> IF IsStatic(e) THEN e.info.pos + e.info.size ELSE w.last,
     dynamic |-> w.dynamic \/ e.info.dynamic,
     updated |-> w.updated]
OnlyNewVisited(t, w, e, version) ==
    LET prev == IF w.elems = <<>> THEN <<>> ELSE <<Last(w.elems)>> IN
    Visited(w, IF w.updated \/ e.info = None THEN Placed(e, t.info[e.type], prev, version) ELSE e)

Visit(t, w, e, version) ==
    LET prev == IF w.elems = <<>> THEN <<>> ELSE <<Last(w.elems)>> IN
    IF w.updated \/ e.info = None
    THEN Visited([w EXCEPT !.updated = TRUE], Placed(e, t.info[e.type], prev, version))
    ELSE Visited(w, e)

StructInfo(old, align, version, w) ==
    LET aligned == CalculateAlignedSize(w.last, align)
        known == [old EXCEPT !.bits = w.bits, !.align = align, !.dynamic = w.dynamic]
    IN  IF w.dynamic THEN [known EXCEPT !.bytes = w.last]
        ELSE IF w.elems = <<>> THEN [known EXCEPT !.bytes = 0]
        ELSE [known EXCEPT !.aligned = aligned,
                           !.bytes = IF version >= 3 THEN aligned ELSE w.last]
Walked(t, s, w) ==
    [t EXCEPT !.types[s].elems = w.elems,
              !.info[s] = StructInfo(@, Value(t.types[s].align), Relevant(t, s), w)]
Walk(t, s, start, elems) ==
    Walked(t, s, FoldLeft(LAMBDA w, e : Visit(t, w, e, Relevant(t, s)), start, elems))

(* Where a walk begins: behind the elements that are not looked at *)
From(elems, dynamic, updated) ==
    [elems |-> elems, bits |-> 0, last |-> 0, dynamic |-> dynamic, updated |-> updated]

UpdateAll(t, s) == Walk(t, s, From(<<>>, FALSE, TRUE), t.types[s].elems)
UpdateChanged(t, s) == Walk(t, s, From(<<>>, FALSE, FALSE), t.types[s].elems)

(* From the last of more than two elements on: what was found out about the
   others is not looked at. *)
UpdateLast(t, s) ==
    LET elems == t.types[s].elems IN
    IF Len(elems) > 2
    THEN Walk(t, s, From(Front(elems), t.info[s].dynamic, FALSE), <<Last(elems)>>)
    ELSE Walk(t, s, From(<<>>, t.info[s].dynamic, FALSE), elems)

-----------------------------------------------------------------------------
(* Carrying a change to the users *)

Structs == ToSet(world.order)
Enums(t) == EnumNames(t.types)
DataTypes(t) == DataNames(t.types)

(* Validation notes whom a struct uses, and forgets nobody *)
Validate(t, s) ==
    [t EXCEPT !.users = [n \in DOMAIN @ |->
        IF \E i \in DOMAIN t.types[s].elems : t.types[s].elems[i].type = n
        THEN @[n] \union {s} ELSE @[n]]]

(* forceRevalidationOfTypeDependencies: the users of a type that are not found
   yet, each followed by its own.  There is a level for every struct, and each
   finds one: on the last there is none left. *)
Followed(users, deeper, found, u) ==
    IF u \in users /\ u \notin ToSet(found) THEN deeper[u][Append(found, u)] ELSE found
AllFollowed(users, deeper, found) ==
    FoldLeft(LAMBDA f, u : Followed(users, deeper, f, u), found, world.order)
Level(t, deeper) ==
    [n \in DOMAIN t.users |-> [found \in Seq(Structs) |-> AllFollowed(t.users[n], deeper, found)]]
Unfollowed(t) == [n \in DOMAIN t.users |-> [found \in Seq(Structs) |-> found]]

DirectUsers(t, found, n) == Level(t, Unfollowed(t))[n][found]
Dependencies(t, found, n) ==
    FoldLeft(LAMBDA deeper, s : Level(t, deeper), Unfollowed(t), world.order)[n][found]

UpdateAllOf(t, structs) == FoldLeft(UpdateAll, t, structs)

(* An attribute of the struct or one of its elements *)
StructChanged(t, s) ==
    LET v == Validate(t, s) IN UpdateAllOf(UpdateAll(v, s), Dependencies(v, <<>>, s))

(* The structs come before the enums they may use *)
DataTypeChanged(t, d) ==
    LET enums == SetToSeq({e \in Enums(t) : t.types[e].base = d})
        structs == FoldLeft(LAMBDA f, e : Dependencies(t, f, e), Dependencies(t, <<>>, d), enums)
    IN  FoldLeft(UpdateEnum, UpdateAllOf(UpdateData(t, d), structs), enums)

DataTypeNameChanged(t, e) == UpdateEnum(UpdateAllOf(t, Dependencies(t, <<>>, e)), e)

(* calculatePositions of everything *)
CalculatePositions(t) ==
    UpdateAllOf(FoldLeft(UpdateEnum, FoldLeft(UpdateData, t, SetToSeq(DataTypes(t))),
                         SetToSeq(Enums(t))), world.order)

-----------------------------------------------------------------------------
(* The changes a user makes, each with what its event causes *)

SetBitSize(d, bits) ==
    /\ dl.types[d].bits # bits
    /\ dl' = DataTypeChanged([dl EXCEPT !.types[d].bits = bits], d)

SetDataTypeName(e, d) ==
    /\ dl.types[e].base # d
    /\ dl' = DataTypeNameChanged([dl EXCEPT !.types[e].base = d], e)

(* setTypeName, setArraySize, setNumBits, setBytePos, DeserializedInfo::
   setAlignment; nobody recalculates after setBitPos. *)
SetField(s, i, field, value) ==
    LET changed == [dl EXCEPT !.types[s].elems[i] = [@ EXCEPT ![field] = value]] IN
    /\ i \in DOMAIN dl.types[s].elems /\ dl.types[s].elems[i][field] # value
    /\ dl' = IF field = "bitPos" THEN changed ELSE StructChanged(changed, s)

(* setLanguageVersion, setAlignment *)
SetAttribute(s, attribute, value) ==
    /\ dl.types[s][attribute] # value
    /\ dl' = StructChanged([dl EXCEPT !.types[s] = [@ EXCEPT ![attribute] = value]], s)

SetVersion(version) ==
    /\ dl.file # version
    /\ dl' = UpdateAllOf([dl EXCEPT !.file = version], world.order)

RoomIn(s) ==
    /\ Len(dl.types[s].elems) < world.most
    /\ \A i \in DOMAIN dl.types[s].elems : Value(dl.types[s].elems[i].bytePos) < world.span

AddElement(s, e) ==
    /\ RoomIn(s)
    /\ dl' = UpdateLast(Validate([dl EXCEPT !.types[s].elems = Append(@, e)], s), s)

InsertElement(s, i, e) ==
    /\ RoomIn(s)
    /\ dl' = UpdateChanged(Validate([dl EXCEPT !.types[s].elems = InsertAt(@, i, e)], s), s)

RemoveElement(s, i) ==
    dl' = Validate(UpdateAll([dl EXCEPT !.types[s].elems = RemoveAt(@, i)], s), s)

PopBack(s) ==
    /\ dl.types[s].elems # <<>>
    /\ dl' = UpdateLast([dl EXCEPT !.types[s].elems = Front(@)], s)

Recalculate == dl' = CalculatePositions(dl)

(* A model is attached: every type gets its info, the types it needs first *)
Attached(types, file) ==
    LET t == [types |-> types, file |-> file, info |-> [n \in DOMAIN types |-> NoInfo],
              users |-> [n \in DOMAIN types |-> {}]]
        simple == FoldLeft(UpdateEnum, FoldLeft(UpdateData, t, SetToSeq(DataTypes(t))),
                           SetToSeq(Enums(t)))
    IN  FoldLeft(LAMBDA x, s : UpdateAll(Validate(x, s), s), simple, world.nesting)

Init ==
    /\ world \in Worlds
    /\ dl = Attached(world.types, world.file)

Next ==
    /\ \/ \E c \in world.bits : SetBitSize(c[1], c[2])
       \/ \E c \in world.bases : SetDataTypeName(c[1], c[2])
       \/ \E c \in world.fields : SetField(c[1], c[2], c[3], c[4])
       \/ \E c \in world.attributes : SetAttribute(c[1], c[2], c[3])
       \/ \E version \in world.files : SetVersion(version)
       \/ \E c \in world.grow :
             \/ AddElement(c[1], c[2])
             \/ \E i \in DOMAIN dl.types[c[1]].elems : InsertElement(c[1], i, c[2])
       \/ \E s \in world.shrink :
             \/ \E i \in DOMAIN dl.types[s].elems : RemoveElement(s, i)
             \/ PopBack(s)
       \/ Recalculate
    /\ UNCHANGED world

Spec == Init /\ [][Next]_vars
-----------------------------------------------------------------------------
(* Nothing would change if any type were calculated again *)
UpToDate(t) ==
    /\ \A d \in DataTypes(t) : UpdateData(t, d) = t
    /\ \A e \in Enums(t) : UpdateEnum(t, e) = t
    /\ \A s \in Structs : UpdateAll(t, s) = t

InnerFirst == world.order = world.nesting
Elems(t, s) == t.types[s].elems
Unused(t, n) == t.users[n] = {}

(* The last element ends a struct without dynamic content *)
LastEnds(t, s) ==
    /\ ~t.info[s].dynamic
    /\ \A i \in DOMAIN Elems(t, s) :
          GetSerializedHighestBit(Elems(t, s)[i]) <= GetSerializedHighestBit(Last(Elems(t, s)))

Ascending(t, s) ==
    \A i, j \in DOMAIN Elems(t, s) :
        LET e == Elems(t, s)[i]  f == Elems(t, s)[j] IN
        i < j /\ IsStatic(e) /\ ~f.info.after
        => GetSerializedHighestBit(e) <= Value(f.bytePos) * 8 + Value(f.bitPos)

PlacesKnown(t, s) ==
    \A i \in DOMAIN Elems(t, s) : Elems(t, s)[i].bytePos = Elems(t, s)[i].info.bytePos

Appends(s) == (\E c \in world.grow : c[1] = s /\ AddElement(s, c[2])) \/ PopBack(s)
Removes(s) == \E i \in DOMAIN Elems(dl, s) : RemoveElement(s, i)
Inserts == \E c \in world.grow : \E i \in DOMAIN Elems(dl, c[1]) :
               Unused(dl, c[1]) /\ InsertElement(c[1], i, c[2])

-----------------------------------------------------------------------------
(* Properties *)

ElemOK(e) ==
    /\ e.bytePos \in OptionalNat /\ e.bitPos \in OptionalNat
    /\ e.info.pos \in OptionalNat /\ e.info.bytePos \in OptionalNat
    /\ e.info.after <=> e.info.pos = None
    /\ e.info.after <=> e.info.bytePos = None
    /\ {e.info.bitSize, e.info.size, e.info.bitOffset} \subseteq Nat

\* Every element has an info after every change, and it has positions unless
\* it comes after something dynamic (isAfterDynamic).
TypeOK ==
    \A s \in Structs : /\ \A i \in DOMAIN Elems(dl, s) : ElemOK(Elems(dl, s)[i])
                       /\ {dl.info[s].bits, dl.info[s].bytes, dl.info[s].aligned} \subseteq Nat
                       /\ dl.info[s].dynamic \in BOOLEAN

\* Deserialized elements never share a byte, whatever was changed in whatever
\* order and however much of the layout was recalculated for it; and a struct
\* that calls itself static is, and is large enough for its elements.
DeserializedApart ==
    \A s \in Structs : \A j \in DOMAIN Elems(dl, s) :
        LET f == Elems(dl, s)[j] IN
        /\ \A i \in 1 .. j - 1 : LET e == Elems(dl, s)[i] IN
              IsStatic(e) /\ ~f.info.after => e.info.pos + e.info.size <= f.info.pos
        /\ ~dl.info[s].dynamic => IsStatic(f) /\ f.info.pos + f.info.size <= dl.info[s].bytes

\* From a layout that is up to date the cheap recalculation of each event
\* leads to one that is, with everyone who uses the type: the code has to
\* find all of them, and in an order in which no one is calculated from a
\* size that is about to change.  Excepted are the changes the code does not
\* carry on: elements added to or taken from a struct that others use, data
\* types below an enum, bit positions; and elements added or popped when the
\* last is not the end of the struct.
ChangesAreCarried ==
    [][UpToDate(dl) /\ (\/ \E c \in world.bits : /\ SetBitSize(c[1], c[2]) /\ InnerFirst
                                                    /\ \A e \in Enums(dl) :
                                                          dl.types[e].base = c[1] => Unused(dl, e)
                        \/ \E c \in world.bases : SetDataTypeName(c[1], c[2]) /\ Unused(dl, c[1])
                        \/ \E c \in world.fields : c[3] # "bitPos" /\ SetField(c[1], c[2], c[3], c[4])
                        \/ \E c \in world.attributes : SetAttribute(c[1], c[2], c[3])
                        \/ \E version \in world.files : SetVersion(version) /\ InnerFirst
                        \/ \E s \in world.shrink : Unused(dl, s) /\ Removes(s)
                        \/ Inserts
                        \/ \E s \in Structs : /\ Unused(dl, s) /\ Appends(s)
                                             /\ LastEnds(dl, s) /\ LastEnds(dl', s)
                        \/ Recalculate /\ InnerFirst)
       => UpToDate(dl')]_vars

\* The serialized elements of a struct lie one behind the other and stay so
\* when elements are added at the end, popped or removed: the one that takes
\* the place of a dynamic one, or of its predecessor, is put behind those
\* that stay where they were.
SerializedStayApart ==
    [][\A s \in Structs : /\ UpToDate(dl) /\ Ascending(dl, s)
                          /\ PlacesKnown(dl, s)
                          /\ \/ PopBack(s) \/ Removes(s)
                             \/ \E c \in world.grow : /\ c[1] = s /\ c[2].bytePos = None
                                                      /\ AddElement(s, c[2])
       => Ascending(dl', s)]_vars
=============================================================================
