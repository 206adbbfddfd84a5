--------------------------- MODULE DataDefinition ---------------------------
(***************************************************************************)
(* A ddl DataDefinition keeps, beside its model (units, data types, enums, *)
(* structs, stream meta types and streams that refer to each other by      *)
(* name), a cached validity per item, an index of who depends on whom, and *)
(* a protocol of all problems.  Each change of the model comes as an event *)
(* to the view (dd.cpp), which repairs caches and index by hand; a rename  *)
(* is carried on to the users found in the index.  Handlers are operators  *)
(* from one state of the definition to the next.  Abstracted: attributes   *)
(* without influence on validity; messages; an own attribute is right or   *)
(* wrong.  Byte positions are the subject of StructLayout.                 *)
(***************************************************************************)
EXTENDS Naturals, FiniteSets, Sequences, SequencesExt, TLC

CONSTANTS
    None,       \* the empty name, and no item or info under a key
    Names,      \* all other names
    Predefined, \* the predefined data types, base units and prefixes: <<kind, name>>
    Worlds      \* what the user may name and refer to, see below

(* A world is [order, kinds, refs, own, size, most, depth]: order lists all names as
   the hash containers have them; kinds[name] is the set of kinds
   the user gives to items of that name, refs[kind] the references its items
   may have, own the kinds whose own attributes change; size and most bound
   the items of the model and the references of one, depth the calls of the
   functions of a handler by each other. *)
VARIABLES
    world,
    dd          \* the model, its caches, index and protocol
vars == <<world, dd>>
order == world.order

Dont_know == 0  Invalid == 1  Good_enough == 2  Valid == 3

-----------------------------------------------------------------------------
(* The model *)

Kinds == {"base", "prefix", "unit", "data", "enum", "struct", "meta", "stream"}

(* Maps whose names exclude each other *)
Space(kind) == CASE kind \in {"data", "enum", "struct"} -> "type"
                 [] kind \in {"base", "unit"} -> "unit"
                 [] OTHER -> kind
Keys == {"type", "unit", "prefix", "meta", "stream"} \X Names
Key(kind, name) == <<Space(kind), name>>
Name(k) == k[2]

Refs == [to : Names \union {None}, aux : Names \union {None}]
Items == [kind : Kinds, bad : BOOLEAN, refs : Seq(Refs)]

Aspects == {"own", "recursion", "unit", "base", "prefix", "type", "parent", "struct"}
Problems == [at : Nat \X Aspects, level : 0 .. 3]
Infos == [id : Nat, validated : BOOLEAN, busy : BOOLEAN, problems : SUBSET Problems]

Uses == Kinds \X Kinds \X (Names \union {None})
States == [items : [Keys -> Items \union {None}],
           info : [Keys -> Infos \union {None}],
           index : SUBSET Uses,
           users : SUBSET (Uses \X Names),
           service : SUBSET [key : Keys, id : Nat, at : Nat \X Aspects, level : 0 .. 3]]

ASSUME NoneAssumption == None \notin Names /\ None \notin Items /\ None \notin Infos
ASSUME PredefinedAssumption == Predefined \subseteq {"data", "base", "prefix"} \X Names

(* Base units and prefixes refer to nothing.  Nothing else takes a predefined
   name: to add the predefined item would be refused, with an exception out of
   the midst of a validation. *)
ASSUME WorldsAssumption ==
    \A w \in Worlds :
        /\ w.order \in Seq(Names) /\ w.most \in Nat /\ w.depth \in Nat
        /\ w.own \subseteq {"data", "struct"}
        /\ \A kind \in Kinds : w.refs[kind] \subseteq IF kind \in {"base", "prefix"} THEN {} ELSE Refs
        /\ \A n \in Names : \A taken \in w.kinds[n] : \A kind \in Kinds :
              <<kind, n>> \in Predefined /\ Space(taken) = Space(kind) => taken = kind

Present(s) == {k \in Keys : s.items[k] # None}
Exists(s, kind, n) == n \in Names /\ Key(kind, n) \in Present(s) /\ s.items[Key(kind, n)].kind = kind

(* validateContains: a struct may not take the name of a meta type, a data
   type or enum may; a meta type may not take the name of a struct. *)
ValidateContains(s, kind, n) ==
    \/ Key(kind, n) \in Present(s)
    \/ kind = "struct" /\ Exists(s, "meta", n)
    \/ kind = "meta" /\ Exists(s, "struct", n)

(* getTypeOfType asks in this order *)
TypeOfType(s, n) == IF <<"type", n>> \in Present(s)
                    THEN s.items[<<"type", n>>].kind
                    ELSE IF Exists(s, "meta", n) THEN "meta" ELSE "invalid"

ForEach(s, names, Op(_, _)) ==
    FoldLeft(LAMBDA t, n : IF n \in names THEN Op(t, n) ELSE t, s, order)

-----------------------------------------------------------------------------
(* Problems: kept with the item and, under the identity of the item's info,
   in the protocol of the service. *)

Fresh(id) == [id |-> id, validated |-> FALSE, busy |-> FALSE, problems |-> {}]
HasInfo(s, k) == s.info[k] # None

HighestOf(levels) == CHOOSE l \in levels : \A m \in levels : m <= l

(* The last entry of the map from levels to problems *)
LevelOf(problems) ==
    IF problems = {} THEN Valid ELSE HighestOf({p.level : p \in problems})

Level(s, k) == IF s.info[k].validated THEN LevelOf(s.info[k].problems) ELSE Dont_know

(* What the info of k puts into the protocol *)
Entry(k, id, p) == [key |-> k, id |-> id, at |-> p.at, level |-> p.level]
EntriesOf(k, info) == {Entry(k, info.id, p) : p \in info.problems}

AddProblem(s, k, at, level) ==
    [s EXCEPT !.info[k].problems = @ \union {[at |-> at, level |-> level]},
              !.service = @ \union {[key |-> k, id |-> s.info[k].id, at |-> at, level |-> level]}]

ProtocolForgotten(s, k) == [s EXCEPT !.info[k].problems = {}]

RemoveProblems(s, k) ==
    [s EXCEPT !.info[k].problems = {}, !.service = @ \ EntriesOf(k, s.info[k])]

ForceRevalidation(s, k) == [s EXCEPT !.info[k].validated = FALSE]

(* setInfo: an info that is replaced takes nothing out of the protocol *)
NewInfo(s, k) ==
    LET used == {p.id : p \in {q \in s.service : q.key = k}} IN
    [s EXCEPT !.info[k] = Fresh(CHOOSE i \in 0 .. Cardinality(used) : i \notin used)]

-----------------------------------------------------------------------------
(* The index: index has the <<from kind, to kind, to>> it knows, users the names
   of the users of each *)

Depend(s, fk, tk, from, to) ==
    [s EXCEPT !.index = @ \union {<<fk, tk, to>>}, !.users = @ \union {<<<<fk, tk, to>>, from>>}]

UsersOf(s, fk, tk, to) == {n \in Names : <<<<fk, tk, to>>, n>> \in s.users}

(* pairs are those of the kinds of user and used *)
Between(pairs, d) == <<d[1], d[2]>> \in pairs
RemoveInMapFrom(s, pairs, from) ==
    [s EXCEPT !.users = {u \in @ : ~(Between(pairs, u[1]) /\ u[2] = from)}]

(* The new name goes into every set, the old name's or not *)
RenameInMapFrom(s, pairs, old, new) ==
    IF old = new THEN s
    ELSE [RemoveInMapFrom(s, pairs, old) EXCEPT
             !.users = @ \union ({d \in s.index : Between(pairs, d)} \X {new})]

RemoveInMapTo(s, fk, tk, to) ==
    [s EXCEPT !.index = @ \ {<<fk, tk, to>>}, !.users = {u \in @ : u[1] # <<fk, tk, to>>}]

-----------------------------------------------------------------------------
(* Validation of one item.  The functions of the code call each other: an item
   validates what it refers to on its way.  Each is given, as deeper, what the
   functions do one level of calls below; old is the old name in a rename. *)
Functions == {"update", "added", "renamed", "data_type_name"}
Calls == [function : Functions, s : States, k : Keys, old : Names \union {None}]
Call(deeper, function, s, k, old) ==
    deeper[[function |-> function, s |-> s, k |-> k, old |-> old]]

Update(deeper, s, k) == Call(deeper, "update", s, k, None)
Renamed(deeper, s, k, old) == Call(deeper, "renamed", s, k, old)
DataTypeNameChanged(deeper, s, k) == Call(deeper, "data_type_name", s, k, None)
ItemAdded(deeper, s, k) ==
    IF s.items[k].kind \in {"base", "prefix"} THEN s
    ELSE Call(deeper, "added", NewInfo(s, k), k, None)

RevalidateUser(deeper, s, k) ==
    IF HasInfo(s, k) THEN Update(deeper, ForceRevalidation(s, k), k) ELSE s

(* getOrCreateBaseUnit, getOrCreateUnitPrefix, getOrCreateDataType: what is
   predefined is added to the model when somebody asks for it. *)
PredefinedItem(kind) ==
    [kind |-> kind, bad |-> FALSE,
     refs |-> IF kind = "data" THEN <<[to |-> None, aux |-> None]>> ELSE <<>>]
GetOrCreate(deeper, s, kind, n) ==
    IF Exists(s, kind, n) \/ <<kind, n>> \notin Predefined THEN s
    ELSE ItemAdded(deeper, [s EXCEPT !.items[Key(kind, n)] = PredefinedItem(kind)], Key(kind, n))

(* Level of an item somebody refers to; an item without an info gets one *)
Informed(deeper, s, k) == IF HasInfo(s, k) THEN s ELSE Update(deeper, NewInfo(s, k), k)
UpdateUnlessValid(deeper, s, k) == IF Level(s, k) = Valid THEN s ELSE Update(deeper, s, k)
Validated(deeper, s, k) == UpdateUnlessValid(deeper, Informed(deeper, s, k), k)

(* What becomes of an item for the level of one it refers to *)
Judged(s, k, at, level) == IF level = Valid THEN s ELSE AddProblem(s, k, at, level)

(* The unit of a data type or of a struct's element *)
DependOnUnit(s, k, i, u) ==
    Depend(Judged(s, k, <<i, "unit">>, IF Level(s, Key("unit", u)) < Valid THEN Good_enough ELSE Valid),
           s.items[k].kind, "unit", Name(k), u)
UnitFound(deeper, s, k, i, u) ==
    LET kind == s.items[k].kind IN
    IF Exists(s, "base", u) THEN Depend(s, kind, "base", Name(k), u)
    ELSE IF Exists(s, "unit", u) THEN DependOnUnit(Informed(deeper, s, Key("unit", u)), k, i, u)
    ELSE AddProblem(Depend(Depend(s, kind, "unit", Name(k), u), kind, "base", Name(k), u),
                    k, <<i, "unit">>, Good_enough)
CheckUnit(deeper, s, k, i, u) ==
    IF u = None THEN s ELSE UnitFound(deeper, GetOrCreate(deeper, s, "base", u), k, i, u)

(* One half of a RefUnit of a unit *)
RefUnitFound(s, k, i, kind, n) ==
    Judged(s, k, <<i, kind>>, IF Exists(s, kind, n) THEN Valid ELSE Invalid)
CheckRefUnit(deeper, s, k, i, kind, n) ==
    IF n = None THEN AddProblem(s, k, <<i, kind>>, Invalid)
    ELSE RefUnitFound(GetOrCreate(deeper, Depend(s, "unit", kind, Name(k), n), kind, n), k, i, kind, n)

DataTypeFound(s, k, n) ==
    LET d == Key("data", n) IN
    Judged(s, k, <<1, "type">>, IF ~Exists(s, "data", n) THEN Invalid
                                ELSE IF ~HasInfo(s, d) THEN Good_enough
                                ELSE IF Level(s, d) # Valid THEN Invalid ELSE Valid)
CheckDataTypeOfEnum(deeper, s, k, n) ==
    IF n = None THEN AddProblem(s, k, <<1, "type">>, Invalid)
    ELSE DataTypeFound(GetOrCreate(deeper, Depend(s, "enum", "data", Name(k), n), "data", n), k, n)

(* An item depends on one that has been validated, and is judged by it *)
DependOn(s, k, kind, n, at) ==
    Judged(Depend(s, s.items[k].kind, kind, Name(k), n), k, at, Level(s, Key(kind, n)))

(* getOrCreateValidationInfo for the type of an element, and what comes of
   it.  Nothing is noted about a type that does not exist. *)
ElementTypeFound(deeper, s, k, i, n) ==
    LET kind == TypeOfType(s, n) IN
    IF n = None \/ kind \in {"invalid", "meta"} THEN AddProblem(s, k, <<i, "type">>, Invalid)
    ELSE DependOn(Validated(deeper, s, Key(kind, n)), k, kind, n, <<i, "type">>)
CheckElement(deeper, s, k, i, n) ==
    ElementTypeFound(deeper, IF TypeOfType(s, n) = "invalid" THEN GetOrCreate(deeper, s, "data", n) ELSE s,
                     k, i, n)

(* The parent is forced and updated before it is looked at *)
ParentFound(deeper, s, k, n) ==
    LET p == Key("meta", n)
        t == Update(deeper, IF HasInfo(s, p) THEN ForceRevalidation(s, p) ELSE NewInfo(s, p), p)
    IN  Judged(t, k, <<1, "parent">>, IF Level(t, p) # Valid THEN Good_enough ELSE Valid)
CheckParent(deeper, s, k, n) ==
    LET known == Depend(s, "meta", "meta", Name(k), n) IN
    IF n = None THEN s
    ELSE IF Exists(s, "meta", n) THEN ParentFound(deeper, known, k, n)
    ELSE AddProblem(known, k, <<1, "parent">>, Invalid)

(* The type of a stream is a struct or a meta type *)
CheckStreamType(deeper, s, k, n) ==
    LET kind == TypeOfType(s, n) IN
    IF n = None \/ kind \notin {"struct", "meta"} THEN AddProblem(s, k, <<1, "type">>, Invalid)
    ELSE DependOn(Validated(deeper, s, Key(kind, n)), k, kind, n, <<1, "type">>)

StreamStructFound(deeper, s, k, i, n) ==
    LET p == Key("struct", n) IN
    DependOn(Update(deeper, Informed(deeper, s, p), p), k, "struct", n, <<i, "struct">>)
CheckStreamStruct(deeper, s, k, i, n) ==
    IF Exists(s, "struct", n) THEN StreamStructFound(deeper, s, k, i, n)
    ELSE AddProblem(Depend(s, "stream", "struct", Name(k), n), k, <<i, "struct">>, Invalid)

CheckRef(deeper, s, k, i) ==
    LET r == s.items[k].refs[i] IN
    CASE s.items[k].kind = "unit" ->
             CheckRefUnit(deeper, CheckRefUnit(deeper, s, k, i, "base", r.to), k, i, "prefix", r.aux)
      [] s.items[k].kind = "data" -> CheckUnit(deeper, s, k, i, r.to)
      [] s.items[k].kind = "enum" -> CheckDataTypeOfEnum(deeper, s, k, r.to)
      [] s.items[k].kind = "struct" -> CheckUnit(deeper, CheckElement(deeper, s, k, i, r.to), k, i, r.aux)
      [] s.items[k].kind = "meta" -> CheckParent(deeper, s, k, r.to)
      [] s.items[k].kind = "stream" ->
             IF i = 1 THEN CheckStreamType(deeper, s, k, r.to)
             ELSE CheckStreamStruct(deeper, s, k, i, r.to)

(* ValidationInfo::update: structs and meta types detect that they are on
   the way to themselves. *)
Settled(s, k) == [s EXCEPT !.info[k].busy = FALSE, !.info[k].validated = TRUE]
CheckRefs(deeper, s, k) ==
    FoldLeft(LAMBDA t, i : CheckRef(deeper, t, k, i), s, [i \in DOMAIN s.items[k].refs |-> i])
CheckAll(deeper, s, k) ==
    Judged(CheckRefs(deeper, s, k), k, <<0, "own">>, IF s.items[k].bad THEN Invalid ELSE Valid)
Begun(s, k) == [RemoveProblems(s, k) EXCEPT !.info[k].busy = s.items[k].kind \in {"struct", "meta"}]
DoUpdate(deeper, s, k) ==
    IF s.info[k].validated THEN s
    ELSE IF s.info[k].busy
    THEN [AddProblem(s, k, <<0, "recursion">>, Invalid) EXCEPT !.info[k].validated = TRUE]
    ELSE Settled(CheckAll(deeper, Begun(s, k), k), k)

(* update with only_last: an element added at the end *)
CheckLast(deeper, s, k) ==
    CheckRef(deeper, [s EXCEPT !.info[k].busy = TRUE], k, Len(s.items[k].refs))
LeftBusy(deeper, s, k) == [CheckLast(deeper, s, k) EXCEPT !.info[k].validated = TRUE]
UpdateLast(deeper, s, k) == Settled(CheckLast(deeper, s, k), k)

-----------------------------------------------------------------------------
(* forceRevalidationOfTypeDependencies: the structs that use the type, found
   through the index, each followed by those that use it, one level for every
   name; of a data type the enums as well, and the structs that use them. *)
FollowedBy(s, users, deeper, found, n) ==
    IF n \in users /\ Exists(s, "struct", n) /\ n \notin ToSet(found)
    THEN deeper[Key("struct", n)][Append(found, n)] ELSE found
AllFollowed(s, users, deeper, found) ==
    FoldLeft(LAMBDA f, n : FollowedBy(s, users, deeper, f, n), found, order)
StructUsers(s, k) ==
    IF k \in Present(s) THEN UsersOf(s, "struct", s.items[k].kind, Name(k)) ELSE {}
NextFollowed(s, deeper) ==
    [k \in Keys |-> [found \in Seq(Names) |-> AllFollowed(s, StructUsers(s, k), deeper, found)]]
Unfollowed == [k \in Keys |-> [found \in Seq(Names) |-> found]]
StructsUsing(s) == FoldLeft(LAMBDA deeper, n : NextFollowed(s, deeper), Unfollowed, order)

EnumUsers(s, k) ==
    IF s.items[k].kind # "data" THEN {}
    ELSE {n \in UsersOf(s, "enum", "data", Name(k)) : Exists(s, "enum", n)}

(* The names found, the structs in the order in which they were *)
DirectUsers(s, k) ==
    [structs |-> SelectSeq(order, LAMBDA n : n \in StructUsers(s, k)), enums |-> {}]
Dependencies(s, k) ==
    LET find == StructsUsing(s)
        behind(found, n) == find[Key("enum", n)][found]
    IN  [structs |-> ForEach(find[k][<<>>], EnumUsers(s, k), behind), enums |-> EnumUsers(s, k)]

ForceAll(s, r) ==
    LET keys == {Key("struct", n) : n \in ToSet(r.structs)} \union {Key("enum", n) : n \in r.enums} IN
    [s EXCEPT !.info = [k \in Keys |-> IF k \in keys /\ HasInfo(s, k)
                                        THEN [@[k] EXCEPT !.validated = FALSE] ELSE @[k]]]

UpdateExisting(deeper, s, kind, n) ==
    IF Exists(s, kind, n) THEN Update(deeper, s, Key(kind, n)) ELSE s
UpdateAllStructs(deeper, s, names) ==
    FoldLeft(LAMBDA t, n : UpdateExisting(deeper, t, "struct", n), s, names)
UpdateAllEnums(deeper, s, names) ==
    ForEach(s, names, LAMBDA t, n : UpdateExisting(deeper, t, "enum", n))

-----------------------------------------------------------------------------
(* Events (DataDefinition::modelChanged) *)

RevalidateExisting(deeper, s, kind, n) ==
    IF Exists(s, kind, n) THEN RevalidateUser(deeper, s, Key(kind, n)) ELSE s
RevalidateUsers(deeper, s, kind, names) ==
    ForEach(s, names, LAMBDA t, n : RevalidateExisting(deeper, t, kind, n))

(* A change that only reaches the item itself *)
ItselfChanged(deeper, s, k) == Update(deeper, ForceRevalidation(s, k), k)

(* Another attribute than the unit of a data type *)
DataTypeChanged(deeper, s, k) ==
    LET t == ItselfChanged(deeper, s, k)
        r == Dependencies(t, k)
    IN  UpdateAllEnums(deeper, UpdateAllStructs(deeper, ForceAll(t, r), r.structs), r.enums)

(* The data type of an enum; a struct's alignment, or the type, unit, alignment
   of an element *)
TypeChanged(deeper, s, k) ==
    LET r == Dependencies(s, k) IN
    UpdateAllStructs(deeper, ItselfChanged(deeper, ForceAll(s, r), k), r.structs)
DoDataTypeNameChanged(deeper, s, k) == TypeChanged(deeper, s, k)
StructChanged(deeper, s, k) == TypeChanged(deeper, s, k)

(* The user's references to old, in the field f, become references to new *)
Redirected(s, k, f, old, new) ==
    [s EXCEPT !.items[k].refs = [i \in DOMAIN @ |->
        IF @[i][f] = old THEN [@[i] EXCEPT ![f] = new] ELSE @[i]]]

(* Users of a renamed item follow, without events, and are revalidated *)
UntilRenamed(s, fk, tk, old, new) == IF old = new THEN s ELSE RemoveInMapTo(s, fk, tk, old)
FollowOne(deeper, s, fk, f, old, new, n) ==
    IF Exists(s, fk, n)
    THEN RevalidateUser(deeper, Redirected(s, Key(fk, n), f, old, new), Key(fk, n)) ELSE s
FollowRename(deeper, s, users, fk, f, old, new) ==
    ForEach(s, users, LAMBDA t, n : FollowOne(deeper, t, fk, f, old, new, n))
Follow(deeper, s, fk, tk, f, old, new) ==
    FollowRename(deeper, UntilRenamed(s, fk, tk, old, new), UsersOf(s, fk, tk, old), fk, f, old, new)

EnumsForgotten(deeper, s, old, new) == RemoveInMapTo(s, "enum", "data", old)

(* An enum follows through its setter, which is an event if the name differs *)
EnumFollows(deeper, s, old, new, n) ==
    LET k == Key("enum", n) IN
    IF old = new \/ ~Exists(s, "enum", n) \/ s.items[k].refs[1].to # old THEN s
    ELSE DataTypeNameChanged(deeper, Redirected(s, k, "to", old, new), k)
EnumsFollow(deeper, s, old, new) ==
    ForEach(UntilRenamed(s, "enum", "data", old, new), UsersOf(s, "enum", "data", old),
            LAMBDA t, n : EnumFollows(deeper, t, old, new, n))

(* ValidationServiceInfo::renamed, also called for an item that was added.  As
   a user the item gets its new name in some of the sets only. *)
RenamedData(deeper, s, old, new) ==
    Follow(deeper, EnumsFollow(deeper, RenameInMapFrom(s, {<<"data", "unit">>}, old, new), old, new),
           "struct", "data", "to", old, new)
RenamedEnum(deeper, s, old, new) ==
    Follow(deeper, RenameInMapFrom(s, {<<"enum", "data">>}, old, new),
           "struct", "enum", "to", old, new)
RenamedStruct(deeper, s, old, new) ==
    Follow(deeper, Follow(deeper, RenameInMapFrom(s, {"struct"} \X {"data", "enum", "struct"}, old, new),
                          "struct", "struct", "to", old, new),
           "stream", "struct", "to", old, new)
RenamedMeta(deeper, s, old, new) ==
    Follow(deeper, Follow(deeper, RenameInMapFrom(s, {<<"meta", "meta">>}, old, new),
                          "meta", "meta", "to", old, new),
           "stream", "meta", "to", old, new)
RenamedStream(s, old, new) == RenameInMapFrom(s, {"stream"} \X {"meta", "struct"}, old, new)
RenamedBase(deeper, s, old, new) ==
    Follow(deeper, Follow(deeper, Follow(deeper, s, "struct", "base", "aux", old, new),
                          "data", "base", "to", old, new),
           "unit", "base", "to", old, new)
RenamedPrefix(deeper, s, old, new) == Follow(deeper, s, "unit", "prefix", "aux", old, new)
RenamedUnit(deeper, s, old, new) ==
    Follow(deeper, Follow(deeper, RenameInMapFrom(s, {"unit"} \X {"base", "prefix"}, old, new),
                          "struct", "unit", "aux", old, new),
           "data", "unit", "to", old, new)

DoRenamed(deeper, s, k, old) ==
    CASE s.items[k].kind = "data" -> RenamedData(deeper, s, old, Name(k))
      [] s.items[k].kind = "enum" -> RenamedEnum(deeper, s, old, Name(k))
      [] s.items[k].kind = "struct" -> RenamedStruct(deeper, s, old, Name(k))
      [] s.items[k].kind = "meta" -> RenamedMeta(deeper, s, old, Name(k))
      [] s.items[k].kind = "stream" -> RenamedStream(s, old, Name(k))
      [] s.items[k].kind = "base" -> RenamedBase(deeper, s, old, Name(k))
      [] s.items[k].kind = "prefix" -> RenamedPrefix(deeper, s, old, Name(k))
      [] s.items[k].kind = "unit" -> RenamedUnit(deeper, s, old, Name(k))

(* Units and streams have nobody told that they have come *)
DoItemAdded(deeper, s, k) ==
    IF s.items[k].kind \in {"unit", "stream"} THEN Update(deeper, s, k)
    ELSE Renamed(deeper, Update(deeper, s, k), k, Name(k))

(* One level of calls, what is below the last, where to call is an error of the
   bound, and all levels *)
Do(deeper, c) ==
    CASE c.function = "update" -> DoUpdate(deeper, c.s, c.k)
      [] c.function = "added" -> DoItemAdded(deeper, c.s, c.k)
      [] c.function = "renamed" -> DoRenamed(deeper, c.s, c.k, c.old)
      [] c.function = "data_type_name" -> DoDataTypeNameChanged(deeper, c.s, c.k)
OneLevel(deeper) == [c \in Calls |-> Do(deeper, c)]
TooDeep == [c \in Calls |-> IF Assert(FALSE, "world.depth is too small") THEN c.s ELSE c.s]
Deepest == FoldLeft(LAMBDA deeper, i : OneLevel(deeper), TooDeep, [i \in 1 .. world.depth |-> i])

(* ValidationServiceInfo::removed, the item is out of the model already; its
   users are told one kind after the other, then its problems are taken out
   of the protocol *)
UsersUntold(s, fk, tk, n) == RemoveInMapTo(s, fk, tk, n)
UsersTold(s, fk, tk, n) ==
    RevalidateUsers(Deepest, RemoveInMapTo(s, fk, tk, n), fk, UsersOf(s, fk, tk, n))
FromsAndUsers(kind) ==
    CASE kind = "data" -> <<{<<"data", "unit">>}, <<"enum", "struct">>>>
      [] kind = "enum" -> <<{<<"enum", "data">>}, <<"struct">>>>
      [] kind = "struct" -> <<{<<"struct", "data">>, <<"struct", "enum">>, <<"struct", "struct">>},
                              <<"struct", "stream">>>>
      [] kind = "meta" -> <<{<<"meta", "meta">>}, <<"meta", "stream">>>>
      [] kind = "stream" -> <<{<<"stream", "meta">>, <<"stream", "struct">>}, <<>>>>
      [] kind = "base" -> <<{}, <<"unit", "data", "struct">>>>
      [] kind = "prefix" -> <<{}, <<"unit">>>>
      [] kind = "unit" -> <<{<<"unit", "base">>, <<"unit", "prefix">>}, <<"data", "struct">>>>
Removed(s, kind, n) ==
    LET fu == FromsAndUsers(kind) IN
    FoldLeft(LAMBDA t, fk : UsersTold(t, fk, kind, n), RemoveInMapFrom(s, fu[1], n), fu[2])

-----------------------------------------------------------------------------
(* The operations of a user, each with the event it causes *)

FewestRefs(kind) == IF kind \in {"data", "enum", "meta", "stream"} THEN 1 ELSE 0
MostRefs(kind) == CASE kind \in {"base", "prefix"} -> 0
                    [] kind \in {"data", "enum", "meta"} -> 1
                    [] OTHER -> world.most

(* TypeAccessMap::add.  To emplace an equal item once more is left out. *)
AddItem(kind, n) ==
    /\ Cardinality(Present(dd)) < world.size
    /\ kind \in world.kinds[n]
    /\ ~ValidateContains(dd, kind, n)
    /\ \E m \in FewestRefs(kind) .. MostRefs(kind) : \E refs \in [1 .. m -> world.refs[kind]] :
          dd' = ItemAdded(Deepest,
                          [dd EXCEPT !.items[Key(kind, n)] = [kind |-> kind, bad |-> FALSE, refs |-> refs]],
                          Key(kind, n))

(* TypeAccessMap::remove.  The removed object keeps its info until the end,
   when its problems are taken out of the protocol. *)
RemoveItem(k) ==
    LET gone == [dd EXCEPT !.items[k] = None, !.info[k] = None]
        its == IF HasInfo(dd, k) THEN EntriesOf(k, dd.info[k]) ELSE {}
    IN  dd' = [Removed(gone, dd.items[k].kind, Name(k)) EXCEPT !.service = @ \ its]

(* setName: refused if the name is taken, else the map has the item under
   its new name when the event comes *)
Moved(k, new) ==
    [dd EXCEPT !.items = [dd.items EXCEPT ![new] = dd.items[k], ![k] = None],
               !.info = [dd.info EXCEPT ![new] = dd.info[k], ![k] = None],
               !.service = {IF p.key = k THEN [p EXCEPT !.key = new] ELSE p : p \in @}]
RenameItem(k, n) ==
    LET kind == dd.items[k].kind IN
    /\ kind \in world.kinds[n]
    /\ ~ValidateContains(dd, kind, n)
    /\ dd' = Renamed(Deepest, Moved(k, Key(kind, n)), Key(kind, n), Name(k))

(* setTypeName, setUnitName, setDataTypeName, setParent, ... *)
RefSet(s, k, i) ==
    CASE s.items[k].kind = "enum" -> DataTypeNameChanged(Deepest, s, k)
      [] s.items[k].kind = "struct" -> StructChanged(Deepest, s, k)
      [] s.items[k].kind = "stream" /\ i > 1 -> s
      [] OTHER -> ItselfChanged(Deepest, s, k)
SetRef(k, i, r) ==
    LET old == dd.items[k].refs[i] IN
    /\ r # old /\ (r.to = old.to \/ r.aux = old.aux)
    /\ dd' = RefSet([dd EXCEPT !.items[k].refs[i] = r], k, i)

(* Elements, RefUnits and stream structs added at the end.  The event of a
   unit updates without forcing, which does nothing; nobody reacts to that of
   a stream. *)
RefAdded(s, k) ==
    CASE s.items[k].kind = "struct" -> UpdateLast(Deepest, ForceRevalidation(s, k), k)
      [] s.items[k].kind = "unit" -> Update(Deepest, s, k)
      [] OTHER -> s
AddRef(k, r) ==
    /\ Len(dd.items[k].refs) < MostRefs(dd.items[k].kind)
    /\ dd' = RefAdded([dd EXCEPT !.items[k].refs = Append(@, r)], k)

(* An element inserted before the last *)
InsertRef(k, r) ==
    /\ dd.items[k].kind = "struct" /\ Len(dd.items[k].refs) \in 1 .. world.most - 1
    /\ dd' = ItselfChanged(Deepest, [dd EXCEPT !.items[k].refs = InsertAt(@, 1, r)], k)

(* remove, and pop_back, after which a struct is not validated again *)
RefDropped(s, k) ==
    CASE s.items[k].kind = "struct" -> ItselfChanged(Deepest, s, k)
      [] s.items[k].kind = "unit" -> Update(Deepest, s, k)
      [] OTHER -> s
DropRef(k, i) ==
    /\ Len(dd.items[k].refs) > FewestRefs(dd.items[k].kind)
    /\ dd' = RefDropped([dd EXCEPT !.items[k].refs = RemoveAt(@, i)], k)
PopRef(k) ==
    /\ dd.items[k].kind = "struct" /\ dd.items[k].refs # <<>>
    /\ dd' = [dd EXCEPT !.items[k].refs = Front(@)]

(* The size of a data type becomes 0 or right again, or the alignment of a
   struct *)
OwnSet(s, k) ==
    IF s.items[k].kind = "data" THEN DataTypeChanged(Deepest, s, k) ELSE StructChanged(Deepest, s, k)
SetOwn(k) ==
    /\ dd.items[k].kind \in world.own
    /\ dd' = OwnSet([dd EXCEPT !.items[k].bad = ~@], k)

(* DataDefinition::validate: kind after kind, in each the items that are not
   valid, or all *)
ValidateItem(s, k, force) ==
    IF ~HasInfo(s, k) THEN Informed(Deepest, s, k)
    ELSE IF force \/ Level(s, k) < Valid THEN RevalidateUser(Deepest, s, k) ELSE s
ValidateKind(s, kind, force) ==
    ForEach(s, {n \in Names : Exists(s, kind, n)},
            LAMBDA t, n : ValidateItem(t, Key(kind, n), force))
Validate(force) ==
    dd' = FoldLeft(LAMBDA s, kind : ValidateKind(s, kind, force), dd,
                   <<"unit", "data", "enum", "struct", "meta", "stream">>)

Init ==
    /\ world \in Worlds
    /\ dd = [items |-> [k \in Keys |-> None], info |-> [k \in Keys |-> None],
             index |-> {}, users |-> {}, service |-> {}]

Next ==
    /\ \/ \E n \in Names, kind \in Kinds : AddItem(kind, n)
       \/ \E k \in Present(dd) :
             \/ RemoveItem(k)
             \/ \E n \in Names : RenameItem(k, n)
             \/ \E i \in DOMAIN dd.items[k].refs :
                   \/ \E r \in world.refs[dd.items[k].kind] : SetRef(k, i, r)
                   \/ DropRef(k, i)
             \/ \E r \in world.refs[dd.items[k].kind] : AddRef(k, r) \/ InsertRef(k, r)
             \/ PopRef(k)
             \/ SetOwn(k)
       \/ \E force \in BOOLEAN : Validate(force)
    /\ UNCHANGED world

Spec == Init /\ [][Next]_vars

-----------------------------------------------------------------------------
(* Properties *)

Informable(s) == {k \in Present(s) : s.items[k].kind \notin {"base", "prefix"}}

\* Every item is kept under its own kind and has an info if it is of a kind that
\* is validated, and only those are known.
WellTyped ==
    /\ dd \in States
    /\ \A k \in Keys : HasInfo(dd, k) <=> k \in Informable(dd)
    /\ \A k \in Present(dd) : Space(dd.items[k].kind) = k[1]

\* Between two calls no info is on its way.
NothingUnderWay == \A k \in Informable(dd) : ~dd.info[k].busy

\* Between two calls every info is settled: validation has walked the model and
\* come back.
TypeOK ==
    /\ WellTyped /\ NothingUnderWay
    /\ \A k \in Informable(dd) : dd.info[k].validated

\* The protocol that getValidationProtocol and isValid read is exactly the
\* problems of the items there are (addProblem and removeProblems keep two
\* copies; infos come, move and go with their items).
ProtocolMatchesItems ==
    dd.service = UNION {EntriesOf(k, dd.info[k]) : k \in {l \in Keys : HasInfo(dd, l)}}
=============================================================================
