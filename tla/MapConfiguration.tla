-------------------------- MODULE MapConfiguration --------------------------
(***************************************************************************)
(* The configuration of a mapping, edited by a client and read from        *)
(* documents: sources, targets with assignments and triggers, and          *)
(* transformations, all referring to each other by name and to the types   *)
(* of a data definition.  Every target keeps the names of the sources it   *)
(* uses, every item a flag that says whether it fits the data definition.  *)
(* Calls that are refused and change nothing are not steps.                *)
(***************************************************************************)
EXTENDS Naturals, Sequences, SequencesExt, FiniteSets, Functions

CONSTANTS
    None,   \* no source, no transformation, no data definition
    Worlds  \* what the client starts from and what it may do

(* A world is [dd, dds, unchecked, docs, modes, names, targets, types, assigns,
   triggers, trafos, most]: the data definition to start with, all of them by name, those
   set without a check, the documents, how they are loaded, then what can be
   added: names of sources and of targets, types, assignments, triggers, and
   transformations with the enums they start with and those they are given;
   most bounds the targets, and the triggers of one. *)
(* What may be written into a document or a call: everything is named, a
   constant has no source and everything else that needs one has, and within
   a document names and assigned elements are distinct. *)
IsSequence(s) == /\ Len(s) \in Nat /\ DOMAIN s = 1..Len(s)
                 /\ s = [i \in 1..Len(s) |-> s[i]]
AssignmentOK(a) ==
    /\ DOMAIN a = {"to", "kind", "source", "from", "trafo", "valid"}
    /\ a.kind \in {"source", "received", "constant"} /\ a.valid \in BOOLEAN
    /\ a.kind = "constant" <=> a.source = None
TriggerOK(trigger) ==
    /\ DOMAIN trigger = {"kind", "source", "from", "valid"}
    /\ trigger.kind \in {"periodic", "signal", "data"} /\ trigger.valid \in BOOLEAN
    /\ trigger.kind = "periodic" => trigger.source = None
    /\ trigger.kind = "data" => trigger.source # None
ElementsOnce(assigns) == IsInjective([k \in DOMAIN assigns |-> assigns[k].to])
NamesOnce(targets) == IsInjective([i \in DOMAIN targets |-> targets[i].name])
DocumentOK(doc) ==
    /\ None \notin DOMAIN doc.sources
    /\ IsSequence(doc.targets) /\ NamesOnce(doc.targets)
    /\ \A i \in DOMAIN doc.targets :
          LET t == doc.targets[i] IN
          /\ t.name \notin DOMAIN doc.sources
          /\ IsSequence(t.assigns) /\ \A k \in DOMAIN t.assigns : AssignmentOK(t.assigns[k])
          /\ IsSequence(t.triggers) /\ \A k \in DOMAIN t.triggers : TriggerOK(t.triggers[k])
          /\ ElementsOnce(t.assigns)

ASSUME WorldsAssumption ==
    \A w \in Worlds :
        /\ w.dd \in DOMAIN w.dds \union {None} /\ w.unchecked \subseteq DOMAIN w.dds \union {None}
        /\ None \notin w.names
        /\ \A a \in w.assigns : AssignmentOK(a)
        /\ \A trigger \in w.triggers : TriggerOK(trigger)
        /\ \A c \in w.trafos : c[2] \subseteq {None}
        /\ \A doc \in w.docs : DocumentOK(doc)

VARIABLES
    world,
    config  \* [dd, sources, targets, trafos, fault, judged, tidy]
vars == <<world, config>>

(* A source is [type, valid]; a target [name, type, valid, assigns, triggers,
   refs]; an assignment [to, kind, source, from, trafo, valid] with the kinds
   "source", "received" and "constant"; a trigger [kind, source, from, valid]
   with the kinds "periodic", "signal" and "data"; a transformation [enums,
   entries, valid].  fault: a null pointer, of a source or of a type, was dereferenced.
   judged and tidy are history: nothing was taken over unchecked, nor a flag
   left to another item, since the flags were last set; no target came from a
   document that leaves its sources to another one, and no
   trigger had setVariable called after it had been added. *)

(* reset *)
Empty == [dd |-> None, sources |-> <<>>, targets |-> <<>>, trafos |-> <<>>,
          fault |-> "none", judged |-> TRUE, tidy |-> TRUE]

Types(c) == IF c.dd = None THEN <<>> ELSE world.dds[c.dd].types
KnownEnums(c) == IF c.dd = None THEN {} ELSE world.dds[c.dd].enums
Described(c) == c.dd # None \* resetErrors finds data types

TargetNames(c) == {c.targets[i].name : i \in DOMAIN c.targets}
NoSourceNamed(c, n) == n \notin DOMAIN c.sources
NameFree(c, n) == n \notin DOMAIN c.sources \union TargetNames(c)

(* Maps from names: a name that is there stays with what it has. *)
Named(n, item) == [x \in {n} |-> item]
Joined(map, more) ==
    [x \in DOMAIN map \union DOMAIN more |-> IF x \in DOMAIN map THEN map[x] ELSE more[x]]

Unflagged(items) == [i \in DOMAIN items |-> [items[i] EXCEPT !.valid = TRUE]]
Sources(items) == {items[i].source : i \in DOMAIN items} \ {None}
Used(t) == Sources(t.assigns) \union Sources(t.triggers)

-----------------------------------------------------------------------------
(* Checks *)

TriggerRefersOK(c, trigger) == trigger.kind = "periodic" \/ trigger.source \in DOMAIN c.sources
AssignmentRefersOK(c, a) == /\ a.source # None => a.source \in DOMAIN c.sources
                            /\ a.trafo # None => a.trafo \in DOMAIN c.trafos

CheckMapping(c) ==
    \A i \in DOMAIN c.targets :
        /\ \A k \in DOMAIN c.targets[i].triggers : TriggerRefersOK(c, c.targets[i].triggers[k])
        /\ \A k \in DOMAIN c.targets[i].assigns : AssignmentRefersOK(c, c.targets[i].assigns[k])

(* A path of a type is [struct, size, dynamic]. *)
Found(c, type, path) == type \in DOMAIN Types(c) /\ path \in DOMAIN Types(c)[type]
Plain == [struct |-> None, size |-> 1, dynamic |-> FALSE]

(* What a source element looks like; <<>> is the source as a whole *)
Given(c, a) ==
    LET type == c.sources[a.source].type IN
    IF a.kind # "source" \/ (a.from = <<>> /\ type \notin DOMAIN Types(c)) THEN Plain
    ELSE IF a.from = <<>> THEN [Plain EXCEPT !.struct = type]
    ELSE Types(c)[type][a.from]

AssignmentTypeOK(c, type, a) ==
    /\ Found(c, type, a.to) /\ ~Types(c)[type][a.to].dynamic
    /\ (a.kind = "source" /\ a.from # <<>>) => Found(c, c.sources[a.source].type, a.from)
    /\ Given(c, a) = Types(c)[type][a.to]

TriggerTypeOK(c, trigger) ==
    trigger.kind = "data" => /\ Found(c, c.sources[trigger.source].type, trigger.from)
                             /\ Types(c)[c.sources[trigger.source].type][trigger.from].size = 1

(* Another assignment is to a struct or array that contains its element *)
Covered(assigns, a) == \E i \in DOMAIN assigns : IsStrictPrefix(assigns[i].to, a.to)
HasDoubles(assigns) == \E i \in DOMAIN assigns : Covered(assigns, assigns[i])
MarkDoubles(assigns) ==
    [i \in DOMAIN assigns |-> [assigns[i] EXCEPT !.valid = @ /\ ~Covered(assigns, assigns[i])]]

(* checkDDLConsistency looks up the sources without asking whether they are
   there. *)
Unfounded(c) ==
    \E i \in DOMAIN c.targets :
        LET t == c.targets[i] IN
        /\ t.type \in DOMAIN Types(c)
        /\ \/ \E k \in DOMAIN t.assigns : /\ t.assigns[k].kind = "source" /\ Found(c, t.type, t.assigns[k].to)
                                          /\ t.assigns[k].source \notin DOMAIN c.sources
           \/ \E k \in DOMAIN t.triggers : /\ t.triggers[k].kind = "data"
                                           /\ t.triggers[k].source \notin DOMAIN c.sources

JudgedTarget(c, t) ==
    IF t.type \notin DOMAIN Types(c) THEN [t EXCEPT !.valid = FALSE]
    ELSE [t EXCEPT !.valid = TRUE,
                   !.assigns = MarkDoubles([i \in DOMAIN @ |->
                       [@[i] EXCEPT !.valid = AssignmentTypeOK(c, t.type, t.assigns[i])]]),
                   !.triggers = [i \in DOMAIN @ |->
                       [@[i] EXCEPT !.valid = TriggerTypeOK(c, t.triggers[i])]]]

Flagged(c) ==
    [c EXCEPT !.sources = [n \in DOMAIN @ |-> [@[n] EXCEPT !.valid = c.sources[n].type \in DOMAIN Types(c)]],
              !.targets = [i \in DOMAIN @ |-> JudgedTarget(c, @[i])],
              !.trafos = [n \in DOMAIN @ |-> [@[n] EXCEPT !.valid = c.trafos[n].enums \subseteq KnownEnums(c)]],
              !.judged = TRUE]
CheckDDL(c) == IF Unfounded(c) THEN [c EXCEPT !.fault = "source"] ELSE Flagged(c)

(* After CheckDDL: it returned success *)
Fits(c) ==
    /\ \A n \in DOMAIN c.sources : c.sources[n].valid
    /\ \A n \in DOMAIN c.trafos : c.trafos[n].valid
    /\ \A i \in DOMAIN c.targets :
          /\ c.targets[i].valid
          /\ \A k \in DOMAIN c.targets[i].assigns : c.targets[i].assigns[k].valid
          /\ \A k \in DOMAIN c.targets[i].triggers : c.targets[i].triggers[k].valid

-----------------------------------------------------------------------------
(* Sources *)

Without(items, field, values) ==
    FoldLeft(LAMBDA left, item : IF item[field] \in values THEN left ELSE Append(left, item),
             <<>>, items)

(* Items of the target were removed, left is what there is now: sources used
   before and no more are forgotten. *)
ReleasedByAssignments(t, left) ==
    [left EXCEPT !.refs = @ \ (Sources(t.assigns) \ Sources(left.assigns))]
Released(t, left) == [left EXCEPT !.refs = @ \ (Used(t) \ Used(left))]

WithoutAssignment(t, k) == Released(t, [t EXCEPT !.assigns = RemoveAt(@, k)])
WithoutTrigger(t, k) == Released(t, [t EXCEPT !.triggers = RemoveAt(@, k)])

AddSource(n, type) ==
    /\ Described(config) /\ type \in DOMAIN Types(config) /\ NameFree(config, n)
    /\ config' = [config EXCEPT !.sources = Joined(@, Named(n, [type |-> type, valid |-> TRUE]))]

(* Constants and functions have the source None, the empty name: removing that
   takes them, and triggers without a source, from all targets. *)
RemoveSource(n) ==
    LET Deserted(t) == Released(t, [t EXCEPT !.assigns = Without(@, "source", {n}),
                                             !.triggers = Without(@, "source", {n})])
    IN  config' = [config EXCEPT !.targets = [i \in DOMAIN @ |-> Deserted(@[i])],
                          !.sources = Restrict(@, DOMAIN @ \ {n})]

ModifySourceName(t, old, new) ==
    LET Renamed(items) == [i \in DOMAIN items |->
            IF items[i].source = old THEN [items[i] EXCEPT !.source = new] ELSE items[i]]
    IN  [t EXCEPT !.refs = (@ \ {old}) \union {new}, !.assigns = Renamed(@), !.triggers = Renamed(@)]

RenameSource(old, new) ==
    LET Follow(t) == IF old \in t.refs THEN ModifySourceName(t, old, new) ELSE t IN
    /\ old \in DOMAIN config.sources /\ Described(config) /\ NameFree(config, new)
    /\ config' = [config EXCEPT !.targets = [i \in DOMAIN @ |-> Follow(@[i])],
                     !.sources = Joined(Restrict(@, DOMAIN @ \ {old}), Named(new, @[old]))]

SetSourceType(n, type) ==
    /\ n \in DOMAIN config.sources /\ type \in DOMAIN Types(config)
    /\ config' = CheckDDL([config EXCEPT !.sources[n].type = type])

-----------------------------------------------------------------------------
(* Targets *)

AddTarget(n, type) ==
    /\ Described(config) /\ type \in DOMAIN Types(config) /\ NameFree(config, n)
    /\ config' = [config EXCEPT !.targets =
                     Append(@, [name |-> n, type |-> type, valid |-> TRUE,
                                assigns |-> <<>>, triggers |-> <<>>, refs |-> {}])]

(* The targets behind move up by assignment, which leaves the flags where they
   are. *)
RemoveTarget(i) ==
    LET all == config.targets
        others == RemoveAt(all, i)
    IN  config' = [config EXCEPT
            !.targets = [k \in DOMAIN others |-> [others[k] EXCEPT !.valid = all[k].valid]],
            !.judged = @ /\ \A k \in DOMAIN others : others[k].valid = all[k].valid]

RenameTarget(i, new) ==
    /\ Described(config) /\ NameFree(config, new)
    /\ config' = [config EXCEPT !.targets[i].name = new]

Retyped(i, type) == [config EXCEPT !.targets[i].type = type]
SetTargetType_Unchecked(i, type) == type \in DOMAIN Types(config) /\ config' = Retyped(i, type)
SetTargetType(i, type) ==
    /\ type \in DOMAIN Types(config)
    /\ config' = CheckDDL(Retyped(i, type))

(* What does not fit is taken back; flags of others stay as the check for
   double assignments has set them. *)
AddAssignment(i, a) ==
    LET t == config.targets[i]
        added == [t EXCEPT !.assigns = Append(@, a), !.refs = @ \union ({a.source} \ {None})]
        last == Len(added.assigns)
    IN  /\ Described(config) /\ t.valid /\ AssignmentRefersOK(config, a)
        /\ \A k \in DOMAIN t.assigns : t.assigns[k].to # a.to
        /\ config' =
              IF t.type \notin DOMAIN Types(config) THEN [config EXCEPT !.fault = "type"]
              ELSE [config EXCEPT !.targets[i] =
                       IF ~AssignmentTypeOK(config, t.type, a) THEN WithoutAssignment(added, last)
                       ELSE IF HasDoubles(added.assigns)
                       THEN WithoutAssignment([added EXCEPT !.assigns = MarkDoubles(@)], last)
                       ELSE added]

RemoveAssignment(i, k) == config' = [config EXCEPT !.targets[i] = WithoutAssignment(@, k)]

AddTrigger(i, trigger) ==
    /\ Described(config) /\ config.targets[i].valid
    /\ TriggerRefersOK(config, trigger) /\ TriggerTypeOK(config, trigger)
    /\ config' = [config EXCEPT !.targets[i].triggers = Append(@, trigger),
                                !.targets[i].refs = @ \union ({trigger.source} \ {None})]

(* The first trigger that is equal *)
RemoveTrigger(i, k) ==
    LET all == Unflagged(config.targets[i].triggers) IN
    /\ \A j \in 1..(k - 1) : all[j] # all[k]
    /\ config' = [config EXCEPT !.targets[i] = WithoutTrigger(@, k)]

(* setVariable of a signal trigger that belongs to a target already *)
SetVariable(i, k, n) ==
    LET known == n \in DOMAIN config.sources IN
    /\ config.targets[i].triggers[k].kind = "signal"
    /\ config' = [config EXCEPT
          !.targets[i].triggers[k] =
              [@ EXCEPT !.source = IF known \/ ~Described(config) THEN n ELSE None,
                        !.valid = known /\ Described(config)],
          !.tidy = FALSE]

-----------------------------------------------------------------------------
(* Transformations: a polynomial has no enums, a new table unnamed ones.  The
   entries are coefficients, or conversions with their default; given enums, a
   table loses them. *)

AddTransformation(n, enums) ==
    /\ n \notin DOMAIN config.trafos
    /\ config' = [config EXCEPT !.trafos =
                     Joined(@, Named(n, [enums |-> enums, entries |-> "new", valid |-> TRUE]))]

SetEnums(n, enums) ==
    /\ n \in DOMAIN config.trafos /\ config.trafos[n].enums # {}
    /\ config' = [config EXCEPT !.trafos[n] =
                     IF enums \subseteq KnownEnums(config)
                     THEN [@ EXCEPT !.enums = enums, !.entries = "none"]
                     ELSE [enums |-> {None}, entries |-> "none", valid |-> FALSE]]

RemoveTransformation(n) ==
    LET Plainly(t) == Released(t, [t EXCEPT !.assigns = Without(@, "trafo", {n})])
    IN  /\ n \in DOMAIN config.trafos
        /\ config' = [config EXCEPT !.targets = [i \in DOMAIN @ |-> Plainly(@[i])],
                                   !.trafos = Restrict(@, DOMAIN @ \ {n})]

-----------------------------------------------------------------------------
(* Data definitions *)

(* The whole configuration is given up when it does not fit. *)
SetDD(d) ==
    LET checked == CheckDDL([config EXCEPT !.dd = d]) IN
    config' = IF checked.fault # "none" THEN checked
              ELSE IF Fits(checked) THEN [config EXCEPT !.dd = d, !.judged = TRUE]
              ELSE Empty

SetDDWithoutConsistency(d) == config' = [config EXCEPT !.dd = d, !.judged = FALSE]
ModifyDD(d) == config' = CheckDDL([config EXCEPT !.dd = d])

-----------------------------------------------------------------------------
(* Documents: [sources, targets, trafos] *)

Parsed(doc) ==
    [Empty EXCEPT
        !.dd = config.dd, !.judged = FALSE,
        !.sources = [n \in DOMAIN doc.sources |-> [type |-> doc.sources[n], valid |-> TRUE]],
        !.trafos = [n \in DOMAIN doc.trafos |->
            [enums |-> doc.trafos[n], entries |-> "read", valid |-> TRUE]],
        !.targets = [i \in DOMAIN doc.targets |->
            LET t == doc.targets[i] IN
            [name |-> t.name, type |-> t.type, valid |-> TRUE, assigns |-> t.assigns,
             triggers |-> t.triggers, refs |-> Used(t) \intersect DOMAIN doc.sources]]]

SameTarget(t, u) == /\ t.type = u.type /\ Unflagged(t.assigns) = Unflagged(u.assigns)
                    /\ Unflagged(t.triggers) = Unflagged(u.triggers)

SameTransformation(f, g) == (f.enums = {} <=> g.enums = {}) /\ f.entries = g.entries

Conflict(c, other) ==
    \/ \E n \in DOMAIN other.sources :
          IF n \in DOMAIN c.sources THEN other.sources[n].type # c.sources[n].type
          ELSE n \in TargetNames(c)
    \/ \E i \in DOMAIN other.targets :
          \/ other.targets[i].name \in DOMAIN c.sources
          \/ \E k \in DOMAIN c.targets : /\ c.targets[k].name = other.targets[i].name
                                         /\ ~SameTarget(c.targets[k], other.targets[i])
    \/ \E n \in DOMAIN other.trafos \intersect DOMAIN c.trafos :
          ~SameTransformation(other.trafos[n], c.trafos[n])

Merge(c, other) ==
    LET added == Without(other.targets, "name", TargetNames(c)) IN
    [c EXCEPT !.sources = Joined(@, other.sources), !.trafos = Joined(@, other.trafos),
                  !.targets = @ \o added, !.judged = FALSE,
                  !.tidy = @ /\ \A i \in DOMAIN added : added[i].refs = Used(added[i])]

(* A document is taken over when its names are known; with mode "full" only if
   it fits, with "partially" and "without" if not, and then with no flag set. *)
Accept(c, mode) ==
    /\ CheckMapping(c)
    /\ mode = "full" => Fits(CheckDDL(c))
    /\ config' = IF mode = "without" THEN c ELSE CheckDDL(c)

Load(doc, mode) == Accept(Parsed(doc), mode)
LoadMerging(doc, mode) ==
    /\ ~Conflict(config, Parsed(doc))
    /\ Accept(Merge(config, Parsed(doc)), mode)

WriteToDOM ==
    /\ CheckMapping(config)
    /\ config' = CheckDDL(config)

-----------------------------------------------------------------------------
Init == world \in Worlds /\ config = [Empty EXCEPT !.dd = world.dd]

Next ==
    /\ config.fault = "none" /\ UNCHANGED world
    /\ \/ \E n \in world.names : \/ \E type \in world.types : AddSource(n, type) \/ SetSourceType(n, type)
                                 \/ \E new \in world.names : RenameSource(n, new)
       \/ \E n \in world.names \union {None} : RemoveSource(n)
       \/ Len(config.targets) < world.most /\ \E n \in world.targets, type \in world.types : AddTarget(n, type)
       \/ \E i \in DOMAIN config.targets :
             \/ RemoveTarget(i)
             \/ \E new \in world.targets : RenameTarget(i, new)
             \/ \E type \in world.types : SetTargetType(i, type)
             \/ \E a \in world.assigns : AddAssignment(i, a)
             \/ \E k \in DOMAIN config.targets[i].assigns : RemoveAssignment(i, k)
             \/ Len(config.targets[i].triggers) < world.most /\ \E trigger \in world.triggers : AddTrigger(i, trigger)
             \/ \E k \in DOMAIN config.targets[i].triggers :
                   RemoveTrigger(i, k) \/ \E n \in world.names : SetVariable(i, k, n)
       \/ \E c \in world.trafos : AddTransformation(c[1], c[2]) \/ SetEnums(c[1], c[3]) \/ RemoveTransformation(c[1])
       \/ \E d \in DOMAIN world.dds \union {None} : SetDD(d) \/ ModifyDD(d)
       \/ \E d \in world.unchecked : SetDDWithoutConsistency(d)
       \/ \E doc \in world.docs, mode \in world.modes : Load(doc, mode) \/ LoadMerging(doc, mode)
       \/ WriteToDOM
       \/ config' = Empty

Spec == Init /\ [][Next]_vars

-----------------------------------------------------------------------------
(* A signal has one name and an element of a target one assignment, whatever
   was added, renamed, read and merged. *)
TypeOK ==
    /\ world \in Worlds /\ config.dd \in DOMAIN world.dds \union {None}
    /\ NamesOnce(config.targets) /\ TargetNames(config) \intersect DOMAIN config.sources = {}
    /\ \A i \in DOMAIN config.targets : ElementsOnce(config.targets[i].assigns)

(* getReferencedSources, from which the mapping engine makes its sources, tells
   the sources that the assignments and triggers of a target use, and these and
   the transformations are there; so no check of the configuration follows a
   name to nothing. *)
ReferencesMatch ==
    config.tidy =>
        /\ config.fault # "source"
        /\ \A i \in DOMAIN config.targets :
              LET t == config.targets[i] IN
              /\ t.refs = Used(t) /\ t.refs \subseteq DOMAIN config.sources
              /\ \A k \in DOMAIN t.assigns : t.assigns[k].trafo \in DOMAIN config.trafos \union {None}

(* After checks by the data definition, and whatever calls follow them, what is
   flagged valid fits it: types and elements are there and of one shape, no
   element is assigned twice, and the enums of a table exist. *)
ValidFits ==
    config.judged /\ config.tidy =>
        /\ config.fault # "type"
        /\ \A n \in DOMAIN config.sources :
              config.sources[n].valid => config.sources[n].type \in DOMAIN Types(config)
        /\ \A n \in DOMAIN config.trafos :
              config.trafos[n].valid => config.trafos[n].enums \subseteq KnownEnums(config) \union {None}
        /\ \A i \in DOMAIN config.targets :
              LET t == config.targets[i] IN
              t.valid =>
                  /\ t.type \in DOMAIN Types(config)
                  /\ \A k \in DOMAIN t.assigns :
                        t.assigns[k].valid => /\ AssignmentTypeOK(config, t.type, t.assigns[k])
                                              /\ ~Covered(t.assigns, t.assigns[k])
                  /\ \A k \in DOMAIN t.triggers :
                        t.triggers[k].valid => TriggerTypeOK(config, t.triggers[k])

(* "Target is valid, so the type is defined and can be dereferenced", as
   addAssignment says of a target that it is called on *)
ValidTargetsAreTyped ==
    \A i \in DOMAIN config.targets :
        config.targets[i].valid => config.targets[i].type \in DOMAIN Types(config)
=============================================================================
