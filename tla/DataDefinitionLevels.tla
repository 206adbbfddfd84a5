------------------------ MODULE DataDefinitionLevels ------------------------
(***************************************************************************)
(* What the levels of validity that a DataDefinition keeps should be, and  *)
(* which changes leave them so.                                            *)
(***************************************************************************)
EXTENDS DataDefinition

(* What validity means: the level an item has if everything it refers to is
   looked at now. *)
RECURSIVE FreshLevel(_, _, _)
FreshLevel(s, k, path) ==
    LET it == s.items[k]
        on == path \union {k}
        of(kind, n) == IF Exists(s, kind, n) THEN FreshLevel(s, Key(kind, n), on)
                       ELSE IF <<kind, n>> \in Predefined THEN Valid ELSE Invalid
        defined(kind, n) == Exists(s, kind, n) \/ <<kind, n>> \in Predefined
        unit(n) == IF n = None \/ defined("base", n) \/ of("unit", n) = Valid
                   THEN Valid ELSE Good_enough
        ofType(n) == LET kind == TypeOfType(s, n) IN
                     IF n = None \/ kind = "meta" THEN Invalid
                     ELSE of(IF kind = "invalid" THEN "data" ELSE kind, n)
        ofStream(i, n) == IF i = 1 /\ TypeOfType(s, n) = "meta" THEN of("meta", n)
                          ELSE of("struct", n)
        ref(i, r) ==
            CASE it.kind = "unit" -> IF defined("base", r.to) /\ defined("prefix", r.aux)
                                     THEN {Valid} ELSE {Invalid}
              [] it.kind = "data" -> {unit(r.to)}
              [] it.kind = "enum" -> {IF of("data", r.to) = Valid THEN Valid ELSE Invalid}
              [] it.kind = "struct" -> {ofType(r.to), unit(r.aux)}
              [] it.kind = "meta" -> {IF r.to = None \/ of("meta", r.to) = Valid
                                      THEN Valid ELSE IF Exists(s, "meta", r.to)
                                                      THEN Good_enough ELSE Invalid}
              [] it.kind = "stream" -> {ofStream(i, r.to)}
        levels == (UNION {ref(i, it.refs[i]) : i \in DOMAIN it.refs} \ {Valid})
                  \union (IF it.bad THEN {Invalid} ELSE {})
    IN  IF k \in path THEN Invalid
        ELSE IF levels = {} THEN Valid ELSE HighestOf(levels)

ExactAt(s, k) == Level(s, k) = FreshLevel(s, k, {})

(* Every reference names something there is *)
References(s, k) ==
    LET it == s.items[k]
        typed(n) == IF TypeOfType(s, n) = "invalid" THEN {} ELSE {Key(TypeOfType(s, n), n)}
        known(S) == IF S \cap Present(s) = {} THEN {<<"type", None>>} ELSE S \cap Present(s)
        unit(n) == IF n = None THEN {} ELSE known({<<"unit", n>>})
        ref(i, r) ==
            CASE it.kind = "unit" -> known({<<"unit", r.to>>}) \union known({<<"prefix", r.aux>>})
              [] it.kind = "data" -> unit(r.to)
              [] it.kind = "enum" -> known({<<"type", r.to>>})
              [] it.kind = "struct" -> known({<<"type", r.to>>}) \union unit(r.aux)
              [] it.kind = "meta" -> IF r.to = None THEN {} ELSE known({<<"meta", r.to>>})
              [] OTHER -> known({<<"type", r.to>>, <<"meta", r.to>>})
    IN  UNION {ref(i, it.refs[i]) : i \in DOMAIN it.refs}
Closed(s) == \A k \in Present(s) : References(s, k) \subseteq Present(s)
Indexed(s) == \A k \in Present(s) : \A t \in References(s, k) :
                  Name(k) \in UsersOf(s, s.items[k].kind, s.items[t].kind, Name(t))

(* A definition without loose ends: what bottom-up construction arrives at *)
Consistent(s) == Closed(s) /\ Indexed(s) /\ \A k \in Informable(s) : ExactAt(s, k)

-----------------------------------------------------------------------------
(* Properties *)

\* However stale the levels of single items may be, a definition that reports
\* no problem has none among its types: what is wrong with a type is in the
\* protocol at one item at least, so isValid of the definition can be trusted.
NoProblemUnseen ==
    dd.service = {} => \A k \in Informable(dd) :
        k[1] \in {"type", "meta"} => FreshLevel(dd, k, {}) # Invalid

\* Renaming anything in a definition without loose ends leaves none: every
\* reference follows to the new name and every level is still right.
RenameKeepsConsistency ==
    [][/\ Consistent(dd)
       /\ \E k \in Present(dd), n \in Names : RenameItem(k, n)
       => Closed(dd') /\ \A k \in Informable(dd') : ExactAt(dd', k)]_vars

\* A change to a type, or to what a struct or enum refers to, reaches every
\* type that depends on it, however far (forceRevalidationOfTypeDependencies);
\* and a validation by hand never makes a right level wrong.
ChangesReachAllTypes ==
    [][/\ Consistent(dd)
       /\ \/ \E k \in Present(dd) : SetOwn(k)
          \/ \E k \in Present(dd) : \E i \in DOMAIN dd.items[k].refs :
                /\ dd.items[k].kind \in {"struct", "enum"}
                /\ \E r \in world.refs[dd.items[k].kind] : SetRef(k, i, r)
          \/ \E force \in BOOLEAN : Validate(force)
       => \A k \in Present(dd) : k[1] = "type" => ExactAt(dd', k)]_vars
=============================================================================
