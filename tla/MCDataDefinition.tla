-------------------------- MODULE MCDataDefinition --------------------------
(* Worlds for DataDefinition: what the user may name and refer to *)
EXTENDS DataDefinitionLevels

To(n) == [to |-> n, aux |-> None]

NoRefs == [kind \in Kinds |-> {}]
Of(names, f) == [n \in names \cup {"p"} |-> IF n \in DOMAIN f THEN f[n] ELSE {}]

AllNames == {"a", "b", "i", "j", "p"}
Order == <<"a", "b", "i", "j", "p">>
Types == [order |-> Order, kinds |-> Of({"i", "j", "a", "b"}, "i" :> {"data"} @@ "j" :> {"data"} @@ "a" :> {"struct"} @@ "b" :> {"struct"}),
          refs |-> [NoRefs EXCEPT !["data"] = {To(None)}, !["struct"] = {To("i"), To("b")}],
          own |-> {"data"}, size |-> 3, most |-> 1, depth |-> 8]
DataUnits == [order |-> Order, kinds |-> Of({"i", "j", "a", "b"}, "i" :> {"base"} @@ "j" :> {"base"} @@ "a" :> {"data"} @@ "b" :> {"data"}),
          refs |-> [NoRefs EXCEPT !["data"] = {To("i")}],
          own |-> {}, size |-> 3, most |-> 1, depth |-> 8]
Units == [order |-> Order, kinds |-> Of({"i", "j", "a", "b"}, "i" :> {"unit"} @@ "j" :> {"base", "unit"} @@ "a" :> {"struct"}),
          refs |-> [NoRefs EXCEPT !["unit"] = {[to |-> "j", aux |-> "p"]}, !["struct"] = {[to |-> "p", aux |-> "i"]}],
          own |-> {}, size |-> 4, most |-> 1, depth |-> 8]
Enums == [order |-> Order, kinds |-> Of({"i", "j", "a", "b"}, "i" :> {"data"} @@ "j" :> {"data", "enum"} @@ "a" :> {"enum"} @@ "b" :> {"struct"}),
          refs |-> [NoRefs EXCEPT !["data"] = {To(None)}, !["enum"] = {To("i")}, !["struct"] = {To("i"), To("a")}],
          own |-> {"data"}, size |-> 3, most |-> 1, depth |-> 8]
Metas == [order |-> Order, kinds |-> Of({"i", "j", "a", "b"}, "i" :> {"meta"} @@ "j" :> {"meta"} @@ "a" :> {"stream"}),
          refs |-> [NoRefs EXCEPT !["meta"] = {To(None), To("i")}, !["stream"] = {To("i")}],
          own |-> {}, size |-> 3, most |-> 1, depth |-> 8]
Streams == [order |-> Order, kinds |-> Of({"i", "j", "a", "b"}, "a" :> {"struct", "stream"} @@ "b" :> {"struct"}),
          refs |-> [NoRefs EXCEPT !["stream"] = {To("a")}, !["struct"] = {To("p")}],
          own |-> {"struct"}, size |-> 3, most |-> 2, depth |-> 8]
TypesBackwards == [Types EXCEPT !.order = Reverse(Order)]
Elements == [Types EXCEPT !.most = 2, !.size = 2, !.kinds["j"] = {}]
AllWorlds == {Types, TypesBackwards, Elements, DataUnits, Units, Enums, Metas, Streams}
SomePredefined == {<<"data", "p">>, <<"prefix", "p">>}
=============================================================================
