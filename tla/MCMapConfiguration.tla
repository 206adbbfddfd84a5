-------------------------- MODULE MCMapConfiguration --------------------------
(* Instances of MapConfiguration: what is edited, with structs S and T that
   share an element of struct I *)
EXTENDS MapConfiguration

Struct == [struct |-> "I", size |-> 1, dynamic |-> FALSE]
Array == [struct |-> None, size |-> 2, dynamic |-> FALSE]
Dynamic == [struct |-> None, size |-> 2, dynamic |-> TRUE]
InI == <<"b">> :> Plain
InT == <<"a">> :> Struct @@ <<"a", "b">> :> Plain
InS == InT @@ <<"c">> :> Array @@ <<"d">> :> Dynamic

DDs == "full" :> [types |-> "I" :> InI @@ "S" :> InS @@ "T" :> InT, enums |-> {"E"}]
       @@ "less" :> [types |-> "I" :> InI @@ "S" :> InS, enums |-> {}]

Copy(to, source, from, trafo) ==
    [to |-> to, kind |-> "source", source |-> source, from |-> from, trafo |-> trafo, valid |-> TRUE]
Function(to, source, trafo) ==
    [to |-> to, kind |-> IF source = None THEN "constant" ELSE "received",
     source |-> source, from |-> <<>>, trafo |-> trafo, valid |-> TRUE]

Trigger(kind, source, from) == [kind |-> kind, source |-> source, from |-> from, valid |-> TRUE]
Periodic == Trigger("periodic", None, <<>>)

World == [dd |-> "full", dds |-> DDs, unchecked |-> {}, docs |-> {}, modes |-> {},
          names |-> {"x", "t"}, targets |-> {"x", "t"}, types |-> {"S", "T"}, assigns |-> {}, triggers |-> {},
          trafos |-> {}, most |-> 1]

(* Elements, parts of them and arrays *)
Elements == [World EXCEPT
    !.assigns = {Copy(<<"a">>, "x", <<"a">>, None), Copy(<<"a", "b">>, "x", <<"a", "b">>, None),
                 Copy(<<"a">>, "x", <<>>, None), Copy(<<"c">>, "x", <<"c">>, None),
                 Copy(<<"d">>, "x", <<"d">>, None), Function(<<"a", "b">>, "x", None)}]

(* One source for assignments and for triggers *)
Triggers == [World EXCEPT
    !.names = {"x", "y"}, !.targets = {"t"}, !.types = {"S"}, !.most = 2,
    !.dds = Restrict(DDs, {"full"}),
    !.assigns = {Copy(<<"a", "b">>, "x", <<"a", "b">>, None)},
    !.triggers = {Periodic, Trigger("signal", "x", <<>>), Trigger("data", "x", <<"a", "b">>),
                  Trigger("data", "x", <<"c">>)}]

(* Tables and polynomials *)
Tables == [World EXCEPT
    !.types = {"S"}, !.trafos = {<<"f", {None}, {"E"}>>, <<"p", {}, {}>>}, !.unchecked = {"less"},
    !.assigns = {Copy(<<"a", "b">>, "x", <<"a", "b">>, "f"), Function(<<"c">>, None, "p")},
    !.modes = {"full", "partially"},
    !.docs = {[sources |-> <<>>, targets |-> <<>>, trafos |-> "f" :> {"E"}]}]

(* A document, one that goes on about its sources, one with another type *)
Base == [sources |-> "x" :> "S", trafos |-> <<>>,
         targets |-> <<[name |-> "t", type |-> "T", triggers |-> <<Periodic>>,
                        assigns |-> <<Copy(<<"a">>, "x", <<"a">>, None)>>]>>]
Rest == [sources |-> <<>>, trafos |-> <<>>,
         targets |-> <<[name |-> "u", type |-> "S", assigns |-> <<>>,
                        triggers |-> <<Trigger("data", "x", <<"a", "b">>)>>],
                       [name |-> "v", type |-> "T", triggers |-> <<>>,
                        assigns |-> <<Copy(<<"a", "b">>, "x", <<"a", "b">>, None)>>]>>]
Other == [sources |-> "x" :> "T", trafos |-> "f" :> {"E"}, targets |-> <<>>]
Documents == [World EXCEPT
    !.names = {"x", "t"}, !.targets = {"u"}, !.types = {"S"}, !.unchecked = {"less"}, !.docs = {Base, Rest, Other},
    !.modes = {"full", "partially", "without"}]

AllWorlds == {Elements, Triggers, Tables, Documents}

(* Two targets, and only checked data definitions *)
EraseWorlds == {[World EXCEPT !.most = 2,
                              !.assigns = {Function(<<"a", "b">>, None, None)}]}
===============================================================================
