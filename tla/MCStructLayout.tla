--------------------------- MODULE MCStructLayout ---------------------------
(* Models for StructLayout and what the user changes in them *)
EXTENDS StructCodec, TLC

Data(bits) == [kind |-> "data", bits |-> bits, align |-> None]
Enum(base) == [kind |-> "enum", base |-> base]
Struct(elems) == [kind |-> "struct", version |-> None, align |-> None, elems |-> elems]
Of(type) == [type |-> type, array |-> [size |-> 0, dynamic |-> FALSE], numBits |-> None,
             align |-> None, bytePos |-> None, bitPos |-> None, info |-> None]
Bits(type, n) == [Of(type) EXCEPT !.numBits = n, !.bitPos = 0]
ArrayOf(n) == [size |-> n, dynamic |-> FALSE]
DynamicArray == [size |-> 0, dynamic |-> TRUE]

Simple == "u8" :> Data(8) @@ "u16" :> Data(16)
Quiet == [types |-> Simple, file |-> 4, order |-> <<"a">>, nesting |-> <<"a">>,
          bits |-> {}, bases |-> {}, fields |-> {}, attributes |-> {}, files |-> {},
          grow |-> {}, shrink |-> {}, most |-> 3, span |-> 2]

(* One struct that grows and shrinks *)
Growing == [Quiet EXCEPT !.types = @ @@ "a" :> Struct(<<Of("u8")>>),
              !.grow = {"a"} \X {Of("u8"), Of("u16"), Bits("u8", 3), [Of("u8") EXCEPT !.bytePos = 1],
                                 [Of("u8") EXCEPT !.array = DynamicArray]},
              !.shrink = {"a"}]

(* Two structs, one of which contains the other: elements change *)
Nested == [Quiet EXCEPT
              !.types = @ @@ "a" :> Struct(<<Of("u8"), Of("u16")>>) @@ "b" :> Struct(<<Of("u8"), Of("a"), Of("u16")>>),
              !.order = <<"a", "b">>, !.nesting = <<"a", "b">>]
Fields == [Nested EXCEPT
              !.fields = {<<"a", 2, "array", DynamicArray>>, <<"a", 2, "array", ArrayOf(3)>>,
                          <<"a", 2, "align", 4>>, <<"a", 1, "type", "u16">>, <<"b", 1, "type", "u16">>,
                          <<"b", 2, "array", ArrayOf(2)>>, <<"b", 2, "array", ArrayOf(0)>>}]
Places == [Nested EXCEPT
              !.fields = {<<"b", 3, "bytePos", None>>, <<"b", 3, "bytePos", 7>>, <<"a", 1, "bitPos", 2>>, <<"a", 1, "numBits", 3>>},
              !.grow = {"b"} \X {Of("u16")}, !.shrink = {"b"}, !.span = 7]
(* Versions and alignments, the outer struct found first *)
Versions == [Nested EXCEPT
              !.attributes = {<<"a", "align", 4>>, <<"a", "align", 1>>, <<"a", "version", 2>>, <<"b", "version", 3>>, <<"b", "align", 8>>},
              !.fields = {<<"b", 2, "array", ArrayOf(2)>>}, !.files = {2, 4}]
VersionsBackwards == [Versions EXCEPT !.order = <<"b", "a">>]
(* Data types and an enum change *)
Types == [Nested EXCEPT
              !.types = ("e" :> Enum("u8") @@ "f" :> Enum("u16")) @@ ("a" :> Struct(<<Of("u8"), Of("e")>>)) @@ @,
              !.bits = {<<"u8", 8>>, <<"u8", 32>>, <<"u16", 12>>},
              !.bases = {"e", "f"} \X {"u8", "u16"},
              !.fields = {<<"a", 2, "type", "u8">>}]
(* One struct inside two, one of which is inside the other and in a third.  The
   users are found with inner structs first, as they have to be; the code takes
   the order of a hash container. *)
Diamond == [Versions EXCEPT
              !.types = ("c" :> Struct(<<Of("a"), Of("b")>>) @@ "d" :> Struct(<<Of("b")>>)) @@ @,
              !.order = <<"a", "b", "c", "d">>, !.nesting = <<"a", "b", "c", "d">>]
(* Dynamic arrays with elements after them *)
WithAlign(type, n) == [Of(type) EXCEPT !.align = n]
Dynamics == [Quiet EXCEPT
              !.types = @ @@ "a" :> Struct(<<Of("u8"), [Of("u16") EXCEPT !.array = DynamicArray], WithAlign("u16", 2)>>)
                          @@ "b" :> Struct(<<Of("u8"), [Of("a") EXCEPT !.align = 4], WithAlign("u16", 4), Of("u8")>>),
              !.order = <<"a", "b">>, !.nesting = <<"a", "b">>, !.most = 4,
              !.attributes = {<<"a", "align", 4>>, <<"a", "version", 2>>},
              !.fields = {<<"b", 2, "array", ArrayOf(2)>>, <<"b", 2, "array", ArrayOf(0)>>, <<"b", 2, "array", DynamicArray>>,
                          <<"a", 2, "type", "u8">>, <<"a", 3, "array", DynamicArray>>, <<"a", 2, "array", ArrayOf(2)>>}]
AllWorlds == {Dynamics, Growing, Fields, Places, Versions, VersionsBackwards, Diamond, Types}
=============================================================================
