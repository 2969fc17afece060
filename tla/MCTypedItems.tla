---------------------------- MODULE MCTypedItems ----------------------------
(* Instances of TypedItems for TLC, where an int is from -16 to 15.        *)
EXTENDS TypedItems

(* "(not set)", three plain texts, one too long to be a parameter, one     *)
(* with a tab, and one with a backslash, which COPY drops.                 *)
TextsOf == {<<1, 0>>, <<2, 0>>, <<3, 0>>, <<3, 1>>, <<4, 0>>, <<5, 0>>}
NotSetOf == <<1, 0>>
CollatedOf == <<1, 3, 2, 4, 5>>
CopyReadsOf ==
  [x \in TextsOf |-> CASE x = <<4, 0>> -> Failure [] x = <<5, 0>> -> <<2, 0>> [] OTHER -> x]

Values(type) ==
  CASE type = "int4" -> {-9, 2, 10}
    [] type = "int8" -> {2, 10, 34, Null}
    [] type = "int2" -> {2, 3, 10, Null}
    [] OTHER -> TextsOf \cup {Empty, Null}

Tables(G, I) == UNION {[1 .. n -> [group : G, item : I]] : n \in 1 .. 3}

(* Groups of each type with the same items, and items of each type in two  *)
(* groups: one column, or two of different types.                          *)
OfGroups ==
  UNION {[groupTypes : {<<t>>}, itemTypes : {<<"int4">>}, cached : {FALSE},
          rows : Tables({<<v>> : v \in Values(t)}, {<<2>>})] : t \in Types}

OfItems ==
  UNION {[groupTypes : {<<"int4">>}, itemTypes : {<<t>>}, cached : BOOLEAN,
          rows : Tables({<<2>>, <<10>>}, {<<v>> : v \in Values(t)})] : t \in Types}

OfPairs ==
  [groupTypes : {<<"int4">>}, itemTypes : {<<"int4", "text">>}, cached : BOOLEAN,
   rows : Tables({<<2>>, <<10>>}, {2, 10} \X {<<2, 0>>, <<3, 0>>})]

JobsOf == OfGroups \cup OfItems \cup OfPairs
=============================================================================
