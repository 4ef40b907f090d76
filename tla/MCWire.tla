------------------------------- MODULE MCWire -------------------------------
(***************************************************************************)
(* What the connection of Wire carries: every command with small values    *)
(* for its fields, and pairs of commands whose lengths lie around the      *)
(* boundaries of the prefix.                                               *)
(***************************************************************************)
EXTENDS Wire

TextOf(n) == [i \in 1 .. n |-> 97 + (i % 26)]

\* Small values for each kind of field; a record takes all combinations.
RECURSIVE Values(_)

Tuples(shapes) ==
  LET add(acc, shape) == {Append(t, v) : t \in acc, v \in Values(shape)}
  IN  FoldLeft(add, {<<>>}, shapes)

Values(shape) ==
  CASE shape.k = "i32" -> {-2}
    [] shape.k = "f32" -> {1065353217}
    [] shape.k = "u32" -> {70000}
    [] shape.k = "i8" -> {-3}
    [] shape.k = "u8" -> {5}
    [] shape.k = "half" -> {F16BitsToF32(48129)}
    [] shape.k = "bool" -> BOOLEAN
    [] shape.k \in {"str", "varchar"} -> {<<97, 200>>}
    [] shape.k = "room" -> {<<65, 45, 57>>}
    [] shape.k = "opt" -> {<<>>} \cup {<<v>> : v \in Values(shape.of)}
    [] shape.k = "arr" -> LET v == CHOOSE v \in Values(shape.of) : TRUE IN {<<>>, <<v, v>>}
    [] shape.k = "map" -> LET v == CHOOSE v \in Values(shape.of) : TRUE
                          IN  {[x \in {} |-> v], [x \in {300, -1} |-> v]}
    [] shape.k = "res" -> {<<"err", TextOf(3)>>} \cup {<<"ok", v>> : v \in Values(shape.of)}
    [] shape.k = "rec" -> Tuples(shape.of)
    [] shape.k = "union" -> LET table == PutTable(shape.of)
                            IN  UNION {{<<name, args>> : args \in Tuples(table[name][2])} : name \in DOMAIN table}

\* Client commands whose frames have 1, 127, 128 and 203 bytes of payload, and
\* one whose text is a byte too long.
Edges == {<<"Ping", <<>>>>} \cup {<<"Chat", <<TextOf(n)>>>> : n \in {125, 126, 200, 201}}

Carried(kind, commands, legal) == [kind |-> kind, commands |-> commands, legal |-> legal]

MCTraffic ==
  {Carried("Client", <<c>>, TRUE) : c \in Values(Union("Client"))}
    \cup {Carried("Server", <<c>>, TRUE) : c \in Values(Union("Server"))}
    \cup {Carried("Client", <<c, d>>, TRUE) : c \in Edges, d \in Edges}
    \cup {Carried("Server", << <<"Message", << <<"Chat", <<1, TextOf(250)>>>> >>>> >>, FALSE)}
    \cup {Carried("Client", << <<"CreateRoom", <<text>>>> >>, FALSE) : text \in {<<>>, <<97, 32>>, TextOf(21)}}

MCHalves == 0 .. 1100 \cup {h \in 1100 .. 31744 : h % 1024 \in {0, 1, 2, 511, 512, 1022, 1023}}
=============================================================================
