------------------------------ MODULE MCTagged ------------------------------
(* An instance of TaggedMessages with integers of 6 and 15 bits. *)
EXTENDS TaggedMessages

F(id, t) == [id |-> id, t |-> t, opt |-> FALSE, req |-> FALSE]
Opt(id, t) == [id |-> id, t |-> t, opt |-> TRUE, req |-> FALSE]
Req(id, t) == [id |-> id, t |-> t, opt |-> FALSE, req |-> TRUE]
K(k) == [k |-> k]
S(k, w) == [k |-> k, w |-> w]
In(k, m) == [k |-> k, m |-> m]
Of(k, e) == [k |-> k, e |-> e]

ThriftModels ==
  [flat |-> <<Req(1, K("bool")), F(2, K("i8")), Opt(3, K("i16")), F(18, K("i64")), Opt(19, K("bool"))>>,
   leaf |-> <<Req(1, K("i32"))>>,
   tree |-> <<Opt(1, In("message", "leaf")), F(2, Of("vector", K("i32"))),
              F(3, Of("list", In("message", "leaf"))), Opt(4, In("lazy", "leaf")),
              F(5, K("binary")), F(6, K("double")), Opt(7, K("empty")), F(8, K("enum"))>>,
   tree_kept |-> <<Opt(1, In("lazy", "leaf")), F(2, Of("list", K("i32"))),
              F(3, Of("vector", In("message", "leaf"))), Opt(4, In("message", "leaf")),
              F(5, K("binary")), F(6, K("double")), Opt(7, K("empty")), F(8, K("enum"))>>,
   chain |-> <<Opt(1, In("message", "chain"))>>,
   chain_kept |-> <<Opt(1, In("lazy", "chain"))>>,
   bools |-> <<F(1, Of("list", K("bool")))>>,
   flag |-> <<F(2, K("bool"))>>,
   blob |-> <<F(1, K("binary"))>>,
   lists |-> <<F(1, Of("list", K("bool"))), F(2, Of("list", K("i32")))>>,
   lists_eager |-> <<F(1, Of("vector", K("bool"))), F(2, Of("vector", K("i32")))>>]

ProtobufModels ==
  [pflat |-> <<F(1, S("uint", "i32")), F(2, S("sint", "i32")), F(3, K("bool")),
               F(16, Of("vector", S("int", "i32"))), F(17, Of("vector", S("fixed", "i64")))>>,
   pold |-> <<F(0, K("unknown")), F(1, S("uint", "i32")), Opt(4, S("uint", "i32"))>>,
   pleaf |-> <<F(1, S("uint", "i32"))>>,
   pnode |-> <<F(1, In("message", "pleaf")), Opt(2, In("message", "pleaf"))>>,
   ptree |-> <<Opt(1, In("message", "pnode")), F(2, Of("vector", In("message", "pleaf"))),
               F(3, In("lazy", "pnode")), F(4, K("binary")), F(5, K("enum")), Opt(6, K("empty"))>>,
   ptree_kept |-> <<F(0, K("unknown")), F(1, In("lazy", "pnode")), F(2, Of("vector", In("lazy", "pleaf"))),
               Opt(3, In("message", "pnode"))>>,
   pchain |-> <<Opt(1, In("message", "pchain"))>>,
   pchain_kept |-> <<F(1, In("lazy", "pchain"))>>,
   pmix |-> <<F(0, K("unknown")), F(1, Of("vector", S("uint", "i32"))), F(3, In("lazy", "pleaf")),
              F(16, Of("vector", S("int", "i32")))>>,
   preq |-> <<Req(1, S("uint", "i32")), F(2, S("int", "i64"))>>,
   ptext |-> <<F(1, K("binary"))>>,
   pwrap |-> <<Opt(1, In("message", "ptext")), F(2, Of("vector", S("uint", "i32")))>>]

MCNames == [thrift |-> DOMAIN ThriftModels, protobuf |-> DOMAIN ProtobufModels]
MCModels == [n \in MCNames["thrift"] \cup MCNames["protobuf"] |->
               IF n \in MCNames["thrift"] THEN ThriftModels[n] ELSE ProtobufModels[n]]

Of1(m) == [m |-> "of", msg |-> m]
Elems(s) == [m |-> "of", elems |-> s]
None1 == [m |-> "none"]

RECURSIVE Chain(_)
Chain(n) == IF n = 0 THEN <<<<>>>> ELSE <<<<Chain(n - 1)>>>>

Text(n) == <<[i \in 1 .. n |-> 1]>>

MCMessages ==
  [flat |-> {<<b, -128, o, y, z>> : b \in BOOLEAN, o \in {<<>>, <<-32>>},
                                    y \in {0, -16384, 16383}, z \in {<<>>, <<FALSE>>}},
   tree |-> {<<a, v, l, z, s, 770, e, -2>> :
               a \in {<<>>, <<<<31>>>>}, v \in {<<>>, <<1, -32>>},
               l \in {None1, Elems(<< <<0>>, <<5>> >>)}, z \in {<<>>, <<Of1(<<-1>>)>>},
               s \in {<<>>, <<7, 8, 9, 10, 11>>}, e \in {<<>>, << <<>> >>}},
   chain |-> {Chain(n) : n \in 0 .. 3},
   blob |-> {<<[i \in 1 .. n |-> i]>> : n \in {0, 5, 31}},
   bools |-> {<<Elems([i \in 1 .. n |-> i % 2 = 0])>> : n \in {0, 14, 15}},
   pflat |-> {<<u, s, b, v, f>> : u \in {0, 63}, s \in {0, -32}, b \in BOOLEAN,
                                  v \in {<<>>, <<-1, 31>>}, f \in {<<>>, <<1, 65535>>}},
   ptree |-> {<<a, v, l, s, e, z>> :
                a \in {<<>>, << << <<1>>, << <<0>> >> >> >>}, v \in {<<>>, << <<0>>, <<33>> >>},
                l \in {None1, Of1(<< <<9>>, << <<2>> >> >>)}, s \in {<<>>, <<1, 2, 3, 4, 5>>},
                e \in {0, -3}, z \in {<<>>, << <<>> >>}},
   pchain |-> {Chain(n) : n \in 0 .. 3},
   preq |-> {<<u, x>> : u \in {0, 5}, x \in {0, -1}},
   ptext |-> {Text(n) : n \in {29, 30, 32}},
   pwrap |-> {<<o, v>> : o \in {<<>>} \cup {<<Text(n)>> : n \in {27, 28, 32}},
                         v \in {<<>>, [i \in 1 .. 32 |-> 1]}}]

MCSinks == {vector_sink} \cup {span_sink(n) : n \in {0, 3, 4, 7, 12}}

MCRelay ==
  [n \in DOMAIN MCModels |->
     CASE n = "tree" -> "tree_kept" [] n = "chain" -> "chain_kept" [] n = "pflat" -> "pold"
       [] n = "ptree" -> "ptree_kept" [] n = "pchain" -> "pchain_kept" [] OTHER -> n]

MCWidth == [i16 |-> 6, i32 |-> 6, i64 |-> 15]
MCFixed == [i32 |-> 1, i64 |-> 2]

MCAlphabet == [thrift |-> {0, 1, 2, 33, 21, 25, 27, 28}, protobuf |-> {1, 2, 10, 26, 128}]

\* Two list fields, of bools with id 1 or of integers with id 2, the same one
\* twice or not, with elements that are in range or not.
FirstList == {<<25, 17, x>> : x \in 1 .. 3} \cup {<<41, 21, x>> : x \in {1, 127}}
SecondList == {<<9, 2, 17, x>> : x \in 1 .. 3} \cup {<<9, 4, 21, x>> : x \in {1, 127}}
MCWhole == [thrift |-> {a \o b \o <<0>> : a \in FirstList, b \in SecondList}, protobuf |-> {}]
MCForeign == [thrift |-> 5, protobuf |-> 6]
=============================================================================
