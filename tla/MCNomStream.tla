---------------------------- MODULE MCNomStream -----------------------------
(***************************************************************************)
(* Terms and byte values for checking NomStream: every combinator over a   *)
(* few leaves, some nested ones, text lines, and the number parsers.       *)
(***************************************************************************)
EXTENDS NomStream

Lit(s) == [p |-> "tag", s |-> s]
Chr(c) == [p |-> "chr", ch |-> c]
TakeN(n) == [p |-> "take", n |-> n]
Klass(S, n) == [p |-> "klass", set |-> S, n |-> n]
Unary(name, a) == [p |-> name, a |-> a]
Binary(name, a, b) == [p |-> name, a |-> a, b |-> b]
Many(name, ps) == [p |-> name, ps |-> ps]

-----------------------------------------------------------------------------
(* Text over "a", "," and "1".                                             *)

Spans == {Lit(<<97>>), Lit(<<97, 44>>), TakeN(2), [p |-> "take_until", s |-> <<44>>],
          Klass(is_alpha, 0), Klass(is_digit, 1),
          [p |-> "take_while_m_n", m |-> 2, n |-> 3, set |-> {97}]}

Leaves == Spans \cup {Chr(44), [p |-> "anychar"], [p |-> "eof"], [p |-> "rest"], [p |-> "rest_len"],
                      [p |-> "fail"], [p |-> "tag_no_case", s |-> <<65, 44>>],
                      [p |-> "dec", min |-> -9, max |-> 15], [p |-> "hex", max |-> 255],
                      [p |-> "double", cap |-> 2], [p |-> "take_while", set |-> {97, 49}],
                      [p |-> "take_while1", set |-> {97, 49}], [p |-> "take_till", set |-> {44}],
                      [p |-> "take_till1", set |-> {44}], [p |-> "is_a", set |-> {97, 49}],
                      [p |-> "is_not", set |-> {44}], [p |-> "satisfy", set |-> {97}],
                      [p |-> "one_of", set |-> {44, 49}], [p |-> "none_of", set |-> {44}]}

Repetitions(a) ==
  {Unary(name, a) : name \in {"many0", "many1", "fold_many0", "fold_many1"}}
    \cup {[p |-> "checked_many0", a |-> a, n |-> 2], [p |-> "count", a |-> a, n |-> 2],
          [p |-> "many_m_n", a |-> a, m |-> 1, n |-> 2],
          [p |-> "fold_many_m_n", a |-> a, m |-> 2, n |-> 3]}

Modifiers(a) ==
  {Unary(name, a) : name \in {"opt", "peek", "not_", "recognize", "consumed", "cut", "complete",
                              "all_consuming"}}
    \cup {[p |-> "context", a |-> a, label |-> "outer"], [p |-> "value", a |-> a, v |-> 7],
          [p |-> "cond", a |-> a, flag |-> TRUE], [p |-> "cond", a |-> a, flag |-> FALSE]}

Consuming == Spans \ {Klass(is_alpha, 0)}

TextTerms ==
  Leaves
    \cup UNION {Repetitions(a) \cup Modifiers(a) : a \in Spans}
    \cup {Binary(name, a, b) : name \in {"pair", "preceded", "terminated", "separated_list0",
                                         "separated_list1", "many_till"},
                               a \in {Lit(<<44>>), Chr(44), TakeN(1)}, b \in Spans}
    \cup {Binary("many_till", a, Lit(<<44>>)) : a \in Spans}
    \cup {Many("alt", <<a, b>>) : a \in Spans, b \in Spans}
    \cup {Many("permutation", <<a, b, Lit(<<44>>)>>) : a \in Consuming, b \in Consuming}
    \cup {[p |-> "delimited", a |-> Chr(44), b |-> b, c |-> Chr(44)] : b \in Spans}
    \cup {[p |-> "separated_pair", a |-> a, b |-> Chr(44), c |-> Lit(<<49>>)] : a \in Spans}
    \cup {[p |-> "map_parser", a |-> a, b |-> b] : a \in Spans, b \in {TakeN(1), [p |-> "rest"]}}

\* Combinators inside combinators: committed branches, lists of alternatives,
\* labels three deep.
Record == Many("seq", <<Klass(is_alpha, 1), Unary("cut", Chr(44))>>)
NestedTerms ==
  {Unary("many0", Many("alt", <<a, b>>)) : a \in Consuming, b \in {Lit(<<49>>), Unary("cut", Lit(<<97, 49>>))}}
    \cup {Unary("opt", Unary("cut", a)) : a \in Spans}
    \cup {Binary("separated_list0", Chr(44), Unary("cut", a)) : a \in Spans}
    \cup {Unary("many0", Record), Unary("opt", Record),
          Many("alt", <<Unary("recognize", Record), Lit(<<97>>)>>)}
    \cup {[p |-> "context", label |-> "outer",
           a |-> [p |-> "context", label |-> "middle",
                  a |-> Binary("preceded", Chr(97),
                               [p |-> "context", label |-> "inner", a |-> Chr(44)])]]}
    \cup {Unary("not_", Many("alt", <<TakeN(3), Lit(<<97>>)>>))}

-----------------------------------------------------------------------------
(* Lines over CR, LF and "a".                                              *)

LineTerms ==
  {[p |-> name] : name \in {"newline", "tab", "crlf", "line_ending", "not_line_ending"}}
    \cup {Binary("terminated", [p |-> "not_line_ending"], [p |-> "line_ending"]),
          Binary("separated_list1", [p |-> "line_ending"], Klass(is_alpha, 1)),
          Unary("many0", Binary("terminated", [p |-> "take_until", s |-> <<13, 10>>],
                                [p |-> "crlf"])),
          Many("alt", <<[p |-> "crlf"], Lit(<<13>>)>>)}

-----------------------------------------------------------------------------
(* Binary records: one- and two-byte integers and length prefixes.         *)

U8 == [p |-> "uint", n |-> 1, order |-> "big"]
BinaryTerms ==
  {[p |-> name, n |-> n, order |-> o] : name \in {"uint", "int"}, n \in 1 .. 2, o \in {"big", "little"}}
    \cup {Unary("length_data", U8)}
    \cup {Binary(name, U8, b) : name \in {"length_value", "length_count"},
                                b \in {U8, TakeN(2), Unary("many0", U8), Binary("length_value", U8, U8)}}
    \cup {Unary("many0", Unary("length_data", U8)), Unary("many1", Binary("length_value", U8, [p |-> "rest"]))}
    \cup {[p |-> "flat_map", a |-> U8, f |-> (0 :> TakeN(0) @@ 1 :> TakeN(1) @@ 2 :> Unary("length_data", U8) @@ 20 :> U8)],
          [p |-> "map", a |-> U8, f |-> [x \in Byte |-> x + 1]],
          [p |-> "map_opt", a |-> U8, f |-> (1 :> 10 @@ 2 :> 20)],
          [p |-> "verify", a |-> U8, set |-> {1, 2}],
          [p |-> "le_array_of", n |-> 2, width |-> 2, w |-> 16],
          [p |-> "le_array_of", n |-> 40000, width |-> 2, w |-> 16]}

-----------------------------------------------------------------------------
(* Variable-length integers and bit fields.                                *)

NumberTerms ==
  {[p |-> name, w |-> w] : name \in {"uleb128", "sleb128"}, w \in {8, 10, 14, 16}}
    \cup {[p |-> "zigzag_varint", w |-> w, wide |-> 14] : w \in {8, 14}}
    \cup {Unary("bits", [p |-> "take_bits", n |-> n, ord |-> o]) : n \in {1, 4, 8, 11, 17},
                                                                o \in {"msb0", "lsb0"}}
    \cup {Unary("bits", Many("bseq", <<[p |-> "tag_bits", v |-> 0, n |-> 2, ord |-> "msb0"],
                                       [p |-> "bool_bit", ord |-> "msb0"],
                                       [p |-> "take_bits", n |-> 5, ord |-> "msb0"],
                                       [p |-> "bytes_", a |-> U8]>>)),
          Unary("bits", Many("bseq", <<[p |-> "bool_bit", ord |-> "lsb0"],
                                       [p |-> "bytes_", a |-> U8]>>))}

MCFamilies ==
  {[terms |-> TextTerms \cup NestedTerms, alphabet |-> {97, 44, 49}, most |-> 4],
   [terms |-> LineTerms, alphabet |-> {13, 10, 97}, most |-> 4],
   [terms |-> BinaryTerms, alphabet |-> {0, 1, 2, 20}, most |-> 4],
   [terms |-> NumberTerms, alphabet |-> {0, 1, 3, 63, 64, 127, 128, 255}, most |-> 3]}
=============================================================================
