----------------------------- MODULE MCColumnar -----------------------------
(***************************************************************************)
(* Values for ColumnarPages: bytes of three bits, words of two bytes, and  *)
(* inputs that reach each path of each kernel.                             *)
(***************************************************************************)
EXTENDS ColumnarPages

Upto(S, n) == UNION {[1 .. k -> S] : k \in 0 .. n}
Ramp(n, base) == [i \in 1 .. n |-> base + i]

\* Collisions: the second and the third value have the same hash.
MCHash(v) == FoldLeft(LAMBDA t, b : t + b, 0, v)
MCHash3(w) == (w[1] + w[2] + w[3]) % 2
MCValues == {<<1>>, <<2>>, <<1, 1>>}

MCForeign == Upto(0 .. 7, 3) \X {0, 1, 2}

MCSchema ==
  [outer |-> [r_enc |-> 0, d_enc |-> 0, def_present |-> 1, def_elem |-> 2, rep_elem |-> 1],
   inner |-> [r_enc |-> 1, d_enc |-> 2, def_present |-> 3, def_elem |-> 4, rep_elem |-> 2],
   leaf  |-> [slot_level |-> 4, max_def |-> 5]]

-----------------------------------------------------------------------------
(* Blocks: a literal, two copies and a literal, whole or cut.              *)

\* The longest literal without a length suffix (60 in the format).
MaxLit == 12
Literal(n, base) ==
  [lit |-> TRUE, bytes |-> Ramp(n, base), suffix |-> IF n > MaxLit THEN 1 ELSE 0,
   offset |-> 0, len |-> 0, extra |-> 0]
Copy(offset, len, extra) ==
  [lit |-> FALSE, bytes |-> <<>>, suffix |-> 0, offset |-> offset, len |-> len, extra |-> extra]

SnappyLists ==
  {<<Literal(n, 10), Copy(o1, l1, 1), Copy(o2, l2, x), Literal(t, 50)>> :
     n \in {1, 6, 9}, o1 \in {1, 5}, l1 \in {2, 10}, o2 \in {3, 4, 9}, l2 \in {7, 10},
     x \in {2, 4}, t \in {1, 26}}
Lz4Lists ==
  {<<[bytes |-> Ramp(n, 10), offset |-> o1, len |-> l1],
     [bytes |-> Ramp(m, 30), offset |-> o2, len |-> l2],
     [bytes |-> Ramp(t, 50), offset |-> 0, len |-> 0]>> :
     n \in {1, 6, 9}, o1 \in {1, 10}, l1 \in {2, 11}, m \in {0, 6}, o2 \in {3, 4, 9},
     l2 \in {7, 9}, t \in {0, 1, 26}}

Sized(format, elems) ==
  [format |-> format, elems |-> elems, status |-> "open", in_size |-> 0, size |-> 0]
InSize(format, elems) ==
  FoldLeft(LAMBDA n, i : n + ElemSize(Sized(format, elems), i), 0, [i \in DOMAIN elems |-> i])

\* Whole blocks into an output that fits or is one byte off, blocks that declare
\* another length, and cut blocks.
Changes == {<<0, d, 0>> : d \in -1 .. 1} \cup {<<0, 0, 1>>} \cup {<<c, 0, 0>> : c \in 1 .. 12}
Variants(format, lists) ==
  {[format   |-> format, elems |-> v[1], in_size |-> InSize(format, v[1]) - v[2][1],
    out_size |-> Produced(Sized(format, v[1]), Len(v[1])) + v[2][2],
    declared |-> Produced(Sized(format, v[1]), Len(v[1])) + v[2][2] + v[2][3]] :
     v \in {w \in lists \X Changes : w[2][1] > 0 => Len(w[1][1].bytes) = 6}}

MCBlocks == Variants("snappy", SnappyLists) \cup Variants("lz4", Lz4Lists)

-----------------------------------------------------------------------------
(* Samples.                                                                *)

Packs ==
  {[vals |-> v, width |-> w, tail |-> t] :
     v \in Upto({0, 1}, 7), w \in 1 .. 6, t \in {<<>>, <<7>>, <<7, 7, 7>>}}
  \cup {[vals |-> v, width |-> w, tail |-> <<7, 7, 7, 7, 7>>] : v \in Upto({0, 5, 7}, 5), w \in 3 .. 6}
  \cup {[vals |-> [i \in 1 .. n |-> 2^w - 1], width |-> w, tail |-> t] :
          n \in 0 .. 9, w \in 0 .. 6, t \in {<<>>, <<7, 7>>}}

Copies2 ==
  {[in |-> in, n |-> n, bits |-> [i \in 1 .. 21 |-> b], at |-> at] :
     in \in {<<5, 2, 7, 1, 6>>, <<7, 7, 7, 7, 7>>, <<2, 5, 0, 6, 3>>}, n \in 0 .. 15,
     b \in {0, 1}, at \in 0 .. 5}

Strings == {<<>>, <<1>>, <<2>>, <<1, 2>>, <<1, 2, 3>>}
StringLists == Upto(Strings, 3) \cup {[i \in 1 .. 14 |-> Ramp(i % 4, 0)]}

IntLists ==
  Upto({-8, -1, 0, 7}, 4)
  \cup {[i \in 1 .. n |-> Signed(i * i * k, IntBits)] : n \in 5 .. 15, k \in 1 .. 3}

Slots ==
  UNION {{[vals |-> v, validity |-> b] :
            b \in {x \in Upto({0, 1}, 4) : count_bits(x, 0, Len(x)) = Len(v)}} :
         v \in Upto(Strings, 3)}

Floats ==
  UNION {[1 .. n -> {NaN, <<-1, 0>>, <<0, -1>>, <<0, 0>>, <<1, 0>>}] : n \in 0 .. 3}
FloatColumns == {[vals |-> v, validity |-> b] : v \in Floats, b \in Upto({0, 1}, 3)}

Inner == {[null |-> TRUE, items |-> <<>>]} \cup {[null |-> FALSE, items |-> l] : l \in Upto({0, 1}, 2)}
Outer == {[null |-> TRUE, items |-> <<>>]} \cup {[null |-> FALSE, items |-> l] : l \in Upto(Inner, 2)}

Repeat(p, n) == FlattenSeq([i \in 1 .. n |-> p])
Trainings ==
  {<<Repeat(p, 6)>> : p \in {<<0>>, <<0, 1>>, <<0, 1, 2>>, <<0, 0, 1, 1>>, <<2, 1, 0, 1, 2>>}}
  \cup {<<Repeat(p, 5), Repeat(q, 5)>> : p \in {<<0, 1>>, <<1, 1, 2>>}, q \in {<<>>, <<1>>, <<2, 0, 1>>}}
  \cup {<<Repeat(<<0, 1>>, 8), Repeat(<<2, 2, 1>>, 6), Repeat(<<0, 0, 0, 1>>, 5)>>}

MCSamples ==
  [pack     |-> Packs,
   copy     |-> Copies2,
   bytes    |-> Upto({0, 3, 4, 7}, 4) \ {<<>>},
   ints     |-> IntLists,
   strings  |-> StringLists,
   slots    |-> Slots,
   floats   |-> {c \in FloatColumns : Len(c.validity) = Len(c.vals)},
   validity |-> Upto({0, 1}, 7) \cup [1 .. 12 -> {0, 1}],
   text     |-> Upto({65, 128, 191, 192, 194, 224, 237, 240}, 4) \ {<<>>},
   point    |-> {0, 127, 128, 2047, 2048, 4096, 55295, 55296, 57343, 57344, 65535, 65536,
                 262143, 1114111, 1114112},
   rows     |-> Upto(Outer, 2),
   levels   |-> Upto((0 .. 2) \X (0 .. 5), 3),
   fsst     |-> {[values |-> t, probes |-> Upto({0, 1, 2}, 5)] : t \in Trainings},
   lanes    |-> {[bits |-> b, width |-> w] : b \in {8, 16, 32, 64}, w \in 0 .. 64}]

\* A width is at most the word's.
Kinds == [MCSamples EXCEPT !.lanes = {x \in @ : x.width <= x.bits}]
=============================================================================
