---------------------------- MODULE MCWireViews ----------------------------
(***************************************************************************)
(* WireViews with bit fields on both sides of the fast path, a computed    *)
(* length and checksum, a run of least-significant-first bits, and a       *)
(* nested struct with a byte array.                                       *)
(***************************************************************************)
EXTENDS WireViews

UBits(n, order) == [k |-> "bits", n |-> n, order |-> order, signed |-> FALSE]
IBits(n, order) == [k |-> "bits", n |-> n, order |-> order, signed |-> TRUE]
U(n) == [k |-> "scalar", n |-> n, signed |-> FALSE]
BE(n) == [k |-> "endian", n |-> n, order |-> "big", signed |-> FALSE]
Struct(fields, computed, values) ==
  [k |-> "struct", fields |-> fields, computed |-> computed, values |-> values,
   payloads |-> IF computed = <<>> THEN {<<>>} ELSE {<<>>, <<200>>}]

Header == Struct(<<IBits(3, "msb0"), UBits(13, "msb0")>>, <<>>,
                 {<<-3, 4097>>})
Sized == Struct(<<BE(1), U(1)>>, <<[k |-> "calc", f |-> 1], [k |-> "checksum", f |-> 2]>>,
                {<<<<0>>, 0>>})
Tiny == Struct(<<UBits(2, "lsb0"), IBits(6, "lsb0")>>, <<>>, {<<1, -20>>, <<1, 40>>})
Nibbles == Struct(<<UBits(4, "msb0"), UBits(4, "msb0")>>, <<>>, {})
Nested == Struct(<<Nibbles, [k |-> "array", elem |-> U(1), len |-> 1]>>, <<>>, {<<<<7, 9>>, <<1>>>>})
\* Refused by layout_ok: a byte of both orders.
Mixed == Struct(<<UBits(4, "msb0"), UBits(4, "lsb0")>>, <<>>, {<<3, 5>>})

MCTypes == {Header, Sized, Tiny, Nested, Mixed}
MCValue == 0 .. 255
MCLengths == {1, 2}

MCCalc(T, v, payload) == wire_size(T) + Len(payload)
MCChecksum(T, bytes, payload) ==
  FoldLeft(LAMBDA s, b : (s + b) % 256, 0, bytes \o payload)

\* A cut after one byte with an empty part in it, and the halves swapped.
MCCuttings(n) ==
  {<<[at |-> 0, n |-> 1], [at |-> 1, n |-> 0], [at |-> 1, n |-> n - 1]>>,
   <<[at |-> n \div 2, n |-> n - n \div 2], [at |-> 0, n |-> n \div 2], [at |-> 0, n |-> 0]>>}

MCInit == mem = [i \in 1 .. MemSize |-> 0] /\ Init
MCSpec == MCInit /\ [][Next]_vars
=============================================================================
