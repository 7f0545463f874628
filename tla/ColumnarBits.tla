---------------------------- MODULE ColumnarBits ----------------------------
(***************************************************************************)
(* Bits and bytes of include/nanom/columnar.hpp, columnar_encode.hpp and   *)
(* values.hpp: bit packing, variable-length integers, bitmaps, byte stream *)
(* split.  A byte has ByteBits bits and a machine word WordBytes bytes (8  *)
(* and 8 in the code), so that word-sized fast paths are reached by short  *)
(* inputs; bit-packed groups are of ByteBits values, as the code's are of  *)
(* 8, because such a group fills whole bytes at any width.  A result that  *)
(* depends on where a read ends carries the furthest byte it touched.      *)
(***************************************************************************)
EXTENDS Integers, Sequences, SequencesExt, FiniteSets

CONSTANTS ByteBits,   \* bits of a byte, and values of a packed group
          WordBytes,  \* bytes of the words the fast paths load and store
          VarBits     \* bits of the integers varint_u64 reads

ASSUME BitsAssumption ==
  ByteBits \in Nat \ {0, 1} /\ WordBytes \in Nat \ {0} /\ VarBits \in Nat \ {0}

WordBits == WordBytes * ByteBits
Lesser(a, b) == IF a <= b THEN a ELSE b
Greatest(S) == CHOOSE x \in S : \A y \in S : y <= x
BytesFor(bits) == (bits + ByteBits - 1) \div ByteBits
From(s, i) == SubSeq(s, i + 1, Len(s))        \* the elements from index i, counting from 0

get_bit(bm, i) == (bm[i \div ByteBits + 1] \div 2^(i % ByteBits)) % 2

Bits(bytes) == [i \in 1 .. Len(bytes) * ByteBits |-> get_bit(bytes, i - 1)]
Number(bits) == FoldLeft(LAMBDA v, b : 2 * v + b, 0, Reverse(bits))
Binary(v, w) == [t \in 1 .. w |-> (v \div 2^(t - 1)) % 2]
OrZero(bits, i) == IF i \in DOMAIN bits THEN bits[i] ELSE 0
FromBits(bits) ==
  [k \in 1 .. BytesFor(Len(bits)) |->
     Number([t \in 1 .. ByteBits |-> OrZero(bits, (k - 1) * ByteBits + t)])]

bit_width(v) == CHOOSE w \in 0 .. VarBits : v < 2^w /\ (w = 0 \/ v >= 2^(w - 1))

-----------------------------------------------------------------------------
(* Integers.                                                               *)

put_le(v, n) == [i \in 1 .. n |-> (v \div 2^(ByteBits * (i - 1))) % 2^ByteBits]

Septet == 2^(ByteBits - 1)     \* 128: a byte's payload, and its continuation bit

put_uleb(v) ==
  LET n == CHOOSE k \in 1 .. VarBits : v < Septet^k /\ (k = 1 \/ v >= Septet^(k - 1))
  IN  [i \in 1 .. n |->
         ((v \div Septet^(i - 1)) % Septet) + (IF i < n THEN Septet ELSE 0)]

\* varint_u64 at offset p: a value and the offset behind it, or next = -1.
varint_u64(in, p) ==
  LET room == Lesser(Len(in) - p, (VarBits + ByteBits - 2) \div (ByteBits - 1))
      ends == {i \in 1 .. room : in[p + i] < Septet}
      n    == CHOOSE i \in ends : \A j \in ends : i <= j
      v    == FoldLeft(LAMBDA a, b : a * Septet + (b % Septet), 0,
                       Reverse(SubSeq(in, p + 1, p + n)))
  IN  IF ends = {} THEN [value |-> 0, next |-> -1]
      ELSE IF v >= 2^VarBits THEN [value |-> 0, next |-> -1]
      ELSE [value |-> v, next |-> p + n]

zigzag_encode(v) == IF v >= 0 THEN 2 * v ELSE -2 * v - 1
zigzag_decode(u) == IF u % 2 = 0 THEN u \div 2 ELSE -(u \div 2) - 1

\* Two's complement of w bits.
Signed(u, w) == IF (u % 2^w) >= 2^(w - 1) THEN (u % 2^w) - 2^w ELSE u % 2^w

-----------------------------------------------------------------------------
(* Bit packing.                                                            *)

\* Mutant of PackValue: the carry into the next word is lost.
PackValueCut(s, v, width) ==
  LET acc == s.acc + v * 2^s.bits
  IN  IF s.bits + width >= WordBits
        THEN [out |-> s.out \o put_le(acc % 2^WordBits, WordBytes), acc |-> 0,
              bits |-> s.bits + width - WordBits]
        ELSE [s EXCEPT !.acc = acc, !.bits = @ + width]

PackValue(s, v, width) ==
  LET acc == s.acc + v * 2^s.bits
  IN  IF s.bits + width >= WordBits
        THEN [out |-> s.out \o put_le(acc % 2^WordBits, WordBytes),
              acc |-> v \div 2^(WordBits - s.bits), bits |-> s.bits + width - WordBits]
        ELSE [s EXCEPT !.acc = acc, !.bits = @ + width]

pack_bits(vals, width) ==
  LET s == FoldLeft(LAMBDA a, x : PackValue(a, x % 2^width, width),
                    [out |-> <<>>, acc |-> 0, bits |-> 0], vals)
  IN  IF width = 0 THEN <<>>
      ELSE SubSeq(s.out \o put_le(s.acc, WordBytes), 1, BytesFor(Len(vals) * width))

\* Words and bytes in a register: the sequence of their bits, the lowest first.
\* Bytes the source does not have are those of a zeroed buffer.
LoadByte(in, p) == Binary(OrZero(in, p + 1), ByteBits)
LoadWord(in, p) == FlattenSeq([k \in 1 .. WordBytes |-> LoadByte(in, p + k - 1)])
Widen(x) == [t \in 1 .. WordBits |-> OrZero(x, t)]
Shl(x, n) == [t \in DOMAIN x |-> OrZero(x, t - n)]
Shr(x, n) == [t \in DOMAIN x |-> OrZero(x, t + n)]
OrBits(x, y) == [t \in DOMAIN x |-> IF x[t] = 1 \/ y[t] = 1 THEN 1 ELSE 0]

\* One group of ByteBits values: a value is one word load, or that and the byte
\* behind it at the widths that can straddle a word.
unpack8(in, width) ==
  [i \in 1 .. ByteBits |->
     LET bit == (i - 1) * width
         at  == bit \div ByteBits
         sh  == bit % ByteBits
         lo  == Shr(LoadWord(in, at), sh)
         hi  == Shl(Widen(LoadByte(in, at + WordBytes)), WordBits - sh)
     IN  Number(SubSeq(IF width > WordBits - ByteBits /\ sh > 0 THEN OrBits(lo, hi) ELSE lo,
                       1, width))]

\* One byte past the last one the loads of group g touch.
LoadEnd(width, g) ==
  LET bit == (ByteBits - 1) * width
  IN  g * width + bit \div ByteBits + WordBytes
        + (IF width > WordBits - ByteBits /\ bit % ByteBits # 0 THEN 1 ELSE 0)

FastGroups(in_len, width, groups) ==
  IF width = 0 THEN groups
  ELSE IF in_len < width + WordBytes THEN 0
  ELSE Lesser(groups, (in_len - (width + WordBytes)) \div width + 1)

\* Groups beyond the fast ones are copied into a padded buffer first.
unpack_groups(in, width, groups) ==
  LET fast   == FastGroups(Len(in), width, groups)
      src(g) == IF g < fast THEN From(in, g * width)
                ELSE SubSeq(in, g * width + 1, Lesser((g + 1) * width, Len(in)))
  IN  [vals  |-> FlattenSeq([g \in 1 .. groups |-> unpack8(src(g - 1), width)]),
       reach |-> IF width = 0 \/ fast = 0 THEN 0 ELSE LoadEnd(width, fast - 1)]

unpack_bits(in, width, n) ==
  LET full == n \div ByteBits
      rem  == n % ByteBits
      last == unpack_groups(From(in, full * width), width, 1)
      head == unpack_groups(in, width, full)
  IN  IF Len(in) < BytesFor(n * width) THEN [ok |-> FALSE, vals |-> <<>>, reach |-> 0]
      ELSE [ok    |-> TRUE,
            vals  |-> head.vals \o (IF rem = 0 THEN <<>> ELSE SubSeq(last.vals, 1, rem)),
            reach |-> Greatest({head.reach,
                        IF rem = 0 \/ last.reach = 0 THEN 0 ELSE full * width + last.reach})]

-----------------------------------------------------------------------------
(* Bitmaps: a bitmap is here the sequence of its bits, byte o of it the    *)
(* ByteBits ones from o * ByteBits on.                                     *)

\* The bits [at, at + Len(new)) of a bitmap, stored; one bit of it, or-ed.
StoreBits(bits, at, new) ==
  [i \in DOMAIN bits |-> IF i - at \in DOMAIN new THEN new[i - at] ELSE bits[i]]
OrBit(bits, b, v) == [bits EXCEPT ![b + 1] = IF v = 1 THEN 1 ELSE @]

\* The first multiple of m from i on.
Aligned(i, m) == ((i + m - 1) \div m) * m
Ones(bits, from, to) == Cardinality({i \in from + 1 .. to : bits[i] = 1})

\* Bit by bit up to a byte, then whole bytes, then bit by bit.
set_bits(bits, start, count) ==
  LET end   == start + count
      i     == Lesser(end, Aligned(start, ByteBits))
      whole == ((end - i) \div ByteBits) * ByteBits
      loop(bs, from, to) ==
        FoldLeft(LAMBDA a, k : OrBit(a, from + k - 1, 1), bs, [k \in 1 .. to - from |-> k])
      filled == StoreBits(loop(bits, start, i), (i \div ByteBits) * ByteBits,
                          [t \in 1 .. whole |-> 1])
  IN  loop(filled, i + whole, end)

\* Bit by bit up to a word, then whole words, then bit by bit.
count_bits(bits, start, count) ==
  LET end   == start + count
      i     == Lesser(end, Aligned(start, WordBits))
      words == (end - i) \div WordBits
      w(k)  == SubSeq(bits, i + (k - 1) * WordBits + 1, i + k * WordBits)
  IN  Ones(bits, start, i)
        + FoldLeft(LAMBDA c, k : c + Ones(w(k), 0, WordBits), 0, [k \in 1 .. words |-> k])
        + Ones(bits, i + words * WordBits, end)

\* Byte o of a bitmap with the bits of x where mask is set: (t & ~mask) | (x & mask).
\* Mask(n) is (1 << n) - 1.
Mask(n) == [t \in 1 .. ByteBits |-> IF t <= n THEN 1 ELSE 0]
MergeByte(bits, o, x, mask) ==
  [i \in DOMAIN bits |->
     LET t == i - o * ByteBits
     IN  IF t \in DOMAIN mask /\ mask[t] = 1 THEN x[t] ELSE bits[i]]

\* The position of an unaligned copy: output byte o, input byte p, bits left,
\* and one byte past the last one read.
RECURSIVE CopyWords(_, _, _, _)
CopyWords(c, in, in_bytes, k) ==
  IF c.left < WordBits \/ c.p + WordBytes + 1 > in_bytes THEN c
  ELSE LET w == OrBits(Shr(LoadWord(in, c.p), k),
                       Shl(Widen(LoadByte(in, c.p + WordBytes)), WordBits - k))
       IN  CopyWords([bits  |-> StoreBits(c.bits, c.o * ByteBits, w),
                      o     |-> c.o + WordBytes,
                      p     |-> c.p + WordBytes,
                      left  |-> c.left - WordBits,
                      reach |-> c.p + WordBytes + 1], in, in_bytes, k)

RECURSIVE CopyBytes(_, _, _)
CopyBytes(c, in, k) ==
  IF c.left < ByteBits THEN c
  ELSE LET b == OrBits(Shr(LoadByte(in, c.p), k), Shl(LoadByte(in, c.p + 1), ByteBits - k))
       IN  CopyBytes([bits  |-> StoreBits(c.bits, c.o * ByteBits, b),
                      o     |-> c.o + 1,
                      p     |-> c.p + 1,
                      left  |-> c.left - ByteBits,
                      reach |-> c.p + 2], in, k)

CopyTail(c, in, k) ==
  LET first == c.p * ByteBits + k
      at    == first \div ByteBits
      sh    == first % ByteBits
      two   == sh + c.left > ByteBits
      v     == Shr(LoadByte(in, at), sh)
      next  == Shl(LoadByte(in, at + 1), ByteBits - sh)
  IN  IF c.left = 0 THEN c
      ELSE [c EXCEPT !.bits  = MergeByte(@, c.o, IF two THEN OrBits(v, next) ELSE v, Mask(c.left)),
                     !.reach = Greatest({@, at + (IF two THEN 2 ELSE 1)})]

\* A destination within a byte: its first byte is filled, then whole words, whole
\* bytes and a tail take the high bits of one source byte and the low bits of the next.
CopyShifted(in, n, bits, dst_bit) ==
  LET sh    == dst_bit % ByteBits
      k     == ByteBits - sh
      head  == Lesser(n, k)
      o     == dst_bit \div ByteBits
      first == MergeByte(bits, o, Shl(LoadByte(in, 0), sh), Shl(Mask(head), sh))
      c     == [bits |-> first, o |-> o + 1, p |-> 0, left |-> n - k, reach |-> 1]
  IN  IF n = head THEN [bits |-> first, reach |-> 1]
      ELSE CopyTail(CopyBytes(CopyWords(c, in, BytesFor(n), k), in, k), in, k)

CopyAligned(in, n, bits, dst_bit) ==
  LET full == n \div ByteBits
      rem  == n % ByteBits
      body == StoreBits(bits, dst_bit, Bits(SubSeq(in, 1, full)))
  IN  [bits  |-> IF rem = 0 THEN body
                 ELSE MergeByte(body, dst_bit \div ByteBits + full, LoadByte(in, full), Mask(rem)),
       reach |-> full + (IF rem = 0 THEN 0 ELSE 1)]

copy_bits(in, n, bits, dst_bit) ==
  IF Len(in) < BytesFor(n) \/ Len(bits) < BytesFor(dst_bit + n) * ByteBits
    THEN [ok |-> FALSE, bits |-> bits, reach |-> 0]
  ELSE IF n = 0 THEN [ok |-> TRUE, bits |-> bits, reach |-> 0]
  ELSE LET c == IF dst_bit % ByteBits = 0 THEN CopyAligned(in, n, bits, dst_bit)
                ELSE CopyShifted(in, n, bits, dst_bit)
       IN  [ok |-> TRUE, bits |-> c.bits, reach |-> c.reach]

\* Slot r takes the next dense bit when its validity bit is set; j counts those taken.
scatter_bits(dense, validity, bits, at) ==
  FoldLeft(LAMBDA a, r : IF validity[r] = 0 THEN a
                         ELSE [bits |-> OrBit(a.bits, at + r - 1, dense[a.j + 1]), j |-> a.j + 1],
           [bits |-> bits, j |-> 0], [r \in DOMAIN validity |-> r]).bits

-----------------------------------------------------------------------------
(* BYTE_STREAM_SPLIT.                                                      *)

byte_stream_split(in, width, n) ==
  IF width = 0 \/ Len(in) < n * width THEN [ok |-> FALSE, out |-> <<>>]
  ELSE [ok |-> TRUE,
        out |-> [k \in 1 .. n * width |-> in[((k - 1) % width) * n + (k - 1) \div width + 1]]]

byte_stream_split_encode(in, width, n) ==
  IF width = 0 \/ Len(in) < n * width THEN [ok |-> FALSE, out |-> <<>>]
  ELSE [ok |-> TRUE,
        out |-> [k \in 1 .. n * width |-> in[width * ((k - 1) % n) + (k - 1) \div n + 1]]]
=============================================================================
