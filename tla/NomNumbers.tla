----------------------------- MODULE NomNumbers -----------------------------
(***************************************************************************)
(* The number parsers of include/nanom/nom.hpp: fixed-width integers,      *)
(* LEB128 and zigzag variable-length integers, overflow-checked counts,    *)
(* little-endian arrays, decimal and floating text, and bit reads.  The    *)
(* width of an integer type is the parameter w, in bits; the code has the  *)
(* instances 8, 16, 32 and 64.                                             *)
(***************************************************************************)
EXTENDS NomInput

Wrap(x, w) == x % 2^w
bit_cast(u, w) == IF u >= 2^(w - 1) THEN u - 2^w ELSE u    \* unsigned to signed
CeilDiv(a, b) == (a + b - 1) \div b

BigEndian(bs) == FoldLeft(LAMBDA v, b : v * 256 + b, 0, bs)
LittleEndian(bs) == BigEndian(Reverse(bs))
FirstIn(S) == CHOOSE i \in S : \A j \in S : i <= j

-----------------------------------------------------------------------------
(* Fixed width.                                                            *)

read_uint(in, n, order) ==
  IF size(in) < n THEN make_incomplete(in, n - size(in))
  ELSE done(IF order = "big" THEN BigEndian(Bytes(in, n)) ELSE LittleEndian(Bytes(in, n)),
            advance(in, n))

read_int(in, n, order) ==
  LET r == read_uint(in, n, order)
  IN  IF r.ok THEN done(bit_cast(r.value, 8 * n), r.rest) ELSE r

-----------------------------------------------------------------------------
(* Variable length: seven payload bits per byte, least significant first,  *)
(* the top bit set on every byte but the last.                             *)

leb128_max_bytes(w) == (w + 6) \div 7

\* The payload of the first n bytes, as the loop accumulates it.
Payload(in, n) == FoldLeft(LAMBDA v, b : v * 128 + (b % 128), 0, Reverse(Bytes(in, n)))

\* The indices at which the decoding loop of a w-bit value can stop.
LastByte(in, w) ==
  {i \in 0 .. Least(size(in), leb128_max_bytes(w)) - 1 :
     byte(in, i) < 128 \/ i + 1 = leb128_max_bytes(w)}

\* Mutant of read_uleb128: the last byte may carry bits beyond the width.
read_uleb128Wide(in, w) ==
  LET i == FirstIn(LastByte(in, w))
  IN  IF LastByte(in, w) = {} THEN make_incomplete(in, 1)
      ELSE IF byte(in, i) >= 128 THEN make_err(in)
      ELSE done(Payload(in, i + 1), advance(in, i + 1))

read_uleb128(in, w) ==
  LET max_bytes == leb128_max_bytes(w)
      last_bits == w - 7 * (max_bytes - 1)
      i == FirstIn(LastByte(in, w))
  IN  IF LastByte(in, w) = {} THEN make_incomplete(in, 1)
      ELSE IF i + 1 = max_bytes /\ byte(in, i) >= 2^last_bits THEN make_err(in)
      ELSE done(Payload(in, i + 1), advance(in, i + 1))

sleb128(in, w) ==
  LET max_bytes == leb128_max_bytes(w)
      i == FirstIn(LastByte(in, w))
      b == byte(in, i)
      used == w - 7 * i
      sign_ext == (b % 128) \div 2^(used - 1)
      v == Payload(in, i + 1)
  IN  IF LastByte(in, w) = {} THEN make_incomplete(in, 1)
      ELSE IF b >= 128 THEN make_err(in)
      ELSE IF i + 1 = max_bytes
        THEN IF sign_ext \notin {0, 127 \div 2^(used - 1)} THEN make_err(in)
             ELSE done(bit_cast(Wrap(v, w), w), advance(in, i + 1))
      ELSE IF b >= 64 /\ 7 * i + 7 < w
        THEN done(v - 2^(7 * i + 7), advance(in, i + 1))
      ELSE done(bit_cast(v, w), advance(in, i + 1))

zigzag_decode(u) == IF u % 2 = 0 THEN u \div 2 ELSE -(u \div 2) - 1
zigzag_encode(s) == IF s >= 0 THEN 2 * s ELSE -2 * s - 1

\* Types narrower than wide bits are read at that width (int32_t in the
\* code), then range-checked.
zigzag_varint(in, w, wide) ==
  LET r == read_uleb128(in, IF w < wide THEN wide ELSE w)
      v == zigzag_decode(r.value)
  IN  IF ~r.ok THEN r
      ELSE IF v < -(2^(w - 1)) \/ v > 2^(w - 1) - 1 THEN make_err(in)
      ELSE done(v, r.rest)

uleb128_encode[v \in Nat] ==
  IF v >= 128 THEN <<(v % 128) + 128>> \o uleb128_encode[v \div 128] ELSE <<v>>

-----------------------------------------------------------------------------
(* Counts read from the wire, and arrays.                                  *)

count_fits(in, count, min_item_bytes) ==
  min_item_bytes = 0 \/ count <= size(in) \div min_item_bytes

None == <<>>
checked_mul(a, b, w) == IF a * b >= 2^w THEN None ELSE <<a * b>>
checked_add(a, b, w) == IF a + b >= 2^w THEN None ELSE <<a + b>>

\* le_array::operator[]: element i of an array over the span.
le_array_at(in, span, i, width) ==
  LittleEndian(SubSeq(in.buf, span.from + i * width + 1, span.from + (i + 1) * width))

\* copy_to: every element in order, refused when the destination is short.
copy_to(in, span, n, width, capacity) ==
  IF capacity < n THEN None ELSE <<[i \in 1 .. n |-> le_array_at(in, span, i - 1, width)]>>

\* n elements of width bytes each; size_t has w bits.
le_array_of(in, n, width, w) ==
  IF ~count_fits(in, n, width)
    THEN make_incomplete(in, IF n > (2^w - 1) \div width THEN 2^w - 1 ELSE n * width - size(in))
    ELSE done([span |-> take_span(in, n * width), n |-> n], advance(in, n * width))

-----------------------------------------------------------------------------
(* Text.  std::from_chars is external: it takes the longest run of digits  *)
(* (after a minus sign for signed types) and reports a value out of range. *)

DigitValue(c) == IF c \in is_digit THEN c - 48 ELSE lower(c) - 87

FromChars(in, digits, radix, min, max) ==
  LET neg == min < 0 /\ size(in) > 0 /\ byte(in, 0) = 45
      at == IF neg THEN advance(in, 1) ELSE in
      n == RunLength(at, digits, nmax)
      m == FoldLeft(LAMBDA v, c : v * radix + DigitValue(c), 0, Bytes(at, n))
      v == IF neg THEN -m ELSE m
  IN  [ok |-> n > 0 /\ v \in min .. max, value |-> v, rest |-> advance(at, n)]

dec(in, min, max) ==
  LET r == FromChars(in, is_digit, 10, min, max)
  IN  IF r.ok THEN done(r.value, r.rest) ELSE make_err(in)

hex(in, max) ==
  LET r == FromChars(in, is_hex, 16, 0, max)
  IN  IF r.ok THEN done(r.value, r.rest) ELSE make_err(in)

\* The portable floating-point parser.  A value is the pair of significand
\* and decimal exponent scale10 would combine; at most cap significant
\* digits are kept (18 in the code).  Out-of-range results are left out.
Peek(at, chars) == size(at) > 0 /\ byte(at, 0) \in chars
After(at, chars) == IF Peek(at, chars) THEN advance(at, 1) ELSE at

Decimal(at, n, acc) == FoldLeft(LAMBDA v, c : v * 10 + DigitValue(c), acc, Bytes(at, n))

\* The digits at s.at; those beyond the cap only scale, or drop.
eat(s, fractional, cap) ==
  LET n    == RunLength(s.at, is_digit, nmax)
      kept == Least(n, cap - s.digits)
  IN  [at |-> advance(s.at, n), mant |-> Decimal(s.at, kept, s.mant), digits |-> s.digits + kept,
       exp10 |-> IF fractional THEN s.exp10 - kept ELSE s.exp10 + (n - kept),
       any |-> s.any \/ n > 0]

Fraction(s, cap) ==
  IF Peek(s.at, {46}) THEN eat([s EXCEPT !.at = advance(@, 1)], TRUE, cap) ELSE s

\* An e without digits is not part of the number.  Exponents are small here.
Exponent(s) ==
  LET ep == After(advance(s.at, 1), {43, 45})
      n  == RunLength(ep, is_digit, nmax)
      e  == Decimal(ep, n, 0)
  IN  IF Peek(s.at, {101, 69}) /\ n > 0
        THEN [s EXCEPT !.at = advance(ep, n),
                       !.exp10 = @ + IF Peek(advance(s.at, 1), {45}) THEN -e ELSE e]
        ELSE s

Number10(in, s) ==
  IF ~s.any THEN make_err(in)
  ELSE done([mant |-> IF Peek(in, {45}) THEN -s.mant ELSE s.mant, exp10 |-> s.exp10], s.at)

from_chars_double(in, cap) ==
  Number10(in, Exponent(Fraction(eat([at |-> After(in, {45}), mant |-> 0, digits |-> 0, exp10 |-> 0,
                                      any |-> FALSE], FALSE, cap), cap)))

double_(in, cap) == from_chars_double(in, cap)

-----------------------------------------------------------------------------
(* Bits.  A bit cursor is a byte cursor and the bits already consumed of   *)
(* its first byte.                                                         *)

bits_left(bi) == size(bi.in) * 8 - bi.bit

RECURSIVE BitLoop(_, _, _, _, _)
BitLoop(bi, n, ord, got, out) ==
  LET avail == 8 - bi.bit
      use == Least(avail, n - got)
      shift == IF ord = "msb0" THEN avail - use ELSE bi.bit
      piece == (byte(bi.in, 0) \div 2^shift) % 2^use
      end == bi.bit + use
  IN  IF got = n THEN done(out, bi)
      ELSE BitLoop(IF end = 8 THEN [in |-> advance(bi.in, 1), bit |-> 0]
                              ELSE [in |-> bi.in, bit |-> end],
                   n, ord, got + use,
                   IF ord = "msb0" THEN out * 2^use + piece ELSE out + piece * 2^got)

read_bits(bi, n, ord) ==
  IF bits_left(bi) < n THEN make_incomplete(bi.in, CeilDiv(n - bits_left(bi), 8))
                       ELSE BitLoop(bi, n, ord, 0, 0)

take_bits(bi, n, ord) == read_bits(bi, n, ord)

tag_bits(bi, pattern, n, ord) ==
  LET r == read_bits(bi, n, ord)
  IN  IF r.ok /\ r.value # pattern THEN make_err(bi.in) ELSE r

bool_bit(bi, ord) ==
  LET r == read_bits(bi, 1, ord)
  IN  IF r.ok THEN done(r.value # 0, r.rest) ELSE r
=============================================================================
