----------------------------- MODULE BlockCodec -----------------------------
(***************************************************************************)
(* The Snappy and LZ4 block decoders of include/nanom/codec.hpp.  A block  *)
(* is the list of its elements, each with the number of bytes it takes, so *)
(* that positions in the input are exact and an input can be cut at any    *)
(* byte; the bits of tags, tokens and length suffixes are left out.        *)
(* Copies follow the code's fast paths: fixed-size moves that write past   *)
(* the bytes they are for.  Bytes nobody produced yet are Junk, and a      *)
(* store past the end of the output makes the output longer.  The unit of  *)
(* a fast move is Half (8 bytes in the code); a longest Snappy copy is     *)
(* MaxCopy (64).  A state of a decoder is a record with the output, the    *)
(* input position ip, the output position op and the next element k.       *)
(***************************************************************************)
EXTENDS Integers, Sequences, SequencesExt

CONSTANTS Half,       \* bytes of the smaller fixed-size move
          MaxCopy,    \* longest Snappy copy
          Nibble,     \* a nibble that says an LZ4 length continues, 15 in the code
          ExtMax,     \* most an LZ4 length byte adds, 255 in the code
          MinMatch    \* shortest LZ4 match, 4 in the code

Chunk == 2 * Half
OutRoom == MaxCopy + Chunk      \* output bytes the fast path of Snappy keeps in reserve

ASSUME CodecAssumption ==
  /\ Half \in Nat \ {0, 1} /\ MaxCopy \in Nat \ {0}
  /\ Nibble \in Nat \ {0} /\ ExtMax \in Nat \ {0} /\ MinMatch \in Nat

Junk == -1
At(s, i) == IF i \in DOMAIN s THEN s[i] ELSE Junk
Most(a, b) == IF a >= b THEN a ELSE b
Least2(a, b) == IF a <= b THEN a ELSE b

\* n bytes `src` stored at offset dst (counting from 0) of the output.
Store(out, dst, src) ==
  [i \in 1 .. Most(Len(out), dst + Len(src)) |->
     IF i - dst \in DOMAIN src THEN src[i - dst] ELSE At(out, i)]

\* memcpy of n bytes inside the output.
Move(out, dst, src, n) == Store(out, dst, [i \in 1 .. n |-> At(out, src + i)])

\* Consecutive moves of `step` bytes that together cover [from, to).
Moves(out, dst, src, from, to, step) ==
  FoldLeft(LAMBDA o, k : Move(o, dst + from + k * step, src + from + k * step, step), out,
           [k \in 1 .. (to - from + step - 1) \div step |-> k - 1])

-----------------------------------------------------------------------------
(* Back-references.                                                        *)

copy_match(out, dst, offset, len) ==
  IF offset >= len THEN Move(out, dst, dst - offset, len)
  ELSE LET whole == IF offset >= Half THEN (len \div Half) * Half ELSE 0
       IN  Moves(Moves(out, dst, dst - offset, 0, whole, Half),
                 dst, dst - offset, whole, len, 1)

\* Mutant of Lag: eight bytes back, whatever the period.
LagHalf(offset) == Half

\* The multiple of a short period that is at least Half.
Lag(offset) == offset * ((Half + offset - 1) \div offset)

copy_match_wild(out, dst, offset, len) ==
  IF offset >= Chunk THEN Moves(out, dst, dst - offset, 0, len, Chunk)
  ELSE IF offset >= Half THEN Moves(out, dst, dst - offset, 0, len, Half)
  ELSE LET head == Least2(len, Half)
       IN  Moves(Moves(out, dst, dst - offset, 0, head, 1), dst, dst - Lag(offset), head, len, Half)

\* The exact path's copy: wild while its overshoot stays inside the output.
BackReference(out, op, offset, len) ==
  IF Len(out) - op >= len + Chunk THEN copy_match_wild(out, op, offset, len)
                                  ELSE copy_match(out, op, offset, len)

-----------------------------------------------------------------------------
(* Snappy: a literal [lit, bytes, suffix], where `suffix` bytes after the  *)
(* tag hold the length, or a copy [lit, offset, len, extra] with its       *)
(* offset in `extra` bytes after the tag.                                  *)

SnappySize(e) == IF e.lit THEN 1 + e.suffix + Len(e.bytes) ELSE 1 + e.extra
Refuse(b, why) == [b EXCEPT !.status = why]
Took(b, out, n, size) == [b EXCEPT !.out = out, !.op = @ + n, !.ip = @ + size, !.k = @ + 1]

\* A fast literal moves Chunk bytes, the ones behind it among them.
FastLiteral(out, op, bytes) ==
  Store(out, op, bytes \o [i \in 1 .. Chunk - Len(bytes) |-> Junk])

SnappyLiteral(b, e) ==
  LET n == Len(e.bytes)
  IN  IF b.in_size - b.ip < 1 + e.suffix \/ b.in_size - b.ip < 1 + e.suffix + n
        THEN Refuse(b, "truncated")
      ELSE IF Len(b.out) - b.op < n THEN Refuse(b, "overflow")
      ELSE Took(b, Store(b.out, b.op, e.bytes), n, SnappySize(e))

\* Mutant of SnappyCopy: a copy from the very start of the output is refused.
SnappyCopyStrict(b, e) ==
  IF b.in_size - b.ip < 1 + e.extra THEN Refuse(b, "truncated")
  ELSE IF e.offset = 0 \/ e.offset >= b.op THEN Refuse(b, "offset")
  ELSE IF Len(b.out) - b.op < e.len THEN Refuse(b, "overflow")
  ELSE Took(b, BackReference(b.out, b.op, e.offset, e.len), e.len, SnappySize(e))

SnappyCopy(b, e) ==
  IF b.in_size - b.ip < 1 + e.extra THEN Refuse(b, "truncated")
  ELSE IF e.offset = 0 \/ e.offset > b.op THEN Refuse(b, "offset")
  ELSE IF Len(b.out) - b.op < e.len THEN Refuse(b, "overflow")
  ELSE Took(b, BackReference(b.out, b.op, e.offset, e.len), e.len, SnappySize(e))

\* The elements that one branch-free step of two moves covers.
FastStep(b, e) ==
  IF e.lit THEN Len(e.bytes) <= Chunk /\ e.suffix = 0
           ELSE e.len <= Chunk /\ e.extra # 4 /\ e.offset \in Half .. b.op

snappy_step(b, e) ==
  LET ip_fast == IF b.in_size >= Chunk THEN b.in_size - Chunk ELSE 0
      op_fast == IF Len(b.out) >= OutRoom THEN Len(b.out) - OutRoom ELSE 0
      fast    == b.ip < ip_fast /\ b.op < op_fast
      twice   == Move(Move(b.out, b.op, b.op - e.offset, Half),
                      b.op + Half, b.op - e.offset + Half, Half)
  IN  IF fast /\ e.lit /\ FastStep(b, e)
        THEN Took(b, FastLiteral(b.out, b.op, e.bytes), Len(e.bytes), SnappySize(e))
      ELSE IF fast /\ ~e.lit /\ FastStep(b, e) THEN Took(b, twice, e.len, SnappySize(e))
      ELSE IF fast /\ ~e.lit /\ e.offset \in 1 .. b.op
        THEN Took(b, copy_match_wild(b.out, b.op, e.offset, e.len), e.len, SnappySize(e))
      ELSE IF e.lit THEN SnappyLiteral(b, e) ELSE SnappyCopy(b, e)

-----------------------------------------------------------------------------
(* LZ4: a sequence of literals and, unless it is the block's last, a match *)
(* [bytes, offset, len].                                                   *)

\* Bytes that continue a length whose nibble is full.
ExtBytes(n) == IF n < Nibble THEN 0 ELSE (n - Nibble) \div ExtMax + 1

Lz4Literals(b, e) ==
  LET n   == Len(e.bytes)
      ext == ExtBytes(n)
      ip  == b.ip + 1
  IN  IF n < Nibble /\ b.in_size - ip >= Chunk /\ Len(b.out) - b.op >= Chunk
        THEN [b EXCEPT !.out = FastLiteral(@, b.op, e.bytes), !.op = @ + n, !.ip = ip + n]
      ELSE IF b.in_size - ip < ext + n THEN Refuse(b, "truncated")
      ELSE IF Len(b.out) - b.op < n THEN Refuse(b, "overflow")
      ELSE [b EXCEPT !.out = Store(@, b.op, e.bytes), !.op = @ + n, !.ip = ip + ext + n]

Lz4Match(b, e) ==
  LET ext == ExtBytes(e.len - MinMatch)
  IN  IF b.in_size - b.ip < 2 THEN Refuse(b, "truncated")
      ELSE IF e.offset = 0 \/ e.offset > b.op THEN Refuse(b, "offset")
      ELSE IF b.in_size - b.ip - 2 < ext THEN Refuse(b, "truncated")
      ELSE IF Len(b.out) - b.op < e.len THEN Refuse(b, "overflow")
      ELSE Took(b, BackReference(b.out, b.op, e.offset, e.len), e.len, 2 + ext)

\* One sequence; the block ends where its input does, after literals.
lz4_step(b, e) ==
  LET l == Lz4Literals(b, e)
  IN  IF b.ip >= b.in_size THEN Refuse(b, "truncated")
      ELSE IF l.status # "open" THEN l
      ELSE IF l.ip = b.in_size THEN [l EXCEPT !.status = "ok", !.k = @ + 1]
      ELSE Lz4Match(l, e)
=============================================================================
