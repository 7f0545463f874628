----------------------------- MODULE RleHybrid -----------------------------
(***************************************************************************)
(* The RLE / bit-packed hybrid of include/nanom/columnar.hpp (decoder),    *)
(* columnar_encode.hpp (encoders) and values.hpp (bitmaps and levels).     *)
(* The decoder is a cursor with at most one open run; get, next_run and    *)
(* skip may be called in any order.  A value the decoder would leave       *)
(* unwritten is Unwritten.                                                 *)
(***************************************************************************)
EXTENDS ColumnarBits

CONSTANTS RunCap,      \* most values of one run, 2^40 in the code
          SkipChunk,   \* values skip drops at a time, 256 in the code
          LevelChunk   \* levels unpacked at a time, 512 in the code

ASSUME HybridAssumption ==
  /\ RunCap \in Nat \ {0} /\ SkipChunk \in Nat \ {0}
  /\ LevelChunk \in Nat \ {0} /\ LevelChunk % ByteBits = 0

Unwritten == -1
Copies(v, n) == [i \in 1 .. n |-> v]

-----------------------------------------------------------------------------
(* rle_bp_decoder.                                                         *)

\* Widths up to half a varint's are read (32 of 64 in the code).
rle_bp_decoder(data, width) ==
  [in |-> data, p |-> 0, width |-> width, ok |-> 2 * width <= VarBits, rle_value |-> 0, rle_left |-> 0,
   bp |-> 0, bp_bytes |-> 0, bp_pos |-> 0, bp_left |-> 0]

Stop(d)      == [more |-> FALSE, d |-> d]
Malformed(d) == Stop([d EXCEPT !.ok = FALSE])

OpenPacked(d, groups) ==
  LET avail == Len(d.in) - d.p
      bytes == Lesser((IF groups > avail THEN avail ELSE groups) * d.width, avail)
      count == (groups * ByteBits) % 2^VarBits
  IN  [more |-> TRUE,
       d |-> [d EXCEPT !.bp_left = IF d.width > 0
                                     THEN Lesser(count, (bytes * ByteBits) \div d.width)
                                     ELSE Lesser(count, RunCap),
                       !.bp = d.p, !.bp_bytes = bytes, !.bp_pos = 0, !.p = @ + bytes]]

OpenRle(d, count) ==
  LET vbytes == BytesFor(d.width)
      v == Number(Bits(SubSeq(d.in, d.p + 1, d.p + vbytes)))
  IN  IF Len(d.in) - d.p < vbytes \/ v >= 2^d.width THEN Malformed(d)
      ELSE [more |-> TRUE, d |-> [d EXCEPT !.p = @ + vbytes, !.rle_value = v,
                                           !.rle_left = Lesser(count, RunCap)]]

\* next_run(): the header of the next run.
OpenRun(d) ==
  LET h == varint_u64(d.in, d.p)
      e == [d EXCEPT !.p = h.next]
  IN  IF d.p >= Len(d.in) THEN Stop(d)
      ELSE IF h.next = -1 THEN Malformed(d)
      ELSE IF h.value % 2 = 1 THEN OpenPacked(e, h.value \div 2)
      ELSE OpenRle(e, h.value \div 2)

\* The bytes of the open packed run from the group that holds its next value.
GroupBytes(d) ==
  SubSeq(d.in, d.bp + (d.bp_pos \div ByteBits) * d.width + 1, d.bp + d.bp_bytes)

TakePacked(d, k) == [d EXCEPT !.bp_pos = @ + k, !.bp_left = @ - k]

\* Mutant of PackedStep: a batch that starts inside a group restarts the group.
PackedStepAligned(d, want) ==
  IF want >= ByteBits /\ d.bp_left >= ByteBits
    THEN LET k == (Lesser(want, d.bp_left) \div ByteBits) * ByteBits
             u == unpack_bits(GroupBytes(d), d.width, k)
         IN  [d |-> TakePacked(d, k), out |-> IF u.ok THEN u.vals ELSE Copies(Unwritten, k)]
    ELSE LET g == unpack_groups(GroupBytes(d), d.width, 1).vals
             k == Lesser(Lesser(ByteBits, d.bp_left), want)
         IN  [d |-> TakePacked(d, k), out |-> SubSeq(g, 1, k)]

\* One turn of take_bitpacked: whole groups straight into the output, or the
\* wanted part of one group.
PackedStep(d, want) ==
  LET in_group == d.bp_pos % ByteBits
  IN  IF in_group = 0 /\ want >= ByteBits /\ d.bp_left >= ByteBits
        THEN LET k == (Lesser(want, d.bp_left) \div ByteBits) * ByteBits
                 u == unpack_bits(GroupBytes(d), d.width, k)
             IN  [d |-> TakePacked(d, k), out |-> IF u.ok THEN u.vals ELSE Copies(Unwritten, k)]
        ELSE LET g == unpack_groups(GroupBytes(d), d.width, 1).vals
                 k == Lesser(Lesser(ByteBits, d.bp_left + in_group) - in_group, want)
             IN  [d |-> TakePacked(d, k), out |-> SubSeq(g, in_group + 1, in_group + k)]

RECURSIVE GetInto(_, _, _)
GetInto(d, out, n) ==
  LET want == n - Len(out)
  IN  IF want = 0 \/ ~d.ok THEN [d |-> d, out |-> out]
      ELSE IF d.rle_left > 0
        THEN LET k == Lesser(d.rle_left, want)
             IN  GetInto([d EXCEPT !.rle_left = @ - k], out \o Copies(d.rle_value, k), n)
      ELSE IF d.bp_left > 0
        THEN LET t == PackedStep(d, want) IN GetInto(t.d, out \o t.out, n)
      ELSE LET r == OpenRun(d)
           IN  IF r.more THEN GetInto(r.d, out, n) ELSE [d |-> r.d, out |-> out]

get(d, n) == GetInto(d, <<>>, n)

RECURSIVE SkipMore(_, _, _)
SkipMore(d, done, n) ==
  LET g == get(d, Lesser(SkipChunk, n - done))
  IN  IF done >= n THEN [d |-> d, done |-> done]
      ELSE IF g.out = <<>> THEN [d |-> g.d, done |-> done]
      ELSE SkipMore(g.d, done + Len(g.out), n)

skip(d, n) == SkipMore(d, 0, n)

\* next_run(r, max): the open run, or the next one that holds a value, cut to max.
NoRun(d) == [found |-> FALSE, d |-> d, packed |-> FALSE, value |-> 0, count |-> 0,
             bits |-> <<>>, bit_offset |-> 0]

RECURSIVE next_run(_, _)
next_run(d, max) ==
  LET bit == d.bp_pos * d.width
      r   == OpenRun(d)
      rle == Lesser(d.rle_left, max)
      bp  == Lesser(d.bp_left, max)
  IN  IF ~d.ok \/ max = 0 THEN NoRun(d)
      ELSE IF d.rle_left > 0
        THEN [NoRun([d EXCEPT !.rle_left = @ - rle]) EXCEPT
                !.found = TRUE, !.value = d.rle_value, !.count = rle]
      ELSE IF d.bp_left > 0
        THEN [NoRun(TakePacked(d, bp)) EXCEPT
                !.found = TRUE, !.packed = TRUE, !.count = bp,
                !.bits = SubSeq(d.in, d.bp + bit \div ByteBits + 1, d.bp + d.bp_bytes),
                !.bit_offset = bit % ByteBits]
      ELSE IF r.more THEN next_run(r.d, max) ELSE NoRun(r.d)

\* The values of a run, as a consumer of next_run reads them.
RunValues(r, width) ==
  IF ~r.packed THEN Copies(r.value, r.count)
  ELSE [k \in 1 .. r.count |->
          Number(SubSeq(Bits(r.bits), r.bit_offset + (k - 1) * width + 1,
                        r.bit_offset + k * width))]

-----------------------------------------------------------------------------
(* Encoders.  The literal values not yet written are [begin, end) of the   *)
(* input.                                                                  *)

\* flush_literal: the pending values as one packed run, the stream's last
\* group padded with zeros.
flush_literal(vals, begin, end, width, last) ==
  LET lit    == SubSeq(vals, begin + 1, end)
      groups == (Len(lit) + ByteBits - 1) \div ByteBits
      padded == lit \o Copies(0, groups * ByteBits - Len(lit))
  IN  IF lit = <<>> THEN <<>>
      ELSE put_uleb(2 * groups + 1) \o pack_bits(IF last THEN padded ELSE lit, width)

\* One past the last value equal to value i.
RunEnd(vals, i) ==
  LET stop == {j \in i + 1 .. Len(vals) - 1 : vals[j + 1] # vals[i + 1]}
  IN  IF stop = {} THEN Len(vals) ELSE CHOOSE j \in stop : \A m \in stop : j <= m

\* Values a pending literal borrows from the run that follows to finish its group.
Steal(pending, run) ==
  IF run >= ByteBits /\ pending % ByteBits # 0 THEN ByteBits - (pending % ByteBits) ELSE 0

RECURSIVE EncodeFrom(_, _, _, _, _, _)
EncodeFrom(vals, i, begin, end, out, width) ==
  LET j     == RunEnd(vals, i)
      steal == Steal(end - begin, j - i)
      lit   == flush_literal(vals, begin, end + steal, width, FALSE)
      run   == j - i - steal
  IN  IF i >= Len(vals) THEN out \o flush_literal(vals, begin, end, width, TRUE)
      ELSE IF run >= ByteBits
        THEN EncodeFrom(vals, j, j, j,
                        out \o lit \o put_uleb(2 * run) \o put_le(vals[j], BytesFor(width)), width)
      ELSE EncodeFrom(vals, j, IF begin = end THEN i ELSE begin, j, out, width)

rle_hybrid_encode(vals, width) == EncodeFrom(vals, 0, 0, 0, <<>>, width)

encode_levels(levels, max_level) == rle_hybrid_encode(levels, bit_width(max_level))

\* The bitmap encoder works on whole bytes: two or more equal bytes of all
\* zeros or all ones are one RLE run, any other byte is a literal group.
Uniform(bm, b, e) ==
  /\ bm[b + 1] \in {0, 2^ByteBits - 1}
  /\ \A k \in b .. e - 1 : bm[k + 1] = bm[b + 1]

BitmapLiteral(bm, n, lit_from, to, with_tail) ==
  LET tail   == IF with_tail THEN <<bm[to + 1] % 2^(n % ByteBits)>> ELSE <<>>
      groups == to - lit_from + Len(tail)
  IN  IF groups = 0 THEN <<>>
      ELSE put_uleb(2 * groups + 1) \o SubSeq(bm, lit_from + 1, to) \o tail

RECURSIVE BitmapFrom(_, _, _, _, _)
BitmapFrom(bm, n, b, lit_from, out) ==
  LET full == n \div ByteBits
      ends == {e \in b + 2 .. full : Uniform(bm, b, e)}
      e    == Greatest(ends)
  IN  IF b >= full THEN out \o BitmapLiteral(bm, n, lit_from, full, n % ByteBits # 0)
      ELSE IF ends = {} THEN BitmapFrom(bm, n, b + 1, lit_from, out)
      ELSE BitmapFrom(bm, n, e, e,
             out \o BitmapLiteral(bm, n, lit_from, b, FALSE)
                 \o put_uleb(2 * (e - b) * ByteBits)
                 \o <<IF bm[b + 1] = 0 THEN 0 ELSE 1>>)

rle_bitmap_encode(bm, n) == BitmapFrom(bm, n, 0, 0, <<>>)

-----------------------------------------------------------------------------
(* Consumers of whole runs.                                                *)

\* Mutant of MidByte: the bits are taken from the start of the byte.
MidByteStart(r, bits, at) ==
  [i \in DOMAIN bits |->
     IF i - at \in 1 .. r.count /\ Bits(r.bits)[i - at] = 1 THEN 1 ELSE bits[i]]

\* Where a run that starts mid-byte is copied bit by bit.
MidByte(r, bits, at) ==
  [i \in DOMAIN bits |->
     IF i - at \in 1 .. r.count /\ Bits(r.bits)[r.bit_offset + i - at] = 1 THEN 1 ELSE bits[i]]

BitmapRun(r, bits, at) ==
  IF ~r.packed
    THEN [ok |-> r.value <= 1, bits |-> IF r.value = 1 THEN set_bits(bits, at, r.count) ELSE bits]
  ELSE IF r.bit_offset = 0
    THEN LET c == copy_bits(r.bits, r.count, bits, at) IN [ok |-> c.ok, bits |-> c.bits]
  ELSE [ok |-> TRUE, bits |-> MidByte(r, bits, at)]

RECURSIVE BitmapRuns(_, _, _, _, _)
BitmapRuns(d, i, n, bits, at) ==
  LET r == next_run(d, n - i)
      b == BitmapRun(r, bits, at + i)
  IN  IF i >= n THEN [ok |-> TRUE, d |-> d, bits |-> bits]
      ELSE IF ~r.found THEN [ok |-> FALSE, d |-> r.d, bits |-> bits]
      ELSE IF ~b.ok THEN [ok |-> FALSE, d |-> r.d, bits |-> b.bits]
      ELSE BitmapRuns(r.d, i + r.count, n, b.bits, at)

\* n values of a width-1 stream into the bitmap at bit `at`, run by run.
rle_bitmap(d, n, bits, at) ==
  IF d.width # 1 \/ at + n > Len(bits) THEN [ok |-> FALSE, d |-> d, bits |-> bits]
  ELSE BitmapRuns(d, 0, n, bits, at)

\* A packed run of levels: in blocks when it starts a byte, else bit by bit.
RECURSIVE LevelBlocks(_, _, _, _)
LevelBlocks(r, w, k, out) ==
  LET m == Lesser(LevelChunk, r.count - k)
      u == unpack_bits(From(r.bits, (k * w) \div ByteBits), w, m)
  IN  IF k >= r.count THEN [ok |-> TRUE, out |-> out]
      ELSE IF ~u.ok THEN [ok |-> FALSE, out |-> out]
      ELSE LevelBlocks(r, w, k + LevelChunk, out \o u.vals)

LevelRun(r, w) ==
  IF ~r.packed THEN [ok |-> TRUE, out |-> RunValues(r, w)]
  ELSE IF r.bit_offset = 0 THEN LevelBlocks(r, w, 0, <<>>)
  ELSE IF r.bit_offset + r.count * w > Len(r.bits) * ByteBits THEN [ok |-> FALSE, out |-> <<>>]
  ELSE [ok |-> TRUE, out |-> RunValues(r, w)]

RECURSIVE LevelRuns(_, _, _, _)
LevelRuns(d, maxv, n, out) ==
  LET r == next_run(d, n - Len(out))
      l == LevelRun(r, d.width)
  IN  IF Len(out) >= n THEN [ok |-> TRUE, levels |-> out]
      ELSE IF ~r.found THEN [ok |-> FALSE, levels |-> out]
      ELSE IF ~l.ok \/ \E k \in DOMAIN l.out : l.out[k] > maxv THEN [ok |-> FALSE, levels |-> out]
      ELSE LevelRuns(r.d, maxv, n, out \o l.out)

decode_levels(data, maxv, n) ==
  LevelRuns(rle_bp_decoder(data, bit_width(maxv)), maxv, n, <<>>)
=============================================================================
