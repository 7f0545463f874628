---------------------------- MODULE DeltaPacked ----------------------------
(***************************************************************************)
(* DELTA_BINARY_PACKED and the byte-array encodings built on it, of        *)
(* include/nanom/columnar.hpp, columnar_encode.hpp and values.hpp.  The    *)
(* integers have IntBits bits and all arithmetic on them wraps; the shape  *)
(* of a block is scaled: DeltaBlock values in DeltaMinis miniblocks (128   *)
(* in 4 in the encoder), and the decoder unpacks DeltaChunk values (1024)  *)
(* of a miniblock at a time.                                               *)
(***************************************************************************)
EXTENDS ColumnarBits

CONSTANTS IntBits, DeltaBlock, DeltaMinis, DeltaChunk, MaxDeltaBlock

PerMini == DeltaBlock \div DeltaMinis

ASSUME DeltaAssumption ==
  /\ IntBits \in Nat \ {0} /\ DeltaMinis \in Nat \ {0}
  /\ DeltaBlock % DeltaMinis = 0 /\ PerMini % ByteBits = 0 /\ DeltaChunk % ByteBits = 0
  /\ MaxDeltaBlock \in Nat

Unsigned(v) == v % 2^IntBits
MaxInt == 2^(IntBits - 1) - 1

-----------------------------------------------------------------------------
(* Encoding.                                                               *)

\* Mutant of Miniblocks: only miniblocks that are full are written.
MiniblocksFull(count) == count \div PerMini

\* Miniblocks of a block that hold a value; the others take no bytes.
Miniblocks(count) == (count + PerMini - 1) \div PerMini

\* The block of the values from index `start`, each against its predecessor.
EncodeBlock(vals, start) ==
  LET count     == Lesser(DeltaBlock, Len(vals) - start)
      delta(k)  == Signed(Unsigned(vals[start + k] - vals[start + k - 1]), IntBits)
      min_delta == CHOOSE d \in {delta(k) : k \in 1 .. count} :
                     \A k \in 1 .. count : d <= delta(k)
      adjusted  == [k \in 1 .. DeltaBlock |->
                      IF k <= count THEN Unsigned(delta(k) - min_delta) ELSE 0]
      mini(m)   == SubSeq(adjusted, (m - 1) * PerMini + 1, m * PerMini)
      used      == Miniblocks(count)
      width(m)  == IF m > used THEN 0
                   ELSE Greatest({bit_width(mini(m)[k]) : k \in 1 .. PerMini})
  IN  put_uleb(zigzag_encode(min_delta))
        \o [m \in 1 .. DeltaMinis |-> width(m)]
        \o FlattenSeq([m \in 1 .. used |-> pack_bits(mini(m), width(m))])

delta_binary_packed_encode(vals) ==
  put_uleb(DeltaBlock) \o put_uleb(DeltaMinis) \o put_uleb(Len(vals))
    \o put_uleb(zigzag_encode(IF vals = <<>> THEN 0 ELSE vals[1]))
    \o FlattenSeq([b \in 1 .. (Len(vals) - 1 + DeltaBlock - 1) \div DeltaBlock |->
                     EncodeBlock(vals, (b - 1) * DeltaBlock + 1)])

-----------------------------------------------------------------------------
(* Decoding: s is the position in the input, the last value and what was   *)
(* produced.                                                               *)

Bad == [ok |-> FALSE, p |-> 0, last |-> 0, out |-> <<>>]

AddDeltas(s, min_delta, deltas) ==
  FoldLeft(LAMBDA a, u :
             LET v == Unsigned(a.last + min_delta + u)
             IN  [a EXCEPT !.last = v, !.out = Append(@, Signed(v, IntBits))],
           s, deltas)

RECURSIVE UnpackChunks(_, _, _, _, _, _)
UnpackChunks(s, in, w, min_delta, done, need) ==
  LET k == Lesser(DeltaChunk, need - done)
      u == unpack_bits(From(in, s.p + (done * w) \div ByteBits), w, k)
  IN  IF done >= need THEN s
      ELSE IF ~u.ok THEN Bad
      ELSE UnpackChunks(AddDeltas(s, min_delta, u.vals), in, w, min_delta, done + k, need)

\* Miniblock m of a block; the last one of a stream may be cut short.
RECURSIVE DecodeMinis(_, _, _, _, _, _)
DecodeMinis(s, in, h, b, m, n) ==
  LET w    == in[b.widths + m]
      need == Lesser(h.per_mini, n - Len(s.out))
      d    == UnpackChunks(s, in, w, b.min_delta, 0, need)
  IN  IF m > h.minis \/ Len(s.out) >= n THEN s
      ELSE IF w > IntBits \/ Len(in) - s.p < BytesFor(need * w) \/ ~d.ok THEN Bad
      ELSE DecodeMinis([d EXCEPT !.p = Lesser(@ + (h.per_mini * w) \div ByteBits, Len(in))],
                       in, h, b, m + 1, n)

RECURSIVE DecodeBlocks(_, _, _, _)
DecodeBlocks(s, in, h, n) ==
  LET z == varint_u64(in, s.p)
      b == [min_delta |-> Unsigned(zigzag_decode(z.value)), widths |-> z.next]
  IN  IF ~s.ok \/ Len(s.out) >= n THEN s
      ELSE IF z.next = -1 \/ Len(in) - z.next < h.minis THEN Bad
      ELSE DecodeBlocks(DecodeMinis([s EXCEPT !.p = z.next + h.minis], in, h, b, 1, n), in, h, n)

\* The four numbers a stream starts with: block size, miniblocks, count, first value.
Header(in) ==
  FoldLeft(LAMBDA h, i : IF h.next = -1 THEN h
                         ELSE LET v == varint_u64(in, h.next)
                              IN  [next |-> v.next, v |-> [h.v EXCEPT ![i] = v.value]],
           [next |-> 0, v |-> <<0, 0, 0, 0>>], <<1, 2, 3, 4>>)

DecodeAfter(h, in, n) ==
  LET size     == h.v[1]
      minis    == h.v[2]
      per_mini == size \div minis
      first    == Unsigned(zigzag_decode(h.v[4]))
  IN  IF h.next = -1 THEN Bad
      ELSE IF size = 0 \/ size % DeltaBlock # 0 \/ minis = 0 THEN Bad
      ELSE IF size % minis # 0 \/ per_mini % PerMini # 0 THEN Bad
      ELSE IF size > MaxDeltaBlock \/ h.v[3] < n THEN Bad
      ELSE IF n = 0 THEN [ok |-> TRUE, p |-> h.next, last |-> 0, out |-> <<>>]
      ELSE DecodeBlocks([ok |-> TRUE, p |-> h.next, last |-> first,
                         out |-> <<Signed(first, IntBits)>>],
                        in, [minis |-> minis, per_mini |-> per_mini], n)

\* The first n values of the stream at the front of `in`; p is what they used.
delta_binary_packed(in, n) == DecodeAfter(Header(in), in, n)

-----------------------------------------------------------------------------
(* Byte arrays.                                                            *)

delta_length_encode(vals) ==
  IF \E i \in DOMAIN vals : Len(vals[i]) > MaxInt THEN [ok |-> FALSE, out |-> <<>>]
  ELSE [ok |-> TRUE, out |-> delta_binary_packed_encode([i \in DOMAIN vals |-> Len(vals[i])])
                               \o FlattenSeq(vals)]

\* Bytes value i shares with the front of its predecessor.
SharedPrefix(vals, i) ==
  IF i = 1 THEN 0
  ELSE Greatest({p \in 0 .. Lesser(Len(vals[i]), Len(vals[i - 1])) :
                   SubSeq(vals[i], 1, p) = SubSeq(vals[i - 1], 1, p)})

delta_prefix_encode(vals) ==
  LET prefix == [i \in DOMAIN vals |-> SharedPrefix(vals, i)]
      rest   == delta_length_encode([i \in DOMAIN vals |-> From(vals[i], prefix[i])])
  IN  IF \E i \in DOMAIN vals : Len(vals[i]) > MaxInt THEN [ok |-> FALSE, out |-> <<>>]
      ELSE [ok |-> rest.ok, out |-> delta_binary_packed_encode(prefix) \o rest.out]

NoViews == [ok |-> FALSE, vals |-> <<>>]

LengthsFit(lengths, room) ==
  /\ \A i \in DOMAIN lengths : lengths[i] >= 0
  /\ FoldLeft(LAMBDA t, l : t + l, 0, lengths) <= room

Cut(in, p, lengths) ==
  LET at(i) == p + FoldLeft(LAMBDA t, l : t + l, 0, SubSeq(lengths, 1, i - 1))
  IN  [i \in DOMAIN lengths |-> SubSeq(in, at(i) + 1, at(i) + lengths[i])]

CutAfter(d, in) ==
  IF ~d.ok THEN NoViews
  ELSE IF ~LengthsFit(d.out, Len(in) - d.p) THEN NoViews
  ELSE [ok |-> TRUE, vals |-> Cut(in, d.p, d.out)]

delta_length_views(in, nn) == CutAfter(delta_binary_packed(in, nn), in)

\* The next value: the prefix it shares with the one before, and its suffix.
Rebuild(vals, prefix, suffix) ==
  Append(vals, SubSeq(IF vals = <<>> THEN <<>> ELSE Last(vals), 1, prefix) \o suffix)

\* The arena's size is checked on the lengths before anything is rebuilt.
Join(prefix, len, rest, max_bytes) ==
  LET whole(i) == prefix[i] + len.out[i]
      fits == /\ LengthsFit(len.out, Len(rest) - len.p)
              /\ \A i \in DOMAIN prefix : prefix[i] >= 0
              /\ \A i \in DOMAIN prefix : prefix[i] <= (IF i = 1 THEN 0 ELSE whole(i - 1))
              /\ FoldLeft(LAMBDA t, l : t + l, 0, [i \in DOMAIN prefix |-> whole(i)]) <= max_bytes
      suffix == Cut(rest, len.p, len.out)
  IN  IF ~len.ok THEN NoViews
      ELSE IF ~fits THEN NoViews
      ELSE [ok |-> TRUE, vals |-> FoldLeft(LAMBDA vs, i : Rebuild(vs, prefix[i], suffix[i]),
                                           <<>>, [i \in DOMAIN prefix |-> i])]

JoinAfter(pre, in, nn, max_bytes) ==
  IF ~pre.ok THEN NoViews
  ELSE LET rest == From(in, pre.p)
       IN  Join(pre.out, delta_binary_packed(rest, nn), rest, max_bytes)

delta_prefix_views(in, nn, max_bytes) ==
  JoinAfter(delta_binary_packed(in, nn), in, nn, max_bytes)
=============================================================================
