--------------------------- MODULE ColumnarPages ---------------------------
(***************************************************************************)
(* Column pages, written and read.  A nullable dictionary column is built  *)
(* row by row, closed into a page of indices and a page of validity bits   *)
(* in the hybrid encoding, and read back in batches of any size by any of  *)
(* the decoder's calls; a page of another writer is read the same way.  A  *)
(* compressed block is decoded element by element.  The kernels without    *)
(* state of their own are applied to one input at a time (a sample).       *)
(* Writing, decoding a block and taking a sample share nothing, so one     *)
(* behaviour does one of them.                                             *)
(***************************************************************************)
EXTENDS RleHybrid, ColumnValues, DeltaPacked, Fsst, FastLanes

CONSTANTS Values,          \* what a row holds
          Null,            \* a row that holds nothing
          MaxRows,         \* rows of a column
          MaxNulls,        \* of which null
          MaxBatch,        \* values of one read
          MaxClears,       \* dictionaries dropped before the page is closed
          ForeignStreams,  \* <<bytes, width>> pages of another writer
          Blocks,          \* [format, elems, in_size, out_size, declared] compressed blocks
          Samples,         \* kind -> the inputs its kernels are applied to
          Schema           \* [outer, inner, leaf] nodes of a nested column

VARIABLES column, block, sample
vars == <<column, block, sample>>

NoColumn == [phase |-> "write", rows |-> <<>>, dict |-> NoDictionary, idx |-> <<>>,
             clears |-> 0, dec |-> rle_bp_decoder(<<>>, 0), pos |-> 0,
             batch |-> [vals |-> <<>>, short |-> FALSE],
             vdec |-> rle_bp_decoder(<<>>, 1), bits |-> <<>>, at |-> 0]
NoBlock  == [status |-> "none"]
NoSample == [kind |-> "none"]

Init == column = NoColumn /\ block = NoBlock /\ sample = NoSample

-----------------------------------------------------------------------------
(* Writing a column.                                                       *)

Writing == column.phase = "write" /\ block = NoBlock /\ sample = NoSample
Validity == [i \in DOMAIN column.rows |-> Bit(column.rows[i] # Null)]
Dense == SelectSeq(column.rows, LAMBDA r : r # Null)

AddNull ==
  /\ Writing /\ Len(column.rows) < MaxRows
  /\ Len(column.rows) - Len(Dense) < MaxNulls
  /\ column' = [column EXCEPT !.rows = Append(@, Null)]
  /\ UNCHANGED <<block, sample>>

AddValue(v) ==
  /\ Writing /\ Len(column.rows) < MaxRows
  /\ LET i == index_of(column.dict, v)
     IN  column' = [column EXCEPT !.rows = Append(@, v), !.dict = i.t, !.idx = Append(@, i.index)]
  /\ UNCHANGED <<block, sample>>

\* The next column chunk reuses the dictionary object.
NextChunk ==
  /\ Writing /\ column.rows # <<>> /\ column.clears < MaxClears
  /\ column' = [NoColumn EXCEPT !.dict = clear(column.dict), !.clears = column.clears + 1]
  /\ UNCHANGED <<block, sample>>

IndexWidth(t) == bit_width(Len(t.values) - 1)

\* The page is written and the writer is done with its dictionary.
ClosePage ==
  /\ Writing /\ column.idx # <<>>
  /\ LET n == Len(column.rows)
         w == IndexWidth(column.dict)
     IN  column' = [column EXCEPT
           !.phase = "read",
           !.dec   = rle_bp_decoder(rle_hybrid_encode(column.idx, w), w),
           !.vdec  = rle_bp_decoder(rle_bitmap_encode(FromBits(Validity), n), 1),
           !.bits  = Copies(0, BytesFor(n) * ByteBits),
           !.dict  = NoDictionary, !.clears = 0]
  /\ UNCHANGED <<block, sample>>

-----------------------------------------------------------------------------
(* What a hybrid stream holds, run after run, up to `cap` values: the      *)
(* format, independently of how the decoder reads it.                      *)

RECURSIVE StreamFrom(_, _, _, _, _)
StreamFrom(in, p, width, out, cap) ==
  LET h     == varint_u64(in, p)
      rest  == Bits(From(in, h.next))
      n     == h.value \div 2
      count == IF width = 0 THEN n * ByteBits
               ELSE Lesser(n * ByteBits, Len(rest) \div width)
      run   == [k \in 1 .. Lesser(count, cap) |->
                  Number(SubSeq(rest, (k - 1) * width + 1, k * width))]
      bytes == BytesFor(width)
      v     == Number(SubSeq(rest, 1, bytes * ByteBits))
  IN  IF Len(out) >= cap THEN SubSeq(out, 1, cap)
      ELSE IF p >= Len(in) \/ h.next = -1 THEN out
      ELSE IF h.value % 2 = 1
        THEN StreamFrom(in, Lesser(h.next + n * width, Len(in)), width, out \o run, cap)
      ELSE IF Len(rest) < bytes * ByteBits \/ v >= 2^width THEN out
      ELSE StreamFrom(in, h.next + bytes, width, out \o Copies(v, Lesser(n, cap)), cap)

\* A page of another writer: what it holds stands for the indices.
OpenForeign ==
  /\ Writing /\ column = NoColumn
  /\ \E s \in ForeignStreams :
       column' = [column EXCEPT !.phase = "read", !.dec = rle_bp_decoder(s[1], s[2]),
                                !.idx = StreamFrom(s[1], 0, s[2], <<>>, MaxRows)]
  /\ UNCHANGED <<block, sample>>

-----------------------------------------------------------------------------
(* Reading it back: first the validity bits, then the indices, in batches. *)

BitsLeft == column.phase = "read" /\ column.at < Len(column.rows)
Reading == column.phase = "read" /\ ~BitsLeft /\ column.pos < MaxRows

ReadBits(n) ==
  /\ BitsLeft /\ n <= Len(column.rows) - column.at
  /\ \E r \in {rle_bitmap(column.vdec, n, column.bits, column.at)} :
       column' = [column EXCEPT !.vdec = r.d, !.bits = r.bits, !.at = @ + n,
                                !.phase = IF r.ok THEN @ ELSE "failed"]
  /\ UNCHANGED <<block, sample>>

\* A call that took `count` of the n values it could have, and delivered `vals`.
Deliver(d, vals, count, n) ==
  column' = [column EXCEPT !.dec = d, !.pos = @ + count,
                           !.batch = [vals |-> vals, short |-> count < n]]

ReadGet(n) ==
  /\ Reading
  /\ \E g \in {get(column.dec, n)} : Deliver(g.d, g.out, Len(g.out), n)
  /\ UNCHANGED <<block, sample>>

\* A run may be shorter than what was asked for.
ReadRun(n) ==
  /\ Reading
  /\ \E r \in {next_run(column.dec, n)} :
       LET vals == RunValues(r, column.dec.width)
       IN  Deliver(r.d, vals, Len(vals), IF r.found THEN r.count ELSE n)
  /\ UNCHANGED <<block, sample>>

ReadSkip(n) ==
  /\ Reading
  /\ \E s \in {skip(column.dec, n)} : Deliver(s.d, <<>>, s.done, n)
  /\ UNCHANGED <<block, sample>>

-----------------------------------------------------------------------------
(* Blocks and samples.                                                     *)

\* A Snappy block starts with the length of its output; LZ4 has no preamble.
\* Positions count from behind it.
Opened(b) == IF b.format = "snappy" /\ b.declared # b.out_size THEN "preamble" ELSE "open"

OpenBlock ==
  /\ Writing /\ column = NoColumn
  /\ \E b \in Blocks :
       block' = [status |-> Opened(b), format |-> b.format, elems |-> b.elems,
                 in_size |-> b.in_size, declared |-> b.declared,
                 out |-> [i \in 1 .. b.out_size |-> Junk], size |-> b.out_size,
                 ip |-> 0, op |-> 0, k |-> 1]
  /\ UNCHANGED <<column, sample>>

\* The end of a Snappy block: the output must be full.
SnappyEnd(b) == [b EXCEPT !.status = IF b.op = Len(b.out) THEN "ok" ELSE "short"]

SnappyStep ==
  /\ block.status = "open" /\ block.format = "snappy"
  /\ block' = IF block.ip >= block.in_size THEN SnappyEnd(block)
              ELSE snappy_step(block, block.elems[block.k])
  /\ UNCHANGED <<column, sample>>

Lz4Step ==
  /\ block.status = "open" /\ block.format = "lz4"
  /\ block' = lz4_step(block, block.elems[block.k])
  /\ UNCHANGED <<column, sample>>

Take ==
  /\ Writing /\ column = NoColumn
  /\ \E kind \in DOMAIN Samples : \E x \in Samples[kind] : sample' = [kind |-> kind, x |-> x]
  /\ UNCHANGED <<column, block>>

Next ==
  \/ AddNull \/ (\E v \in Values : AddValue(v)) \/ NextChunk \/ ClosePage
  \/ OpenForeign
  \/ \E n \in 1 .. MaxRows : ReadBits(n)
  \/ \E n \in 1 .. MaxBatch : ReadGet(n)
  \/ \E n \in 1 .. MaxBatch : ReadRun(n)
  \/ \E n \in 1 .. MaxBatch : ReadSkip(n)
  \/ OpenBlock \/ SnappyStep \/ Lz4Step
  \/ Take

Spec == Init /\ [][Next]_vars

-----------------------------------------------------------------------------
(* Columns.                                                                *)

\* The dictionary builders are exact: a row's index denotes its value through
\* growth, collisions and reuse after clear(); entries are distinct, at most
\* half the slots are taken, every entry is found again by its probe, and
\* bytes() is their size (index_of, grow, clear).
DictionaryIsExact ==
  LET t == column.dict
  IN  column.phase = "write" /\ column.rows # <<>> =>
        /\ check_indices(column.idx, Len(t.values))
        /\ gather_fixed(t.values, column.idx) = Dense
        /\ IsInjective(t.values)
        /\ 2 * Len(t.values) <= Len(t.slots)
        /\ \A i \in DOMAIN t.values : index_of(t, t.values[i]).index = i - 1
        /\ t.bytes = Len(FlattenSeq(t.values))

\* Any interleaving of get, next_run and skip in batches of any size delivers
\* what the page holds, value for value and position by position, and a call
\* delivers less than it was asked for only at the end of the data
\* (rle_bp_decoder: "Interleaves correctly with get()").
BatchesAgree ==
  LET b    == column.batch
      from == column.pos - Len(b.vals)
      held == Len(column.idx)
  IN  column.phase = "read" =>
        /\ \A i \in DOMAIN b.vals :
             from + i <= held => b.vals[i] = column.idx[from + i]
        /\ b.short => column.pos >= Lesser(held, MaxRows)
        /\ held < MaxRows /\ column.rows = <<>> => column.pos <= held

\* The validity bits of a page come back in batches of any size, including
\* ones that resume a packed run in the middle of a byte, and no bit outside a
\* batch is touched (rle_bitmap_encode, rle_bitmap, copy_bits, set_bits).
BitmapReadsBack ==
  /\ column.phase # "failed"
  /\ column.phase = "read" =>
       \A i \in DOMAIN column.bits :
         column.bits[i] = IF i <= column.at THEN Validity[i] ELSE 0

-----------------------------------------------------------------------------
(* Blocks.  The reference copies one byte at a time.                       *)

Repeated(o, offset, len) ==
  FoldLeft(LAMBDA a, i : Append(a, a[Len(a) + 1 - offset]), o, [i \in 1 .. len |-> i])

PlainSnappy(o, e) == IF e.lit THEN o \o e.bytes ELSE Repeated(o, e.offset, e.len)
PlainLz4(o, e, ends) ==
  IF ends THEN o \o e.bytes ELSE Repeated(o \o e.bytes, e.offset, e.len)

\* What the elements before number k stand for; an LZ4 block that ended did so
\* after the literals of its last one.
PlainOutput(b) ==
  FoldLeft(LAMBDA o, i : IF b.format = "snappy" THEN PlainSnappy(o, b.elems[i])
                         ELSE PlainLz4(o, b.elems[i], b.status = "ok" /\ i = b.k - 1),
           <<>>, [i \in 1 .. b.k - 1 |-> i])

\* The fast copies never show: the bytes decoded so far are those the elements
\* stand for, whatever the moves wrote past them, and nothing is stored outside
\* the output (copy_match_wild: "the overshoot never feeds garbage into the
\* result").
BlockOutputIsExact ==
  block.status # "none" =>
    /\ Len(block.out) = block.size
    /\ block.status \in {"open", "ok", "short"} =>
         SubSeq(block.out, 1, block.op) = PlainOutput(block)

\* Where element i starts and what precedes it in the output.
ElemSize(b, i) ==
  LET e == b.elems[i]
  IN  IF b.format = "snappy" THEN SnappySize(e)
      ELSE 1 + ExtBytes(Len(e.bytes)) + Len(e.bytes)
             + (IF i = Len(b.elems) THEN 0 ELSE 2 + ExtBytes(e.len - MinMatch))
Produced(b, i) ==
  FoldLeft(LAMBDA n, j : n + (IF b.format = "lz4" THEN Len(b.elems[j].bytes) + b.elems[j].len
                              ELSE IF b.elems[j].lit THEN Len(b.elems[j].bytes) ELSE b.elems[j].len),
           0, [j \in 1 .. i |-> j])
OffsetsInside(b, m) ==
  \A i \in 1 .. m :
    IF b.format = "snappy" THEN b.elems[i].lit \/ b.elems[i].offset \in 1 .. Produced(b, i - 1)
    ELSE b.elems[i].offset \in 1 .. Produced(b, i - 1) + Len(b.elems[i].bytes)

\* A Snappy input of whole elements whose copies stay in the output they have
\* and whose output fills the buffer; an LZ4 input that ends after literals.
WellFormed(b) ==
  \E m \in 0 .. Len(b.elems) :
    LET start(i) == FoldLeft(LAMBDA n, j : n + ElemSize(b, j), 0, [j \in 1 .. i |-> j])
    IN  IF b.format = "snappy"
          THEN /\ b.in_size = start(m) /\ OffsetsInside(b, m)
               /\ Produced(b, m) = b.size /\ b.declared = b.size
          ELSE /\ m > 0 /\ OffsetsInside(b, m - 1)
               /\ b.in_size = start(m - 1) + 1 + ExtBytes(Len(b.elems[m].bytes))
                                 + Len(b.elems[m].bytes)
               /\ Produced(b, m - 1) + Len(b.elems[m].bytes) <= b.size

\* The decoders accept exactly the well-formed blocks: no fast path lets an
\* offset, a length or a cut input through that the exact path refuses, and
\* none refuses a good one.
BlockVerdictIsRight ==
  block.status \notin {"none", "open"} => (block.status = "ok" <=> WellFormed(block))

-----------------------------------------------------------------------------
(* Samples of bits and numbers.                                            *)

\* Packed values come back, the packed size is exact, and the unchecked word
\* loads of the fast path stay inside the input (pack_bits, unpack_bits).
PackedReadsBack ==
  sample.kind = "pack" =>
    LET p == pack_bits(sample.x.vals, sample.x.width)
        u == unpack_bits(p \o sample.x.tail, sample.x.width, Len(sample.x.vals))
    IN  /\ Len(p) = BytesFor(Len(sample.x.vals) * sample.x.width)
        /\ u.ok /\ u.vals = sample.x.vals
        /\ u.reach <= Len(p) + Len(sample.x.tail)
        /\ p # <<>> => ~unpack_bits(Front(p), sample.x.width, Len(sample.x.vals)).ok

\* copy_bits moves exactly n bits to any bit position, reads no byte the input
\* does not have, and keeps every other bit of the destination; set_bits sets
\* exactly its n bits and count_bits counts exactly those (the partial bytes and
\* words at both ends).
CopyKeepsNeighbours ==
  sample.kind = "copy" =>
    LET x == sample.x
        c == copy_bits(x.in, x.n, x.bits, x.at)
        f == set_bits(x.bits, x.at, x.n)
    IN  /\ c.ok => /\ c.reach <= BytesFor(x.n)
                   /\ \A i \in DOMAIN x.bits :
                        c.bits[i] = IF i - x.at \in 1 .. x.n THEN Bits(x.in)[i - x.at]
                                    ELSE x.bits[i]
        /\ \A i \in DOMAIN x.bits : f[i] = IF i - x.at \in 1 .. x.n THEN 1 ELSE x.bits[i]
        /\ count_bits(c.bits, x.at, x.n) = Ones(c.bits, x.at, x.at + x.n)

\* Delta-packed integers and byte arrays come back whatever their differences
\* (which wrap), any prefix of them too, and a whole stream is used up to its
\* last byte, where the bytes that follow it begin (delta_binary_packed,
\* delta_length_views, delta_prefix_views).
DeltaReadsBack ==
  /\ sample.kind = "ints" =>
       \A page \in {delta_binary_packed_encode(sample.x)} :
         /\ \A n \in 0 .. Len(sample.x) :
              \A d \in {delta_binary_packed(page \o <<1>>, n)} :
                /\ d.ok /\ d.out = SubSeq(sample.x, 1, n)
                /\ n = Len(sample.x) => d.p = Len(page)
         /\ ~delta_binary_packed(page, Len(sample.x) + 1).ok
  /\ sample.kind = "strings" =>
       \A length \in {delta_length_encode(sample.x)}, prefix \in {delta_prefix_encode(sample.x)} :
       LET n     == Len(sample.x)
           total == Len(FlattenSeq(sample.x))
       IN  /\ length.ok /\ delta_length_views(length.out, n) = [ok |-> TRUE, vals |-> sample.x]
           /\ prefix.ok /\ delta_prefix_views(prefix.out, n, total) = [ok |-> TRUE, vals |-> sample.x]
           /\ total > 0 => ~delta_prefix_views(prefix.out, n, total - 1).ok

\* Splitting values into byte streams and back is the identity, and widening a
\* big-endian number keeps its value (byte_stream_split, sign_extend_be).
BytesKeepTheirValue ==
  sample.kind = "bytes" =>
    LET b == sample.x
        signed(little) == Signed(Number(Bits(little)), Len(little) * ByteBits)
    IN  /\ \A w \in 1 .. Len(b) : Len(b) % w = 0 =>
             LET e == byte_stream_split_encode(b, w, Len(b) \div w)
             IN  e.ok /\ byte_stream_split(e.out, w, Len(b) \div w).out = b
        /\ \A w \in Len(b) .. Len(b) + 2 :
             signed(sign_extend_be(b, w)) = signed(Reverse(b))

-----------------------------------------------------------------------------
(* Samples of slots and values.                                            *)

\* Spreading dense values over their slots in place puts the k-th value in the
\* k-th valid slot and zero in the null ones, whatever blocks it moves
\* (spread_nulls; scatter_bits does the same for bits).
SpreadIsSlotOrder ==
  sample.kind = "validity" =>
    LET bm    == sample.x
        nn    == count_bits(bm, 0, Len(bm))
        spread == spread_nulls([i \in DOMAIN bm |-> i], nn, bm)
    IN  /\ \A r \in DOMAIN bm : spread[r] = IF bm[r] = 1 THEN Ones(bm, 0, r) ELSE Zero
        /\ LET dense == [i \in 1 .. nn |-> i % 2]
                out   == scatter_bits(dense, bm, Copies(0, Len(bm) + 1), 1)
            IN  \A r \in DOMAIN bm : out[r + 1] = IF bm[r] = 1 THEN dense[Ones(bm, 0, r)] ELSE 0

\* The value kernels agree: from length-prefixed input, from a dictionary and
\* from views, valid slots hold the values back to back, null slots repeat the
\* offset, and the fixed-size copies store nothing past the slack that callers
\* provide (append_length_prefixed, append_gathered, append_views).
ValuesLandInSlots ==
  sample.kind = "slots" =>
    LET vals  == sample.x.vals
        valid == sample.x.validity
        data  == FlattenSeq(vals)
        room(n) == <<7>> \o [i \in 1 .. n |-> Junk]
        ends(r) == 1 + Len(FlattenSeq(SubSeq(vals, 1, Ones(valid, 0, r))))
        lands(o, n) == /\ o.ok /\ SubSeq(o.data, 1, o.cur) = <<7>> \o data
                       /\ o.ends = [r \in DOMAIN valid |-> ends(r)]
                       /\ Len(o.data) = 1 + n
    IN  /\ \A page \in {FlattenSeq([i \in DOMAIN vals |-> put_le(Len(vals[i]), LengthBytes)
                                                             \o vals[i]])} :
             LET n       == Len(page) + kValueSlack
                 into(m) == append_length_prefixed(page, valid, room(n), 1, m)
             IN  /\ lands(into(1 + Len(data)), n)
                 /\ data # <<>> => ~into(Len(data)).ok
                 /\ length_prefixed_views(page, Len(vals))
                      = [ok |-> TRUE, used |-> Len(page), views |-> vals]
        /\ \A dict \in {FoldLeft(LAMBDA t, v : index_of(t, v).t, NoDictionary, vals)} :
             \A idx \in {[i \in DOMAIN vals |-> index_of(dict, vals[i]).index]} :
               LET off == OffsetsOf(dict.values)
                   n   == gathered_size(off, idx) + kValueSlack
               IN  lands(append_gathered(FlattenSeq(dict.values), off, idx, valid, room(n), 1), n)
        /\ lands(append_views(vals, valid, room(Len(data)), 1), Len(data))

\* The statistics of a column bound every value that is not null or NaN, in an
\* order that puts -0 below +0, and are absent exactly when there is none
\* (compute_stats); those of byte strings do in lexicographic order.
StatsBoundValues ==
  /\ sample.kind = "floats" =>
       LET s    == compute_stats(sample.x.vals, sample.x.validity)
           seen == {sample.x.vals[i] : i \in {j \in DOMAIN sample.x.vals :
                      sample.x.validity[j] = 1 /\ sample.x.vals[j] # NaN}}
           leq(a, b) == a[1] < b[1] \/ (a[1] = b[1] /\ a[2] <= b[2])
       IN  /\ s.has_minmax <=> seen # {}
           /\ \A v \in seen : leq(s.min, v) /\ leq(v, s.max)
           /\ \A e \in {s.min, s.max} : s.has_minmax => \E v \in seen : v[1] = e[1]
           /\ s.null_count + Ones(sample.x.validity, 0, Len(sample.x.validity))
                = Len(sample.x.vals)
  /\ sample.kind = "strings" =>
       LET s == compute_binary_stats(sample.x)
       IN  \A i \in DOMAIN sample.x : ~less(sample.x[i], s.min) /\ ~less(s.max, sample.x[i])

\* The UTF-8 form of a code point.
Encoded(cp) ==
  IF cp < 128 THEN <<cp>>
  ELSE IF cp < 2048 THEN <<192 + cp \div 64, 128 + (cp % 64)>>
  ELSE IF cp < 65536 THEN <<224 + cp \div 4096, 128 + ((cp \div 64) % 64), 128 + (cp % 64)>>
  ELSE <<240 + cp \div 262144, 128 + ((cp \div 4096) % 64), 128 + ((cp \div 64) % 64),
         128 + (cp % 64)>>

\* A code point's bytes are well formed unless it is a surrogate or too large,
\* and no part of them is; well-formed bytes are the shortest form of what they
\* encode; an ASCII character in front, which the word skip takes with what
\* follows it, changes no verdict; and in well-formed data the values cut at a
\* start are each well formed exactly when it is not on a continuation byte
\* (valid_utf8, utf8_starts_ok).
Utf8Splits ==
  /\ sample.kind = "point" =>
       /\ valid_utf8(Encoded(sample.x)) <=> sample.x \notin 55296 .. 57343 /\ sample.x <= 1114111
       /\ \A k \in 1 .. Len(Encoded(sample.x)) - 1 :
            ~valid_utf8(SubSeq(Encoded(sample.x), 1, k)) /\ ~valid_utf8(From(Encoded(sample.x), k))
  /\ sample.kind = "text" =>
       /\ valid_utf8(<<65>> \o sample.x) <=> valid_utf8(sample.x)
       /\ valid_utf8(sample.x) /\ Len(sample.x) > 1 /\ Len(sample.x) = Followers(sample.x[1]) + 1 =>
            Encoded(PointOf(sample.x)) = sample.x
       /\ \A k \in 0 .. Len(sample.x) : valid_utf8(sample.x) =>
            (utf8_starts_ok(sample.x, <<k>>)
               <=> valid_utf8(SubSeq(sample.x, 1, k)) /\ valid_utf8(From(sample.x, k)))

-----------------------------------------------------------------------------
(* Nested records.  A list is [null, items]; the leaves are bits.          *)

\* The level entries <<rep, def>> that stand for rows of lists of lists.
InnerEntries(l, rep) ==
  IF l.null THEN <<<<rep, 2>>>> ELSE IF l.items = <<>> THEN <<<<rep, 3>>>>
  ELSE [j \in DOMAIN l.items |-> <<IF j = 1 THEN rep ELSE 2, 4 + l.items[j]>>]
RowEntries(l) ==
  IF l.null THEN <<<<0, 0>>>> ELSE IF l.items = <<>> THEN <<<<0, 1>>>>
  ELSE FlattenSeq([i \in DOMAIN l.items |-> InnerEntries(l.items[i], IF i = 1 THEN 0 ELSE 1)])

Reps(entries) == [i \in DOMAIN entries |-> entries[i][1]]
Defs(entries) == [i \in DOMAIN entries |-> entries[i][2]]
OffsetsFrom(lists) ==
  [i \in 1 .. Len(lists) + 1 |-> Len(FlattenSeq([j \in 1 .. i - 1 |-> lists[j].items]))]

\* Records come back from the levels of one leaf: every list at both depths
\* has its validity and its elements, the struct view of a node agrees with its
\* list view, and the leaf has its slots (list_slots, struct_slots, level_slots,
\* with the levels through encode_levels and decode_levels).
RecordsAssemble ==
  sample.kind = "rows" =>
    LET rows  == sample.x
        inner == FlattenSeq([i \in DOMAIN rows |-> rows[i].items])
        es    == FlattenSeq([i \in DOMAIN rows |-> RowEntries(rows[i])])
        valid(lists) == [k \in DOMAIN lists |-> Bit(~lists[k].null)]
        through(levels, max) == decode_levels(encode_levels(levels, max), max, Len(es)).levels
    IN  \A rep \in {through(Reps(es), 2)}, def \in {through(Defs(es), 5)} :
        \A o \in {list_slots(rep, def, Schema.outer, Len(rows))} :
        \A i \in {list_slots(rep, def, Schema.inner, o.elems)},
           s \in {struct_slots(rep, def, Schema.inner, o.elems)},
           leaf \in {level_slots(def, Schema.leaf.slot_level, Schema.leaf.max_def)} :
          /\ o.ok /\ o.offsets = OffsetsFrom(rows) /\ o.validity = valid(rows)
          /\ i.ok /\ i.offsets = OffsetsFrom(inner) /\ i.validity = valid(inner)
          /\ s.ok /\ s.validity = i.validity /\ s.nulls = i.nulls
          /\ leaf.slots = i.elems
          /\ leaf.validity = FlattenSeq([k \in DOMAIN inner |-> inner[k].items])

\* Levels that no record has are never assembled into a tree whose parts
\* disagree: if both lists of a nested column accept them, the offsets of each
\* rise from zero to its number of elements, and those of the outer list are
\* the slots of the inner one.  The leaf is not among the parts: level_slots is
\* told no number to expect, and an entry that goes on in an open list with a
\* definition level below its elements counts for the list and not for the leaf.
AcceptedTreesAgree ==
  sample.kind = "levels" =>
    \A n \in 0 .. Len(sample.x) :
      LET slots(node, m) == list_slots(Reps(sample.x), Defs(sample.x), node, m)
          rises(l, m) == /\ Len(l.offsets) = m + 1
                         /\ l.offsets[1] = 0 /\ Last(l.offsets) = l.elems
                         /\ \A k \in 1 .. m : l.offsets[k] <= l.offsets[k + 1]
      IN  \A o \in {slots(Schema.outer, n)} : o.ok =>
            /\ rises(o, n)
            /\ \A k \in 1 .. n : o.validity[k] = 0 => o.offsets[k] = o.offsets[k + 1]
            /\ \A i \in {slots(Schema.inner, o.elems)} : i.ok => rises(i, o.elems)

-----------------------------------------------------------------------------
(* Strings and lanes.                                                      *)

\* A trained table compresses every value to at most twice its size and decodes
\* it again through its serialized form, into the space max_decoded_size
\* promises; the lookups train() builds and the plain ones give the same codes.
\* A table that is cut, or of which a byte that says what it holds is zeroed, is
\* refused, except for the count and the encoder switch: without that, values
\* pass through (train, compress, serialize, parse_symbol_table, decode).
FsstReadsBack ==
  sample.kind = "fsst" =>
    \A chosen \in make_sample(sample.x.values) :
      \A e \in {train(chosen)} :
      \A table \in {serialize(e)} : \A t \in {parse_symbol_table(table)} :
        /\ Len(e.symbols) <= kMaxSymbols /\ IsInjective(e.symbols)
        /\ t.ok /\ ~parse_symbol_table(Front(table)).ok
        /\ \A i \in DOMAIN table : table[i] # 0 =>
             \A z \in {parse_symbol_table([table EXCEPT ![i] = 0])} :
               /\ z.ok <=> i \in {CountAt, SwitchAt} \/ i \in SymbolBytes(Len(e.symbols))
               /\ z.ok => (z.passthrough <=> i = SwitchAt)
        /\ \A p \in sample.x.probes : \A c \in {compress(e, p)} :
             \A d \in {decode(t, c, [i \in 1 .. max_decoded_size(Len(c)) |-> Junk])} :
               /\ Len(c) <= 2 * Len(p) /\ c = compress_plain(e, p)
               /\ d.ok /\ SubSeq(d.out, 1, d.size) = p
               /\ Len(d.out) = max_decoded_size(Len(c))

\* A FastLanes block unpacks to the low bits of every value it was packed from,
\* at every width of every word type; the rows and lanes of a block index each
\* of its 1024 values once, and a packed block has the announced size
\* (pack_1024, unpack_1024, fl_index).
LanesReadBack ==
  sample.kind = "lanes" =>
    LET bits  == sample.x.bits
        width == sample.x.width
        words == pack_1024(bits, width)
    IN  /\ Len(words) * lanes(bits) = packed_words_1024(bits, width)
        /\ unpack_1024(bits, width, words)
             = [r \in 1 .. bits |-> Masked(RowValue(bits, r - 1), width)]
        /\ width = 0 => {fl_index(row, lane) : row \in 0 .. bits - 1, lane \in 0 .. lanes(bits) - 1}
                           = 0 .. kBlock - 1

\* What is written about a column is true of it: its dictionary and its
\* statistics (string_dictionary, compute_stats).
ColumnIsDescribed == DictionaryIsExact /\ StatsBoundValues

\* An RLE page reads back through any mix of calls, as values and as bits
\* (rle_bp_decoder, rle_bitmap).
PagesReadBack == BatchesAgree /\ BitmapReadsBack

\* The block decoders are exact in what they write and in what they refuse
\* (snappy_decompress, lz4_block_decompress).
BlocksAreExact == BlockOutputIsExact /\ BlockVerdictIsRight

\* Every encoding reads back: packed bits, deltas, byte streams, FSST codes and
\* FastLanes blocks.
EncodingsReadBack ==
  /\ PackedReadsBack
  /\ DeltaReadsBack
  /\ BytesKeepTheirValue
  /\ FsstReadsBack
  /\ LanesReadBack

\* Values go to their own places and nothing else changes: bits, spread values,
\* variable-length values, characters at string cuts (copy_bits, spread_nulls,
\* append_length_prefixed, utf8_starts_ok).
PlacesAreKept ==
  /\ CopyKeepsNeighbours
  /\ SpreadIsSlotOrder
  /\ ValuesLandInSlots
  /\ Utf8Splits

\* Levels become the records they stand for, or consistent lists at the least
\* (list_slots, struct_slots, level_slots).
LevelsAreTrees == RecordsAssemble /\ AcceptedTreesAgree
=============================================================================
