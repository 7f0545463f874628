------------------------------ MODULE Protobuf ------------------------------
(***************************************************************************)
(* Protobuf: include/nanom/protobuf.hpp (reading) and protobuf_encode.hpp  *)
(* (writing).  Scalar types have kind bool, int, uint, sint, enum or fixed *)
(* and a width w; fixed stands for pb_fixed and for float and double, as   *)
(* bit patterns.  Reading operators answer as those of ThriftCompact; the  *)
(* codec tells faults apart by their text only, which is left out.         *)
(***************************************************************************)
EXTENDS ThriftCompact

wire == [varint |-> 0, i64 |-> 1, len |-> 2, i32 |-> 5]

wire_of(t) ==
  CASE t.k = "fixed" -> wire[t.w]
    [] t.k \in {"binary", "message", "empty", "lazy"} -> wire.len
    [] t.k \in {"bool", "int", "uint", "sint", "enum"} -> wire.varint

packable(t) == t.k \notin {"binary", "message", "empty", "lazy"}

\* The rules it checks at compile time; a pb_box is an optional here.
check_model(M) == \A i \in DOMAIN M : M[i].t.k \in {"vector", "lazy"} => ~M[i].req

Bad(p) == fail("malformed", p, 0)

-----------------------------------------------------------------------------
(* Reading.                                                                *)

AsBad(r) == IF Good(r) THEN r ELSE Bad(r.p)
read_varint(b, p, e) == AsBad(varint(b, p, e))

\* A length and that many bytes: [from, to) of the input.
read_delimited(b, p, e) ==
  Then(read_varint(b, p, e), LAMBDA n :
    IF n.v > e - n.p THEN Bad(n.p) ELSE Ok(n.p + n.v, [from |-> n.p, to |-> n.p + n.v]))

read_fixed(b, p, e, n) == IF e - p < n THEN Bad(p) ELSE Ok(p + n, LittleEndian(SubSeq(b, p + 1, p + n)))

skip_value(b, p, e, wt) ==
  CASE wt = wire.varint -> read_varint(b, p, e)
    [] wt = wire.i64 -> read_fixed(b, p, e, FixedBytes["i64"])
    [] wt = wire.i32 -> read_fixed(b, p, e, FixedBytes["i32"])
    [] wt = wire.len -> read_delimited(b, p, e)
    [] OTHER -> Bad(p)

\* The value of a varint field of type t.
ScalarOf(r, t) ==
  LET s == IF t.k = "sint" THEN zigzag_decode(r.v) ELSE bit_cast(r.v, Width["i64"])
  IN  IF t.k = "bool" THEN IF r.v > 1 THEN Bad(r.p) ELSE Ok(r.p, r.v = 1)
      ELSE IF t.k = "uint" THEN IF r.v >= 2^Width[t.w] THEN Bad(r.p) ELSE r
      ELSE IF Fits(s, IF t.k = "enum" THEN "i32" ELSE t.w) THEN Ok(r.p, s) ELSE Bad(r.p)

read_scalar(b, p, e, t) ==
  IF t.k = "fixed" THEN read_fixed(b, p, e, FixedBytes[t.w])
  ELSE Then(read_varint(b, p, e), LAMBDA r : ScalarOf(r, t))

RECURSIVE read_message(_, _, _, _, _, _)

RECURSIVE SkipRecords(_, _, _)
SkipRecords(b, p, e) ==
  IF p >= e THEN Ok(p, <<>>)
  ELSE Then(Then(read_varint(b, p, e), LAMBDA key :
                   IF key.v \div 8 = 0 THEN Bad(key.p) ELSE skip_value(b, key.p, e, key.v % 8)),
            LAMBDA r : SkipRecords(b, r.p, e))

\* A length-delimited value whose bytes are [p, e); old is the value before.
read_len(b, p, e, depth, t, old) ==
  CASE t.k = "binary" -> Ok(e, Region(b, p, e))
    [] t.k = "lazy" -> Ok(e, [m |-> "wire", region |-> Region(b, p, e)])
    [] t.k = "empty" -> SkipRecords(b, p, e)
    [] t.k = "message" ->
         IF depth >= max_tagged_depth THEN Bad(p)
         ELSE read_message(b, p, e, depth + 1, Models[t.m], old)

\* Every scalar in [p, e): a packed run.
RECURSIVE ReadPacked(_, _, _, _, _)
ReadPacked(b, p, e, t, vs) ==
  IF p >= e THEN Ok(p, vs)
  ELSE Then(read_scalar(b, p, e, t), LAMBDA r : ReadPacked(b, r.p, e, t, Append(vs, r.v)))

\* Unpacked records that follow one another under the same key.
RECURSIVE ReadRun(_, _, _, _, _, _)
\* Mutant of ReadRun: only the key's first byte is compared.
ReadRunFirstByte(b, p, e, t, key, vs) ==
  Then(read_scalar(b, p, e, t), LAMBDA r :
    IF e - r.p > Len(key) /\ b[r.p + 1] = key[1]
      THEN ReadRun(b, r.p + Len(key), e, t, key, Append(vs, r.v))
      ELSE Ok(r.p, Append(vs, r.v)))

ReadRun(b, p, e, t, key, vs) ==
  Then(read_scalar(b, p, e, t), LAMBDA r :
    IF e - r.p > Len(key) /\ SubSeq(b, r.p + 1, r.p + Len(key)) = key
      THEN ReadRun(b, r.p + Len(key), e, t, key, Append(vs, r.v))
      ELSE Ok(r.p, Append(vs, r.v)))

Matched(p, v) == Ok(p, [m |-> v, seen |-> TRUE])
Unmatched(r, old) == IF Good(r) THEN Ok(r.p, [m |-> old, seen |-> FALSE]) ELSE r

ReadVector(b, p, e, wt, depth, t, old, key) ==
  IF wt = wire_of(t) /\ wt = wire.len
    THEN Then(read_delimited(b, p, e), LAMBDA d :
           Then(read_len(b, d.v.from, d.v.to, depth, t, DefaultOf(t)), LAMBDA x :
             Matched(d.p, Append(old, x.v))))
  ELSE IF wt = wire_of(t)
    THEN Then(ReadRun(b, p, e, t, key, old), LAMBDA r : Matched(r.p, r.v))
  ELSE IF packable(t) /\ wt = wire.len
    THEN Then(read_delimited(b, p, e), LAMBDA d :
           IF t.k = "fixed" /\ (d.v.to - d.v.from) % FixedBytes[t.w] # 0 THEN Bad(d.v.from)
           ELSE Then(ReadPacked(b, d.v.from, d.v.to, t, old), LAMBDA r : Matched(d.p, r.v)))
  ELSE Unmatched(skip_value(b, p, e, wt), old)

\* One occurrence of the field F, whose key is already read.
read_field(b, p, e, wt, depth, F, old, key) ==
  LET inner == IF ~F.opt THEN old ELSE IF old = <<>> THEN DefaultOf(F.t) ELSE old[1]
      member(v) == IF F.opt THEN <<v>> ELSE v
  IN  IF F.t.k = "vector" THEN ReadVector(b, p, e, wt, depth, F.t.e, old, key)
      ELSE IF F.t.k = "unknown" \/ wt # wire_of(F.t) THEN Unmatched(skip_value(b, p, e, wt), old)
      ELSE IF wt = wire.len
        THEN Then(read_delimited(b, p, e), LAMBDA d :
               IF F.t.k = "lazy" /\ old.m # "none" THEN Bad(p)
               ELSE Then(read_len(b, d.v.from, d.v.to, depth, F.t, inner), LAMBDA x :
                      Matched(d.p, member(x.v))))
      ELSE Then(read_scalar(b, p, e, F.t), LAMBDA x : Matched(x.p, member(x.v)))

\* A skipped field, kept with its key for writing back.
keep_unknown(M, m, b, tag_at, p) ==
  IF has_unknown(M) THEN [m EXCEPT ![1] = @ \o Region(b, tag_at, p)] ELSE m

MaxFieldNumber == 2^(Width["i64"] - 4) - 1      \* 2^29 - 1 in the code

RECURSIVE ReadRecords(_, _, _, _, _, _, _)
ReadRecords(b, p, e, depth, M, m, seen) ==
  IF p >= e THEN IF required_mask(M) \subseteq seen THEN Ok(p, m) ELSE Bad(p)
  ELSE Then(read_varint(b, p, e), LAMBDA key :
    LET id   == key.v \div 8
        wt   == key.v % 8
        slot == IF id > IntMax("i16") THEN no_slot ELSE slot_of(M, id)
    IN  IF id = 0 \/ id > MaxFieldNumber THEN Bad(p)
        ELSE IF slot = no_slot
          THEN Then(skip_value(b, key.p, e, wt), LAMBDA u :
                 ReadRecords(b, u.p, e, depth, M, keep_unknown(M, m, b, p, u.p), seen))
        ELSE Then(read_field(b, key.p, e, wt, depth, M[slot], m[slot], Region(b, p, key.p)),
          LAMBDA r :
            IF r.v.seen
              THEN ReadRecords(b, r.p, e, depth, M, [m EXCEPT ![slot] = r.v.m], seen \cup {slot})
              ELSE ReadRecords(b, r.p, e, depth, M, keep_unknown(M, m, b, p, r.p), seen)))

read_message(b, p, e, depth, M, m) == ReadRecords(b, p, e, depth, M, m, {})

\* The whole of b as one message, merged into m.
protobuf_decode(b, M, m) == read_message(b, 0, Len(b), 0, M, m)
protobuf(b, M) == protobuf_decode(b, M, DefaultMessage(M))

pb_lazy_decode(l, M) ==
  IF l.m = "of" THEN Ok(0, l.msg) ELSE protobuf(l.region, M)

\* The records of an unknown-fields member, as pairs <<field number, wire type>>.
RECURSIVE for_each_unknown(_, _, _)
\* Mutant of for_each_unknown: of a length-delimited value only the length is skipped.
for_each_unknownInto(b, p, recs) ==
  IF p >= Len(b) THEN Ok(p, recs)
  ELSE Then(read_varint(b, p, Len(b)), LAMBDA key :
    Then(IF key.v % 8 = wire.len THEN read_varint(b, key.p, Len(b))
         ELSE skip_value(b, key.p, Len(b), key.v % 8),
         LAMBDA r : for_each_unknown(b, r.p, Append(recs, <<key.v \div 8, key.v % 8>>))))

for_each_unknown(b, p, recs) ==
  IF p >= Len(b) THEN Ok(p, recs)
  ELSE Then(read_varint(b, p, Len(b)), LAMBDA key :
    Then(skip_value(b, key.p, Len(b), key.v % 8), LAMBDA r :
      for_each_unknown(b, r.p, Append(recs, <<key.v \div 8, key.v % 8>>))))

-----------------------------------------------------------------------------
(* Writing, pass 1: every nested message is measured once, in the order    *)
(* the write pass meets them.  An answer is [w, n]: the state and a size.  *)

max_len == IntMax("i32")

varint_size(v) == Len(uleb128_encode[v])

varint_value(t, v) ==
  CASE t.k = "sint" -> zigzag_encode(v)
    [] t.k = "bool" -> IF v THEN 1 ELSE 0
    [] t.k \in {"enum", "int"} -> Wrap(v, Width["i64"])
    [] t.k = "uint" -> v

scalar_size(t, v) == IF t.k = "fixed" THEN FixedBytes[t.w] ELSE varint_size(varint_value(t, v))

is_default(t, v) == t.k \notin {"message", "empty"} /\ v = DefaultOf(t)

key_of(F, wt) == F.id * 8 + wt
KeySize(F, wt) == varint_size(key_of(F, wt))

RECURSIVE has_message(_)
has_message(t) == IF t.k = "vector" THEN has_message(t.e) ELSE t.k \in {"lazy", "message"}
has_nested(M) == \E i \in DOMAIN M : has_message(M[i].t)

RECURSIVE measure(_, _, _, _)

Sized(w, n) == [w |-> w, n |-> varint_size(n) + n]

\* Mutant of NestedSize: the size is recorded after the nested message's own
\* nested messages, not in the place reserved before them.
NestedSizeAfter(w, t, v, depth) ==
  LET r == measure(w, t.m, v, depth + 1)
  IN  Sized([r.w EXCEPT !.sizes = Append(@, r.n)], r.n)

NestedSize(w, t, v, depth) ==
  LET k == Len(w.sizes) + 1
      r == measure([w EXCEPT !.sizes = Append(@, 0)], t.m, v, depth + 1)
  IN  Sized([r.w EXCEPT !.sizes[k] = r.n], r.n)

value_size(w, t, v, depth) ==
  CASE t.k = "empty" -> [w |-> w, n |-> 1]
    [] t.k = "lazy" ->
         IF v.m = "of" THEN NestedSize(w, t, v.msg, depth)
         ELSE Sized(w, IF v.m = "wire" THEN Len(v.region) ELSE 0)
    [] t.k = "message" -> NestedSize(w, t, v, depth)
    [] t.k = "binary" -> Sized(IF Len(v) > max_len THEN SetError(w, "too long") ELSE w, Len(v))
    [] OTHER -> [w |-> w, n |-> scalar_size(t, v)]

packed_size(t, vs) == FoldLeft(LAMBDA n, v : n + scalar_size(t, v), 0, vs)

\* Whether the member holds something to write.
Written(F, v) ==
  CASE F.t.k = "vector" -> v # <<>>
    [] F.t.k = "unknown" -> FALSE
    [] F.t.k = "lazy" -> v.m # "none"
    [] OTHER -> IF F.opt THEN v # <<>> ELSE F.req \/ ~is_default(F.t, v)

\* The values of the member that have a key of their own.
Occurrences(F, v) == IF F.t.k = "vector" THEN v ELSE IF F.opt THEN v ELSE <<v>>
Element(F) == IF F.t.k = "vector" THEN F.t.e ELSE F.t
Packed(F) == F.t.k = "vector" /\ packable(F.t.e)

MeasureField(acc, F, v, depth) ==
  LET t == Element(F)
      n == packed_size(t, v)
  IN  IF ~Written(F, v) THEN acc
      ELSE IF Packed(F)
        THEN [w |-> IF n > max_len THEN SetError(acc.w, "too long") ELSE acc.w,
              n |-> acc.n + KeySize(F, wire.len) + varint_size(n) + n]
      ELSE FoldLeft(LAMBDA a, x : LET r == value_size(a.w, t, x, depth)
                                  IN  [w |-> r.w, n |-> a.n + KeySize(F, wire_of(t)) + r.n],
                    acc, Occurrences(F, v))

\* The fields from i on; after an error, which is what is reported, sizes no longer matter.
RECURSIVE MeasureFields(_, _, _, _, _)
MeasureFields(acc, M, m, depth, i) ==
  IF acc.w.err # "" \/ i > Len(M) THEN acc
  ELSE MeasureFields(MeasureField(acc, M[i], m[i], depth), M, m, depth, i + 1)

CheckLength(r, name) ==
  IF r.n > max_len /\ r.w.err = "" THEN [r EXCEPT !.w = SetError([@ EXCEPT !.message = name], "too long")]
  ELSE r

measure(w, name, m, depth) ==
  LET M == Models[name]
      unknown == IF has_unknown(M) THEN Len(m[1]) ELSE 0
  IN  IF depth > max_tagged_depth THEN [w |-> SetError(w, "too deep"), n |-> 0]
      ELSE CheckLength(MeasureFields([w |-> w, n |-> unknown], M, m, depth, 1), name)

-----------------------------------------------------------------------------
(* Pass 2: write.                                                          *)

RECURSIVE write_message(_, _, _)

write_scalar(w, t, v) ==
  IF t.k = "fixed" THEN put_fixed(w, v, FixedBytes[t.w]) ELSE put_varint(w, varint_value(t, v))

WriteNested(w, t, v) ==
  write_message([put_varint(w, w.sizes[w.next]) EXCEPT !.next = @ + 1], t.m, v)

WriteBytes(w, bs) == raw(put_varint(w, Len(bs)), bs)

pb_write_value(w, t, v) ==
  CASE t.k = "empty" -> put_varint(w, 0)
    [] t.k = "lazy" ->
         IF v.m = "of" THEN WriteNested(w, t, v.msg)
         ELSE WriteBytes(w, IF v.m = "wire" THEN v.region ELSE <<>>)
    [] t.k = "message" -> WriteNested(w, t, v)
    [] t.k = "binary" -> WriteBytes(w, v)
    [] OTHER -> write_scalar(w, t, v)

WriteMember(w0, F, i, v) ==
  LET w == [w0 EXCEPT !.field = i]
      t == Element(F)
  IN  IF ~Written(F, v) THEN w
      ELSE IF Packed(F)
        THEN FoldLeft(LAMBDA x, y : write_scalar(x, t, y),
                      put_varint(put_varint(w, key_of(F, wire.len)), packed_size(t, v)), v)
      ELSE FoldLeft(LAMBDA x, y : pb_write_value(put_varint(x, key_of(F, wire_of(t))), t, y),
                    w, Occurrences(F, v))

\* The declared fields from i on.
RECURSIVE WriteMembers(_, _, _, _)
WriteMembers(w, M, m, i) ==
  IF w.err # "" \/ i > Len(M) THEN w ELSE WriteMembers(WriteMember(w, M[i], i, m[i]), M, m, i + 1)

WriteUnknown(w, M, m) == IF has_unknown(M) THEN raw([w EXCEPT !.field = 0], m[1]) ELSE w

write_message(w0, name, m) ==
  Unless(WriteUnknown(WriteMembers([w0 EXCEPT !.message = name], Models[name], m, 1), Models[name], m),
         LAMBDA x : [x EXCEPT !.message = w0.message, !.field = w0.field])

\* A message without nested ones is written without measuring it.
protobuf_encode(name, m, sink) ==
  Unless(IF has_nested(Models[name]) THEN measure(Writer(sink), name, m, 0).w ELSE Writer(sink),
         LAMBDA s : flush(write_message([s EXCEPT !.message = "", !.field = 0], name, m)))

protobuf_size(name, m) == measure(Writer(counting_sink), name, m, 0)
=============================================================================
