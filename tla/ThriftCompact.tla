--------------------------- MODULE ThriftCompact ---------------------------
(***************************************************************************)
(* The Thrift compact protocol: include/nanom/tagged.hpp (reading) and     *)
(* include/nanom/tagged_encode.hpp (writing).  A reading operator takes    *)
(* the bytes b, the position p and the end e, counted from zero, and       *)
(* answers Ok(position, value) or the fault recorded in ctx.  A double is  *)
(* its bit pattern.                                                        *)
(***************************************************************************)
EXTENDS TaggedModel

ctype ==
  [stop |-> 0, bool_true |-> 1, bool_false |-> 2, i8 |-> 3, i16 |-> 4, i32 |-> 5, i64 |-> 6,
   dbl |-> 7, binary |-> 8, list |-> 9, set |-> 10, map |-> 11, strct |-> 12]
Booleans == {ctype.bool_true, ctype.bool_false}
Varints == {ctype.i16, ctype.i32, ctype.i64}

type_of(t) ==
  CASE t.k = "bool" -> ctype.bool_true
    [] t.k = "double" -> ctype.dbl
    [] t.k = "enum" -> ctype.i32
    [] t.k \in {"vector", "list"} -> ctype.list
    [] t.k \in {"message", "lazy", "empty"} -> ctype.strct
    [] t.k \in {"i8", "i16", "i32", "i64", "binary"} -> ctype[t.k]

wire_ok(expected, wire) ==
  CASE expected = ctype.bool_true -> wire \in Booleans
    [] expected = ctype.list -> wire \in {ctype.list, ctype.set}
    [] OTHER -> wire = expected

min_elem_bytes(type) == IF type = ctype.dbl THEN FixedBytes["i64"] ELSE 1

Ok(p, v) == [f |-> "none", p |-> p, v |-> v]
fail(f, at, needed) == [f |-> f, p |-> at, need |-> Least(needed, max_incomplete_needed)]
Good(r) == r.f = "none"

\* What F makes of a good answer; a fault stays what it is.
Then(r, F(_)) == IF Good(r) THEN F(r) ELSE r

\* ctx::to_error: only a truncated live input is incomplete.
to_error(r, live) ==
  [kind |-> IF r.f = "truncated" /\ live THEN "incomplete" ELSE "err",
   needed |-> IF r.f = "truncated" THEN r.need ELSE 0]

-----------------------------------------------------------------------------
(* Scalars.                                                                *)

MaxVarint == leb128_max_bytes(Width["i64"])
Ends(b, p, e) == {i \in 0 .. Least(e - p, MaxVarint) - 1 : b[p + i + 1] < 128}

skip_varint(b, p, e) ==
  LET i == FirstIn(Ends(b, p, e))
  IN  IF Ends(b, p, e) = {}
        THEN IF e - p < MaxVarint THEN fail("truncated", e, 1) ELSE fail("bad_varint", p, 0)
      ELSE IF i = MaxVarint - 1 /\ b[p + i + 1] > 1 THEN fail("bad_varint", p, 0)
      ELSE Ok(p + i + 1, <<>>)

varint(b, p, e) ==
  Then(skip_varint(b, p, e), LAMBDA r :
    Ok(r.p, FoldRight(LAMBDA x, v : v * 128 + (x % 128), SubSeq(b, p + 1, r.p), 0)))

varint32(b, p, e) ==
  Then(varint(b, p, e), LAMBDA r :
    IF r.v >= 2^Width["i32"] THEN fail("bad_varint", p, 0) ELSE r)

zigzag(b, p, e, k) ==
  Then(varint(b, p, e), LAMBDA r :
    IF Fits(zigzag_decode(r.v), k) THEN Ok(r.p, zigzag_decode(r.v))
    ELSE fail("out_of_range", p, 0))

\* Mutant of take_n: it asks for all n bytes, not for the ones missing.
take_nWhole(b, p, e, n) ==
  IF e - p < n THEN fail("truncated", e, n) ELSE Ok(p + n, SubSeq(b, p + 1, p + n))

\* n bytes of the input, as a value.
take_n(b, p, e, n) ==
  IF e - p < n THEN fail("truncated", e, n - (e - p)) ELSE Ok(p + n, SubSeq(b, p + 1, p + n))

read_binary(b, p, e) ==
  Then(varint32(b, p, e), LAMBDA n : take_n(b, n.p, e, n.v))

\* The count of a list header: in its first byte if it is below 15.
CountOf(b, p, e) ==
  IF b[p + 1] \div 16 = 15 THEN varint32(b, p + 1, e) ELSE Ok(p + 1, b[p + 1] \div 16)

read_list_header(b, p, e) ==
  IF p >= e THEN fail("truncated", p, 1)
  ELSE Then(CountOf(b, p, e), LAMBDA n :
         IF n.v > (e - n.p) \div min_elem_bytes(b[p + 1] % 16) THEN fail("bad_count", p, 0)
         ELSE Ok(n.p, [count |-> n.v, elem |-> b[p + 1] % 16]))

-----------------------------------------------------------------------------
(* Skipping.                                                               *)

RECURSIVE skip(_, _, _, _, _, _)
RECURSIVE skip_struct(_, _, _, _)

\* One value of each of the wire types, in turn, inside a container.
RECURSIVE SkipAll(_, _, _, _, _)
SkipAll(b, p, e, types, depth) ==
  IF types = <<>> THEN Ok(p, <<>>)
  ELSE Then(skip(b, p, e, Head(types), TRUE, depth), LAMBDA r :
         SkipAll(b, r.p, e, Tail(types), depth))

skip_elems(b, p, e, h, depth) ==
  IF h.elem \in Booleans \cup {ctype.i8} THEN Ok(p + h.count, <<>>)
  ELSE IF h.elem = ctype.dbl THEN Ok(p + h.count * FixedBytes["i64"], <<>>)
  ELSE SkipAll(b, p, e, [i \in 1 .. h.count |-> h.elem], depth + 1)

SkipMap(b, p, e, depth) ==
  Then(varint32(b, p, e), LAMBDA n :
    IF n.v = 0 THEN Ok(n.p, <<>>)
    ELSE IF n.p >= e THEN fail("truncated", n.p, 1)
    ELSE LET kt == b[n.p + 1] \div 16
             vt == b[n.p + 1] % 16
         IN  IF n.v > (e - n.p - 1) \div (min_elem_bytes(kt) + min_elem_bytes(vt))
               THEN fail("bad_count", p, 0)
             ELSE SkipAll(b, n.p + 1, e, [i \in 1 .. 2 * n.v |-> IF i % 2 = 1 THEN kt ELSE vt],
                          depth + 1))

SkipOther(b, p, e, type, depth) ==
  CASE type = ctype.i8 -> take_n(b, p, e, 1)
    [] type \in Varints -> skip_varint(b, p, e)
    [] type = ctype.dbl -> take_n(b, p, e, FixedBytes["i64"])
    [] type = ctype.binary -> read_binary(b, p, e)
    [] type \in {ctype.list, ctype.set} ->
         IF depth > max_tagged_depth THEN fail("too_deep", p, 0)
         ELSE Then(read_list_header(b, p, e), LAMBDA h : skip_elems(b, h.p, e, h.v, depth))
    [] type = ctype.map ->
         IF depth > max_tagged_depth THEN fail("too_deep", p, 0) ELSE SkipMap(b, p, e, depth)
    [] type = ctype.strct -> skip_struct(b, p, e, depth + 1)
    [] OTHER -> fail("bad_type", p, 0)

\* Mutant of skip: a bool field takes a byte, as a bool in a container does.
skipBools(b, p, e, type, in_container, depth) ==
  IF type \in Booleans THEN take_n(b, p, e, 1) ELSE SkipOther(b, p, e, type, depth)

skip(b, p, e, type, in_container, depth) ==
  IF type \in Booleans
    THEN IF in_container THEN take_n(b, p, e, 1) ELSE Ok(p, <<>>)
    ELSE SkipOther(b, p, e, type, depth)

RECURSIVE SkipFields(_, _, _, _)
SkipFields(b, p, e, depth) ==
  IF p >= e THEN fail("truncated", p, 1)
  ELSE IF b[p + 1] = 0 THEN Ok(p + 1, <<>>)
  ELSE Then(Then(IF b[p + 1] < 16 THEN skip_varint(b, p + 1, e) ELSE Ok(p + 1, <<>>),
                 LAMBDA id : skip(b, id.p, e, b[p + 1] % 16, FALSE, depth)),
            LAMBDA r : SkipFields(b, r.p, e, depth))

skip_struct(b, p, e, depth) ==
  IF depth > max_tagged_depth THEN fail("too_deep", p, 0) ELSE SkipFields(b, p, e, depth)

-----------------------------------------------------------------------------
(* Reading.  old is the member's value before: a nested message that       *)
(* occurs twice is read into itself.                                       *)

RECURSIVE read_value(_, _, _, _, _, _)
RECURSIVE read_struct(_, _, _, _, _, _)

\* n more values of type t, after vs.
RECURSIVE ReadMore(_, _, _, _, _, _, _)
ReadMore(b, p, e, depth, t, n, vs) ==
  IF n = 0 THEN Ok(p, vs)
  ELSE Then(read_value(b, p, e, depth, t, DefaultOf(t)), LAMBDA x :
         ReadMore(b, x.p, e, depth, t, n - 1, Append(vs, x.v)))

ReadAll(b, p, e, depth, t, n) == ReadMore(b, p, e, depth, t, n, <<>>)

\* The header of a list member, checked against the element type.
ListHeader(b, p, e, depth, elem) ==
  Then(read_list_header(b, p, e), LAMBDA h :
    IF h.v.count > 0 /\ ~wire_ok(type_of(elem), h.v.elem) THEN fail("type_mismatch", p, 0)
    ELSE IF depth > max_tagged_depth THEN fail("too_deep", p, 0)
    ELSE h)

Region(b, from_, to) == SubSeq(b, from_ + 1, to)

read_value(b, p, e, depth, t, old) ==
  CASE t.k = "bool" ->
         IF p >= e THEN fail("truncated", p, 1)
         ELSE IF b[p + 1] > 2 THEN fail("bad_bool", p, 0) ELSE Ok(p + 1, b[p + 1] = 1)
    [] t.k = "i8" ->
         IF p >= e THEN fail("truncated", p, 1) ELSE Ok(p + 1, bit_cast(b[p + 1], 8))
    [] t.k \in {"i16", "i32", "i64"} -> zigzag(b, p, e, t.k)
    [] t.k = "enum" -> zigzag(b, p, e, "i32")
    [] t.k = "double" ->
         Then(take_n(b, p, e, FixedBytes["i64"]), LAMBDA r : Ok(r.p, LittleEndian(r.v)))
    [] t.k = "binary" -> read_binary(b, p, e)
    [] t.k = "vector" ->
         Then(ListHeader(b, p, e, depth, t.e), LAMBDA h :
           ReadAll(b, h.p, e, depth + 1, t.e, h.v.count))
    [] t.k = "list" ->
         Then(ListHeader(b, p, e, depth, t.e), LAMBDA h :
           Then(skip_elems(b, h.p, e, h.v, depth), LAMBDA r :
             Ok(r.p, [m |-> "wire", region |-> Region(b, h.p, r.p), count |-> h.v.count,
                      elem |-> h.v.elem, depth |-> depth + 1])))
    [] t.k = "lazy" ->
         Then(skip_struct(b, p, e, depth + 1), LAMBDA r :
           Ok(r.p, [m |-> "wire", region |-> Region(b, p, r.p), depth |-> depth + 1]))
    [] t.k = "empty" -> skip_struct(b, p, e, depth + 1)
    [] t.k = "message" -> read_struct(b, p, e, depth + 1, Models[t.m], old)

\* A field's wire id, from the header byte at p and the id before it.
ReadId(b, p, e, last) ==
  LET delta == b[p + 1] \div 16
  IN  IF delta = 0 THEN zigzag(b, p + 1, e, "i16")
      ELSE IF last + delta > IntMax("i16") THEN fail("bad_id", p, 0)
      ELSE Ok(p + 1, last + delta)

\* One known field: the member's new value and whether it counts as seen.
ReadMember(b, p, e, depth, F, type, old) ==
  LET inner == IF ~F.opt THEN old ELSE IF old = <<>> THEN DefaultOf(F.t) ELSE old[1]
  IN  IF ~wire_ok(type_of(F.t), type)
        THEN Then(skip(b, p, e, type, FALSE, depth), LAMBDA s : Ok(s.p, [m |-> old, seen |-> FALSE]))
      ELSE Then(IF F.t.k = "bool" THEN Ok(p, type = ctype.bool_true)
                                  ELSE read_value(b, p, e, depth, F.t, inner),
                LAMBDA r : Ok(r.p, [m |-> IF F.opt THEN <<r.v>> ELSE r.v, seen |-> TRUE]))

\* The loop over the fields of the struct that starts at start; s is where it
\* is: the position, the message so far, the members seen and the last id.
RECURSIVE ReadFields(_, _, _, _, _, _)
ReadFields(b, e, depth, M, start, s) ==
  LET type == b[s.p + 1] % 16
  IN  IF s.p >= e THEN fail("truncated", s.p, 1)
      ELSE IF b[s.p + 1] = 0
        THEN IF required_mask(M) \subseteq s.seen THEN Ok(s.p + 1, s.m)
             ELSE fail("missing_required", start, 0)
      ELSE Then(ReadId(b, s.p, e, s.last), LAMBDA id :
             LET slot == slot_of(M, id.v)
             IN  IF slot = no_slot
                   THEN Then(skip(b, id.p, e, type, FALSE, depth), LAMBDA u :
                          ReadFields(b, e, depth, M, start, [s EXCEPT !.p = u.p, !.last = id.v]))
                   ELSE Then(ReadMember(b, id.p, e, depth, M[slot], type, s.m[slot]), LAMBDA r :
                          ReadFields(b, e, depth, M, start,
                                     [p |-> r.p, m |-> [s.m EXCEPT ![slot] = r.v.m], last |-> id.v,
                                      seen |-> IF r.v.seen THEN s.seen \cup {slot} ELSE s.seen])))

read_struct(b, p, e, depth, M, m) ==
  IF depth > max_tagged_depth THEN fail("too_deep", p, 0)
  ELSE ReadFields(b, e, depth, M, p, [p |-> p, m |-> m, seen |-> {}, last |-> 0])

thrift_compact(b, M) == read_struct(b, 0, Len(b), 0, M, DefaultMessage(M))
thrift_compact_skip(b) == skip_struct(b, 0, Len(b), 0)

-----------------------------------------------------------------------------
(* Lists and messages decoded on demand.                                   *)

for_each(l, t) ==
  IF l.m = "of" THEN Ok(0, l.elems)
  ELSE IF l.m = "none" THEN Ok(0, <<>>)
  ELSE ReadAll(l.region, 0, Len(l.region), l.depth, t, l.count)

ListSize(l) == CASE l.m = "of" -> Len(l.elems) [] l.m = "none" -> 0 [] l.m = "wire" -> l.count

\* Mutant of list_at: elements are skipped as fields are, bools without a byte.
list_atAsFields(l, t, i) ==
  IF i >= ListSize(l) THEN fail("index", 0, 0)
  ELSE IF l.m = "of" THEN Ok(0, l.elems[i + 1])
  ELSE Then(FoldLeft(LAMBDA r, k : IF Good(r) THEN skip(l.region, r.p, Len(l.region), l.elem, FALSE, l.depth)
                                   ELSE r, Ok(0, <<>>), [k \in 1 .. i |-> k]),
            LAMBDA s : read_value(l.region, s.p, Len(l.region), l.depth, t, DefaultOf(t)))

\* Element i, from zero: the ones before it are skipped, not decoded.
list_at(l, t, i) ==
  IF i >= ListSize(l) THEN fail("index", 0, 0)
  ELSE IF l.m = "of" THEN Ok(0, l.elems[i + 1])
  ELSE Then(SkipAll(l.region, 0, Len(l.region), [k \in 1 .. i |-> l.elem], l.depth), LAMBDA s :
         read_value(l.region, s.p, Len(l.region), l.depth, t, DefaultOf(t)))

lazy_decode(l, M) ==
  IF l.m = "of" THEN Ok(0, l.msg)
  ELSE read_struct(l.region, 0, Len(l.region), l.depth, M, DefaultMessage(M))

-----------------------------------------------------------------------------
(* Writing.                                                                *)

put_length(w, n) == IF n > IntMax("i32") THEN SetError(w, "too long") ELSE put_varint(w, n)

put_binary(w, v) ==
  IF Len(v) > IntMax("i32") THEN SetError(w, "too long") ELSE raw(put_length(w, Len(v)), v)

list_header(w, n, et) ==
  IF n > IntMax("i32") THEN SetError(w, "too long")
  ELSE IF n < 15 THEN put_u8(w, n * 16 + et)
  ELSE put_varint(put_u8(w, 240 + et), n)

RECURSIVE write_value(_, _, _)
RECURSIVE write_struct(_, _, _)

RECURSIVE WriteElems(_, _, _)
WriteElems(w, t, vs) ==
  IF w.err # "" \/ vs = <<>> THEN w ELSE WriteElems(write_value(w, t, Head(vs)), t, Tail(vs))

WriteAll(w, t, vs) == WriteElems(list_header(w, Len(vs), type_of(t)), t, vs)

write_value(w, t, v) ==
  CASE t.k = "bool" -> put_u8(w, IF v THEN 1 ELSE 2)
    [] t.k = "i8" -> put_u8(w, Wrap(v, 8))
    [] t.k \in {"i16", "i32", "i64", "enum"} -> put_varint(w, zigzag_encode(v))
    [] t.k = "double" -> raw(w, [i \in 1 .. FixedBytes["i64"] |-> (v \div 256^(i - 1)) % 256])
    [] t.k = "binary" -> put_binary(w, v)
    [] t.k = "vector" -> WriteAll(w, t.e, v)
    [] t.k = "list" ->
         IF v.m = "of" THEN WriteAll(w, t.e, v.elems)
         ELSE IF v.m = "none" THEN list_header(w, 0, type_of(t.e))
         ELSE raw(list_header(w, v.count, IF v.count > 0 THEN v.elem ELSE type_of(t.e)), v.region)
    [] t.k = "lazy" ->
         IF v.m = "of" THEN write_struct(w, t.m, v.msg)
         ELSE IF v.m = "wire" THEN raw(w, v.region)
         ELSE SetError(w, "unset lazy")
    [] t.k = "empty" -> put_u8(w, 0)
    [] t.k = "message" -> write_struct(w, t.m, v)

FieldHeader(w, id, last, type) ==
  IF id - last \in 1 .. 15 THEN put_u8(w, (id - last) * 16 + type)
  ELSE put_varint(put_u8(w, type), zigzag_encode(id))

\* A bool's value is in the header.
AfterHeader(w, F, v) == IF F.t.k = "bool" THEN w ELSE write_value(w, F.t, v)

\* One field; last is the id written before it, 0 at first.
WriteField(acc, F, i, v) ==
  LET w == [acc.w EXCEPT !.field = i]
      type == IF F.t.k = "bool" THEN IF v THEN ctype.bool_true ELSE ctype.bool_false ELSE type_of(F.t)
  IN  [w |-> AfterHeader(FieldHeader(w, F.id, acc.last, type), F, v), last |-> F.id]

\* The fields from i on.
RECURSIVE WriteFields(_, _, _, _)
WriteFields(acc, M, m, i) ==
  IF acc.w.err # "" \/ i > Len(M) THEN acc.w
  ELSE WriteFields(IF M[i].opt /\ m[i] = <<>> THEN [acc EXCEPT !.w.field = i]
                   ELSE WriteField(acc, M[i], i, IF M[i].opt THEN m[i][1] ELSE m[i]), M, m, i + 1)

write_struct(w0, name, m) ==
  Unless(WriteFields([w |-> [w0 EXCEPT !.message = name], last |-> 0], Models[name], m, 1), LAMBDA x :
    [put_u8(x, 0) EXCEPT !.message = w0.message, !.field = w0.field])

thrift_compact_encode(name, m, sink) == flush(write_struct(Writer(sink), name, m))
\* Mutant of thrift_compact_size: the bytes still staged are not counted.
thrift_compact_sizeUnflushed(name, m) == write_struct(Writer(counting_sink), name, m)

\* The count, or the error, is in the writer that is left.
thrift_compact_size(name, m) == thrift_compact_encode(name, m, counting_sink)
=============================================================================
