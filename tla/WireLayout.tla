----------------------------- MODULE WireLayout -----------------------------
(***************************************************************************)
(* Described structs on the wire: include/nanom/reflect.hpp (layout and    *)
(* decoding) and include/nanom/emit.hpp (encoding).  A field type is a     *)
(* record with kind k:                                                     *)
(*   scalar  n bytes, in the byte order the caller passes                  *)
(*   endian  n bytes, big or little: be<T> / le<T>, which keep wire bytes  *)
(*   bits    n bits, msb0 or lsb0, signed or not: ubits<N> / ibits<N>      *)
(*   array   len elements of type elem                                     *)
(*   struct  the sequence fields of field types                            *)
(* A struct's value is the sequence of its fields' values.  Fields are     *)
(* named by their index.  mem is a sequence of bytes, p a position in it   *)
(* counted from zero.                                                      *)
(***************************************************************************)
EXTENDS NomNumbers

CONSTANTS word_bits    \* width of the word the bit-field fast path loads, 64 in the code

-----------------------------------------------------------------------------
(* Layout.                                                                 *)

RECURSIVE wire_bits(_)
wire_bits(F) ==
  CASE F.k \in {"scalar", "endian"} -> 8 * F.n
    [] F.k = "bits" -> F.n
    [] F.k = "array" -> F.len * wire_bits(F.elem)
    [] F.k = "struct" -> FoldLeft(LAMBDA s, f : s + wire_bits(f), 0, F.fields)

is_bits(F) == F.k = "bits"
wire_size(T) == wire_bits(T) \div 8

field_bit_offsets(T) ==
  [i \in DOMAIN T.fields |->
     FoldLeft(LAMBDA s, f : s + wire_bits(f), 0, SubSeq(T.fields, 1, i - 1))]

bit_order_of(F) == IF is_bits(F) THEN F.order ELSE "none"

\* Mutant of layout_ok: bit fields of both orders may meet inside a byte.
layout_okMixed(T) ==
  LET off == field_bit_offsets(T)
  IN  /\ wire_bits(T) % 8 = 0
      /\ \A i \in DOMAIN T.fields : is_bits(T.fields[i]) \/ off[i] % 8 = 0

layout_ok(T) ==
  LET off == field_bit_offsets(T)
  IN  /\ wire_bits(T) % 8 = 0
      /\ \A i \in DOMAIN T.fields :
           /\ is_bits(T.fields[i]) \/ off[i] % 8 = 0
           /\ i > 1 =>
                LET o == bit_order_of(T.fields[i])
                    prev_order == bit_order_of(T.fields[i - 1])
                IN  (o # "none" /\ prev_order # "none" /\ o # prev_order) => off[i] % 8 = 0

-----------------------------------------------------------------------------
(* Decoding.                                                               *)

Window(mem, p, n) == SubSeq(mem, p + 1, p + n)
ToUint(bs, order) == IF order = "big" THEN BigEndian(bs) ELSE LittleEndian(bs)
ToInt(u, bits, signed) == IF signed THEN bit_cast(u, bits) ELSE u

\* endian_scalar::get.
get_endian(F, raw) == ToInt(ToUint(raw, F.order), 8 * F.n, F.signed)

\* The raw value of a bit field: one big-endian load of the covering bytes
\* when they fit a word, the bit loop otherwise.
raw_bits(mem, p, bitoff, F) ==
  LET q == p + bitoff \div 8
      startbit == bitoff % 8
      nbytes == CeilDiv(startbit + F.n, 8)
      shift == nbytes * 8 - startbit - F.n
      fake == [from(mem) EXCEPT !.first = q, !.last = p + CeilDiv(bitoff + F.n, 8)]
  IN  IF F.order = "msb0" /\ 7 + F.n <= word_bits
        THEN (BigEndian(Window(mem, q, nbytes)) \div 2^shift) % 2^F.n
        ELSE read_bits([in |-> fake, bit |-> startbit], F.n, F.order).value

decode_leaf(mem, p, bitoff, F, dflt) ==
  IF is_bits(F) THEN ToInt(raw_bits(mem, p, bitoff, F), F.n, F.signed)
  ELSE ToInt(ToUint(Window(mem, p + bitoff \div 8, F.n),
                    IF F.k = "endian" THEN F.order ELSE dflt), 8 * F.n, F.signed)

\* The field as a member of the decoded struct: be / le keep their bytes.
RECURSIVE assign_field(_, _, _, _, _)
assign_field(mem, p, bitoff, F, dflt) ==
  CASE F.k = "endian" -> Window(mem, p + bitoff \div 8, F.n)
    [] F.k = "array" ->
         [i \in 1 .. F.len |->
            assign_field(mem, p, bitoff + (i - 1) * wire_bits(F.elem), F.elem, dflt)]
    [] F.k = "struct" ->
         LET offs == field_bit_offsets(F)
         IN  [i \in DOMAIN F.fields |->
                assign_field(mem, p, bitoff + offs[i], F.fields[i], dflt)]
    [] OTHER -> decode_leaf(mem, p, bitoff, F, dflt)

\* The field as view::get answers it: be / le converted to host order.
RECURSIVE decode_field(_, _, _, _, _)
decode_field(mem, p, bitoff, F, dflt) ==
  CASE F.k = "array" ->
         [i \in 1 .. F.len |->
            decode_field(mem, p, bitoff + (i - 1) * wire_bits(F.elem), F.elem, dflt)]
    [] F.k = "struct" -> assign_field(mem, p, bitoff, F, dflt)
    [] OTHER -> decode_leaf(mem, p, bitoff, F, dflt)

strct(in, T, dflt) ==
  LET need == wire_size(T)
  IN  IF size(in) < need THEN make_incomplete(in, need - size(in))
      ELSE done(assign_field(in.buf, in.first, 0, T, dflt), advance(in, need))

\* A struct at the end of the input; the rest is everything before it.
footer(in, T, dflt) ==
  LET need == wire_size(T)
      r == strct(advance(in, size(in) - need), T, dflt)
  IN  IF size(in) < need THEN make_incomplete(in, need - size(in))
      ELSE done(r.value, [in EXCEPT !.last = @ - need])

-----------------------------------------------------------------------------
(* Encoding.  An emit operator answers the error, "" for none, and the     *)
(* memory as it leaves it.                                                 *)

Put(mem, p, bs) ==
  [i \in DOMAIN mem |-> IF i \in p + 1 .. p + Len(bs) THEN bs[i - p] ELSE mem[i]]

store_uint(u, nbytes, order) ==
  [i \in 1 .. nbytes |-> (u \div 2^(IF order = "big" THEN 8 * (nbytes - i) ELSE 8 * (i - 1))) % 256]

\* endian_scalar::set.
set_endian(F, v) == store_uint(Wrap(v, 8 * F.n), F.n, F.order)

RECURSIVE WriteLoop(_, _, _, _, _, _, _)
WriteLoop(mem, q, bit, n, got, v, ord) ==
  LET avail == 8 - bit
      use == Least(avail, n - got)
      piece == (v \div 2^(IF ord = "msb0" THEN n - got - use ELSE got)) % 2^use
      shift == IF ord = "msb0" THEN avail - use ELSE bit
      old == mem[q + 1]
      new == old - ((old \div 2^shift) % 2^use) * 2^shift + piece * 2^shift
  IN  IF got = n THEN mem
      ELSE WriteLoop([mem EXCEPT ![q + 1] = new],
                     IF bit + use = 8 THEN q + 1 ELSE q,
                     IF bit + use = 8 THEN 0 ELSE bit + use, n, got + use, v, ord)

write_bits(mem, p, bitoff, n, v, ord) ==
  WriteLoop(mem, p + bitoff \div 8, bitoff % 8, n, 0, v, ord)

BitRange(F) == IF F.signed THEN -(2^(F.n - 1)) .. 2^(F.n - 1) - 1 ELSE 0 .. 2^F.n - 1

RECURSIVE emit_field(_, _, _, _, _, _)
emit_field(v, mem, p, bitoff, F, dflt) ==
  LET EmitAll(types, offs) ==
        FoldLeft(LAMBDA acc, i :
                   IF acc.err # "" THEN acc
                   ELSE emit_field(v[i], acc.mem, p, bitoff + offs[i], types[i], dflt),
                 [err |-> "", mem |-> mem], [i \in DOMAIN types |-> i])
  IN  CASE F.k = "endian" -> [err |-> "", mem |-> Put(mem, p + bitoff \div 8, v)]
        [] F.k = "bits" ->
             IF v \notin BitRange(F) THEN [err |-> "outside its bit field", mem |-> mem]
             ELSE [err |-> "", mem |-> write_bits(mem, p, bitoff, F.n, Wrap(v, F.n), F.order)]
        [] F.k = "array" ->
             EmitAll([i \in 1 .. F.len |-> F.elem],
                     [i \in 1 .. F.len |-> (i - 1) * wire_bits(F.elem)])
        [] F.k = "scalar" ->
             [err |-> "", mem |-> Put(mem, p + bitoff \div 8, store_uint(Wrap(v, 8 * F.n), F.n, dflt))]
        [] F.k = "struct" -> EmitAll(F.fields, field_bit_offsets(F))

-----------------------------------------------------------------------------
(* Computed fields.  T.computed is the sequence of computed<T>::fields:    *)
(* [k |-> "calc" or "checksum", f |-> field index].  Their functions are   *)
(* the caller's.                                                           *)

CONSTANTS calc_fn(_, _, _),       \* of the struct type, its value and the payload
          checksum_fn(_, _, _)    \* of the struct type, its encoded bytes and the payload

ValueRange(F) ==
  IF is_bits(F) THEN BitRange(F)
  ELSE IF F.signed THEN -(2^(8 * F.n - 1)) .. 2^(8 * F.n - 1) - 1 ELSE 0 .. 2^(8 * F.n) - 1

\* The field's value for a computed number, or None when it does not fit.
set_computed(F, value) ==
  IF value \notin ValueRange(F) THEN None
  ELSE IF F.k = "endian" THEN <<set_endian(F, value)>> ELSE <<value>>

\* Steps 1 (calc fields in order) and 3 (checksums in order, each over the
\* encoding with its own field zeroed) of emit_struct, as folds.
CalcAll(T, value, payload) ==
  FoldLeft(LAMBDA acc, c :
             IF acc.err # "" \/ c.k # "calc" THEN acc
             ELSE LET x == set_computed(T.fields[c.f], calc_fn(T, acc.v, payload))
                  IN  IF x = None THEN [acc EXCEPT !.err = "does not fit"]
                      ELSE [acc EXCEPT !.v[c.f] = x[1]],
           [err |-> "", v |-> value], T.computed)

Zero(F) == IF F.k = "endian" THEN [i \in 1 .. F.n |-> 0] ELSE 0

ChecksumAll(T, mem0, p, dflt, payload) ==
  LET offs == field_bit_offsets(T)
  IN  FoldLeft(LAMBDA acc, c :
                 IF acc.err # "" \/ c.k # "checksum" THEN acc
                 ELSE LET F == T.fields[c.f]
                          blank == emit_field(Zero(F), acc.mem, p, offs[c.f], F, dflt).mem
                          x == set_computed(F, checksum_fn(T, Window(blank, p, wire_size(T)), payload))
                      IN  IF x = None THEN [err |-> "does not fit", mem |-> blank]
                          ELSE emit_field(x[1], blank, p, offs[c.f], F, dflt),
               [err |-> "", mem |-> mem0], T.computed)

emit_struct(T, value, mem, p, dflt, payload) ==
  LET c == CalcAll(T, value, payload)
      cleared == Put(mem, p, [i \in 1 .. wire_size(T) |-> 0])
      body == emit_field(c.v, cleared, p, 0, T, dflt)
  IN  IF c.err # "" THEN [err |-> c.err, mem |-> mem]
      ELSE IF body.err # "" THEN body
      ELSE ChecksumAll(T, body.mem, p, dflt, payload)

\* The index of the first field that cannot be encoded, for error reports.
first_bad_field(T, v, dflt) ==
  LET scratch == [i \in 1 .. wire_size(T) |-> 0]
      offs == field_bit_offsets(T)
      Bad == {i \in DOMAIN T.fields :
                emit_field(v[i], scratch, 0, offs[i], T.fields[i], dflt).err # ""}
  IN  IF Bad = {} THEN 0 ELSE FirstIn(Bad)

to_bytes(T, v, payload, dflt) ==
  emit_struct(T, v, [i \in 1 .. wire_size(T) |-> 0], 0, dflt, payload)

emit(T, v, mem, p, room, payload, dflt) ==
  IF room < wire_size(T) THEN [err |-> "smaller than the struct", mem |-> mem]
  ELSE emit_struct(T, v, mem, p, dflt, payload)

verify_computed(T, wire, payload, dflt) ==
  LET again == to_bytes(T, strct(from(wire), T, dflt).value, payload, dflt)
  IN  Len(wire) >= wire_size(T) /\ again.err = "" /\ again.mem = Window(wire, 0, wire_size(T))
=============================================================================
