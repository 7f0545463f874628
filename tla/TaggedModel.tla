---------------------------- MODULE TaggedModel ----------------------------
(***************************************************************************)
(* The codec-independent half of include/nanom/tagged.hpp (the message     *)
(* model) and the staged writer of tagged_encode.hpp and                   *)
(* protobuf_encode.hpp over the sinks of sink.hpp.                         *)
(*                                                                         *)
(* A message model is a sequence of fields [id, t, opt, req]: the wire id, *)
(* the member type, whether it is a std::optional (pb_box counts as one),  *)
(* and whether its presence is required.  A type is a record with kind k;  *)
(* "vector" and "list" have an element type e, "message" and "lazy" the    *)
(* name m of a model.  A message is the sequence of its members' values,   *)
(* an optional member the empty or the one-element sequence.  A list or a  *)
(* lazy member is [m |-> "of", ...] over the caller's values, "wire" over  *)
(* bytes read, "none" when it is neither.                                  *)
(***************************************************************************)
EXTENDS NomNumbers

CONSTANTS Models,      \* name of a message model -> its fields
          Width,       \* bits of i16, i32 and i64: 16, 32 and 64 in the code
          FixedBytes,  \* bytes of fixed32 and fixed64 / double: 4 and 8 in the code
          max_tagged_depth,
          BufBytes     \* the writer's staging buffer, 256 in the code

IntMax(k) == 2^(Width[k] - 1) - 1
Fits(v, k) == v >= -IntMax(k) - 1 /\ v <= IntMax(k)

\* The static_asserts of message_info.
ascending(M) == \A i \in 2 .. Len(M) : M[i].id > M[i - 1].id

required_mask(M) == {i \in DOMAIN M : M[i].req /\ ~M[i].opt}
has_unknown(M) == Len(M) > 0 /\ M[1].id = 0

\* The member a wire id selects, 0 (no_slot) for an unknown field.
no_slot == 0
slot_of(M, id) ==
  IF id >= 0 /\ \E i \in DOMAIN M : M[i].id = id
    THEN CHOOSE i \in DOMAIN M : M[i].id = id ELSE no_slot

\* Value initialization.
RECURSIVE DefaultOf(_)
DefaultMessage(M) ==
  [i \in DOMAIN M |-> IF M[i].opt THEN <<>> ELSE DefaultOf(M[i].t)]
DefaultOf(t) ==
  CASE t.k \in {"binary", "vector", "unknown", "empty"} -> <<>>
    [] t.k = "bool" -> FALSE
    [] t.k \in {"list", "lazy"} -> [m |-> "none"]
    [] t.k = "message" -> DefaultMessage(Models[t.m])
    [] OTHER -> 0

-----------------------------------------------------------------------------
(* Sinks.  A vector grows, a span refuses what does not fit, the counting  *)
(* sink stores nothing.                                                    *)

vector_sink == [kind |-> "vector", cap |-> 0, used |-> 0, out |-> <<>>]
span_sink(n) == [kind |-> "span", cap |-> n, used |-> 0, out |-> <<>>]
counting_sink == [kind |-> "counting", cap |-> 0, used |-> 0, out |-> <<>>]

\* What a put leaves, or None when the sink refuses.
put(sink, bs) ==
  IF sink.kind = "span" /\ Len(bs) > sink.cap - sink.used THEN None
  ELSE <<[sink EXCEPT !.used = @ + Len(bs),
                      !.out = IF sink.kind = "counting" THEN @ ELSE @ \o bs]>>

-----------------------------------------------------------------------------
(* The writer: small writes are staged in a buffer, larger ones go through *)
(* it.  After the first error every call is a no-op.  message and field    *)
(* are where the encoder is; sizes and next are protobuf's measured sizes  *)
(* of nested messages and the one the write pass takes next.               *)

Writer(sink) ==
  [sink |-> sink, total |-> 0, err |-> "", buf |-> <<>>, message |-> "", field |-> 0,
   sizes |-> <<>>, next |-> 1]

SetError(w, what) == IF w.err = "" THEN [w EXCEPT !.err = what] ELSE w

\* What F makes of a writer that has met no error.
Unless(w, F(_)) == IF w.err # "" THEN w ELSE F(w)

PutOut(w, bs) ==
  LET s == put(w.sink, bs)
  IN  IF s = None THEN SetError(w, "refused")
      ELSE [w EXCEPT !.sink = s[1], !.total = @ + Len(bs)]

\* Mutant of flush: a refused block is dropped and writing goes on.
flushOn(w) ==
  IF w.err # "" \/ w.buf = <<>> THEN w
  ELSE [PutOut(w, w.buf) EXCEPT !.buf = <<>>, !.err = ""]

flush(w) ==
  IF w.err # "" \/ w.buf = <<>> THEN w
  ELSE Unless(PutOut(w, w.buf), LAMBDA x : [x EXCEPT !.buf = <<>>])

\* Stage bs, making room first when fewer than room bytes of the buffer are free.
Stage(w, bs, room) ==
  Unless(IF BufBytes - Len(w.buf) < room THEN flush(w) ELSE w,
         LAMBDA x : [x EXCEPT !.buf = @ \o bs])

put_u8(w, b) == Stage(w, <<b>>, 1)
put_varint(w, v) == Stage(w, uleb128_encode[v], leb128_max_bytes(Width["i64"]))
put_fixed(w, v, n) == Stage(w, [i \in 1 .. n |-> (v \div 256^(i - 1)) % 256], FixedBytes["i64"])

raw(w, bs) ==
  IF w.err # "" \/ bs = <<>> THEN w
  ELSE IF Len(bs) <= BufBytes - Len(w.buf) THEN [w EXCEPT !.buf = @ \o bs]
  ELSE Unless(flush(w), LAMBDA x : PutOut(x, bs))
=============================================================================
