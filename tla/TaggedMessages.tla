--------------------------- MODULE TaggedMessages ---------------------------
(***************************************************************************)
(* Messages on their way between programs: one writes a message into a     *)
(* sink, the bytes arrive one at a time at a reader that tries again on    *)
(* every prefix, and a program built against another model (an older one,  *)
(* or one that keeps lists and nested messages as their bytes) reads the   *)
(* message and writes it back.  Besides, bytes of another writer, over a   *)
(* small alphabet or put together from whole fields, are read by every     *)
(* model.                                                                  *)
(***************************************************************************)
EXTENDS Protobuf

CONSTANTS Messages,    \* name of a model -> the messages a program may write
          Sinks,       \* the sinks it writes into
          RelayModel,  \* name of a model -> the model a relay has for it
          MaxHops,     \* relays a message passes
          Alphabet,    \* codec -> bytes another writer may send
          MaxForeign,  \* codec -> how many of them
          ForeignMessages,  \* codec -> longer messages of that writer
          Names        \* codec -> the models it reads

VARIABLES sent,   \* None, or <<[name, m]>>: the message on its way and its model
          enc,    \* the last encode: its sink, total and error
          wired,  \* the bytes on the wire
          got,    \* how many of them arrived
          hops,   \* relays passed
          codec   \* the codec in use, "" before the first step

vars == <<sent, enc, wired, got, hops, codec>>

Encoded(c, name, m, sink) ==
  IF c = "thrift" THEN thrift_compact_encode(name, m, sink) ELSE protobuf_encode(name, m, sink)
Read(c, name, b) ==
  IF c = "thrift" THEN thrift_compact(b, Models[name]) ELSE protobuf(b, Models[name])

\* What the writer leaves behind: the sink, the bytes it counted, the error.
Outcome(w) == [sink |-> w.sink, total |-> w.total, err |-> w.err]

Init ==
  /\ sent = None /\ wired = <<>> /\ got = 0 /\ hops = 0 /\ codec = ""
  /\ enc = Outcome(Writer(vector_sink))

Encode(c, name, m, sink) ==
  /\ codec = ""
  /\ codec' = c
  /\ sent' = <<[name |-> name, m |-> m]>>
  /\ enc' = Outcome(Encoded(c, name, m, sink))
  /\ wired' = enc'.sink.out
  /\ UNCHANGED <<got, hops>>

Arrive ==
  /\ sent # None /\ enc.err = "" /\ got < Len(wired)
  /\ got' = got + 1
  /\ UNCHANGED <<sent, enc, wired, hops, codec>>

Relay ==
  /\ sent # None /\ enc.err = "" /\ got > 0 /\ got = Len(wired)
  /\ hops < MaxHops
  /\ \E held \in {Read(codec, RelayModel[sent[1].name], wired)} :
       /\ Good(held)
       /\ enc' = Outcome(Encoded(codec, RelayModel[sent[1].name], held.v, vector_sink))
  /\ wired' = enc'.sink.out
  /\ got' = 0 /\ hops' = hops + 1
  /\ UNCHANGED <<sent, codec>>

ForeignByte(c, x) ==
  /\ sent = None /\ codec \in {"", c} /\ Len(wired) < MaxForeign[c]
  /\ codec' = c
  /\ wired' = Append(wired, x)
  /\ UNCHANGED <<sent, enc, got, hops>>

ForeignMessage(c, bs) ==
  /\ codec = ""
  /\ codec' = c
  /\ wired' = bs
  /\ UNCHANGED <<sent, enc, got, hops>>

Next ==
  \/ \E c \in {"thrift", "protobuf"}, s \in Sinks : \E name \in Names[c] \cap DOMAIN Messages :
       \E m \in Messages[name] : Encode(c, name, m, s)
  \/ Arrive
  \/ Relay
  \/ \E c \in {"thrift", "protobuf"} : \E x \in Alphabet[c] : ForeignByte(c, x)
  \/ \E c \in {"thrift", "protobuf"} : \E bs \in ForeignMessages[c] : ForeignMessage(c, bs)

Spec == Init /\ [][Next]_vars

-----------------------------------------------------------------------------
(* Properties.                                                             *)

\* A member's value with every list and lazy message in it decoded.
RECURSIVE Plain(_, _, _)
\* A member that is not optional is one value.
PlainMessage(c, M, m) ==
  LET values(i) == IF M[i].opt THEN m[i] ELSE <<m[i]>>
  IN  [i \in DOMAIN M |-> [j \in DOMAIN values(i) |-> Plain(c, M[i].t, values(i)[j])]]
PlainAll(c, t, r) == IF Good(r) THEN [i \in DOMAIN r.v |-> Plain(c, t, r.v[i])] ELSE r
PlainLazy(c, M, r) == IF Good(r) THEN PlainMessage(c, M, r.v) ELSE r
Plain(c, t, v) ==
  CASE t.k = "vector" -> [i \in DOMAIN v |-> Plain(c, t.e, v[i])]
    [] t.k = "list" -> PlainAll(c, t.e, for_each(v, t.e))
    [] t.k = "lazy" ->
         IF v.m = "none" THEN <<>>
         ELSE PlainLazy(c, Models[t.m], IF c = "thrift" THEN lazy_decode(v, Models[t.m])
                                        ELSE pb_lazy_decode(v, Models[t.m]))
    [] t.k = "message" -> PlainMessage(c, Models[t.m], v)
    [] OTHER -> v

\* How deep the message nests (lazily decoded messages of protobuf count anew).
RECURSIVE Nesting(_, _)
NestingOf(t, v) ==
  CASE t.k = "message" -> 1 + Nesting(Models[t.m], v)
    [] t.k = "lazy" -> IF v.m = "of" THEN 1 + Nesting(Models[t.m], v.msg) ELSE 0
    [] OTHER -> 0
Nesting(M, m) ==
  Max({0} \cup UNION {IF M[i].opt THEN {NestingOf(M[i].t, m[i][j]) : j \in DOMAIN m[i]}
                                  ELSE {NestingOf(M[i].t, m[i])} : i \in DOMAIN M})

ToVector == sent # None /\ enc.sink.kind = "vector" /\ enc.err = ""

\* What thrift_compact_encode and protobuf_encode write, thrift_compact and protobuf read
\* back, to the last byte, whatever relays the message passed: a relay writes the lists and
\* lazy messages it never decoded, and protobuf fields it does not know, as it got them.
\* Only nesting beyond max_tagged_depth is refused, and then it is refused.
ReadsBack ==
  ToVector /\ got = 0 =>
    \A r \in {Read(codec, sent[1].name, wired)} :
      LET M == Models[sent[1].name]
      IN  IF Nesting(M, sent[1].m) > max_tagged_depth THEN ~Good(r)
          ELSE /\ Good(r)
               /\ r.p = Len(wired)
               /\ PlainMessage(codec, M, r.v) = PlainMessage(codec, M, sent[1].m)

\* What the size functions answer: a number of bytes, or an error.
SizeOf(c, name, m) ==
  LET t == thrift_compact_size(name, m)
      p == protobuf_size(name, m)
  IN  IF c = "thrift" THEN [n |-> t.total, err |-> t.err] ELSE [n |-> p.n, err |-> p.w.err]

\* thrift_compact_size and protobuf_size are exact: they say how many bytes an encode of the
\* same message writes, and fail the way it fails.  The one exception is protobuf's length
\* limit, which only the measuring pass looks at: a message longer than max_len, without
\* nested ones and so not measured before it is written, has no size and is written.
SizeIsExact ==
  sent # None /\ enc.sink.kind = "vector" /\ hops + got = 0 =>
    \A sz \in {SizeOf(codec, sent[1].name, sent[1].m)} :
      /\ enc.total = Len(wired)
      /\ enc.err # "" => sz.err = enc.err
      /\ enc.err = "" =>
           IF sz.err = "" THEN sz.n = enc.total
           ELSE /\ codec = "protobuf" /\ sz.err = "too long"
                /\ ~has_nested(Models[sent[1].name]) /\ enc.total > max_len

\* However the encode ends, the sink holds a prefix of the encoding, a span never more than
\* its capacity; the encode reports the sink's refusal exactly when the encoding does not
\* fit, whether it came from a flush of the staging buffer in the middle or at the end.
SinkHoldsPrefix ==
  sent # None /\ hops + got = 0 =>
    \A full \in {Encoded(codec, sent[1].name, sent[1].m, vector_sink)} :
      LET n == Len(wired)
      IN  /\ n <= Len(full.sink.out) /\ wired = SubSeq(full.sink.out, 1, n)
          /\ enc.sink.kind = "span" =>
               /\ n <= enc.sink.cap
               /\ full.err = "" => ((enc.err = "") = (Len(full.sink.out) <= enc.sink.cap))
               /\ enc.err = "" => n = Len(full.sink.out)

\* A Thrift struct that has not arrived whole is never taken for one, and its reader is told
\* to wait for at least one and at most the bytes still to come.  Only where the end of the
\* live input falls inside a list, behind a header that has arrived and counts more elements
\* than there are bytes yet, the answer is an error and not `incomplete`: read_list_header
\* holds the count against the bytes it has.
ThriftPrefix ==
  ToVector /\ codec = "thrift" /\ got < Len(wired) /\ Nesting(Models[sent[1].name], sent[1].m) <= max_tagged_depth =>
    \A r \in {Read(codec, sent[1].name, SubSeq(wired, 1, got))} :
      LET answer == to_error(r, TRUE)
          list == read_list_header(wired, r.p, Len(wired))
      IN  /\ ~Good(r)
          /\ answer.kind = "incomplete" => answer.needed \in 1 .. Len(wired) - got
          /\ answer.kind = "err" =>
               /\ r.f = "bad_count" /\ Good(list) /\ list.p <= got
               /\ list.v.count * min_elem_bytes(list.v.elem) > got - list.p

Foreign(c) == sent = None /\ codec = c

\* Of the bytes another writer may send, a struct some model reads is also skipped, and ends at the same byte:
\* thrift_compact_skip, lists and lazy messages find the boundaries the decoder finds.
SkipCoversRead ==
  Foreign("thrift") =>
    \A s \in {thrift_compact_skip(wired)}, name \in Names["thrift"] :
      \A r \in {Read("thrift", name, wired)} : Good(r) => Good(s) /\ s.p = r.p

\* The ids of the fields of a struct that can be skipped, in their order.
RECURSIVE FieldIds(_, _, _)
FieldIds(b, p, last) ==
  IF b[p + 1] = 0 THEN <<>>
  ELSE LET id == ReadId(b, p, Len(b), last)
       IN  <<id.v>> \o FieldIds(b, skip(b, id.p, Len(b), b[p + 1] % 16, FALSE, 0).p, id.v)

\* Some field of the struct occurs twice.
Repeats(b) == \E i, j \in DOMAIN FieldIds(b, 0, 0) : i # j /\ FieldIds(b, 0, 0)[i] = FieldIds(b, 0, 0)[j]

\* A struct whose lists are kept as bytes and decoded by for_each or by index gives the
\* elements the eager vectors give, and a fault in them is found by both.  A list that a
\* later one of the same id replaces is never decoded when lists are kept: a fault in it is
\* found by the eager reader alone, and only such a list makes the two differ.
LazyListsAgree ==
  Foreign("thrift") =>
    \A eager \in {Read("thrift", "lists_eager", wired)}, lazy \in {Read("thrift", "lists", wired)} :
      LET M == Models["lists"]
      IN  IF Good(lazy)
            THEN \A each \in {[i \in DOMAIN M |-> for_each(lazy.v[i], M[i].t.e)]} :
                   /\ Good(eager) =>
                        \A i \in DOMAIN M :
                          /\ Good(each[i]) /\ each[i].v = eager.v[i]
                          /\ \A j \in 1 .. Len(each[i].v) :
                               list_at(lazy.v[i], M[i].t.e, j - 1).v = eager.v[i][j]
                   /\ ~Good(eager) => (\E i \in DOMAIN M : ~Good(each[i])) \/ Repeats(wired)
            ELSE ~Good(eager)

\* Protobuf reads the bytes of two messages, one after the other, as the second merged into
\* the first, wherever the cut is: the shortcut that reads a run of equal keys without going
\* back to the field dispatch changes nothing.
ConcatenationMerges ==
  Foreign("protobuf") =>
    \A name \in {n \in Names["protobuf"] : required_mask(Models[n]) = {}}, i \in 0 .. Len(wired) :
      \A a \in {Read("protobuf", name, SubSeq(wired, 1, i))} : Good(a) =>
        \A both \in {Read("protobuf", name, wired)},
           merged \in {protobuf_decode(SubSeq(wired, i + 1, Len(wired)), Models[name], a.v)} :
          Good(both) = Good(merged) /\ (Good(both) => both.v = merged.v)

\* The bytes the decoder stores for unknown fields are whole records, in their order, and
\* reading only them stores them again.
UnknownIsWhole ==
  Foreign("protobuf") =>
    \A name \in {n \in Names["protobuf"] : has_unknown(Models[n])} :
      \A r \in {Read("protobuf", name, wired)} : Good(r) =>
        \A again \in {Read("protobuf", name, r.v[1])} :
          /\ Good(for_each_unknown(r.v[1], 0, <<>>))
          /\ Good(again) => again.v[1] = r.v[1]

\* The writers are exact: what they write reads back, is as long as the size
\* pass says (protobuf_size beyond the length limit aside), and is cut only
\* where the sink is full (thrift_compact_encode, protobuf_encode and their
\* size functions).
WritersAreExact == ReadsBack /\ SizeIsExact /\ SinkHoldsPrefix

\* The ways to go over Thrift bytes agree, but for the two cases named above (a
\* live input cut inside a list, a list replaced by a later one): reading,
\* skipping, reading a list later, and reading too early (thrift_compact, skip,
\* list::for_each, list::at).
ReadersAgree == ThriftPrefix /\ SkipCoversRead /\ LazyListsAgree

\* Protobuf records survive being put together and being unknown
\* (protobuf_decode, keep_unknown, for_each_unknown).
RecordsSurvive == ConcatenationMerges /\ UnknownIsWhole
=============================================================================
