------------------------------- MODULE Defrag -------------------------------
(***************************************************************************)
(* The IP reassembly table of nanom_shark, ReassemblyTable<Key> of         *)
(* include/nanom_shark/defrag.hpp, as operators on a table value.          *)
(*                                                                         *)
(* A table is a record: `key_to_id` and `by_id` are the two hash maps, as  *)
(* functions whose DOMAIN is the set of keys present, and `next_id` is the *)
(* id the next new datagram gets.  A fragment's bytes are a sequence; the  *)
(* buffer they live in is the caller's `token`.  A part of a completed     *)
(* datagram is a view: the bytes it shows and the token of the buffer it   *)
(* points into.  `cfg` is ReassemblyTable::Config.                         *)
(*                                                                         *)
(* A definition marked "Slip" is not the code: it is the definition after  *)
(* it with one plausible mistake, kept to show that a property notices.    *)
(***************************************************************************)
EXTENDS Integers, Sequences, FiniteSets

CONSTANTS
  kNoToken,     \* the token of a buffer whose lifetime nobody tracks
  TickModulus   \* 2^64: packet ids and tick counts are std::uint64_t

ASSUME TickAssumption == TickModulus \in Nat \ {0}

-----------------------------------------------------------------------------
(* Types *)

\* kNoPacket is packet_id_t(-1): no packet ever has it.
kNoPacket == TickModulus - 1

\* A left fold over a sequence: the value after n of its elements.
FoldInOrder(op(_, _), base, s) ==
  LET upto[n \in 0..Len(s)] == IF n = 0 THEN base ELSE op(upto[n - 1], s[n])
  IN upto[Len(s)]

Smaller(a, b) == IF a < b THEN a ELSE b
Larger(a, b)  == IF a < b THEN b ELSE a

\* detail::FragmentSpan: one stored fragment, a view into the caller's buffer.
FragmentSpan(offset_bytes, packet_id, more_fragments, data, token) ==
  [offset_bytes |-> offset_bytes, packet_id |-> packet_id,
   more_fragments |-> more_fragments, data |-> data, token |-> token]

\* The spans whose buffers have tokens of T.
SpanType(T) ==
  [offset_bytes : Nat, packet_id : Nat, more_fragments : BOOLEAN,
   data : Seq(Nat), token : T]

\* A part the completion loop emits: a buffer's token and its bytes.
PartType(T) == [token : T, data : Seq(Nat)]

\* Slip: the entry does not record the packet that opened it.
UnstampedReassembly(pid) ==
  [fragments |-> <<>>, total_length |-> 0, have_last |-> FALSE,
   conflict |-> FALSE, first_packet_id |-> kNoPacket, last_packet_id |-> kNoPacket,
   completed |-> FALSE, retired |-> FALSE, fragment_count |-> 0,
   covered_high |-> 0, parts |-> <<>>, materialized |-> <<>>]

\* A default-constructed detail::Reassembly opened by packet pid.
NewReassembly(pid) ==
  [fragments |-> <<>>, total_length |-> 0, have_last |-> FALSE,
   conflict |-> FALSE, first_packet_id |-> pid, last_packet_id |-> kNoPacket,
   completed |-> FALSE, retired |-> FALSE, fragment_count |-> 0,
   covered_high |-> 0, parts |-> <<>>, materialized |-> <<>>]

\* A default-constructed table: two empty maps, ids start at 1.
EmptyTable ==
  [key_to_id |-> [k \in {} |-> 0], by_id |-> [i \in {} |-> NewReassembly(0)],
   next_id |-> 1]

\* The positions of a datagram a fragment carries, and its byte for one.
Covers(f, p) == f.offset_bytes <= p /\ p < f.offset_bytes + Len(f.data)
ByteOf(f, p) == f.data[p - f.offset_bytes + 1]

-----------------------------------------------------------------------------
(* Assembling the stored fragments *)

\* The bytes a list of parts shows, one after the other.
Bytes(parts) == FoldInOrder(LAMBDA bytes, p : bytes \o p.data, <<>>, parts)

\* detail::range_equals: does the content already emitted, from logical
\* offset `at` on, read as `want`?
range_equals(parts, at, want) ==
  /\ at + Len(want) <= Len(Bytes(parts))
  /\ SubSeq(Bytes(parts), at + 1, at + Len(want)) = want

\* The comparator of the std::sort in add_fragment.  Fragments it does not
\* tell apart (two of one packet, at one offset) are in any order.
Before(f, g) ==
  IF f.offset_bytes # g.offset_bytes THEN f.offset_bytes < g.offset_bytes
                                     ELSE f.packet_id < g.packet_id

\* Slip: an overlap is trimmed without comparing its bytes.
UncheckedRound(total_length, acc, f) ==
  LET clamped_covered == Smaller(acc.covered, total_length)
      end       == f.offset_bytes + Len(f.data)
      emit_from == Larger(f.offset_bytes, clamped_covered)
      emit_to   == Smaller(end, total_length)
      tail      == SubSeq(f.data, emit_from - f.offset_bytes + 1,
                                  emit_to - f.offset_bytes)
  IN CASE acc.verdict # "looping" -> acc
       [] acc.verdict = "looping" /\ f.offset_bytes > acc.covered ->
            [acc EXCEPT !.verdict = "gap"]
       [] OTHER ->
            [verdict |-> "looping",
             covered |-> Larger(acc.covered, end),
             parts   |-> IF emit_from < emit_to
                         THEN Append(acc.parts, [token |-> f.token, data |-> tail])
                         ELSE acc.parts]

\* One round of the completion loop: `acc` is what the rounds before it left
\* (the unclamped high-water mark, the parts emitted, and how the loop ended
\* if it returned early), f the next fragment in order.
Round(total_length, acc, f) ==
  LET clamped_covered == Smaller(acc.covered, total_length)
      end       == f.offset_bytes + Len(f.data)
      ov        == Smaller(clamped_covered - f.offset_bytes, Len(f.data))
      emit_from == Larger(f.offset_bytes, clamped_covered)
      emit_to   == Smaller(end, total_length)
      tail      == SubSeq(f.data, emit_from - f.offset_bytes + 1,
                                  emit_to - f.offset_bytes)
  IN CASE acc.verdict # "looping" -> acc
       [] acc.verdict = "looping" /\ f.offset_bytes > acc.covered ->
            [acc EXCEPT !.verdict = "gap"]
       [] /\ acc.verdict = "looping"
          /\ f.offset_bytes < clamped_covered
          /\ ~range_equals(acc.parts, f.offset_bytes, SubSeq(f.data, 1, ov)) ->
            [acc EXCEPT !.verdict = "conflict"]
       [] OTHER ->
            [verdict |-> "looping",
             covered |-> Larger(acc.covered, end),
             parts   |-> IF emit_from < emit_to
                         THEN Append(acc.parts, [token |-> f.token, data |-> tail])
                         ELSE acc.parts]

\* Slip: the fragments are taken in the order they arrived in.
AssembleAsReceived(fragments, total_length) ==
  LET start == [verdict |-> "looping", covered |-> 0, parts |-> <<>>]
      last  == FoldInOrder(LAMBDA acc, f : Round(total_length, acc, f),
                           start, fragments)
  IN IF last.verdict # "looping" THEN last
     ELSE IF last.covered < total_length THEN [last EXCEPT !.verdict = "short"]
     ELSE [last EXCEPT !.verdict = "complete"]

\* Where std::sort puts f among fragments already in order: after the last one
\* that is not to come after it.
Place(f, s) ==
  CHOOSE k \in 0..Len(s) : /\ k > 0 => ~Before(f, s[k])
                           /\ \A i \in (k + 1)..Len(s) : Before(f, s[i])

PutAfter(s, k, f) ==
  [i \in 1..(Len(s) + 1) |-> IF i <= k THEN s[i] ELSE IF i = k + 1 THEN f ELSE s[i - 1]]

InOrder(fragments) ==
  FoldInOrder(LAMBDA s, f : PutAfter(s, Place(f, s), f), <<>>, fragments)

\* The sort and the completion loop: verdict "complete", with the datagram's
\* parts, or why the datagram is not complete yet.
Assemble(fragments, total_length) ==
  LET start == [verdict |-> "looping", covered |-> 0, parts |-> <<>>]
      last  == FoldInOrder(LAMBDA acc, f : Round(total_length, acc, f),
                           start, InOrder(fragments))
  IN IF last.verdict # "looping" THEN last
     ELSE IF last.covered < total_length THEN [last EXCEPT !.verdict = "short"]
     ELSE [last EXCEPT !.verdict = "complete"]

-----------------------------------------------------------------------------
(* The operations.  Each returns the new table and what the call returned. *)

StoredBytes(fragments) ==
  FoldInOrder(LAMBDA n, f : n + Len(f.data), 0, fragments)

\* Slip: one entry too many.
OverCapacity(cfg, t, key) ==
  /\ key \notin DOMAIN t.key_to_id
  /\ Cardinality(DOMAIN t.by_id) > cfg.max_concurrent

\* add_fragment's lookup refuses a new key only when the table is full.
AtCapacity(cfg, t, key) ==
  /\ key \notin DOMAIN t.key_to_id
  /\ Cardinality(DOMAIN t.by_id) >= cfg.max_concurrent

\* The entry add_fragment works on, before the fragment touches it.
EntryId(t, key) ==
  IF key \in DOMAIN t.key_to_id THEN t.key_to_id[key] ELSE t.next_id

EntryOf(t, key, pid) ==
  IF key \in DOMAIN t.key_to_id THEN t.by_id[t.key_to_id[key]]
                                ELSE NewReassembly(pid)

\* A terminal fragment fixes the datagram's length, even if it is dropped next.
Touched(r, pid, offset_bytes, more_fragments, payload) ==
  [r EXCEPT !.last_packet_id = pid,
            !.have_last      = @ \/ ~more_fragments,
            !.total_length   = IF more_fragments THEN @
                               ELSE offset_bytes + Len(payload)]

Oversized(cfg, r, payload) ==
  StoredBytes(r.fragments) + Len(payload) > cfg.max_datagram_bytes

Stored(r, f) ==
  [r EXCEPT !.fragments      = Append(@, f),
            !.fragment_count = @ + 1,
            !.covered_high   = Larger(@, f.offset_bytes + Len(f.data))]

\* The completion attempt add_fragment ends with.
Settled(r) ==
  LET a == Assemble(r.fragments, r.total_length)
  IN IF ~r.have_last THEN r
     ELSE [r EXCEPT !.conflict  = @ \/ a.verdict = "conflict",
                    !.completed = a.verdict = "complete",
                    !.parts     = IF a.verdict = "complete" THEN a.parts ELSE @]

\* add_fragment as a whole on one entry: the entry it leaves behind.
Received(cfg, r0, pid, offset_bytes, more_fragments, payload, token) ==
  LET r == Touched(r0, pid, offset_bytes, more_fragments, payload)
  IN IF Oversized(cfg, r, payload) THEN r
     ELSE Settled(Stored(r, FragmentSpan(offset_bytes, pid, more_fragments,
                                         payload, token)))

\* Slip: a completed datagram keeps its key.
FiledForGood(t, key, id, r) ==
  [key_to_id |-> [k \in DOMAIN t.key_to_id \cup {key} |->
                    IF k = key THEN id ELSE t.key_to_id[k]],
   by_id     |-> [i \in DOMAIN t.by_id \cup {id} |->
                    IF i = id THEN r ELSE t.by_id[i]],
   next_id   |-> IF key \in DOMAIN t.key_to_id THEN t.next_id
                                               ELSE t.next_id + 1]

\* The maps after the call: the entry is stored under its id, and the key
\* leads to it unless the datagram just completed.
Filed(t, key, id, r) ==
  [key_to_id |-> IF r.completed
                 THEN [k \in DOMAIN t.key_to_id \ {key} |-> t.key_to_id[k]]
                 ELSE [k \in DOMAIN t.key_to_id \cup {key} |->
                         IF k = key THEN id ELSE t.key_to_id[k]],
   by_id     |-> [i \in DOMAIN t.by_id \cup {id} |->
                    IF i = id THEN r ELSE t.by_id[i]],
   next_id   |-> IF key \in DOMAIN t.key_to_id THEN t.next_id
                                               ELSE t.next_id + 1]

NoResult(t) ==
  [table |-> t, datagram_id |-> 0, completed |-> FALSE, retained |-> FALSE,
   parts |-> <<>>]

\* Slip: a dropped fragment is reported as retained.
RetainsEverything(cfg, t, key, pid, offset_bytes, more_fragments, payload, token) ==
  LET id == EntryId(t, key)
      r  == Received(cfg, EntryOf(t, key, pid), pid, offset_bytes,
                     more_fragments, payload, token)
  IN IF AtCapacity(cfg, t, key) THEN NoResult(t)
     ELSE [table       |-> Filed(t, key, id, r),
           datagram_id |-> id,
           completed   |-> r.completed,
           retained    |-> TRUE,
           parts       |-> r.parts]

add_fragment(cfg, t, key, pid, offset_bytes, more_fragments, payload, token) ==
  LET id == EntryId(t, key)
      r0 == EntryOf(t, key, pid)
      r  == Received(cfg, r0, pid, offset_bytes, more_fragments, payload, token)
  IN IF AtCapacity(cfg, t, key) THEN NoResult(t)
     ELSE [table       |-> Filed(t, key, id, r),
           datagram_id |-> id,
           completed   |-> r.completed,
           retained    |-> ~Oversized(cfg, r0, payload),
           parts       |-> r.parts]

\* The spans the entries `ids` hold into buffer u, as <<id, position>>: the
\* tokens retire() and evict_stale() hand back, one for each span dropped.
SpansOf(t, ids, u) ==
  UNION {{<<i, n>> : n \in {m \in DOMAIN t.by_id[i].fragments :
                              t.by_id[i].fragments[m].token = u}} : i \in ids}

\* retire acts only on a completed entry that still holds its spans.
Retirable(t, id) ==
  /\ id \in DOMAIN t.by_id
  /\ t.by_id[id].completed
  /\ ~t.by_id[id].retired

\* Slip: the parts survive the spans they came from.
RetireKeepsParts(t, id) ==
  IF Retirable(t, id)
  THEN [t EXCEPT !.by_id[id].fragments = <<>>,
                 !.by_id[id].retired   = TRUE]
  ELSE t

retire(t, id) ==
  IF Retirable(t, id)
  THEN [t EXCEPT !.by_id[id].fragments = <<>>,
                 !.by_id[id].parts     = <<>>,
                 !.by_id[id].retired   = TRUE]
  ELSE t

\* materialize(id) returns nullptr (here: NotAvailable) or the stitched bytes.
NotAvailable == [null |-> TRUE, bytes |-> <<>>]

\* Slip: a retired datagram is not told apart.
UnavailableUnlessComplete(t, id) ==
  \/ id \notin DOMAIN t.by_id
  \/ ~t.by_id[id].completed

Unavailable(t, id) ==
  \/ id \notin DOMAIN t.by_id
  \/ ~t.by_id[id].completed
  \/ LET r == t.by_id[id]
     IN r.retired /\ r.materialized = <<>> /\ r.total_length > 0

Stitched(r) ==
  IF r.materialized = <<>> /\ r.total_length > 0 THEN Bytes(r.parts)
                                                 ELSE r.materialized

materialize(t, id) ==
  IF Unavailable(t, id) THEN [table |-> t, result |-> NotAvailable]
  ELSE LET bytes == Stitched(t.by_id[id])
       IN [table  |-> [t EXCEPT !.by_id[id].materialized = bytes],
           result |-> [null |-> FALSE, bytes |-> bytes]]

\* Slip: the entry's age counts from the packet that opened it.
AgedOutSinceFirst(cfg, r, now) ==
  \/ now >= (r.first_packet_id + cfg.timeout_ticks) % TickModulus
  \/ r.last_packet_id = kNoPacket

\* Slip: an entry is kept one packet longer.
AgedOutLate(cfg, r, now) ==
  \/ now > (r.last_packet_id + cfg.timeout_ticks) % TickModulus
  \/ r.last_packet_id = kNoPacket

\* evict_stale's test; the sum is computed in 64 bits.
AgedOut(cfg, r, now) ==
  \/ now >= (r.last_packet_id + cfg.timeout_ticks) % TickModulus
  \/ r.last_packet_id = kNoPacket

StaleIds(cfg, t, now) == {i \in DOMAIN t.by_id : AgedOut(cfg, t.by_id[i], now)}

\* 0 complete, 1 timed_out, 3 overlap_conflict (2 is declared, never assigned).
CompletionStatus(r) ==
  IF r.conflict THEN 3 ELSE IF r.completed THEN 0 ELSE 1

GapBytes(r) ==
  IF r.have_last /\ r.total_length > r.covered_high
  THEN r.total_length - r.covered_high ELSE 0

\* The ReassemblySummary of one evicted entry; its tokens are those of the
\* spans it still holds, untracked ones left out.
Summary(id, r) ==
  [datagram_id       |-> id,
   total_length      |-> r.total_length,
   fragment_count    |-> r.fragment_count,
   first_packet_id   |-> r.first_packet_id,
   last_packet_id    |-> r.last_packet_id,
   completion_status |-> CompletionStatus(r),
   gap_bytes         |-> GapBytes(r)]

Summaries(cfg, t, now) ==
  {Summary(i, t.by_id[i]) : i \in StaleIds(cfg, t, now)}

\* Slip: the keys of evicted datagrams stay.
EvictKeepsKeys(cfg, t, now) ==
  [t EXCEPT !.by_id = [i \in DOMAIN t.by_id \ StaleIds(cfg, t, now) |-> t.by_id[i]]]

\* Eviction drops the entries and every key that still leads to one of them.
evict_stale(cfg, t, now) ==
  LET stale == StaleIds(cfg, t, now)
      keys  == {k \in DOMAIN t.key_to_id : t.key_to_id[k] \notin stale}
  IN [t EXCEPT !.by_id     = [i \in DOMAIN t.by_id \ stale |-> t.by_id[i]],
               !.key_to_id = [k \in keys |-> t.key_to_id[k]]]

-----------------------------------------------------------------------------
(* What a table promises its callers, for every table, configuration and      *)
(* fragment.  T is the set of tokens fragments may come with.                 *)

\* An entry whose spans carry tokens of T: the two fields the counting
\* argument reads.
EntryOK(T, r) ==
  /\ {"fragments", "last_packet_id"} \subseteq DOMAIN r
  /\ r.fragments \in Seq(SpanType(T))
  /\ r.last_packet_id \in Nat

\* A table: keys lead to entries, and the ids given out are below next_id.
TableOK(T, t) ==
  /\ {"key_to_id", "by_id", "next_id"} \subseteq DOMAIN t
  /\ t.next_id \in Nat \ {0}
  /\ DOMAIN t.by_id \subseteq 1..(t.next_id - 1)
  /\ \A i \in DOMAIN t.by_id : EntryOK(T, t.by_id[i])
  /\ \A k \in DOMAIN t.key_to_id : t.key_to_id[k] \in DOMAIN t.by_id

AllSpans(t, u) == SpansOf(t, DOMAIN t.by_id, u)

\* The spans after a call of add_fragment by packet p that returned res: one
\* more into the buffer of a fragment that was retained, and nothing else.
SpanAdded(T, t, p, tk, res) ==
  /\ TableOK(T, res.table)
  /\ res.retained \in BOOLEAN
  /\ res.datagram_id \in Nat
  /\ \A u : u # tk \/ ~res.retained => AllSpans(res.table, u) = AllSpans(t, u)
  /\ res.retained => \E s : /\ s \notin AllSpans(t, tk)
                           /\ AllSpans(res.table, tk)
                                = AllSpans(t, tk) \cup {s}
  /\ \A i \in DOMAIN res.table.by_id :
       \/ res.table.by_id[i].last_packet_id = p
       \/ i \in DOMAIN t.by_id /\ res.table.by_id[i] = t.by_id[i]

\* The spans after retire(id) on an entry that is complete: all of the entry's
\* are gone, and no other.
SpansRetired(T, t, id, s) ==
  /\ TableOK(T, s)
  /\ DOMAIN s.by_id = DOMAIN t.by_id
  /\ \A i \in DOMAIN t.by_id : s.by_id[i].last_packet_id = t.by_id[i].last_packet_id
  /\ \A u : AllSpans(s, u) = AllSpans(t, u) \ SpansOf(t, {id}, u)

\* The spans after evict_stale: the aged entries are gone with theirs.
SpansEvicted(T, t, stale, s) ==
  /\ TableOK(T, s)
  /\ stale \subseteq DOMAIN t.by_id
  /\ DOMAIN s.by_id = DOMAIN t.by_id \ stale
  /\ \A i \in DOMAIN s.by_id : s.by_id[i] = t.by_id[i]
  /\ \A u : AllSpans(s, u) = AllSpans(t, u) \ SpansOf(t, stale, u)

\* The buffers a list of fragments points into.
Tokens(s) == {s[i].token : i \in 1..Len(s)}

\* The fields of detail::Reassembly.
EntryType(T) ==
  [fragments : Seq(SpanType(T)), total_length : Nat, have_last : BOOLEAN,
   conflict : BOOLEAN, first_packet_id : Nat, last_packet_id : Nat,
   completed : BOOLEAN, retired : BOOLEAN, fragment_count : Nat,
   covered_high : Nat, parts : Seq(PartType(T)), materialized : Seq(Nat)]

\* An open entry shows nothing; a completed one shows the datagram until it is
\* retired; and every part points into a buffer some stored span points into.
Shown(r) ==
  /\ ~r.completed => r.parts = <<>> /\ ~r.retired
  /\ r.completed /\ ~r.retired => Len(Bytes(r.parts)) = r.total_length
  /\ \A n \in 1..Len(r.parts) : r.parts[n].token \in Tokens(r.fragments)

EntryGood(T, r) == r \in EntryType(T) /\ Shown(r)

\* A key leads to an open entry, and no two keys to one.
TableGood(T, t) ==
  /\ TableOK(T, t)
  /\ \A i \in DOMAIN t.by_id : EntryGood(T, t.by_id[i])
  /\ \A k \in DOMAIN t.key_to_id : ~t.by_id[t.key_to_id[k]].completed
  /\ \A j, k \in DOMAIN t.key_to_id : t.key_to_id[j] = t.key_to_id[k] => j = k

\* Table s is table t after a fragment went into its entry id: that of an open
\* datagram, or of a new one.
Grown(t, s, id) ==
  /\ id \in DOMAIN s.by_id /\ ~s.by_id[id].retired
  /\ \A i \in DOMAIN t.by_id \ {id} : s.by_id[i] = t.by_id[i]
  /\ DOMAIN s.by_id = DOMAIN t.by_id \cup {id}
  /\ IF id \in DOMAIN t.by_id THEN ~t.by_id[id].completed /\ s.next_id = t.next_id
                              ELSE id = t.next_id /\ s.next_id = t.next_id + 1

\* What add_fragment answers about table t.
Answered(T, t, res) ==
  /\ TableGood(T, res.table)
  /\ \/ res.table = t /\ ~res.completed
     \/ /\ Grown(t, res.table, res.datagram_id)
        /\ res.completed = res.table.by_id[res.datagram_id].completed

\* Table s is table t after retire emptied its completed entry id.
Emptied(T, t, id, s) ==
  /\ TableGood(T, s)
  /\ s.next_id = t.next_id /\ DOMAIN s.by_id = DOMAIN t.by_id
  /\ \A i \in DOMAIN t.by_id \ {id} : s.by_id[i] = t.by_id[i]
  /\ s.by_id[id].fragments = <<>> /\ s.by_id[id].completed

\* Table s is table t after evict_stale took the entries `stale` away whole.
Evicted(T, t, stale, s) ==
  /\ TableGood(T, s)
  /\ s.next_id = t.next_id
  /\ DOMAIN s.by_id = DOMAIN t.by_id \ stale
  /\ \A i \in DOMAIN s.by_id : s.by_id[i] = t.by_id[i]

\* The contract of the four operations.
TableContract ==
  /\ \A T : TableGood(T, EmptyTable) /\ \A u : AllSpans(EmptyTable, u) = {}
  /\ \A T, t, cfg, key :
       \A p \in Nat, off \in Nat, more \in BOOLEAN, data \in Seq(Nat), tk \in T :
         LET res == add_fragment(cfg, t, key, p, off, more, data, tk)
         IN /\ TableOK(T, t) => SpanAdded(T, t, p, tk, res)
            /\ TableGood(T, t) => Answered(T, t, res)
  /\ \A T, t, id : Retirable(t, id) =>
       /\ TableOK(T, t) => SpansRetired(T, t, id, retire(t, id))
       /\ TableGood(T, t) => Emptied(T, t, id, retire(t, id))
  /\ \A T, t, cfg, now :
       /\ TableOK(T, t) => SpansEvicted(T, t, StaleIds(cfg, t, now), evict_stale(cfg, t, now))
       /\ TableGood(T, t) => Evicted(T, t, StaleIds(cfg, t, now), evict_stale(cfg, t, now))
=============================================================================
