--------------------------- MODULE AssemblyProofs ---------------------------
(***************************************************************************)
(* What a reassembly table promises (TableContract of module Defrag), and  *)
(* what the completion attempt of add_fragment computes, for every list of *)
(* fragments and every declared length: it succeeds exactly when the       *)
(* fragments fill the datagram with no hole in front of a fragment and no  *)
(* clash inside the datagram, and what it emits is then the datagram.      *)
(*                                                                         *)
(* The first part is about entries and tables, and takes from the second   *)
(* that an attempt which completes emits as many bytes as the datagram     *)
(* has (AssemblyWorks).  The second is an induction over the rounds of the *)
(* loops, so it starts with induction and recursion over the natural       *)
(* numbers; then come the loops in turn: the sum of the lengths, the       *)
(* gathering of parts, the sort, and the completion loop with its          *)
(* invariant LoopInv.                                                      *)
(***************************************************************************)
EXTENDS Defrag, WellFoundedInduction, TLAPS

-----------------------------------------------------------------------------
(* Single entries *)

\* What a completion attempt leaves in an entry: AssembleOK below shows it, and
\* more.
AssemblyWorks ==
  \A T : \A s \in Seq(SpanType(T)), total \in Nat :
    /\ Assemble(s, total).parts \in Seq(PartType(T))
    /\ Assemble(s, total).verdict = "complete"
         => Len(Bytes(Assemble(s, total).parts)) = total

\* A datagram starts with no fragment.
LEMMA NewEntryOK ==
  ASSUME NEW T, NEW p \in Nat
  PROVE  /\ EntryOK(T, NewReassembly(p))
         /\ NewReassembly(p).fragments = <<>>
  BY TickAssumption DEF EntryOK, NewReassembly, kNoPacket

\* add_fragment's header bookkeeping leaves the fragments alone and dates the
\* entry.
LEMMA TouchedOK ==
  ASSUME NEW T, NEW r, EntryOK(T, r), NEW p \in Nat, NEW off \in Nat,
         NEW more \in BOOLEAN, NEW payload \in Seq(Nat)
  PROVE  /\ EntryOK(T, Touched(r, p, off, more, payload))
         /\ Touched(r, p, off, more, payload).fragments = r.fragments
         /\ Touched(r, p, off, more, payload).last_packet_id = p
  BY DEF EntryOK, Touched

\* A retained fragment goes to the end of the list.
LEMMA StoredOK ==
  ASSUME NEW T, NEW r, EntryOK(T, r), NEW f \in SpanType(T)
  PROVE  /\ EntryOK(T, Stored(r, f))
         /\ Stored(r, f).fragments = Append(r.fragments, f)
         /\ Stored(r, f).last_packet_id = r.last_packet_id
  BY DEF EntryOK, Stored, Larger, SpanType

\* A completion attempt leaves the stored fragments alone.
LEMMA SettledOK ==
  ASSUME NEW T, NEW r, EntryOK(T, r)
  PROVE  /\ EntryOK(T, Settled(r))
         /\ Settled(r).fragments = r.fragments
         /\ Settled(r).last_packet_id = r.last_packet_id
  BY DEF EntryOK, Settled

-----------------------------------------------------------------------------
(* add_fragment *)

\* A new table holds no span.
LEMMA EmptyTableOK ==
  ASSUME NEW T
  PROVE  /\ TableOK(T, EmptyTable)
         /\ \A u : AllSpans(EmptyTable, u) = {}
  BY DEF TableOK, EmptyTable, AllSpans, SpansOf

\* The entry add_fragment finds or opens.
LEMMA EntryOfOK ==
  ASSUME NEW T, NEW t, TableOK(T, t), NEW key, NEW p \in Nat
  PROVE  /\ EntryOK(T, EntryOf(t, key, p))
         /\ EntryId(t, key) \in Nat \ {0}
         /\ \/ /\ EntryId(t, key) \in DOMAIN t.by_id
               /\ EntryOf(t, key, p) = t.by_id[EntryId(t, key)]
               /\ key \in DOMAIN t.key_to_id
            \/ /\ EntryId(t, key) \notin DOMAIN t.by_id
               /\ EntryId(t, key) = t.next_id
               /\ EntryOf(t, key, p).fragments = <<>>
               /\ key \notin DOMAIN t.key_to_id
  <1>1. CASE key \in DOMAIN t.key_to_id
    <2>1. t.key_to_id[key] \in DOMAIN t.by_id
      BY <1>1 DEF TableOK
    <2>2. t.key_to_id[key] \in Nat \ {0} /\ EntryOK(T, t.by_id[t.key_to_id[key]])
      BY <2>1 DEF TableOK
    <2> QED BY <1>1, <2>1, <2>2 DEF EntryOf, EntryId
  <1>2. CASE key \notin DOMAIN t.key_to_id
    <2>1. EntryId(t, key) = t.next_id /\ EntryOf(t, key, p) = NewReassembly(p)
      BY <1>2 DEF EntryOf, EntryId
    <2>2. t.next_id \in Nat \ {0} /\ t.next_id \notin DOMAIN t.by_id
      BY DEF TableOK
    <2> QED BY <1>2, <2>1, <2>2, NewEntryOK
  <1> QED BY <1>1, <1>2

\* What add_fragment leaves of the entry: the spans it had and, unless the
\* fragment was too much, the new one.
LEMMA ReceivedOK ==
  ASSUME NEW T, NEW r, EntryOK(T, r), NEW cfg, NEW p \in Nat, NEW off \in Nat,
         NEW more \in BOOLEAN, NEW payload \in Seq(Nat), NEW tk \in T
  PROVE  LET s == Received(cfg, r, p, off, more, payload, tk)
         IN /\ EntryOK(T, s)
            /\ s.last_packet_id = p
            /\ s.fragments =
                 IF Oversized(cfg, r, payload) THEN r.fragments
                 ELSE Append(r.fragments,
                             FragmentSpan(off, p, more, payload, tk))
  <1> DEFINE touched == Touched(r, p, off, more, payload)
             span    == FragmentSpan(off, p, more, payload, tk)
  <1>1. /\ EntryOK(T, touched)
        /\ touched.fragments = r.fragments
        /\ touched.last_packet_id = p
    BY TouchedOK
  <1>2. Oversized(cfg, touched, payload) = Oversized(cfg, r, payload)
    BY <1>1 DEF Oversized
  <1>3. span \in SpanType(T)
    BY DEF FragmentSpan, SpanType
  <1>4. /\ EntryOK(T, Stored(touched, span))
        /\ Stored(touched, span).fragments = Append(r.fragments, span)
        /\ Stored(touched, span).last_packet_id = p
    BY <1>1, <1>3, StoredOK, SMTT(30)
  <1>5. /\ EntryOK(T, Settled(Stored(touched, span)))
        /\ Settled(Stored(touched, span)).fragments = Append(r.fragments, span)
        /\ Settled(Stored(touched, span)).last_packet_id = p
    BY <1>4, SettledOK, Zenon
  <1> QED BY <1>1, <1>2, <1>5, Zenon DEF Received

\* Filing an entry keeps the table in shape.
LEMMA FiledOK ==
  ASSUME NEW T, NEW t, TableOK(T, t), NEW key, NEW r, EntryOK(T, r),
         NEW id, id = EntryId(t, key), NEW s, s = Filed(t, key, id, r)
  PROVE  /\ TableOK(T, s)
         /\ DOMAIN s.by_id = DOMAIN t.by_id \cup {id}
         /\ s.by_id[id] = r
         /\ \A i \in DOMAIN t.by_id \ {id} : s.by_id[i] = t.by_id[i]
  <1>1. /\ DOMAIN s.by_id = DOMAIN t.by_id \cup {id}
        /\ s.by_id[id] = r
        /\ \A i \in DOMAIN t.by_id \ {id} : s.by_id[i] = t.by_id[i]
    BY DEF Filed
  <1>2. {"key_to_id", "by_id", "next_id"} \subseteq DOMAIN s
    BY DEF Filed
  <1>3. \A k \in DOMAIN s.key_to_id :
          s.key_to_id[k] = id \/ s.key_to_id[k] \in DOMAIN t.by_id
    <2>1. CASE r.completed
      BY <2>1 DEF Filed, TableOK
    <2>2. CASE ~r.completed
      BY <2>2 DEF Filed, TableOK
    <2> QED BY <2>1, <2>2
  <1>4. s.next_id \in Nat \ {0} /\ DOMAIN s.by_id \subseteq 1..(s.next_id - 1)
    <2>1. CASE key \in DOMAIN t.key_to_id
      BY <1>1, <2>1 DEF Filed, EntryId, TableOK
    <2>2. CASE key \notin DOMAIN t.key_to_id
      BY <1>1, <2>2 DEF Filed, EntryId, TableOK
    <2> QED BY <2>1, <2>2
  <1>5. \A i \in DOMAIN s.by_id : EntryOK(T, s.by_id[i])
    BY <1>1 DEF TableOK
  <1> QED BY <1>1, <1>2, <1>3, <1>4, <1>5 DEF TableOK

\* Sets of spans are equal when they have the same elements.
LEMMA SpansAreSets ==
  ASSUME NEW t, NEW s, NEW u, \A x : x \in AllSpans(s, u) <=> x \in AllSpans(t, u)
  PROVE  AllSpans(s, u) = AllSpans(t, u)
  BY DEF AllSpans, SpansOf

\* add_fragment adds one span into the buffer it was given, if it retains the
\* fragment, and changes no other.
LEMMA AddSpans ==
  ASSUME NEW T, NEW t, TableOK(T, t), NEW cfg, NEW key, NEW p \in Nat,
         NEW off \in Nat, NEW more \in BOOLEAN, NEW payload \in Seq(Nat),
         NEW tk \in T, NEW res,
         res = add_fragment(cfg, t, key, p, off, more, payload, tk)
  PROVE  SpanAdded(T, t, p, tk, res)
  <1> USE DEF SpanAdded
  <1> DEFINE id == EntryId(t, key)
             r0 == EntryOf(t, key, p)
             r  == Received(cfg, r0, p, off, more, payload, tk)
             span == FragmentSpan(off, p, more, payload, tk)
             n == Len(r0.fragments) + 1
  <1>1. CASE AtCapacity(cfg, t, key)
    BY <1>1 DEF add_fragment, NoResult
  <1>2. CASE ~AtCapacity(cfg, t, key)
    <2>1. /\ res.table = Filed(t, key, id, r)
          /\ res.retained = ~Oversized(cfg, r0, payload)
          /\ res.datagram_id = id
      BY <1>2 DEF add_fragment
    <2>2. EntryOK(T, r0) /\ id \in Nat
      BY EntryOfOK, Zenon
    <2>3. /\ EntryOK(T, r)
          /\ r.last_packet_id = p
          /\ r.fragments = IF Oversized(cfg, r0, payload) THEN r0.fragments
                           ELSE Append(r0.fragments, span)
      BY <2>2, ReceivedOK
    <2>4. /\ TableOK(T, res.table)
          /\ DOMAIN res.table.by_id = DOMAIN t.by_id \cup {id}
          /\ res.table.by_id[id] = r
          /\ \A i \in DOMAIN t.by_id \ {id} : res.table.by_id[i] = t.by_id[i]
      BY <2>1, <2>3, FiledOK
    <2>5. r0.fragments \in Seq(SpanType(T)) /\ span.token = tk
      BY <2>2 DEF EntryOK, FragmentSpan
    <2>6. \A u, s : s \in AllSpans(t, u) <=>
            \/ \E m \in DOMAIN r0.fragments : s = <<id, m>> /\ r0.fragments[m].token = u
            \/ \E i \in DOMAIN t.by_id \ {id} : \E m \in DOMAIN t.by_id[i].fragments :
                 s = <<i, m>> /\ t.by_id[i].fragments[m].token = u
      BY EntryOfOK, <2>5 DEF AllSpans, SpansOf
    <2>7. \A u, s : s \in AllSpans(res.table, u) <=>
            \/ \E m \in DOMAIN r.fragments : s = <<id, m>> /\ r.fragments[m].token = u
            \/ \E i \in DOMAIN t.by_id \ {id} : \E m \in DOMAIN t.by_id[i].fragments :
                 s = <<i, m>> /\ t.by_id[i].fragments[m].token = u
      BY <2>4 DEF AllSpans, SpansOf
    <2>8. CASE Oversized(cfg, r0, payload)
      <3>1. \A u, s : s \in AllSpans(res.table, u) <=> s \in AllSpans(t, u)
        BY <2>3, <2>6, <2>7, <2>8
      <3>2. \A u : AllSpans(res.table, u) = AllSpans(t, u)
        BY <3>1, SpansAreSets
      <3> QED BY <2>1, <2>2, <2>3, <2>4, <2>8, <3>2, Zenon
    <2>9. CASE ~Oversized(cfg, r0, payload)
      <3>1. /\ DOMAIN r.fragments = DOMAIN r0.fragments \cup {n}
            /\ n \notin DOMAIN r0.fragments
            /\ r.fragments[n] = span
            /\ \A m \in DOMAIN r0.fragments : r.fragments[m] = r0.fragments[m]
        BY <2>3, <2>5, <2>9
      <3>2. \A u : u # tk => AllSpans(res.table, u) = AllSpans(t, u)
        <4>1. \A u, s : u # tk =>
                (s \in AllSpans(res.table, u) <=> s \in AllSpans(t, u))
          BY <2>5, <2>6, <2>7, <3>1
        <4> QED BY <4>1, SpansAreSets
      <3>3. <<id, n>> \notin AllSpans(t, tk)
        BY <2>6, <3>1
      <3>4. AllSpans(res.table, tk) = AllSpans(t, tk) \cup {<<id, n>>}
        <4>1. \A s : s \in AllSpans(res.table, tk) <=>
                      s \in AllSpans(t, tk) \cup {<<id, n>>}
          BY <2>5, <2>6, <2>7, <3>1
        <4> QED BY ONLY <4>1, Zenon
      <3> QED BY <2>1, <2>2, <2>3, <2>4, <2>9, <3>2, <3>3, <3>4, Zenon
    <2> QED BY <2>8, <2>9
  <1> QED BY <1>1, <1>2

-----------------------------------------------------------------------------
(* retire and evict_stale *)

\* retire takes the entry's spans away, all of them and no other.
LEMMA RetireSpans ==
  ASSUME NEW T, NEW t, TableOK(T, t), NEW id, Retirable(t, id)
  PROVE  SpansRetired(T, t, id, retire(t, id))
  <1> SUFFICES /\ TableOK(T, retire(t, id))
               /\ DOMAIN retire(t, id).by_id = DOMAIN t.by_id
               /\ \A i \in DOMAIN t.by_id :
                    retire(t, id).by_id[i].last_packet_id = t.by_id[i].last_packet_id
               /\ \A u : AllSpans(retire(t, id), u)
                          = AllSpans(t, u) \ SpansOf(t, {id}, u)
    BY Zenon DEF SpansRetired
  <1> DEFINE s == retire(t, id)
  <1>1. id \in DOMAIN t.by_id
    BY DEF Retirable
  <1>2. /\ DOMAIN s = DOMAIN t
        /\ s.key_to_id = t.key_to_id /\ s.next_id = t.next_id
        /\ DOMAIN s.by_id = DOMAIN t.by_id
        /\ \A i \in DOMAIN t.by_id \ {id} : s.by_id[i] = t.by_id[i]
        /\ DOMAIN s.by_id[id] = DOMAIN t.by_id[id]
        /\ s.by_id[id].fragments = <<>>
        /\ s.by_id[id].last_packet_id = t.by_id[id].last_packet_id
    BY <1>1, Zenon DEF retire, TableOK, EntryOK
  <1> HIDE DEF s
  <1>3. TableOK(T, s)
    <2>1. EntryOK(T, s.by_id[id])
      BY <1>1, <1>2 DEF TableOK, EntryOK
    <2>2. \A i \in DOMAIN s.by_id : EntryOK(T, s.by_id[i])
      BY <1>2, <2>1 DEF TableOK
    <2> QED BY <1>2, <2>2 DEF TableOK
  <1>4. \A u, x : x \in AllSpans(s, u) <=> x \in AllSpans(t, u) \ SpansOf(t, {id}, u)
    BY <1>1, <1>2 DEF AllSpans, SpansOf
  <1>5. \A u : AllSpans(s, u) = AllSpans(t, u) \ SpansOf(t, {id}, u)
    BY <1>4 DEF AllSpans, SpansOf
  <1> QED BY <1>2, <1>3, <1>5, Zenon DEF s

\* evict_stale drops the aged entries with their spans, and keeps the others.
LEMMA EvictSpans ==
  ASSUME NEW T, NEW t, TableOK(T, t), NEW cfg, NEW now
  PROVE  SpansEvicted(T, t, StaleIds(cfg, t, now), evict_stale(cfg, t, now))
  <1> SUFFICES LET stale == StaleIds(cfg, t, now)
                   s     == evict_stale(cfg, t, now)
               IN /\ TableOK(T, s)
                  /\ stale \subseteq DOMAIN t.by_id
                  /\ DOMAIN s.by_id = DOMAIN t.by_id \ stale
                  /\ \A i \in DOMAIN s.by_id : s.by_id[i] = t.by_id[i]
                  /\ \A u : AllSpans(s, u) = AllSpans(t, u) \ SpansOf(t, stale, u)
    BY Zenon DEF SpansEvicted
  <1> DEFINE stale == StaleIds(cfg, t, now)
             s     == evict_stale(cfg, t, now)
  <1>1. stale \subseteq DOMAIN t.by_id
    BY DEF StaleIds
  <1>2. /\ DOMAIN s = DOMAIN t
        /\ s.next_id = t.next_id
        /\ DOMAIN s.by_id = DOMAIN t.by_id \ stale
        /\ \A i \in DOMAIN s.by_id : s.by_id[i] = t.by_id[i]
        /\ DOMAIN s.key_to_id \subseteq DOMAIN t.key_to_id
        /\ \A k \in DOMAIN s.key_to_id : s.key_to_id[k] = t.key_to_id[k]
                                        /\ t.key_to_id[k] \notin stale
    BY DEF evict_stale, TableOK
  <1> HIDE DEF stale, s
  <1>3. TableOK(T, s)
    BY <1>1, <1>2 DEF TableOK
  <1>4. \A u, x : x \in AllSpans(s, u) <=> x \in AllSpans(t, u) \ SpansOf(t, stale, u)
    BY <1>1, <1>2 DEF AllSpans, SpansOf
  <1>5. \A u : AllSpans(s, u) = AllSpans(t, u) \ SpansOf(t, stale, u)
    BY <1>4 DEF AllSpans, SpansOf
  <1> QED BY <1>1, <1>2, <1>3, <1>5 DEF stale, s

-----------------------------------------------------------------------------
(* What entries show *)

\* The entry add_fragment opens is good and open.
LEMMA NewEntryGood ==
  ASSUME NEW T, NEW p \in Nat
  PROVE  EntryGood(T, NewReassembly(p)) /\ ~NewReassembly(p).completed
  <1>1. NewReassembly(p) \in EntryType(T)
    BY TickAssumption DEF NewReassembly, EntryType, kNoPacket
  <1> QED BY <1>1 DEF NewReassembly, EntryGood, Shown

\* Noting the packet and a terminal fragment leaves an open entry good.
LEMMA TouchedGood ==
  ASSUME NEW T, NEW r, EntryGood(T, r), ~r.completed, NEW p \in Nat, NEW off \in Nat,
         NEW more \in BOOLEAN, NEW data \in Seq(Nat),
         NEW t, t = Touched(r, p, off, more, data)
  PROVE  EntryGood(T, t) /\ ~t.completed
  <1>1. r \in EntryType(T)
    BY DEF EntryGood
  <1>2. /\ t \in EntryType(T) /\ t.fragments = r.fragments
        /\ t.completed = r.completed /\ t.retired = r.retired /\ t.parts = r.parts
    <2> DEFINE total == IF more THEN r.total_length ELSE off + Len(data)
    <2>1. total \in Nat /\ (r.have_last \/ ~more) \in BOOLEAN
      BY <1>1 DEF EntryType
    <2>2. t = [r EXCEPT !.last_packet_id = p, !.have_last = r.have_last \/ ~more,
                        !.total_length = total]
      BY DEF Touched
    <2> HIDE DEF total
    <2> QED BY <1>1, <2>1, <2>2, Zenon DEF EntryType
  <1> QED BY <1>2 DEF EntryGood, Shown

\* Storing a fragment leaves an open entry good.
LEMMA StoredGood ==
  ASSUME NEW T, NEW r, EntryGood(T, r), ~r.completed, NEW f \in SpanType(T),
         NEW t, t = Stored(r, f)
  PROVE  EntryGood(T, t) /\ ~t.completed
  <1>1. r \in EntryType(T)
    BY DEF EntryGood
  <1>2. /\ t \in EntryType(T)
        /\ t.completed = r.completed /\ t.retired = r.retired /\ t.parts = r.parts
    <2> DEFINE all == Append(r.fragments, f)
               high == Larger(r.covered_high, f.offset_bytes + Len(f.data))
    <2>1. all \in Seq(SpanType(T))
      BY <1>1 DEF EntryType
    <2>2. high \in Nat /\ r.fragment_count + 1 \in Nat
      BY <1>1 DEF EntryType, SpanType, Larger
    <2>3. t = [r EXCEPT !.fragments = all, !.fragment_count = r.fragment_count + 1,
                        !.covered_high = high]
      BY DEF Stored
    <2> HIDE DEF all, high
    <2> QED BY <1>1, <2>1, <2>2, <2>3, Zenon DEF EntryType
  <1>3. r.parts = <<>> /\ ~r.retired
    BY DEF EntryGood, Shown
  <1> QED BY <1>2, <1>3 DEF EntryGood, Shown

\* A list of fragments is one of spans into its own buffers.
LEMMA OwnTokens ==
  ASSUME NEW T, NEW s \in Seq(SpanType(T))
  PROVE  s \in Seq(SpanType(Tokens(s)))
  <1>1. ASSUME NEW i \in 1..Len(s) PROVE s[i] \in SpanType(Tokens(s))
    <2>1. s[i] \in SpanType(T) /\ s[i].token \in Tokens(s)
      BY DEF Tokens
    <2> QED BY ONLY <2>1, Zenon DEF SpanType
  <1> QED BY <1>1

\* The completion attempt: an entry that completes shows its whole datagram,
\* in parts of the buffers its fragments came in.
LEMMA SettledGood ==
  ASSUME AssemblyWorks, NEW T, NEW r, EntryGood(T, r), ~r.completed, NEW t, t = Settled(r)
  PROVE  EntryGood(T, t) /\ ~t.retired
  <1> DEFINE s == r.fragments
             a == Assemble(s, r.total_length)
  <1>1. r \in EntryType(T) /\ r.parts = <<>> /\ ~r.retired
    BY DEF EntryGood, Shown
  <1>2. s \in Seq(SpanType(T)) /\ r.total_length \in Nat /\ s \in Seq(SpanType(Tokens(s)))
    BY <1>1, OwnTokens DEF EntryType
  <1>3. /\ a.parts \in Seq(PartType(T))
        /\ a.verdict = "complete" => Len(Bytes(a.parts)) = r.total_length
    BY <1>2, Zenon DEF AssemblyWorks
  <1>4. a.parts \in Seq(PartType(Tokens(s)))
    BY <1>2, Zenon DEF AssemblyWorks
  <1>5. CASE ~r.have_last
    BY <1>1, <1>5 DEF Settled
  <1>6. CASE r.have_last
    <2> DEFINE c == r.conflict \/ a.verdict = "conflict"
               d == a.verdict = "complete"
               q == IF a.verdict = "complete" THEN a.parts ELSE r.parts
    <2>1. t = [r EXCEPT !.conflict = c, !.completed = d, !.parts = q]
      BY <1>6 DEF Settled
    <2>2. c \in BOOLEAN /\ d \in BOOLEAN /\ q \in Seq(PartType(T))
      BY <1>1, <1>3 DEF EntryType
    <2>3. /\ d => Len(Bytes(q)) = r.total_length
          /\ ~d => q = <<>>
          /\ \A n \in 1..Len(q) : q[n].token \in Tokens(s)
      <3>1. CASE d
        <4>1. q \in Seq(PartType(Tokens(s)))
          BY <1>4, <3>1
        <4>2. Len(Bytes(q)) = r.total_length
          BY <1>3, <3>1
        <4> HIDE DEF q, d
        <4>3. \A n \in 1..Len(q) : q[n].token \in Tokens(s)
          <5>1. \A n \in 1..Len(q) : q[n] \in PartType(Tokens(s))
            BY ONLY <4>1
          <5> QED BY ONLY <5>1 DEF PartType
        <4> QED BY <3>1, <4>2, <4>3
      <3>2. CASE ~d
        BY <1>1, <3>2
      <3> QED BY <3>1, <3>2
    <2> HIDE DEF c, d, q, a
    <2>4. /\ t \in EntryType(T) /\ t.fragments = s /\ t.total_length = r.total_length
          /\ t.completed = d /\ t.parts = q /\ t.retired = r.retired
      BY <1>1, <2>1, <2>2, Zenon DEF EntryType
    <2> QED BY <1>1, <2>3, <2>4 DEF EntryGood, Shown
  <1> QED BY <1>5, <1>6

\* All of add_fragment on one open entry.
LEMMA ReceivedGood ==
  ASSUME AssemblyWorks, NEW T, NEW r, EntryGood(T, r), ~r.completed, NEW cfg, NEW p \in Nat,
         NEW off \in Nat, NEW more \in BOOLEAN, NEW data \in Seq(Nat), NEW tk \in T,
         NEW t, t = Received(cfg, r, p, off, more, data, tk)
  PROVE  EntryGood(T, t) /\ ~t.retired
  <1> DEFINE r1 == Touched(r, p, off, more, data)
             span == FragmentSpan(off, p, more, data, tk)
             r2 == Stored(r1, span)
  <1>1. EntryGood(T, r1) /\ ~r1.completed
    BY TouchedGood
  <1>2. span \in SpanType(T)
    BY DEF FragmentSpan, SpanType
  <1>3. EntryGood(T, r2) /\ ~r2.completed
    BY <1>1, <1>2, StoredGood
  <1>4. EntryGood(T, Settled(r2)) /\ ~Settled(r2).retired
    BY <1>3, SettledGood
  <1>5. ~r1.retired
    BY <1>1 DEF EntryGood, Shown
  <1>6. t = r1 \/ t = Settled(r2)
    BY DEF Received
  <1> QED BY <1>1, <1>4, <1>5, <1>6

-----------------------------------------------------------------------------
(* What whole tables show *)

\* An empty table is good.
LEMMA EmptyTableGood ==
  ASSUME NEW T
  PROVE  TableGood(T, EmptyTable)
  BY EmptyTableOK DEF TableGood, EmptyTable

\* add_fragment keeps a table good, touches one open entry of it, and says
\* truly whether that entry is complete now.
LEMMA AddGood ==
  ASSUME AssemblyWorks, NEW T, NEW t, TableGood(T, t), NEW cfg, NEW key, NEW p \in Nat,
         NEW off \in Nat, NEW more \in BOOLEAN, NEW data \in Seq(Nat), NEW tk \in T,
         NEW res, res = add_fragment(cfg, t, key, p, off, more, data, tk)
  PROVE  Answered(T, t, res)
  <1> DEFINE id == EntryId(t, key)
             r0 == EntryOf(t, key, p)
             r  == Received(cfg, r0, p, off, more, data, tk)
             s  == Filed(t, key, id, r)
  <1>1. CASE AtCapacity(cfg, t, key)
    BY <1>1 DEF add_fragment, NoResult, Answered
  <1>2. CASE ~AtCapacity(cfg, t, key)
    <2>1. res.table = s /\ res.datagram_id = id /\ res.completed = r.completed
      BY <1>2 DEF add_fragment
    <2>2. TableOK(T, t)
      BY DEF TableGood
    <2>3. EntryGood(T, r0) /\ ~r0.completed /\ EntryOK(T, r0)
      <3>1. CASE key \in DOMAIN t.key_to_id
        <4>1. r0 = t.by_id[t.key_to_id[key]] /\ t.key_to_id[key] \in DOMAIN t.by_id
          BY <2>2, <3>1 DEF EntryOf, TableOK
        <4> QED BY <2>2, <3>1, <4>1 DEF TableGood, TableOK
      <3>2. CASE key \notin DOMAIN t.key_to_id
        BY <3>2, NewEntryGood, NewEntryOK DEF EntryOf
      <3> QED BY <3>1, <3>2
    <2>4. EntryGood(T, r) /\ ~r.retired
      BY <2>3, ReceivedGood
    <2>5. EntryOK(T, r)
      BY <2>3, ReceivedOK
    <2> HIDE DEF r, s, id
    <2>6. /\ TableOK(T, s)
          /\ DOMAIN s.by_id = DOMAIN t.by_id \cup {id}
          /\ s.by_id[id] = r
          /\ \A i \in DOMAIN t.by_id \ {id} : s.by_id[i] = t.by_id[i]
      BY <2>2, <2>5, FiledOK DEF id, s
    <2>7. IF id \in DOMAIN t.by_id THEN ~t.by_id[id].completed /\ s.next_id = t.next_id
                                   ELSE id = t.next_id /\ s.next_id = t.next_id + 1
      <3>1. CASE key \in DOMAIN t.key_to_id
        BY <2>2, <3>1 DEF id, s, EntryId, Filed, TableGood, TableOK
      <3>2. CASE key \notin DOMAIN t.key_to_id
        BY <2>2, <3>2 DEF id, s, EntryId, Filed, TableOK
      <3> QED BY <3>1, <3>2
    <2>8. \A i \in DOMAIN s.by_id : EntryGood(T, s.by_id[i])
      BY <2>4, <2>6 DEF TableGood
    <2>9. ASSUME NEW k \in DOMAIN s.key_to_id PROVE ~s.by_id[s.key_to_id[k]].completed
      <3>1. CASE r.completed
        <4>1. k \in DOMAIN t.key_to_id \ {key} /\ s.key_to_id[k] = t.key_to_id[k]
          BY <2>9, <3>1 DEF s, Filed
        <4>2. t.key_to_id[k] \in DOMAIN t.by_id /\ ~t.by_id[t.key_to_id[k]].completed
          BY <4>1 DEF TableGood, TableOK
        <4>3. t.key_to_id[k] # id
          <5>1. CASE key \in DOMAIN t.key_to_id
            BY <4>1, <5>1 DEF id, EntryId, TableGood
          <5>2. CASE key \notin DOMAIN t.key_to_id
            BY <2>2, <4>2, <5>2 DEF id, EntryId, TableOK
          <5> QED BY <5>1, <5>2
        <4> QED BY <2>6, <4>1, <4>2, <4>3
      <3>2. CASE ~r.completed
        BY <2>2, <2>6, <2>9, <3>2, Zenon DEF s, Filed, TableGood, TableOK
      <3> QED BY <3>1, <3>2
    <2>10. ASSUME NEW j \in DOMAIN s.key_to_id, NEW k \in DOMAIN s.key_to_id,
                  s.key_to_id[j] = s.key_to_id[k]
           PROVE  j = k
      <3>1. CASE key \in DOMAIN t.key_to_id
        BY <2>10, <3>1 DEF s, id, Filed, EntryId, TableGood
      <3>2. CASE key \notin DOMAIN t.key_to_id
        <4>1. \A x \in DOMAIN t.key_to_id : t.key_to_id[x] # id
          BY <2>2, <3>2 DEF id, EntryId, TableOK
        <4> QED BY <2>10, <3>2, <4>1 DEF s, Filed, TableGood
      <3> QED BY <3>1, <3>2
    <2>11. TableGood(T, s)
      BY <2>6, <2>8, <2>9, <2>10 DEF TableGood
    <2>12. Grown(t, s, id)
      BY <2>4, <2>6, <2>7 DEF Grown
    <2> QED BY <2>1, <2>6, <2>11, <2>12 DEF Answered
  <1> QED BY <1>1, <1>2

\* retire empties a completed entry and keeps the table good.
LEMMA RetireGood ==
  ASSUME NEW T, NEW t, TableGood(T, t), NEW id, Retirable(t, id),
         NEW s, s = retire(t, id)
  PROVE  Emptied(T, t, id, s)
  <1> SUFFICES /\ TableGood(T, s)
               /\ s.next_id = t.next_id /\ DOMAIN s.by_id = DOMAIN t.by_id
               /\ \A i \in DOMAIN t.by_id \ {id} : s.by_id[i] = t.by_id[i]
               /\ s.by_id[id].fragments = <<>> /\ s.by_id[id].completed
    BY Zenon DEF Emptied
  <1> DEFINE r == t.by_id[id]
             e == [r EXCEPT !.fragments = <<>>, !.parts = <<>>, !.retired = TRUE]
  <1>1. id \in DOMAIN t.by_id /\ r.completed /\ TableOK(T, t) /\ EntryGood(T, r)
    BY DEF Retirable, TableGood
  <1>2. s = [t EXCEPT !.by_id = [t.by_id EXCEPT ![id] = e]]
    BY <1>1, Zenon DEF retire, TableOK
  <1>3. r \in EntryType(T) /\ <<>> \in Seq(SpanType(T)) /\ <<>> \in Seq(PartType(T))
    BY <1>1 DEF EntryGood
  <1>4. e \in EntryType(T) /\ e.fragments = <<>> /\ e.parts = <<>> /\ e.retired
        /\ e.completed = r.completed
    BY <1>3, Zenon DEF EntryType
  <1> HIDE DEF e
  <1>5. EntryGood(T, e)
    BY <1>1, <1>4 DEF EntryGood, Shown
  <1>6. /\ s.next_id = t.next_id /\ DOMAIN s.by_id = DOMAIN t.by_id
        /\ \A i \in DOMAIN t.by_id \ {id} : s.by_id[i] = t.by_id[i]
        /\ s.by_id[id] = e /\ s.key_to_id = t.key_to_id
    BY <1>1, <1>2 DEF TableOK
  <1>7. TableOK(T, s)
    BY <1>1, RetireSpans, Zenon DEF SpansRetired
  <1>8. \A i \in DOMAIN s.by_id : EntryGood(T, s.by_id[i])
    BY <1>5, <1>6 DEF TableGood
  <1>9. \A k \in DOMAIN s.key_to_id : ~s.by_id[s.key_to_id[k]].completed
    BY <1>1, <1>6 DEF TableGood, TableOK
  <1>10. TableGood(T, s)
    BY <1>6, <1>7, <1>8, <1>9 DEF TableGood
  <1> QED BY <1>1, <1>4, <1>6, <1>10, Zenon

\* evict_stale takes entries away whole and keeps the table good.
LEMMA EvictGood ==
  ASSUME NEW T, NEW t, TableGood(T, t), NEW cfg, NEW now,
         NEW s, s = evict_stale(cfg, t, now)
  PROVE  Evicted(T, t, StaleIds(cfg, t, now), s)
  <1> SUFFICES /\ TableGood(T, s)
               /\ s.next_id = t.next_id
               /\ DOMAIN s.by_id = DOMAIN t.by_id \ StaleIds(cfg, t, now)
               /\ \A i \in DOMAIN s.by_id : s.by_id[i] = t.by_id[i]
    BY Zenon DEF Evicted
  <1> DEFINE stale == StaleIds(cfg, t, now)
  <1>1. TableOK(T, t)
    BY DEF TableGood
  <1>2. TableOK(T, s)
    BY <1>1, EvictSpans, Zenon DEF SpansEvicted
  <1>3. /\ s.next_id = t.next_id
        /\ DOMAIN s.by_id = DOMAIN t.by_id \ stale
        /\ \A i \in DOMAIN s.by_id : s.by_id[i] = t.by_id[i]
        /\ DOMAIN s.key_to_id \subseteq DOMAIN t.key_to_id
        /\ \A k \in DOMAIN s.key_to_id : s.key_to_id[k] = t.key_to_id[k]
    BY <1>1 DEF evict_stale, TableOK
  <1> HIDE DEF stale
  <1>4. \A k \in DOMAIN s.key_to_id : s.key_to_id[k] \in DOMAIN s.by_id
    BY <1>2 DEF TableOK
  <1>5. TableGood(T, s)
    BY <1>2, <1>3, <1>4 DEF TableGood
  <1> QED BY <1>3, <1>5 DEF stale

-----------------------------------------------------------------------------
(* The contract *)

\* The four operations of a reassembly table keep what they promise: the spans
\* they add and drop, and what they answer about an entry.
LEMMA ContractFollows ==
  ASSUME AssemblyWorks
  PROVE  TableContract
  <1>1. ASSUME NEW T PROVE TableGood(T, EmptyTable) /\ \A u : AllSpans(EmptyTable, u) = {}
    BY EmptyTableOK, EmptyTableGood
  <1>2. ASSUME NEW T, NEW t, NEW cfg, NEW key, NEW p \in Nat, NEW off \in Nat,
               NEW more \in BOOLEAN, NEW data \in Seq(Nat), NEW tk \in T
        PROVE  LET res == add_fragment(cfg, t, key, p, off, more, data, tk)
               IN /\ TableOK(T, t) => SpanAdded(T, t, p, tk, res)
                  /\ TableGood(T, t) => Answered(T, t, res)
    <2> DEFINE res == add_fragment(cfg, t, key, p, off, more, data, tk)
    <2> HIDE DEF res
    <2>1. res = add_fragment(cfg, t, key, p, off, more, data, tk)
      BY DEF res
    <2>2. TableOK(T, t) => SpanAdded(T, t, p, tk, res)
      BY <2>1, AddSpans
    <2>3. TableGood(T, t) => Answered(T, t, res)
      BY <2>1, AddGood
    <2> QED BY <2>2, <2>3, Zenon DEF res
  <1>3. ASSUME NEW T, NEW t, NEW id, Retirable(t, id)
        PROVE  /\ TableOK(T, t) => SpansRetired(T, t, id, retire(t, id))
               /\ TableGood(T, t) => Emptied(T, t, id, retire(t, id))
    BY <1>3, RetireSpans, RetireGood
  <1>4. ASSUME NEW T, NEW t, NEW cfg, NEW now
        PROVE  /\ TableOK(T, t) => SpansEvicted(T, t, StaleIds(cfg, t, now), evict_stale(cfg, t, now))
               /\ TableGood(T, t) => Evicted(T, t, StaleIds(cfg, t, now), evict_stale(cfg, t, now))
    BY EvictSpans, EvictGood
  <1> QED BY <1>1, <1>2, <1>3, <1>4, Zenon DEF TableContract

-----------------------------------------------------------------------------
(* Induction and recursion over the natural numbers, stated with sets. *)

\* A non-empty set of natural numbers has a least member: what the loops
\* of add_fragment are counted down with.
LEMMA LeastNat ==
  ASSUME NEW S, S \subseteq Nat, S # {}
  PROVE  \E n \in S : \A m \in S : n <= m
  <1>1. \E x \in S : \A y \in S : ~(<<y, x>> \in OpToRel(<, Nat))
    BY NatLessThanWellFounded, WFMin, Zenon
  <1>2. PICK x \in S : \A y \in S : ~(<<y, x>> \in OpToRel(<, Nat))
    BY <1>1, Zenon
  <1>3. \A y \in S : ~(y < x)
    BY <1>2, Zenon DEF OpToRel
  <1> QED BY <1>3

\* Induction over the natural numbers, for a set: it carries every fact
\* about the loops over a datagram's fragments from one round to the next.
LEMMA Induction ==
  ASSUME NEW P, 0 \in P, \A n \in Nat : n \in P => n + 1 \in P
  PROVE  Nat \subseteq P
  <1> DEFINE S == Nat \ P
  <1>1. SUFFICES ASSUME S # {} PROVE FALSE
    OBVIOUS
  <1>2. PICK n \in S : \A m \in S : n <= m
    BY <1>1, LeastNat, Zenon
  <1>3. n \in Nat /\ n # 0
    BY <1>2
  <1>4. n - 1 \in Nat /\ ~(n <= n - 1) /\ (n - 1) + 1 = n
    BY ONLY <1>3
  <1>5. n - 1 \in P
    BY <1>2, <1>4
  <1> QED BY <1>2, <1>4, <1>5

\* A recursion over 0..L on the values A, and what solves it.
Steps(A, L) == [A \X (1..L) -> A]
\* f lists the values a loop goes through: f[n] is the value after n rounds.
Solves(f, base, L, step) ==
  f[0] = base /\ \A n \in 1..L : f[n] = step[<<f[n - 1], n>>]

\* A loop of L rounds has values after each of them.
LEMMA Recursion ==
  ASSUME NEW A, NEW base \in A, NEW L \in Nat, NEW step \in Steps(A, L)
  PROVE  \E f \in [0..L -> A] : Solves(f, base, L, step)
  <1> DEFINE P == {k \in Nat : k <= L => \E f \in [0..k -> A] : Solves(f, base, k, step)}
  <1>1. 0 \in P
    <2> DEFINE f == [n \in 0..0 |-> base]
    <2>1. f \in [0..0 -> A] /\ Solves(f, base, 0, step)
      BY DEF Solves
    <2> QED BY <2>1
  <1>2. ASSUME NEW k \in Nat, k \in P, k + 1 <= L
        PROVE  \E f \in [0..(k + 1) -> A] : Solves(f, base, k + 1, step)
    <2>1. PICK f \in [0..k -> A] : Solves(f, base, k, step)
      BY <1>2
    <2> DEFINE g == [n \in 0..(k + 1) |-> IF n <= k THEN f[n] ELSE step[<<f[k], k + 1>>]]
    <2>2. f[k] \in A /\ step[<<f[k], k + 1>>] \in A
      BY <1>2, <2>1 DEF Steps
    <2>3. g \in [0..(k + 1) -> A]
      BY <2>1, <2>2
    <2>4. ASSUME NEW n \in 1..(k + 1)
          PROVE  g[n] = step[<<g[n - 1], n>>]
      <3>1. CASE n \in 1..k
        <4>1. g[n] = f[n] /\ g[n - 1] = f[n - 1]
          BY <3>1
        <4> HIDE DEF g
        <4> QED BY <2>1, <3>1, <4>1 DEF Solves
      <3>2. CASE n = k + 1
        <4>1. g[n] = step[<<f[k], k + 1>>] /\ g[n - 1] = f[k]
          BY <3>2
        <4> QED BY <3>2, <4>1
      <3> QED BY <3>1, <3>2
    <2>5. g[0] = base
      BY <2>1 DEF Solves
    <2> HIDE DEF g
    <2>6. Solves(g, base, k + 1, step)
      BY <2>4, <2>5 DEF Solves
    <2> QED BY <2>3, <2>6
  <1>3. Nat \subseteq P
    <2>1. \A k \in Nat : k \in P => k + 1 \in P
      BY <1>2
    <2> HIDE DEF P
    <2> QED BY <1>1, <2>1, Induction
  <1> QED BY <1>3

\* What follows the recursion as long as its values stay in A has the values
\* of any other such function, all of them in A.
Follows(f, A, base, L, step) ==
  f[0] = base /\ \A n \in 1..L : f[n - 1] \in A => f[n] = step[<<f[n - 1], n>>]

\* Two loops go through the same values, all of them in A.
Agree(f, g, A, L) == \A n \in 0..L : f[n] \in A /\ f[n] = g[n]

\* A loop over the fragments goes through one list of values only.
LEMMA RecursionUnique ==
  ASSUME NEW A, NEW base \in A, NEW L \in Nat, NEW step \in Steps(A, L),
         NEW f, Follows(f, A, base, L, step),
         NEW g, Follows(g, A, base, L, step)
  PROVE  Agree(f, g, A, L)
  <1> DEFINE P == {k \in Nat : k <= L => f[k] \in A /\ f[k] = g[k]}
  <1>1. 0 \in P
    BY DEF Follows
  <1>2. ASSUME NEW k \in Nat, k \in P, k + 1 <= L
        PROVE  f[k + 1] \in A /\ f[k + 1] = g[k + 1]
    <2>1. k + 1 \in 1..L /\ (k + 1) - 1 = k
      BY <1>2
    <2>2. f[k] \in A /\ f[k] = g[k]
      BY <1>2
    <2>3. f[k + 1] = step[<<f[k], k + 1>>] /\ g[k + 1] = step[<<f[k], k + 1>>]
      BY <2>1, <2>2 DEF Follows
    <2> QED BY <2>1, <2>2, <2>3 DEF Steps
  <1>3. Nat \subseteq P
    <2>1. \A k \in Nat : k \in P => k + 1 \in P
      BY <1>2
    <2> HIDE DEF P
    <2> QED BY <1>1, <2>1, Induction
  <1> QED BY <1>3 DEF Agree

\* What follows a recursion of N rounds follows, for fewer rounds, any recursion
\* with the same ones.
LEMMA FollowsShorter ==
  ASSUME NEW f, NEW A, NEW base, NEW N, NEW L, NEW step, NEW other,
         Follows(f, A, base, N, step), \A n \in 1..L : n \in 1..N,
         \A v \in A, n \in 1..L : step[<<v, n>>] = other[<<v, n>>]
  PROVE  Follows(f, A, base, L, other)
  BY Zenon DEF Follows

-----------------------------------------------------------------------------
(* The stored bytes of a fragment list *)

\* One round of the sum of the fragments' lengths.
AddLength(s) == [x \in Nat \X (1..Len(s)) |-> x[1] + Len(s[x[2]].data)]

\* A round of the size check's loop adds one fragment's length.
LEMMA AddLengthStep ==
  ASSUME NEW T, NEW s \in Seq(SpanType(T))
  PROVE  /\ AddLength(s) \in Steps(Nat, Len(s))
         /\ \A v \in Nat, n \in 1..Len(s) : AddLength(s)[<<v, n>>] = v + Len(s[n].data)
  <1>1. \A n \in 1..Len(s) : s[n] \in SpanType(T)
    OBVIOUS
  <1>2. \A f \in SpanType(T) : Len(f.data) \in Nat
    BY DEF SpanType
  <1>3. \A n \in 1..Len(s) : Len(s[n].data) \in Nat
    BY <1>1, <1>2
  <1> QED BY <1>3 DEF AddLength, Steps

\* StoredBytes follows the recursion.
LEMMA StoredBytesFold ==
  ASSUME NEW T, NEW s \in Seq(SpanType(T))
  PROVE  \E f : Follows(f, Nat, 0, Len(s), AddLength(s)) /\ StoredBytes(s) = f[Len(s)]
  <1> DEFINE Body(h) == [n \in 0..Len(s) |-> IF n = 0 THEN 0 ELSE h[n - 1] + Len(s[n].data)]
             g == CHOOSE h : h = Body(h)
  <1>1. PICK f \in [0..Len(s) -> Nat] : Solves(f, 0, Len(s), AddLength(s))
    <2>1. 0 \in Nat /\ Len(s) \in Nat
      OBVIOUS
    <2> QED BY <2>1, AddLengthStep, Recursion, Zenon
  <1>2. f = Body(f)
    <2>1. \A n \in 1..Len(s) : n - 1 \in 0..Len(s)
      OBVIOUS
    <2>2. \A n \in 1..Len(s) : f[n - 1] \in Nat
      BY <1>1, <2>1
    <2>3. \A n \in 1..Len(s) : f[n] = f[n - 1] + Len(s[n].data)
      BY <1>1, <2>2, AddLengthStep, Zenon DEF Solves
    <2> QED BY <1>1, <2>3 DEF Solves
  <1>3. g = Body(g)
    BY <1>2, Zenon
  <1>4. StoredBytes(s) = g[Len(s)]
    BY DEF StoredBytes, FoldInOrder
  <1> HIDE DEF g
  <1>5. g[0] = 0 /\ \A n \in 1..Len(s) : g[n] = g[n - 1] + Len(s[n].data)
    BY <1>3
  <1>6. Follows(g, Nat, 0, Len(s), AddLength(s))
    BY <1>5, AddLengthStep, Zenon DEF Follows
  <1> QED BY <1>4, <1>6

\* Storing a fragment adds its length to what the size check of
\* add_fragment counts, and to nothing else.
LEMMA StoredBytesAppend ==
  ASSUME NEW T, NEW s \in Seq(SpanType(T)), NEW f \in SpanType(T)
  PROVE  /\ StoredBytes(s) \in Nat
         /\ StoredBytes(Append(s, f)) = StoredBytes(s) + Len(f.data)
  <1> DEFINE u == Append(s, f)
             L == Len(s)
  <1>1. u \in Seq(SpanType(T)) /\ Len(u) = L + 1 /\ L \in Nat /\ u[L + 1] = f
    OBVIOUS
  <1>2. \A n \in 1..L : u[n] = s[n]
    OBVIOUS
  <1> HIDE DEF u
  <1>3. PICK a : Follows(a, Nat, 0, Len(s), AddLength(s)) /\ StoredBytes(s) = a[Len(s)]
    BY StoredBytesFold
  <1>4. PICK b : Follows(b, Nat, 0, Len(u), AddLength(u)) /\ StoredBytes(u) = b[Len(u)]
    BY <1>1, StoredBytesFold
  <1>5. Follows(b, Nat, 0, L, AddLength(s))
    <2>1. \A n \in 1..L : n \in 1..Len(u)
      BY <1>1
    <2>2. \A v \in Nat, n \in 1..L : AddLength(u)[<<v, n>>] = AddLength(s)[<<v, n>>]
      <3>1. \A v \in Nat, n \in 1..Len(u) : AddLength(u)[<<v, n>>] = v + Len(u[n].data)
        BY <1>1, AddLengthStep, Zenon
      <3>2. \A v \in Nat, n \in 1..Len(s) : AddLength(s)[<<v, n>>] = v + Len(s[n].data)
        BY AddLengthStep, Zenon
      <3> QED BY <1>2, <2>1, <3>1, <3>2, Zenon
    <2> QED BY ONLY <1>4, <2>1, <2>2, FollowsShorter
  <1>6. Agree(a, b, Nat, L)
    <2>1. 0 \in Nat /\ AddLength(s) \in Steps(Nat, L)
      BY AddLengthStep
    <2>2. L \in Nat /\ Follows(a, Nat, 0, L, AddLength(s))
      BY <1>1, <1>3
    <2> HIDE DEF L
    <2> QED BY ONLY <1>5, <2>1, <2>2, RecursionUnique, Zenon
  <1>7. b[L + 1] = b[L] + Len(u[L + 1].data)
    <2>1. L + 1 \in 1..Len(u) /\ (L + 1) - 1 = L /\ L \in 0..L
      BY <1>1
    <2>2. b[L] \in Nat
      BY <1>6, <2>1 DEF Agree
    <2>3. b[L + 1] = AddLength(u)[<<b[L], L + 1>>]
      BY <1>4, <2>1, <2>2 DEF Follows
    <2> QED BY <1>1, <2>1, <2>2, <2>3, AddLengthStep, Zenon
  <1> QED BY <1>1, <1>3, <1>4, <1>6, <1>7 DEF u, Agree

\* A datagram with no fragment has no byte stored, as when
\* add_fragment opens it.
LEMMA StoredBytesEmpty == StoredBytes(<<>>) = 0
  <1> DEFINE Body(h) == [n \in 0..Len(<<>>) |-> IF n = 0 THEN 0 ELSE h[n - 1] + Len(<<>>[n].data)]
             g == CHOOSE h : h = Body(h)
             f == [n \in 0..0 |-> 0]
  <1>1. f = Body(f)
    OBVIOUS
  <1>2. g = Body(g)
    BY <1>1
  <1>3. StoredBytes(<<>>) = g[0]
    BY DEF StoredBytes, FoldInOrder
  <1> HIDE DEF g
  <1> QED BY <1>2, <1>3

-----------------------------------------------------------------------------
(* The bytes a list of parts shows *)

\* One round of gathering the parts.
AddBytes(s) == [x \in Seq(Nat) \X (1..Len(s)) |-> x[1] \o s[x[2]].data]

\* A round of the gathering loop of materialize appends one part's bytes.
LEMMA AddBytesStep ==
  ASSUME NEW T, NEW s \in Seq(PartType(T))
  PROVE  /\ AddBytes(s) \in Steps(Seq(Nat), Len(s))
         /\ \A v \in Seq(Nat), n \in 1..Len(s) : AddBytes(s)[<<v, n>>] = v \o s[n].data
  <1>1. \A n \in 1..Len(s) : s[n] \in PartType(T)
    OBVIOUS
  <1>2. \A f \in PartType(T) : f.data \in Seq(Nat)
    BY DEF PartType
  <1>3. \A n \in 1..Len(s) : s[n].data \in Seq(Nat)
    BY <1>1, <1>2
  <1>4. \A v \in Seq(Nat), n \in 1..Len(s) : v \o s[n].data \in Seq(Nat)
    BY <1>3
  <1> QED BY <1>4, Zenon DEF AddBytes, Steps

\* Bytes follows that recursion, as the gathering loop does.
LEMMA BytesFold ==
  ASSUME NEW T, NEW s \in Seq(PartType(T))
  PROVE  \E f : Follows(f, Seq(Nat), <<>>, Len(s), AddBytes(s)) /\ Bytes(s) = f[Len(s)]
  <1> DEFINE After(v, n) == v \o s[n].data
             Body(h) == [n \in 0..Len(s) |-> IF n = 0 THEN <<>> ELSE After(h[n - 1], n)]
             g == CHOOSE h : h = Body(h)
  <1>1. PICK f \in [0..Len(s) -> Seq(Nat)] : Solves(f, <<>>, Len(s), AddBytes(s))
    <2>1. <<>> \in Seq(Nat) /\ Len(s) \in Nat
      OBVIOUS
    <2> QED BY <2>1, AddBytesStep, Recursion, Zenon
  <1>2. Bytes(s) = g[Len(s)]
    BY DEF Bytes, FoldInOrder
  <1>3. \A v \in Seq(Nat), n \in 1..Len(s) : AddBytes(s)[<<v, n>>] = After(v, n)
    BY AddBytesStep, Zenon
  <1> HIDE DEF After
  <1>4. f = Body(f)
    <2>1. \A n \in 1..Len(s) : n - 1 \in 0..Len(s)
      OBVIOUS
    <2>2. \A n \in 1..Len(s) : f[n - 1] \in Seq(Nat)
      BY <1>1, <2>1
    <2>3. \A n \in 1..Len(s) : f[n] = After(f[n - 1], n)
      BY <1>1, <1>3, <2>2, Zenon DEF Solves
    <2>4. f[0] = <<>>
      BY <1>1 DEF Solves
    <2> QED BY <1>1, <2>3, <2>4
  <1>5. g = Body(g)
    BY <1>4, Zenon
  <1> HIDE DEF g
  <1>6. g[0] = <<>> /\ \A n \in 1..Len(s) : g[n] = After(g[n - 1], n)
    BY <1>5
  <1>7. Follows(g, Seq(Nat), <<>>, Len(s), AddBytes(s))
    BY <1>3, <1>6 DEF Follows
  <1> QED BY <1>2, <1>7

\* A part emitted by the completion loop adds its bytes at the end.
LEMMA BytesAppend ==
  ASSUME NEW T, NEW s \in Seq(PartType(T)), NEW p \in PartType(T)
  PROVE  Bytes(Append(s, p)) = Bytes(s) \o p.data
  <1> DEFINE u == Append(s, p)
             L == Len(s)
  <1>1. u \in Seq(PartType(T)) /\ Len(u) = L + 1 /\ L \in Nat /\ u[L + 1] = p
    OBVIOUS
  <1>2. \A n \in 1..L : u[n] = s[n]
    OBVIOUS
  <1> HIDE DEF u
  <1>3. PICK a : Follows(a, Seq(Nat), <<>>, Len(s), AddBytes(s)) /\ Bytes(s) = a[Len(s)]
    BY BytesFold
  <1>4. PICK b : Follows(b, Seq(Nat), <<>>, Len(u), AddBytes(u)) /\ Bytes(u) = b[Len(u)]
    BY <1>1, BytesFold
  <1>5. Follows(b, Seq(Nat), <<>>, L, AddBytes(s))
    <2>1. \A n \in 1..L : n \in 1..Len(u)
      BY <1>1
    <2>2. \A v \in Seq(Nat), n \in 1..L : AddBytes(u)[<<v, n>>] = AddBytes(s)[<<v, n>>]
      BY <1>1, <1>2, <2>1, AddBytesStep, Zenon
    <2> QED BY ONLY <1>4, <2>1, <2>2, FollowsShorter
  <1>6. Agree(a, b, Seq(Nat), L)
    <2>1. <<>> \in Seq(Nat) /\ AddBytes(s) \in Steps(Seq(Nat), L)
      BY AddBytesStep
    <2>2. L \in Nat /\ Follows(a, Seq(Nat), <<>>, L, AddBytes(s))
      BY <1>1, <1>3
    <2> HIDE DEF L
    <2> QED BY ONLY <1>5, <2>1, <2>2, RecursionUnique, Zenon
  <1>7. b[L + 1] = b[L] \o u[L + 1].data
    <2>1. L + 1 \in 1..Len(u) /\ (L + 1) - 1 = L /\ L \in 0..L
      BY <1>1
    <2>2. b[L] \in Seq(Nat)
      BY <1>6, <2>1 DEF Agree
    <2>3. b[L + 1] = AddBytes(u)[<<b[L], L + 1>>]
      BY <1>4, <2>1, <2>2 DEF Follows
    <2> QED BY <1>1, <2>1, <2>2, <2>3, AddBytesStep, Zenon
  <1>8. Bytes(s) = b[L]
    BY <1>1, <1>3, <1>6 DEF Agree
  <1>9. Bytes(u) = b[L] \o p.data
    BY <1>1, <1>4, <1>7
  <1> QED BY <1>8, <1>9 DEF u

\* What the parts show is a sequence of bytes.
LEMMA BytesTyped ==
  ASSUME NEW T, NEW s \in Seq(PartType(T))
  PROVE  Bytes(s) \in Seq(Nat)
  <1>1. PICK a : Follows(a, Seq(Nat), <<>>, Len(s), AddBytes(s)) /\ Bytes(s) = a[Len(s)]
    BY BytesFold
  <1> DEFINE L == Len(s)
  <1>2. L \in Nat /\ L \in 0..L /\ <<>> \in Seq(Nat) /\ AddBytes(s) \in Steps(Seq(Nat), L)
    BY AddBytesStep
  <1>3. Follows(a, Seq(Nat), <<>>, L, AddBytes(s))
    BY <1>1
  <1> HIDE DEF L
  <1>4. Agree(a, a, Seq(Nat), L)
    BY ONLY <1>2, <1>3, RecursionUnique, Zenon
  <1> QED BY <1>1, <1>2, <1>4 DEF Agree, L

\* No part, no byte: where the completion loop starts.
LEMMA BytesEmpty == Bytes(<<>>) = <<>>
  <1> DEFINE Body(h) == [n \in 0..Len(<<>>) |-> IF n = 0 THEN <<>> ELSE h[n - 1] \o <<>>[n].data]
             g == CHOOSE h : h = Body(h)
             f == [n \in 0..0 |-> <<>>]
  <1>1. f = Body(f)
    OBVIOUS
  <1>2. g = Body(g)
    BY <1>1
  <1>3. Bytes(<<>>) = g[0]
    BY DEF Bytes, FoldInOrder
  <1> HIDE DEF g
  <1> QED BY <1>2, <1>3

-----------------------------------------------------------------------------
(* The sort *)

\* Place is where insertion has to happen, whatever the list.
LEMMA PlaceOK ==
  ASSUME NEW T, NEW s \in Seq(SpanType(T)), NEW f \in SpanType(T)
  PROVE  /\ Place(f, s) \in 0..Len(s)
         /\ Place(f, s) > 0 => ~Before(f, s[Place(f, s)])
         /\ \A i \in (Place(f, s) + 1)..Len(s) : Before(f, s[i])
  <1> DEFINE S == {k \in 0..Len(s) : \A i \in (k + 1)..Len(s) : Before(f, s[i])}
  <1>1. S \subseteq Nat /\ S # {}
    <2>1. Len(s) \in S
      OBVIOUS
    <2> QED BY <2>1
  <1>2. PICK k \in S : \A m \in S : k <= m
    BY <1>1, LeastNat, Zenon
  <1>3. ASSUME k > 0 PROVE ~Before(f, s[k])
    <2>0. k \in Nat /\ ~(k <= k - 1)
      BY <1>1, <1>2
    <2>1. SUFFICES ASSUME Before(f, s[k]) PROVE k - 1 \in S
      BY <1>2, <2>0, Zenon
    <2>2. \A i \in ((k - 1) + 1)..Len(s) : i = k \/ i \in (k + 1)..Len(s)
      BY <1>2
    <2>3. k - 1 \in 0..Len(s)
      BY <1>2, <1>3
    <2> QED BY <1>2, <2>1, <2>2, <2>3
  <1>4. \E j \in 0..Len(s) : /\ j > 0 => ~Before(f, s[j])
                            /\ \A i \in (j + 1)..Len(s) : Before(f, s[i])
    BY <1>2, <1>3
  <1> QED BY <1>4, Zenon DEF Place

\* The order std::sort leaves: no fragment is before one in front of it.
Sorted(s) == \A i, j \in 1..Len(s) : i < j => ~Before(s[j], s[i])

\* u is s with f put in after its first k fragments.
Inserted(u, s, k, f) ==
  /\ Len(u) = Len(s) + 1
  /\ u[k + 1] = f
  /\ \A i \in 1..k : u[i] = s[i]
  /\ \A i \in (k + 1)..Len(s) : u[i + 1] = s[i]
  /\ \A i \in (k + 2)..(Len(s) + 1) : u[i] = s[i - 1]

\* PutAfter puts the fragment there and moves nothing else.
LEMMA InsertOK ==
  ASSUME NEW T, NEW s \in Seq(SpanType(T)), NEW f \in SpanType(T), NEW k \in 0..Len(s)
  PROVE  /\ PutAfter(s, k, f) \in Seq(SpanType(T))
         /\ Inserted(PutAfter(s, k, f), s, k, f)
  <1>1. \A i \in 1..Len(s) : s[i] \in SpanType(T)
    OBVIOUS
  <1> QED BY <1>1 DEF PutAfter, Inserted

\* Inserting a fragment at its place keeps the order of the sort.
LEMMA InsertSorts ==
  ASSUME NEW T, NEW s \in Seq(SpanType(T)), NEW f \in SpanType(T), Sorted(s)
  PROVE  Sorted(PutAfter(s, Place(f, s), f))
  <1> DEFINE k == Place(f, s)
             u == PutAfter(s, k, f)
             L == Len(s)
  <1>1. /\ k \in 0..L /\ L \in Nat
        /\ k > 0 => ~Before(f, s[k])
        /\ \A i \in (k + 1)..L : Before(f, s[i])
    BY PlaceOK
  <1>2. /\ Len(u) = L + 1
        /\ u[k + 1] = f
        /\ \A i \in 1..k : u[i] = s[i]
        /\ \A i \in (k + 2)..(L + 1) : u[i] = s[i - 1]
    <2>1. Inserted(u, s, k, f)
      BY <1>1, InsertOK
    <2> QED BY <2>1 DEF Inserted
  <1> HIDE DEF k, u, L
  <1>3. \A i \in 1..L : s[i].offset_bytes \in Nat /\ s[i].packet_id \in Nat
    <2>1. \A i \in 1..L : s[i] \in SpanType(T)
      BY DEF L
    <2> QED BY <2>1 DEF SpanType
  <1>4. f.offset_bytes \in Nat /\ f.packet_id \in Nat
    BY DEF SpanType
  <1>5. \A i \in 1..k : ~Before(f, s[i])
    <2>1. SUFFICES ASSUME NEW i \in 1..k PROVE ~Before(f, s[i])
      OBVIOUS
    <2>2. CASE i = k
      BY <1>1, <2>2
    <2>3. CASE i < k
      <3>1. ~Before(s[k], s[i])
        BY <1>1, <2>3 DEF Sorted, L
      <3>2. i \in 1..L /\ k \in 1..L /\ ~Before(f, s[k])
        BY <1>1, <2>3
      <3> QED BY <1>3, <1>4, <3>1, <3>2 DEF Before
    <2> QED BY <1>1, <2>2, <2>3
  <1>6. \A i \in (k + 1)..L : ~Before(s[i], f)
    BY <1>1, <1>3, <1>4 DEF Before
  <1>7. ASSUME NEW i \in 1..(L + 1), NEW j \in 1..(L + 1), i < j
        PROVE  ~Before(u[j], u[i])
    <2>1. CASE j <= k
      <3>1. j \in 1..k /\ i \in 1..k /\ i \in 1..L /\ j \in 1..L
        BY <1>1, <1>7, <2>1
      <3> QED BY <1>2, <1>7, <3>1 DEF Sorted, L
    <2>2. CASE j = k + 1
      <3>1. i \in 1..k
        BY <1>1, <1>7, <2>2
      <3> QED BY <1>2, <1>5, <2>2, <3>1
    <2>3. CASE j > k + 1 /\ i <= k
      <3>1. i \in 1..k /\ i \in 1..L /\ j \in (k + 2)..(L + 1) /\ j - 1 \in 1..L /\ i < j - 1
        BY <1>1, <1>7, <2>3
      <3> QED BY <1>2, <3>1 DEF Sorted, L
    <2>4. CASE j > k + 1 /\ i = k + 1
      <3>1. j \in (k + 2)..(L + 1) /\ j - 1 \in (k + 1)..L
        BY <1>1, <1>7, <2>4
      <3> QED BY <1>2, <1>6, <2>4, <3>1
    <2>5. CASE j > k + 1 /\ i > k + 1
      <3>1. /\ i \in (k + 2)..(L + 1) /\ j \in (k + 2)..(L + 1)
            /\ i - 1 \in 1..L /\ j - 1 \in 1..L /\ i - 1 < j - 1
        BY <1>1, <1>7, <2>5
      <3> QED BY <1>2, <3>1 DEF Sorted, L
    <2> QED BY <1>1, <2>1, <2>2, <2>3, <2>4, <2>5
  <1> QED BY <1>2, <1>7 DEF Sorted, u, k

\* The same fragments, in two orders.
SameFragments(u, s) ==
  /\ \A i \in 1..Len(s) : \E j \in 1..Len(u) : u[j] = s[i]
  /\ \A j \in 1..Len(u) : \E i \in 1..Len(s) : s[i] = u[j]

\* One round of the sort.
SortStep(s, T) ==
  [x \in Seq(SpanType(T)) \X (1..Len(s)) |-> PutAfter(x[1], Place(s[x[2]], x[1]), s[x[2]])]

\* A round of the sort inserts one more fragment at its place.
LEMMA SortStepOK ==
  ASSUME NEW T, NEW s \in Seq(SpanType(T))
  PROVE  /\ SortStep(s, T) \in Steps(Seq(SpanType(T)), Len(s))
         /\ \A v \in Seq(SpanType(T)), n \in 1..Len(s) :
              SortStep(s, T)[<<v, n>>] = PutAfter(v, Place(s[n], v), s[n])
  <1>1. \A n \in 1..Len(s) : s[n] \in SpanType(T)
    OBVIOUS
  <1>2. \A v \in Seq(SpanType(T)), f \in SpanType(T) :
          PutAfter(v, Place(f, v), f) \in Seq(SpanType(T))
    BY PlaceOK, InsertOK, Zenon
  <1>3. \A v \in Seq(SpanType(T)), n \in 1..Len(s) :
          PutAfter(v, Place(s[n], v), s[n]) \in Seq(SpanType(T))
    BY <1>1, <1>2, Zenon
  <1> QED BY <1>3, Zenon DEF SortStep, Steps

\* InOrder follows that recursion.
LEMMA SortFold ==
  ASSUME NEW T, NEW s \in Seq(SpanType(T))
  PROVE  \E f : /\ Follows(f, Seq(SpanType(T)), <<>>, Len(s), SortStep(s, T))
                /\ InOrder(s) = f[Len(s)]
  <1> DEFINE A == Seq(SpanType(T))
             After(v, n) == PutAfter(v, Place(s[n], v), s[n])
             Body(h) == [n \in 0..Len(s) |-> IF n = 0 THEN <<>> ELSE After(h[n - 1], n)]
             g == CHOOSE h : h = Body(h)
  <1>0. <<>> \in A /\ Len(s) \in Nat
    OBVIOUS
  <1>2. InOrder(s) = g[Len(s)]
    BY DEF InOrder, FoldInOrder
  <1>3. \A v \in A, n \in 1..Len(s) : SortStep(s, T)[<<v, n>>] = After(v, n)
    BY SortStepOK, Zenon
  <1>a. SortStep(s, T) \in Steps(A, Len(s))
    BY SortStepOK
  <1> HIDE DEF After, A
  <1>1. PICK f \in [0..Len(s) -> A] : Solves(f, <<>>, Len(s), SortStep(s, T))
    BY <1>0, <1>a, Recursion
  <1>4. f = Body(f)
    <2>1. \A n \in 1..Len(s) : n - 1 \in 0..Len(s)
      OBVIOUS
    <2>2. \A n \in 1..Len(s) : f[n - 1] \in A
      BY <1>1, <2>1
    <2>3. \A n \in 1..Len(s) : f[n] = After(f[n - 1], n)
      BY <1>1, <1>3, <2>2, Zenon DEF Solves
    <2>4. f[0] = <<>>
      BY <1>1 DEF Solves
    <2> QED BY <1>1, <2>3, <2>4
  <1>5. g = Body(g)
    BY <1>4
  <1> HIDE DEF g
  <1>6. g[0] = <<>> /\ \A n \in 1..Len(s) : g[n] = After(g[n - 1], n)
    BY <1>5
  <1>7. Follows(g, A, <<>>, Len(s), SortStep(s, T))
    BY <1>3, <1>6 DEF Follows
  <1> QED BY <1>2, <1>7 DEF A

\* What sorting the fragments of add_fragment leaves: the fragments it was
\* given, in the comparator's order.
LEMMA InOrderSorts ==
  ASSUME NEW T, NEW s \in Seq(SpanType(T))
  PROVE  /\ InOrder(s) \in Seq(SpanType(T))
         /\ Sorted(InOrder(s))
         /\ SameFragments(InOrder(s), s)
  <1> DEFINE A == Seq(SpanType(T))
             L == Len(s)
  <1>1. PICK f : Follows(f, A, <<>>, L, SortStep(s, T)) /\ InOrder(s) = f[L]
    BY SortFold
  <1>2. <<>> \in A /\ L \in Nat /\ SortStep(s, T) \in Steps(A, L)
    BY SortStepOK
  <1>3. \A n \in 0..L : f[n] \in A
    <2> HIDE DEF L, A
    <2>1. Agree(f, f, A, L)
      BY ONLY <1>1, <1>2, RecursionUnique, Zenon
    <2> QED BY <2>1 DEF Agree
  <1>4. \A n \in 1..L : s[n] \in SpanType(T)
    OBVIOUS
  <1>5. ASSUME NEW n \in 1..L
        PROVE  /\ n - 1 \in 0..L /\ f[n - 1] \in A
               /\ f[n] = PutAfter(f[n - 1], Place(s[n], f[n - 1]), s[n])
    <2>1. n - 1 \in 0..L
      BY <1>2
    <2>2. f[n - 1] \in A
      BY <1>3, <2>1
    <2>3. f[n] = SortStep(s, T)[<<f[n - 1], n>>]
      BY <1>1, <2>2 DEF Follows
    <2> QED BY <2>1, <2>2, <2>3, SortStepOK
  <1> DEFINE Good(n) == /\ Sorted(f[n])
                        /\ \A i \in 1..n : \E j \in 1..Len(f[n]) : f[n][j] = s[i]
                        /\ \A j \in 1..Len(f[n]) : \E i \in 1..n : s[i] = f[n][j]
             P == {n \in Nat : n <= L => Good(n)}
  <1>6. 0 \in P
    BY <1>1 DEF Follows, Sorted
  <1>7. ASSUME NEW n \in Nat, n + 1 <= L, Good(n)
        PROVE  Good(n + 1)
    <2> DEFINE v == f[n]
               e == s[n + 1]
               k == Place(e, v)
               u == f[n + 1]
    <2>1. n + 1 \in 1..L /\ (n + 1) - 1 = n
      BY <1>2, <1>7
    <2>2. v \in A /\ e \in SpanType(T) /\ u = PutAfter(v, k, e)
      BY <1>4, <1>5, <2>1
    <2>3. k \in 0..Len(v) /\ Inserted(u, v, k, e)
      <3> HIDE DEF v, e, u
      <3>1. k \in 0..Len(v)
        BY <2>2, PlaceOK
      <3> HIDE DEF k
      <3> QED BY <2>2, <3>1, InsertOK, Zenon
    <2>4. Sorted(u)
      <3> HIDE DEF v, e, u
      <3>1. Sorted(v)
        BY <1>7 DEF v
      <3> QED BY <2>2, <3>1, InsertSorts
    <2>5. /\ \A i \in 1..n : \E j \in 1..Len(v) : v[j] = s[i]
          /\ \A j \in 1..Len(v) : \E i \in 1..n : s[i] = v[j]
      BY <1>7
    <2>6. Len(v) \in Nat
      BY <2>2
    <2> HIDE DEF k, v, u
    <2>7. ASSUME NEW i \in 1..(n + 1)
          PROVE  \E j \in 1..Len(u) : u[j] = s[i]
      <3>1. CASE i = n + 1
        BY <2>3, <2>6, <3>1 DEF Inserted
      <3>2. CASE i \in 1..n
        <4>1. PICK j \in 1..Len(v) : v[j] = s[i]
          BY <2>5, <3>2, Zenon
        <4>2. CASE j <= k
          BY <2>3, <2>6, <4>1, <4>2 DEF Inserted
        <4>3. CASE j > k
          <5>1. j + 1 \in 1..Len(u) /\ u[j + 1] = v[j]
            BY <2>3, <2>6, <4>1, <4>3 DEF Inserted
          <5> QED BY <4>1, <5>1
        <4> QED BY <2>3, <2>6, <4>2, <4>3
      <3> QED BY <3>1, <3>2
    <2>8. ASSUME NEW j \in 1..Len(u)
          PROVE  \E i \in 1..(n + 1) : s[i] = u[j]
      <3>1. CASE j = k + 1
        BY <2>3, <3>1 DEF Inserted
      <3>2. CASE j <= k
        <4>1. u[j] = v[j] /\ j \in 1..Len(v)
          BY <2>3, <2>6, <3>2 DEF Inserted
        <4>2. PICK i \in 1..n : s[i] = v[j]
          BY <2>5, <4>1, SMTT(30)
        <4> QED BY <4>1, <4>2
      <3>3. CASE j > k + 1
        <4>1. u[j] = v[j - 1] /\ j - 1 \in 1..Len(v)
          BY <2>3, <2>6, <3>3 DEF Inserted
        <4>2. PICK i \in 1..n : s[i] = v[j - 1]
          BY <2>5, <4>1, Zenon
        <4> QED BY <4>1, <4>2
      <3> QED BY <2>3, <2>6, <3>1, <3>2, <3>3
    <2> QED BY <2>4, <2>7, <2>8 DEF u
  <1>8. Nat \subseteq P
    <2>1. \A n \in Nat : n \in P => n + 1 \in P
      BY <1>2, <1>7
    <2> HIDE DEF P
    <2> QED BY <1>6, <2>1, Induction
  <1>9. Good(L) /\ f[L] \in A
    <2>1. L \in P /\ L \in 0..L /\ L <= L
      BY <1>2, <1>8
    <2> HIDE DEF Good, L
    <2> QED BY <1>3, <2>1
  <1> QED BY <1>1, <1>9 DEF SameFragments

-----------------------------------------------------------------------------
(* The completion loop *)

\* The state of the completion loop between two fragments.
AccType(T) ==
  [verdict : {"looping", "gap", "conflict"}, covered : Nat, parts : Seq(PartType(T))]

\* A fragment of o lies beyond a position none of them covers.
Hole(o) ==
  \E m \in 1..Len(o) : \E p \in 0..(o[m].offset_bytes - 1) :
    \A j \in 1..Len(o) : ~Covers(o[j], p)

\* Two fragments of o give a position of the datagram different bytes.
Clash(o, total) ==
  \E i, j \in 1..Len(o) : \E p \in 0..(total - 1) :
    Covers(o[i], p) /\ Covers(o[j], p) /\ ByteOf(o[i], p) # ByteOf(o[j], p)

\* What the first n rounds have read and emitted.
Emitted(o, n, total, acc) ==
  LET c == Smaller(acc.covered, total)
      B == Bytes(acc.parts)
  IN /\ Len(B) = c
     /\ \A p \in 0..(acc.covered - 1) : \E j \in 1..n : Covers(o[j], p)
     /\ \A j \in 1..n : o[j].offset_bytes + Len(o[j].data) <= acc.covered
     /\ \A j \in 1..n : \A p \in 0..(c - 1) :
          Covers(o[j], p) => ByteOf(o[j], p) = B[p + 1]

\* The invariant of the completion loop.
LoopInv(o, n, total, acc) ==
  /\ acc.verdict = "looping"  => Emitted(o, n, total, acc)
  /\ acc.verdict = "gap"      => Hole(o)
  /\ acc.verdict = "conflict" => Clash(o, total)

\* The fields of a stored fragment have their types.
LEMMA SpanFields ==
  ASSUME NEW T, NEW o \in Seq(SpanType(T))
  PROVE  \A i \in 1..Len(o) :
           /\ o[i].offset_bytes \in Nat /\ o[i].packet_id \in Nat
           /\ o[i].data \in Seq(Nat) /\ Len(o[i].data) \in Nat
           /\ o[i].token \in T
  <1>1. \A i \in 1..Len(o) : o[i] \in SpanType(T)
    OBVIOUS
  <1>2. ASSUME NEW f \in SpanType(T)
        PROVE  /\ f.offset_bytes \in Nat /\ f.packet_id \in Nat
               /\ f.data \in Seq(Nat) /\ Len(f.data) \in Nat /\ f.token \in T
    BY DEF SpanType
  <1> QED BY <1>1, <1>2

\* When a fragment starts behind the covered prefix, the completion loop
\* of add_fragment stops at a real hole: the fragments are sorted, so none
\* that is still to come can fill it.
LEMMA GapRound ==
  ASSUME NEW T, NEW o \in Seq(SpanType(T)), Sorted(o), NEW total \in Nat,
         NEW n \in Nat, n + 1 <= Len(o),
         NEW acc \in AccType(T), Emitted(o, n, total, acc),
         o[n + 1].offset_bytes > acc.covered
  PROVE  Hole(o)
  <1>2. \A i \in 1..Len(o) : o[i].offset_bytes \in Nat /\ o[i].packet_id \in Nat
                             /\ Len(o[i].data) \in Nat
    BY SpanFields
  <1>3. acc.covered \in Nat /\ Len(o) \in Nat
    BY DEF AccType
  <1>4. n + 1 \in 1..Len(o)
    BY <1>3
  <1>5. ASSUME NEW j \in 1..Len(o) PROVE ~Covers(o[j], acc.covered)
    <2>1. CASE j <= n
      <3>1. o[j].offset_bytes + Len(o[j].data) <= acc.covered
        BY <2>1 DEF Emitted
      <3> QED BY <1>2, <1>3, <3>1 DEF Covers
    <2>2. CASE j = n + 1
      BY <1>2, <1>3, <2>2 DEF Covers
    <2>3. CASE j > n + 1
      <3>1. ~Before(o[j], o[n + 1])
        BY <1>4, <2>3 DEF Sorted
      <3>2. o[j].offset_bytes >= o[n + 1].offset_bytes
        BY <1>2, <1>4, <3>1 DEF Before
      <3> QED BY <1>2, <1>3, <1>4, <3>2 DEF Covers
    <2> QED BY <1>3, <2>1, <2>2, <2>3
  <1>6. acc.covered \in 0..(o[n + 1].offset_bytes - 1)
    BY <1>2, <1>3, <1>4
  <1> QED BY <1>4, <1>5, <1>6 DEF Hole

\* Byte strings that agree byte by byte are one.
LEMMA SameSequence ==
  ASSUME NEW S, NEW x \in Seq(S), NEW y \in Seq(S), Len(x) = Len(y),
         \A i \in 1..Len(x) : x[i] = y[i]
  PROVE  x = y
  OBVIOUS

\* The bytes the overlap is compared with, one by one.
LEMMA OverlapBytes ==
  ASSUME NEW B \in Seq(Nat), NEW d \in Seq(Nat), NEW at \in Nat, NEW w \in Nat,
         at + w <= Len(B), w <= Len(d)
  PROVE  /\ Len(SubSeq(d, 1, w)) = w
         /\ SubSeq(B, at + 1, at + w) = SubSeq(d, 1, w)
              <=> \A i \in 1..w : B[at + i] = d[i]
  <1>1. SubSeq(d, 1, w) \in Seq(Nat) /\ Len(SubSeq(d, 1, w)) = w
    OBVIOUS
  <1>2. \A i \in 1..w : SubSeq(d, 1, w)[i] = d[i]
    OBVIOUS
  <1>3. SubSeq(B, at + 1, at + w) \in Seq(Nat) /\ Len(SubSeq(B, at + 1, at + w)) = w
    OBVIOUS
  <1>4. ASSUME NEW i \in 1..w PROVE SubSeq(B, at + 1, at + w)[i] = B[at + i]
    <2>1. i \in 1..((at + w) - (at + 1) + 1) /\ (at + 1) + i - 1 = at + i
      OBVIOUS
    <2>2. at + 1 \in 1..(Len(B) + 1) /\ at + w \in 0..Len(B)
      OBVIOUS
    <2> QED BY <2>1, <2>2
  <1> DEFINE x == SubSeq(B, at + 1, at + w)
             y == SubSeq(d, 1, w)
  <1>5. x \in Seq(Nat) /\ y \in Seq(Nat) /\ Len(x) = w /\ Len(y) = w
    BY <1>1, <1>3
  <1> HIDE DEF x, y
  <1>6. (\A i \in 1..w : x[i] = y[i]) => x = y
    BY ONLY <1>5, SameSequence
  <1>7. x = y <=> \A i \in 1..w : x[i] = y[i]
    BY <1>6, Zenon
  <1> QED BY <1>1, <1>2, <1>3, <1>4, <1>7, Zenon DEF x, y

\* A range_equals that finds the content different points at one byte.
LEMMA OverlapDiffers ==
  ASSUME NEW T, NEW parts \in Seq(PartType(T)), NEW d \in Seq(Nat),
         NEW at \in Nat, NEW w \in Nat,
         at + w <= Len(Bytes(parts)), w <= Len(d)
  PROVE  range_equals(parts, at, SubSeq(d, 1, w))
           <=> \A i \in 1..w : Bytes(parts)[at + i] = d[i]
  <1> DEFINE B == Bytes(parts)
  <1>1. B \in Seq(Nat)
    BY BytesTyped
  <1>2. range_equals(parts, at, SubSeq(d, 1, w))
          <=> /\ at + Len(SubSeq(d, 1, w)) <= Len(B)
              /\ SubSeq(B, at + 1, at + Len(SubSeq(d, 1, w))) = SubSeq(d, 1, w)
    BY DEF range_equals
  <1>3. at + w <= Len(B)
    OBVIOUS
  <1> HIDE DEF B
  <1>4. /\ Len(SubSeq(d, 1, w)) = w
        /\ SubSeq(B, at + 1, at + w) = SubSeq(d, 1, w)
              <=> \A i \in 1..w : B[at + i] = d[i]
    BY <1>1, <1>3, OverlapBytes, Zenon
  <1> QED BY <1>2, <1>3, <1>4, Zenon DEF B

\* When range_equals says no, the completion loop stops at a real clash of
\* two fragments.
LEMMA ConflictRound ==
  ASSUME NEW T, NEW o \in Seq(SpanType(T)), NEW total \in Nat,
         NEW n \in Nat, n + 1 <= Len(o),
         NEW acc \in AccType(T), Emitted(o, n, total, acc),
         NEW c, c = Smaller(acc.covered, total), NEW at, at = o[n + 1].offset_bytes,
         NEW d, d = o[n + 1].data, at < c,
         ~range_equals(acc.parts, at, SubSeq(d, 1, Smaller(c - at, Len(d))))
  PROVE  Clash(o, total)
  <1> DEFINE B == Bytes(acc.parts)
             w == Smaller(c - at, Len(d))
             f == o[n + 1]
  <1>1. n + 1 \in 1..Len(o) /\ at \in Nat /\ d \in Seq(Nat) /\ Len(d) \in Nat
    BY SpanFields
  <1>2. /\ acc.covered \in Nat /\ c \in Nat /\ c <= total /\ c <= acc.covered
        /\ acc.parts \in Seq(PartType(T))
    BY DEF AccType, Smaller
  <1>3. Len(B) = c
    BY DEF Emitted
  <1>4. w \in Nat /\ w <= Len(d) /\ at + w <= c
    BY ONLY <1>1, <1>2, at < c DEF Smaller
  <1> HIDE DEF B, w, f
  <1>5. PICK i \in 1..w : B[at + i] # d[i]
    <2>1. at + w <= Len(B)
      BY <1>3, <1>4
    <2>2. ~range_equals(acc.parts, at, SubSeq(d, 1, w))
      BY DEF w
    <2>3. at + w <= Len(Bytes(acc.parts)) /\ w \in Nat /\ w <= Len(d)
      BY <1>4, <2>1 DEF B
    <2>4. range_equals(acc.parts, at, SubSeq(d, 1, w))
            <=> \A i \in 1..w : Bytes(acc.parts)[at + i] = d[i]
      BY ONLY <1>1, <1>2, <2>3, OverlapDiffers
    <2> QED BY <2>2, <2>4, Zenon DEF B
  <1> DEFINE p == at + i - 1
  <1>6. /\ p \in 0..(c - 1) /\ p \in 0..(total - 1) /\ p \in 0..(acc.covered - 1)
        /\ p + 1 = at + i /\ p - at + 1 = i
        /\ at <= p /\ p < at + Len(d)
    BY ONLY <1>1, <1>2, <1>4, total \in Nat, i \in 1..w
  <1> HIDE DEF p
  <1>7. PICK j \in 1..n : Covers(o[j], p)
    BY <1>6 DEF Emitted
  <1>8. ByteOf(o[j], p) = B[p + 1]
    BY <1>6, <1>7 DEF Emitted, B
  <1>9. Covers(o[n + 1], p) /\ ByteOf(o[n + 1], p) = d[i]
    BY <1>6 DEF Covers, ByteOf
  <1>10. j \in 1..Len(o)
    BY <1>7
  <1> QED BY <1>1, <1>5, <1>6, <1>7, <1>8, <1>9, <1>10 DEF Clash

\* Byte string C is B followed by the bytes of d behind position a, up to
\* position b.
TailOf(C, B, d, a, b) ==
  /\ Len(C) = Len(B) + (b - a)
  /\ \A i \in 1..Len(B) : C[i] = B[i]
  /\ \A i \in 1..(b - a) : C[Len(B) + i] = d[a + i]

\* The bytes a round adds behind the ones emitted before it.
LEMMA TailBytes ==
  ASSUME NEW B \in Seq(Nat), NEW d \in Seq(Nat),
         NEW a \in Nat, NEW b \in Nat, a < b, b <= Len(d),
         NEW C, C = B \o SubSeq(d, a + 1, b)
  PROVE  TailOf(C, B, d, a, b)
  <1> DEFINE t == SubSeq(d, a + 1, b)
  <1>a. t \in Seq(Nat)
    OBVIOUS
  <1>b. Len(t) = b - a
    OBVIOUS
  <1>c. ASSUME NEW i \in 1..(b - a) PROVE t[i] = d[a + i]
    <2>1. i \in 1..Len(t) /\ (a + 1) + i - 1 = a + i
      BY <1>b
    <2>2. t[i] = d[(a + 1) + i - 1]
      BY <2>1
    <2> QED BY <2>1, <2>2
  <1> HIDE DEF t
  <1>d. Len(B \o t) = Len(B) + Len(t)
    BY <1>a
  <1>e. ASSUME NEW i \in 1..Len(B) PROVE (B \o t)[i] = B[i]
    <2>1. i \in 1..(Len(B) + Len(t)) /\ i <= Len(B)
      BY <1>b
    <2> QED BY <1>a, <2>1
  <1>f. ASSUME NEW i \in 1..(b - a) PROVE (B \o t)[Len(B) + i] = t[i]
    <2>1. i \in 1..Len(t)
      BY <1>b
    <2> QED BY <1>a, <2>1
  <1> QED BY <1>a, <1>b, <1>c, <1>d, <1>e, <1>f DEF t, TailOf

\* What a round that neither stops at a gap nor at a conflict leaves.
Extended(total, acc, f) ==
  LET c == Smaller(acc.covered, total)
      end == f.offset_bytes + Len(f.data)
      from == Larger(f.offset_bytes, c)
      to == Smaller(end, total)
  IN [verdict |-> "looping",
      covered |-> Larger(acc.covered, end),
      parts   |-> IF from < to
                  THEN Append(acc.parts,
                              [token |-> f.token,
                               data |-> SubSeq(f.data, from - f.offset_bytes + 1,
                                                       to - f.offset_bytes)])
                  ELSE acc.parts]

\* The start of a fragment that the emitted bytes already cover.
Overlap(total, acc, f) ==
  LET c == Smaller(acc.covered, total)
  IN SubSeq(f.data, 1, Smaller(c - f.offset_bytes, Len(f.data)))

\* The four ways through a round of the completion loop.
LEMMA RoundCases ==
  ASSUME NEW T, NEW total \in Nat, NEW acc \in AccType(T), NEW f \in SpanType(T)
  PROVE  \/ acc.verdict # "looping" /\ Round(total, acc, f) = acc
         \/ /\ acc.verdict = "looping"
            /\ f.offset_bytes > acc.covered
            /\ Round(total, acc, f) = [acc EXCEPT !.verdict = "gap"]
         \/ /\ acc.verdict = "looping"
            /\ f.offset_bytes < Smaller(acc.covered, total)
            /\ ~range_equals(acc.parts, f.offset_bytes, Overlap(total, acc, f))
            /\ Round(total, acc, f) = [acc EXCEPT !.verdict = "conflict"]
         \/ /\ acc.verdict = "looping"
            /\ ~(f.offset_bytes > acc.covered)
            /\ f.offset_bytes < Smaller(acc.covered, total) =>
                 range_equals(acc.parts, f.offset_bytes, Overlap(total, acc, f))
            /\ Round(total, acc, f) = Extended(total, acc, f)
  <1> DEFINE clash == /\ acc.verdict = "looping"
                      /\ f.offset_bytes < Smaller(acc.covered, total)
                      /\ ~range_equals(acc.parts, f.offset_bytes, Overlap(total, acc, f))
             gap == acc.verdict = "looping" /\ f.offset_bytes > acc.covered
  <1>1. Round(total, acc, f) =
          CASE acc.verdict # "looping" -> acc
            [] gap -> [acc EXCEPT !.verdict = "gap"]
            [] clash -> [acc EXCEPT !.verdict = "conflict"]
            [] OTHER -> Extended(total, acc, f)
    BY Zenon DEF Round, Extended, Overlap
  <1>2. ~(gap /\ clash)
    <2>1. acc.covered \in Nat /\ f.offset_bytes \in Nat
      BY DEF AccType, SpanType
    <2> QED BY <2>1 DEF Smaller
  <1>3. CASE acc.verdict # "looping"
    BY <1>1, <1>3, Zenon
  <1>4. CASE gap
    <2>1. ~(acc.verdict # "looping") /\ ~clash
      BY <1>2, <1>4
    <2> HIDE DEF clash
    <2> QED BY <1>1, <1>4, <2>1, Zenon
  <1>5. CASE clash
    <2>1. ~(acc.verdict # "looping") /\ ~gap
      BY <1>2, <1>5
    <2> HIDE DEF gap
    <2> QED BY <1>1, <1>5, <2>1, Zenon
  <1>6. CASE acc.verdict = "looping" /\ ~gap /\ ~clash
    <2>1. Round(total, acc, f) = Extended(total, acc, f)
      <3> HIDE DEF gap, clash
      <3> QED BY <1>1, <1>6, Zenon
    <2> QED BY <1>6, <2>1
  <1> QED BY <1>3, <1>4, <1>5, <1>6

\* The bytes emitted after such a round.
ExtendedBytes(total, acc, f) ==
  LET c == Smaller(acc.covered, total)
      to == Smaller(f.offset_bytes + Len(f.data), total)
      B == Bytes(acc.parts)
      e == Extended(total, acc, f)
  IN /\ Larger(f.offset_bytes, c) < to =>
          Bytes(e.parts) = B \o SubSeq(f.data, (c - f.offset_bytes) + 1, to - f.offset_bytes)
     /\ ~(Larger(f.offset_bytes, c) < to) => Bytes(e.parts) = B

\* A round that goes on emits exactly the fragment's bytes behind the
\* covered prefix, cut at the datagram's end.
LEMMA ExtendedType ==
  ASSUME NEW T, NEW total \in Nat, NEW acc \in AccType(T), NEW f \in SpanType(T),
         ~(f.offset_bytes > acc.covered)
  PROVE  /\ Extended(total, acc, f) \in AccType(T)
         /\ ExtendedBytes(total, acc, f)
  <1>0. SUFFICES ASSUME NEW c, c = Smaller(acc.covered, total),
                        NEW to, to = Smaller(f.offset_bytes + Len(f.data), total),
                        NEW B, B = Bytes(acc.parts),
                        NEW e, e = Extended(total, acc, f)
                 PROVE  /\ e \in AccType(T)
                        /\ Larger(f.offset_bytes, c) < to =>
                             Bytes(e.parts) = B \o SubSeq(f.data, (c - f.offset_bytes) + 1, to - f.offset_bytes)
                        /\ ~(Larger(f.offset_bytes, c) < to) => Bytes(e.parts) = B
    BY Zenon DEF ExtendedBytes
  <1> DEFINE at == f.offset_bytes
             from == Larger(at, c)
             t == SubSeq(f.data, from - at + 1, to - at)
             part == [token |-> f.token, data |-> t]
             next == Larger(acc.covered, at + Len(f.data))
  <1>1. at \in Nat /\ f.data \in Seq(Nat) /\ Len(f.data) \in Nat /\ f.token \in T
    BY DEF SpanType
  <1>2. acc.covered \in Nat /\ acc.parts \in Seq(PartType(T))
    BY DEF AccType
  <1>3. e = [verdict |-> "looping", covered |-> next,
             parts |-> IF from < to THEN Append(acc.parts, part) ELSE acc.parts]
    BY <1>0 DEF Extended
  <1>4. at <= acc.covered
    BY <1>1, <1>2
  <1> HIDE DEF at, next
  <1>5. next \in Nat
    BY ONLY <1>1, <1>2 DEF next, Larger
  <1>6. CASE from < to
    <2>1. /\ from = c /\ c - at \in Nat /\ to - at \in Nat
          /\ c - at < to - at /\ to - at <= Len(f.data)
      <3> DEFINE len == Len(f.data)
      <3>1. len \in Nat /\ to = Smaller(at + len, total)
        BY <1>0, <1>1 DEF at
      <3> HIDE DEF from, len
      <3>2. from = Larger(at, c)
        BY DEF from
      <3>3. /\ from = c /\ c - at \in Nat /\ to - at \in Nat
            /\ c - at < to - at /\ to - at <= len
        BY ONLY <1>1, <1>2, <1>4, <1>6, <3>1, <3>2, total \in Nat, <1>0
           DEF Smaller, Larger
      <3> QED BY <3>3 DEF len
    <2>2. t = SubSeq(f.data, (c - at) + 1, to - at)
      BY <2>1
    <2> HIDE DEF from, t
    <2>3. t \in Seq(Nat)
      <3> DEFINE a == c - at
                 b == to - at
      <3>1. a \in Nat /\ b \in Nat /\ a < b /\ b <= Len(f.data) /\ <<>> \in Seq(Nat)
        BY <2>1
      <3>2. t = SubSeq(f.data, a + 1, b)
        BY <2>2
      <3> HIDE DEF a, b
      <3> QED BY <1>1, <3>1, <3>2, SMTT(30)
    <2>4. part \in PartType(T)
      BY <1>1, <2>3 DEF PartType
    <2>5. e.parts = Append(acc.parts, part) /\ e.verdict = "looping" /\ e.covered = next
      BY <1>3, <1>6
    <2>6. Bytes(e.parts) = B \o part.data
      <3> HIDE DEF part
      <3> QED BY <1>0, <1>2, <2>4, <2>5, BytesAppend, Zenon
    <2>7. part.data = t
      OBVIOUS
    <2>8. e = [verdict |-> "looping", covered |-> next, parts |-> Append(acc.parts, part)]
      BY <1>3, <1>6
    <2>9. Append(acc.parts, part) \in Seq(PartType(T))
      <3> HIDE DEF part
      <3> QED BY <1>2, <2>4
    <2>10. e \in AccType(T)
      <3> HIDE DEF part
      <3> QED BY <1>5, <2>8, <2>9 DEF AccType
    <2> QED BY <1>6, <2>2, <2>6, <2>7, <2>10, Zenon DEF at, from
  <1>7. CASE ~(from < to)
    <2>1. e = [verdict |-> "looping", covered |-> next, parts |-> acc.parts]
      BY <1>3, <1>7
    <2>2. e \in AccType(T)
      BY <1>2, <1>5, <2>1, SMTT(30) DEF AccType
    <2> QED BY <1>0, <1>7, <2>1, <2>2 DEF at, from
  <1> QED BY <1>6, <1>7, Zenon

\* A round of the completion loop that goes on keeps what is emitted exact.
LEMMA ExtendRound ==
  ASSUME NEW T, NEW o \in Seq(SpanType(T)), NEW total \in Nat,
         NEW n \in Nat, n + 1 <= Len(o),
         NEW acc \in AccType(T), Emitted(o, n, total, acc),
         ~(o[n + 1].offset_bytes > acc.covered),
         o[n + 1].offset_bytes < Smaller(acc.covered, total) =>
           range_equals(acc.parts, o[n + 1].offset_bytes, Overlap(total, acc, o[n + 1]))
  PROVE  Emitted(o, n + 1, total, Extended(total, acc, o[n + 1]))
  <1> DEFINE f == o[n + 1]
             at == f.offset_bytes
             d == f.data
             len == Len(d)
             cov == acc.covered
             c == Smaller(cov, total)
             B == Bytes(acc.parts)
             from == Larger(at, c)
             to == Smaller(at + len, total)
             e == Extended(total, acc, f)
             next == Larger(cov, at + len)
             C == Bytes(e.parts)
  <1>1. /\ n + 1 \in 1..Len(o) /\ Len(o) \in Nat
        /\ at \in Nat /\ d \in Seq(Nat) /\ len \in Nat /\ f \in SpanType(T)
    BY SpanFields
  <1>2. cov \in Nat /\ acc.parts \in Seq(PartType(T)) /\ B \in Seq(Nat)
    BY BytesTyped DEF AccType
  <1>3. e.covered = next
    BY DEF Extended
  <1>4. /\ Len(B) = c
        /\ \A p \in 0..(cov - 1) : \E j \in 1..n : Covers(o[j], p)
        /\ \A j \in 1..n : o[j].offset_bytes + Len(o[j].data) <= cov
        /\ \A j \in 1..n : \A p \in 0..(c - 1) : Covers(o[j], p) => ByteOf(o[j], p) = B[p + 1]
    BY DEF Emitted
  <1>5. at <= cov
    BY <1>1, <1>2
  <1>6. /\ from < to => C = B \o SubSeq(d, (c - at) + 1, to - at)
        /\ ~(from < to) => C = B
    <2>1. ExtendedBytes(total, acc, f)
      <3> HIDE DEF f
      <3>1. ~(f.offset_bytes > acc.covered)
        BY DEF f
      <3> QED BY <1>1, <3>1, ExtendedType
    <2> QED BY <2>1, Zenon DEF ExtendedBytes
  <1>7. at < c => range_equals(acc.parts, at, SubSeq(d, 1, Smaller(c - at, len)))
    BY DEF Overlap
  <1>8. \A j \in 1..n : o[j].offset_bytes \in Nat /\ Len(o[j].data) \in Nat
    BY SpanFields
  <1>9. Covers(f, 0) \in BOOLEAN /\ \A p : Covers(f, p) <=> at <= p /\ p < at + len
    BY DEF Covers
  <1>10. \A p : ByteOf(f, p) = d[p - at + 1]
    BY DEF ByteOf
  <1>12. f = o[n + 1]
    OBVIOUS
  <1>13. Emitted(o, n + 1, total, e) <=>
           /\ Len(C) = Smaller(next, total)
           /\ \A p \in 0..(next - 1) : \E j \in 1..(n + 1) : Covers(o[j], p)
           /\ \A j \in 1..(n + 1) : o[j].offset_bytes + Len(o[j].data) <= next
           /\ \A j \in 1..(n + 1) : \A p \in 0..(Smaller(next, total) - 1) :
                 Covers(o[j], p) => ByteOf(o[j], p) = C[p + 1]
    <2> HIDE DEF e, next
    <2> QED BY <1>3 DEF Emitted
  <1>14. at = f.offset_bytes /\ len = Len(f.data) /\ d = f.data
    OBVIOUS
  <1>15. c \in Nat /\ c <= cov /\ c <= total
    BY <1>2 DEF Smaller
  \* the bytes shown where fragment f overlaps what was emitted
  <1>16. \A p \in 0..(c - 1) : Covers(f, p) => d[p - at + 1] = B[p + 1]
    <2>1. SUFFICES ASSUME NEW p \in 0..(c - 1), at <= p, p < at + len
                   PROVE  d[p - at + 1] = B[p + 1]
      BY <1>9, SMTT(30)
    <2> DEFINE w == Smaller(c - at, len)
               i == p - at + 1
    <2>2. range_equals(acc.parts, at, SubSeq(d, 1, w))
      BY <1>1, <1>7, <1>15, <2>1
    <2> HIDE DEF f, at, d, cov, c, B, next, e
    <2>3. w \in Nat /\ w <= len /\ at + w <= c /\ i \in 1..w /\ at + i = p + 1
      <3> HIDE DEF len
      <3> QED BY <1>1, <1>15, <2>1 DEF Smaller
    <2> HIDE DEF w, i
    <2>4. \A k \in 1..w : B[at + k] = d[k]
      <3>1. at + w <= Len(Bytes(acc.parts)) /\ w <= Len(d)
        BY <1>4, <2>3 DEF B, len
      <3>2. /\ acc.parts \in Seq(PartType(T)) /\ d \in Seq(Nat)
            /\ at \in Nat /\ w \in Nat
        BY <1>1, <1>2, <2>3
      <3>3. range_equals(acc.parts, at, SubSeq(d, 1, w))
              <=> \A k \in 1..w : Bytes(acc.parts)[at + k] = d[k]
        BY ONLY <3>1, <3>2, OverlapDiffers
      <3> QED BY <2>2, <3>3, Zenon DEF B
    <2>5. B[at + i] = d[i]
      BY <2>3, <2>4
    <2> QED BY <2>3, <2>5, SMTT(30) DEF i
  <1> HIDE DEF f, at, d, len, cov, c, B, e, C
  <1>17. /\ from \in Nat /\ to \in Nat /\ next \in Nat
         /\ cov <= next /\ at + len <= next
         /\ next = cov \/ next = at + len
         /\ from < to => /\ from = c /\ at <= c /\ Smaller(next, total) = to
                         /\ c - at \in Nat /\ to - at \in Nat
                         /\ c - at < to - at /\ to - at <= len
         /\ ~(from < to) => Smaller(next, total) = c
    BY <1>1, <1>2, <1>5, SMTT(30) DEF Smaller, Larger, c
  <1> HIDE DEF from, to, next
  \* the datagram's emitted bytes afterwards
  <1>18. /\ Len(C) = Smaller(next, total)
         /\ \A p \in 0..(c - 1) : C[p + 1] = B[p + 1]
         /\ \A p \in c..(Smaller(next, total) - 1) : at <= p /\ C[p + 1] = d[p - at + 1]
    <2>1. CASE from < to
      <3> DEFINE a == c - at
                 b == to - at
      <3>1. a \in Nat /\ b \in Nat /\ a < b /\ b <= Len(d) /\ C = B \o SubSeq(d, a + 1, b)
        BY <1>6, <1>17, <2>1, Zenon DEF len
      <3>2. b - a = to - c /\ a + at = c
        BY ONLY <1>1, <1>15, <1>17
      <3> HIDE DEF a, b
      <3>3. TailOf(C, B, d, a, b)
        <4>1. B \in Seq(Nat) /\ d \in Seq(Nat)
          BY <1>1, <1>2, SMTT(30)
        <4> QED BY <3>1, <4>1, TailBytes, ZenonT(40)
      <3>4. Len(C) = to
        BY <1>4, <1>15, <1>17, <3>2, <3>3 DEF TailOf
      <3>5. ASSUME NEW p \in 0..(c - 1) PROVE C[p + 1] = B[p + 1]
        <4>1. p + 1 \in 1..Len(B)
          BY <1>4, <1>15
        <4> QED BY <3>3, <4>1 DEF TailOf
      <3>6. ASSUME NEW p \in c..(to - 1) PROVE at <= p /\ C[p + 1] = d[p - at + 1]
        <4> DEFINE i == p - c + 1
        <4>1. i \in 1..(b - a) /\ Len(B) + i = p + 1 /\ a + i = p - at + 1 /\ at <= p
          BY <1>1, <1>4, <1>15, <1>17, <2>1, <3>1, <3>2, SMTT(30)
        <4> HIDE DEF i
        <4> QED BY <3>3, <4>1, SMTT(30) DEF TailOf
      <3> QED BY <1>17, <2>1, <3>4, <3>5, <3>6
    <2>2. CASE ~(from < to)
      BY <1>4, <1>6, <1>15, <1>17, <2>2, SMTT(30)
    <2> QED BY <2>1, <2>2
  <1>19. ASSUME NEW p \in 0..(next - 1) PROVE \E j \in 1..(n + 1) : Covers(o[j], p)
    <2>1. CASE p < cov
      <3>1. PICK j \in 1..n : Covers(o[j], p)
        BY <1>2, <1>4, <2>1
      <3> QED BY <3>1
    <2>2. CASE ~(p < cov)
      <3>1. at <= p /\ p < at + len
        BY ONLY <1>1, <1>2, <1>5, <1>17, <2>2, p \in 0..(next - 1)
      <3>2. Covers(o[n + 1], p)
        BY <1>9, <1>12, <3>1
      <3> QED BY <3>2
    <2> QED BY <2>1, <2>2
  <1>20. ASSUME NEW j \in 1..(n + 1) PROVE o[j].offset_bytes + Len(o[j].data) <= next
    <2>1. CASE j = n + 1
      BY <1>12, <1>14, <1>17, <2>1, SMTT(30)
    <2>2. CASE j \in 1..n
      <3>1. /\ o[j].offset_bytes + Len(o[j].data) <= cov
            /\ o[j].offset_bytes \in Nat /\ Len(o[j].data) \in Nat
        BY <1>4, <1>8, <2>2
      <3> DEFINE x == o[j].offset_bytes + Len(o[j].data)
      <3>2. x \in Nat /\ x <= cov
        BY ONLY <3>1
      <3> HIDE DEF x
      <3>3. x <= next
        BY ONLY <1>2, <1>17, <3>2
      <3> QED BY <3>3 DEF x
    <2> QED BY <2>1, <2>2
  <1>21. ASSUME NEW j \in 1..(n + 1), NEW p \in 0..(Smaller(next, total) - 1), Covers(o[j], p)
         PROVE  ByteOf(o[j], p) = C[p + 1]
    <2>0. p \in Nat /\ p < total /\ (p \in 0..(c - 1) \/ p \in c..(Smaller(next, total) - 1))
      BY <1>15, <1>17 DEF Smaller
    <2>1. CASE j = n + 1
      <3>1. Covers(f, p) /\ ByteOf(o[j], p) = d[p - at + 1]
        BY <1>10, <1>12, <1>21, <2>1, SMTT(30)
      <3> QED BY <1>16, <1>18, <2>0, <3>1, SMTT(30)
    <2>2. CASE j \in 1..n
      <3>1. p < cov
        BY <1>2, <1>4, <1>8, <1>21, <2>0, <2>2, SMTT(30) DEF Covers
      <3>2. p \in 0..(c - 1)
        BY <1>2, <2>0, <3>1 DEF c, Smaller
      <3> QED BY <1>4, <1>18, <1>21, <2>2, <3>2, SMTT(30)
    <2> QED BY <2>1, <2>2
  <1> QED BY <1>13, <1>18, <1>19, <1>20, <1>21 DEF e, f

\* Every round of the completion loop keeps its invariant.
LEMMA RoundKeeps ==
  ASSUME NEW T, NEW o \in Seq(SpanType(T)), Sorted(o), NEW total \in Nat,
         NEW n \in Nat, n + 1 <= Len(o),
         NEW acc \in AccType(T), LoopInv(o, n, total, acc)
  PROVE  LoopInv(o, n + 1, total, Round(total, acc, o[n + 1]))
  <1> DEFINE f == o[n + 1]
             r == Round(total, acc, f)
  <1>1. f \in SpanType(T) /\ f.offset_bytes \in Nat /\ n + 1 \in 1..Len(o)
    BY SpanFields
  <1>2. acc.covered \in Nat /\ acc.verdict \in {"looping", "gap", "conflict"}
    BY DEF AccType
  <1>3. CASE acc.verdict # "looping" /\ r = acc
    BY <1>2, <1>3 DEF LoopInv
  <1>4. CASE /\ acc.verdict = "looping" /\ f.offset_bytes > acc.covered
             /\ r = [acc EXCEPT !.verdict = "gap"]
    <2>1. Emitted(o, n, total, acc)
      BY <1>4 DEF LoopInv
    <2>2. Hole(o)
      BY <1>4, <2>1, GapRound
    <2>3. r.verdict = "gap"
      BY <1>4 DEF AccType
    <2> QED BY <2>2, <2>3 DEF LoopInv
  <1>5. CASE /\ acc.verdict = "looping"
             /\ f.offset_bytes < Smaller(acc.covered, total)
             /\ ~range_equals(acc.parts, f.offset_bytes, Overlap(total, acc, f))
             /\ r = [acc EXCEPT !.verdict = "conflict"]
    <2>1. Emitted(o, n, total, acc)
      BY <1>5 DEF LoopInv
    <2>2. Clash(o, total)
      BY <1>5, <2>1, ConflictRound DEF Overlap
    <2>3. r.verdict = "conflict"
      BY <1>5 DEF AccType
    <2> QED BY <2>2, <2>3 DEF LoopInv
  <1>6. CASE /\ acc.verdict = "looping"
             /\ ~(f.offset_bytes > acc.covered)
             /\ f.offset_bytes < Smaller(acc.covered, total) =>
                  range_equals(acc.parts, f.offset_bytes, Overlap(total, acc, f))
             /\ r = Extended(total, acc, f)
    <2>1. Emitted(o, n, total, acc)
      BY <1>6, SMTT(30) DEF LoopInv
    <2>2. Emitted(o, n + 1, total, r)
      BY <1>6, <2>1, ExtendRound, SMTT(30)
    <2>3. r.verdict = "looping"
      BY <1>6 DEF Extended
    <2> QED BY <2>2, <2>3, SMTT(30) DEF LoopInv
  <1> QED
    <2> HIDE DEF f
    <2> QED BY <1>1, <1>3, <1>4, <1>5, <1>6, RoundCases DEF f

\* A round of the completion loop keeps the types of its state.
LEMMA RoundType ==
  ASSUME NEW T, NEW total \in Nat, NEW acc \in AccType(T), NEW f \in SpanType(T)
  PROVE  Round(total, acc, f) \in AccType(T)
  <1>1. ASSUME NEW v \in {"gap", "conflict"}
        PROVE  [acc EXCEPT !.verdict = v] \in AccType(T)
    BY DEF AccType
  <1>2. CASE Round(total, acc, f) = acc
    BY <1>2
  <1>3. CASE Round(total, acc, f) = [acc EXCEPT !.verdict = "gap"]
    BY <1>1, <1>3
  <1>4. CASE Round(total, acc, f) = [acc EXCEPT !.verdict = "conflict"]
    BY <1>1, <1>4
  <1>5. CASE ~(f.offset_bytes > acc.covered) /\ Round(total, acc, f) = Extended(total, acc, f)
    BY <1>5, ExtendedType
  <1> QED BY <1>2, <1>3, <1>4, <1>5, RoundCases

-----------------------------------------------------------------------------
(* The whole attempt *)

\* One round of the completion loop, as a function.
RoundStep(o, total, T) ==
  [x \in AccType(T) \X (1..Len(o)) |-> Round(total, x[1], o[x[2]])]

\* Where the completion loop starts.
Start == [verdict |-> "looping", covered |-> 0, parts |-> <<>>]

\* The state the rounds over o end in.
Looped(o, total) == FoldInOrder(LAMBDA acc, f : Round(total, acc, f), Start, o)

\* That function is a round.
LEMMA RoundStepOK ==
  ASSUME NEW T, NEW o \in Seq(SpanType(T)), NEW total \in Nat
  PROVE  /\ RoundStep(o, total, T) \in Steps(AccType(T), Len(o))
         /\ \A v \in AccType(T), n \in 1..Len(o) :
              RoundStep(o, total, T)[<<v, n>>] = Round(total, v, o[n])
  <1>1. \A n \in 1..Len(o) : o[n] \in SpanType(T)
    OBVIOUS
  <1>2. \A v \in AccType(T), n \in 1..Len(o) : Round(total, v, o[n]) \in AccType(T)
    BY <1>1, RoundType, Zenon
  <1> QED BY <1>2, Zenon DEF RoundStep, Steps

\* The completion loop starts with nothing covered and nothing emitted.
LEMMA StartType ==
  ASSUME NEW T
  PROVE  Start \in AccType(T)
  BY DEF Start, AccType

\* Looped follows the recursion, as the loop in add_fragment does.
LEMMA LoopFold ==
  ASSUME NEW T, NEW o \in Seq(SpanType(T)), NEW total \in Nat
  PROVE  \E f : /\ Follows(f, AccType(T), Start, Len(o), RoundStep(o, total, T))
                /\ Looped(o, total) = f[Len(o)]
  <1> DEFINE A == AccType(T)
             After(v, n) == Round(total, v, o[n])
             Body(h) == [n \in 0..Len(o) |-> IF n = 0 THEN Start ELSE After(h[n - 1], n)]
             g == CHOOSE h : h = Body(h)
  <1>0. Start \in A /\ Len(o) \in Nat
    BY StartType
  <1>2. Looped(o, total) = g[Len(o)]
    BY DEF Looped, FoldInOrder
  <1>3. \A v \in A, n \in 1..Len(o) : RoundStep(o, total, T)[<<v, n>>] = After(v, n)
    BY RoundStepOK, Zenon
  <1>a. RoundStep(o, total, T) \in Steps(A, Len(o))
    BY RoundStepOK
  <1> HIDE DEF After, A
  <1>1. PICK f \in [0..Len(o) -> A] : Solves(f, Start, Len(o), RoundStep(o, total, T))
    BY <1>0, <1>a, Recursion
  <1>4. f = Body(f)
    <2>1. \A n \in 1..Len(o) : n - 1 \in 0..Len(o)
      OBVIOUS
    <2>2. \A n \in 1..Len(o) : f[n - 1] \in A
      BY <1>1, <2>1
    <2>3. \A n \in 1..Len(o) : f[n] = After(f[n - 1], n)
      BY <1>1, <1>3, <2>2, Zenon DEF Solves
    <2>4. f[0] = Start
      BY <1>1 DEF Solves
    <2> QED BY <1>1, <2>3, <2>4
  <1>5. g = Body(g)
    BY <1>4
  <1> HIDE DEF g
  <1>6. g[0] = Start /\ \A n \in 1..Len(o) : g[n] = After(g[n - 1], n)
    BY <1>5
  <1>7. Follows(g, A, Start, Len(o), RoundStep(o, total, T))
    BY <1>3, <1>6 DEF Follows
  <1> QED BY <1>2, <1>7 DEF A

\* The loop over sorted fragments ends in a state the invariant describes.
LEMMA LoopOK ==
  ASSUME NEW T, NEW o \in Seq(SpanType(T)), Sorted(o), NEW total \in Nat
  PROVE  /\ Looped(o, total) \in AccType(T)
         /\ LoopInv(o, Len(o), total, Looped(o, total))
  <1> DEFINE A == AccType(T)
             L == Len(o)
             step == RoundStep(o, total, T)
  <1>1. PICK f : Follows(f, A, Start, L, step) /\ Looped(o, total) = f[L]
    BY LoopFold
  <1>2. Start \in A /\ L \in Nat /\ step \in Steps(A, L)
    BY RoundStepOK, StartType
  <1>3. \A n \in 0..L : f[n] \in A
    <2> HIDE DEF L, A, step
    <2>1. Agree(f, f, A, L)
      BY ONLY <1>1, <1>2, RecursionUnique, Zenon
    <2> QED BY <2>1 DEF Agree
  <1> DEFINE Good(n) == LoopInv(o, n, total, f[n])
             P == {n \in Nat : n <= L => Good(n)}
  <1>4. 0 \in P
    <2>1. f[0] = Start
      BY <1>1 DEF Follows
    <2>2. Smaller(0, total) = 0
      BY DEF Smaller
    <2>3. Emitted(o, 0, total, Start)
      BY <2>2, BytesEmpty DEF Emitted, Start
    <2>4. LoopInv(o, 0, total, Start)
      BY <2>3 DEF LoopInv, Start
    <2> QED BY <2>1, <2>4
  <1>5. ASSUME NEW n \in Nat, n + 1 <= L, Good(n)
        PROVE  Good(n + 1)
    <2>1. n + 1 \in 1..L /\ (n + 1) - 1 = n /\ n \in 0..L
      BY <1>2, <1>5
    <2>2. f[n] \in A
      BY <1>3, <2>1
    <2>3. f[n + 1] = step[<<f[n], n + 1>>]
      <3> HIDE DEF step, L, A
      <3> QED BY <1>1, <2>1, <2>2 DEF Follows
    <2>4. f[n + 1] = Round(total, f[n], o[n + 1])
      BY <2>1, <2>2, <2>3, RoundStepOK
    <2> QED BY <1>5, <2>2, <2>4, RoundKeeps
  <1>6. Nat \subseteq P
    <2>1. \A n \in Nat : n \in P => n + 1 \in P
      <3> HIDE DEF Good
      <3> QED BY <1>2, <1>5
    <2> HIDE DEF P
    <2> QED BY <1>4, <2>1, Induction
  <1>7. Good(L) /\ f[L] \in A
    <2>1. L \in P /\ L \in 0..L /\ L <= L
      BY <1>2, <1>6
    <2> HIDE DEF Good, L
    <2> QED BY <1>3, <2>1
  <1> QED BY <1>1, <1>7

\* Every position of the datagram is covered by a fragment of s.
Filled(s, total) ==
  \A p \in 0..(total - 1) : \E i \in 1..Len(s) : Covers(s[i], p)

\* The parts show the datagram: its length, and at every position the byte
\* that each fragment covering it carries.
Shows(parts, s, total) ==
  /\ Len(Bytes(parts)) = total
  /\ \A i \in 1..Len(s) : \A p \in 0..(total - 1) :
       Covers(s[i], p) => ByteOf(s[i], p) = Bytes(parts)[p + 1]

\* What the parts show is about the fragments, however they are listed.
LEMMA ShowsAll ==
  ASSUME NEW x, NEW y, \A j \in 1..Len(y) : \E k \in 1..Len(x) : x[k] = y[j],
         NEW parts, NEW total, Shows(parts, x, total)
  PROVE  Shows(parts, y, total)
  <1>1. SUFFICES ASSUME NEW i \in 1..Len(y), NEW p \in 0..(total - 1), Covers(y[i], p)
                 PROVE  ByteOf(y[i], p) = Bytes(parts)[p + 1]
    BY DEF Shows
  <1>2. PICK k \in 1..Len(x) : x[k] = y[i]
    OBVIOUS
  <1>3. Covers(x[k], p) => ByteOf(x[k], p) = Bytes(parts)[p + 1]
    BY DEF Shows
  <1> QED BY <1>1, <1>2, <1>3

\* What the loop decides does not depend on the order of the fragments.
LEMMA OrderIsIrrelevant ==
  ASSUME NEW o, NEW s, SameFragments(o, s), NEW total, NEW parts
  PROVE  /\ Hole(o) <=> Hole(s)
         /\ Clash(o, total) <=> Clash(s, total)
         /\ Filled(o, total) <=> Filled(s, total)
         /\ Shows(parts, o, total) <=> Shows(parts, s, total)
  <1>1. /\ \A i \in 1..Len(s) : \E j \in 1..Len(o) : o[j] = s[i]
        /\ \A j \in 1..Len(o) : \E i \in 1..Len(s) : s[i] = o[j]
    BY DEF SameFragments
  <1>2. Hole(o) <=> Hole(s)
    BY <1>1, Zenon DEF Hole
  <1>3. Clash(o, total) => Clash(s, total)
    <2>1. SUFFICES ASSUME NEW i \in 1..Len(o), NEW j \in 1..Len(o), NEW p \in 0..(total - 1),
                          Covers(o[i], p), Covers(o[j], p), ByteOf(o[i], p) # ByteOf(o[j], p)
                   PROVE  Clash(s, total)
      BY DEF Clash
    <2>2. PICK k \in 1..Len(s) : s[k] = o[i]
      BY <1>1
    <2>3. PICK l \in 1..Len(s) : s[l] = o[j]
      BY <1>1
    <2> QED BY <2>1, <2>2, <2>3 DEF Clash
  <1>4. Clash(s, total) => Clash(o, total)
    <2>1. SUFFICES ASSUME NEW i \in 1..Len(s), NEW j \in 1..Len(s), NEW p \in 0..(total - 1),
                          Covers(s[i], p), Covers(s[j], p), ByteOf(s[i], p) # ByteOf(s[j], p)
                   PROVE  Clash(o, total)
      BY DEF Clash
    <2>2. PICK k \in 1..Len(o) : o[k] = s[i]
      BY <1>1
    <2>3. PICK l \in 1..Len(o) : o[l] = s[j]
      BY <1>1
    <2> QED BY <2>1, <2>2, <2>3 DEF Clash
  <1>5. Filled(o, total) <=> Filled(s, total)
    BY <1>1, Zenon DEF Filled
  <1>6. Shows(parts, o, total) <=> Shows(parts, s, total)
    BY <1>1, ShowsAll, ZenonT(40)
  <1> QED BY <1>2, <1>3, <1>4, <1>5, <1>6

\* What a loop that never returned early says of its fragments.
LEMMA LoopingMeans ==
  ASSUME NEW T, NEW o \in Seq(SpanType(T)), NEW total \in Nat,
         NEW acc \in AccType(T), Emitted(o, Len(o), total, acc)
  PROVE  /\ acc.covered >= total <=> Filled(o, total)
         /\ acc.covered >= total => Shows(acc.parts, o, total)
         /\ acc.covered >= total => ~Clash(o, total)
         /\ ~Hole(o)
  <1>1. \A i \in 1..Len(o) : o[i].offset_bytes \in Nat /\ Len(o[i].data) \in Nat
    BY SpanFields
  <1> DEFINE cov == acc.covered
             c == Smaller(cov, total)
             B == Bytes(acc.parts)
  <1>2. cov \in Nat
    BY DEF AccType
  <1>3. /\ Len(B) = c
        /\ \A p \in 0..(cov - 1) : \E j \in 1..Len(o) : Covers(o[j], p)
        /\ \A j \in 1..Len(o) : o[j].offset_bytes + Len(o[j].data) <= cov
        /\ \A j \in 1..Len(o) : \A p \in 0..(c - 1) :
             Covers(o[j], p) => ByteOf(o[j], p) = B[p + 1]
    BY DEF Emitted
  <1> HIDE DEF cov, B
  <1>4. ASSUME cov >= total PROVE Filled(o, total) /\ Shows(acc.parts, o, total)
    <2>1. c = total
      BY <1>2, <1>4 DEF Smaller
    <2>2. \A p \in 0..(total - 1) : p \in 0..(cov - 1)
      BY <1>2, <1>4
    <2> QED BY <1>3, <2>1, <2>2 DEF Filled, Shows, B
  <1>5. ASSUME Filled(o, total) PROVE cov >= total
    <2>1. SUFFICES ASSUME cov < total PROVE FALSE
      BY <1>2
    <2>2. PICK i \in 1..Len(o) : Covers(o[i], cov)
      BY <1>2, <1>5, <2>1 DEF Filled
    <2> QED BY <1>1, <1>2, <1>3, <2>2 DEF Covers
  <1>6. Shows(acc.parts, o, total) => ~Clash(o, total)
    <2>1. SUFFICES ASSUME Shows(acc.parts, o, total),
                          NEW i \in 1..Len(o), NEW j \in 1..Len(o), NEW p \in 0..(total - 1),
                          Covers(o[i], p), Covers(o[j], p)
                   PROVE  ByteOf(o[i], p) = ByteOf(o[j], p)
      BY DEF Clash
    <2> QED BY <2>1 DEF Shows
  <1>7. ASSUME NEW m \in 1..Len(o), NEW p \in 0..(o[m].offset_bytes - 1)
        PROVE  \E j \in 1..Len(o) : Covers(o[j], p)
    <2>1. /\ o[m].offset_bytes + Len(o[m].data) <= cov
          /\ o[m].offset_bytes \in Nat /\ Len(o[m].data) \in Nat
      BY <1>1, <1>3
    <2>2. p \in 0..(cov - 1)
      BY <1>2, <2>1
    <2> QED BY <1>3, <2>2
  <1> QED BY <1>4, <1>5, <1>6, <1>7 DEF Hole, cov

\* A completion attempt on the fragments s: it succeeds exactly when they fill
\* the datagram, agree, and leave no hole before one of them, and what it then
\* emits shows the datagram.  It reports a conflict only if two disagree.
LEMMA AssembleOK ==
  ASSUME NEW T, NEW s \in Seq(SpanType(T)), NEW total \in Nat
  PROVE  LET a == Assemble(s, total)
         IN /\ a.parts \in Seq(PartType(T))
            /\ a.verdict = "complete" => Shows(a.parts, s, total)
            /\ a.verdict = "complete" <=> Filled(s, total) /\ ~Clash(s, total) /\ ~Hole(s)
            /\ a.verdict = "conflict" => Clash(s, total)
  <1> DEFINE o == InOrder(s)
             last == Looped(o, total)
             a == Assemble(s, total)
  <1>1. o \in Seq(SpanType(T)) /\ Sorted(o) /\ SameFragments(o, s)
    BY InOrderSorts
  <1>2. a = IF last.verdict # "looping" THEN last
            ELSE IF last.covered < total THEN [last EXCEPT !.verdict = "short"]
            ELSE [last EXCEPT !.verdict = "complete"]
    BY DEF Assemble, Looped, Start
  <1> HIDE DEF o, a
  <1>3. last \in AccType(T) /\ LoopInv(o, Len(o), total, last)
    BY <1>1, LoopOK
  <1> HIDE DEF last
  <1>4. /\ last.verdict \in {"looping", "gap", "conflict"}
        /\ last.covered \in Nat /\ last.parts \in Seq(PartType(T))
    BY <1>3 DEF AccType
  <1>5. \A parts : /\ Hole(o) <=> Hole(s)
                   /\ Clash(o, total) <=> Clash(s, total)
                   /\ Filled(o, total) <=> Filled(s, total)
                   /\ Shows(parts, o, total) <=> Shows(parts, s, total)
    BY <1>1, OrderIsIrrelevant, Zenon
  <1>6. /\ a.parts = last.parts
        /\ a.verdict = "complete" <=> last.verdict = "looping" /\ ~(last.covered < total)
        /\ a.verdict = "conflict" => last.verdict = "conflict"
    <2>1. last = [verdict |-> last.verdict, covered |-> last.covered, parts |-> last.parts]
      BY <1>3 DEF AccType
    <2>2. CASE last.verdict # "looping"
      BY <1>2, <1>4, <2>2
    <2>3. CASE last.verdict = "looping" /\ last.covered < total
      BY <1>2, <2>1, <2>3
    <2>4. CASE last.verdict = "looping" /\ ~(last.covered < total)
      BY <1>2, <2>1, <2>4, SMTT(30)
    <2> QED BY <2>2, <2>3, <2>4
  <1>7. CASE last.verdict = "looping"
    <2>1. Emitted(o, Len(o), total, last)
      BY <1>3, <1>7 DEF LoopInv
    <2>2. /\ last.covered >= total <=> Filled(o, total)
          /\ last.covered >= total => Shows(last.parts, o, total)
          /\ last.covered >= total => ~Clash(o, total)
          /\ ~Hole(o)
      BY <1>1, <1>3, <2>1, LoopingMeans
    <2>3. last.covered >= total <=> ~(last.covered < total)
      BY <1>4
    <2> QED BY <1>4, <1>5, <1>6, <1>7, <2>2, <2>3 DEF a
  <1>8. CASE last.verdict # "looping"
    <2>1. /\ Hole(o) \/ Clash(o, total)
          /\ last.verdict = "conflict" => Clash(o, total)
      BY <1>3, <1>4, <1>8 DEF LoopInv
    <2> QED BY <1>4, <1>5, <1>6, <1>8, <2>1 DEF a
  <1> QED BY <1>7, <1>8

-----------------------------------------------------------------------------
(* The contract holds *)

\* The four operations of a reassembly table keep the table's contract.
THEOREM TableKeepsContract == TableContract
  <1>1. AssemblyWorks
    BY AssembleOK DEF AssemblyWorks, Shows
  <1> QED BY <1>1, ContractFollows
=============================================================================
