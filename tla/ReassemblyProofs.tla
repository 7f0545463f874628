--------------------------- MODULE ReassemblyProofs ---------------------------
(***************************************************************************)
(* Theorems about the reassembly table, for any keys, any fragments, any   *)
(* limits and any sequence of calls.  TableInv is inductive: its part      *)
(* about entries rests on AssembleOK of AssemblyProofs, which says what    *)
(* the completion attempt decides; its part about the maps is what keeps   *)
(* by_id_.at(id) from failing.                                             *)
(***************************************************************************)
EXTENDS ReassemblyTable, AssemblyProofs, FiniteSetTheorems

-----------------------------------------------------------------------------
(* The inductive invariant *)

\* The fragments and parts of a table that is told no tokens.
Span == SpanType({kNoToken})
Part == PartType({kNoToken})

\* The fields of detail::Reassembly.
Entry ==
  [fragments : Seq(Span), total_length : Nat, have_last : BOOLEAN,
   conflict : BOOLEAN, first_packet_id : Nat, last_packet_id : Nat,
   completed : BOOLEAN, retired : BOOLEAN, fragment_count : Nat,
   covered_high : Nat, parts : Seq(Part), materialized : Seq(Nat)]

\* An entry fragments may still be added to.
Open(r) ==
  /\ r \in Entry
  /\ StoredBytes(r.fragments) <= Config.max_datagram_bytes
  /\ ~r.completed /\ ~r.retired
  /\ r.parts = <<>> /\ r.materialized = <<>>

\* A completed entry: what it shows is its datagram, until retire() empties it,
\* and a buffer stitched from it is as long as the datagram.
Closed(r) ==
  /\ r \in Entry
  /\ StoredBytes(r.fragments) <= Config.max_datagram_bytes
  /\ r.completed
  /\ ~r.retired => /\ Filled(r.fragments, r.total_length)
                   /\ Shows(r.parts, r.fragments, r.total_length)
  /\ r.materialized # <<>> => /\ Len(r.materialized) = r.total_length
                              /\ ~r.retired => r.materialized = Bytes(r.parts)

\* An entry's packets are behind the current one.
Dated(r) == r.first_packet_id < pid /\ r.last_packet_id < pid

\* The inductive invariant: the two maps agree, the limits hold, and every
\* entry is open or shows its datagram.
TableInv ==
  /\ pid \in 0..MaxPackets
  /\ {"key_to_id", "by_id", "next_id"} \subseteq DOMAIN table
  /\ DOMAIN table.key_to_id \subseteq Key
  /\ table.next_id \in Nat \ {0}
  /\ Live \subseteq 1..(table.next_id - 1)
  /\ Cardinality(Live) <= Config.max_concurrent
  /\ IndexAgrees
  /\ \A id \in Live : Dated(table.by_id[id])
  /\ \A id \in Live : Open(table.by_id[id]) \/ Closed(table.by_id[id])

-----------------------------------------------------------------------------
(* The reference in terms of the fragment list *)

\* The reference the properties are stated with says of an entry what the
\* lemmas about the completion loop of add_fragment say of its fragments.
LEMMA ReferenceOK ==
  ASSUME NEW r, r.fragments \in Seq(Span)
  PROVE  /\ Whole(r) <=> r.have_last /\ Filled(r.fragments, r.total_length)
         /\ Agreed(r) <=> ~Clash(r.fragments, r.total_length)
         /\ Connected(r) <=> ~Hole(r.fragments)
         /\ \A p : Covered(r, p) <=> \E i \in 1..Len(r.fragments) : Covers(r.fragments[i], p)
         /\ \A f \in Fragment(r) : \E i \in 1..Len(r.fragments) : r.fragments[i] = f
  <1> DEFINE s == r.fragments
  <1>1. DOMAIN s = 1..Len(s)
    OBVIOUS
  <1>2. Fragment(r) = {s[i] : i \in 1..Len(s)}
    BY <1>1 DEF Fragment
  <1>3. \A p : Covered(r, p) <=> \E i \in 1..Len(s) : Covers(s[i], p)
    BY <1>2 DEF Covered
  <1> HIDE DEF s
  <1>4. Agreed(r) <=> ~Clash(s, r.total_length)
    <2>1. ASSUME Clash(s, r.total_length) PROVE ~Agreed(r)
      <3>1. PICK i \in 1..Len(s), j \in 1..Len(s), p \in Positions(r) :
                 Covers(s[i], p) /\ Covers(s[j], p) /\ ByteOf(s[i], p) # ByteOf(s[j], p)
        BY <2>1 DEF Clash, Positions
      <3>2. s[i] \in Fragment(r) /\ s[j] \in Fragment(r)
        BY <1>2
      <3> QED BY <3>1, <3>2 DEF Agreed
    <2>2. ASSUME ~Agreed(r) PROVE Clash(s, r.total_length)
      <3>1. PICK p \in Positions(r), f \in Fragment(r), g \in Fragment(r) :
                 Covers(f, p) /\ Covers(g, p) /\ ByteOf(f, p) # ByteOf(g, p)
        BY <2>2 DEF Agreed
      <3>2. PICK i \in 1..Len(s) : s[i] = f
        BY <1>2
      <3>3. PICK j \in 1..Len(s) : s[j] = g
        BY <1>2
      <3> QED BY <3>1, <3>2, <3>3 DEF Clash, Positions
    <2> QED BY <2>1, <2>2
  <1>5. Connected(r) <=> ~Hole(s)
    BY <1>2, <1>3, Zenon DEF Connected, Hole
  <1>6. Whole(r) <=> r.have_last /\ Filled(s, r.total_length)
    BY <1>3, Zenon DEF Whole, Filled, Positions
  <1>7. \A f \in Fragment(r) : \E i \in 1..Len(s) : s[i] = f
    BY <1>2
  <1> QED BY <1>3, <1>4, <1>5, <1>6, <1>7 DEF s

-----------------------------------------------------------------------------
(* add_fragment on one entry *)

\* The span add_fragment stores carries the fragment's offset and bytes.
LEMMA SpanOK ==
  ASSUME NEW off \in Nat, NEW p \in Nat, NEW more \in BOOLEAN, NEW data \in Seq(Nat)
  PROVE  /\ FragmentSpan(off, p, more, data, kNoToken) \in Span
         /\ FragmentSpan(off, p, more, data, kNoToken).data = data
         /\ FragmentSpan(off, p, more, data, kNoToken).offset_bytes = off
  BY DEF FragmentSpan, Span, SpanType

\* The entry add_fragment opens for a new key is open, with no fragment.
LEMMA NewOpen ==
  ASSUME NEW p \in Nat
  PROVE  /\ Open(NewReassembly(p))
         /\ NewReassembly(p).first_packet_id = p
         /\ NewReassembly(p).fragment_count = 0
  <1>1. NewReassembly(p) \in Entry
    BY TickAssumption DEF NewReassembly, Entry, kNoPacket
  <1> QED BY <1>1, StoredBytesEmpty, TableAssumption DEF NewReassembly, Open

\* Noting a packet and a terminal fragment leaves an open entry open, with
\* the same fragments, even when add_fragment then drops the fragment.
LEMMA TouchedOpen ==
  ASSUME NEW r, Open(r), NEW p \in Nat, NEW off \in Nat, NEW more \in BOOLEAN,
         NEW data \in Seq(Nat), NEW t, t = Touched(r, p, off, more, data)
  PROVE  /\ Open(t) /\ t.fragments = r.fragments
         /\ t.last_packet_id = p /\ t.first_packet_id = r.first_packet_id
         /\ t.fragment_count = r.fragment_count /\ t.conflict = r.conflict
  <1>1. r \in Entry
    BY DEF Open
  <1>2. /\ t \in Entry /\ t.fragments = r.fragments
        /\ t.last_packet_id = p /\ t.first_packet_id = r.first_packet_id
        /\ t.fragment_count = r.fragment_count /\ t.conflict = r.conflict
        /\ t.completed = r.completed /\ t.retired = r.retired
        /\ t.parts = r.parts /\ t.materialized = r.materialized
    <2> DEFINE total == IF more THEN r.total_length ELSE off + Len(data)
    <2>1. total \in Nat /\ (r.have_last \/ ~more) \in BOOLEAN
      BY <1>1 DEF Entry
    <2>2. t = [r EXCEPT !.last_packet_id = p, !.have_last = r.have_last \/ ~more,
                        !.total_length = total]
      BY DEF Touched
    <2> HIDE DEF total
    <2> QED BY <1>1, <2>1, <2>2, Zenon DEF Entry
  <1> QED BY <1>2 DEF Open

\* Storing a fragment that passed add_fragment's size check keeps the entry
\* open and within max_datagram_bytes.
LEMMA StoredOpen ==
  ASSUME NEW r, Open(r), NEW f \in Span,
         StoredBytes(r.fragments) + Len(f.data) <= Config.max_datagram_bytes,
         NEW t, t = Stored(r, f)
  PROVE  /\ Open(t)
         /\ t.last_packet_id = r.last_packet_id /\ t.first_packet_id = r.first_packet_id
         /\ t.fragment_count = r.fragment_count + 1 /\ t.conflict = r.conflict
  <1>1. r \in Entry
    BY DEF Open
  <1>2. r.fragments \in Seq(Span)
    BY <1>1 DEF Entry
  <1>3. Larger(r.covered_high, f.offset_bytes + Len(f.data)) \in Nat
    BY <1>1 DEF Entry, Larger, Span, SpanType
  <1>4. Append(r.fragments, f) \in Seq(Span)
    BY <1>2
  <1>5. /\ t \in Entry /\ t.fragments = Append(r.fragments, f)
        /\ t.last_packet_id = r.last_packet_id /\ t.first_packet_id = r.first_packet_id
        /\ t.fragment_count = r.fragment_count + 1 /\ t.conflict = r.conflict
        /\ t.completed = r.completed /\ t.retired = r.retired
        /\ t.parts = r.parts /\ t.materialized = r.materialized
    <2> DEFINE high == Larger(r.covered_high, f.offset_bytes + Len(f.data))
               all == Append(r.fragments, f)
    <2>1. t = [r EXCEPT !.fragments = all, !.fragment_count = r.fragment_count + 1,
                        !.covered_high = high]
      BY DEF Stored
    <2>2. high \in Nat /\ all \in Seq(Span)
      BY <1>3, <1>4
    <2> HIDE DEF high, all
    <2>3. r.fragment_count + 1 \in Nat
      BY <1>1 DEF Entry
    <2> QED BY <1>1, <2>1, <2>2, <2>3, Zenon DEF Entry, all
  <1>6. StoredBytes(Append(r.fragments, f)) = StoredBytes(r.fragments) + Len(f.data)
    BY <1>2, StoredBytesAppend DEF Span
  <1> QED BY <1>5, <1>6 DEF Open

\* The completion attempt of add_fragment closes an entry exactly when its
\* last fragment has come and the fragments fill it, without hole or clash;
\* otherwise it stays open.  It marks a conflict only where there is a clash.
LEMMA SettledEntry ==
  ASSUME NEW r, Open(r), NEW t, t = Settled(r)
  PROVE  /\ Open(t) \/ Closed(t)
         /\ t.completed <=> /\ r.have_last /\ Filled(t.fragments, t.total_length)
                            /\ ~Clash(t.fragments, t.total_length) /\ ~Hole(t.fragments)
         /\ t.conflict => r.conflict \/ Clash(t.fragments, t.total_length)
         /\ t.have_last = r.have_last
         /\ t.last_packet_id = r.last_packet_id /\ t.first_packet_id = r.first_packet_id
         /\ t.fragment_count = r.fragment_count
  <1> DEFINE a == Assemble(r.fragments, r.total_length)
  <1>1. r \in Entry /\ r.fragments \in Seq(SpanType({kNoToken})) /\ r.total_length \in Nat
    BY DEF Open, Entry, Span
  <1>2. /\ a.parts \in Seq(PartType({kNoToken}))
        /\ a.verdict = "complete" => Shows(a.parts, r.fragments, r.total_length)
        /\ a.verdict = "complete" <=> /\ Filled(r.fragments, r.total_length)
                                      /\ ~Clash(r.fragments, r.total_length)
                                      /\ ~Hole(r.fragments)
        /\ a.verdict = "conflict" => Clash(r.fragments, r.total_length)
    BY <1>1, AssembleOK
  <1>3. t = IF ~r.have_last THEN r
            ELSE [r EXCEPT !.conflict  = r.conflict \/ a.verdict = "conflict",
                           !.completed = a.verdict = "complete",
                           !.parts     = IF a.verdict = "complete" THEN a.parts ELSE r.parts]
    BY DEF Settled
  <1> HIDE DEF a
  <1>4. CASE ~r.have_last
    BY <1>3, <1>4 DEF Open
  <1>5. CASE r.have_last
    <2>1. /\ t \in Entry
          /\ t.fragments = r.fragments /\ t.total_length = r.total_length
          /\ t.have_last = r.have_last /\ t.retired = r.retired
          /\ t.materialized = r.materialized
          /\ t.last_packet_id = r.last_packet_id /\ t.first_packet_id = r.first_packet_id
          /\ t.fragment_count = r.fragment_count
          /\ t.completed = (a.verdict = "complete")
          /\ t.conflict = (r.conflict \/ a.verdict = "conflict")
          /\ t.parts = IF a.verdict = "complete" THEN a.parts ELSE r.parts
      BY <1>1, <1>2, <1>3, <1>5, ZenonT(40) DEF Entry, Part
    <2>2. CASE a.verdict = "complete"
      BY <1>2, <1>5, <2>1, <2>2, Zenon DEF Open, Closed
    <2>3. CASE a.verdict # "complete"
      BY <1>2, <1>5, <2>1, <2>3, Zenon DEF Open
    <2> QED BY <2>2, <2>3
  <1> QED BY <1>4, <1>5

\* What add_fragment leaves of an open entry.
After(r, s, p) ==
  /\ Open(s) \/ Closed(s)
  /\ s.last_packet_id = p /\ s.first_packet_id = r.first_packet_id
  /\ s.fragment_count > r.fragment_count =>
       /\ s.completed <=> Whole(s) /\ Agreed(s) /\ Connected(s)
       /\ s.conflict => r.conflict \/ ~Agreed(s)

\* All of add_fragment on one entry: noted, dropped or stored, settled.
LEMMA ReceivedEntry ==
  ASSUME NEW r, Open(r), NEW p \in Nat, NEW off \in Nat, NEW more \in BOOLEAN,
         NEW data \in Seq(Nat)
  PROVE  After(r, Received(Config, r, p, off, more, data, kNoToken), p)
  <1> DEFINE t == Touched(r, p, off, more, data)
             f == FragmentSpan(off, p, more, data, kNoToken)
             u == Stored(t, f)
             v == Settled(u)
             s == Received(Config, r, p, off, more, data, kNoToken)
  <1>1. /\ Open(t) /\ t.fragments = r.fragments
        /\ t.last_packet_id = p /\ t.first_packet_id = r.first_packet_id
        /\ t.fragment_count = r.fragment_count /\ t.conflict = r.conflict
    BY TouchedOpen
  <1>2. r.fragment_count \in Nat /\ t.fragments \in Seq(Span)
    BY <1>1 DEF Open, Entry
  <1>3. s = IF Oversized(Config, t, data) THEN t ELSE v
    BY DEF Received
  <1>4. f \in Span /\ f.data = data
    BY SpanOK
  <1> HIDE DEF t, f, s
  <1>5. CASE Oversized(Config, t, data)
    BY <1>1, <1>2, <1>3, <1>5 DEF After, s
  <1>6. CASE ~Oversized(Config, t, data)
    <2>1. StoredBytes(t.fragments) \in Nat
      BY <1>2, <1>4, StoredBytesAppend DEF Span
    <2>2. StoredBytes(t.fragments) + Len(f.data) <= Config.max_datagram_bytes
      BY <1>4, <1>6, <2>1, TableAssumption DEF Oversized
    <2>3. /\ Open(u)
          /\ u.last_packet_id = t.last_packet_id /\ u.first_packet_id = t.first_packet_id
          /\ u.conflict = t.conflict
      BY <1>1, <1>4, <2>2, StoredOpen
    <2> HIDE DEF u
    <2>4. /\ Open(v) \/ Closed(v)
          /\ v.completed <=> /\ u.have_last /\ Filled(v.fragments, v.total_length)
                             /\ ~Clash(v.fragments, v.total_length) /\ ~Hole(v.fragments)
          /\ v.conflict => u.conflict \/ Clash(v.fragments, v.total_length)
          /\ v.have_last = u.have_last
          /\ v.last_packet_id = u.last_packet_id /\ v.first_packet_id = u.first_packet_id
      BY <2>3, SettledEntry
    <2> HIDE DEF v
    <2>5. v.fragments \in Seq(Span)
      BY <2>4 DEF Open, Closed, Entry
    <2>6. /\ Whole(v) <=> v.have_last /\ Filled(v.fragments, v.total_length)
          /\ Agreed(v) <=> ~Clash(v.fragments, v.total_length)
          /\ Connected(v) <=> ~Hole(v.fragments)
      BY <2>5, ReferenceOK
    <2> QED BY <1>1, <1>3, <1>6, <2>3, <2>4, <2>6 DEF After, s
  <1> QED BY <1>5, <1>6

-----------------------------------------------------------------------------
(* The steps *)

\* What a fragment does to the table: the entry its key leads to, or a new one,
\* is the only one it touches.
LEMMA AddMeans ==
  ASSUME TableInv, NEW key \in Key, NEW f \in Fragments, AddFragment(key, f),
         ~AtCapacity(Config, table, key)
  PROVE  \E r0, r :
           LET id == EntryId(table, key)
           IN /\ table' = Filed(table, key, id, r)
              /\ Open(r0) /\ After(r0, r, pid) /\ r0.first_packet_id <= pid
              /\ IF key \in DOMAIN table.key_to_id
                 THEN id \in Live /\ r0 = table.by_id[id]
                 ELSE id = table.next_id /\ id \notin Live /\ r0 = NewReassembly(pid)
  <1> DEFINE id == EntryId(table, key)
             r0 == EntryOf(table, key, pid)
             r  == Received(Config, r0, pid, f.offset, f.more, f.data, kNoToken)
  <1>1. f.offset \in Nat /\ f.more \in BOOLEAN /\ f.data \in Seq(Nat)
    BY TableAssumption
  <1>2. table' = Filed(table, key, id, r)
    BY DEF AddFragment, add_fragment
  <1>3. pid \in Nat
    BY TableAssumption DEF TableInv
  <1>4. CASE key \in DOMAIN table.key_to_id
    <2>1. id = table.key_to_id[key] /\ r0 = table.by_id[id]
      BY <1>4 DEF EntryId, EntryOf
    <2>2. id \in Live /\ ~r0.completed
      BY <1>4, <2>1 DEF TableInv, IndexAgrees
    <2>3. Open(r0) /\ Dated(r0)
      BY <2>1, <2>2, Zenon DEF TableInv, Closed
    <2>4. r0.first_packet_id <= pid
      BY <1>3, <2>3 DEF Dated, Open, Entry
    <2> HIDE DEF r0
    <2>5. After(r0, r, pid)
      BY <1>1, <1>3, <2>3, ReceivedEntry
    <2> HIDE DEF r, id
    <2> QED BY <1>2, <1>4, <2>1, <2>2, <2>3, <2>4, <2>5, SMTT(30) DEF id
  <1>5. CASE key \notin DOMAIN table.key_to_id
    <2>1. id = table.next_id /\ r0 = NewReassembly(pid)
      BY <1>5 DEF EntryId, EntryOf
    <2>2. id \notin Live
      BY <2>1 DEF TableInv
    <2>3. Open(r0) /\ r0.first_packet_id = pid
      BY <1>3, <2>1, NewOpen
    <2> HIDE DEF r0
    <2>4. After(r0, r, pid)
      BY <1>1, <1>3, <2>3, ReceivedEntry
    <2> HIDE DEF r, id
    <2> QED BY <1>2, <1>3, <1>5, <2>1, <2>2, <2>3, <2>4, SMTT(30) DEF id
  <1> QED BY <1>4, <1>5

\* The table has finitely many entries.
LEMMA LiveIsFinite ==
  ASSUME TableInv
  PROVE  IsFiniteSet(Live) /\ Cardinality(Live) \in Nat
  <1>1. IsFiniteSet(1..(table.next_id - 1))
    BY FS_Interval DEF TableInv
  <1>2. IsFiniteSet(Live)
    BY <1>1, FS_Subset, Zenon DEF TableInv
  <1> QED BY <1>2, FS_CardinalityType

\* The maps after a fragment.
LEMMA FiledMaps ==
  ASSUME TableInv, NEW key \in Key, NEW r, NEW id, id = EntryId(table, key),
         table' = Filed(table, key, id, r)
  PROVE  /\ {"key_to_id", "by_id", "next_id"} \subseteq DOMAIN table'
         /\ Live' = Live \cup {id}
         /\ table'.by_id[id] = r
         /\ \A i \in Live \ {id} : table'.by_id[i] = table.by_id[i]
         /\ table'.next_id = IF key \in DOMAIN table.key_to_id THEN table.next_id
                                                                ELSE table.next_id + 1
         /\ r.completed =>
              /\ DOMAIN table'.key_to_id = DOMAIN table.key_to_id \ {key}
              /\ \A k \in DOMAIN table.key_to_id \ {key} :
                   table'.key_to_id[k] = table.key_to_id[k]
         /\ ~r.completed =>
              /\ DOMAIN table'.key_to_id = DOMAIN table.key_to_id \cup {key}
              /\ table'.key_to_id[key] = id
              /\ \A k \in DOMAIN table.key_to_id \ {key} :
                   table'.key_to_id[k] = table.key_to_id[k]
  <1>1. /\ {"key_to_id", "by_id", "next_id"} \subseteq DOMAIN table'
        /\ table'.next_id = IF key \in DOMAIN table.key_to_id THEN table.next_id
                                                               ELSE table.next_id + 1
    BY DEF Filed
  <1>2. table'.by_id = [i \in DOMAIN table.by_id \cup {id} |->
                          IF i = id THEN r ELSE table.by_id[i]]
    BY DEF Filed
  <1>3. table'.key_to_id = IF r.completed
                           THEN [k \in DOMAIN table.key_to_id \ {key} |-> table.key_to_id[k]]
                           ELSE [k \in DOMAIN table.key_to_id \cup {key} |->
                                   IF k = key THEN id ELSE table.key_to_id[k]]
    BY DEF Filed
  <1> QED BY <1>1, <1>2, <1>3 DEF Live

\* add_fragment keeps the invariant.
LEMMA AddKeeps ==
  ASSUME TableInv, NEW key \in Key, NEW f \in Fragments, AddFragment(key, f)
  PROVE  TableInv'
  <1>1. pid \in Nat /\ MaxPackets \in Nat /\ pid' = pid + 1 /\ pid' \in 0..MaxPackets
    BY TableAssumption DEF TableInv, AddFragment
  <1>2. CASE AtCapacity(Config, table, key)
    <2>1. table' = table
      BY <1>2 DEF AddFragment, add_fragment, NoResult
    <2>2. ASSUME NEW i \in Live PROVE Dated(table.by_id[i])'
      <3>1. /\ Dated(table.by_id[i])
            /\ table.by_id[i].first_packet_id \in Nat /\ table.by_id[i].last_packet_id \in Nat
        BY SMTT(30) DEF TableInv, Open, Closed, Entry
      <3> QED BY <1>1, <2>1, <3>1, SMTT(30) DEF Dated
    <2>3. IndexAgrees' /\ Live' = Live
      BY <2>1 DEF TableInv, IndexAgrees, Live
    <2> QED BY <1>1, <2>1, <2>2, <2>3, SMTT(30) DEF TableInv, Open, Closed
  <1>3. CASE ~AtCapacity(Config, table, key)
    <2> DEFINE id == EntryId(table, key)
               K == DOMAIN table.key_to_id
    <2>1. PICK r0, r :
             /\ table' = Filed(table, key, id, r)
             /\ Open(r0) /\ After(r0, r, pid) /\ r0.first_packet_id <= pid
             /\ IF key \in K
                THEN id \in Live /\ r0 = table.by_id[id]
                ELSE id = table.next_id /\ id \notin Live /\ r0 = NewReassembly(pid)
      BY <1>3, AddMeans
    <2>2. key \in K => id = table.key_to_id[key]
      BY DEF EntryId
    <2>3. /\ {"key_to_id", "by_id", "next_id"} \subseteq DOMAIN table'
          /\ Live' = Live \cup {id}
          /\ table'.by_id[id] = r
          /\ \A i \in Live \ {id} : table'.by_id[i] = table.by_id[i]
          /\ table'.next_id = IF key \in K THEN table.next_id ELSE table.next_id + 1
          /\ r.completed =>
               /\ DOMAIN table'.key_to_id = K \ {key}
               /\ \A k \in K \ {key} : table'.key_to_id[k] = table.key_to_id[k]
          /\ ~r.completed =>
               /\ DOMAIN table'.key_to_id = K \cup {key}
               /\ table'.key_to_id[key] = id
               /\ \A k \in K \ {key} : table'.key_to_id[k] = table.key_to_id[k]
      BY <2>1, FiledMaps
    <2> HIDE DEF id
    <2>4. /\ \A k \in K : table.key_to_id[k] \in Live /\ ~table.by_id[table.key_to_id[k]].completed
          /\ \A k, l \in K : table.key_to_id[k] = table.key_to_id[l] => k = l
          /\ \A i \in Live : ~table.by_id[i].completed => \E k \in K : table.key_to_id[k] = i
      BY DEF TableInv, IndexAgrees
    <2>5. \A k \in K \ {key} : table.key_to_id[k] \in Live \ {id}
      BY <2>1, <2>2, <2>4
    <2> HIDE DEF K
    <2>6. IndexAgrees'
      <3> DEFINE k2 == table'.key_to_id
      <3>1. ASSUME NEW k \in DOMAIN k2
            PROVE  k2[k] \in Live' /\ ~table'.by_id[k2[k]].completed
        <4>1. CASE k = key
          BY <2>3, <4>1
        <4>2. CASE k # key
          <5>1. k \in K \ {key} /\ k2[k] = table.key_to_id[k]
            BY <2>3, <4>2
          <5> QED BY <2>3, <2>4, <2>5, <5>1, SMTT(30)
        <4> QED BY <4>1, <4>2
      <3>2. ASSUME NEW k \in DOMAIN k2, NEW l \in DOMAIN k2, k2[k] = k2[l]
            PROVE  k = l
        <4>1. \A m \in DOMAIN k2 : m # key => m \in K \ {key} /\ k2[m] = table.key_to_id[m]
          BY <2>3
        <4>2. key \in DOMAIN k2 => k2[key] = id
          BY <2>3
        <4> QED BY <2>4, <2>5, <3>2, <4>1, <4>2, SMTT(30)
      <3>3. ASSUME NEW i \in Live', ~table'.by_id[i].completed
            PROVE  \E k \in DOMAIN k2 : k2[k] = i
        <4>1. CASE i = id
          BY <2>3, <3>3, <4>1
        <4>2. CASE i # id
          <5>1. i \in Live /\ ~table.by_id[i].completed
            BY <2>3, <3>3, <4>2
          <5>2. PICK k \in K : table.key_to_id[k] = i
            BY <2>4, <5>1
          <5>3. k # key
            BY <2>2, <4>2, <5>2
          <5> QED BY <2>3, <5>2, <5>3
        <4> QED BY <4>1, <4>2
      <3> QED BY <3>1, <3>2, <3>3 DEF IndexAgrees
    <2>7. /\ DOMAIN table'.key_to_id \subseteq Key
          /\ table'.next_id \in Nat \ {0}
          /\ Live' \subseteq 1..(table'.next_id - 1)
      <3>1. DOMAIN table'.key_to_id \subseteq Key
        BY <2>3 DEF TableInv, K
      <3>2. table.next_id \in Nat \ {0} /\ Live \subseteq 1..(table.next_id - 1)
        BY DEF TableInv
      <3>3. CASE key \in K
        BY <2>1, <2>3, <3>1, <3>2, <3>3, ZenonT(40)
      <3>4. CASE key \notin K
        <4>1. id = table.next_id /\ table'.next_id = table.next_id + 1 /\ Live' = Live \cup {id}
          BY <2>1, <2>3, <3>4
        <4>2. table'.next_id - 1 = table.next_id /\ table'.next_id \in Nat \ {0}
          BY ONLY <3>2, <4>1
        <4>3. \A i \in Live \cup {id} : i \in 1..table.next_id
          BY ONLY <3>2, <4>1
        <4> QED BY <3>1, <4>1, <4>2, <4>3, SMTT(30)
      <3> QED BY <3>3, <3>4
    <2>8. Cardinality(Live') <= Config.max_concurrent
      <3>1. CASE key \in K
        <4>1. Live' = Live
          BY <2>1, <2>3, <3>1
        <4> QED BY <4>1 DEF TableInv
      <3>2. CASE key \notin K
        <4>1. ~(Cardinality(Live) >= Config.max_concurrent)
          BY <1>3, <3>2 DEF AtCapacity, Live, K
        <4>2. Cardinality(Live') = Cardinality(Live) + 1
          BY <2>1, <2>3, <3>2, LiveIsFinite, FS_AddElement, ZenonT(40)
        <4> QED BY <4>1, <4>2, LiveIsFinite, TableAssumption, SMTT(30)
      <3> QED BY <3>1, <3>2
    <2>9. ASSUME NEW i \in Live'
          PROVE  Dated(table.by_id[i])' /\ (Open(table.by_id[i]) \/ Closed(table.by_id[i]))'
      <3>1. CASE i = id
        <4>1. table'.by_id[i] = r
          BY <2>3, <3>1
        <4>2. Open(r) \/ Closed(r)
          BY <2>1 DEF After
        <4>3. r.last_packet_id = pid /\ r.first_packet_id = r0.first_packet_id
          BY <2>1 DEF After
        <4>4. r0.first_packet_id \in Nat
          BY <2>1, SMTT(30) DEF Open, Entry
        <4> QED BY <1>1, <2>1, <4>1, <4>2, <4>3, <4>4, SMTT(30) DEF Dated, Open, Closed
      <3>2. CASE i # id
        <4>1. i \in Live /\ table'.by_id[i] = table.by_id[i]
          BY <2>3, <3>2
        <4>2. /\ Dated(table.by_id[i])
              /\ Open(table.by_id[i]) \/ Closed(table.by_id[i])
          BY <4>1 DEF TableInv
        <4>3. table.by_id[i].first_packet_id \in Nat /\ table.by_id[i].last_packet_id \in Nat
          BY <4>2, SMTT(30) DEF Open, Closed, Entry
        <4> QED BY <1>1, <4>1, <4>2, <4>3, SMTT(30) DEF Dated, Open, Closed
      <3> QED BY <3>1, <3>2, SMTT(30)
    <2> QED BY <1>1, <2>3, <2>6, <2>7, <2>8, <2>9, ZenonT(40) DEF TableInv
  <1> QED BY <1>2, <1>3

\* A packet that is no fragment keeps the invariant.
LEMMA OtherKeeps ==
  ASSUME TableInv, OtherPacket
  PROVE  TableInv'
  <1>1. /\ pid \in Nat /\ MaxPackets \in Nat /\ pid' = pid + 1 /\ pid' \in 0..MaxPackets
        /\ table' = table
    BY TableAssumption DEF TableInv, OtherPacket
  <1>2. ASSUME NEW i \in Live PROVE Dated(table.by_id[i])'
    <2>1. /\ Dated(table.by_id[i])
          /\ table.by_id[i].first_packet_id \in Nat /\ table.by_id[i].last_packet_id \in Nat
      BY SMTT(30) DEF TableInv, Open, Closed, Entry
    <2> QED BY <1>1, <2>1 DEF Dated
  <1>3. IndexAgrees' /\ Live' = Live
    BY <1>1 DEF TableInv, IndexAgrees, Live
  <1> QED BY <1>1, <1>2, <1>3 DEF TableInv, Open, Closed

\* A step that changes one completed entry, and nothing about its identity.
LEMMA EntryStepKeeps ==
  ASSUME TableInv, UNCHANGED pid, NEW id \in Live, NEW s, Closed(s), Dated(s),
         table.by_id[id].completed,
         {"key_to_id", "by_id", "next_id"} \subseteq DOMAIN table',
         table'.key_to_id = table.key_to_id, table'.next_id = table.next_id,
         Live' = Live, table'.by_id[id] = s,
         \A i \in Live \ {id} : table'.by_id[i] = table.by_id[i]
  PROVE  TableInv'
  <1>1. \A i \in Live : table'.by_id[i].completed <=> table.by_id[i].completed
    BY DEF Closed, TableInv
  <1>2. IndexAgrees'
    BY <1>1 DEF TableInv, IndexAgrees
  <1>3. ASSUME NEW i \in Live'
        PROVE  Dated(table.by_id[i])' /\ (Open(table.by_id[i]) \/ Closed(table.by_id[i]))'
    <2>1. CASE i = id
      BY <2>1 DEF Dated, Open, Closed
    <2>2. CASE i # id
      BY <2>2 DEF TableInv, Dated, Open, Closed
    <2> QED BY <2>1, <2>2
  <1> QED BY <1>2, <1>3, SMTT(30) DEF TableInv

\* The entry retire leaves.
EmptiedEntry(r) == [r EXCEPT !.fragments = <<>>, !.parts = <<>>, !.retired = TRUE]

\* retire keeps the invariant: an emptied entry claims nothing any more.
LEMMA RetireKeeps ==
  ASSUME TableInv, NEW id \in Live, Retire(id)
  PROVE  TableInv'
  <1>1. CASE ~Retirable(table, id)
    <2>1. table' = table /\ pid' = pid
      BY <1>1 DEF Retire, retire
    <2> QED BY <2>1 DEF TableInv, IndexAgrees, Live, Dated, Open, Closed
  <1>2. CASE Retirable(table, id)
    <2> DEFINE r == table.by_id[id]
               s == EmptiedEntry(r)
    <2>1. r.completed /\ ~r.retired
      BY <1>2 DEF Retirable
    <2>2. Closed(r) /\ Dated(r)
      BY <2>1 DEF TableInv, Open
    <2>3. Closed(s) /\ Dated(s)
      <3> HIDE DEF r
      <3>1. r \in Entry
        BY <2>2 DEF Closed
      <3>2. /\ s \in Entry /\ s.fragments = <<>> /\ s.retired
            /\ s.completed = r.completed /\ s.total_length = r.total_length
            /\ s.materialized = r.materialized
            /\ s.first_packet_id = r.first_packet_id /\ s.last_packet_id = r.last_packet_id
        <4> DEFINE none == <<>>
        <4>1. none \in Seq(Span) /\ none \in Seq(Part)
          OBVIOUS
        <4>2. s = [r EXCEPT !.fragments = none, !.parts = none, !.retired = TRUE]
          BY DEF EmptiedEntry
        <4>3. none = <<>>
          OBVIOUS
        <4> HIDE DEF none, s
        <4> QED BY <3>1, <4>1, <4>2, <4>3, Zenon DEF Entry
      <3> QED BY <2>1, <2>2, <3>2, StoredBytesEmpty, TableAssumption DEF Closed, Dated
    <2>4. /\ {"key_to_id", "by_id", "next_id"} \subseteq DOMAIN table'
          /\ table'.key_to_id = table.key_to_id /\ table'.next_id = table.next_id
          /\ Live' = Live /\ table'.by_id[id] = s
          /\ \A i \in Live \ {id} : table'.by_id[i] = table.by_id[i]
      BY <1>2, Zenon DEF Retire, retire, TableInv, Live, EmptiedEntry
    <2>5. UNCHANGED pid
      BY DEF Retire
    <2> HIDE DEF s
    <2> QED BY <2>1, <2>3, <2>4, <2>5, EntryStepKeeps, ZenonT(40)
  <1> QED BY <1>1, <1>2, SMTT(30)

\* The bytes materialize answers with are the whole datagram.
LEMMA StitchedOK ==
  ASSUME NEW r, Closed(r), ~(r.retired /\ r.materialized = <<>> /\ r.total_length > 0)
  PROVE  /\ Stitched(r) \in Seq(Nat)
         /\ Len(Stitched(r)) = r.total_length
         /\ ~r.retired /\ Stitched(r) # <<>> => Stitched(r) = Bytes(r.parts)
  <1>1. r \in Entry /\ r.parts \in Seq(PartType({kNoToken})) /\ r.total_length \in Nat
        /\ r.materialized \in Seq(Nat)
    BY DEF Closed, Entry, Part
  <1>2. CASE r.materialized = <<>> /\ r.total_length > 0
    <2>1. Stitched(r) = Bytes(r.parts)
      BY <1>2 DEF Stitched
    <2>2. Bytes(r.parts) \in Seq(Nat)
      BY <1>1, BytesTyped
    <2>3. Len(Bytes(r.parts)) = r.total_length
      BY <1>2 DEF Closed, Shows
    <2> QED BY <2>1, <2>2, <2>3
  <1>3. CASE ~(r.materialized = <<>> /\ r.total_length > 0)
    <2>1. Stitched(r) = r.materialized
      BY <1>3 DEF Stitched
    <2>2. CASE r.materialized # <<>>
      BY <1>1, <2>1, <2>2 DEF Closed
    <2>3. CASE r.materialized = <<>>
      <3>1. r.total_length = 0
        BY <1>1, <1>3, <2>3
      <3> QED BY <2>1, <2>3, <3>1
    <2> QED BY <2>2, <2>3
  <1> QED BY <1>2, <1>3

\* materialize keeps the invariant: what it stitches is what the parts show.
LEMMA MaterializeKeeps ==
  ASSUME TableInv, NEW id \in Live, Materialize(id)
  PROVE  TableInv'
  <1> DEFINE r == table.by_id[id]
             bytes == Stitched(r)
             s == [r EXCEPT !.materialized = bytes]
  <1>1. CASE Unavailable(table, id)
    <2>1. table' = table /\ pid' = pid
      BY <1>1 DEF Materialize, materialize
    <2> QED BY <2>1 DEF TableInv, IndexAgrees, Live, Dated, Open, Closed
  <1>2. CASE ~Unavailable(table, id)
    <2>1. r.completed /\ ~(r.retired /\ r.materialized = <<>> /\ r.total_length > 0)
      BY <1>2 DEF Unavailable
    <2>2. Closed(r) /\ Dated(r)
      BY <2>1 DEF TableInv, Open
    <2>3. /\ {"key_to_id", "by_id", "next_id"} \subseteq DOMAIN table'
          /\ table'.key_to_id = table.key_to_id /\ table'.next_id = table.next_id
          /\ Live' = Live /\ table'.by_id[id] = s
          /\ \A i \in Live \ {id} : table'.by_id[i] = table.by_id[i]
      <3>1. table' = [table EXCEPT !.by_id[id].materialized = bytes]
        BY <1>2 DEF Materialize, materialize
      <3> HIDE DEF bytes
      <3> QED BY <3>1, Zenon DEF TableInv, Live
    <2>4. UNCHANGED pid
      BY DEF Materialize
    <2>5. Closed(s) /\ Dated(s)
      <3> HIDE DEF r
      <3>1. /\ bytes \in Seq(Nat) /\ Len(bytes) = r.total_length
            /\ ~r.retired /\ bytes # <<>> => bytes = Bytes(r.parts)
        BY <2>1, <2>2, StitchedOK
      <3>2. r \in Entry
        BY <2>2 DEF Closed
      <3> HIDE DEF bytes
      <3>3. /\ s \in Entry /\ s.fragments = r.fragments /\ s.parts = r.parts
            /\ s.retired = r.retired
            /\ s.completed = r.completed /\ s.total_length = r.total_length
            /\ s.materialized = bytes
            /\ s.first_packet_id = r.first_packet_id /\ s.last_packet_id = r.last_packet_id
        BY <3>1, <3>2, Zenon DEF Entry
      <3> HIDE DEF s
      <3> QED BY <2>2, <3>1, <3>3, SMTT(30) DEF Closed, Dated
    <2> HIDE DEF s
    <2> QED BY <2>1, <2>3, <2>4, <2>5, EntryStepKeeps, SMTT(30)
  <1> QED BY <1>1, <1>2

\* What evict_stale leaves.
LEMMA EvictMaps ==
  ASSUME TableInv, EvictStale
  PROVE  /\ {"key_to_id", "by_id", "next_id"} \subseteq DOMAIN table'
         /\ table'.next_id = table.next_id
         /\ Live' \subseteq Live
         /\ \A i \in Live' : table'.by_id[i] = table.by_id[i]
         /\ DOMAIN table'.key_to_id = {k \in DOMAIN table.key_to_id : table.key_to_id[k] \in Live'}
         /\ \A k \in DOMAIN table'.key_to_id : table'.key_to_id[k] = table.key_to_id[k]
         /\ pid' = pid
  <1> DEFINE stale == StaleIds(Config, table, pid)
             keys == {k \in DOMAIN table.key_to_id : table.key_to_id[k] \notin stale}
  <1>1. table' = [table EXCEPT !.by_id = [i \in DOMAIN table.by_id \ stale |-> table.by_id[i]],
                               !.key_to_id = [k \in keys |-> table.key_to_id[k]]]
    BY DEF EvictStale, evict_stale
  <1>2. {"key_to_id", "by_id", "next_id"} \subseteq DOMAIN table
    BY DEF TableInv
  <1> HIDE DEF stale
  <1>3. /\ DOMAIN table' = DOMAIN table /\ table'.next_id = table.next_id
        /\ table'.by_id = [i \in DOMAIN table.by_id \ stale |-> table.by_id[i]]
        /\ table'.key_to_id = [k \in keys |-> table.key_to_id[k]]
    BY <1>1, <1>2
  <1>4. Live' = Live \ stale
    BY <1>3 DEF Live
  <1>5. \A k \in DOMAIN table.key_to_id : table.key_to_id[k] \in Live
    BY DEF TableInv, IndexAgrees
  <1>6. DOMAIN table'.key_to_id = {k \in DOMAIN table.key_to_id : table.key_to_id[k] \in Live'}
    BY <1>3, <1>4, <1>5
  <1>7. pid' = pid
    BY DEF EvictStale
  <1> QED BY <1>2, <1>3, <1>4, <1>6, <1>7, SMTT(30) DEF Live

\* evict_stale keeps the invariant: it erases an entry with its key.
LEMMA EvictKeeps ==
  ASSUME TableInv, EvictStale
  PROVE  TableInv'
  <1>1. /\ {"key_to_id", "by_id", "next_id"} \subseteq DOMAIN table'
        /\ table'.next_id = table.next_id
        /\ Live' \subseteq Live
        /\ \A i \in Live' : table'.by_id[i] = table.by_id[i]
        /\ DOMAIN table'.key_to_id = {k \in DOMAIN table.key_to_id : table.key_to_id[k] \in Live'}
        /\ \A k \in DOMAIN table'.key_to_id : table'.key_to_id[k] = table.key_to_id[k]
        /\ pid' = pid
    BY EvictMaps
  <1>2. IndexAgrees
    BY DEF TableInv
  <1>3. IndexAgrees'
    <2>1. ASSUME NEW i \in Live', ~table'.by_id[i].completed
          PROVE  \E k \in DOMAIN table'.key_to_id : table'.key_to_id[k] = i
      <3>1. PICK k \in DOMAIN table.key_to_id : table.key_to_id[k] = i
        BY <1>1, <1>2, <2>1, SMTT(30) DEF IndexAgrees
      <3> QED BY <1>1, <2>1, <3>1, SMTT(30)
    <2>2. \A k \in DOMAIN table'.key_to_id :
            table'.key_to_id[k] \in Live' /\ ~table'.by_id[table'.key_to_id[k]].completed
      BY <1>1, <1>2, SMTT(30) DEF IndexAgrees
    <2>3. \A k, l \in DOMAIN table'.key_to_id :
            table'.key_to_id[k] = table'.key_to_id[l] => k = l
      BY <1>1, <1>2 DEF IndexAgrees
    <2> QED BY <2>1, <2>2, <2>3 DEF IndexAgrees
  <1>4. Cardinality(Live') <= Config.max_concurrent
    <2>1. Cardinality(Live') <= Cardinality(Live) /\ Cardinality(Live') \in Nat
      BY <1>1, LiveIsFinite, FS_Subset, FS_CardinalityType, SMTT(30)
    <2> QED BY <2>1, LiveIsFinite, TableAssumption DEF TableInv
  <1>5. \A i \in Live' : Dated(table.by_id[i])' /\ (Open(table.by_id[i]) \/ Closed(table.by_id[i]))'
    BY <1>1 DEF TableInv, Dated, Open, Closed
  <1> QED BY <1>1, <1>3, <1>4, <1>5 DEF TableInv

\* An empty table has the invariant.
LEMMA InitInv == Init => TableInv
  <1> SUFFICES ASSUME Init PROVE TableInv
    OBVIOUS
  <1>1. /\ pid = 0 /\ {"key_to_id", "by_id", "next_id"} \subseteq DOMAIN table
        /\ DOMAIN table.key_to_id = {} /\ Live = {} /\ table.next_id = 1
    BY DEF Init, EmptyTable, Live
  <1>2. Cardinality(Live) = 0
    BY <1>1, FS_EmptySet
  <1>3. IndexAgrees
    BY <1>1 DEF IndexAgrees
  <1> QED BY <1>1, <1>2, <1>3, TableAssumption DEF TableInv

\* Every call on the table keeps the invariant.
LEMMA NextInv == TableInv /\ [Next]_vars => TableInv'
  <1> SUFFICES ASSUME TableInv, [Next]_vars PROVE TableInv'
    OBVIOUS
  <1>1. ASSUME NEW key \in Key, NEW f \in Fragments, AddFragment(key, f) PROVE TableInv'
    BY <1>1, AddKeeps
  <1>2. CASE OtherPacket
    BY <1>2, OtherKeeps
  <1>3. ASSUME NEW id \in Live, Retire(id) PROVE TableInv'
    BY <1>3, RetireKeeps
  <1>4. ASSUME NEW id \in Live, Materialize(id) PROVE TableInv'
    BY <1>4, MaterializeKeeps, ZenonT(40)
  <1>5. CASE EvictStale
    BY <1>5, EvictKeeps
  <1>6. CASE UNCHANGED vars
    BY <1>6 DEF vars, TableInv, IndexAgrees, Live, Dated, Open, Closed
  <1> QED BY <1>1, <1>2, <1>3, <1>4, <1>5, <1>6, SMTT(30) DEF Next

\* The invariant holds whatever sequence of calls the table gets.
LEMMA Invariance == Spec => []TableInv
  BY InitInv, NextInv, PTL DEF Spec

-----------------------------------------------------------------------------
(* The theorems *)

\* The table is sound whatever arrives: typed, its two maps agree, and the
\* limits of Config hold.
THEOREM TableStaysSound == Spec => []TableIsSound
  <1>1. TableInv => TableIsSound
    <2> SUFFICES ASSUME TableInv PROVE TableIsSound
      BY SMTT(30)
    <2>1. ASSUME NEW id \in Live
          PROVE  LET r == table.by_id[id]
                 IN /\ id \in 1..(table.next_id - 1)
                    /\ r.total_length \in Nat /\ r.fragment_count \in Nat
                    /\ r.covered_high \in Nat
                    /\ {r.first_packet_id, r.last_packet_id} \subseteq 0..MaxPackets
                    /\ {r.have_last, r.conflict, r.completed, r.retired} \subseteq BOOLEAN
                    /\ StoredBytes(r.fragments) <= Config.max_datagram_bytes
      <3> DEFINE r == table.by_id[id]
      <3>1. /\ r \in Entry /\ Dated(r) /\ id \in 1..(table.next_id - 1)
            /\ StoredBytes(r.fragments) <= Config.max_datagram_bytes
            /\ pid \in 0..MaxPackets
        BY DEF TableInv, Open, Closed
      <3> HIDE DEF r
      <3>2. /\ r.total_length \in Nat /\ r.fragment_count \in Nat
            /\ r.covered_high \in Nat /\ r.first_packet_id \in Nat /\ r.last_packet_id \in Nat
            /\ {r.have_last, r.conflict, r.completed, r.retired} \subseteq BOOLEAN
        BY <3>1 DEF Entry
      <3>3. {r.first_packet_id, r.last_packet_id} \subseteq 0..MaxPackets
        BY ONLY <3>1, <3>2, TableAssumption, SMTT(30) DEF Dated
      <3> QED BY <3>1, <3>2, <3>3, SMTT(30) DEF r
    <2> QED BY <2>1 DEF TableInv, TableIsSound, TypeOK, WithinLimits
  <1> QED BY <1>1, Invariance, PTL

\* A datagram is handed out exactly or not at all.
THEOREM DatagramsStayExact == Spec => []DatagramsAreExact
  <1>1. TableInv => DatagramsAreExact
    <2> SUFFICES ASSUME TableInv, NEW id \in Live
                 PROVE  LET r == table.by_id[id]
                            m == materialize(table, id).result
                        IN /\ r.completed /\ ~r.retired =>
                                /\ Len(Bytes(r.parts)) = r.total_length
                                /\ \A p \in Positions(r) :
                                     /\ Covered(r, p)
                                     /\ \A f \in Fragment(r) :
                                          Covers(f, p) => ByteOf(f, p) = Bytes(r.parts)[p + 1]
                           /\ r.materialized # <<>> =>
                                /\ r.completed
                                /\ Len(r.materialized) = r.total_length
                                /\ ~r.retired => r.materialized = Bytes(r.parts)
                           /\ ~m.null => Len(m.bytes) = r.total_length
      BY DEF DatagramsAreExact, ReassembledExactly, MaterializedIsWhole
    <2> DEFINE r == table.by_id[id]
               m == materialize(table, id).result
    <2>1. Open(r) \/ Closed(r)
      BY DEF TableInv
    <2>2. r.fragments \in Seq(Span)
      BY <2>1 DEF Open, Closed, Entry
    <2>3. m = IF Unavailable(table, id) THEN NotAvailable
              ELSE [null |-> FALSE, bytes |-> Stitched(r)]
      BY DEF materialize
    <2>4. ~Unavailable(table, id) =>
            r.completed /\ ~(r.retired /\ r.materialized = <<>> /\ r.total_length > 0)
      BY DEF Unavailable
    <2> HIDE DEF r
    <2>5. ASSUME ~m.null PROVE Len(m.bytes) = r.total_length
      <3>1. ~Unavailable(table, id) /\ m.bytes = Stitched(r)
        BY <2>3, <2>5 DEF NotAvailable
      <3>2. Closed(r)
        BY <2>1, <2>4, <3>1 DEF Open
      <3> QED BY <2>4, <3>1, <3>2, StitchedOK, SMTT(30)
    <2> HIDE DEF m
    <2>6. ASSUME r.completed, ~r.retired
          PROVE  /\ Len(Bytes(r.parts)) = r.total_length
                 /\ \A p \in Positions(r) :
                      /\ Covered(r, p)
                      /\ \A f \in Fragment(r) :
                           Covers(f, p) => ByteOf(f, p) = Bytes(r.parts)[p + 1]
      <3>1. /\ Filled(r.fragments, r.total_length)
            /\ Shows(r.parts, r.fragments, r.total_length)
        BY <2>1, <2>6 DEF Open, Closed
      <3>2. /\ \A p : Covered(r, p) <=>
                        \E i \in 1..Len(r.fragments) : Covers(r.fragments[i], p)
            /\ \A f \in Fragment(r) : \E i \in 1..Len(r.fragments) : r.fragments[i] = f
        BY <2>2, ReferenceOK
      <3>3. \A p \in Positions(r) : Covered(r, p)
        BY <3>1, <3>2 DEF Filled, Positions
      <3>4. ASSUME NEW p \in Positions(r), NEW f \in Fragment(r), Covers(f, p)
            PROVE  ByteOf(f, p) = Bytes(r.parts)[p + 1]
        <4>1. PICK i \in 1..Len(r.fragments) : r.fragments[i] = f
          BY <3>2
        <4> QED BY <3>1, <3>4, <4>1 DEF Shows, Positions
      <3>5. Len(Bytes(r.parts)) = r.total_length
        BY <3>1 DEF Shows
      <3> QED BY <3>3, <3>4, <3>5
    <2>7. r.materialized # <<>> =>
            /\ r.completed
            /\ Len(r.materialized) = r.total_length
            /\ ~r.retired => r.materialized = Bytes(r.parts)
      BY <2>1 DEF Open, Closed
    <2> QED BY <2>5, <2>6, <2>7, ZenonT(40) DEF r, m
  <1> QED BY <1>1, Invariance, PTL

-----------------------------------------------------------------------------
(* What a step may never do *)

\* What every step but a fragment of its own leaves of an entry.
Kept(r, s) ==
  /\ s.completed = r.completed /\ s.conflict = r.conflict
  /\ s.total_length = r.total_length /\ s.fragment_count = r.fragment_count
  /\ s.last_packet_id = r.last_packet_id
  /\ \/ s.fragments = r.fragments /\ s.parts = r.parts
     \/ s.retired /\ s.fragments = <<>> /\ s.parts = <<>>

\* A step that touches at most the entry `id`, which it leaves Kept.
LEMMA OneKept ==
  ASSUME NEW id \in Live, Live' = Live, Kept(table.by_id[id], table'.by_id[id]),
         \A i \in Live \ {id} : table'.by_id[i] = table.by_id[i]
  PROVE  \A i \in Live' : i \in Live /\ Kept(table.by_id[i], table'.by_id[i])
  BY DEF Kept

\* retire changes nothing about an entry but to empty it.
LEMMA RetireMeans ==
  ASSUME TableInv, NEW id \in Live, Retire(id)
  PROVE  \A i \in Live' : i \in Live /\ Kept(table.by_id[i], table'.by_id[i])
  <1>1. CASE ~Retirable(table, id)
    <2>1. table' = table
      BY <1>1 DEF Retire, retire
    <2> QED BY <2>1 DEF Kept, Live
  <1>2. CASE Retirable(table, id)
    <2> DEFINE r == table.by_id[id]
               s == EmptiedEntry(r)
    <2>1. /\ Live' = Live /\ table'.by_id[id] = s
          /\ \A i \in Live \ {id} : table'.by_id[i] = table.by_id[i]
      BY <1>2, ZenonT(40) DEF Retire, retire, TableInv, Live, EmptiedEntry
    <2>2. r \in Entry
      BY DEF TableInv, Open, Closed
    <2> HIDE DEF r
    <2>3. Kept(r, s)
      BY <2>2 DEF Entry, Kept, EmptiedEntry
    <2> HIDE DEF s
    <2> QED BY <2>1, <2>3, OneKept DEF r
  <1> QED BY <1>1, <1>2

\* materialize changes nothing about an entry but its stitched buffer.
LEMMA MaterializeMeans ==
  ASSUME TableInv, NEW id \in Live, Materialize(id)
  PROVE  \A i \in Live' : i \in Live /\ Kept(table.by_id[i], table'.by_id[i])
  <1>1. CASE Unavailable(table, id)
    <2>1. table' = table
      BY <1>1, SMTT(30) DEF Materialize, materialize
    <2> QED BY <2>1 DEF Kept, Live
  <1>2. CASE ~Unavailable(table, id)
    <2> DEFINE r == table.by_id[id]
               bytes == Stitched(r)
               s == [r EXCEPT !.materialized = bytes]
    <2>1. /\ Live' = Live /\ table'.by_id[id] = s
          /\ \A i \in Live \ {id} : table'.by_id[i] = table.by_id[i]
      <3>1. table' = [table EXCEPT !.by_id[id].materialized = bytes]
        BY <1>2 DEF Materialize, materialize
      <3> HIDE DEF bytes
      <3> QED BY <3>1, Zenon DEF TableInv, Live
    <2>2. r \in Entry
      BY DEF TableInv, Open, Closed
    <2> HIDE DEF r, bytes
    <2>3. Kept(r, s)
      BY <2>2 DEF Entry, Kept
    <2> HIDE DEF s
    <2> QED BY <2>1, <2>3, OneKept DEF r
  <1> QED BY <1>1, <1>2

\* Every step keeps the entries it leaves in the table, except the open one a
\* fragment is added to.
Fed(id, r0, r) ==
  /\ Live' = Live \cup {id} /\ table'.by_id[id] = r
  /\ \A i \in Live \ {id} : table'.by_id[i] = table.by_id[i]
  /\ Open(r0) /\ After(r0, r, pid)
  /\ r0 = IF id \in Live THEN table.by_id[id] ELSE NewReassembly(pid)

\* A step either feeds one entry a fragment through add_fragment, or leaves
\* every entry that stays as it was, apart from emptying it.
LEMMA StepMeans ==
  ASSUME TableInv, [Next]_vars
  PROVE  \/ \A i \in Live' : i \in Live /\ Kept(table.by_id[i], table'.by_id[i])
         \/ \E id, r0, r : Fed(id, r0, r)
  <1>1. ASSUME NEW key \in Key, NEW f \in Fragments, AddFragment(key, f),
               ~AtCapacity(Config, table, key)
        PROVE  \E id, r0, r : Fed(id, r0, r)
    <2> DEFINE id == EntryId(table, key)
    <2>1. PICK r0, r :
             /\ table' = Filed(table, key, id, r)
             /\ Open(r0) /\ After(r0, r, pid) /\ r0.first_packet_id <= pid
             /\ IF key \in DOMAIN table.key_to_id
                THEN id \in Live /\ r0 = table.by_id[id]
                ELSE id = table.next_id /\ id \notin Live /\ r0 = NewReassembly(pid)
      BY <1>1, AddMeans, ZenonT(40)
    <2>2. /\ Live' = Live \cup {id} /\ table'.by_id[id] = r
          /\ \A i \in Live \ {id} : table'.by_id[i] = table.by_id[i]
      BY <2>1, FiledMaps
    <2> HIDE DEF id
    <2>3. Fed(id, r0, r)
      BY <2>1, <2>2, ZenonT(40) DEF Fed
    <2> QED BY <2>3
  <1>2. ASSUME NEW key \in Key, NEW f \in Fragments, AddFragment(key, f),
               AtCapacity(Config, table, key)
        PROVE  table' = table
    BY <1>2 DEF AddFragment, add_fragment, NoResult
  <1>3. CASE table' = table
    BY <1>3, SMTT(30) DEF Kept, Live
  <1>4. CASE EvictStale
    BY <1>4, EvictMaps DEF Kept
  <1>5. ASSUME NEW id \in Live, Retire(id) \/ Materialize(id)
        PROVE  \A i \in Live' : i \in Live /\ Kept(table.by_id[i], table'.by_id[i])
    BY <1>5, RetireMeans, MaterializeMeans
  <1>6. CASE OtherPacket \/ UNCHANGED vars
    BY <1>3, <1>6 DEF OtherPacket, vars
  <1> QED BY <1>1, <1>2, <1>3, <1>4, <1>5, <1>6, SMTT(30) DEF Next

\* A fragment completes its datagram exactly when the fragments received make
\* the datagram whole: none missing before one of them, none contradicting.  A
\* conflict is marked only when two contradict each other.
THEOREM CompletionIsDecided == Spec => CompletesWhenWhole
  <1> DEFINE was(id) == IF id \in Live THEN table.by_id[id] ELSE NewReassembly(pid)
             A == \A id \in Live' :
                    LET r == table'.by_id[id]
                        before == IF id \in Live THEN table.by_id[id] ELSE NewReassembly(pid)
                    IN r.fragment_count > before.fragment_count /\ ~before.conflict =>
                         /\ r.completed <=> Whole(r) /\ Agreed(r) /\ Connected(r)
                         /\ r.conflict => ~Agreed(r)
  <1>1. TableInv /\ [Next]_vars => [A]_vars
    <2> SUFFICES ASSUME TableInv, [Next]_vars PROVE A
      OBVIOUS
    <2>0. \A i \in Live : table.by_id[i].fragment_count \in Nat
      BY DEF TableInv, Open, Closed, Entry
    <2> SUFFICES ASSUME NEW i \in Live',
                        table'.by_id[i].fragment_count > was(i).fragment_count, ~was(i).conflict
                 PROVE  LET r == table'.by_id[i]
                        IN /\ r.completed <=> Whole(r) /\ Agreed(r) /\ Connected(r)
                           /\ r.conflict => ~Agreed(r)
      BY Zenon
    <2>1. ~(i \in Live /\ table'.by_id[i].fragment_count = table.by_id[i].fragment_count)
      BY <2>0
    <2>2. PICK id, r0, r : Fed(id, r0, r)
      BY <2>1, StepMeans, Zenon DEF Kept
    <2>3. i = id /\ table'.by_id[i] = r /\ r0 = was(i)
      <3>1. i # id => i \in Live /\ table'.by_id[i] = table.by_id[i]
        BY <2>2 DEF Fed
      <3> QED BY <2>1, <2>2, <3>1, Zenon DEF Fed
    <2>4. After(r0, r, pid)
      BY <2>2 DEF Fed
    <2> HIDE DEF was
    <2> QED BY <2>3, <2>4, Zenon DEF After
  <1> QED BY <1>1, Invariance, PTL DEF Spec, CompletesWhenWhole

\* A completed datagram is history: no step changes what was reported for it,
\* and its spans go only all together, when it is retired.
THEOREM CompletedStaysFinal == Spec => CompletedIsFinal
  <1> DEFINE A == \A id \in Live \cap Live' :
                    LET r == table.by_id[id]
                        s == table'.by_id[id]
                    IN r.completed =>
                         /\ s.completed
                         /\ s.conflict = r.conflict
                         /\ s.total_length = r.total_length
                         /\ s.fragment_count = r.fragment_count
                         /\ s.last_packet_id = r.last_packet_id
                         /\ \/ s.fragments = r.fragments /\ s.parts = r.parts
                            \/ s.retired /\ s.fragments = <<>> /\ s.parts = <<>>
  <1>1. TableInv /\ [Next]_vars => [A]_vars
    <2> SUFFICES ASSUME TableInv, [Next]_vars,
                        NEW id \in Live \cap Live', table.by_id[id].completed
                 PROVE  /\ Kept(table.by_id[id], table'.by_id[id])
                        /\ table'.by_id[id].completed
      BY DEF Kept
    <2>1. CASE \A i \in Live' : i \in Live /\ Kept(table.by_id[i], table'.by_id[i])
      BY <2>1, Zenon DEF Kept
    <2>2. CASE \E i, r0, r : Fed(i, r0, r)
      <3>1. PICK i, r0, r : Fed(i, r0, r)
        BY <2>2
      <3>2. id # i
        BY <3>1 DEF Fed, Open
      <3> QED BY <3>1, <3>2, Zenon DEF Fed, Kept
    <2> QED BY <2>1, <2>2, StepMeans, SMTT(30)
  <1> QED BY <1>1, Invariance, PTL DEF Spec, CompletedIsFinal
=============================================================================
