-------------------------- MODULE ReassemblyTable --------------------------
(***************************************************************************)
(* One ReassemblyTable<Key> driven through its public calls: fragments     *)
(* arrive in packet order, and between two of them the owner may retire a  *)
(* datagram, ask for it as one buffer, or sweep out what is stale.  A      *)
(* datagram id, like a key, may be any the owner knows: retire and         *)
(* materialize are called for open and for retired datagrams too.          *)
(***************************************************************************)
EXTENDS Defrag

CONSTANTS
  Key,          \* reassembly keys (address pair, protocol, identification)
  Fragments,    \* the fragments packets carry: [offset, more, data]
  Config,       \* ReassemblyTable::Config
  MaxPackets    \* bound: packets fed

ASSUME TableAssumption ==
  /\ MaxPackets \in Nat
  /\ Config.max_datagram_bytes \in Nat
  /\ Config.max_concurrent \in Nat
  /\ Config.timeout_ticks \in Nat
  /\ Fragments \subseteq [offset : Nat, more : BOOLEAN, data : Seq(Nat)]

VARIABLES
  table,        \* the table
  pid           \* the id the next packet gets

vars == <<table, pid>>

Live == DOMAIN table.by_id

Init == table = EmptyTable /\ pid = 0

\* A packet brings fragment f of the datagram with this key.
AddFragment(key, f) ==
  /\ pid < MaxPackets
  /\ table' = add_fragment(Config, table, key, pid, f.offset, f.more, f.data,
                           kNoToken).table
  /\ pid' = pid + 1

\* A packet that carries no fragment only moves the clock.
OtherPacket ==
  /\ pid < MaxPackets
  /\ pid' = pid + 1
  /\ UNCHANGED table

Retire(id) ==
  /\ table' = retire(table, id)
  /\ UNCHANGED pid

Materialize(id) ==
  /\ table' = materialize(table, id).table
  /\ UNCHANGED pid

EvictStale ==
  /\ table' = evict_stale(Config, table, pid)
  /\ UNCHANGED pid

Next ==
  \/ \E key \in Key, f \in Fragments : AddFragment(key, f)
  \/ OtherPacket
  \/ \E id \in Live : Retire(id) \/ Materialize(id)
  \/ EvictStale

Spec == Init /\ [][Next]_vars

-----------------------------------------------------------------------------
(* The reference: what the fragments of a datagram say about its bytes. *)

Fragment(r)   == {r.fragments[i] : i \in DOMAIN r.fragments}
Positions(r)  == 0..(r.total_length - 1)
Covered(r, p) == \E f \in Fragment(r) : Covers(f, p)

\* Every byte of the datagram was received, and received the same each time.
Whole(r)  == r.have_last /\ \A p \in Positions(r) : Covered(r, p)
Agreed(r) == \A p \in Positions(r) : \A f, g \in Fragment(r) :
               Covers(f, p) /\ Covers(g, p) => ByteOf(f, p) = ByteOf(g, p)

\* No fragment lies beyond a hole in what was received.
Connected(r) == \A f \in Fragment(r) :
                  \A p \in 0..(f.offset_bytes - 1) : Covered(r, p)

-----------------------------------------------------------------------------
(* Properties *)

\* Types of the maps and of every entry.
TypeOK ==
  /\ pid \in 0..MaxPackets
  /\ DOMAIN table.key_to_id \subseteq Key
  /\ table.next_id \in Nat \ {0}
  /\ \A id \in Live :
       LET r == table.by_id[id]
       IN /\ id \in 1..(table.next_id - 1)
          /\ r.total_length \in Nat /\ r.fragment_count \in Nat
          /\ r.covered_high \in Nat
          /\ {r.first_packet_id, r.last_packet_id} \subseteq 0..MaxPackets
          /\ {r.have_last, r.conflict, r.completed, r.retired} \subseteq BOOLEAN

\* The index and the entries agree: a key leads to a live entry that is still
\* open, two keys never to the same one, and every open entry is reached by a
\* key.  by_id_.at(id) in add_fragment throws otherwise (the comment on the key
\* scan in evict_stale).
IndexAgrees ==
  /\ \A k \in DOMAIN table.key_to_id :
       /\ table.key_to_id[k] \in Live
       /\ ~table.by_id[table.key_to_id[k]].completed
  /\ \A k, l \in DOMAIN table.key_to_id :
       table.key_to_id[k] = table.key_to_id[l] => k = l
  /\ \A id \in Live : ~table.by_id[id].completed =>
       \E k \in DOMAIN table.key_to_id : table.key_to_id[k] = id

\* What add_fragment reports complete is the datagram: as many bytes as the
\* terminal fragment declared, each one received, and every fragment that
\* covers a position carries the byte shown there (overlaps are trimmed only
\* when they agree; bytes past the declared end are clamped away).
ReassembledExactly ==
  \A id \in Live :
    LET r == table.by_id[id]
    IN r.completed /\ ~r.retired =>
         /\ Len(Bytes(r.parts)) = r.total_length
         /\ \A p \in Positions(r) :
              /\ Covered(r, p)
              /\ \A f \in Fragment(r) :
                   Covers(f, p) => ByteOf(f, p) = Bytes(r.parts)[p + 1]

\* The limits of Config hold whatever arrives: no more entries than
\* max_concurrent, no more stored bytes per entry than max_datagram_bytes.
WithinLimits ==
  /\ Cardinality(Live) <= Config.max_concurrent
  /\ \A id \in Live :
       StoredBytes(table.by_id[id].fragments) <= Config.max_datagram_bytes

\* A buffer materialize() has stitched is the whole datagram, and it outlives
\* retire(): what a caller was given never turns into a shorter answer.
MaterializedIsWhole ==
  \A id \in Live :
    LET r == table.by_id[id]
    IN /\ r.materialized # <<>> => /\ r.completed
                                   /\ Len(r.materialized) = r.total_length
                                   /\ ~r.retired => r.materialized = Bytes(r.parts)
       /\ LET m == materialize(table, id).result
          IN ~m.null => Len(m.bytes) = r.total_length

\* A stored fragment completes its datagram exactly when the datagram is
\* whole, its overlaps agree and no fragment lies beyond a hole, and marks a
\* conflict only where two fragments disagree: the sorting loop decides in
\* arrival order what the reference says of the set.  Of a datagram that was
\* marked before, see ConflictNeverCompletes.
CompletesWhenWhole ==
  [][\A id \in Live' :
       LET r == table'.by_id[id]
           before == IF id \in Live THEN table.by_id[id] ELSE NewReassembly(pid)
       IN r.fragment_count > before.fragment_count /\ ~before.conflict =>
            /\ r.completed <=> Whole(r) /\ Agreed(r) /\ Connected(r)
            /\ r.conflict => ~Agreed(r)]_vars

\* A datagram whose fragments disagree "never completes; evict_stale reports
\* it as a conflict" (add_fragment).  The code breaks this: the mark stays, but
\* the next fragment tries again, and a shorter terminal fragment may leave
\* the disagreement behind the new end.
ConflictNeverCompletes ==
  \A id \in Live : table.by_id[id].conflict => ~table.by_id[id].completed

\* Once complete, a datagram is history: no later fragment, of its own key or
\* of another, changes what was reported for it; retire only takes its spans.
CompletedIsFinal ==
  [][\A id \in Live \cap Live' :
       LET r == table.by_id[id]
           s == table'.by_id[id]
       IN r.completed =>
            /\ s.completed
            /\ s.conflict = r.conflict
            /\ s.total_length = r.total_length
            /\ s.fragment_count = r.fragment_count
            /\ s.last_packet_id = r.last_packet_id
            /\ \/ s.fragments = r.fragments /\ s.parts = r.parts
               \/ s.retired /\ s.fragments = <<>> /\ s.parts = <<>>]_vars

\* A datagram is handed out exactly or not at all, in parts by add_fragment and
\* stitched by materialize.
DatagramsAreExact == ReassembledExactly /\ MaterializedIsWhole

\* The table is sound: typed, its index and its entries agree, and it stays
\* within the limits of Config (add_fragment, evict_stale).
TableIsSound == TypeOK /\ IndexAgrees /\ WithinLimits
=============================================================================
