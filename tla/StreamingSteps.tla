--------------------------- MODULE StreamingSteps ---------------------------
(***************************************************************************)
(* The inductive invariant of StreamingSession that counts pins against    *)
(* the spans the tables hold; that every step of feed_epb keeps it; and    *)
(* what follows from it.  Two facts are hypotheses of the lemmas: Counting *)
(* and the tables' contract, TableContract of module Defrag.               *)
(* StreamingProofs discharges both and states the theorems.                *)
(***************************************************************************)
EXTENDS StreamingSession, TLAPS

-----------------------------------------------------------------------------
(* Counting *)

\* What the lemmas below use of finite sets.  They take it as a hypothesis, which
\* CountingHolds of StreamingProofs discharges from FiniteSetTheorems.
Counting ==
  /\ IsFiniteSet({}) /\ Cardinality({}) = 0
  /\ \A S : IsFiniteSet(S) => Cardinality(S) \in Nat /\ (Cardinality(S) = 0 => S = {})
  /\ \A S, D : IsFiniteSet(S) /\ D \subseteq S =>
       /\ IsFiniteSet(D) /\ IsFiniteSet(S \ D)
       /\ Cardinality(D) <= Cardinality(S)
       /\ Cardinality(S \ D) = Cardinality(S) - Cardinality(D)
  /\ \A S, x : IsFiniteSet(S) /\ x \notin S =>
       IsFiniteSet(S \cup {x}) /\ Cardinality(S \cup {x}) = Cardinality(S) + 1

\* The empty set, and only it, has no elements.
LEMMA CountNone ==
  ASSUME Counting
  PROVE  /\ IsFiniteSet({}) /\ Cardinality({}) = 0
         /\ \A S : IsFiniteSet(S) /\ Cardinality(S) = 0 => S = {}
  BY DEF Counting

\* A finite set is counted by a natural number.
LEMMA CountType ==
  ASSUME Counting, NEW S, IsFiniteSet(S)
  PROVE  Cardinality(S) \in Nat
  BY DEF Counting

\* Taking a part D of a finite set away.
LEMMA CountPart ==
  ASSUME Counting, NEW S, IsFiniteSet(S), NEW D, D \subseteq S
  PROVE  /\ IsFiniteSet(D) /\ IsFiniteSet(S \ D)
         /\ Cardinality(D) <= Cardinality(S)
         /\ Cardinality(S \ D) = Cardinality(S) - Cardinality(D)
  BY Zenon DEF Counting

\* One element more.
LEMMA CountMore ==
  ASSUME Counting, NEW S, IsFiniteSet(S), NEW x, x \notin S
  PROVE  IsFiniteSet(S \cup {x}) /\ Cardinality(S \cup {x}) = Cardinality(S) + 1
  BY DEF Counting

-----------------------------------------------------------------------------
(* The tables, as their contract has it *)

\* The facts about tables are hypotheses like Counting: TableContract is what
\* module Defrag promises, and TableKeepsContract of AssemblyProofs proves it.
LEMMA SpansOfNone ==
  ASSUME TableContract, NEW T
  PROVE  TableOK(T, EmptyTable) /\ \A u : AllSpans(EmptyTable, u) = {}
  BY Zenon DEF TableContract, TableGood

\* What add_fragment does to the spans.
LEMMA SpansAdd ==
  ASSUME TableContract, NEW T, NEW t, TableOK(T, t), NEW cfg, NEW key, NEW p \in Nat,
         NEW off \in Nat, NEW more \in BOOLEAN, NEW data \in Seq(Nat), NEW tk \in T,
         NEW res, res = add_fragment(cfg, t, key, p, off, more, data, tk)
  PROVE  SpanAdded(T, t, p, tk, res)
  BY Zenon DEF TableContract

\* What retire does to them.
LEMMA SpansRetire ==
  ASSUME TableContract, NEW T, NEW t, TableOK(T, t), NEW id, Retirable(t, id)
  PROVE  SpansRetired(T, t, id, retire(t, id))
  BY Zenon DEF TableContract

\* What evict_stale does to them.
LEMMA SpansEvict ==
  ASSUME TableContract, NEW T, NEW t, TableOK(T, t), NEW cfg, NEW now
  PROVE  SpansEvicted(T, t, StaleIds(cfg, t, now), evict_stale(cfg, t, now))
  BY Zenon DEF TableContract

\* The spans of some of a table's entries are spans of the table.
LEMMA SomeSpans ==
  ASSUME NEW t, NEW ids, ids \subseteq DOMAIN t.by_id, NEW u
  PROVE  SpansOf(t, ids, u) \subseteq AllSpans(t, u)
  BY DEF AllSpans, SpansOf

-----------------------------------------------------------------------------
(* The inductive invariant *)

\* What the theorems ask of the configuration: with a timeout of 0 a packet
\* ages out the very fragment it has just brought.
TimeoutsWork ==
  \A v \in Version : /\ Config[v].timeout_ticks > 0
                     /\ MaxPackets + Config[v].timeout_ticks < TickModulus

\* Pins of this packet not yet on record, and spans already dropped by retire
\* whose unpinning still waits: both are settled by Return.
Unrecorded(u) == IF InCall /\ u = token THEN pin_count ELSE 0
Unsettled(u)  == IF InCall THEN retired[u] ELSE 0

Shapes == DOMAIN defrag = Version /\ \A v \in Version : TableOK(AnyToken, defrag[v])

Control ==
  /\ done \in [version : Version, id : Nat, resume : {"chain", "evict4"}]
  /\ pc = "walk" => headers = 0
  /\ InCall => pid < MaxPackets

\* The books balance at every step, not only between calls.
Balance ==
  \A u \in Token :
    /\ \A v \in Version : IsFiniteSet(TableSpans(v, u))
    /\ pins[u] + Unrecorded(u) = SpanCount(u) + Unsettled(u)

\* The spans into the current packet's buffer are all in entries this packet
\* touched, which no sweep of this call takes.
OldIds(v) == {i \in DOMAIN defrag[v].by_id : defrag[v].by_id[i].last_packet_id # pid}

OwnIsRecent ==
  InCall /\ token \in Token =>
    \A v \in Version : SpansOf(defrag[v], OldIds(v), token) = {}

\* Whom a buffer is lent to in the middle of a call.
Lending ==
  InCall => \A u \in Token :
    /\ u = token => pins[u] = 0 /\ released[u] = 0
    /\ u \in held <=> pins[u] > 0 \/ released[u] > 0 \/ u = token
    /\ released[u] > 0 => released[u] = 1 /\ pins[u] = 0

\* The sweeps leave nothing stale behind.
Fresh(v) == \A i \in DOMAIN defrag[v].by_id :
              pid < defrag[v].by_id[i].last_packet_id + Config[v].timeout_ticks

Swept ==
  /\ pc \in {"evict6", "settle"} => Fresh(4)
  /\ pc = "settle" => Fresh(6)

\* The inductive invariant.
Inv == /\ TypeOK /\ Shapes /\ Control /\ Balance /\ OwnIsRecent /\ Lending
       /\ HeldIsPinned /\ Swept /\ NothingStale

-----------------------------------------------------------------------------
(* Arithmetic of the bookkeeping *)

\* A pin count that is large enough goes down by what is taken off it, and the
\* buffer is freed when that leaves nothing.
LEMMA UnpinArithmetic ==
  ASSUME NEW p \in Nat, NEW n \in Nat, n <= p
  PROVE  /\ Unpinned(p, n) = p - n
         /\ Freed(p, n) \in {0, 1}
         /\ Freed(p, n) = 1 <=> p > 0 /\ n = p
  BY DEF Unpinned, Freed

\* release_token counts a buffer out exactly when its last pin goes.
LEMMA ReleaseArithmetic ==
  ASSUME NEW p \in Nat, NEW n \in Nat, n <= p, NEW r \in Nat
  PROVE  /\ Unpinned(p, n) = p - n
         /\ r + Freed(p, n) \in Nat
         /\ r + Freed(p, n) = r + (IF p > 0 /\ p - n = 0 THEN 1 ELSE 0)
  BY DEF Unpinned, Freed

\* A table whose spans into u did not change leaves the count of u alone.
LEMMA CountUnchanged ==
  ASSUME NEW u, \A v \in Version : TableSpans(v, u)' = TableSpans(v, u)
  PROVE  SpanCount(u)' = SpanCount(u)
  BY DEF SpanCount, Version

\* With finitely many spans in each table, their sum is a number none exceeds.
LEMMA SpanCountType ==
  ASSUME Counting, NEW u, \A v \in Version : IsFiniteSet(TableSpans(v, u))
  PROVE  /\ SpanCount(u) \in Nat
         /\ \A v \in Version : /\ Cardinality(TableSpans(v, u)) \in Nat
                                /\ Cardinality(TableSpans(v, u)) <= SpanCount(u)
  <1>1. Cardinality(TableSpans(4, u)) \in Nat /\ Cardinality(TableSpans(6, u)) \in Nat
    BY CountType DEF Version
  <1> QED BY <1>1 DEF SpanCount, Version

\* Taking the spans D out of table v takes their number off the count.
LEMMA CountDropped ==
  ASSUME Counting, NEW u, \A v \in Version : IsFiniteSet(TableSpans(v, u)),
         NEW v \in Version, NEW D, D \subseteq TableSpans(v, u),
         TableSpans(v, u)' = TableSpans(v, u) \ D,
         \A w \in Version \ {v} : TableSpans(w, u)' = TableSpans(w, u)
  PROVE  /\ \A w \in Version : IsFiniteSet(TableSpans(w, u)')
         /\ Cardinality(D) \in Nat
         /\ SpanCount(u)' = SpanCount(u) - Cardinality(D)
         /\ Cardinality(D) <= SpanCount(u)
  <1>1. IsFiniteSet(TableSpans(v, u)) /\ IsFiniteSet(D)
    BY CountPart
  <1>2. /\ IsFiniteSet(TableSpans(v, u)')
        /\ Cardinality(TableSpans(v, u)')
             = Cardinality(TableSpans(v, u)) - Cardinality(D)
    BY <1>1, CountPart
  <1>4. Cardinality(D) \in Nat /\ Cardinality(D) <= Cardinality(TableSpans(v, u))
    BY <1>1, CountPart, CountType
  <1>5. /\ Cardinality(TableSpans(4, u)) \in Nat
        /\ Cardinality(TableSpans(6, u)) \in Nat
    BY CountType DEF Version
  <1>6. \A w \in Version : IsFiniteSet(TableSpans(w, u)')
    BY <1>2
  <1>7. CASE v = 4
    <2>1. TableSpans(6, u)' = TableSpans(6, u)
      BY <1>7 DEF Version
    <2>2. /\ Cardinality(TableSpans(4, u)')
               = Cardinality(TableSpans(4, u)) - Cardinality(D)
          /\ Cardinality(D) <= Cardinality(TableSpans(4, u))
      BY <1>2, <1>4, <1>7, SMTT(30)
    <2>3. SpanCount(u)' = SpanCount(u) - Cardinality(D)
      BY <1>4, <1>5, <2>1, <2>2 DEF SpanCount
    <2>4. Cardinality(D) <= SpanCount(u)
      BY <1>4, <1>5, <2>2 DEF SpanCount
    <2> QED BY <1>4, <1>6, <2>3, <2>4
  <1>8. CASE v = 6
    <2>1. TableSpans(4, u)' = TableSpans(4, u)
      BY <1>8 DEF Version
    <2>2. /\ Cardinality(TableSpans(6, u)')
               = Cardinality(TableSpans(6, u)) - Cardinality(D)
          /\ Cardinality(D) <= Cardinality(TableSpans(6, u))
      BY <1>2, <1>4, <1>8
    <2>3. SpanCount(u)' = SpanCount(u) - Cardinality(D)
      BY <1>4, <1>5, <2>1, <2>2 DEF SpanCount
    <2>4. Cardinality(D) <= SpanCount(u)
      BY <1>4, <1>5, <2>2 DEF SpanCount
    <2> QED BY <1>4, <1>6, <2>3, <2>4
  <1> QED BY <1>7, <1>8 DEF Version

\* One span more in table v is one more in the count.
LEMMA CountAdded ==
  ASSUME Counting, NEW u, \A v \in Version : IsFiniteSet(TableSpans(v, u)),
         NEW v \in Version, NEW x, x \notin TableSpans(v, u),
         TableSpans(v, u)' = TableSpans(v, u) \cup {x},
         \A w \in Version \ {v} : TableSpans(w, u)' = TableSpans(w, u)
  PROVE  /\ \A w \in Version : IsFiniteSet(TableSpans(w, u)')
         /\ SpanCount(u)' = SpanCount(u) + 1
  <1>1. /\ IsFiniteSet(TableSpans(v, u)')
        /\ Cardinality(TableSpans(v, u)') = Cardinality(TableSpans(v, u)) + 1
    BY CountMore
  <1>2. /\ Cardinality(TableSpans(4, u)) \in Nat
        /\ Cardinality(TableSpans(6, u)) \in Nat
    BY CountType DEF Version
  <1>3. \A w \in Version : IsFiniteSet(TableSpans(w, u)')
    BY <1>1
  <1>4. CASE v = 4
    <2>1. TableSpans(6, u)' = TableSpans(6, u)
      BY <1>4 DEF Version
    <2>2. Cardinality(TableSpans(4, u)') = Cardinality(TableSpans(4, u)) + 1
      BY <1>1, <1>4
    <2>3. SpanCount(u)' = SpanCount(u) + 1
      BY <1>2, <2>1, <2>2 DEF SpanCount
    <2> QED BY <1>3, <2>3
  <1>5. CASE v = 6
    <2>1. TableSpans(4, u)' = TableSpans(4, u)
      BY <1>5 DEF Version
    <2>2. Cardinality(TableSpans(6, u)') = Cardinality(TableSpans(6, u)) + 1
      BY <1>1, <1>5
    <2>3. SpanCount(u)' = SpanCount(u) + 1
      BY <1>2, <2>1, <2>2 DEF SpanCount
    <2> QED BY <1>3, <2>3
  <1> QED BY <1>4, <1>5 DEF Version

-----------------------------------------------------------------------------
(* Initially nothing is held. *)

\* A session that has just been built satisfies the invariant.
LEMMA InitInv ==
  ASSUME Counting, TableContract, Init
  PROVE  Inv
  <1> USE DEF Init
  <1>1. TypeOK
    <2>1. /\ pid \in 0..MaxPackets /\ headers \in 0..Larger(1, MaxHeaders)
          /\ pin_count \in 0..headers
      BY SessionAssumption DEF Larger
    <2>2. {tracking, pinned} \subseteq BOOLEAN
      BY Zenon
    <2>3. /\ pins \in [Token -> Nat] /\ retired \in [Token -> Nat]
          /\ released \in [Token -> Nat]
      BY DEF NoCount
    <2> QED BY <2>1, <2>2, <2>3 DEF TypeOK
  <1>2. Shapes
    BY SpansOfNone DEF Shapes, AnyToken
  <1>3. Control
    BY DEF Control, None, InCall, Version
  <1>4. \A v \in Version, u \in Token : TableSpans(v, u) = {}
    BY SpansOfNone DEF TableSpans, AllSpans
  <1>5. \A u \in Token : SpanCount(u) = 0
    <2>1. Cardinality({}) = 0
      BY CountNone
    <2>2. ASSUME NEW u \in Token PROVE SpanCount(u) = 0
      <3>1. TableSpans(4, u) = {} /\ TableSpans(6, u) = {}
        BY <1>4 DEF Version
      <3>2. Cardinality(TableSpans(4, u)) = 0 /\ Cardinality(TableSpans(6, u)) = 0
        BY <2>1, <3>1, Zenon
      <3> HIDE DEF Init
      <3> QED BY <3>2 DEF SpanCount
    <2> QED BY <2>2
  <1>6. Balance
    BY <1>4, <1>5, CountNone, Zenon DEF Balance, Unrecorded, Unsettled, InCall, NoCount
  <1>7. OwnIsRecent /\ Lending /\ Swept
    BY DEF OwnIsRecent, Lending, Swept, InCall
  <1>8. HeldIsPinned
    BY DEF HeldIsPinned, NoCount
  <1>9. NothingStale
    BY DEF NothingStale, EmptyTable, Version
  <1> QED BY <1>1, <1>2, <1>3, <1>6, <1>7, <1>8, <1>9 DEF Inv

-----------------------------------------------------------------------------
(* A fragment goes to a table. *)

\* add_fragment keeps it: a fragment the table retains is one more pin.
LEMMA GiveFragmentInv ==
  ASSUME Counting, TableContract, Inv, NEW v \in Version, NEW key, NEW f \in Fragments[v],
         pc \in {"walk", "chain"}, headers < Larger(1, MaxHeaders),
         GiveFragment(v, key, f)
  PROVE  Inv'
  <1> DEFINE res == add_fragment(Config[v], defrag[v], key, pid, f.offset, f.more,
                                 f.data, token)
  <1> USE DEF Inv
  <1>1. /\ TableOK(AnyToken, defrag[v]) /\ DOMAIN defrag = Version
        /\ pid \in Nat /\ token \in AnyToken
        /\ f.offset \in Nat /\ f.more \in BOOLEAN /\ f.data \in Seq(Nat)
        /\ InCall /\ pid < MaxPackets
    <2>1. f.offset \in Nat /\ f.more \in BOOLEAN /\ f.data \in Seq(Nat)
      BY SessionAssumption
    <2>2. TableOK(AnyToken, defrag[v]) /\ DOMAIN defrag = Version
      BY DEF Shapes
    <2>3. pid \in Nat /\ token \in AnyToken
      BY SessionAssumption DEF TypeOK, AnyToken
    <2>4. InCall /\ pid < MaxPackets
      BY DEF InCall, Control
    <2> QED BY <2>1, <2>2, <2>3, <2>4
  <1>2. SpanAdded(AnyToken, defrag[v], pid, token, res)
    BY <1>1, SpansAdd
  <1>3. /\ defrag' = [defrag EXCEPT ![v] = res.table]
        /\ pin_count' = pin_count + (IF res.retained THEN 1 ELSE 0)
        /\ headers' = headers + 1
        /\ \/ done' = None
           \/ /\ done'.version = v /\ done'.id = res.datagram_id
              /\ done' = [version |-> v, id |-> res.datagram_id,
                          resume |-> done'.resume]
              /\ done'.resume \in {"chain", "evict4"}
        /\ pc' \in {"complete", "chain", "evict4"}
        /\ UNCHANGED <<pid, tracking, pins, rows, token, retired, released,
                       pinned, held>>
    BY DEF GiveFragment, resultVars
  <1> HIDE DEF res
  <1>4. /\ defrag'[v] = res.table /\ DOMAIN defrag' = Version
        /\ \A w \in Version \ {v} : defrag'[w] = defrag[w]
    BY <1>1, <1>3
  <1>5. TypeOK'
    BY <1>2, <1>3, SessionAssumption, SMTT(30) DEF TypeOK, Larger, SpanAdded
  <1>6. Shapes'
    BY <1>2, <1>4 DEF Shapes, SpanAdded
  <1>7. Control'
    BY <1>1, <1>2, <1>3 DEF Control, None, Version, InCall, SpanAdded
  <1>8. Balance'
    <2> SUFFICES ASSUME NEW u \in Token
                 PROVE  /\ \A w \in Version : IsFiniteSet(TableSpans(w, u)')
                        /\ pins'[u] + Unrecorded(u)' = SpanCount(u)' + Unsettled(u)'
      BY DEF Balance
    <2>1. \A w \in Version \ {v} : TableSpans(w, u)' = TableSpans(w, u)
      BY <1>4 DEF TableSpans
    <2>2. TableSpans(v, u)' = AllSpans(res.table, u)
          /\ TableSpans(v, u) = AllSpans(defrag[v], u)
      BY <1>4 DEF TableSpans, AllSpans
    <2>3. /\ \A w \in Version : IsFiniteSet(TableSpans(w, u))
          /\ pins[u] + Unrecorded(u) = SpanCount(u) + Unsettled(u)
          /\ SpanCount(u) \in Nat
      BY SpanCountType DEF Balance
    <2>4. pins'[u] = pins[u] /\ Unsettled(u)' = Unsettled(u)
      BY <1>1, <1>3 DEF Unsettled, InCall
    <2>5. pins[u] \in Nat /\ Unsettled(u) \in Nat /\ Unrecorded(u) \in Nat
          /\ pin_count \in Nat
      BY SessionAssumption DEF TypeOK, Unsettled, Unrecorded
    <2>6. CASE u # token \/ ~res.retained
      <3>1. Unrecorded(u)' = Unrecorded(u)
        BY <1>1, <1>2, <1>3, <2>5, <2>6 DEF Unrecorded, InCall, SpanAdded
      <3>2. \A w \in Version : TableSpans(w, u)' = TableSpans(w, u)
        BY <1>2, <2>1, <2>2, <2>6 DEF SpanAdded
      <3> QED BY <2>3, <2>4, <3>1, <3>2, CountUnchanged
    <2>7. CASE u = token /\ res.retained
      <3>1. Unrecorded(u)' = Unrecorded(u) + 1
        BY <1>1, <1>3, <2>5, <2>7 DEF Unrecorded, InCall
      <3>2. PICK s : /\ s \notin TableSpans(v, u)
                     /\ TableSpans(v, u)' = TableSpans(v, u) \cup {s}
        BY <1>2, <2>2, <2>7 DEF SpanAdded
      <3>3. /\ \A w \in Version : IsFiniteSet(TableSpans(w, u)')
            /\ SpanCount(u)' = SpanCount(u) + 1
        BY <2>1, <2>3, <3>2, CountAdded
      <3> QED BY <2>3, <2>4, <2>5, <3>1, <3>3
    <2> QED BY <2>6, <2>7
  <1>9. OwnIsRecent'
    <2> SUFFICES ASSUME token \in Token, NEW w \in Version
                 PROVE  SpansOf(defrag'[w], OldIds(w)', token) = {}
      BY <1>3 DEF OwnIsRecent
    <2>1. SpansOf(defrag[w], OldIds(w), token) = {}
      BY <1>1 DEF OwnIsRecent
    <2>2. \A i \in OldIds(w)' : i \in OldIds(w) /\ defrag'[w].by_id[i] = defrag[w].by_id[i]
      BY <1>2, <1>3, <1>4 DEF OldIds, SpanAdded
    <2> QED BY <2>1, <2>2 DEF SpansOf
  <1>10. Lending'
    BY <1>1, <1>3 DEF Lending, InCall
  <1>11. Swept' /\ HeldIsPinned' /\ NothingStale'
    BY <1>3 DEF Swept, HeldIsPinned, NothingStale
  <1> QED BY <1>5, <1>6, <1>7, <1>8, <1>9, <1>10, <1>11

-----------------------------------------------------------------------------
(* The beginning of a call, and the steps that leave the tables alone. *)

\* Spans and their counts are functions of the tables.
LEMMA SameTables ==
  ASSUME defrag' = defrag
  PROVE  /\ \A v, u : TableSpans(v, u)' = TableSpans(v, u)
         /\ \A u : SpanCount(u)' = SpanCount(u)
  BY DEF TableSpans, SpanCount

\* A block parse_epb rejects gives its buffer back at once.
LEMMA FeedMalformedInv ==
  ASSUME Inv, NEW t \in AnyToken, FeedMalformed(t)
  PROVE  Inv'
  <1> USE DEF Inv
  <1>1. /\ pc = "idle" /\ pc' = "idle" /\ token' = t
        /\ UNCHANGED <<defrag, pid, pins, rows, headers, done, pin_count,
                       retired, held>>
        /\ tracking' \in BOOLEAN /\ pinned' \in BOOLEAN
        /\ released' = OwnReleased(NoCount, t)
    BY Zenon DEF FeedMalformed
  <1>2. released' \in [Token -> Nat]
    BY <1>1 DEF OwnReleased, NoCount
  <1>3. TypeOK'
    BY <1>1, <1>2 DEF TypeOK, AnyToken
  <1>4. Balance'
    BY <1>1, SameTables DEF Balance, Unrecorded, Unsettled, InCall
  <1>5. Shapes' /\ Control' /\ OwnIsRecent' /\ Lending' /\ Swept'
    BY <1>1 DEF Shapes, Control, OwnIsRecent, Lending, Swept, InCall
  <1>6. HeldIsPinned' /\ NothingStale'
    BY <1>1 DEF HeldIsPinned, NothingStale
  <1> QED BY <1>3, <1>4, <1>5, <1>6

\* A call takes the buffer over.
LEMMA FeedEpbInv ==
  ASSUME Counting, Inv, NEW t \in AnyToken, FeedEpb(t)
  PROVE  Inv'
  <1> USE DEF Inv
  <1>1. /\ pc = "idle" /\ pc' = "walk" /\ token' = t /\ pid < MaxPackets
        /\ t \in (Token \ held) \cup {kNoToken}
        /\ headers' = 0 /\ done' = None /\ pin_count' = 0 /\ retired' = NoCount
        /\ released' = NoCount /\ pinned' = FALSE /\ tracking' \in BOOLEAN
        /\ held' = held \cup ({t} \cap Token)
        /\ UNCHANGED <<defrag, pid, pins, rows>>
    BY DEF FeedEpb, Feedable
  <1>2. /\ NoCount \in [Token -> Nat]
        /\ \A u \in Token : NoCount[u] = 0
    BY DEF NoCount
  <1>3. held = {u \in Token : pins[u] > 0} /\ pins \in [Token -> Nat]
    BY <1>1 DEF HeldIsPinned, TypeOK
  <1>4. t \in Token => pins[t] = 0
    BY <1>1, <1>3, SessionAssumption
  <1>5. TypeOK'
    <2>1. headers' \in 0..Larger(1, MaxHeaders) /\ pin_count' \in 0..headers'
      BY <1>1, SessionAssumption DEF Larger
    <2>2. {tracking', pinned'} \subseteq BOOLEAN /\ held' \subseteq Token
      BY <1>1, <1>3, Zenon
    <2> QED BY <1>1, <1>2, <2>1, <2>2 DEF TypeOK, AnyToken
  <1>6. Shapes'
    BY <1>1 DEF Shapes
  <1>7. Control'
    BY <1>1 DEF Control, None, Version
  <1>8. Balance'
    <2> SUFFICES ASSUME NEW u \in Token
                 PROVE  /\ \A w \in Version : IsFiniteSet(TableSpans(w, u)')
                        /\ pins'[u] + Unrecorded(u)' = SpanCount(u)' + Unsettled(u)'
      BY DEF Balance
    <2>1. Unrecorded(u)' = 0 /\ Unsettled(u)' = 0
      BY <1>1, <1>2 DEF Unrecorded, Unsettled
    <2>2. Unrecorded(u) = 0 /\ Unsettled(u) = 0
      BY <1>1 DEF Unrecorded, Unsettled, InCall
    <2> QED BY <1>1, <2>1, <2>2, SameTables DEF Balance
  <1>9. OwnIsRecent'
    <2> SUFFICES ASSUME t \in Token, NEW v \in Version
                 PROVE  SpansOf(defrag[v], OldIds(v)', t) = {}
      BY <1>1 DEF OwnIsRecent
    <2>1. /\ \A w \in Version : IsFiniteSet(TableSpans(w, t))
          /\ SpanCount(t) = 0
      <3>1. Unrecorded(t) = 0 /\ Unsettled(t) = 0
        BY <1>1 DEF Unrecorded, Unsettled, InCall
      <3>2. /\ pins[t] + Unrecorded(t) = SpanCount(t) + Unsettled(t)
            /\ \A w \in Version : IsFiniteSet(TableSpans(w, t))
        BY DEF Balance
      <3>3. SpanCount(t) \in Nat
        BY <3>2, SpanCountType
      <3> QED BY <1>4, <3>1, <3>2, <3>3
    <2>2. Cardinality(TableSpans(v, t)) = 0
      BY <2>1, SpanCountType
    <2>3. TableSpans(v, t) = {}
      BY <2>1, <2>2, CountNone
    <2>4. OldIds(v)' \subseteq DOMAIN defrag[v].by_id
      BY <1>1 DEF OldIds
    <2> QED BY <2>3, <2>4, SomeSpans DEF TableSpans, AllSpans
  <1>10. Lending'
    BY <1>1, <1>2, <1>3, <1>4 DEF Lending
  <1>11. Swept' /\ HeldIsPinned' /\ NothingStale'
    BY <1>1 DEF Swept, HeldIsPinned, NothingStale
  <1> QED BY <1>5, <1>6, <1>7, <1>8, <1>9, <1>10, <1>11

\* A packet that is no fragment, or completes nothing, leaves the books alone.
LEMMA QuietInv ==
  ASSUME Inv, InCall, pc' \in {"evict4", "retire"},
         UNCHANGED <<defrag, pid, tracking, pins, callVars, resultVars, held>>
  PROVE  Inv'
  <1> USE DEF Inv, callVars, resultVars
  <1>1. TypeOK' /\ Shapes' /\ Control'
    BY DEF TypeOK, Shapes, Control, InCall
  <1>2. Balance'
    BY SameTables DEF Balance, Unrecorded, Unsettled, InCall
  <1>3. OwnIsRecent' /\ Lending'
    BY DEF OwnIsRecent, OldIds, Lending, InCall
  <1>4. Swept' /\ HeldIsPinned' /\ NothingStale'
    BY DEF Swept, HeldIsPinned, NothingStale
  <1> QED BY <1>1, <1>2, <1>3, <1>4

-----------------------------------------------------------------------------
(* A completed datagram gives its spans back. *)

\* complete_datagram's retire keeps it: the entry's spans and pins go together.
LEMMA RetireInv ==
  ASSUME Counting, TableContract, Inv, Retire
  PROVE  Inv'
  <1>0. PICK v \in Version : v = done.version
    BY DEF Inv, Control
  <1> DEFINE t == defrag[v]
             dropped == IF Retirable(t, done.id) THEN {done.id} ELSE {}
             took(u) == IF tracking THEN SpansOf(t, dropped, u) ELSE {}
  <1> USE DEF Inv
  <1>1. /\ TableOK(AnyToken, t) /\ DOMAIN defrag = Version
        /\ InCall /\ pc' \in {"chain", "evict4"} /\ pid < MaxPackets
        /\ UNCHANGED <<pid, tracking, pins, rows, token, headers, done, pin_count,
                       released, pinned, held>>
    BY DEF Retire, Control, Shapes, InCall, resultVars
  <1>2. /\ DOMAIN defrag' = Version
        /\ \A w \in Version \ {v} : defrag'[w] = defrag[w]
        /\ TableOK(AnyToken, defrag'[v])
        /\ DOMAIN defrag'[v].by_id = DOMAIN t.by_id
        /\ \A i \in DOMAIN t.by_id :
             defrag'[v].by_id[i].last_packet_id = t.by_id[i].last_packet_id
        /\ \A u : /\ AllSpans(defrag'[v], u) = AllSpans(t, u) \ took(u)
                  /\ took(u) \subseteq AllSpans(t, u)
    <2>1. CASE ~tracking
      BY <1>0, <1>1, <2>1 DEF Retire
    <2>2. CASE tracking /\ ~Retirable(t, done.id)
      <3>1. defrag' = [defrag EXCEPT ![v] = t] /\ \A u : took(u) = {}
        BY <1>0, <2>2 DEF Retire, retire, SpansOf
      <3> QED BY <1>1, <3>1
    <2>3. CASE tracking /\ Retirable(t, done.id)
      <3>1. defrag' = [defrag EXCEPT ![v] = retire(t, done.id)]
        BY <1>0, <2>3 DEF Retire
      <3>2. defrag'[v] = retire(t, done.id)
        BY <1>1, <3>1
      <3>3. /\ TableOK(AnyToken, retire(t, done.id))
            /\ DOMAIN retire(t, done.id).by_id = DOMAIN t.by_id
            /\ \A i \in DOMAIN t.by_id :
                 retire(t, done.id).by_id[i].last_packet_id = t.by_id[i].last_packet_id
            /\ \A u : AllSpans(retire(t, done.id), u)
                       = AllSpans(t, u) \ SpansOf(t, {done.id}, u)
        <4>1. SpansRetired(AnyToken, t, done.id, retire(t, done.id))
          BY <1>1, <2>3, SpansRetire
        <4> QED BY <4>1, Zenon DEF SpansRetired
      <3>4. \A u : took(u) = SpansOf(t, {done.id}, u)
        BY <2>3
      <3>5. {done.id} \subseteq DOMAIN t.by_id
        BY <2>3 DEF Retirable
      <3>6. \A u : SpansOf(t, {done.id}, u) \subseteq AllSpans(t, u)
        BY <3>5, SomeSpans
      <3> HIDE DEF t, took
      <3> QED BY <1>1, <3>1, <3>2, <3>3, <3>4, <3>6, Zenon
    <2> QED BY <2>1, <2>2, <2>3, Zenon
  <1>3. \A u \in Token : retired'[u] = retired[u] + Cardinality(took(u))
    <2>1. CASE ~tracking
      BY <2>1, CountNone DEF Retire, TypeOK
    <2>2. CASE tracking
      BY <1>0, <2>2 DEF Retire
    <2> QED BY <2>1, <2>2
  <1>4. retired' = [u \in Token |-> retired'[u]]
    <2>1. CASE ~tracking
      BY <2>1 DEF Retire, TypeOK
    <2>2. CASE tracking
      BY <1>0, <2>2 DEF Retire
    <2> QED BY <2>1, <2>2
  <1> HIDE DEF took
  <1>5. \A u \in Token :
          /\ \A w \in Version : IsFiniteSet(TableSpans(w, u)')
          /\ Cardinality(took(u)) \in Nat
          /\ SpanCount(u)' = SpanCount(u) - Cardinality(took(u))
          /\ SpanCount(u) \in Nat
    <2> SUFFICES ASSUME NEW u \in Token
                 PROVE  /\ \A w \in Version : IsFiniteSet(TableSpans(w, u)')
                        /\ Cardinality(took(u)) \in Nat
                        /\ SpanCount(u)' = SpanCount(u) - Cardinality(took(u))
                        /\ SpanCount(u) \in Nat
      OBVIOUS
    <2>1. \A w \in Version \ {v} : TableSpans(w, u)' = TableSpans(w, u)
      BY <1>2 DEF TableSpans
    <2>2. /\ TableSpans(v, u)' = AllSpans(defrag'[v], u)
          /\ TableSpans(v, u) = AllSpans(t, u)
      BY <1>1, <1>2 DEF TableSpans, AllSpans
    <2>3. \A w \in Version : IsFiniteSet(TableSpans(w, u))
      BY DEF Balance
    <2>4. /\ TableSpans(v, u)' = TableSpans(v, u) \ took(u)
          /\ took(u) \subseteq TableSpans(v, u)
      BY <1>2, <2>2
    <2> QED BY <1>1, <2>1, <2>3, <2>4, CountDropped, SpanCountType
  <1>6. TypeOK'
    BY <1>1, <1>3, <1>4, <1>5, SMTT(30) DEF TypeOK
  <1>7. Shapes' /\ Control'
    BY <1>1, <1>2 DEF Shapes, Control, InCall
  <1>8. Balance'
    <2> SUFFICES ASSUME NEW u \in Token
                 PROVE  /\ \A w \in Version : IsFiniteSet(TableSpans(w, u)')
                        /\ pins'[u] + Unrecorded(u)' = SpanCount(u)' + Unsettled(u)'
      BY DEF Balance
    <2>1. Unrecorded(u)' = Unrecorded(u) /\ pins'[u] = pins[u]
      BY <1>1 DEF Unrecorded, InCall
    <2>2. Unsettled(u)' = Unsettled(u) + Cardinality(took(u))
      BY <1>1, <1>3 DEF Unsettled, InCall
    <2>3. /\ pins[u] + Unrecorded(u) = SpanCount(u) + Unsettled(u)
          /\ pins[u] \in Nat /\ Unsettled(u) \in Nat /\ Unrecorded(u) \in Nat
      BY DEF Balance, TypeOK, Unsettled, Unrecorded
    <2> QED BY <1>5, <2>1, <2>2, <2>3
  <1>9. OwnIsRecent'
    <2> SUFFICES ASSUME token \in Token, NEW w \in Version
                 PROVE  SpansOf(defrag'[w], OldIds(w)', token) = {}
      BY <1>1 DEF OwnIsRecent
    <2>1. SpansOf(defrag[w], OldIds(w), token) = {}
      BY <1>1 DEF OwnIsRecent
    <2>2. OldIds(w)' = OldIds(w)
      BY <1>1, <1>2 DEF OldIds
    <2>3. CASE w # v
      BY <1>2, <2>1, <2>2, <2>3
    <2>4. CASE w = v
      <3>1. \A x \in SpansOf(defrag'[v], OldIds(v)', token) : x \in AllSpans(t, token)
        <4>1. OldIds(v)' \subseteq DOMAIN defrag'[v].by_id
          BY DEF OldIds
        <4>2. SpansOf(defrag'[v], OldIds(v)', token) \subseteq AllSpans(defrag'[v], token)
          BY <4>1, SomeSpans
        <4> QED BY <1>2, <4>2
      <3>2. \A x \in SpansOf(defrag'[v], OldIds(v)', token) :
              \E i \in OldIds(v) : \E n : x = <<i, n>>
        BY <2>2, <2>4, SMTT(30) DEF SpansOf
      <3>3. \A i \in OldIds(v) : \A n : <<i, n>> \in AllSpans(t, token) =>
              <<i, n>> \in SpansOf(t, OldIds(v), token)
        BY DEF AllSpans, SpansOf
      <3>4. \A x \in SpansOf(defrag'[v], OldIds(v)', token) :
              x \in SpansOf(t, OldIds(v), token)
        BY <3>1, <3>2, <3>3, SMTT(30)
      <3> QED BY <2>1, <2>4, <3>4
    <2> QED BY <2>3, <2>4
  <1>10. Lending'
    BY <1>1 DEF Lending, InCall
  <1>11. Swept' /\ HeldIsPinned' /\ NothingStale'
    BY <1>1 DEF Swept, HeldIsPinned, NothingStale
  <1> QED BY <1>6, <1>7, <1>8, <1>9, <1>10, <1>11

-----------------------------------------------------------------------------
(* A sweep takes what is stale, and with it the pins of other buffers only. *)

\* An entry this packet touched is not stale: its timeout is at least one
\* packet, and the sum does not wrap.
LEMMA TouchedIsNotStale ==
  ASSUME TimeoutsWork, TypeOK, pid < MaxPackets, NEW v \in Version,
         NEW r, r.last_packet_id = pid
  PROVE  ~AgedOut(Config[v], r, pid)
  <1> DEFINE ticks == Config[v].timeout_ticks
  <1>1. ticks \in Nat /\ ticks > 0 /\ MaxPackets + ticks < TickModulus
        /\ pid \in Nat /\ MaxPackets \in Nat /\ TickModulus \in Nat
    BY SessionAssumption, TickAssumption DEF TimeoutsWork, TypeOK
  <1>2. (pid + ticks) % TickModulus = pid + ticks
    BY <1>1
  <1> QED BY <1>1, <1>2 DEF AgedOut, kNoPacket

\* What is not stale is younger than its timeout.
LEMMA NotStaleIsFresh ==
  ASSUME TypeOK, NEW v \in Version, NEW r, r.last_packet_id \in Nat,
         ~AgedOut(Config[v], r, pid)
  PROVE  pid < r.last_packet_id + Config[v].timeout_ticks
  <1> DEFINE sum == r.last_packet_id + Config[v].timeout_ticks
  <1>1. sum \in Nat /\ pid \in Nat /\ TickModulus \in Nat \ {0}
    BY SessionAssumption, TickAssumption DEF TypeOK
  <1>2. sum % TickModulus <= sum
    BY <1>1
  <1>3. sum % TickModulus \in Nat
    BY <1>1
  <1>4. pid < sum % TickModulus
    BY <1>1, <1>3 DEF AgedOut
  <1> QED BY <1>1, <1>2, <1>3, <1>4

\* A sweep keeps it: no evicted entry has a span of the buffer of the call.
LEMMA SweepInv ==
  ASSUME Counting, TableContract, Inv, TimeoutsWork, NEW v \in Version, Sweep(v),
         \/ v = 4 /\ pc = "evict4" /\ pc' = "evict6"
         \/ v = 6 /\ pc = "evict6" /\ pc' = "settle"
  PROVE  Inv'
  <1> DEFINE t == defrag[v]
             stale == StaleIds(Config[v], t, pid)
             took(u) == SpansOf(t, stale, u)
  <1> USE DEF Inv
  <1>1. /\ TableOK(AnyToken, t) /\ DOMAIN defrag = Version
        /\ InCall /\ InCall' /\ pc' \in {"evict6", "settle"} /\ pid < MaxPackets
        /\ UNCHANGED <<pid, tracking, token, headers, done, pin_count, retired,
                       pinned, held>>
    BY SMTT(30) DEF Sweep, Control, Shapes, InCall, callVars
  <1>2. /\ DOMAIN defrag' = Version
        /\ \A w \in Version \ {v} : defrag'[w] = defrag[w]
        /\ defrag'[v] = evict_stale(Config[v], t, pid)
    BY <1>1, SMTT(30) DEF Sweep
  <1>3. /\ TableOK(AnyToken, defrag'[v])
        /\ stale \subseteq DOMAIN t.by_id
        /\ DOMAIN defrag'[v].by_id = DOMAIN t.by_id \ stale
        /\ \A i \in DOMAIN defrag'[v].by_id : defrag'[v].by_id[i] = t.by_id[i]
        /\ \A u : AllSpans(defrag'[v], u) = AllSpans(t, u) \ took(u)
    <2>1. SpansEvicted(AnyToken, t, stale, evict_stale(Config[v], t, pid))
      BY <1>1, SpansEvict
    <2> QED BY <1>2, <2>1 DEF SpansEvicted
  <1>4. \A u : took(u) \subseteq AllSpans(t, u)
    BY <1>3, SomeSpans, SMTT(30)
  <1>5. token \in Token => took(token) = {}
    <2> SUFFICES ASSUME token \in Token PROVE took(token) = {}
      OBVIOUS
    <2>1. stale \subseteq OldIds(v)
      BY <1>1, TouchedIsNotStale DEF StaleIds, OldIds
    <2>2. SpansOf(t, OldIds(v), token) = {}
      BY <1>1, SMTT(30) DEF OwnIsRecent
    <2> QED BY <2>1, <2>2 DEF SpansOf
  <1>6. /\ pins' = [u \in Token |-> Unpinned(pins[u], Cardinality(took(u)))]
        /\ released' = [u \in Token |->
                          released[u] + Freed(pins[u], Cardinality(took(u)))]
    BY SMTT(30) DEF Sweep
  <1>7. Fresh(v)'
    <2> SUFFICES ASSUME NEW i \in DOMAIN defrag'[v].by_id
                 PROVE  pid < t.by_id[i].last_packet_id + Config[v].timeout_ticks
      BY <1>1, <1>3, SMTT(30) DEF Fresh
    <2>1. i \in DOMAIN t.by_id /\ ~AgedOut(Config[v], t.by_id[i], pid)
      BY <1>3 DEF StaleIds
    <2>2. t.by_id[i].last_packet_id \in Nat
      BY <1>1, <2>1 DEF TableOK, EntryOK
    <2> QED BY <2>1, <2>2, NotStaleIsFresh, SMTT(30)
  <1> HIDE DEF took, stale
  <1>8. ASSUME NEW u \in Token
        PROVE  /\ \A w \in Version : IsFiniteSet(TableSpans(w, u)')
               /\ Cardinality(took(u)) \in Nat
               /\ SpanCount(u)' = SpanCount(u) - Cardinality(took(u))
               /\ Cardinality(took(u)) <= SpanCount(u)
               /\ SpanCount(u) \in Nat
    <2>1. \A w \in Version \ {v} : TableSpans(w, u)' = TableSpans(w, u)
      BY <1>2 DEF TableSpans
    <2>2. /\ TableSpans(v, u)' = AllSpans(defrag'[v], u)
          /\ TableSpans(v, u) = AllSpans(t, u)
      BY <1>1, <1>2 DEF TableSpans, AllSpans
    <2>3. \A w \in Version : IsFiniteSet(TableSpans(w, u))
      BY DEF Balance
    <2>4. /\ TableSpans(v, u)' = TableSpans(v, u) \ took(u)
          /\ took(u) \subseteq TableSpans(v, u)
      BY <1>3, <1>4, <2>2, SMTT(30)
    <2> QED BY <2>1, <2>3, <2>4, CountDropped, SpanCountType, Zenon
  <1>9. ASSUME NEW u \in Token
        PROVE  /\ Cardinality(took(u)) <= pins[u]
               /\ pins'[u] = pins[u] - Cardinality(took(u))
               /\ u = token => pins'[u] = pins[u]
               /\ released'[u] \in Nat
               /\ released'[u] = released[u] + (IF pins[u] > 0 /\ pins'[u] = 0
                                                THEN 1 ELSE 0)
               /\ pins[u] \in Nat /\ released[u] \in Nat
    <2>1. /\ pins[u] + Unrecorded(u) = SpanCount(u) + Unsettled(u)
          /\ pins[u] \in Nat /\ Unsettled(u) \in Nat /\ Unrecorded(u) \in Nat
          /\ released[u] \in Nat
      BY DEF Balance, TypeOK, Unsettled, Unrecorded
    <2>2. /\ u = token => Cardinality(took(u)) = 0
          /\ u # token => Unrecorded(u) = 0
      BY <1>5, CountNone DEF Unrecorded
    <2>3. Cardinality(took(u)) \in Nat /\ Cardinality(took(u)) <= pins[u]
      BY <1>8, <2>1, <2>2
    <2>4. /\ Unpinned(pins[u], Cardinality(took(u))) = pins[u] - Cardinality(took(u))
          /\ released[u] + Freed(pins[u], Cardinality(took(u))) \in Nat
          /\ released[u] + Freed(pins[u], Cardinality(took(u)))
               = released[u] + (IF pins[u] > 0 /\ pins[u] - Cardinality(took(u)) = 0
                                THEN 1 ELSE 0)
      BY <2>1, <2>3, ReleaseArithmetic, ZenonT(40)
    <2>5. /\ pins'[u] = pins[u] - Cardinality(took(u))
          /\ released'[u] = released[u] + Freed(pins[u], Cardinality(took(u)))
      BY <1>6, <2>4, Zenon
    <2>6. u = token => pins'[u] = pins[u]
      BY ONLY <2>1, <2>2, <2>5
    <2> QED BY ONLY <2>1, <2>3, <2>4, <2>5, <2>6
  <1>10. TypeOK'
    <2>1. pins' \in [Token -> Nat] /\ released' \in [Token -> Nat]
      BY <1>6, <1>8, <1>9
    <2> QED BY <1>1, <2>1 DEF TypeOK
  <1>11. Shapes' /\ Control'
    BY <1>1, <1>2, <1>3, ZenonT(40) DEF Shapes, Control, InCall
  <1>12. Balance'
    <2> SUFFICES ASSUME NEW u \in Token
                 PROVE  /\ \A w \in Version : IsFiniteSet(TableSpans(w, u)')
                        /\ pins'[u] + Unrecorded(u)' = SpanCount(u)' + Unsettled(u)'
      BY DEF Balance
    <2>1. Unrecorded(u)' = Unrecorded(u) /\ Unsettled(u)' = Unsettled(u)
      BY <1>1 DEF Unrecorded, Unsettled
    <2>2. /\ pins[u] + Unrecorded(u) = SpanCount(u) + Unsettled(u)
          /\ Unsettled(u) \in Nat /\ Unrecorded(u) \in Nat
      BY SMTT(30) DEF Balance, TypeOK, Unsettled, Unrecorded
    <2> QED BY <1>8, <1>9, <2>1, <2>2
  <1>13. OwnIsRecent'
    <2> SUFFICES ASSUME token \in Token, NEW w \in Version
                 PROVE  SpansOf(defrag'[w], OldIds(w)', token) = {}
      BY <1>1 DEF OwnIsRecent
    <2>1. SpansOf(defrag[w], OldIds(w), token) = {}
      BY <1>1, SMTT(30) DEF OwnIsRecent
    <2>2. \A i \in OldIds(w)' : i \in OldIds(w) /\ defrag'[w].by_id[i] = defrag[w].by_id[i]
      BY <1>1, <1>2, <1>3 DEF OldIds
    <2> QED BY ONLY <2>1, <2>2, SMTT(30) DEF SpansOf
  <1>14. Lending'
    <2> SUFFICES ASSUME NEW u \in Token
                 PROVE  /\ u = token => pins'[u] = 0 /\ released'[u] = 0
                        /\ u \in held <=> pins'[u] > 0 \/ released'[u] > 0 \/ u = token
                        /\ released'[u] > 0 => released'[u] = 1 /\ pins'[u] = 0
      BY <1>1, SMTT(30) DEF Lending
    <2>1. /\ u = token => pins[u] = 0 /\ released[u] = 0
          /\ u \in held <=> pins[u] > 0 \/ released[u] > 0 \/ u = token
          /\ released[u] > 0 => released[u] = 1 /\ pins[u] = 0
      BY <1>1 DEF Lending
    <2>2. pins'[u] \in Nat /\ pins'[u] <= pins[u]
      BY <1>8, <1>9
    <2>3. CASE pins[u] > 0 /\ pins'[u] = 0
      BY <1>9, <2>1, <2>3
    <2>4. CASE ~(pins[u] > 0 /\ pins'[u] = 0)
      BY <1>9, <2>1, <2>2, <2>4
    <2> QED BY <2>3, <2>4
  <1>15. Swept'
    <2>1. CASE v = 4 /\ pc' = "evict6"
      BY <1>7, <2>1 DEF Swept
    <2>2. CASE v = 6 /\ pc = "evict6" /\ pc' = "settle"
      <3>1. defrag'[4] = defrag[4]
        BY <1>2, <2>2 DEF Version
      <3>2. Fresh(4)'
        BY <1>1, <2>2, <3>1 DEF Swept, Fresh
      <3> QED BY <1>7, <2>2, <3>2 DEF Swept
    <2> QED BY <2>1, <2>2
  <1>16. HeldIsPinned' /\ NothingStale'
    BY <1>1, SMTT(30) DEF HeldIsPinned, NothingStale
  <1> QED BY <1>10, <1>11, <1>12, <1>13, <1>14, <1>15, <1>16, SMTT(30)

-----------------------------------------------------------------------------
(* The end of a call settles the books. *)

\* What Return does to the books of one buffer.
LEMMA ReturnBooks ==
  ASSUME Counting, Inv, Return, NEW u \in Token
  PROVE  /\ IsFiniteSet(TableSpans(4, u)) /\ IsFiniteSet(TableSpans(6, u))
         /\ pins'[u] = SpanCount(u) /\ pins'[u] \in Nat
         /\ released'[u] \in {0, 1}
         /\ released'[u] > released[u] => u \in held
         /\ u \in held' <=> pins'[u] > 0
  <1> DEFINE added == pins[u] + (IF u = token THEN pin_count ELSE 0)
  <1> USE DEF Inv
  <1>1. InCall /\ pc = "settle"
    BY DEF Return, InCall
  <1>2. /\ pins[u] \in Nat /\ pin_count \in Nat /\ retired[u] \in Nat
        /\ released[u] \in Nat /\ released \in [Token -> Nat]
    BY SessionAssumption, SMTT(30) DEF TypeOK
  <1>3. /\ IsFiniteSet(TableSpans(4, u)) /\ IsFiniteSet(TableSpans(6, u))
        /\ \A v \in Version : IsFiniteSet(TableSpans(v, u))
        /\ added = SpanCount(u) + retired[u]
    BY <1>1 DEF Balance, Version, Unrecorded, Unsettled
  <1>4. SpanCount(u) \in Nat /\ added \in Nat
    BY <1>2, <1>3, SpanCountType
  <1>5. PinsAdded[u] = added
    BY DEF PinsAdded
  <1> HIDE DEF added
  <1>6. /\ Unpinned(added, retired[u]) = SpanCount(u)
        /\ Freed(added, retired[u]) \in {0, 1}
        /\ Freed(added, retired[u]) = 1 <=> added > 0 /\ SpanCount(u) = 0
    <2>1. retired[u] <= added /\ added - retired[u] = SpanCount(u)
      BY <1>2, <1>3, <1>4
    <2>2. /\ Unpinned(added, retired[u]) = added - retired[u]
          /\ Freed(added, retired[u]) \in {0, 1}
          /\ Freed(added, retired[u]) = 1 <=> added > 0 /\ retired[u] = added
      BY <1>2, <1>4, <2>1, UnpinArithmetic
    <2>3. retired[u] = added <=> SpanCount(u) = 0
      BY <1>2, <1>4, <2>1, SMTT(30)
    <2> QED BY <2>1, <2>2, <2>3
  <1>7. pins'[u] = SpanCount(u)
    BY <1>5, <1>6 DEF Return
  <1>8. /\ u = token => pins[u] = 0 /\ released[u] = 0
        /\ u \in held <=> pins[u] > 0 \/ released[u] > 0 \/ u = token
        /\ released[u] > 0 => released[u] = 1 /\ pins[u] = 0
    BY <1>1 DEF Lending
  <1>9. u # token => added = pins[u]
    BY <1>2 DEF added
  <1> DEFINE freed == Freed(added, retired[u])
             rel == [w \in Token |-> released[w] + Freed(PinsAdded[w], retired[w])]
  <1>10. rel[u] = released[u] + freed
    BY <1>5
  <1>11. u \in held' <=> u \in held /\ ~(released'[u] > 0)
    BY SMTT(30) DEF Return, TakenBack
  <1>12. CASE u # token
    <2>1. released'[u] = rel[u]
      BY <1>12 DEF Return, OwnReleased
    <2> HIDE DEF freed, rel
    <2>2. freed \in {0, 1} /\ (freed = 1 <=> pins[u] > 0 /\ SpanCount(u) = 0)
      BY <1>6, <1>9, <1>12, SMTT(30) DEF freed
    <2> QED BY <1>2, <1>3, <1>4, <1>7, <1>8, <1>9, <1>10, <1>11, <1>12, <2>1, <2>2, SMTT(30)
  <1>13. CASE u = token
    <2>1. /\ pins'[u] > 0 => released'[u] = rel[u]
          /\ ~(pins'[u] > 0) => released' = OwnReleased(rel, u)
      BY <1>13, ZenonT(40) DEF Return
    <2>2. ~(pins'[u] > 0) => released'[u] = IF rel[u] = 0 THEN 1 ELSE rel[u]
      BY <2>1 DEF OwnReleased
    <2> HIDE DEF freed, rel
    <2>3. freed \in {0, 1} /\ (freed = 1 => SpanCount(u) = 0)
      BY <1>6 DEF freed
    <2> QED BY <1>2, <1>3, <1>4, <1>7, <1>8, <1>10, <1>11, <1>13, <2>1, <2>2, <2>3
  <1> QED BY <1>12, <1>13, SMTT(30)

\* The end of feed_epb keeps it: what is pinned is kept, the rest is given back.
LEMMA ReturnInv ==
  ASSUME Counting, Inv, Return
  PROVE  Inv'
  <1> USE DEF Inv
  <1>1. /\ pc = "settle" /\ InCall /\ pc' = "idle" /\ ~InCall' /\ pid' = pid + 1
        /\ pinned' \in BOOLEAN /\ pid < MaxPackets
        /\ UNCHANGED <<defrag, tracking, rows, token, headers, done, pin_count,
                       retired>>
    BY DEF Return, callVars, InCall, Control
  <1>2. /\ pins' = [u \in Token |-> pins'[u]]
        /\ released' = [u \in Token |-> released'[u]]
        /\ held' \subseteq Token
    BY DEF Return, OwnReleased, TypeOK
  <1>3. pins' \in [Token -> Nat] /\ released' \in [Token -> Nat]
    <2>1. \A u \in Token : pins'[u] \in Nat /\ released'[u] \in Nat
      BY ReturnBooks
    <2> QED BY <1>2, <2>1
  <1>4. TypeOK'
    <2>1. pid' \in 0..MaxPackets
      <3>1. pid \in 0..MaxPackets
        BY DEF TypeOK
      <3>2. MaxPackets \in Nat
        BY SessionAssumption
      <3> QED BY ONLY <1>1, <3>1, <3>2
    <2>2. {tracking', pinned'} \subseteq BOOLEAN
      BY <1>1 DEF TypeOK
    <2> QED BY <1>1, <1>2, <1>3, <2>1, <2>2 DEF TypeOK
  <1>5. Shapes' /\ Control'
    BY <1>1 DEF Shapes, Control
  <1>6. Balance'
    <2> SUFFICES ASSUME NEW u \in Token
                 PROVE  /\ \A w \in Version : IsFiniteSet(TableSpans(w, u)')
                        /\ pins'[u] + Unrecorded(u)' = SpanCount(u)' + Unsettled(u)'
      BY DEF Balance
    <2>1. Unrecorded(u)' = 0 /\ Unsettled(u)' = 0
      BY <1>1 DEF Unrecorded, Unsettled
    <2>2. /\ SpanCount(u)' = SpanCount(u)
          /\ \A w \in Version : TableSpans(w, u)' = TableSpans(w, u)
      BY <1>1, SameTables
    <2>3. /\ \A w \in Version : IsFiniteSet(TableSpans(w, u))
          /\ pins'[u] = SpanCount(u) /\ pins'[u] \in Nat
      BY ReturnBooks, SMTT(30) DEF Version
    <2> QED BY <2>1, <2>2, <2>3
  <1>7. OwnIsRecent' /\ Lending' /\ Swept'
    BY <1>1 DEF OwnIsRecent, Lending, Swept
  <1>8. HeldIsPinned'
    <2>1. \A u \in Token : u \in held' <=> pins'[u] > 0
      BY ReturnBooks
    <2> QED BY <1>2, <2>1 DEF HeldIsPinned
  <1>9. NothingStale'
    <2> SUFFICES ASSUME NEW v \in Version, NEW i \in DOMAIN defrag[v].by_id
                 PROVE  pid + 1 <= defrag[v].by_id[i].last_packet_id
                                     + Config[v].timeout_ticks
      BY <1>1 DEF NothingStale
    <2>1. pid < defrag[v].by_id[i].last_packet_id + Config[v].timeout_ticks
      BY <1>1 DEF Swept, Fresh, Version
    <2>2. defrag[v].by_id[i].last_packet_id \in Nat
      BY DEF Shapes, TableOK, EntryOK
    <2>3. Config[v].timeout_ticks \in Nat /\ pid \in Nat
      BY SessionAssumption DEF TypeOK
    <2> QED BY <2>1, <2>2, <2>3
  <1> QED BY <1>4, <1>5, <1>6, <1>7, <1>8, <1>9

-----------------------------------------------------------------------------
(* All steps, and what follows *)

\* Every step keeps the invariant.
LEMMA NextInv ==
  ASSUME Counting, TableContract, TimeoutsWork, Inv, [Next]_vars
  PROVE  Inv'
  <1>1. ASSUME NEW t \in Token \cup {kNoToken}, FeedMalformed(t) PROVE Inv'
    BY <1>1, FeedMalformedInv DEF AnyToken
  <1>2. ASSUME NEW t \in Token \cup {kNoToken}, FeedEpb(t) PROVE Inv'
    BY <1>2, FeedEpbInv DEF AnyToken
  <1>3. ASSUME NEW key \in Key, NEW f \in Fragments[4], OnIpv4(key, f) PROVE Inv'
    <2>1. pc = "walk" /\ GiveFragment(4, key, f) /\ 4 \in Version
      BY <1>3 DEF OnIpv4, Version
    <2>2. headers < Larger(1, MaxHeaders)
      BY <2>1, SessionAssumption, SMTT(30) DEF Inv, Control, Larger
    <2> QED BY <2>1, <2>2, GiveFragmentInv
  <1>4. ASSUME NEW key \in Key, NEW f \in Fragments[6], OnFragment(key, f) PROVE Inv'
    <2>1. pc \in {"walk", "chain"} /\ GiveFragment(6, key, f) /\ 6 \in Version
          /\ headers < MaxHeaders
      BY <1>4 DEF OnFragment, Version
    <2>2. headers < Larger(1, MaxHeaders)
      BY <2>1, SessionAssumption DEF Inv, TypeOK, Larger
    <2> QED BY <2>1, <2>2, GiveFragmentInv
  <1>5. CASE WalkDone
    BY <1>5, QuietInv DEF WalkDone, InCall
  <1>6. CASE Complete
    BY <1>6, QuietInv DEF Complete, InCall
  <1>7. CASE Retire
    BY <1>7, RetireInv
  <1>8. CASE EvictIpv4
    BY <1>8, SweepInv DEF EvictIpv4, Version
  <1>9. CASE EvictIpv6
    BY <1>9, SweepInv DEF EvictIpv6, Version
  <1>10. CASE Return
    BY <1>10, ReturnInv
  <1>11. CASE UNCHANGED vars
    <2> USE <1>11 DEF vars, callVars, resultVars
    <2>1. TypeOK' /\ Shapes' /\ Control' /\ Lending'
      BY DEF Inv, TypeOK, Shapes, Control, Lending, InCall
    <2>2. Balance'
      BY SameTables, Zenon DEF Inv, Balance, Unrecorded, Unsettled, InCall
    <2>3. OwnIsRecent'
      BY SMTT(30) DEF Inv, OwnIsRecent, OldIds, InCall
    <2>4. HeldIsPinned' /\ Swept' /\ NothingStale'
      BY DEF Inv, HeldIsPinned, Swept, Fresh, NothingStale
    <2> QED BY <2>1, <2>2, <2>3, <2>4, SMTT(30) DEF Inv
  <1> QED BY <1>1, <1>2, <1>3, <1>4, <1>5, <1>6, <1>7, <1>8, <1>9, <1>10, <1>11
          DEF Next

\* The invariant says that the books are right between calls of feed_epb.
LEMMA PinsCounted ==
  ASSUME Counting, Inv
  PROVE  PinsAreExact
  <1> SUFFICES ASSUME pc = "idle", NEW u \in Token
               PROVE  pins[u] = SpanCount(u)
    BY DEF PinsAreExact
  <1>1. Unrecorded(u) = 0 /\ Unsettled(u) = 0
    BY DEF Unrecorded, Unsettled, InCall
  <1>2. /\ pins[u] + Unrecorded(u) = SpanCount(u) + Unsettled(u)
        /\ \A v \in Version : IsFiniteSet(TableSpans(v, u))
        /\ pins[u] \in Nat
    BY DEF Inv, Balance, TypeOK
  <1>3. SpanCount(u) \in Nat
    BY <1>2, SpanCountType
  <1> QED BY <1>1, <1>2, <1>3

\* The invariant says that a span is held only while its buffer is lent to
\* the session.
LEMMA SpansAreHeld ==
  ASSUME Counting, Inv
  PROVE  NoDanglingSpan
  <1> SUFFICES ASSUME NEW v \in Version, NEW u \in Token, u \notin held
               PROVE  TableSpans(v, u) = {}
    BY DEF NoDanglingSpan
  <1>1. /\ pins[u] + Unrecorded(u) = SpanCount(u) + Unsettled(u)
        /\ \A w \in Version : IsFiniteSet(TableSpans(w, u))
        /\ pins[u] \in Nat /\ Unsettled(u) \in Nat
    BY DEF Inv, Balance, TypeOK, Unsettled
  <1>2. pins[u] = 0 /\ Unrecorded(u) = 0
    <2>1. CASE InCall
      BY <1>1, <2>1 DEF Inv, Lending, Unrecorded
    <2>2. CASE ~InCall
      BY <1>1, <2>2 DEF Inv, HeldIsPinned, InCall, Unrecorded
    <2> QED BY <2>1, <2>2
  <1>3. SpanCount(u) = 0
    BY <1>1, <1>2, SpanCountType
  <1>4. Cardinality(TableSpans(v, u)) = 0
    BY <1>1, <1>3, SpanCountType, SMTT(30)
  <1> QED BY <1>1, <1>4, CountNone

\* A step reports a buffer free at most once, and only one the session has or
\* has just been handed.
LEMMA ReleasedStep ==
  ASSUME Counting, Inv, Inv', Next, NEW u \in Token
  PROVE  /\ released'[u] <= 1
         /\ released'[u] > released[u] => u \in held \/ u = token'
  <1>1. released[u] \in Nat /\ released'[u] \in Nat /\ pins[u] \in Nat
    BY DEF Inv, TypeOK
  <1>2. InCall => released[u] <= 1 /\ (pins[u] > 0 => u \in held)
    BY <1>1 DEF Inv, Lending
  <1>3. CASE InCall /\ released' = released
    BY <1>1, <1>2, <1>3
  <1>4. ASSUME NEW t \in Token \cup {kNoToken}, FeedMalformed(t)
        PROVE  released'[u] <= 1 /\ (released'[u] > 0 => u = token')
    BY <1>4 DEF FeedMalformed, OwnReleased, NoCount
  <1>5. ASSUME NEW t \in Token \cup {kNoToken}, FeedEpb(t) PROVE released'[u] = 0
    BY <1>5 DEF FeedEpb, NoCount
  <1>6. ASSUME NEW v \in Version, Sweep(v), InCall, InCall'
        PROVE  released'[u] <= 1 /\ (released'[u] > released[u] => u \in held)
    <2>1. released'[u] <= 1
      BY <1>1, <1>6 DEF Inv, Lending
    <2>2. \E n : released'[u] = released[u] + Freed(pins[u], n)
      BY <1>6, Zenon DEF Sweep
    <2>3. released'[u] > released[u] => pins[u] > 0
      BY <1>1, <2>2, SMTT(30) DEF Freed
    <2> QED BY <1>2, <1>6, <2>1, <2>3
  <1>7. CASE Return
    BY <1>1, <1>7, ReturnBooks
  <1>8. CASE EvictIpv4 \/ EvictIpv6
    BY <1>6, <1>8, SMTT(30) DEF EvictIpv4, EvictIpv6, InCall, Version
  <1>9. CASE WalkDone \/ Complete \/ Retire
    BY <1>3, <1>9 DEF WalkDone, Complete, Retire, InCall, resultVars
  <1>10. ASSUME NEW key \in Key, \/ \E f \in Fragments[4] : OnIpv4(key, f)
                                \/ \E f \in Fragments[6] : OnFragment(key, f)
         PROVE  InCall /\ released' = released
    BY <1>10, Zenon DEF OnIpv4, OnFragment, GiveFragment, InCall, resultVars
  <1> QED BY <1>1, <1>3, <1>4, <1>5, <1>7, <1>8, <1>9, <1>10 DEF Next
=============================================================================
