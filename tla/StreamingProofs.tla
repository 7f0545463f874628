-------------------------- MODULE StreamingProofs --------------------------
(***************************************************************************)
(* The contract of StreamingDecodeSession, proved for any number of        *)
(* buffers, keys, packets and Fragment headers: whose buffers it holds,    *)
(* for any configuration whose timeouts are at least one packet and small  *)
(* enough that packet id plus timeout stays within 64 bits; what it shows; *)
(* and which datagrams it reports.  The steps are the lemmas of modules    *)
(* StreamingSteps and SessionProofs; what those take for granted is shown  *)
(* first.                                                                  *)
(***************************************************************************)
EXTENDS StreamingSteps, SessionProofs, AssemblyProofs, FiniteSetTheorems

-----------------------------------------------------------------------------
(* What the step lemmas take for granted *)

\* The facts of counting follow from the library's theorems on finite sets.
LEMMA CountingHolds == Counting
  <1>1. IsFiniteSet({}) /\ Cardinality({}) = 0
    BY FS_EmptySet
  <1>2. ASSUME NEW S, IsFiniteSet(S)
        PROVE  Cardinality(S) \in Nat /\ (Cardinality(S) = 0 => S = {})
    BY <1>2, FS_CardinalityType, FS_EmptySet
  <1>3. ASSUME NEW S, IsFiniteSet(S), NEW D, D \subseteq S
        PROVE  /\ IsFiniteSet(D) /\ IsFiniteSet(S \ D)
               /\ Cardinality(D) <= Cardinality(S)
               /\ Cardinality(S \ D) = Cardinality(S) - Cardinality(D)
    <2>1. IsFiniteSet(D) /\ Cardinality(D) <= Cardinality(S)
      BY <1>3, FS_Subset
    <2>2. /\ IsFiniteSet(S \ D)
          /\ Cardinality(S \ D) = Cardinality(S) - Cardinality(S \cap D)
      BY <1>3, FS_Difference, ZenonT(40)
    <2>3. S \cap D = D
      BY <1>3
    <2> QED BY <2>1, <2>2, <2>3
  <1>4. ASSUME NEW S, IsFiniteSet(S), NEW x, x \notin S
        PROVE  IsFiniteSet(S \cup {x}) /\ Cardinality(S \cup {x}) = Cardinality(S) + 1
    BY <1>4, FS_AddElement
  <1> QED BY <1>1, <1>2, <1>3, <1>4, SMTT(30) DEF Counting

\* So do the facts about listing a set.
LEMMA ListingHolds == Listing
  <1>1. ASSUME NEW n \in Nat, NEW D \in SUBSET (1..n), NEW f
        PROVE  IsFiniteSet({f[i] : i \in D})
    <2> DEFINE g == [i \in D |-> f[i]]
               S == {f[i] : i \in D}
    <2>1. IsFiniteSet(D)
      <3>1. IsFiniteSet(1..n)
        BY FS_Interval
      <3> QED BY <3>1, FS_Subset, Zenon
    <2>2. g \in Surjection(D, S)
      BY DEF Surjection
    <2> HIDE DEF g, S
    <2>3. IsFiniteSet(S)
      BY <2>1, <2>2, FS_Surjection, SMTT(30)
    <2> QED BY <2>3 DEF S
  <1>2. ASSUME NEW S, IsFiniteSet(S)
        PROVE  Cardinality(S) \in Nat /\ Bijection(1..Cardinality(S), S) # {}
    BY <1>2, FS_CardinalityType DEF ExistsBijection
  <1> QED BY <1>1, <1>2, Zenon DEF Listing

-----------------------------------------------------------------------------
(* The buffers *)

\* In every behaviour of the session the inductive invariant holds.
THEOREM SessionInvariant ==
  ASSUME TimeoutsWork
  PROVE  Spec => []Inv
  <1>1. Init => Inv
    BY InitInv, CountingHolds, TableKeepsContract, SMTT(30)
  <1>2. Inv /\ [Next]_vars => Inv'
    BY NextInv, CountingHolds, TableKeepsContract, SMTT(30)
  <1> QED BY <1>1, <1>2, PTL DEF Spec

\* The session's state keeps its types whatever feed_epb is given.
THEOREM TypeCorrect ==
  ASSUME TimeoutsWork
  PROVE  Spec => []TypeOK
  <1>1. Inv => TypeOK
    BY SMTT(30) DEF Inv
  <1> QED BY <1>1, SessionInvariant, PTL

\* Between calls pins_ counts, for each buffer, the spans of both reassembly
\* tables into it: feed_epb's deferred bookkeeping (retire now, unpin later)
\* loses nothing and counts nothing twice.
THEOREM PinsExact ==
  ASSUME TimeoutsWork
  PROVE  Spec => []PinsAreExact
  <1>1. Inv => PinsAreExact
    BY PinsCounted, CountingHolds, SMTT(30)
  <1> QED BY <1>1, SessionInvariant, PTL

\* At every step of feed_epb, a span into a buffer is only ever held while the
\* session has the buffer: FeedResult::released never names one too early.
THEOREM NoDangling ==
  ASSUME TimeoutsWork
  PROVE  Spec => []NoDanglingSpan
  <1>1. Inv => NoDanglingSpan
    BY SpansAreHeld, CountingHolds, SMTT(30)
  <1> QED BY <1>1, SessionInvariant, PTL

\* Between calls the buffers the caller is without are exactly the pinned
\* ones: nothing leaks, and pinned_buffers() + 1 slots are enough.
THEOREM PoolSuffices ==
  ASSUME TimeoutsWork
  PROVE  Spec => []HeldIsPinned
  <1>1. Inv => HeldIsPinned
    BY SMTT(30) DEF Inv
  <1> QED BY <1>1, SessionInvariant, PTL

\* A datagram that gets no more fragments leaves the table, with its buffers,
\* within timeout_ticks packets.
THEOREM StaleIsSwept ==
  ASSUME TimeoutsWork
  PROVE  Spec => []NothingStale
  <1>1. Inv => NothingStale
    BY DEF Inv
  <1> QED BY <1>1, SessionInvariant, PTL

\* No call reports a buffer free twice, or one the session does not have.
THEOREM NoDoubleRelease ==
  ASSUME TimeoutsWork
  PROVE  Spec => ReleasedOnce
  <1> DEFINE Once == \A u \in Token :
                       /\ released'[u] <= 1
                       /\ released'[u] > released[u] => u \in held \/ u = token'
  <1>1. Inv /\ Inv' /\ Next => Once
    BY CountingHolds, ReleasedStep
  <1>2. Inv /\ Inv' /\ [Next]_vars => [Once]_vars
    BY <1>1
  <1> HIDE DEF Once
  <1>3. [][Once]_vars => ReleasedOnce
    BY PTL DEF ReleasedOnce, Once
  <1> QED BY <1>2, <1>3, SessionInvariant, PTL DEF Spec

-----------------------------------------------------------------------------
(* The answers and the rows *)

\* At every step, Views holds: whatever the timeouts are.
THEOREM ViewsHold == Spec => []Views
  <1>1. Views /\ [Next]_vars => Views'
    BY ViewsNext, TableKeepsContract
  <1>2. Init => Views
    BY ViewsInit, TableKeepsContract
  <1> QED BY <1>1, <1>2, PTL DEF Spec

\* What feed_epb hands out and reports is so, for any number of buffers, keys
\* and packets, as long as a timeout is at least one packet.
THEOREM AnswersTrue ==
  ASSUME TimeoutsWork
  PROVE  Spec => []AnswersAreTrue
  <1>1. Inv => NoDanglingSpan /\ PinsAreExact
    BY SpansAreHeld, PinsCounted, CountingHolds, SMTT(30)
  <1>2. Inv /\ Views => AnswersAreTrue
    BY <1>1, AnswersFollow, FS_EmptySet, SMTT(30)
  <1> QED BY <1>2, ViewsHold, SessionInvariant, PTL

\* The rows are different, so a row is there once or not at all.
LEMMA RowCount ==
  ASSUME Listed, NEW v, NEW i, NEW s
  PROVE  Cardinality(RowsOf(v, i, s)) = IF Told(v, i, s) THEN 1 ELSE 0
  <1>1. RowsOf(v, i, s) = {n \in 1..Len(rows) : rows[n] = Row(v, i, s)}
    BY DEF RowsOf, Listed, Row
  <1>2. CASE Told(v, i, s)
    <2>1. PICK n \in 1..Len(rows) : rows[n] = Row(v, i, s)
      BY <1>2 DEF Told
    <2>2. RowsOf(v, i, s) = {n}
      BY <1>1, <2>1 DEF Listed
    <2> QED BY <1>2, <2>2, FS_Singleton, ZenonT(40)
  <1>3. CASE ~Told(v, i, s)
    <2>1. RowsOf(v, i, s) = {}
      BY <1>1, <1>3, SMTT(30) DEF Told
    <2> QED BY <1>3, <2>1, CountingHolds, CountNone, SMTT(30)
  <1> QED BY <1>2, <1>3

\* The same after a step.
LEMMA RowCountNext ==
  ASSUME Listed', NEW v, NEW i, NEW s
  PROVE  Cardinality(RowsOf(v, i, s)') = IF Told(v, i, s)' THEN 1 ELSE 0
  <1>1. RowsOf(v, i, s)' = {n \in 1..Len(rows') : rows'[n] = Row(v, i, s)}
    BY DEF RowsOf, Listed, Row
  <1>2. CASE Told(v, i, s)'
    <2>1. PICK n \in 1..Len(rows') : rows'[n] = Row(v, i, s)
      BY <1>2 DEF Told
    <2>2. RowsOf(v, i, s)' = {n}
      BY <1>1, <2>1 DEF Listed
    <2> QED BY <1>2, <2>2, FS_Singleton, ZenonT(40)
  <1>3. CASE ~Told(v, i, s)'
    <2>1. RowsOf(v, i, s)' = {}
      BY <1>1, <1>3, SMTT(30) DEF Told
    <2> QED BY <1>3, <2>1, CountingHolds, CountNone, SMTT(30)
  <1> QED BY <1>2, <1>3

\* The account is the one the property asks for.
LEMMA ReportsFollow == Reports => RowsAddUp
  <1> SUFFICES ASSUME Reports, NEW v \in Version, NEW i \in 1..(defrag[v].next_id - 1)
               PROVE
                 LET n(s) == Cardinality(RowsOf(v, i, s))
                     live == i \in DOMAIN defrag[v].by_id
                     fresh == pc = "complete" /\ done.version = v /\ done.id = i
                 IN /\ n(0) <= 1 /\ n(1) + n(3) <= 1 /\ n(0) + n(1) <= 1
                    /\ live => n(1) + n(3) = 0
                    /\ live => (n(0) = 1 <=> defrag[v].by_id[i].completed /\ ~fresh)
                    /\ ~live => n(0) + n(1) + n(3) > 0
    BY DEF RowsAddUp
  <1>1. Accounted(v, i)
    BY DEF Reports
  <1>2. \A s : Cardinality(RowsOf(v, i, s)) = IF Told(v, i, s) THEN 1 ELSE 0
    BY RowCount DEF Reports
  <1> QED BY <1>1, <1>2, SMTT(30) DEF Accounted, Awaited

\* Every datagram id a table gives out is accounted for, for any number of
\* packets and whatever the timeouts.  At every moment an open datagram has no
\* row and a completed one its one row from complete_datagram.  One that
\* evict_stale takes has, from then on, exactly the rows its entry calls for,
\* each once: complete and overlap_conflict together only if it was both.
THEOREM EveryOneReported == Spec => EveryDatagramReported
  <1> DEFINE A == \A v \in Version : \A i \in 1..(defrag[v].next_id - 1) :
                  \A s \in {0, 1, 3} :
                    i \notin DOMAIN defrag'[v].by_id =>
                      Cardinality(RowsOf(v, i, s)') =
                        IF i \in DOMAIN defrag[v].by_id
                        THEN IF Due(defrag[v].by_id[i], s) THEN 1 ELSE 0
                        ELSE Cardinality(RowsOf(v, i, s))
  <1>1. Views /\ Reports /\ [Next]_vars => Reports' /\ Partings
    BY ReportsNext, TableKeepsContract, ListingHolds
  <1>2. Spec => []Reports
    BY <1>1, ReportsInit, ViewsHold, PTL DEF Spec
  <1>3. Reports /\ Reports' /\ Partings => A
    <2> SUFFICES ASSUME Reports, Reports', Partings,
                        NEW v \in Version, NEW i \in 1..(defrag[v].next_id - 1),
                        NEW s \in {0, 1, 3}, i \notin DOMAIN defrag'[v].by_id
                 PROVE  Cardinality(RowsOf(v, i, s)') =
                          IF i \in DOMAIN defrag[v].by_id
                          THEN IF Due(defrag[v].by_id[i], s) THEN 1 ELSE 0
                          ELSE Cardinality(RowsOf(v, i, s))
      BY Zenon
    <2>1. Cardinality(RowsOf(v, i, s)) = IF Told(v, i, s) THEN 1 ELSE 0
      BY RowCount, Zenon DEF Reports
    <2>2. Cardinality(RowsOf(v, i, s)') = IF Told(v, i, s)' THEN 1 ELSE 0
      BY RowCountNext, Zenon DEF Reports
    <2>3. Told(v, i, s)' <=> IF i \in DOMAIN defrag[v].by_id
                             THEN Due(defrag[v].by_id[i], s) ELSE Told(v, i, s)
      BY Zenon DEF Partings, Parted
    <2> QED BY <2>1, <2>2, <2>3, Zenon
  <1>4. Views /\ Reports /\ Reports' /\ [Next]_vars => [RowsAddUp' /\ A]_vars
    <2>1. Reports' => RowsAddUp'
      BY ReportsFollow, PTL
    <2> QED BY <1>1, <1>3, <2>1
  <1> QED BY <1>2, <1>4, ViewsHold, PTL DEF Spec, EveryDatagramReported
=============================================================================
