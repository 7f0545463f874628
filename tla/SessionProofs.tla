--------------------------- MODULE SessionProofs ---------------------------
(***************************************************************************)
(* What StreamingDecodeSession answers is true, and every datagram it has  *)
(* heard of is reported: two invariants next to the one of StreamingSteps  *)
(* that counts the pins.  Views says what the entries of both tables show  *)
(* and which of them may still hold spans of tracked buffers; Reports says *)
(* which rows the datagram table has for each id given out.  Two facts are *)
(* hypotheses of the lemmas: the tables' contract, TableContract of module *)
(* Defrag, and Listing.  StreamingProofs discharges both and states the    *)
(* theorems.                                                               *)
(***************************************************************************)
EXTENDS StreamingSession, TLAPS

-----------------------------------------------------------------------------
(* What is taken from other modules *)

\* What FiniteSetTheorems says of the sets a sweep puts in order.
Listing ==
  /\ \A n \in Nat : \A D \in SUBSET (1..n) : \A f : IsFiniteSet({f[i] : i \in D})
  /\ \A S : IsFiniteSet(S) =>
       Cardinality(S) \in Nat /\ Bijection(1..Cardinality(S), S) # {}

\* The tables come with their contract, TableContract of module Defrag.
LEMMA EntriesNone ==
  ASSUME TableContract, NEW T
  PROVE  TableGood(T, EmptyTable)
  BY Zenon DEF TableContract

\* What add_fragment does to the entries.
LEMMA EntriesAdd ==
  ASSUME TableContract, NEW T, NEW t, TableGood(T, t), NEW cfg, NEW key, NEW p \in Nat,
         NEW off \in Nat, NEW more \in BOOLEAN, NEW data \in Seq(Nat), NEW tk \in T,
         NEW res, res = add_fragment(cfg, t, key, p, off, more, data, tk)
  PROVE  Answered(T, t, res) /\ SpanAdded(T, t, p, tk, res)
  <1>1. TableOK(T, t)
    BY DEF TableGood
  <1> QED BY <1>1, Zenon DEF TableContract

\* What retire does to them.
LEMMA EntriesRetire ==
  ASSUME TableContract, NEW T, NEW t, TableGood(T, t), NEW id, Retirable(t, id)
  PROVE  Emptied(T, t, id, retire(t, id))
  BY Zenon DEF TableContract

\* What evict_stale does to them.
LEMMA EntriesEvict ==
  ASSUME TableContract, NEW T, NEW t, TableGood(T, t), NEW cfg, NEW now
  PROVE  Evicted(T, t, StaleIds(cfg, t, now), evict_stale(cfg, t, now))
  BY Zenon DEF TableContract

-----------------------------------------------------------------------------
(* The entries in the course of a call *)

\* The datagram the packet has just completed, until it is retired.
Busy(v, i) == pc \in {"complete", "retire"} /\ done.version = v /\ done.id = i

\* No span of the entry points into a buffer of the caller's.
Untracked(r) == \A n \in 1..Len(r.fragments) : r.fragments[n].token \notin Token

\* A completed datagram holds no tracked buffer, but for the one at hand.
Settles(v, i) == defrag[v].by_id[i].completed => Busy(v, i) \/ Untracked(defrag[v].by_id[i])

\* The state the tables and their answers are used with.
Frame ==
  /\ DOMAIN defrag = Version
  /\ pid \in Nat /\ token \in AnyToken
  /\ done \in [version : Version, id : Nat, resume : {"chain", "evict4"}]

\* The invariant about what the session shows.
Views ==
  /\ Frame
  /\ \A v \in Version : TableGood(AnyToken, defrag[v])
  /\ \A v \in Version : \A i \in DOMAIN defrag[v].by_id : Settles(v, i)
  /\ InCall /\ token \in Token => tracking
  /\ ~tracking => \A v \in Version : \A i \in DOMAIN defrag[v].by_id :
                    Untracked(defrag[v].by_id[i])
  /\ pc \in {"complete", "retire"} =>
       /\ done.id \in DOMAIN defrag[done.version].by_id
       /\ Entry(done).completed /\ ~Entry(done).retired
  /\ pc = "idle" /\ pinned => token \in Token /\ pins[token] > 0

\* Nothing is shown before the first call.
LEMMA ViewsInit ==
  ASSUME TableContract, Init
  PROVE  Views
  <1>1. /\ \A v \in Version : defrag[v] = EmptyTable
        /\ pc = "idle" /\ pinned = FALSE /\ ~InCall
    BY DEF Init, InCall
  <1>2. DOMAIN EmptyTable.by_id = {}
    BY DEF EmptyTable
  <1>3. Frame
    BY DEF Init, Frame, None, Version, AnyToken
  <1> QED BY <1>1, <1>2, <1>3, EntriesNone, Zenon DEF Views

\* The steps that leave the tables alone: the beginning and the end of a call,
\* the end of the walk, and the row of a completed datagram.
LEMMA ViewsQuiet ==
  ASSUME Views, Frame', UNCHANGED defrag, tracking => tracking',
         \A v, i : Busy(v, i) => Busy(v, i)',
         InCall' /\ token' \in Token => tracking',
         pc' \in {"complete", "retire"} => pc \in {"complete", "retire"} /\ done' = done,
         pc' = "idle" /\ pinned' => token' \in Token /\ pins'[token'] > 0
  PROVE  Views'
  <1>1. \A v \in Version : TableGood(AnyToken, defrag'[v])
    BY SMTT(30) DEF Views
  <1>2. ASSUME NEW v \in Version, NEW i \in DOMAIN defrag'[v].by_id
        PROVE  Settles(v, i)'
    <2>1. Settles(v, i) /\ defrag' = defrag
      BY <1>2 DEF Views
    <2> QED BY <2>1 DEF Settles, Untracked
  <1>3. ~tracking' => \A v \in Version : \A i \in DOMAIN defrag'[v].by_id :
                    Untracked(defrag'[v].by_id[i])
    BY Zenon DEF Views
  <1>4. pc' \in {"complete", "retire"} =>
          /\ done'.id \in DOMAIN defrag'[done'.version].by_id
          /\ Entry(done)'.completed /\ ~Entry(done)'.retired
    BY DEF Views, Entry
  <1> QED BY <1>1, <1>2, <1>3, <1>4 DEF Views

\* A fragment goes to a table: it opens or extends an open datagram, which may
\* be complete now and is then the one at hand.
LEMMA ViewsGive ==
  ASSUME TableContract, Views, NEW v \in Version, NEW key, NEW f \in Fragments[v],
         pc \in {"walk", "chain"}, GiveFragment(v, key, f)
  PROVE  Views'
  <1> DEFINE res == add_fragment(Config[v], defrag[v], key, pid, f.offset, f.more,
                                 f.data, token)
             id == res.datagram_id
  <1>1. /\ DOMAIN defrag = Version /\ InCall /\ \A w, i : ~Busy(w, i)
        /\ pid \in Nat /\ token \in AnyToken
        /\ f.offset \in Nat /\ f.more \in BOOLEAN /\ f.data \in Seq(Nat)
    <2>1. f.offset \in Nat /\ f.more \in BOOLEAN /\ f.data \in Seq(Nat)
      BY SessionAssumption
    <2>2. pid \in Nat /\ token \in AnyToken
      BY DEF Views, Frame
    <2>3. DOMAIN defrag = Version /\ InCall /\ \A w, i : ~Busy(w, i)
      BY DEF Views, Frame, InCall, Busy
    <2> QED BY <2>1, <2>2, <2>3
  <1>2. TableGood(AnyToken, defrag[v])
    BY DEF Views
  <1>3. Answered(AnyToken, defrag[v], res)
    BY <1>1, <1>2, EntriesAdd
  <1>4. SpanAdded(AnyToken, defrag[v], pid, token, res)
    BY <1>1, <1>2, EntriesAdd
  <1>5. /\ defrag' = [defrag EXCEPT ![v] = res.table]
        /\ UNCHANGED <<tracking, token, pinned, pins>>
        /\ res.completed => pc' = "complete" /\ done'.version = v /\ done'.id = id
        /\ ~res.completed => pc' \in {"chain", "evict4"}
        /\ pc' \in {"complete", "chain", "evict4"}
    BY DEF GiveFragment, resultVars
  <1> HIDE DEF res
  <1>6. /\ defrag'[v] = res.table
        /\ \A w \in Version \ {v} : defrag'[w] = defrag[w]
    BY <1>1, <1>5
  <1>7. \A w \in Version : TableGood(AnyToken, defrag'[w])
    BY <1>3, <1>6, Zenon DEF Views, Answered
  <1>8. ASSUME NEW w \in Version, NEW i \in DOMAIN defrag'[w].by_id
        PROVE  \/ i \in DOMAIN defrag[w].by_id /\ defrag'[w].by_id[i] = defrag[w].by_id[i]
               \/ w = v /\ i = id /\ (defrag'[v].by_id[id].completed => res.completed)
    BY <1>3, <1>6, <1>8, Zenon DEF Answered, Grown
  <1>9. ASSUME NEW w \in Version, NEW i \in DOMAIN defrag'[w].by_id PROVE Settles(w, i)'
    <2>1. CASE i \in DOMAIN defrag[w].by_id /\ defrag'[w].by_id[i] = defrag[w].by_id[i]
      <3>1. Settles(w, i) /\ ~Busy(w, i)
        BY <1>1, <2>1 DEF Views
      <3> QED BY <2>1, <3>1, Zenon DEF Settles, Untracked
    <2>2. CASE w = v /\ i = id /\ (defrag'[v].by_id[id].completed => res.completed)
      BY <1>5, <2>2 DEF Settles, Busy
    <2> QED BY <1>8, <1>9, <2>1, <2>2
  <1>10. InCall' /\ token' \in Token => tracking'
    BY <1>1, <1>5 DEF Views
  <1>11. ASSUME ~tracking', NEW w \in Version, NEW i \in DOMAIN defrag'[w].by_id
         PROVE  Untracked(defrag'[w].by_id[i])
    <2>1. token \notin Token /\ ~tracking
      BY <1>1, <1>5, <1>11 DEF Views
    <2>2. \A u \in Token : AllSpans(defrag'[v], u) = AllSpans(defrag[v], u)
      BY <1>4, <1>6, <2>1 DEF SpanAdded
    <2>3. \A u \in Token : AllSpans(defrag'[w], u) = AllSpans(defrag[w], u)
      BY <1>6, <2>2
    <2>4. \A u \in Token : AllSpans(defrag[w], u) = {}
      <3>1. \A j \in DOMAIN defrag[w].by_id :
              /\ Untracked(defrag[w].by_id[j])
              /\ DOMAIN defrag[w].by_id[j].fragments = 1..Len(defrag[w].by_id[j].fragments)
        BY <2>1 DEF Views, TableGood, EntryGood, EntryType
      <3> QED BY <3>1 DEF AllSpans, SpansOf, Untracked
    <2>5. DOMAIN defrag'[w].by_id[i].fragments = 1..Len(defrag'[w].by_id[i].fragments)
      BY <1>7, <1>11 DEF TableGood, EntryGood, EntryType
    <2>6. ASSUME NEW n \in 1..Len(defrag'[w].by_id[i].fragments),
                 NEW u \in Token, u = defrag'[w].by_id[i].fragments[n].token
          PROVE  FALSE
      <3>1. <<i, n>> \in AllSpans(defrag'[w], u)
        BY ONLY <1>11, <2>5, <2>6 DEF AllSpans, SpansOf
      <3> QED BY <2>3, <2>4, <3>1
    <2> QED BY <2>6 DEF Untracked
  <1>12. pc' \in {"complete", "retire"} =>
           /\ done'.id \in DOMAIN defrag'[done'.version].by_id
           /\ Entry(done)'.completed /\ ~Entry(done)'.retired
    BY <1>3, <1>5, <1>6 DEF Answered, Grown, Entry
  <1>13. Frame'
    <2>1. DOMAIN defrag' = Version /\ UNCHANGED <<pid, token>>
      BY <1>1, <1>5 DEF GiveFragment
    <2>2. res.completed => id \in Nat
      BY <1>3 DEF Answered, Grown, TableGood, TableOK
    <2>3. done' \in [version : Version, id : Nat, resume : {"chain", "evict4"}]
      <3>1. CASE res.completed
        BY <2>2, <3>1 DEF GiveFragment, res
      <3>2. CASE ~res.completed
        BY <3>2 DEF GiveFragment, res, None, Version
      <3> QED BY <3>1, <3>2
    <2> QED BY <1>1, <2>1, <2>3 DEF Frame
  <1> QED BY <1>5, <1>7, <1>9, <1>10, <1>11, <1>12, <1>13 DEF Views

\* A retired datagram gives up its spans; without tracking there is nothing to
\* give up.
LEMMA ViewsRetire ==
  ASSUME TableContract, Views, Retire
  PROVE  Views'
  <1>0. PICK v \in Version : v = done.version
    BY DEF Views, Frame
  <1> DEFINE t == defrag[v]
             id == done.id
  <1>1. /\ DOMAIN defrag = Version /\ pc = "retire" /\ pc' \in {"chain", "evict4"}
        /\ InCall /\ TableGood(AnyToken, t) /\ Retirable(t, id)
        /\ UNCHANGED <<tracking, token, done, pinned, pins>>
    <2>1. pc = "retire" /\ UNCHANGED <<tracking, token, done, pinned, pins>> /\ InCall
      BY DEF Retire, resultVars, InCall
    <2>2. DOMAIN defrag = Version /\ pc' \in {"chain", "evict4"}
      BY DEF Views, Frame, Retire
    <2>3. TableGood(AnyToken, t) /\ Retirable(t, id)
      BY <1>0, <2>1 DEF Views, Entry, Retirable
    <2> QED BY <2>1, <2>2, <2>3
  <1>4. DOMAIN defrag' = Version => Frame'
    BY <1>1 DEF Views, Frame, Retire
  <1>2. CASE ~tracking
    <2>1. UNCHANGED defrag
      BY <1>2 DEF Retire
    <2>2. ASSUME NEW w \in Version, NEW i \in DOMAIN defrag'[w].by_id
          PROVE  Untracked(defrag'[w].by_id[i])
      BY <1>2, <2>1, <2>2 DEF Views
    <2>3. \A w \in Version : \A i \in DOMAIN defrag'[w].by_id : Settles(w, i)'
      BY <2>2 DEF Settles, Untracked
    <2>4. \A w \in Version : TableGood(AnyToken, defrag'[w])
      BY <2>1 DEF Views
    <2> QED BY <1>1, <1>2, <1>4, <2>1, <2>2, <2>3, <2>4, Zenon DEF Views
  <1>3. CASE tracking
    <2> DEFINE s == retire(t, id)
    <2>1. /\ defrag'[v] = s /\ \A w \in Version \ {v} : defrag'[w] = defrag[w]
          /\ DOMAIN defrag' = Version
      BY <1>0, <1>1, <1>3 DEF Retire
    <2>2. /\ TableGood(AnyToken, s) /\ DOMAIN s.by_id = DOMAIN t.by_id
          /\ \A i \in DOMAIN t.by_id \ {id} : s.by_id[i] = t.by_id[i]
          /\ s.by_id[id].fragments = <<>>
      <3>1. Emptied(AnyToken, t, id, s)
        BY <1>1, EntriesRetire
      <3> QED BY <3>1 DEF Emptied
    <2> HIDE DEF s
    <2>3. \A w \in Version : TableGood(AnyToken, defrag'[w])
      BY <2>1, <2>2 DEF Views
    <2>4. ASSUME NEW w \in Version, NEW i \in DOMAIN defrag'[w].by_id PROVE Settles(w, i)'
      <3>1. CASE w = v /\ i = id
        <4>1. Untracked(defrag'[w].by_id[i])
          BY <2>1, <2>2, <3>1 DEF Untracked
        <4> QED BY <4>1 DEF Settles, Untracked
      <3>2. CASE ~(w = v /\ i = id)
        <4>1. i \in DOMAIN defrag[w].by_id /\ defrag'[w].by_id[i] = defrag[w].by_id[i]
          BY <2>1, <2>2, <2>4, <3>2
        <4>2. Settles(w, i) /\ ~Busy(w, i)
          BY <1>0, <3>2, <4>1 DEF Views, Busy
        <4> QED BY <4>1, <4>2, Zenon DEF Settles, Untracked
      <3> QED BY <3>1, <3>2
    <2> QED BY <1>1, <1>3, <1>4, <2>1, <2>3, <2>4, Zenon DEF Views
  <1> QED BY <1>2, <1>3

\* A sweep takes entries away and changes none.
LEMMA ViewsSweep ==
  ASSUME TableContract, Views, NEW v \in Version, Sweep(v),
         pc \in {"evict4", "evict6"}, pc' \in {"evict6", "settle"}
  PROVE  Views'
  <1> DEFINE s == evict_stale(Config[v], defrag[v], pid)
  <1>1. /\ DOMAIN defrag = Version /\ InCall /\ TableGood(AnyToken, defrag[v])
        /\ UNCHANGED <<tracking, token, done, pinned>>
        /\ defrag' = [defrag EXCEPT ![v] = s]
    BY Zenon DEF Views, Frame, Sweep, callVars, InCall
  <1>2. defrag'[v] = s /\ \A w \in Version \ {v} : defrag'[w] = defrag[w]
    BY <1>1
  <1>3. /\ TableGood(AnyToken, s) /\ DOMAIN s.by_id \subseteq DOMAIN defrag[v].by_id
        /\ \A i \in DOMAIN s.by_id : s.by_id[i] = defrag[v].by_id[i]
    <2>1. Evicted(AnyToken, defrag[v], StaleIds(Config[v], defrag[v], pid), s)
      BY <1>1, EntriesEvict
    <2> QED BY <2>1 DEF Evicted
  <1> HIDE DEF s
  <1>4. \A w \in Version : TableGood(AnyToken, defrag'[w])
    BY <1>2, <1>3 DEF Views
  <1>5. ASSUME NEW w \in Version, NEW i \in DOMAIN defrag'[w].by_id
        PROVE  i \in DOMAIN defrag[w].by_id /\ defrag'[w].by_id[i] = defrag[w].by_id[i]
    BY <1>2, <1>3, <1>5
  <1>6. ASSUME NEW w \in Version, NEW i \in DOMAIN defrag'[w].by_id PROVE Settles(w, i)'
    <2>1. Settles(w, i) /\ ~Busy(w, i) /\ defrag'[w].by_id[i] = defrag[w].by_id[i]
      BY <1>5, <1>6 DEF Views, Busy
    <2> QED BY <2>1, Zenon DEF Settles, Untracked
  <1>7. ~tracking' => \A w \in Version : \A i \in DOMAIN defrag'[w].by_id :
                        Untracked(defrag'[w].by_id[i])
    BY <1>1, <1>5 DEF Views
  <1>8. Frame'
    BY <1>1, Zenon DEF Views, Frame, Sweep
  <1> QED BY <1>1, <1>4, <1>6, <1>7, <1>8, Zenon DEF Views

\* Every step of feed_epb keeps what the session shows.
LEMMA ViewsNext ==
  ASSUME TableContract, Views, [Next]_vars
  PROVE  Views'
  <1>1. ASSUME NEW t \in AnyToken, FeedMalformed(t) PROVE Views'
    <2>1. /\ UNCHANGED defrag /\ (tracking => tracking') /\ pc = "idle" /\ pc' = "idle"
          /\ pinned' = FALSE
      BY <1>1, Zenon DEF FeedMalformed
    <2>2. Frame'
      BY <1>1, <2>1 DEF Views, Frame, FeedMalformed
    <2> QED BY <2>1, <2>2, ViewsQuiet DEF Busy, InCall
  <1>2. ASSUME NEW t \in AnyToken, FeedEpb(t) PROVE Views'
    <2>1. /\ UNCHANGED defrag /\ (tracking => tracking') /\ pc = "idle" /\ pc' = "walk"
          /\ token' = t /\ (t # kNoToken => tracking')
      BY <1>2, Zenon DEF FeedEpb
    <2>2. token' \in Token => tracking'
      BY <2>1, SessionAssumption
    <2>3. Frame'
      BY <1>2, <2>1 DEF Views, Frame, FeedEpb, None, Version
    <2> QED BY <2>1, <2>2, <2>3, ViewsQuiet DEF Busy
  <1>3. ASSUME NEW key \in Key, NEW f \in Fragments[4], OnIpv4(key, f) PROVE Views'
    BY <1>3, ViewsGive DEF OnIpv4, Version
  <1>4. ASSUME NEW key \in Key, NEW f \in Fragments[6], OnFragment(key, f) PROVE Views'
    BY <1>4, ViewsGive DEF OnFragment, Version
  <1>5. CASE WalkDone \/ Complete
    <2>1. /\ UNCHANGED <<defrag, pid, tracking, token, done>> /\ InCall
          /\ \/ pc \in {"walk", "chain"} /\ pc' = "evict4"
             \/ pc = "complete" /\ pc' = "retire"
      BY <1>5 DEF WalkDone, Complete, callVars, InCall
    <2>2. InCall' /\ token' \in Token => tracking'
      BY <2>1 DEF Views
    <2>3. Frame'
      BY <2>1 DEF Views, Frame
    <2> QED BY <2>1, <2>2, <2>3, ViewsQuiet DEF Busy
  <1>6. CASE Retire
    BY <1>6, ViewsRetire
  <1>7. CASE EvictIpv4 \/ EvictIpv6
    BY <1>7, ViewsSweep DEF EvictIpv4, EvictIpv6, Version
  <1>8. CASE Return
    <2>1. /\ UNCHANGED <<defrag, tracking, token>> /\ pc = "settle" /\ pc' = "idle"
          /\ pinned' => token' \in Token /\ pins'[token'] > 0
      BY <1>8, Zenon DEF Return, callVars
    <2>2. Frame'
      BY <1>8 DEF Views, Frame, Return, callVars
    <2> QED BY <2>1, <2>2, ViewsQuiet DEF Busy, InCall
  <1>9. CASE UNCHANGED vars
    <2>1. UNCHANGED <<defrag, pid, tracking, pc, token, done, pinned, pins>>
      BY <1>9 DEF vars, callVars, resultVars
    <2>2. InCall' /\ token' \in Token => tracking'
      BY <2>1 DEF Views, InCall
    <2>3. pc' = "idle" /\ pinned' => token' \in Token /\ pins'[token'] > 0
      BY <2>1 DEF Views
    <2>4. Frame'
      BY <2>1 DEF Views, Frame
    <2> QED BY <2>1, <2>2, <2>3, <2>4, ViewsQuiet DEF Busy
  <1> QED BY <1>1, <1>2, <1>3, <1>4, <1>5, <1>6, <1>7, <1>8, <1>9, Zenon DEF Next, AnyToken

-----------------------------------------------------------------------------
(* The datagram table *)

RowType == [version : Version, id : Nat, status : {0, 1, 3}]
Row(v, i, s) == [version |-> v, id |-> i, status |-> s]

\* The row (v, i, s) has been emitted.
Told(v, i, s) == \E n \in 1..Len(rows) : rows[n] = Row(v, i, s)

\* The datagram that is complete and has not got its row yet.
Awaited(v, i) == pc = "complete" /\ done.version = v /\ done.id = i

\* The rows datagram i of table v has.
Accounted(v, i) ==
  /\ ~(Told(v, i, 1) /\ Told(v, i, 3)) /\ ~(Told(v, i, 0) /\ Told(v, i, 1))
  /\ i \in DOMAIN defrag[v].by_id =>
       /\ ~Told(v, i, 1) /\ ~Told(v, i, 3)
       /\ Told(v, i, 0) <=> defrag[v].by_id[i].completed /\ ~Awaited(v, i)
  /\ i \notin DOMAIN defrag[v].by_id => Told(v, i, 0) \/ Told(v, i, 1) \/ Told(v, i, 3)

\* The rows are all different, and about ids that have been given out.
Listed ==
  /\ rows \in Seq(RowType)
  /\ \A m, n \in 1..Len(rows) : rows[m] = rows[n] => m = n
  /\ \A n \in 1..Len(rows) : rows[n].id \in 1..(defrag[rows[n].version].next_id - 1)

\* The invariant about the datagram table.
Reports ==
  /\ Listed
  /\ \A v \in Version : \A i \in 1..(defrag[v].next_id - 1) : Accounted(v, i)

\* What a step does to the rows of a datagram that is in no table after it.
Parted(v, i) ==
  i \notin DOMAIN defrag'[v].by_id =>
    \A s \in {0, 1, 3} :
      Told(v, i, s)' <=> IF i \in DOMAIN defrag[v].by_id
                         THEN Due(defrag[v].by_id[i], s) ELSE Told(v, i, s)

Partings == \A v \in Version : \A i \in 1..(defrag[v].next_id - 1) : Parted(v, i)

\* A table with rows S is the one before with new ones, each once.
Added(S) ==
  /\ rows' \in Seq(RowType)
  /\ \A m, n \in 1..Len(rows') : rows'[m] = rows'[n] => m = n
  /\ \A x : (\E n \in 1..Len(rows') : rows'[n] = x)
            <=> (\E n \in 1..Len(rows) : rows[n] = x) \/ x \in S

\* Nothing to add.
LEMMA AddedNone ==
  ASSUME Listed, UNCHANGED rows
  PROVE  Added({})
  BY DEF Listed, Added

\* Appending a list of new, different rows adds them.
LEMMA AddedList ==
  ASSUME Listed, NEW S \in SUBSET RowType, NEW list \in Seq(S),
         \A m, n \in 1..Len(list) : list[m] = list[n] => m = n,
         \A x \in S : \E n \in 1..Len(list) : list[n] = x,
         \A n \in 1..Len(rows) : rows[n] \notin S,
         rows' = rows \o list
  PROVE  Added(S)
  <1> DEFINE a == Len(rows)
             b == Len(list)
  <1>1. /\ a \in Nat /\ b \in Nat /\ rows \in Seq(RowType) /\ list \in Seq(RowType)
        /\ \A m, n \in 1..a : rows[m] = rows[n] => m = n
    BY DEF Listed
  <1>2. /\ rows' \in Seq(RowType) /\ Len(rows') = a + b
        /\ \A n \in 1..a : rows'[n] = rows[n]
        /\ \A n \in 1..b : rows'[a + n] = list[n]
    BY <1>1
  <1>3. \A n \in 1..b : list[n] \in S
    OBVIOUS
  <1> HIDE DEF a, b
  <1>4. \A n \in 1..(a + b) : n \in 1..a \/ \E k \in 1..b : n = a + k
    <2> SUFFICES ASSUME NEW n \in 1..(a + b), n \notin 1..a
                 PROVE  \E k \in 1..b : n = a + k
      OBVIOUS
    <2>1. n - a \in 1..b /\ n = a + (n - a)
      BY <1>1
    <2> QED BY <2>1
  <1>5. \A n \in 1..a : n \in 1..(a + b)
    BY <1>1
  <1>6. \A k \in 1..b : a + k \in 1..(a + b)
    BY <1>1
  <1>7. ASSUME NEW m \in 1..(a + b), NEW n \in 1..(a + b), rows'[m] = rows'[n]
        PROVE  m = n
    <2>1. CASE m \in 1..a /\ n \in 1..a
      BY <1>1, <1>2, <1>7, <2>1, ZenonT(40)
    <2>2. CASE m \in 1..a /\ n \notin 1..a
      <3>1. PICK k \in 1..b : n = a + k
        BY <1>4, <2>2
      <3>2. rows[m] = list[k]
        BY <1>2, <1>7, <2>2, <3>1, Zenon
      <3> QED BY <1>3, <2>2, <3>2, Zenon DEF a
    <2>3. CASE m \notin 1..a /\ n \in 1..a
      <3>1. PICK k \in 1..b : m = a + k
        BY <1>4, <2>3
      <3>2. rows[n] = list[k]
        BY <1>2, <1>7, <2>3, <3>1, Zenon
      <3> QED BY <1>3, <2>3, <3>2, Zenon DEF a
    <2>4. CASE m \notin 1..a /\ n \notin 1..a
      <3>1. PICK j \in 1..b : m = a + j
        BY <1>4, <2>4
      <3>2. PICK k \in 1..b : n = a + k
        BY <1>4, <2>4
      <3>3. list[j] = list[k]
        BY <1>2, <1>7, <3>1, <3>2, Zenon
      <3> QED BY <3>1, <3>2, <3>3 DEF b
    <2> QED BY <2>1, <2>2, <2>3, <2>4
  <1>8. ASSUME NEW x
        PROVE  (\E n \in 1..(a + b) : rows'[n] = x)
               <=> (\E n \in 1..a : rows[n] = x) \/ x \in S
    <2>1. ASSUME NEW n \in 1..(a + b), rows'[n] = x
          PROVE  (\E k \in 1..a : rows[k] = x) \/ x \in S
      <3>1. CASE n \in 1..a
        BY <1>2, <2>1, <3>1
      <3>2. CASE n \notin 1..a
        <4>1. PICK k \in 1..b : n = a + k
          BY <1>4, <3>2
        <4> QED BY <1>2, <1>3, <2>1, <4>1, Zenon
      <3> QED BY <3>1, <3>2
    <2>2. ASSUME NEW n \in 1..a, rows[n] = x PROVE \E k \in 1..(a + b) : rows'[k] = x
      BY <1>2, <1>5, <2>2, Zenon
    <2>3. ASSUME x \in S PROVE \E k \in 1..(a + b) : rows'[k] = x
      <3>1. PICK n \in 1..b : list[n] = x
        BY <2>3, Zenon DEF b
      <3> QED BY <1>2, <1>6, <3>1, Zenon
    <2> QED BY <2>1, <2>2, <2>3, Zenon
  <1> QED BY <1>2, <1>7, <1>8, ZenonT(40) DEF Added, a

\* Whatever order a sweep takes, it emits every row of its set, each once.
LEMMA SomeOrder ==
  ASSUME Listing, NEW S, IsFiniteSet(S), NEW list, list = InSomeOrder(S)
  PROVE  /\ list \in Seq(S)
         /\ \A m, n \in 1..Len(list) : list[m] = list[n] => m = n
         /\ \A x \in S : \E n \in 1..Len(list) : list[n] = x
  <1>1. Cardinality(S) \in Nat /\ Bijection(1..Cardinality(S), S) # {}
    BY DEF Listing
  <1>2. list \in Bijection(1..Cardinality(S), S)
    BY <1>1 DEF InSomeOrder
  <1>3. /\ list \in [1..Cardinality(S) -> S]
        /\ \A m, n \in DOMAIN list : list[m] = list[n] => m = n
        /\ \A x \in S : \E n \in 1..Cardinality(S) : list[n] = x
    BY <1>2, Zenon DEF Bijection, Injection, Surjection, IsInjective
  <1>4. list \in Seq(S) /\ Len(list) = Cardinality(S)
    BY <1>1, <1>3
  <1> QED BY <1>3, <1>4

\* What adding rows does to what has been told.
LEMMA ToldAdded ==
  ASSUME NEW S, Added(S), NEW v, NEW i, NEW s
  PROVE  Told(v, i, s)' <=> Told(v, i, s) \/ Row(v, i, s) \in S
  BY SMTT(30) DEF Added, Told, Row

\* A datagram that was told nothing new and did not leave just now.
LEMMA PartedQuiet ==
  ASSUME NEW v, NEW i, i \in DOMAIN defrag[v].by_id => i \in DOMAIN defrag'[v].by_id,
         \A s : Told(v, i, s)' <=> Told(v, i, s)
  PROVE  Parted(v, i)
  BY DEF Parted

\* The steps that leave both tables of datagrams alone.
LEMMA ReportsQuiet ==
  ASSUME Reports, UNCHANGED <<rows, defrag>>, pc # "complete", pc' # "complete"
  PROVE  Reports' /\ Partings
  <1>1. Listed'
    BY DEF Reports, Listed
  <1>2. ASSUME NEW v \in Version, NEW i \in 1..(defrag'[v].next_id - 1)
        PROVE  Accounted(v, i)'
    <2>1. Accounted(v, i)
      BY <1>2 DEF Reports
    <2> QED BY <2>1 DEF Accounted, Told, Awaited
  <1>3. Partings
    BY PartedQuiet DEF Partings, Told
  <1> QED BY <1>1, <1>2, <1>3 DEF Reports

\* A fragment opens a datagram, which has no row, or extends one that has none.
LEMMA ReportsGive ==
  ASSUME TableContract, Views, Reports, NEW v \in Version, NEW key, NEW f \in Fragments[v],
         pc \in {"walk", "chain"}, GiveFragment(v, key, f)
  PROVE  Reports' /\ Partings
  <1> DEFINE res == add_fragment(Config[v], defrag[v], key, pid, f.offset, f.more,
                                 f.data, token)
             t  == defrag[v]
             id == res.datagram_id
  <1>1. Answered(AnyToken, t, res)
    <2>1. f.offset \in Nat /\ f.more \in BOOLEAN /\ f.data \in Seq(Nat)
      BY SessionAssumption
    <2>2. pid \in Nat /\ token \in AnyToken /\ TableGood(AnyToken, t)
      BY DEF Views, Frame
    <2> QED BY <2>1, <2>2, EntriesAdd
  <1>2. /\ defrag' = [defrag EXCEPT ![v] = res.table] /\ UNCHANGED rows
        /\ res.completed => pc' = "complete" /\ done'.version = v /\ done'.id = id
        /\ ~res.completed => pc' # "complete"
    BY Zenon DEF GiveFragment
  <1> HIDE DEF res
  <1>3. defrag'[v] = res.table /\ \A w \in Version \ {v} : defrag'[w] = defrag[w]
    BY <1>2, Zenon DEF Views, Frame
  <1>4. t.next_id \in Nat /\ defrag'[v].next_id \in {t.next_id, t.next_id + 1}
    BY <1>1, <1>3, Zenon DEF Answered, Grown, Views, TableGood, TableOK
  <1>5. Listed'
    <2>1. ASSUME NEW n \in 1..Len(rows)
          PROVE  rows[n].id \in 1..(defrag'[rows[n].version].next_id - 1)
      <3> DEFINE w == rows[n].version
      <3>1. rows[n] \in RowType /\ rows[n].id \in 1..(defrag[w].next_id - 1)
        BY <2>1 DEF Reports, Listed
      <3>2. w \in Version
        BY <3>1 DEF RowType
      <3> HIDE DEF w
      <3>3. CASE w = v
        BY <1>3, <1>4, <3>1, <3>3 DEF w
      <3>4. CASE w # v
        BY <1>3, <3>1, <3>2, <3>4 DEF w
      <3> QED BY <3>3, <3>4, Zenon
    <2> QED BY <1>2, <2>1, Zenon DEF Reports, Listed
  <1>6. \A w, i, s : Told(w, i, s)' <=> Told(w, i, s)
    BY <1>2 DEF Told
  <1>7. ASSUME NEW w \in Version, NEW i \in 1..(defrag'[w].next_id - 1)
        PROVE  Accounted(w, i)'
    <2>1. CASE w = v /\ i = id /\ Grown(t, res.table, id)
      <3>1. /\ i \in DOMAIN defrag'[w].by_id
            /\ defrag'[w].by_id[i].completed <=> res.completed
        BY <1>1, <1>3, <2>1, Zenon DEF Answered, Grown
      <3>2. ~Told(w, i, 0) /\ ~Told(w, i, 1) /\ ~Told(w, i, 3)
        <4>1. CASE i \in DOMAIN t.by_id
          <5>1. i \in 1..(t.next_id - 1)
            BY <4>1, Zenon DEF Views, TableGood, TableOK
          <5> QED BY <2>1, <4>1, <5>1 DEF Reports, Accounted, Grown
        <4>2. CASE i \notin DOMAIN t.by_id
          <5>1. i = t.next_id
            BY <2>1, <4>2 DEF Grown
          <5>2. ASSUME NEW s, Told(w, i, s) PROVE FALSE
            <6>1. PICK n \in 1..Len(rows) : rows[n] = Row(w, i, s)
              BY <5>2 DEF Told
            <6>2. rows[n].id = i /\ rows[n].version = w
              BY <6>1 DEF Row
            <6> QED BY <1>4, <2>1, <5>1, <6>1, <6>2 DEF Reports, Listed
          <5> QED BY <5>2
        <4> QED BY <4>1, <4>2, SMTT(30)
      <3>3. res.completed => Awaited(w, i)'
        BY <1>2, <2>1, SMTT(30) DEF Awaited
      <3> QED BY <1>6, <3>1, <3>2, <3>3 DEF Accounted
    <2>2. CASE ~(w = v /\ i = id /\ Grown(t, res.table, id))
      <3>1. /\ i \in 1..(defrag[w].next_id - 1)
            /\ i \in DOMAIN defrag'[w].by_id <=> i \in DOMAIN defrag[w].by_id
            /\ i \in DOMAIN defrag[w].by_id => defrag'[w].by_id[i] = defrag[w].by_id[i]
        <4>1. CASE w # v
          BY <1>3, <1>7, <4>1
        <4>2. CASE w = v /\ res.table = t
          BY <1>3, <1>7, <4>2, SMTT(30)
        <4>3. CASE w = v /\ Grown(t, res.table, id)
          BY <1>3, <1>4, <1>7, <2>2, <4>3, SMTT(30) DEF Grown
        <4> QED BY <1>1, <4>1, <4>2, <4>3, Zenon DEF Answered
      <3>2. Accounted(w, i) /\ ~Awaited(w, i)
        BY <3>1 DEF Reports, Awaited
      <3>3. ~Awaited(w, i)'
        BY <1>1, <1>2, <2>2 DEF Awaited, Answered
      <3> QED BY <1>6, <3>1, <3>2, <3>3 DEF Accounted
    <2> QED BY <2>1, <2>2
  <1>8. Partings
    <2>1. ASSUME NEW w \in Version, NEW i, i \in DOMAIN defrag[w].by_id
          PROVE  i \in DOMAIN defrag'[w].by_id
      BY <1>1, <1>3, <2>1, SMTT(30) DEF Answered, Grown
    <2> QED BY <1>6, <2>1, PartedQuiet, Zenon DEF Partings
  <1> QED BY <1>5, <1>7, <1>8 DEF Reports

\* The row of a completed datagram is its first.
LEMMA ReportsComplete ==
  ASSUME Views, Reports, Complete
  PROVE  Reports' /\ Partings
  <1>0. PICK v \in Version : v = done.version
    BY DEF Views, Frame
  <1> DEFINE id == done.id
             new == Row(v, id, 0)
  <1>1. /\ pc = "complete" /\ pc' = "retire" /\ defrag' = defrag
        /\ rows' = Append(rows, new)
    BY <1>0 DEF Complete, Row
  <1>2. /\ id \in DOMAIN defrag[v].by_id /\ defrag[v].by_id[id].completed
        /\ id \in Nat /\ id \in 1..(defrag[v].next_id - 1) /\ Awaited(v, id)
    <2>1. id \in DOMAIN defrag[v].by_id /\ defrag[v].by_id[id].completed
      BY <1>0, <1>1, SMTT(30) DEF Views, Entry
    <2>2. id \in 1..(defrag[v].next_id - 1) /\ defrag[v].next_id \in Nat
      BY <2>1 DEF Views, TableGood, TableOK
    <2> QED BY <1>0, <1>1, <2>1, <2>2, SMTT(30) DEF Awaited
  <1>3. ~Told(v, id, 0) /\ ~Told(v, id, 1) /\ ~Told(v, id, 3)
    BY <1>2 DEF Reports, Accounted
  <1>4. new \in RowType
    BY <1>2 DEF Row, RowType
  <1>5. Added({new})
    <2> DEFINE list == <<new>>
    <2>1. list \in Seq({new}) /\ Len(list) = 1 /\ list[1] = new
      OBVIOUS
    <2>2. rows' = rows \o list
      BY <1>1, <1>4 DEF Reports, Listed
    <2>3. \A n \in 1..Len(rows) : rows[n] \notin {new}
      BY <1>3 DEF Told
    <2> HIDE DEF list, new
    <2>4. /\ \A m, n \in 1..Len(list) : list[m] = list[n] => m = n
          /\ \A x \in {new} : \E n \in 1..Len(list) : list[n] = x
      BY <2>1
    <2>5. {new} \in SUBSET RowType /\ Listed
      BY <1>4 DEF Reports
    <2> QED BY <2>1, <2>2, <2>3, <2>4, <2>5, AddedList, Zenon
  <1> HIDE DEF id
  <1>6. \A w, i, s : Told(w, i, s)' <=> Told(w, i, s) \/ Row(w, i, s) = new
    BY <1>5, ToldAdded
  <1>7. \A w, i, s : Row(w, i, s) = new <=> w = v /\ i = id /\ s = 0
    BY DEF Row
  <1> HIDE DEF new
  <1>8. Listed'
    <2>1. ASSUME NEW n \in 1..Len(rows')
          PROVE  rows'[n].id \in 1..(defrag'[rows'[n].version].next_id - 1)
      <3>1. CASE rows'[n] = new
        BY <1>1, <1>2, <3>1 DEF new, Row
      <3>2. CASE rows'[n] # new
        <4>1. PICK m \in 1..Len(rows) : rows[m] = rows'[n]
          BY <1>5, <2>1, <3>2, Zenon DEF Added
        <4>2. rows[m].id \in 1..(defrag[rows[m].version].next_id - 1)
          BY <4>1 DEF Reports, Listed
        <4> QED BY <1>1, <4>1, <4>2
      <3> QED BY <3>1, <3>2
    <2> QED BY <1>5, <2>1 DEF Added, Listed
  <1>9. ASSUME NEW w \in Version, NEW i \in 1..(defrag'[w].next_id - 1)
        PROVE  Accounted(w, i)'
    <2>1. Accounted(w, i) /\ ~Awaited(w, i)'
      BY <1>1, <1>9, SMTT(30) DEF Reports, Awaited
    <2>2. CASE w = v /\ i = id
      BY <1>1, <1>2, <1>3, <1>6, <1>7, <2>1, <2>2, SMTT(30) DEF Accounted
    <2>3. CASE ~(w = v /\ i = id)
      <3>1. ~Awaited(w, i)
        BY <1>0, <2>3 DEF Awaited, id
      <3> QED BY <1>1, <1>6, <1>7, <2>1, <2>3, <3>1 DEF Accounted
    <2> QED BY <2>2, <2>3
  <1>10. Partings
    <2>1. ASSUME NEW w \in Version, NEW i PROVE Parted(w, i)
      <3>1. CASE w = v /\ i = id
        BY <1>1, <1>2, <3>1 DEF Parted
      <3>2. CASE ~(w = v /\ i = id)
        BY <1>1, <1>6, <1>7, <3>2, PartedQuiet
      <3> QED BY <3>1, <3>2
    <2> QED BY <2>1 DEF Partings
  <1> QED BY <1>8, <1>9, <1>10 DEF Reports

\* Retiring changes no row, and which entries there are or are complete.
LEMMA ReportsRetire ==
  ASSUME TableContract, Views, Reports, Retire
  PROVE  Reports' /\ Partings
  <1>0. PICK v \in Version : v = done.version
    BY DEF Views, Frame
  <1> DEFINE t == defrag[v]
             id == done.id
  <1>1. /\ DOMAIN defrag = Version /\ pc = "retire" /\ pc' # "complete"
        /\ TableGood(AnyToken, t) /\ Retirable(t, id) /\ UNCHANGED rows
    <2>1. pc = "retire" /\ UNCHANGED rows
      BY DEF Retire
    <2>2. DOMAIN defrag = Version /\ pc' # "complete"
      BY SMTT(30) DEF Views, Frame, Retire
    <2>3. TableGood(AnyToken, t) /\ Retirable(t, id)
      BY <1>0, <2>1 DEF Views, Entry, Retirable
    <2> QED BY <2>1, <2>2, <2>3
  <1>2. CASE ~tracking
    BY <1>1, <1>2, ReportsQuiet DEF Retire
  <1>3. CASE tracking
    <2> DEFINE s == retire(t, id)
    <2>1. defrag'[v] = s /\ \A w \in Version \ {v} : defrag'[w] = defrag[w]
      BY <1>0, <1>1, <1>3, SMTT(30) DEF Retire
    <2>2. /\ s.next_id = t.next_id /\ DOMAIN s.by_id = DOMAIN t.by_id
          /\ \A i \in DOMAIN t.by_id \ {id} : s.by_id[i] = t.by_id[i]
          /\ s.by_id[id].completed
      <3>1. Emptied(AnyToken, t, id, s)
        BY <1>1, EntriesRetire
      <3> QED BY <3>1 DEF Emptied
    <2>3. t.by_id[id].completed
      BY <1>1 DEF Retirable
    <2> HIDE DEF s
    <2>4. ASSUME NEW w \in Version
          PROVE  /\ defrag'[w].next_id = defrag[w].next_id
                 /\ DOMAIN defrag'[w].by_id = DOMAIN defrag[w].by_id
                 /\ \A i \in DOMAIN defrag[w].by_id :
                      defrag'[w].by_id[i].completed <=> defrag[w].by_id[i].completed
      <3>1. CASE w = v
        BY <2>1, <2>2, <2>3, <3>1
      <3>2. CASE w # v
        BY <2>1, <3>2
      <3> QED BY <3>1, <3>2
    <2>5. Listed'
      <3>1. ASSUME NEW n \in 1..Len(rows)
            PROVE  rows[n].id \in 1..(defrag'[rows[n].version].next_id - 1)
        <4>1. rows[n] \in RowType /\ rows[n].id \in 1..(defrag[rows[n].version].next_id - 1)
          BY <3>1 DEF Reports, Listed
        <4>2. rows[n].version \in Version
          BY <4>1, SMTT(30) DEF RowType
        <4> QED BY <2>4, <4>1, <4>2
      <3> QED BY <1>1, <3>1 DEF Reports, Listed
    <2>6. ASSUME NEW w \in Version, NEW i \in 1..(defrag'[w].next_id - 1)
          PROVE  Accounted(w, i)'
      <3>1. Accounted(w, i) /\ ~Awaited(w, i) /\ ~Awaited(w, i)'
        BY <1>1, <2>4, <2>6 DEF Reports, Awaited
      <3>2. \A k : Told(w, i, k)' <=> Told(w, i, k)
        BY <1>1 DEF Told
      <3> QED BY <2>4, <3>1, <3>2 DEF Accounted
    <2>7. Partings
      <3>1. \A w, i, k : Told(w, i, k)' <=> Told(w, i, k)
        BY <1>1 DEF Told
      <3> QED BY <2>4, <3>1, PartedQuiet DEF Partings
    <2> QED BY <2>5, <2>6, <2>7 DEF Reports
  <1> QED BY <1>2, <1>3

\* What a sweep emits: for each stale entry that is open or in conflict, its
\* row; finitely many.
LEMMA SweepEmits ==
  ASSUME Listing, Views, NEW v \in Version
  PROVE  /\ IsFiniteSet(SweepRows(v)) /\ SweepRows(v) \in SUBSET RowType
         /\ \A w, i, s : Row(w, i, s) \in SweepRows(v) <=>
              /\ w = v /\ i \in StaleIds(Config[v], defrag[v], pid)
              /\ s = CompletionStatus(defrag[v].by_id[i]) /\ s # 0
         /\ \A x \in SweepRows(v) : \E w, i, s : x = Row(w, i, s)
  <1> DEFINE stale == StaleIds(Config[v], defrag[v], pid)
             status(i) == CompletionStatus(defrag[v].by_id[i])
             told == {i \in stale : status(i) # 0}
             S == {Row(v, i, status(i)) : i \in told}
  <1>1. SweepRows(v) = S
    <2>1. ASSUME NEW i PROVE /\ Summary(i, defrag[v].by_id[i]).datagram_id = i
                             /\ Summary(i, defrag[v].by_id[i]).completion_status = status(i)
      BY DEF Summary
    <2>2. ASSUME NEW x \in SweepRows(v) PROVE x \in S
      <3>1. PICK s \in Summaries(Config[v], defrag[v], pid) :
              s.completion_status # 0 /\ x = Row(v, s.datagram_id, s.completion_status)
        BY <2>2 DEF SweepRows, Row
      <3>2. PICK i \in stale : s = Summary(i, defrag[v].by_id[i])
        BY <3>1 DEF Summaries
      <3> QED BY <2>1, <3>1, <3>2
    <2>3. ASSUME NEW x \in S PROVE x \in SweepRows(v)
      <3>1. PICK i \in stale : status(i) # 0 /\ x = Row(v, i, status(i))
        BY <2>3
      <3> DEFINE s == Summary(i, defrag[v].by_id[i])
      <3>2. s \in Summaries(Config[v], defrag[v], pid)
        BY <3>1 DEF Summaries
      <3>3. s.completion_status # 0 /\ x = Row(v, s.datagram_id, s.completion_status)
        BY <2>1, <3>1
      <3> HIDE DEF s
      <3> QED BY <3>2, <3>3 DEF SweepRows, Row
    <2> QED BY <2>2, <2>3
  <1>2. stale \subseteq 1..(defrag[v].next_id - 1) /\ defrag[v].next_id \in Nat \ {0}
    BY Zenon DEF StaleIds, Views, TableGood, TableOK
  <1>3. \A i : status(i) \in {0, 1, 3}
    BY DEF CompletionStatus
  <1> HIDE DEF stale, status
  <1>5. IsFiniteSet(S)
    <2> DEFINE n == defrag[v].next_id - 1
               f == [i \in told |-> Row(v, i, status(i))]
    <2>1. n \in Nat /\ told \in SUBSET (1..n)
      <3>1. told \subseteq stale
        BY Zenon
      <3> HIDE DEF told
      <3> QED BY <1>2, <3>1
    <2>2. S = {f[i] : i \in told}
      OBVIOUS
    <2> HIDE DEF told, S, n, f
    <2> QED BY <2>1, <2>2, Zenon DEF Listing
  <1>6. S \in SUBSET RowType
    <2>1. ASSUME NEW i \in told PROVE Row(v, i, status(i)) \in RowType
      <3>1. i \in stale
        BY <2>1, Zenon
      <3>2. i \in Nat
        BY <1>2, <3>1
      <3>3. status(i) \in {0, 1, 3}
        BY <1>3, Zenon
      <3> QED BY <3>2, <3>3, Zenon DEF Row, RowType
    <2> QED BY <2>1, Zenon
  <1>7. ASSUME NEW w, NEW i, NEW s
        PROVE  Row(w, i, s) \in S <=> w = v /\ i \in stale /\ s = status(i) /\ s # 0
    <2>1. \A j : Row(w, i, s) = Row(v, j, status(j)) <=> w = v /\ i = j /\ s = status(j)
      BY DEF Row
    <2> QED BY <2>1
  <1>8. \A x \in S : \E w, i, s : x = Row(w, i, s)
    OBVIOUS
  <1> HIDE DEF S
  <1> QED BY <1>1, <1>5, <1>6, <1>7, <1>8 DEF stale, status

\* A sweep gives every datagram it takes the row it lacks.
LEMMA ReportsSweep ==
  ASSUME Listing, TableContract, Views, Reports, NEW v \in Version, Sweep(v),
         pc \in {"evict4", "evict6"}, pc' \in {"evict6", "settle"}
  PROVE  Reports' /\ Partings
  <1> DEFINE t == defrag[v]
             s == evict_stale(Config[v], t, pid)
             stale == StaleIds(Config[v], t, pid)
             S == SweepRows(v)
             status(i) == CompletionStatus(t.by_id[i])
  <1>1. /\ DOMAIN defrag = Version /\ TableGood(AnyToken, t)
        /\ defrag' = [defrag EXCEPT ![v] = s] /\ rows' = rows \o InSomeOrder(S)
        /\ stale \subseteq DOMAIN t.by_id
    BY Zenon DEF Views, Frame, Sweep, StaleIds
  <1>2. defrag'[v] = s /\ \A w \in Version \ {v} : defrag'[w] = defrag[w]
    BY <1>1, SMTT(30)
  <1>3. /\ s.next_id = t.next_id /\ DOMAIN s.by_id = DOMAIN t.by_id \ stale
        /\ \A i \in DOMAIN s.by_id : s.by_id[i] = t.by_id[i]
    <2>1. Evicted(AnyToken, t, stale, s)
      BY <1>1, EntriesEvict, SMTT(30)
    <2> QED BY <2>1 DEF Evicted
  <1>4. /\ IsFiniteSet(S) /\ S \in SUBSET RowType
        /\ \A w, i, k : Row(w, i, k) \in S <=>
             w = v /\ i \in stale /\ k = status(i) /\ k # 0
        /\ \A x \in S : \E w, i, k : x = Row(w, i, k)
    BY SweepEmits
  <1>5. ASSUME NEW w, NEW i PROVE ~Awaited(w, i) /\ ~Awaited(w, i)'
    BY DEF Awaited
  <1>6. ASSUME NEW i \in stale
        PROVE  /\ i \in 1..(t.next_id - 1) /\ ~Told(v, i, 1) /\ ~Told(v, i, 3)
               /\ Told(v, i, 0) <=> t.by_id[i].completed
               /\ status(i) \in {0, 1, 3}
               /\ status(i) = 0 => t.by_id[i].completed
               /\ status(i) = 1 => ~t.by_id[i].completed
               /\ status(i) = 3 <=> Due(t.by_id[i], 3)
               /\ status(i) = 1 <=> Due(t.by_id[i], 1)
               /\ t.by_id[i].completed <=> Due(t.by_id[i], 0)
    <2>1. i \in DOMAIN t.by_id /\ i \in 1..(t.next_id - 1)
      BY <1>1, <1>6, Zenon DEF TableGood, TableOK
    <2>2. Accounted(v, i)
      BY <2>1 DEF Reports
    <2>3. /\ status(i) \in {0, 1, 3}
          /\ status(i) = 0 => t.by_id[i].completed
          /\ status(i) = 1 => ~t.by_id[i].completed
          /\ status(i) = 3 <=> Due(t.by_id[i], 3)
          /\ status(i) = 1 <=> Due(t.by_id[i], 1)
          /\ t.by_id[i].completed <=> Due(t.by_id[i], 0)
      BY DEF CompletionStatus, Due
    <2> QED BY <1>5, <2>1, <2>2, <2>3, Zenon DEF Accounted
  <1> HIDE DEF s, S, stale, status
  <1>7. Added(S)
    <2>1. ASSUME NEW n \in 1..Len(rows), rows[n] \in S PROVE FALSE
      <3>1. PICK w, i, k : rows[n] = Row(w, i, k)
        BY <1>4, <2>1
      <3>2. w = v /\ i \in stale /\ k = status(i) /\ k # 0 /\ Told(w, i, k)
        BY <1>4, <2>1, <3>1 DEF Told
      <3> QED BY <1>6, <3>2
    <2> DEFINE list == InSomeOrder(S)
    <2>2. /\ list \in Seq(S)
          /\ \A m, n \in 1..Len(list) : list[m] = list[n] => m = n
          /\ \A x \in S : \E n \in 1..Len(list) : list[n] = x
      BY <1>4, SomeOrder
    <2>3. rows' = rows \o list /\ Listed
      BY <1>1 DEF Reports
    <2> HIDE DEF list
    <2> QED BY <1>4, <2>1, <2>2, <2>3, AddedList, Zenon
  <1>8. \A w, i, k : Told(w, i, k)' <=> Told(w, i, k) \/ Row(w, i, k) \in S
    BY <1>7, ToldAdded
  <1>9. \A w \in Version : defrag'[w].next_id = defrag[w].next_id
    BY <1>2, <1>3
  <1>10. Listed'
    <2>1. ASSUME NEW n \in 1..Len(rows')
          PROVE  rows'[n].id \in 1..(defrag'[rows'[n].version].next_id - 1)
      <3>1. CASE rows'[n] \in S
        <4>1. PICK w, i, k : rows'[n] = Row(w, i, k)
          BY <1>4, <3>1
        <4>2. w = v /\ i \in stale /\ rows'[n].id = i /\ rows'[n].version = w
          BY <1>4, <3>1, <4>1 DEF Row
        <4> QED BY <1>6, <1>9, <4>2
      <3>2. CASE rows'[n] \notin S
        <4>1. PICK m \in 1..Len(rows) : rows[m] = rows'[n]
          BY <1>7, <2>1, <3>2 DEF Added
        <4>2. rows[m] \in RowType /\ rows[m].id \in 1..(defrag[rows[m].version].next_id - 1)
          BY <4>1 DEF Reports, Listed
        <4>3. rows[m].version \in Version
          BY <4>2 DEF RowType
        <4> QED BY <1>9, <4>1, <4>2, <4>3
      <3> QED BY <3>1, <3>2
    <2> QED BY <1>7, <2>1 DEF Added, Listed
  <1>11. ASSUME NEW w \in Version, NEW i \in 1..(defrag'[w].next_id - 1)
         PROVE  Accounted(w, i)'
    <2>1. Accounted(w, i)
      BY <1>9, <1>11, SMTT(30) DEF Reports
    <2>2. CASE w = v /\ i \in stale
      <3>1. i \notin DOMAIN defrag'[w].by_id
        BY <1>2, <1>3, <2>2
      <3>2. \A k : Told(w, i, k)' <=> Told(w, i, k) \/ (k = status(i) /\ k # 0)
        BY <1>4, <1>8, <2>2, SMTT(30)
      <3> QED BY <1>6, <2>1, <2>2, <3>1, <3>2 DEF Accounted
    <2>3. CASE ~(w = v /\ i \in stale)
      <3>1. \A k : Told(w, i, k)' <=> Told(w, i, k)
        BY <1>4, <1>8, <2>3
      <3>2. /\ i \in DOMAIN defrag'[w].by_id <=> i \in DOMAIN defrag[w].by_id
            /\ i \in DOMAIN defrag[w].by_id => defrag'[w].by_id[i] = defrag[w].by_id[i]
        BY <1>2, <1>3, <2>3
      <3> QED BY <1>5, <2>1, <3>1, <3>2, SMTT(30) DEF Accounted
    <2> QED BY <2>2, <2>3
  <1>12. Partings
    <2>1. ASSUME NEW w \in Version, NEW i PROVE Parted(w, i)
      <3>1. CASE w = v /\ i \in stale
        <4>1. \A k : Told(w, i, k)' <=> Told(w, i, k) \/ (k = status(i) /\ k # 0)
          BY <1>4, <1>8, <3>1, SMTT(30)
        <4>2. i \in DOMAIN defrag[w].by_id /\ defrag[w].by_id[i] = t.by_id[i]
          BY <1>1, <3>1
        <4>3. ASSUME NEW k \in {0, 1, 3} PROVE Told(w, i, k)' <=> Due(t.by_id[i], k)
          BY <1>6, <3>1, <4>1, <4>3
        <4> QED BY <4>2, <4>3 DEF Parted
      <3>2. CASE ~(w = v /\ i \in stale)
        <4>1. \A k : Told(w, i, k)' <=> Told(w, i, k)
          BY <1>4, <1>8, <3>2
        <4>2. i \in DOMAIN defrag'[w].by_id <=> i \in DOMAIN defrag[w].by_id
          BY <1>2, <1>3, <3>2
        <4> QED BY <4>1, <4>2, PartedQuiet, Zenon
      <3> QED BY <3>1, <3>2
    <2> QED BY <2>1 DEF Partings
  <1> QED BY <1>10, <1>11, <1>12 DEF Reports

\* Nothing to report at first.
LEMMA ReportsInit == Init => Reports
  <1> SUFFICES ASSUME Init PROVE Reports
    OBVIOUS
  <1>1. rows = <<>> /\ \A v \in Version : defrag[v].next_id = 1
    BY SMTT(30) DEF Init, EmptyTable
  <1>2. Listed
    BY <1>1 DEF Listed
  <1> QED BY <1>1, <1>2 DEF Reports

\* Every step of feed_epb keeps the account.
LEMMA ReportsNext ==
  ASSUME Listing, TableContract, Views, Reports, [Next]_vars
  PROVE  Reports' /\ Partings
  <1>1. ASSUME NEW t \in AnyToken, FeedMalformed(t) \/ FeedEpb(t) PROVE Reports' /\ Partings
    BY <1>1, ReportsQuiet DEF FeedMalformed, FeedEpb
  <1>2. ASSUME NEW key \in Key, NEW f \in Fragments[4], OnIpv4(key, f) PROVE Reports' /\ Partings
    BY <1>2, ReportsGive DEF OnIpv4, Version
  <1>3. ASSUME NEW key \in Key, NEW f \in Fragments[6], OnFragment(key, f) PROVE Reports' /\ Partings
    BY <1>3, ReportsGive, SMTT(30) DEF OnFragment, Version
  <1>4. CASE WalkDone \/ Return
    BY <1>4, ReportsQuiet DEF WalkDone, Return
  <1>5. CASE Complete
    BY <1>5, ReportsComplete
  <1>6. CASE Retire
    BY <1>6, ReportsRetire
  <1>7. CASE EvictIpv4 \/ EvictIpv6
    BY <1>7, ReportsSweep DEF EvictIpv4, EvictIpv6, Version
  <1>8. CASE UNCHANGED vars
    <2>1. UNCHANGED <<rows, defrag, pc, done>>
      BY <1>8 DEF vars, callVars
    <2>2. Listed'
      BY <2>1, SMTT(30) DEF Reports, Listed
    <2>3. ASSUME NEW v \in Version, NEW i \in 1..(defrag'[v].next_id - 1)
          PROVE  Accounted(v, i)'
      <3>1. Accounted(v, i)
        BY <2>1, <2>3 DEF Reports
      <3> QED BY <2>1, <3>1 DEF Accounted, Told, Awaited
    <2>4. Partings
      BY <2>1, PartedQuiet DEF Partings, Told
    <2> QED BY <2>2, <2>3, <2>4 DEF Reports
  <1> QED BY <1>1, <1>2, <1>3, <1>4, <1>5, <1>6, <1>7, <1>8, Zenon DEF Next, AnyToken

-----------------------------------------------------------------------------
(* What the session answers *)

\* What a call hands out or reports is so.  Every view into a buffer lies in
\* one the session has, since its entry still holds a span into it; dispatch
\* (complete_datagram) sees a whole datagram that is not retired yet; and a
\* buffer feed_epb calls pinned carries a span of an unfinished datagram, since
\* a completed one gives up its tracked spans within the call.
LEMMA AnswersFollow ==
  ASSUME Views, NoDanglingSpan, PinsAreExact, Cardinality({}) = 0
  PROVE  AnswersAreTrue
  <1>1. ASSUME NEW v \in Version, NEW i \in DOMAIN defrag[v].by_id
        PROVE  /\ EntryGood(AnyToken, defrag[v].by_id[i])
               /\ DOMAIN defrag[v].by_id[i].fragments = 1..Len(defrag[v].by_id[i].fragments)
               /\ DOMAIN defrag[v].by_id[i].parts = 1..Len(defrag[v].by_id[i].parts)
    <2>1. EntryGood(AnyToken, defrag[v].by_id[i])
      BY <1>1, Zenon DEF Views, TableGood
    <2> QED BY <2>1, SMTT(30) DEF EntryGood, EntryType
  <1>2. ASSUME NEW v \in Version, NEW i \in DOMAIN defrag[v].by_id,
               NEW n \in DOMAIN defrag[v].by_id[i].parts,
               defrag[v].by_id[i].parts[n].token \in Token
        PROVE  defrag[v].by_id[i].parts[n].token \in held
    <2> DEFINE u == defrag[v].by_id[i].parts[n].token
    <2>1. PICK m \in 1..Len(defrag[v].by_id[i].fragments) :
            defrag[v].by_id[i].fragments[m].token = u
      <3> DEFINE r == defrag[v].by_id[i]
      <3>1. Shown(r) /\ n \in 1..Len(r.parts)
        BY <1>1, <1>2 DEF EntryGood
      <3> HIDE DEF r
      <3>2. r.parts[n].token \in Tokens(r.fragments)
        BY <3>1, Zenon DEF Shown
      <3> QED BY <3>2, Zenon DEF Tokens, r
    <2>2. <<i, m>> \in TableSpans(v, u)
      <3>1. m \in DOMAIN defrag[v].by_id[i].fragments
        BY <1>1
      <3> HIDE DEF u
      <3> QED BY ONLY <1>2, <2>1, <3>1 DEF TableSpans, SpansOf
    <2> QED BY <1>2, <2>2 DEF NoDanglingSpan
  <1>3. NoDanglingView
    BY <1>2 DEF NoDanglingView, Viewed
  <1>4. DispatchSeesDatagram
    <2> SUFFICES ASSUME pc = "complete" PROVE DispatchSeesDatagram
      BY SMTT(30) DEF DispatchSeesDatagram
    <2> DEFINE v == done.version
               i == done.id
    <2>1. /\ v \in Version /\ i \in DOMAIN defrag[v].by_id
          /\ Entry(done) = defrag[v].by_id[i]
      BY DEF Views, Frame, Entry
    <2> HIDE DEF v, i
    <2>2. Entry(done).completed /\ ~Entry(done).retired
      BY SMTT(30) DEF Views
    <2>3. Len(Bytes(Entry(done).parts)) = Entry(done).total_length
      BY <1>1, <2>1, <2>2, SMTT(30) DEF EntryGood, Shown
    <2>4. ASSUME NEW n \in DOMAIN Entry(done).parts
          PROVE  Entry(done).parts[n].token \in held \cup {kNoToken}
      <3>1. Entry(done).parts[n] \in PartType(AnyToken)
        BY <1>1, <2>1, <2>4 DEF EntryGood, EntryType
      <3>2. Entry(done).parts[n].token \in AnyToken
        BY <3>1 DEF PartType
      <3> QED BY <1>2, <2>1, <2>4, <3>2, SMTT(30) DEF AnyToken
    <2> QED BY <2>1, <2>2, <2>3, <2>4, Zenon DEF DispatchSeesDatagram, v, i
  <1>5. PinnedIsJustified
    <2> SUFFICES ASSUME pc = "idle", pinned PROVE PinnedIsJustified
      BY DEF PinnedIsJustified
    <2>1. token \in Token /\ pins[token] > 0
      BY DEF Views
    <2>2. SpanCount(token) > 0
      BY <2>1 DEF PinsAreExact
    <2>3. PICK v \in Version : TableSpans(v, token) # {}
      <3>1. CASE TableSpans(4, token) = {} /\ TableSpans(6, token) = {}
        BY <2>2, <3>1 DEF SpanCount
      <3> QED BY <3>1 DEF Version
    <2>4. PICK i \in DOMAIN defrag[v].by_id :
            \E n \in DOMAIN defrag[v].by_id[i].fragments :
              defrag[v].by_id[i].fragments[n].token = token
      BY <2>3, SMTT(30) DEF TableSpans, SpansOf
    <2>5. ~Busy(v, i) /\ ~Untracked(defrag[v].by_id[i])
      BY <1>1, <2>1, <2>4, SMTT(30) DEF Busy, Untracked
    <2>6. ~defrag[v].by_id[i].completed
      BY <2>4, <2>5 DEF Views, Settles
    <2> QED BY <2>4, <2>6 DEF PinnedIsJustified
  <1> QED BY <1>3, <1>4, <1>5 DEF AnswersAreTrue
=============================================================================
