---------------------------- MODULE ArrowProofs ----------------------------
(***************************************************************************)
(* Safety of StreamingArrow for any number of tables, readers, rows and    *)
(* blocks, any queue bound and any chunk size: the streams are prefixes of *)
(* their tables, no wake-up is lost, a clean end is a complete table, and  *)
(* each table's stream implements TableStream.                             *)
(***************************************************************************)
EXTENDS ArrowSteps, FiniteSetTheorems

-----------------------------------------------------------------------------
(* The decode thread's steps on the shared data *)

\* There are finitely many readers, so they can be counted.
LEMMA ReadersAreCounted == ReadersCount
  <1> SUFFICES ASSUME NEW S \in SUBSET Reader, NEW T \in SUBSET Reader
               PROVE  /\ Cardinality(S) \in Nat
                      /\ S \subseteq T => Cardinality(S) <= Cardinality(T)
                      /\ \A r \in Reader \ S : Cardinality(S \cup {r}) = Cardinality(S) + 1
                      /\ \A r \in S : Cardinality(S \ {r}) = Cardinality(S) - 1
    BY DEF ReadersCount
  <1>1. IsFiniteSet(S) /\ IsFiniteSet(T)
    BY ArrowAssumption, FS_Subset
  <1> QED BY <1>1, FS_CardinalityType, FS_Subset, FS_AddElement, FS_RemoveElement

\* A row changes no sealed chunk.
LEMMA PushKeepsSealed ==
  ASSUME NEW s, {"sealed", "open"} \subseteq DOMAIN s,
         s.sealed \in Seq({ChunkRows}), s.open \in 0..(ChunkRows - 1)
  PROVE  /\ {"sealed", "open"} \subseteq DOMAIN push(s)
         /\ push(s).sealed \in Seq({ChunkRows})
         /\ push(s).open \in 0..(ChunkRows - 1)
         /\ Len(s.sealed) <= Len(push(s).sealed)
         /\ \A i \in 1..Len(s.sealed) : push(s).sealed[i] = s.sealed[i]
  <1> DEFINE g == [s EXCEPT !.open = s.open + 1]
  <1> USE ChunkAssumption
  <1>1. /\ {"sealed", "open"} \subseteq DOMAIN g
        /\ g.sealed = s.sealed /\ g.open = s.open + 1
    OBVIOUS
  <1>2. push(s) = IF g.open = ChunkRows THEN seal(g) ELSE g
    BY DEF push
  <1> HIDE DEF g
  <1>3. CASE g.open = ChunkRows
    <2>1. push(s) = [sealed |-> Append(g.sealed, g.open), open |-> 0]
      BY <1>2, <1>3 DEF seal
    <2>2. /\ {"sealed", "open"} \subseteq DOMAIN push(s)
          /\ push(s).sealed = Append(s.sealed, ChunkRows) /\ push(s).open = 0
      BY <1>1, <1>3, <2>1
    <2>3. /\ Append(s.sealed, ChunkRows) \in Seq({ChunkRows})
          /\ Len(s.sealed) <= Len(Append(s.sealed, ChunkRows))
          /\ \A i \in 1..Len(s.sealed) : Append(s.sealed, ChunkRows)[i] = s.sealed[i]
      OBVIOUS
    <2> QED BY <2>2, <2>3
  <1>4. CASE g.open # ChunkRows
    <2>1. push(s) = g
      BY <1>2, <1>4
    <2>2. g.open \in 0..(ChunkRows - 1)
      BY <1>1, <1>4
    <2>3. Len(s.sealed) \in Nat
      OBVIOUS
    <2> QED BY <1>1, <2>1, <2>2, <2>3
  <1> QED BY <1>3, <1>4

\* A row goes into a table.
LEMMA FeedRowInv ==
  ASSUME ArrowInv, NEW u \in Table, FeedRow(u)
  PROVE  ArrowInv'
  <1> USE ArrowAssumption, ChunkAssumption DEF ArrowInv
  <1>1. /\ pc = "feed" /\ soa' = [soa EXCEPT ![u] = push(soa[u])]
        /\ UNCHANGED <<pc, table, final_flush, ok, cancelled, blocks,
                       last_delivered, queue, ownerVars, readerVars>>
    BY DEF FeedRow
  <1>2. /\ {"sealed", "open"} \subseteq DOMAIN soa[u]
        /\ soa[u].sealed \in Seq({ChunkRows}) /\ soa[u].open \in 0..(ChunkRows - 1)
    BY SMTT(30) DEF Shapes
  <1>3. PICK p : p = push(soa[u])
    OBVIOUS
  <1>4. /\ {"sealed", "open"} \subseteq DOMAIN p
        /\ p.sealed \in Seq({ChunkRows}) /\ p.open \in 0..(ChunkRows - 1)
        /\ Len(soa[u].sealed) <= Len(p.sealed)
        /\ \A i \in 1..Len(soa[u].sealed) : p.sealed[i] = soa[u].sealed[i]
    BY <1>2, <1>3, PushKeepsSealed, Zenon
  <1>5. /\ DOMAIN soa' = Table /\ soa'[u] = p
        /\ \A t \in Table : t # u => soa'[t] = soa[t]
    BY <1>1, <1>3 DEF Shapes
  <1>55. \A t \in Table : /\ {"sealed", "open"} \subseteq DOMAIN soa'[t]
                          /\ soa'[t].sealed \in Seq({ChunkRows})
                          /\ soa'[t].open \in 0..(ChunkRows - 1)
    BY <1>4, <1>5, Zenon DEF Shapes
  <1>6. Shapes'
    BY <1>1, <1>5, <1>55, Zenon DEF Shapes, ownerVars, readerVars
  <1>7. \A t \in Table : /\ Stream(t)' = Stream(t) /\ Pending(t)' = Pending(t)
                         /\ RunningOn(t)' = RunningOn(t)
                         /\ Over(t)' <=> Over(t)
    BY <1>1 DEF Stream, Pending, RunningOn, Running, Blocked, Over, readerVars
  <1>8. ~final_flush /\ ok
    BY <1>1 DEF Control
  <1>9. \A t \in Table : /\ Len(soa[t].sealed) \in Nat /\ Len(soa'[t].sealed) \in Nat
                         /\ Len(soa[t].sealed) <= Len(soa'[t].sealed)
                         /\ \A i \in 1..Len(soa[t].sealed) :
                              soa'[t].sealed[i] = soa[t].sealed[i]
    <2>1. ASSUME NEW t \in Table
          PROVE  Len(soa[t].sealed) \in Nat /\ Len(soa'[t].sealed) \in Nat
      <3>1. soa[t].sealed \in Seq({ChunkRows}) /\ soa'[t].sealed \in Seq({ChunkRows})
        BY <1>55, Zenon DEF Shapes
      <3> QED BY <3>1
    <2> QED BY <1>4, <1>5, <2>1
  <1>10. Flags' /\ Waiters' /\ Control' /\ Failure' /\ Flushed' /\ Ends' /\ NoLostWakeup'
    <2>1. Flags'
      BY <1>1 DEF Flags, ownerVars
    <2>2. Waiters'
      BY <1>1 DEF Waiters, readerVars
    <2>3. Control'
      BY <1>1, <1>7 DEF Control, ownerVars
    <2>4. Failure'
      BY <1>1, <1>7, <1>8 DEF Failure, Over
    <2>5. Flushed'
      BY <1>1, <1>8 DEF Flushed
    <2>6. Ends'
      BY <1>1, <1>7 DEF Ends, ownerVars, readerVars
    <2>7. NoLostWakeup'
      BY <1>1, <1>7 DEF NoLostWakeup
    <2> QED BY <2>1, <2>2, <2>3, <2>4, <2>5, <2>6, <2>7
  <1>11. \A t \in Table : Len(Stream(t)) \in Nat /\ Len(Stream(t)) <= Len(soa[t].sealed)
    BY <1>8, CountInTable DEF Frozen
  <1>12. Frozen'
    <2>1. \A t \in Table : Len(Stream(t)') <= Len(soa'[t].sealed)
      BY <1>7, <1>9, <1>11
    <2> QED BY <2>1 DEF Frozen
  <1>13. StreamIsPrefix'
    <2> SUFFICES ASSUME NEW t \in Table
                 PROVE  /\ Len(Stream(t)') = last_delivered'[t] + Pending(t)'
                        /\ \A n \in 1..Len(Stream(t)') :
                             /\ n <= chunk_count(soa'[t])
                             /\ Stream(t)'[n] =
                                  [chunk |-> n - 1, rows |-> chunk_at(soa'[t], n - 1)]
      BY Zenon DEF StreamIsPrefix
    <2>1. Len(Stream(t)') = last_delivered'[t] + Pending(t)'
      BY <1>1, <1>7, Zenon DEF StreamIsPrefix
    <2>2. ASSUME NEW n \in 1..Len(Stream(t)')
          PROVE  /\ n <= chunk_count(soa'[t])
                 /\ Stream(t)'[n] = [chunk |-> n - 1, rows |-> chunk_at(soa'[t], n - 1)]
      <3>1. /\ n \in 1..Len(Stream(t)) /\ n \in 1..Len(soa[t].sealed)
            /\ n \in Nat /\ n <= Len(soa[t].sealed) /\ n <= Len(soa'[t].sealed)
        BY <1>7, <1>9, <1>11
      <3>2. n <= chunk_count(soa'[t])
        <4>1. soa'[t].sealed \in Seq({ChunkRows}) /\ soa'[t].open \in Int
          BY <1>55
        <4>2. Len(soa'[t].sealed) <= chunk_count(soa'[t]) /\ chunk_count(soa'[t]) \in Nat
          BY <4>1, ChunkCount
        <4> QED BY <1>9, <3>1, <4>2
      <3>3. /\ chunk_at(soa[t], n - 1) = soa[t].sealed[n]
            /\ chunk_at(soa'[t], n - 1) = soa'[t].sealed[n]
        BY <1>9, <3>1 DEF chunk_at
      <3>4. soa'[t].sealed[n] = soa[t].sealed[n]
        BY <1>9, <3>1
      <3>5. Stream(t)[n] = [chunk |-> n - 1, rows |-> chunk_at(soa[t], n - 1)]
        BY <3>1 DEF StreamIsPrefix
      <3> QED BY <1>7, <3>2, <3>3, <3>4, <3>5
    <2> QED BY <2>1, <2>2, Zenon
  <1> QED BY <1>6, <1>10, <1>12, <1>13

\* A chunk goes into a queue that has room for it.
LEMMA PushStoresInv ==
  ASSUME ArrowInv, PushStores
  PROVE  ArrowInv'
  <1> USE ArrowAssumption, ChunkAssumption DEF ArrowInv
  <1>0. PICK u \in Table : u = table
    BY DEF Shapes
  <1>1. PICK d : d = Descriptor(u)
    OBVIOUS
  <1>2. PICK c : c = [queue[u] EXCEPT !.q = Append(queue[u].q, d)]
    BY Zenon
  <1>3. /\ pc = "push" /\ pc' = "notify" /\ ~stop
        /\ queue' = [queue EXCEPT ![u] = c]
        /\ UNCHANGED <<table, final_flush, ok, cancelled, blocks, soa,
                       last_delivered, ownerVars, readerVars>>
    BY <1>0, <1>1, <1>2 DEF PushStores, Pushed
  <1>4. /\ {"q", "done", "error", "waiting"} \subseteq DOMAIN c
        /\ c.q = Append(queue[u].q, d) /\ c.done = queue[u].done
        /\ c.error = queue[u].error /\ c.waiting = queue[u].waiting
    BY <1>2, Zenon DEF Shapes
  <1>5. PICK i \in Nat : i = last_delivered[u]
    BY DEF Shapes
  <1>6. /\ Len(soa[u].sealed) \in Nat /\ chunk_count(soa[u]) \in Nat
        /\ i < chunk_count(soa[u])
        /\ ~final_flush => i < Len(soa[u].sealed)
        /\ ~(i < Len(soa[u].sealed)) => soa[u].open \in Nat
    <2>1. i < Deliverable(u)
      BY <1>0, <1>3, <1>5 DEF Control
    <2>2. soa[u].sealed \in Seq({ChunkRows}) /\ soa[u].open \in Int /\ soa[u].open \in Nat
      BY SMTT(30) DEF Shapes
    <2>3. /\ Len(soa[u].sealed) \in Nat /\ chunk_count(soa[u]) \in Nat
          /\ chunk_count(soa[u]) <= Len(soa[u].sealed) + 1
      BY <2>2, ChunkCount
    <2>4. Deliverable(u) = IF final_flush THEN chunk_count(soa[u])
                           ELSE IF chunk_count(soa[u]) > 0 THEN chunk_count(soa[u]) - 1 ELSE 0
      BY DEF Deliverable
    <2>5. CASE final_flush
      BY <2>1, <2>2, <2>3, <2>4, <2>5
    <2>6. CASE ~final_flush
      <3>1. Deliverable(u) = IF chunk_count(soa[u]) > 0 THEN chunk_count(soa[u]) - 1 ELSE 0
        BY <2>4, <2>6
      <3> QED BY <2>1, <2>2, <2>3, <3>1
    <2> QED BY <2>5, <2>6
  <1>7. d = [chunk |-> i, rows |-> chunk_at(soa[u], i)] /\ d \in Desc
    <2>1. chunk_at(soa[u], i) \in Nat
      <3>1. CASE i < Len(soa[u].sealed)
        <4>1. soa[u].sealed \in Seq({ChunkRows})
          BY SMTT(30) DEF Shapes
        <4>2. i + 1 \in 1..Len(soa[u].sealed)
          BY <1>6, <3>1
        <4>3. soa[u].sealed[i + 1] = ChunkRows
          BY <4>1, <4>2
        <4> QED BY <3>1, <4>3 DEF chunk_at
      <3>2. CASE ~(i < Len(soa[u].sealed))
        BY <1>6, <3>2 DEF chunk_at
      <3> QED BY <3>1, <3>2
    <2>2. d = [chunk |-> i, rows |-> chunk_at(soa[u], i)]
      BY <1>1, <1>5 DEF Descriptor
    <2> QED BY <2>1, <2>2 DEF Desc
  <1>8. /\ received[u] \in Seq(Desc) /\ queue[u].q \in Seq(Desc) /\ c.q \in Seq(Desc)
        /\ Len(c.q) = Len(queue[u].q) + 1
    <2>1. received[u] \in Seq(Desc) /\ queue[u].q \in Seq(Desc)
      BY DEF Shapes
    <2> QED BY <1>4, <1>7, <2>1
  <1>9. /\ DOMAIN queue' = Table
        /\ \A t \in Table : /\ {"q", "done", "error", "waiting"} \subseteq DOMAIN queue'[t]
                            /\ queue'[t].q \in Seq(Desc)
        /\ queue'[u] = c
        /\ \A t \in Table : t # u => queue'[t] = queue[t]
    BY <1>3, <1>4, <1>8, OneQueue, Zenon
  <1>10. \A t \in Table : /\ queue'[t].done = queue[t].done
                          /\ queue'[t].waiting = queue[t].waiting
    BY <1>4, <1>9
  <1>11. Stream(u)' = Append(Stream(u), d)
    <2>1. Stream(u)' = received[u] \o Append(queue[u].q, d)
      BY <1>3, <1>4, <1>9, Zenon DEF Stream, readerVars
    <2>2. received[u] \o Append(queue[u].q, d) = Append(received[u] \o queue[u].q, d)
      BY <1>7, <1>8, AppendsToStream, Zenon
    <2> QED BY <2>1, <2>2 DEF Stream
  <1>12. \A t \in Table : /\ ~Over(t) /\ ~Over(t)' /\ RunningOn(t)' = RunningOn(t)
                          /\ Pending(t) = 0 /\ Pending(t)' = IF t = u THEN 1 ELSE 0
    BY <1>0, <1>3, <1>10, Zenon DEF Over, RunningOn, Running, Blocked, Pending, readerVars
  <1>13. Shapes'
    BY <1>3, <1>9, Zenon DEF Shapes, Pc, ownerVars, readerVars
  <1>14. Flags'
    BY <1>3 DEF Flags, ownerVars
  <1>15. Waiters'
    BY <1>3, <1>10 DEF Waiters, readerVars
  <1>16. Control'
    BY <1>3, <1>10, <1>12 DEF Control, Deliverable, ownerVars
  <1>17. Failure'
    BY <1>3, <1>12 DEF Failure
  <1>18. Flushed'
    BY <1>3 DEF Flushed, ownerVars
  <1>19. Ends'
    BY <1>3, <1>12 DEF Ends, readerVars
  <1>20. /\ Stream(u) \in Seq(Desc) /\ Len(Stream(u)) = i /\ Len(Stream(u)') = i + 1
         /\ Stream(u)'[i + 1] = d
         /\ \A n \in 1..i : Stream(u)'[n] = Stream(u)[n]
    <2>1. Stream(u) \in Seq(Desc) /\ Len(Stream(u)) = i
      BY <1>5, <1>12, CountInTable
    <2> QED BY <1>7, <1>11, <2>1
  <1>21. \A t \in Table : t # u => Stream(t)' = Stream(t)
    BY <1>3, <1>9, Zenon DEF Stream, readerVars
  <1>22. Frozen'
    <2> SUFFICES ASSUME NEW t \in Table, ~final_flush
                 PROVE  Len(Stream(t)') <= Len(soa[t].sealed)
      BY <1>3 DEF Frozen
    <2>1. CASE t = u
      BY <1>6, <1>20, <2>1
    <2>2. CASE t # u
      BY <1>21, <2>2 DEF Frozen
    <2> QED BY <2>1, <2>2
  <1>23. StreamIsPrefix'
    <2> SUFFICES ASSUME NEW t \in Table
                 PROVE  /\ Len(Stream(t)') = last_delivered[t] + Pending(t)'
                        /\ \A n \in 1..Len(Stream(t)') :
                             /\ n <= chunk_count(soa[t])
                             /\ Stream(t)'[n] =
                                  [chunk |-> n - 1, rows |-> chunk_at(soa[t], n - 1)]
      BY <1>3, SMTT(30) DEF StreamIsPrefix
    <2>1. CASE t = u
      <3>1. Len(Stream(t)') = last_delivered[t] + Pending(t)'
        BY <1>5, <1>12, <1>20, <2>1
      <3>2. ASSUME NEW n \in 1..Len(Stream(t)')
            PROVE  /\ n <= chunk_count(soa[t])
                   /\ Stream(t)'[n] = [chunk |-> n - 1, rows |-> chunk_at(soa[t], n - 1)]
        <4>1. CASE n = i + 1
          BY <1>6, <1>7, <1>20, <2>1, <4>1, SMTT(30)
        <4>2. CASE n # i + 1
          <5>1. n \in 1..Len(Stream(u)) /\ n \in 1..i
            BY <1>20, <2>1, <4>2
          <5>2. /\ n <= chunk_count(soa[u])
                /\ Stream(u)[n] = [chunk |-> n - 1, rows |-> chunk_at(soa[u], n - 1)]
            BY <5>1, ZenonT(40) DEF StreamIsPrefix
          <5> QED BY <1>20, <2>1, <5>1, <5>2
        <4> QED BY <4>1, <4>2
      <3> QED BY <3>1, <3>2
    <2>2. CASE t # u
      BY <1>12, <1>21, <2>2, SMTT(30) DEF StreamIsPrefix
    <2> QED BY <2>1, <2>2, ZenonT(40)
  <1>24. NoLostWakeup'
    <2> SUFFICES ASSUME NEW t \in Table
                 PROVE  /\ queue'[t].waiting # {} =>
                             Len(queue'[t].q) <= Cardinality(RunningOn(t)') + Pending(t)'
                        /\ queue'[t].done => queue'[t].waiting = {}
      BY DEF NoLostWakeup
    <2>1. /\ queue[t].waiting # {} =>
               Len(queue[t].q) <= Cardinality(RunningOn(t)) + Pending(t)
          /\ queue[t].done => queue[t].waiting = {}
      BY DEF NoLostWakeup
    <2>2. CASE t = u
      <3>1. Cardinality(RunningOn(t)) \in Nat /\ Len(queue[t].q) \in Nat
        BY ReadersAreCounted, CountRunning DEF Shapes
      <3> QED BY <1>8, <1>9, <1>10, <1>12, <2>1, <2>2, <3>1, SMTT(30)
    <2>3. CASE t # u
      BY <1>9, <1>12, <2>1, <2>3
    <2> QED BY <2>2, <2>3, SMTT(30)
  <1> QED BY <1>13, <1>14, <1>15, <1>16, <1>17, <1>18, <1>19, <1>22, <1>23, <1>24, ZenonT(40)

\* push's notify_one wakes one of the readers that wait, if any do.
LEMMA NotifyInv ==
  ASSUME ArrowInv, Notify
  PROVE  ArrowInv'
  <1> USE ArrowAssumption DEF ArrowInv
  <1>0. PICK u \in Table : u = table
    BY DEF Shapes
  <1>1. PICK c \in NotifyOne(queue[u]) : queue' = [queue EXCEPT ![u] = c]
    BY <1>0, Zenon DEF Notify
  <1>2. /\ pc = "notify" /\ pc' = "poll"
        /\ last_delivered' = [last_delivered EXCEPT ![u] = last_delivered[u] + 1]
        /\ UNCHANGED <<table, final_flush, ok, cancelled, blocks, soa, ownerVars,
                       readerVars>>
        /\ queue' = [queue EXCEPT ![u] = c]
    BY <1>0, <1>1, Zenon DEF Notify
  <1>3. /\ {"q", "done", "error", "waiting"} \subseteq DOMAIN c
        /\ c.q = queue[u].q /\ c.done = queue[u].done /\ c.error = queue[u].error
        /\ \/ c.waiting = {}
           \/ \E w \in queue[u].waiting : c.waiting = queue[u].waiting \ {w}
        /\ c.q \in Seq(Desc)
    <2>1. queue[u].q \in Seq(Desc) /\ {"q", "done", "error", "waiting"} \subseteq DOMAIN queue[u]
      BY DEF Shapes
    <2>2. CASE queue[u].waiting = {}
      BY <1>1, <2>1, <2>2 DEF NotifyOne
    <2>3. CASE queue[u].waiting # {}
      <3>1. PICK w \in queue[u].waiting : c = [queue[u] EXCEPT !.waiting = queue[u].waiting \ {w}]
        BY <1>1, <2>3 DEF NotifyOne
      <3> QED BY <2>1, <3>1
    <2> QED BY <2>2, <2>3
  <1>4. /\ DOMAIN queue' = Table
        /\ \A t \in Table : /\ {"q", "done", "error", "waiting"} \subseteq DOMAIN queue'[t]
                            /\ queue'[t].q \in Seq(Desc)
        /\ queue'[u] = c
        /\ \A t \in Table : t # u => queue'[t] = queue[t]
    BY <1>2, <1>3, OneQueue, Zenon
  <1>5. \A t \in Table : /\ queue'[t].q = queue[t].q /\ queue'[t].done = queue[t].done
                         /\ queue'[t].waiting \subseteq queue[t].waiting
    BY <1>3, <1>4
  <1>6. /\ last_delivered' \in [Table -> Nat]
        /\ last_delivered'[u] = last_delivered[u] + 1
        /\ \A t \in Table : t # u => last_delivered'[t] = last_delivered[t]
    <2>1. last_delivered \in [Table -> Nat]
      BY DEF Shapes
    <2>2. last_delivered[u] + 1 \in Nat
      BY <2>1
    <2> QED BY <1>2, <2>1, <2>2
  <1>7. \A t \in Table : /\ Stream(t)' = Stream(t) /\ ~Over(t) /\ ~Over(t)'
                         /\ Pending(t) = (IF t = u THEN 1 ELSE 0) /\ Pending(t)' = 0
    BY <1>0, <1>2, <1>5, Zenon DEF Stream, Over, Pending, readerVars
  <1>8. Shapes'
    BY <1>2, <1>4, <1>6, Zenon DEF Shapes, Pc, ownerVars, readerVars
  <1>9. Flags'
    BY <1>2 DEF Flags, ownerVars
  <1>10. Waiters'
    BY <1>2, <1>5, SMTT(30) DEF Waiters, readerVars
  <1>11. Control'
    BY <1>2, <1>5, <1>7 DEF Control, ownerVars
  <1>12. Failure'
    BY <1>2, <1>7 DEF Failure, ownerVars
  <1>13. Frozen'
    BY <1>2, <1>7 DEF Frozen
  <1>14. Flushed'
    <2> SUFFICES ASSUME NEW t \in Table, final_flush, ~stop, t < table
                 PROVE  last_delivered'[t] = chunk_count(soa[t])
      BY <1>2 DEF Flushed, ownerVars
    <2>1. t # u
      BY <1>0 DEF Table
    <2> QED BY <1>6, <2>1 DEF Flushed
  <1>15. Ends'
    BY <1>2, <1>7 DEF Ends, readerVars
  <1>16. StreamIsPrefix'
    <2> SUFFICES ASSUME NEW t \in Table
                 PROVE  Len(Stream(t)) = last_delivered'[t] + Pending(t)'
      BY <1>2, <1>7, SMTT(30) DEF StreamIsPrefix
    <2>1. last_delivered[t] \in Nat
      BY DEF Shapes
    <2>2. Len(Stream(t)) = last_delivered[t] + Pending(t)
      BY DEF StreamIsPrefix
    <2>3. CASE t = u
      BY <1>6, <1>7, <2>1, <2>2, <2>3, SMTT(30)
    <2>4. CASE t # u
      BY <1>6, <1>7, <2>1, <2>2, <2>4, SMTT(30)
    <2> QED BY <2>3, <2>4, SMTT(30)
  <1>17. NoLostWakeup'
    <2> SUFFICES ASSUME NEW t \in Table
                 PROVE  /\ queue'[t].waiting # {} =>
                             Len(queue'[t].q) <= Cardinality(RunningOn(t)') + Pending(t)'
                        /\ queue'[t].done => queue'[t].waiting = {}
      BY DEF NoLostWakeup
    <2>1. /\ queue[t].waiting # {} =>
               Len(queue[t].q) <= Cardinality(RunningOn(t)) + Pending(t)
          /\ queue[t].done => queue[t].waiting = {}
      BY DEF NoLostWakeup
    <2>2. queue'[t].done => queue'[t].waiting = {}
      BY <1>5, <2>1, SMTT(30)
    <2>3. CASE t # u
      <3>1. RunningOn(t)' = RunningOn(t)
        BY <1>2, <1>4, <2>3, OtherTables, ZenonT(40) DEF readerVars
      <3> QED BY <1>4, <1>7, <2>1, <2>3, <3>1
    <2>4. CASE t = u /\ queue'[t].waiting # {}
      <3>1. PICK w \in queue[u].waiting : c.waiting = queue[u].waiting \ {w}
        BY <1>3, <1>4, <2>4, Zenon
      <3>2. w \in Reader /\ TableOf[w] = u /\ reader[w] = "popping"
        BY <3>1 DEF Waiters
      <3>3. w \notin RunningOn(t)
        BY <2>4, <3>1 DEF RunningOn, Running, Blocked
      <3>4. RunningOn(t)' = RunningOn(t) \cup {w}
        BY <1>2, <1>4, <2>4, <3>1, <3>2 DEF RunningOn, Running, Blocked, readerVars
      <3>5. /\ Cardinality(RunningOn(t)) \in Nat
            /\ Cardinality(RunningOn(t)') = Cardinality(RunningOn(t)) + 1
        BY <3>2, <3>3, <3>4, ReadersAreCounted, CountRunning, Zenon
      <3>6. Len(queue[t].q) <= Cardinality(RunningOn(t)) + 1
        BY <1>7, <2>1, <2>4, <3>1, ZenonT(40)
      <3>7. Len(queue'[t].q) <= Cardinality(RunningOn(t)') + Pending(t)'
        <4>1. queue'[t].q = queue[t].q /\ Pending(t)' = 0
          BY <1>5, <1>7
        <4> QED BY ONLY <3>5, <3>6, <4>1
      <3> QED BY <2>2, <3>7
    <2> QED BY <2>2, <2>3, <2>4
  <1> QED BY <1>8, <1>9, <1>10, <1>11, <1>12, <1>13, <1>14, <1>15, <1>16, <1>17, ZenonT(40)

\* A queue is closed, with the outcome of the decode.
LEMMA FinishInv ==
  ASSUME ArrowInv, Finish
  PROVE  ArrowInv'
  <1> USE ArrowAssumption DEF ArrowInv
  <1>0. PICK u \in Table : u = table
    BY DEF Shapes
  <1>1. PICK c : c = finish(queue[u], ~(ok \/ cancelled))
    OBVIOUS
  <1>2. /\ pc = "finish"
        /\ UNCHANGED <<final_flush, ok, cancelled, blocks, soa, last_delivered,
                       ownerVars, readerVars>>
        /\ queue' = [queue EXCEPT ![u] = c]
    BY <1>0, <1>1 DEF Finish
  <1>3. /\ {"q", "done", "error", "waiting"} \subseteq DOMAIN c
        /\ c.q = queue[u].q /\ c.done /\ c.waiting = {}
        /\ c.error <=> ~(ok \/ cancelled)
        /\ c.q \in Seq(Desc)
    <2>1. queue[u].q \in Seq(Desc) /\ {"q", "done", "error", "waiting"} \subseteq DOMAIN queue[u]
      BY DEF Shapes
    <2>2. PICK e : e = ~(ok \/ cancelled)
      OBVIOUS
    <2>3. c = [queue[u] EXCEPT !.done = TRUE, !.error = e, !.waiting = {}]
      BY <1>1, <2>2 DEF finish
    <2>4. /\ {"q", "done", "error", "waiting"} \subseteq DOMAIN c
          /\ c.q = queue[u].q /\ c.done = TRUE /\ c.waiting = {} /\ c.error = e
      BY <2>1, <2>3
    <2> QED BY <2>1, <2>2, <2>4, Zenon
  <1>4. /\ DOMAIN queue' = Table
        /\ \A t \in Table : /\ {"q", "done", "error", "waiting"} \subseteq DOMAIN queue'[t]
                            /\ queue'[t].q \in Seq(Desc)
        /\ queue'[u] = c
        /\ \A t \in Table : t # u => queue'[t] = queue[t]
    BY <1>2, <1>3, OneQueue, Zenon
  <1>5. /\ pc' \in {"finish", "exited"} /\ table' \in Table
        /\ \A t \in Table : Over(t)' <=> Over(t) \/ t = u
    <2>1. u \in 1..Tables /\ Tables \in Nat
      BY DEF Table
    <2>2. CASE table < Tables
      <3>1. table' = table + 1 /\ pc' = pc
        BY <2>2 DEF Finish
      <3> QED BY <1>0, <1>2, <2>1, <2>2, <3>1 DEF Over, Table
    <2>3. CASE ~(table < Tables)
      <3>1. table' = table /\ pc' = "exited"
        BY <2>3, SMTT(30) DEF Finish
      <3> QED BY <1>0, <1>2, <2>1, <2>3, <3>1 DEF Over, Table
    <2> QED BY <2>2, <2>3
  <1>6. \A t \in Table : queue'[t].q = queue[t].q /\ queue'[t].waiting \subseteq queue[t].waiting
    BY <1>3, <1>4, SMTT(30)
  <1>7. \A t \in Table : /\ Stream(t)' = Stream(t)
                         /\ Pending(t) = 0 /\ Pending(t)' = 0
    BY <1>2, <1>5, <1>6, Zenon DEF Stream, Pending, readerVars
  <1>8. Shapes'
    BY <1>2, <1>4, <1>5, Zenon DEF Shapes, Pc, ownerVars, readerVars
  <1>9. Flags'
    BY <1>2 DEF Flags, ownerVars
  <1>10. Waiters'
    BY <1>2, <1>6 DEF Waiters, readerVars
  <1>11. Control'
    <2>1. \A t \in Table : queue'[t].done <=> Over(t)'
      BY <1>3, <1>4, <1>5 DEF Control
    <2> QED BY <1>2, <1>5, <2>1, SMTT(30) DEF Control, ownerVars
  <1>12. Failure'
    <2>1. \A t \in Table : Over(t)' => (queue'[t].error <=> ~(ok \/ cancelled))
      BY <1>3, <1>4, <1>5, Zenon DEF Failure
    <2>2. ~ok => (\A t \in Table : soa[t] = NewSoa) \/ cancelled
      BY <1>2 DEF Failure
    <2> QED BY <1>2, <1>5, <2>1, <2>2 DEF Failure
  <1>13. Frozen'
    BY <1>2, <1>7 DEF Frozen
  <1>14. Flushed'
    BY <1>2 DEF Flushed, ownerVars
  <1>15. Ends'
    BY <1>2, <1>5, <1>6, SMTT(30) DEF Ends, readerVars, ownerVars
  <1>16. StreamIsPrefix'
    BY <1>2, <1>7 DEF StreamIsPrefix
  <1>17. NoLostWakeup'
    <2> SUFFICES ASSUME NEW t \in Table
                 PROVE  /\ queue'[t].waiting # {} =>
                             Len(queue'[t].q) <= Cardinality(RunningOn(t)') + Pending(t)'
                        /\ queue'[t].done => queue'[t].waiting = {}
      BY SMTT(30) DEF NoLostWakeup
    <2>1. /\ queue[t].waiting # {} =>
               Len(queue[t].q) <= Cardinality(RunningOn(t)) + Pending(t)
          /\ queue[t].done => queue[t].waiting = {}
      BY DEF NoLostWakeup
    <2>2. CASE t = u
      BY <1>3, <1>4, <2>2, SMTT(30)
    <2>3. CASE t # u
      <3>1. RunningOn(t)' = RunningOn(t)
        BY <1>2, <1>4, <2>3, OtherTables DEF readerVars
      <3> QED BY <1>4, <1>7, <2>1, <2>3, <3>1, SMTT(30)
    <2> QED BY <2>2, <2>3
  <1> QED BY <1>8, <1>9, <1>10, <1>11, <1>12, <1>13, <1>14, <1>15, <1>16, <1>17, SMTT(30)

-----------------------------------------------------------------------------
(* The theorems *)

\* Every step of the session keeps the invariant.
LEMMA NextArrow ==
  ASSUME ArrowInv, [Next]_vars
  PROVE  ArrowInv'
  <1>1. CASE Producer
    <2>1. CASE Deciding
      BY <2>1, DecidingInv
    <2>2. CASE \E t \in Table : FeedRow(t)
      BY <2>2, FeedRowInv
    <2>3. CASE PushStores
      BY <2>3, PushStoresInv
    <2>4. CASE Notify
      BY <2>4, NotifyInv
    <2>5. CASE Finish
      BY <2>5, FinishInv
    <2> QED BY <1>1, <2>1, <2>2, <2>3, <2>4, <2>5 DEF Producer, Deciding
  <1>2. ASSUME NEW r \in Reader, Read(r) \/ SpuriousWake(r)
        PROVE  ArrowInv'
    BY <1>2, GetNextInv, PopWaitsInv, PopTakesInv, PopEndsInv, SpuriousWakeInv,
       ReadersAreCounted, SMTT(30) DEF Read
  <1>3. CASE Drop
    BY <1>3, DropInv
  <1>4. CASE WakeAll
    BY <1>4, WakeAllInv, ReadersAreCounted
  <1>5. CASE Join
    BY <1>5, IdleInv DEF Join
  <1>6. CASE UNCHANGED vars
    BY <1>6, IdleInv DEF vars, ownerVars
  <1> QED BY <1>1, <1>2, <1>3, <1>4, <1>5, <1>6 DEF Next, Teardown, Finished

\* The inductive invariant: holds initially and every step of the decode
\* thread, a reader or the owner keeps it.
THEOREM ArrowInvariant == Spec => []ArrowInv
  BY InitArrow, NextArrow, PTL DEF Spec

\* The three threads' state stays within its types; the poller's index never
\* passes the last table and no table holds a full chunk open.
THEOREM Typed == Spec => []TypeOK
  <1>1. ArrowInv => TypeOK
    <2> SUFFICES ASSUME ArrowInv PROVE TypeOK
      OBVIOUS
    <2>1. {final_flush, ok, cancelled, stop} \subseteq BOOLEAN
      BY DEF ArrowInv, Flags
    <2> QED BY <2>1 DEF ArrowInv, Shapes, TypeOK
  <1> QED BY <1>1, ArrowInvariant, PTL

\* What the pollers hand over is, chunk by chunk and in order, the table.
THEOREM StreamsArePrefixes == Spec => []StreamIsPrefix
  <1>1. ArrowInv => StreamIsPrefix
    BY DEF ArrowInv
  <1> QED BY <1>1, ArrowInvariant, PTL

\* notify_one after the unlock is enough: nobody sleeps next to a chunk that
\* nobody is awake to fetch, and nobody sleeps past finish.
THEOREM NoWakeupIsLost == Spec => []NoLostWakeup
  <1>1. ArrowInv => NoLostWakeup
    BY DEF ArrowInv
  <1> QED BY <1>1, ArrowInvariant, PTL

\* A reader that saw a clean end has been given the whole table.
THEOREM CleanEndsAreComplete == Spec => []CleanEndIsComplete
  <1>1. ArrowInv => CleanEndIsComplete
    <2> SUFFICES ASSUME ArrowInv, NEW r \in Reader, reader[r] = "ended", ~stop
                 PROVE  ok /\ Len(received[TableOf[r]]) = chunk_count(soa[TableOf[r]])
      BY DEF CleanEndIsComplete
    <2> USE DEF ArrowInv
    <2>1. PICK t \in Table : t = TableOf[r]
      BY ArrowAssumption
    <2>2. ok /\ Over(t) /\ queue[t].q = <<>>
      BY <2>1 DEF Ends
    <2>3. pc \in {"finish", "exited"} /\ Pending(t) = 0
      BY <2>2 DEF Over, Pending
    <2>4. final_flush
      BY <2>3 DEF Control
    <2>5. last_delivered[t] = chunk_count(soa[t])
      BY <2>3, <2>4, SMTT(30) DEF Flushed
    <2>6. /\ Len(Stream(t)) = last_delivered[t] + Pending(t)
          /\ last_delivered[t] \in Nat /\ received[t] \in Seq(Desc)
      BY DEF StreamIsPrefix, Shapes
    <2>7. Stream(t) = received[t]
      BY <2>2, <2>6 DEF Stream
    <2> QED BY <2>1, <2>2, <2>3, <2>5, <2>6, <2>7
  <1> QED BY <1>1, ArrowInvariant, PTL

\* The three threads implement TableStream, table by table: whatever the
\* interleaving of run(), pop() and the destructor, a reader is given full
\* batches in order, each once, only the last one short, never more than
\* Bound ahead of it, and one end, in error only if nothing was sent.
THEOREM PromiseIsKept == Spec => KeepsPromise
  <1>1. Init => \A t \in Table : Promise(t)!Init
    <2> SUFFICES ASSUME Init, NEW t \in Table PROVE Promise(t)!Init
      OBVIOUS
    <2>1. received[t] = <<>> /\ queue[t].q = <<>> /\ ~queue[t].done
      BY DEF Init, NewQueue
    <2>2. Stream(t) = <<>>
      BY <2>1 DEF Stream
    <2> QED BY <2>1, <2>2 DEF Promise!Init
  <1>2. ArrowInv /\ [Next]_vars => [\A t \in Table : [Promise(t)!Next]_(Promise(t)!vars)]_vars
    BY PromiseStep DEF PromiseKept
  <1> QED BY <1>1, <1>2, ArrowInvariant, PTL DEF Spec, KeepsPromise
=============================================================================
