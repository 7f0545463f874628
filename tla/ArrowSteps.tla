----------------------------- MODULE ArrowSteps -----------------------------
(***************************************************************************)
(* The inductive invariant of StreamingArrow, that it holds initially, and *)
(* that the steps which leave the tables alone keep it: those of the       *)
(* readers, of the owner, and those by which the decode thread decides     *)
(* what to do next.  At the end: where it holds, every step is, for each   *)
(* table, a step of TableStream or a stutter.                              *)
(***************************************************************************)
EXTENDS StreamingArrow, TLAPS

Desc == [chunk : Nat, rows : Nat]

\* The shapes of the data the threads share.
Shapes ==
  /\ DOMAIN soa = Table
  /\ \A t \in Table : /\ {"sealed", "open"} \subseteq DOMAIN soa[t]
                      /\ soa[t].sealed \in Seq({ChunkRows})
                      /\ soa[t].open \in 0..(ChunkRows - 1)
  /\ DOMAIN queue = Table
  /\ \A t \in Table : /\ {"q", "done", "error", "waiting"} \subseteq DOMAIN queue[t]
                      /\ queue[t].q \in Seq(Desc)
  /\ received \in [Table -> Seq(Desc)]
  /\ last_delivered \in [Table -> Nat]
  /\ reader \in [Reader -> {"idle", "popping", "ended", "failed"}]
  /\ pc \in Pc /\ table \in Table /\ blocks \in 0..MaxBlocks
  /\ owner \in {"using", "waking", "joining", "gone"} /\ waking \in Table

Flags == /\ final_flush \in BOOLEAN /\ ok \in BOOLEAN
         /\ cancelled \in BOOLEAN /\ stop \in BOOLEAN

\* Only readers inside pop() are blocked, each on its own table's queue.
Waiters ==
  \A t \in Table : \A r \in queue[t].waiting :
    r \in Reader /\ TableOf[r] = t /\ reader[r] = "popping"

\* finish has run on queue t.
Over(t) == pc = "exited" \/ (pc = "finish" /\ t < table)

\* What the producer's position says.
Control ==
  /\ final_flush => pc \in {"poll", "push", "notify", "finish", "exited"}
  /\ pc \in {"finish", "exited"} /\ ~cancelled => final_flush
  /\ cancelled => stop /\ pc \in {"finish", "exited"}
  /\ pc \in {"push", "notify"} => last_delivered[table] < Deliverable(table)
  /\ ~ok => final_flush \/ pc \in {"settle", "finish", "exited"}
  /\ \A t \in Table : queue[t].done <=> Over(t)

\* A failed scan leaves the tables empty; any other failure is a stop.
Failure ==
  /\ ~ok => \/ \A t \in Table : soa[t] = NewSoa
            \/ IF pc = "settle" THEN stop ELSE cancelled
  /\ pc = "scan" => \A t \in Table : soa[t] = NewSoa
  /\ \A t \in Table : Over(t) => (queue[t].error <=> ~(ok \/ cancelled))

\* Until the final flush only sealed chunks have left.
Frozen ==
  \A t \in Table : ~final_flush => Len(Stream(t)) <= Len(soa[t].sealed)

\* The final flush, unless stopped, leaves nothing behind it.
Flushed ==
  \A t \in Table :
    final_flush /\ ~stop /\ (pc \in {"finish", "exited"} \/ t < table) =>
      last_delivered[t] = chunk_count(soa[t])

\* A reader at its end has seen the end of a drained queue.
Ends ==
  \A r \in Reader :
    /\ reader[r] \in {"ended", "failed"} =>
         Over(TableOf[r]) /\ queue[TableOf[r]].q = <<>>
    /\ reader[r] = "ended" /\ ~stop => ok

\* The inductive invariant.
ArrowInv ==
  /\ Shapes /\ Flags /\ Waiters /\ Control /\ Failure /\ Frozen
  /\ Flushed /\ Ends /\ StreamIsPrefix /\ NoLostWakeup

-----------------------------------------------------------------------------
(* Sequences *)

\* A chunk appended to the queue is appended to the stream.
LEMMA AppendsToStream ==
  ASSUME NEW s \in Seq(Desc), NEW q \in Seq(Desc), NEW d \in Desc
  PROVE  /\ s \o q \in Seq(Desc)
         /\ Len(s \o q) = Len(s) + Len(q)
         /\ s \o Append(q, d) = Append(s \o q, d)
  OBVIOUS

\* What a stream and its queue hold together is a sequence.
LEMMA StreamIsSequence ==
  ASSUME NEW s \in Seq(Desc), NEW q \in Seq(Desc)
  PROVE  /\ s \o q \in Seq(Desc)
         /\ Len(s \o q) \in Nat
         /\ Len(s \o q) = Len(s) + Len(q)
  OBVIOUS

\* The chunks of a table are its sealed ones and perhaps one more.
LEMMA ChunkCount ==
  ASSUME NEW s, s.sealed \in Seq({ChunkRows}), s.open \in Int
  PROVE  /\ Len(s.sealed) \in Nat
         /\ chunk_count(s) \in Nat
         /\ Len(s.sealed) <= chunk_count(s)
         /\ chunk_count(s) <= Len(s.sealed) + 1
  <1>1. Len(s.sealed) \in Nat
    OBVIOUS
  <1>2. PICK n \in Nat : n = Len(s.sealed)
    BY <1>1
  <1>3. chunk_count(s) = IF s.open > 0 THEN n + 1 ELSE n + 0
    BY ONLY <1>2, Zenon DEF chunk_count
  <1> QED BY <1>1, <1>2, <1>3

\* A chunk taken from the queue stays where it is in the stream.
LEMMA TakingKeepsStream ==
  ASSUME NEW s \in Seq(Desc), NEW q \in Seq(Desc), q # <<>>
  PROVE  /\ Head(q) \in Desc
         /\ Tail(q) \in Seq(Desc)
         /\ Append(s, Head(q)) \in Seq(Desc)
         /\ Append(s, Head(q)) \o Tail(q) = s \o q
         /\ Len(Tail(q)) = Len(q) - 1
  OBVIOUS

-----------------------------------------------------------------------------
(* The initial state *)

\* A session that has just been built satisfies the invariant.
LEMMA InitArrow == Init => ArrowInv
  <1> SUFFICES ASSUME Init PROVE ArrowInv
    OBVIOUS
  <1> USE ArrowAssumption, ChunkAssumption, BoundAssumption
  <1>1. Shapes
    <2>1. /\ {"sealed", "open"} \subseteq DOMAIN NewSoa
          /\ NewSoa.sealed \in Seq({ChunkRows})
          /\ NewSoa.open \in 0..(ChunkRows - 1)
      BY DEF NewSoa
    <2>2. {"q", "done", "error", "waiting"} \subseteq DOMAIN NewQueue
      BY DEF NewQueue
    <2>3. NewQueue.q \in Seq(Desc)
      <3>1. NewQueue.q = <<>>
        BY DEF NewQueue
      <3> QED BY <3>1
    <2>4. received \in [Table -> Seq(Desc)]
      BY DEF Init
    <2>5. \A t \in Table : soa[t] = NewSoa /\ queue[t] = NewQueue
      BY DEF Init
    <2>6. 1 \in Table
      BY DEF Table
    <2>7. /\ \A t \in Table : /\ {"sealed", "open"} \subseteq DOMAIN soa[t]
                              /\ soa[t].sealed \in Seq({ChunkRows})
                              /\ soa[t].open \in 0..(ChunkRows - 1)
          /\ \A t \in Table : /\ {"q", "done", "error", "waiting"} \subseteq DOMAIN queue[t]
                              /\ queue[t].q \in Seq(Desc)
      BY <2>1, <2>2, <2>3, <2>5
    <2>8. /\ DOMAIN soa = Table /\ DOMAIN queue = Table
          /\ last_delivered \in [Table -> Nat]
          /\ reader \in [Reader -> {"idle", "popping", "ended", "failed"}]
          /\ pc \in Pc /\ table \in Table /\ blocks \in 0..MaxBlocks
          /\ owner \in {"using", "waking", "joining", "gone"} /\ waking \in Table
      BY <2>6 DEF Init, Pc
    <2> QED BY <2>4, <2>7, <2>8, Zenon DEF Shapes
  <1>2. Flags
    BY Zenon DEF Init, Flags
  <1>3. Waiters
    BY DEF Init, Waiters, NewQueue
  <1>4. Control
    BY DEF Init, Control, NewQueue, Over
  <1>5. Failure
    BY DEF Init, Failure, Over
  <1>6. \A t \in Table : Stream(t) = <<>>
    BY DEF Init, Stream, NewQueue
  <1>7. Frozen /\ StreamIsPrefix
    BY <1>6 DEF Init, Frozen, StreamIsPrefix, Pending, NewSoa
  <1>8. Flushed /\ Ends
    BY DEF Init, Flushed, Ends
  <1>9. NoLostWakeup
    BY DEF Init, NoLostWakeup, NewQueue
  <1> QED BY <1>1, <1>2, <1>3, <1>4, <1>5, <1>7, <1>8, <1>9 DEF ArrowInv

-----------------------------------------------------------------------------
(* Steps that leave the tables, the queues and the readers alone *)

\* What only looks at the shared data carries over.
LEMMA DataFrame ==
  ASSUME Waiters, StreamIsPrefix, NoLostWakeup,
         UNCHANGED <<soa, last_delivered, queue, reader, received>>,
         \A t \in Table : Pending(t)' = Pending(t)
  PROVE  Waiters' /\ StreamIsPrefix' /\ NoLostWakeup'
  <1>1. Waiters'
    BY DEF Waiters
  <1>2. \A t \in Table : Stream(t)' = Stream(t) /\ RunningOn(t)' = RunningOn(t)
    BY DEF Stream, RunningOn, Running, Blocked
  <1>3. StreamIsPrefix'
    BY <1>2 DEF StreamIsPrefix
  <1>4. NoLostWakeup'
    BY <1>2 DEF NoLostWakeup
  <1> QED BY <1>1, <1>3, <1>4

\* The poller's count stays within the table.
LEMMA CountInTable ==
  ASSUME Shapes, StreamIsPrefix, NEW t \in Table
  PROVE  /\ Stream(t) \in Seq(Desc) /\ Len(Stream(t)) \in Nat
         /\ Len(Stream(t)) = last_delivered[t] + Pending(t)
         /\ chunk_count(soa[t]) \in Nat
         /\ Len(soa[t].sealed) \in Nat
         /\ Len(Stream(t)) <= chunk_count(soa[t])
         /\ last_delivered[t] <= chunk_count(soa[t])
  <1> USE ChunkAssumption
  <1>1. Stream(t) \in Seq(Desc) /\ Len(Stream(t)) \in Nat
    <2>1. received[t] \in Seq(Desc) /\ queue[t].q \in Seq(Desc)
      BY DEF Shapes
    <2> QED BY <2>1, StreamIsSequence, Zenon DEF Stream
  <1>2. Len(soa[t].sealed) \in Nat /\ chunk_count(soa[t]) \in Nat
        /\ Len(soa[t].sealed) <= chunk_count(soa[t])
    <2>1. soa[t].sealed \in Seq({ChunkRows}) /\ soa[t].open \in Int
      BY SMTT(30) DEF Shapes
    <2> QED BY <2>1, ChunkCount
  <1>3. Len(Stream(t)) = last_delivered[t] + Pending(t)
    BY DEF StreamIsPrefix
  <1>4. Len(Stream(t)) <= chunk_count(soa[t])
    <2>1. CASE Len(Stream(t)) = 0
      BY <1>2, <2>1
    <2>2. CASE Len(Stream(t)) # 0
      <3>1. Len(Stream(t)) \in 1..Len(Stream(t))
        BY <1>1, <2>2
      <3> QED BY <3>1, Zenon DEF StreamIsPrefix
    <2> QED BY <2>1, <2>2
  <1>5. last_delivered[t] \in Nat /\ Pending(t) \in Nat
    BY DEF Shapes, Pending
  <1>6. last_delivered[t] <= chunk_count(soa[t])
    BY <1>1, <1>2, <1>3, <1>4, <1>5
  <1> QED BY <1>1, <1>2, <1>3, <1>4, <1>6

QuietVars == <<soa, last_delivered, queue, reader, received, owner, waking, stop>>

\* The decode thread before it finishes the queues, when it only decides.
Deciding ==
  Scan \/ OtherBlock \/ PacketBlock \/ LeaveLoop \/ Fed \/ Poll
  \/ PushCancelled \/ Settle

\* The steps by which the decode thread only decides keep the invariant.
LEMMA DecidingInv ==
  ASSUME ArrowInv, Deciding
  PROVE  ArrowInv'
  <1> USE ArrowAssumption, ChunkAssumption DEF ArrowInv
  <1>1. /\ UNCHANGED QuietVars
        /\ pc \in {"scan", "next", "feed", "poll", "push", "settle"}
        /\ pc' \in {"next", "feed", "poll", "push", "settle", "finish"}
        /\ pc' = "finish" => table' = 1
        /\ pc = "scan" => pc' \in {"next", "settle"}
    BY Zenon DEF Shapes, Table, Deciding, QuietVars, Scan, OtherBlock, PacketBlock, LeaveLoop, Fed, Poll,
           PushCancelled, Settle, AfterTable, ownerVars, readerVars
  <1>2. \A t \in Table : Pending(t)' = Pending(t) /\ ~Over(t) /\ ~Over(t)'
    BY <1>1 DEF Pending, Over, Table
  <1>3. Waiters' /\ StreamIsPrefix' /\ NoLostWakeup'
    BY <1>1, <1>2, DataFrame DEF QuietVars
  <1>4. table' \in Table /\ blocks' \in 0..MaxBlocks
    <2>1. /\ table' \in {table, 1} \/ (table < Tables /\ table' = table + 1)
          /\ blocks' = blocks \/ (blocks < MaxBlocks /\ blocks' = blocks + 1)
      BY DEF Deciding, Scan, OtherBlock, PacketBlock, LeaveLoop, Fed, Poll,
             PushCancelled, Settle, AfterTable
    <2>2. table \in 1..Tables /\ blocks \in 0..MaxBlocks
      BY DEF Shapes, Table
    <2> QED BY ONLY ArrowAssumption, <2>1, <2>2 DEF Table
  <1>5. Shapes'
    BY <1>1, <1>4, Zenon DEF Shapes, QuietVars, Pc
  <1>6. Flags'
    BY Zenon DEF Flags, Deciding, Scan, OtherBlock, PacketBlock, LeaveLoop, Fed, Poll,
           PushCancelled, Settle, AfterTable, ownerVars
  <1>7. Ends'
    <2>1. \A r \in Reader : TableOf[r] \in Table
      OBVIOUS
    <2>2. \A r \in Reader : reader[r] \notin {"ended", "failed"}
      BY <1>2, <2>1 DEF Ends
    <2> QED BY <1>1, <2>2 DEF Ends, QuietVars
  <1>8. Frozen'
    <2>1. final_flush => final_flush'
      BY Zenon DEF Control, Deciding, Scan, OtherBlock, PacketBlock, LeaveLoop, Fed, Poll,
             PushCancelled, Settle
    <2> QED BY <1>1, <2>1, Zenon DEF Frozen, Stream, QuietVars
  <1>9. Control'
    <2>1. /\ final_flush' => pc' \in {"poll", "push", "notify", "finish", "exited"}
          /\ pc' \in {"finish", "exited"} /\ ~cancelled' => final_flush'
          /\ cancelled' => stop' /\ pc' \in {"finish", "exited"}
      BY DEF Flags, Control, Deciding, Scan, OtherBlock, PacketBlock, LeaveLoop, Fed, Poll,
             PushCancelled, Settle, AfterTable, ownerVars
    <2>2. pc' \in {"push", "notify"} => last_delivered'[table'] < Deliverable(table)'
      <3>1. pc' \in {"push", "notify"} =>
              /\ last_delivered[table] < Deliverable(table)
              /\ UNCHANGED <<table, final_flush>>
        BY DEF Deciding, Scan, OtherBlock, PacketBlock, LeaveLoop, Fed,
               Poll, PushCancelled, Settle, AfterTable
      <3> QED BY <1>1, <3>1 DEF QuietVars, Deliverable
    <2>3. \A t \in Table : ~queue[t].done
      BY <1>2 DEF Control
    <2>4. \A t \in Table : queue'[t].done <=> Over(t)'
      BY <1>1, <1>2, <2>3 DEF QuietVars
    <2>5. ~ok' => final_flush' \/ pc' \in {"settle", "finish", "exited"}
      <3>1. CASE Scan \/ Settle
        BY <3>1, Zenon DEF Scan, Settle
      <3>2. CASE OtherBlock \/ PacketBlock \/ LeaveLoop \/ Fed
        BY <3>2 DEF Control, OtherBlock, PacketBlock, LeaveLoop, Fed
      <3>3. CASE Poll
        BY <3>3 DEF Control, Poll
      <3>4. CASE PushCancelled
        BY <3>4 DEF Control, PushCancelled
      <3> QED BY <3>1, <3>2, <3>3, <3>4 DEF Deciding
    <2> QED BY <2>1, <2>2, <2>4, <2>5 DEF Control
  <1>10. Failure'
    <2>1. ~ok' => \/ \A t \in Table : soa'[t] = NewSoa
                  \/ IF pc' = "settle" THEN stop' ELSE cancelled'
      <3>1. soa' = soa /\ stop' = stop
        BY <1>1 DEF QuietVars
      <3>2. CASE Scan
        BY <3>1, <3>2 DEF Scan, Failure
      <3>3. CASE OtherBlock \/ PacketBlock \/ LeaveLoop \/ Fed \/ Poll
        <4>1. /\ UNCHANGED <<ok, cancelled>>
              /\ pc # "settle"
          BY <3>3 DEF OtherBlock, PacketBlock, LeaveLoop, Fed, Poll
        <4>2. pc' = "settle" => ~cancelled
          BY <3>3 DEF OtherBlock, PacketBlock, LeaveLoop, Fed, Poll, Control, AfterTable
        <4> QED BY <3>1, <4>1, <4>2 DEF Failure
      <3>4. CASE PushCancelled
        <4>1. stop /\ pc = "push" /\ UNCHANGED cancelled
          BY <3>4 DEF PushCancelled
        <4>2. \/ UNCHANGED ok /\ pc' # "settle"
              \/ pc' = "settle"
          BY <3>4 DEF PushCancelled, AfterTable
        <4> QED BY <3>1, <4>1, <4>2 DEF Failure
      <3>5. CASE Settle
        <4>1. /\ UNCHANGED ok /\ pc = "settle" /\ pc' # "settle" /\ cancelled' = stop
          BY <3>5 DEF Settle
        <4> QED BY <3>1, <4>1 DEF Failure
      <3> QED BY <3>2, <3>3, <3>4, <3>5 DEF Deciding
    <2> QED BY <1>1, <1>2, <2>1 DEF Failure, QuietVars
  <1>11. Flushed'
    <2> SUFFICES ASSUME NEW t \in Table, final_flush', ~stop',
                        pc' \in {"finish", "exited"} \/ t < table'
                 PROVE  last_delivered'[t] = chunk_count(soa'[t])
      BY DEF Flushed
    <2>1. /\ last_delivered' = last_delivered /\ soa' = soa /\ ~stop
          /\ t \in 1..Tables /\ table \in 1..Tables
      BY <1>1 DEF QuietVars, Shapes, Table
    <2>2. final_flush /\ Poll
      <3>1. ~Settle
        <4>1. Settle => pc' = "poll" /\ table' = 1
          BY <2>1 DEF Settle
        <4> QED BY <2>1, <4>1
      <3>2. final_flush
        BY <3>1, Zenon DEF Deciding, Scan, OtherBlock, PacketBlock, LeaveLoop, Fed, Poll,
                    PushCancelled
      <3>3. Poll
        BY <2>1, <3>1, <3>2 DEF Control, Deciding, Scan, OtherBlock, PacketBlock,
                    LeaveLoop, Fed, PushCancelled
      <3> QED BY <3>2, <3>3
    <2>3. CASE t < table
      BY <2>1, <2>2, <2>3 DEF Flushed
    <2>4. CASE ~(t < table)
      <3>1. ~(last_delivered[table] < Deliverable(table)) /\ AfterTable
        <4>1. last_delivered[table] < Deliverable(table) =>
                pc' = "push" /\ table' = table
          BY <2>2 DEF Poll
        <4>2. ~(last_delivered[table] < Deliverable(table))
          BY <2>4, <4>1
        <4> QED BY <2>2, <4>2 DEF Poll
      <3>2. \/ table' = table + 1 /\ pc' = "poll"
            \/ table = Tables
        BY <2>1, <3>1 DEF AfterTable
      <3>3. t = table
        BY <2>1, <2>4, <3>2
      <3>4. Deliverable(t) = chunk_count(soa[t])
        BY <2>2 DEF Deliverable
      <3>5. /\ chunk_count(soa[t]) \in Nat /\ last_delivered[t] \in Nat
            /\ last_delivered[t] <= chunk_count(soa[t])
        BY CountInTable, Zenon DEF Shapes
      <3> QED BY <2>1, <3>1, <3>3, <3>4, <3>5
    <2> QED BY <2>3, <2>4
  <1> QED BY <1>3, <1>5, <1>6, <1>7, <1>8, <1>9, <1>10, <1>11

-----------------------------------------------------------------------------
(* Steps of a reader or of the owner *)

\* The producer's side of the invariant, when only others step.
LEMMA ProducerFrame ==
  ASSUME ArrowInv, UNCHANGED <<producerVars, stop>>,
         \A t \in Table : /\ queue'[t].done = queue[t].done
                          /\ queue'[t].error = queue[t].error
                          /\ Stream(t)' = Stream(t)
  PROVE  Flags' /\ Control' /\ Failure' /\ Frozen' /\ Flushed' /\ StreamIsPrefix'
  <1> USE DEF ArrowInv, producerVars
  <1>1. Flags'
    BY DEF Flags
  <1>2. Control'
    BY DEF Control, Over, Deliverable
  <1>3. Failure'
    BY DEF Failure, Over
  <1>4. Frozen'
    BY DEF Frozen
  <1>5. Flushed'
    BY DEF Flushed
  <1>6. StreamIsPrefix'
    BY DEF StreamIsPrefix, Pending
  <1> QED BY <1>1, <1>2, <1>3, <1>4, <1>5, <1>6

\* One queue is written.
LEMMA OneQueue ==
  ASSUME Shapes, NEW u \in Table, NEW c, queue' = [queue EXCEPT ![u] = c],
         {"q", "done", "error", "waiting"} \subseteq DOMAIN c, c.q \in Seq(Desc)
  PROVE  /\ DOMAIN queue' = Table
         /\ \A t \in Table : /\ {"q", "done", "error", "waiting"} \subseteq DOMAIN queue'[t]
                             /\ queue'[t].q \in Seq(Desc)
         /\ queue'[u] = c
         /\ \A t \in Table : t # u => queue'[t] = queue[t]
  <1>1. DOMAIN queue' = Table /\ queue'[u] = c
        /\ \A t \in Table : t # u => queue'[t] = queue[t]
    BY DEF Shapes
  <1> QED BY <1>1 DEF Shapes

\* A step at table u does not concern the readers of another.
LEMMA OtherTables ==
  ASSUME NEW u \in Table,
         \A t \in Table : t # u => queue'[t] = queue[t] /\ received'[t] = received[t],
         \A r \in Reader : TableOf[r] # u => reader'[r] = reader[r],
         NEW t \in Table, t # u
  PROVE  Stream(t)' = Stream(t) /\ RunningOn(t)' = RunningOn(t)
  <1>1. Stream(t)' = Stream(t)
    BY Zenon DEF Stream
  <1>2. ASSUME NEW r \in Reader, TableOf[r] = t
        PROVE  Running(r)' <=> Running(r)
    BY <1>2 DEF Running, Blocked
  <1>3. RunningOn(t)' = RunningOn(t)
    BY <1>2 DEF RunningOn
  <1> QED BY <1>1, <1>3

\* Counting readers, as far as the proofs count.
ReadersCount ==
  \A S, T \in SUBSET Reader :
    /\ Cardinality(S) \in Nat
    /\ S \subseteq T => Cardinality(S) <= Cardinality(T)
    /\ \A r \in Reader \ S : Cardinality(S \cup {r}) = Cardinality(S) + 1
    /\ \A r \in S : Cardinality(S \ {r}) = Cardinality(S) - 1

\* What a step does to the number of running readers of a table.
LEMMA CountRunning ==
  ASSUME ReadersCount, NEW t \in Table
  PROVE  /\ Cardinality(RunningOn(t)) \in Nat /\ Cardinality(RunningOn(t)') \in Nat
         /\ RunningOn(t) \subseteq RunningOn(t)' =>
              Cardinality(RunningOn(t)) <= Cardinality(RunningOn(t)')
         /\ \A r \in Reader :
              RunningOn(t)' = RunningOn(t) \cup {r} /\ r \notin RunningOn(t) =>
                Cardinality(RunningOn(t)') = Cardinality(RunningOn(t)) + 1
         /\ \A r \in RunningOn(t) : RunningOn(t)' = RunningOn(t) \ {r} =>
              Cardinality(RunningOn(t)') = Cardinality(RunningOn(t)) - 1
  <1>1. PICK S \in SUBSET Reader : S = RunningOn(t)
    BY Zenon DEF RunningOn
  <1>2. PICK T \in SUBSET Reader : T = RunningOn(t)'
    BY Zenon DEF RunningOn
  <1>3. /\ Cardinality(S) \in Nat /\ Cardinality(T) \in Nat
        /\ S \subseteq T => Cardinality(S) <= Cardinality(T)
        /\ \A r \in Reader : r \notin S => Cardinality(S \cup {r}) = Cardinality(S) + 1
        /\ \A r \in S : Cardinality(S \ {r}) = Cardinality(S) - 1
    BY DEF ReadersCount
  <1> QED BY ONLY <1>1, <1>2, <1>3, Zenon

\* A reader that enters get_next keeps it.
LEMMA GetNextInv ==
  ASSUME ReadersCount, ArrowInv, NEW r \in Reader, GetNext(r)
  PROVE  ArrowInv'
  <1> USE ArrowAssumption DEF ArrowInv
  <1>1. /\ UNCHANGED <<producerVars, queue, ownerVars, received>>
        /\ reader[r] = "idle" /\ reader' = [reader EXCEPT ![r] = "popping"]
    BY DEF GetNext
  <1>2. /\ reader' \in [Reader -> {"idle", "popping", "ended", "failed"}]
        /\ reader'[r] = "popping" /\ \A x \in Reader : x # r => reader'[x] = reader[x]
    BY <1>1 DEF Shapes
  <1>3. Shapes'
    BY <1>1, <1>2, Zenon DEF Shapes, producerVars, ownerVars
  <1>4. \A t \in Table : /\ Stream(t)' = Stream(t) /\ Pending(t)' = Pending(t)
                         /\ RunningOn(t) \subseteq RunningOn(t)'
    BY <1>1, <1>2 DEF Stream, Pending, producerVars, RunningOn, Running, Blocked
  <1>5. Flags' /\ Control' /\ Failure' /\ Frozen' /\ Flushed' /\ StreamIsPrefix'
    BY <1>1, <1>4, ProducerFrame DEF ownerVars
  <1>6. Waiters'
    BY <1>1, <1>2 DEF Waiters
  <1>7. Ends'
    BY <1>1, <1>2 DEF Ends, Over, producerVars, ownerVars
  <1>8. NoLostWakeup'
    <2> SUFFICES ASSUME NEW t \in Table
                 PROVE  /\ queue'[t].waiting # {} =>
                             Len(queue'[t].q) <= Cardinality(RunningOn(t)') + Pending(t)'
                        /\ queue'[t].done => queue'[t].waiting = {}
      BY DEF NoLostWakeup
    <2>1. Len(queue[t].q) \in Nat /\ Pending(t) \in Nat
      BY DEF Shapes, Pending
    <2>2. /\ queue[t].waiting # {} =>
               Len(queue[t].q) <= Cardinality(RunningOn(t)) + Pending(t)
          /\ queue[t].done => queue[t].waiting = {}
      BY DEF NoLostWakeup
    <2>3. /\ Cardinality(RunningOn(t)) \in Nat /\ Cardinality(RunningOn(t)') \in Nat
          /\ Cardinality(RunningOn(t)) <= Cardinality(RunningOn(t)')
      BY <1>4, CountRunning
    <2> QED BY <1>1, <1>4, <2>1, <2>2, <2>3
  <1> QED BY <1>3, <1>5, <1>6, <1>7, <1>8

\* A step that only lets blocked readers of table u run.
LEMMA WakingInv ==
  ASSUME ReadersCount, ArrowInv, UNCHANGED <<producerVars, stop, readerVars>>,
         owner' \in {"using", "waking", "joining", "gone"}, waking' \in Table,
         NEW u \in Table, NEW W,
         queue' = [queue EXCEPT ![u] = [queue[u] EXCEPT !.waiting = W]],
         W \subseteq queue[u].waiting
  PROVE  ArrowInv'
  <1> USE ArrowAssumption DEF ArrowInv, readerVars
  <1> DEFINE c == [queue[u] EXCEPT !.waiting = W]
  <1>1. /\ {"q", "done", "error", "waiting"} \subseteq DOMAIN c
        /\ c.q = queue[u].q /\ c.done = queue[u].done /\ c.error = queue[u].error
        /\ c.waiting = W
    BY DEF Shapes
  <1>2. c.q \in Seq(Desc)
    BY <1>1 DEF Shapes
  <1> HIDE DEF c
  <1>3. queue' = [queue EXCEPT ![u] = c]
    BY DEF c
  <1>4. /\ DOMAIN queue' = Table
        /\ \A t \in Table : /\ {"q", "done", "error", "waiting"} \subseteq DOMAIN queue'[t]
                            /\ queue'[t].q \in Seq(Desc)
        /\ queue'[u] = c
        /\ \A t \in Table : t # u => queue'[t] = queue[t]
    BY <1>1, <1>2, <1>3, OneQueue, Zenon
  <1>5. \A t \in Table : /\ queue'[t].q = queue[t].q /\ queue'[t].done = queue[t].done
                         /\ queue'[t].error = queue[t].error
                         /\ queue'[t].waiting \subseteq queue[t].waiting
    BY <1>1, <1>4
  <1>6. \A t \in Table : /\ Stream(t)' = Stream(t) /\ Pending(t)' = Pending(t)
    BY <1>5, Zenon DEF Stream, Pending, producerVars
  <1>7. Flags' /\ Control' /\ Failure' /\ Frozen' /\ Flushed' /\ StreamIsPrefix'
    BY <1>5, <1>6, ProducerFrame
  <1>8. Shapes'
    BY <1>4, Zenon DEF Shapes, producerVars
  <1>9. Waiters'
    BY <1>5 DEF Waiters
  <1>10. Ends'
    BY <1>5 DEF Ends, Over, producerVars
  <1>11. NoLostWakeup'
    <2> SUFFICES ASSUME NEW t \in Table
                 PROVE  /\ queue'[t].waiting # {} =>
                             Len(queue'[t].q) <= Cardinality(RunningOn(t)') + Pending(t)'
                        /\ queue'[t].done => queue'[t].waiting = {}
      BY DEF NoLostWakeup
    <2>1. Len(queue[t].q) \in Nat /\ Pending(t) \in Nat
      BY DEF Shapes, Pending
    <2>2. /\ queue[t].waiting # {} =>
               Len(queue[t].q) <= Cardinality(RunningOn(t)) + Pending(t)
          /\ queue[t].done => queue[t].waiting = {}
      BY DEF NoLostWakeup
    <2>3. RunningOn(t) \subseteq RunningOn(t)'
      BY <1>5 DEF RunningOn, Running, Blocked
    <2>4. /\ Cardinality(RunningOn(t)) \in Nat /\ Cardinality(RunningOn(t)') \in Nat
          /\ Cardinality(RunningOn(t)) <= Cardinality(RunningOn(t)')
      BY <2>3, CountRunning
    <2>5. queue'[t].waiting # {} => queue[t].waiting # {}
      BY <1>5
    <2>6. queue'[t].done => queue'[t].waiting = {}
      BY <1>5, <2>2
    <2> QED BY <1>5, <1>6, <2>1, <2>2, <2>4, <2>5, <2>6
  <1> QED BY <1>7, <1>8, <1>9, <1>10, <1>11

\* A reader's wait may end without a notification.
LEMMA SpuriousWakeInv ==
  ASSUME ReadersCount, ArrowInv, NEW r \in Reader, SpuriousWake(r)
  PROVE  ArrowInv'
  <1>1. TableOf[r] \in Table
    BY ArrowAssumption
  <1>2. /\ UNCHANGED <<producerVars, ownerVars, readerVars>>
        /\ queue' = [queue EXCEPT ![TableOf[r]] =
                       [queue[TableOf[r]] EXCEPT
                          !.waiting = queue[TableOf[r]].waiting \ {r}]]
    BY DEF SpuriousWake, Wakes
  <1>3. owner' \in {"using", "waking", "joining", "gone"} /\ waking' \in Table
    BY <1>2 DEF ArrowInv, Shapes, ownerVars
  <1>4. queue[TableOf[r]].waiting \ {r} \subseteq queue[TableOf[r]].waiting
    OBVIOUS
  <1> QED BY <1>1, <1>2, <1>3, <1>4, WakingInv, Zenon DEF ownerVars

\* The destructor's wake_all wakes whoever waits on a queue.
LEMMA WakeAllInv ==
  ASSUME ReadersCount, ArrowInv, WakeAll
  PROVE  ArrowInv'
  <1>1. waking \in Table
    BY DEF ArrowInv, Shapes
  <1>2. /\ UNCHANGED <<producerVars, stop, readerVars>>
        /\ queue' = [queue EXCEPT ![waking] = [queue[waking] EXCEPT !.waiting = {}]]
    BY DEF WakeAll, wake_all
  <1>3. owner' \in {"using", "waking", "joining", "gone"}
    BY DEF WakeAll
  <1>4. waking' \in Table
    BY <1>1, ArrowAssumption DEF WakeAll, Table
  <1>5. PICK u \in Table : u = waking
    BY <1>1
  <1>6. PICK W : W = {}
    BY Zenon
  <1>7. /\ queue' = [queue EXCEPT ![u] = [queue[u] EXCEPT !.waiting = W]]
        /\ W \subseteq queue[u].waiting
    BY <1>2, <1>5, <1>6
  <1> QED BY <1>2, <1>3, <1>4, <1>7, WakingInv, Zenon

\* A reader that finds its queue empty and open goes to sleep.
LEMMA PopWaitsInv ==
  ASSUME ReadersCount, ArrowInv, NEW r \in Reader, PopWaits(r)
  PROVE  ArrowInv'
  <1> DEFINE u == TableOf[r]
             c == [queue[u] EXCEPT !.waiting = queue[u].waiting \cup {r}]
  <1> USE ArrowAssumption DEF ArrowInv
  <1>0. u \in Table
    OBVIOUS
  <1>1. /\ {"q", "done", "error", "waiting"} \subseteq DOMAIN c
        /\ c.q = queue[u].q /\ c.done = queue[u].done /\ c.error = queue[u].error
        /\ c.waiting = queue[u].waiting \cup {r}
    BY <1>0 DEF Shapes
  <1>2. c.q \in Seq(Desc) /\ u \in Table
    BY <1>0, <1>1 DEF Shapes
  <1>3. /\ queue' = [queue EXCEPT ![u] = c]
        /\ UNCHANGED <<producerVars, ownerVars, readerVars>>
        /\ reader[r] = "popping" /\ queue[u].q = <<>> /\ ~queue[u].done
    BY DEF PopWaits, Waits, Running, MustWait
  <1> HIDE DEF c
  <1>4. /\ DOMAIN queue' = Table
        /\ \A t \in Table : /\ {"q", "done", "error", "waiting"} \subseteq DOMAIN queue'[t]
                            /\ queue'[t].q \in Seq(Desc)
        /\ queue'[u] = c
        /\ \A t \in Table : t # u => queue'[t] = queue[t]
    BY <1>1, <1>2, <1>3, OneQueue, Zenon
  <1>5. \A t \in Table : /\ queue'[t].q = queue[t].q /\ queue'[t].done = queue[t].done
                         /\ queue'[t].error = queue[t].error
    BY <1>1, <1>4
  <1>6. \A t \in Table : Stream(t)' = Stream(t) /\ Pending(t)' = Pending(t)
    BY <1>3, <1>5, Zenon DEF Stream, Pending, producerVars, readerVars
  <1>7. Flags' /\ Control' /\ Failure' /\ Frozen' /\ Flushed' /\ StreamIsPrefix'
    BY <1>3, <1>5, <1>6, ProducerFrame, Zenon DEF ownerVars
  <1>8. Shapes'
    BY <1>3, <1>4, Zenon DEF Shapes, producerVars, ownerVars, readerVars
  <1>9. Waiters'
    BY <1>1, <1>3, <1>4 DEF Waiters, readerVars
  <1>10. Ends'
    BY <1>3, <1>5 DEF Ends, Over, producerVars, readerVars, ownerVars
  <1>11. NoLostWakeup'
    <2> SUFFICES ASSUME NEW t \in Table
                 PROVE  /\ queue'[t].waiting # {} =>
                             Len(queue'[t].q) <= Cardinality(RunningOn(t)') + Pending(t)'
                        /\ queue'[t].done => queue'[t].waiting = {}
      BY DEF NoLostWakeup
    <2>1. /\ queue[t].waiting # {} =>
               Len(queue[t].q) <= Cardinality(RunningOn(t)) + Pending(t)
          /\ queue[t].done => queue[t].waiting = {}
      BY DEF NoLostWakeup
    <2>2. CASE t = u
      <3>1. Len(queue'[t].q) = 0 /\ ~queue'[t].done
        BY <1>3, <1>5, <2>2
      <3>2. Cardinality(RunningOn(t)') \in Nat /\ Pending(t)' \in Nat
        BY CountRunning DEF Pending
      <3> QED BY <3>1, <3>2
    <2>3. CASE t # u
      <3>1. RunningOn(t)' = RunningOn(t)
        BY <1>2, <1>3, <1>4, <2>3, OtherTables DEF readerVars
      <3> QED BY <1>4, <1>6, <2>1, <2>3, <3>1
    <2> QED BY <2>2, <2>3
  <1> QED BY <1>7, <1>8, <1>9, <1>10, <1>11

\* A reader takes the chunk at the head of its queue.
LEMMA PopTakesInv ==
  ASSUME ReadersCount, ArrowInv, NEW r \in Reader, PopTakes(r)
  PROVE  ArrowInv'
  <1> DEFINE u == TableOf[r]
             c == [queue[u] EXCEPT !.q = Tail(queue[u].q)]
  <1> USE ArrowAssumption DEF ArrowInv
  <1>0. u \in Table
    OBVIOUS
  <1>1. /\ {"q", "done", "error", "waiting"} \subseteq DOMAIN c
        /\ c.q = Tail(queue[u].q) /\ c.done = queue[u].done /\ c.error = queue[u].error
        /\ c.waiting = queue[u].waiting
    BY <1>0 DEF Shapes
  <1>3. /\ queue' = [queue EXCEPT ![u] = c]
        /\ UNCHANGED <<producerVars, ownerVars>>
        /\ reader[r] = "popping" /\ r \notin queue[u].waiting /\ queue[u].q # <<>>
        /\ received' = [received EXCEPT ![u] = Append(received[u], Head(queue[u].q))]
        /\ reader' = [reader EXCEPT ![r] = "idle"]
    BY DEF PopTakes, Popped, Running, Blocked
  <1> HIDE DEF c
  <1>21. received[u] \in Seq(Desc) /\ queue[u].q \in Seq(Desc)
    BY <1>0 DEF Shapes
  <1>22. /\ Tail(queue[u].q) \in Seq(Desc)
         /\ Append(received[u], Head(queue[u].q)) \in Seq(Desc)
         /\ Append(received[u], Head(queue[u].q)) \o Tail(queue[u].q) = received[u] \o queue[u].q
         /\ Len(Tail(queue[u].q)) = Len(queue[u].q) - 1
    BY <1>3, <1>21, TakingKeepsStream, ZenonT(40)
  <1>2. c.q \in Seq(Desc) /\ u \in Table
    BY <1>0, <1>1, <1>22
  <1>4. /\ DOMAIN queue' = Table
        /\ \A t \in Table : /\ {"q", "done", "error", "waiting"} \subseteq DOMAIN queue'[t]
                            /\ queue'[t].q \in Seq(Desc)
        /\ queue'[u] = c
        /\ \A t \in Table : t # u => queue'[t] = queue[t]
    BY <1>1, <1>2, <1>3, OneQueue, ZenonT(40)
  <1>5. \A t \in Table : /\ queue'[t].done = queue[t].done
                         /\ queue'[t].error = queue[t].error
                         /\ queue'[t].waiting = queue[t].waiting
    BY <1>1, <1>4, Zenon
  <1>51. /\ received' \in [Table -> Seq(Desc)]
         /\ received'[u] = Append(received[u], Head(queue[u].q))
         /\ \A t \in Table : t # u => received'[t] = received[t]
    <2>1. received \in [Table -> Seq(Desc)]
      BY DEF Shapes
    <2>2. received' = [received EXCEPT ![u] = Append(received[u], Head(queue[u].q))]
      BY <1>3
    <2> QED BY ONLY <1>0, <1>22, <2>1, <2>2
  <1>52. /\ reader' \in [Reader -> {"idle", "popping", "ended", "failed"}]
         /\ reader'[r] = "idle" /\ \A x \in Reader : x # r => reader'[x] = reader[x]
    BY <1>3 DEF Shapes
  <1>6. \A t \in Table : Stream(t)' = Stream(t)
    BY <1>1, <1>4, <1>22, <1>51, Zenon DEF Stream
  <1>61. \A t \in Table : Pending(t)' = Pending(t)
    BY <1>3 DEF Pending, producerVars
  <1>7. Flags' /\ Control' /\ Failure' /\ Frozen' /\ Flushed' /\ StreamIsPrefix'
    BY <1>3, <1>5, <1>6, ProducerFrame DEF ownerVars
  <1>8. Shapes'
    BY <1>3, <1>4, <1>51, <1>52, Zenon DEF Shapes, producerVars, ownerVars
  <1>9. Waiters'
    <2>1. \A t \in Table : r \notin queue[t].waiting
      BY <1>3 DEF Waiters
    <2> QED BY <1>5, <1>52, <2>1 DEF Waiters
  <1>10. Ends'
    <2>1. \A x \in Reader : reader[x] \in {"ended", "failed"} => TableOf[x] # u
      BY <1>3 DEF Ends
    <2>2. \A x \in Reader : TableOf[x] \in Table
      BY Zenon
    <2> QED BY <1>3, <1>4, <1>52, <2>1, <2>2, ZenonT(40) DEF Ends, Over, producerVars, ownerVars
  <1>11. NoLostWakeup'
    <2> SUFFICES ASSUME NEW t \in Table
                 PROVE  /\ queue'[t].waiting # {} =>
                             Len(queue'[t].q) <= Cardinality(RunningOn(t)') + Pending(t)'
                        /\ queue'[t].done => queue'[t].waiting = {}
      BY DEF NoLostWakeup
    <2>1. /\ queue[t].waiting # {} =>
               Len(queue[t].q) <= Cardinality(RunningOn(t)) + Pending(t)
          /\ queue[t].done => queue[t].waiting = {}
      BY DEF NoLostWakeup
    <2>2. CASE t = u
      <3>1. RunningOn(t)' = RunningOn(t) \ {r} /\ r \in RunningOn(t)
        BY <1>3, <1>5, <1>52, <2>2 DEF RunningOn, Running, Blocked
      <3>2. /\ Cardinality(RunningOn(t)) \in Nat /\ Cardinality(RunningOn(t)') \in Nat
            /\ Cardinality(RunningOn(t)') = Cardinality(RunningOn(t)) - 1
        BY <3>1, CountRunning, Zenon
      <3>3. Pending(t) \in Nat /\ Len(queue[t].q) \in Nat
        BY SMTT(30) DEF Pending, Shapes
      <3>4. Len(queue'[t].q) = Len(queue[t].q) - 1
        BY <1>1, <1>4, <1>22, <2>2
      <3>5. /\ queue'[t].waiting = queue[t].waiting /\ queue'[t].done = queue[t].done
            /\ Pending(t)' = Pending(t)
        BY <1>5, <1>61, Zenon
      <3> QED BY ONLY <2>1, <3>2, <3>3, <3>4, <3>5, SMTT(30)
    <2>3. CASE t # u
      <3>1. RunningOn(t)' = RunningOn(t)
        BY <1>2, <1>4, <1>51, <1>52, <2>3, OtherTables, Zenon
      <3> QED BY <1>4, <1>61, <2>1, <2>3, <3>1
    <2> QED BY <2>2, <2>3
  <1> QED BY <1>7, <1>8, <1>9, <1>10, <1>11

\* A reader that finds its queue drained and marked is told the end, or the error.
LEMMA PopEndsInv ==
  ASSUME ArrowInv, NEW r \in Reader, PopEnds(r)
  PROVE  ArrowInv'
  <1> DEFINE u == TableOf[r]
  <1> USE ArrowAssumption DEF ArrowInv
  <1>0. u \in Table
    OBVIOUS
  <1>1. /\ UNCHANGED <<producerVars, queue, ownerVars, received>>
        /\ reader[r] = "popping" /\ r \notin queue[u].waiting
        /\ queue[u].q = <<>> /\ queue[u].done
        /\ reader' = [reader EXCEPT ![r] = IF queue[u].error THEN "failed" ELSE "ended"]
    BY DEF PopEnds, Running, Blocked
  <1>2. /\ reader' \in [Reader -> {"idle", "popping", "ended", "failed"}]
        /\ reader'[r] = IF queue[u].error THEN "failed" ELSE "ended"
        /\ \A x \in Reader : x # r => reader'[x] = reader[x]
    BY <1>1 DEF Shapes
  <1>3. Shapes'
    BY <1>1, <1>2, Zenon DEF Shapes, producerVars, ownerVars
  <1>4. \A t \in Table : Stream(t)' = Stream(t) /\ Pending(t)' = Pending(t)
    BY <1>1, SMTT(30) DEF Stream, Pending, producerVars
  <1>5. Flags' /\ Control' /\ Failure' /\ Frozen' /\ Flushed' /\ StreamIsPrefix'
    BY <1>1, <1>4, ProducerFrame, SMTT(30) DEF ownerVars
  <1>6. Waiters'
    <2>1. \A t \in Table : r \notin queue[t].waiting
      BY <1>1 DEF Waiters
    <2> QED BY <1>1, <1>2, <2>1 DEF Waiters
  <1>7. Ends'
    <2>1. Over(u)
      BY <1>0, <1>1 DEF Control
    <2>2. ~queue[u].error /\ ~stop => ok
      BY <1>0, <2>1 DEF Failure, Control
    <2>3. reader'[r] = "ended" => ~queue[u].error
      BY <1>2
    <2> QED BY <1>1, <1>2, <2>1, <2>2, <2>3 DEF Ends, Over, producerVars, ownerVars
  <1>8. NoLostWakeup'
    <2> SUFFICES ASSUME NEW t \in Table
                 PROVE  /\ queue'[t].waiting # {} =>
                             Len(queue'[t].q) <= Cardinality(RunningOn(t)') + Pending(t)'
                        /\ queue'[t].done => queue'[t].waiting = {}
      BY DEF NoLostWakeup
    <2>1. /\ queue[t].waiting # {} =>
               Len(queue[t].q) <= Cardinality(RunningOn(t)) + Pending(t)
          /\ queue[t].done => queue[t].waiting = {}
      BY DEF NoLostWakeup
    <2>2. CASE t = u
      BY <1>1, <2>1, <2>2, SMTT(30)
    <2>3. CASE t # u
      <3>1. RunningOn(t)' = RunningOn(t)
        BY <1>0, <1>1, <1>2, <2>3, OtherTables
      <3> QED BY <1>1, <1>4, <2>1, <2>3, <3>1
    <2> QED BY <2>2, <2>3
  <1> QED BY <1>3, <1>5, <1>6, <1>7, <1>8

\* The owner may start to drop the session at any moment.
LEMMA DropInv ==
  ASSUME ArrowInv, Drop
  PROVE  ArrowInv'
  <1> USE DEF ArrowInv
  <1>1. /\ UNCHANGED <<producerVars, queue, readerVars>>
        /\ stop' = TRUE /\ owner' = "waking" /\ waking' = 1
    BY DEF Drop
  <1>2. Shapes'
    <2>1. waking' \in Table
      BY <1>1, ArrowAssumption DEF Table
    <2> QED BY <1>1, <2>1, Zenon DEF Shapes, producerVars, readerVars
  <1>3. \A t \in Table : Pending(t)' = Pending(t)
    BY <1>1 DEF Pending, producerVars
  <1>4. Waiters' /\ StreamIsPrefix' /\ NoLostWakeup'
    BY <1>1, <1>3, DataFrame DEF producerVars, readerVars
  <1>5. Flags'
    BY <1>1 DEF Flags, producerVars
  <1>6. Control'
    BY <1>1 DEF Control, Over, Deliverable, producerVars
  <1>7. Failure'
    BY <1>1 DEF Failure, Over, producerVars
  <1>8. Frozen'
    BY <1>1, Zenon DEF Frozen, Stream, producerVars, readerVars
  <1>9. Flushed'
    BY <1>1 DEF Flushed
  <1>10. Ends'
    BY <1>1 DEF Ends, Over, producerVars, readerVars
  <1> QED BY <1>2, <1>4, <1>5, <1>6, <1>7, <1>8, <1>9, <1>10

\* The join changes nothing but the owner; nor does a stuttering step.
LEMMA IdleInv ==
  ASSUME ArrowInv, UNCHANGED <<producerVars, queue, stop, waking, readerVars>>,
         owner' = owner \/ owner' = "gone"
  PROVE  ArrowInv'
  <1> USE DEF ArrowInv
  <1>1. Shapes'
    BY SMTT(30) DEF Shapes, producerVars, readerVars
  <1>2. \A t \in Table : Stream(t)' = Stream(t) /\ Pending(t)' = Pending(t)
    BY DEF Pending, Stream, producerVars, readerVars
  <1>3. Waiters' /\ StreamIsPrefix' /\ NoLostWakeup'
    BY <1>2, DataFrame DEF producerVars, readerVars
  <1>4. Flags' /\ Control' /\ Failure' /\ Frozen' /\ Flushed'
    BY <1>2, ProducerFrame
  <1>5. Ends'
    BY DEF Ends, Over, producerVars, readerVars
  <1> QED BY <1>1, <1>3, <1>4, <1>5

-----------------------------------------------------------------------------
(* The promise of TableStream *)

\* What the refinement mapping reads of table t's queue and stream.
Sent(t) == [n \in 1..Len(Stream(t)) |-> Stream(t)[n].rows]
Mark(t) == IF ~queue[t].done THEN "open"
           ELSE IF queue[t].error THEN "error" ELSE "clean"

PromiseKept(t) == [Promise(t)!Next]_(Promise(t)!vars)

\* A step that leaves the stream of t and its end mark alone is a stutter.
LEMMA PromiseStutters ==
  ASSUME NEW t \in Table, Sent(t)' = Sent(t), Mark(t)' = Mark(t),
         Len(received[t])' = Len(received[t])
  PROVE  PromiseKept(t)
  BY DEF PromiseKept, Promise!vars, Sent, Mark

\* So is one that leaves its queue, but for the blocked readers, alone.
LEMMA SameQueueStutters ==
  ASSUME NEW t \in Table, queue'[t].q = queue[t].q, queue'[t].done = queue[t].done,
         queue'[t].error = queue[t].error, received'[t] = received[t]
  PROVE  PromiseKept(t)
  <1>1. Stream(t)' = Stream(t) /\ Mark(t)' = Mark(t)
    BY DEF Stream, Mark
  <1>2. Sent(t)' = Sent(t)
    BY <1>1 DEF Sent
  <1> QED BY <1>1, <1>2, PromiseStutters

\* The batches sent so far are full as long as there is one more to deliver,
\* and that one has rows.
LEMMA SentAreFull ==
  ASSUME ArrowInv, NEW t \in Table, t = table, pc = "push"
  PROVE  /\ \A n \in 1..Len(Stream(t)) : Stream(t)[n].rows = ChunkRows
         /\ Len(Stream(t)) = last_delivered[t]
         /\ Descriptor(t) \in Desc /\ Descriptor(t).rows \in 1..ChunkRows
  <1> DEFINE s == soa[t]
             k == last_delivered[t]
             L == Len(s.sealed)
  <1>1. /\ s.sealed \in Seq({ChunkRows}) /\ s.open \in 0..(ChunkRows - 1)
        /\ k \in Nat /\ ChunkRows \in Nat \ {0} /\ L \in Nat
    BY ChunkAssumption DEF ArrowInv, Shapes
  <1> HIDE DEF s, k, L
  <1>2. Len(Stream(t)) = k /\ Pending(t) = 0
    <2>1. Pending(t) = 0
      BY DEF Pending
    <2>2. Len(Stream(t)) = k + Pending(t)
      BY DEF ArrowInv, StreamIsPrefix, k
    <2> QED BY <1>1, <2>1, <2>2
  <1>3. k < chunk_count(s) /\ chunk_count(s) = L + (IF s.open > 0 THEN 1 ELSE 0)
    <2>1. k < Deliverable(t)
      BY DEF ArrowInv, Control, k
    <2>2. chunk_count(s) = L + (IF s.open > 0 THEN 1 ELSE 0)
      BY DEF chunk_count, L
    <2>3. Deliverable(t) = IF final_flush THEN chunk_count(s)
                           ELSE IF chunk_count(s) > 0 THEN chunk_count(s) - 1 ELSE 0
      BY DEF Deliverable, s
    <2>4. chunk_count(s) \in Nat
      BY <1>1, <2>2
    <2>5. k < chunk_count(s)
      BY ONLY <1>1, <2>1, <2>3, <2>4
    <2> QED BY <2>2, <2>5
  <1>4. \A i \in 0..(L - 1) : chunk_at(s, i) = ChunkRows
    <2> SUFFICES ASSUME NEW i \in 0..(L - 1) PROVE chunk_at(s, i) = ChunkRows
      OBVIOUS
    <2>1. i < L /\ i + 1 \in 1..L
      BY <1>1
    <2>2. s.sealed[i + 1] \in {ChunkRows}
      BY <1>1, <2>1 DEF L
    <2> QED BY <2>1, <2>2 DEF chunk_at, L
  <1>5. chunk_at(s, k) \in 1..ChunkRows
    <2>1. CASE k < L
      BY <1>1, <1>4, <2>1
    <2>2. CASE ~(k < L)
      <3>1. s.open > 0
        BY ONLY <1>1, <1>3, <2>2
      <3>2. chunk_at(s, k) = s.open
        BY <2>2 DEF chunk_at, L
      <3> QED BY <1>1, <3>1, <3>2
    <2> QED BY <2>1, <2>2
  <1>6. ASSUME NEW n \in 1..Len(Stream(t)) PROVE Stream(t)[n].rows = ChunkRows
    <2>1. Stream(t)[n] = [chunk |-> n - 1, rows |-> chunk_at(s, n - 1)]
      BY <1>6, Zenon DEF ArrowInv, StreamIsPrefix, s
    <2>2. n - 1 \in 0..(L - 1)
      BY ONLY <1>1, <1>2, <1>3, <1>6
    <2> QED BY <1>4, <2>1, <2>2
  <1>7. Descriptor(t) \in Desc /\ Descriptor(t).rows = chunk_at(s, k)
    <2>1. chunk_at(s, k) \in Nat
      BY <1>1, <1>5
    <2> QED BY <1>1, <2>1 DEF Descriptor, Desc, s, k
  <1> QED BY <1>2, <1>5, <1>6, <1>7 DEF k

\* The row counts of a list of descriptors.
RowsIn(s) == [n \in 1..Len(s) |-> s[n].rows]

\* One more descriptor is one more count.
LEMMA RowsAppended ==
  ASSUME NEW s \in Seq(Desc), NEW d \in Desc
  PROVE  RowsIn(Append(s, d)) = Append(RowsIn(s), d.rows) /\ Len(RowsIn(s)) = Len(s)
  <1>1. /\ Len(Append(s, d)) = Len(s) + 1 /\ Append(s, d)[Len(s) + 1] = d
        /\ \A n \in 1..Len(s) : Append(s, d)[n] = s[n]
        /\ Len(s) \in Nat
    OBVIOUS
  <1>2. ASSUME NEW n \in 1..Len(s) PROVE s[n].rows \in Nat
    <2>1. s[n] \in Desc
      OBVIOUS
    <2> QED BY <2>1 DEF Desc
  <1>3. RowsIn(s) \in Seq(Nat) /\ Len(RowsIn(s)) = Len(s)
    BY <1>1, <1>2 DEF RowsIn
  <1> QED BY <1>1, <1>3 DEF RowsIn, Desc

\* push stores a chunk: the stream sends a batch.
LEMMA PushSends ==
  ASSUME ArrowInv, PushStores, NEW t \in Table, t = table
  PROVE  PromiseKept(t)
  <1> DEFINE d == Descriptor(t)
             s == Stream(t)
  <1>1. /\ pc = "push" /\ Len(queue[t].q) < Bound /\ UNCHANGED received
        /\ queue' = [queue EXCEPT ![t] = Pushed(@, d)]
    BY DEF PushStores, HasRoom, readerVars
  <1>2. /\ \A n \in 1..Len(s) : s[n].rows = ChunkRows
        /\ d \in Desc /\ d.rows \in 1..ChunkRows
    BY <1>1, SentAreFull
  <1>3. /\ queue[t].q \in Seq(Desc) /\ received[t] \in Seq(Desc)
        /\ DOMAIN queue = Table /\ {"q", "done", "error", "waiting"} \subseteq DOMAIN queue[t]
    BY DEF ArrowInv, Shapes
  <1> HIDE DEF d
  <1>4. /\ queue'[t].q = Append(queue[t].q, d) /\ queue'[t].done = queue[t].done
        /\ queue'[t].error = queue[t].error
    BY <1>1, <1>3 DEF Pushed
  <1>5. s \in Seq(Desc) /\ Len(s) = Len(received[t]) + Len(queue[t].q)
        /\ Stream(t)' = Append(s, d)
    <2>1. s = received[t] \o queue[t].q
      BY DEF Stream
    <2>2. Stream(t)' = received[t] \o Append(queue[t].q, d)
      BY <1>1, <1>4, Zenon DEF Stream
    <2> HIDE DEF s
    <2> QED BY <1>2, <1>3, <2>1, <2>2, AppendsToStream, Zenon
  <1>6. Mark(t) = "open" /\ Mark(t)' = "open"
    <2>1. ~queue[t].done
      BY <1>1 DEF ArrowInv, Control, Over
    <2> QED BY <1>4, <2>1 DEF Mark
  <1> HIDE DEF s
  <1>7. Sent(t)' = Append(Sent(t), d.rows) /\ Len(Sent(t)) = Len(s)
        /\ \A i \in DOMAIN Sent(t) : Sent(t)[i] = ChunkRows
    <2>1. Sent(t)' = RowsIn(Append(s, d)) /\ Sent(t) = RowsIn(s)
      BY <1>5 DEF Sent, RowsIn, s
    <2>2. \A i \in DOMAIN Sent(t) : Sent(t)[i] = ChunkRows
      BY <1>2, <2>1 DEF RowsIn
    <2> QED BY <1>2, <1>5, <2>1, <2>2, RowsAppended, Zenon
  <1>8. Len(Sent(t)) - Len(received[t]) < Bound
    BY <1>1, <1>3, <1>5, <1>7, BoundAssumption
  <1>9. \E rows \in 1..ChunkRows : Promise(t)!Send(rows)
    BY <1>1, <1>2, <1>6, <1>7, <1>8, Zenon DEF Promise!Send, Sent, Mark
  <1> QED BY <1>9 DEF PromiseKept, Promise!Next

\* pop takes a chunk: a batch is taken, and the stream stays as it is.
LEMMA PopTakesOne ==
  ASSUME ArrowInv, NEW r \in Reader, PopTakes(r)
  PROVE  PromiseKept(TableOf[r])
  <1>0. PICK t \in Table : t = TableOf[r]
    BY ArrowAssumption
  <1>1. /\ queue[t].q # <<>> /\ queue' = [queue EXCEPT ![t] = Popped(@)]
        /\ received' = [received EXCEPT ![t] = Append(@, Head(queue[t].q))]
    BY <1>0 DEF PopTakes
  <1>2. /\ queue[t].q \in Seq(Desc) /\ received \in [Table -> Seq(Desc)]
        /\ DOMAIN queue = Table /\ {"q", "done", "error", "waiting"} \subseteq DOMAIN queue[t]
    BY DEF ArrowInv, Shapes
  <1>3. /\ queue'[t].q = Tail(queue[t].q) /\ queue'[t].done = queue[t].done
        /\ queue'[t].error = queue[t].error
        /\ received'[t] = Append(received[t], Head(queue[t].q))
    BY <1>1, <1>2 DEF Popped
  <1>4. Stream(t)' = Stream(t) /\ Mark(t)' = Mark(t)
    <2>1. Append(received[t], Head(queue[t].q)) \o Tail(queue[t].q) = received[t] \o queue[t].q
      BY <1>1, <1>2, TakingKeepsStream, SMTT(30)
    <2>2. Stream(t)' = Stream(t)
      BY <1>3, <2>1, Zenon DEF Stream
    <2>3. Mark(t)' = Mark(t)
      BY <1>3 DEF Mark
    <2> QED BY <2>2, <2>3
  <1>5. Len(received[t])' = Len(received[t]) + 1 /\ Len(received[t]) < Len(Stream(t))
    BY <1>1, <1>2, <1>3 DEF Stream
  <1>6. Sent(t)' = Sent(t) /\ Len(Sent(t)) = Len(Stream(t))
    BY <1>2, <1>4 DEF Sent, Stream
  <1>7. Promise(t)!Take
    BY <1>4, <1>5, <1>6 DEF Promise!Take, Sent, Mark
  <1> QED BY <1>0, <1>7 DEF PromiseKept, Promise!Next

\* finish closes the stream, in error only when nothing was sent.
LEMMA FinishCloses ==
  ASSUME ArrowInv, Finish, NEW t \in Table, t = table
  PROVE  PromiseKept(t)
  <1>1. /\ pc = "finish" /\ UNCHANGED received
        /\ queue' = [queue EXCEPT ![t] = finish(@, ~(ok \/ cancelled))]
    BY DEF Finish, readerVars
  <1>2. /\ DOMAIN queue = Table /\ {"q", "done", "error", "waiting"} \subseteq DOMAIN queue[t]
        /\ table \in Int
    BY DEF ArrowInv, Shapes, Table
  <1>3. /\ queue'[t].q = queue[t].q /\ queue'[t].done
        /\ queue'[t].error <=> ~(ok \/ cancelled)
    BY <1>1, <1>2, Zenon DEF finish
  <1>4. Stream(t)' = Stream(t)
    BY <1>1, <1>3, Zenon DEF Stream
  <1>5. Mark(t) = "open"
    <2>1. ~Over(t)
      BY <1>1, <1>2 DEF Over
    <2> QED BY <2>1 DEF ArrowInv, Control, Mark
  <1>6. Mark(t)' = IF ok \/ cancelled THEN "clean" ELSE "error"
    BY <1>3 DEF Mark
  <1>7. ~(ok \/ cancelled) => Stream(t) = <<>>
    <2> SUFFICES ASSUME ~(ok \/ cancelled) PROVE Stream(t) = <<>>
      OBVIOUS
    <2>1. soa[t] = NewSoa
      BY <1>1 DEF ArrowInv, Failure
    <2>2. chunk_count(soa[t]) = 0
      BY <2>1 DEF chunk_count, NewSoa
    <2>3. Stream(t) \in Seq(Desc) /\ Len(Stream(t)) \in Nat
          /\ Len(Stream(t)) <= chunk_count(soa[t])
      BY CountInTable DEF ArrowInv
    <2> QED BY <2>2, <2>3
  <1>8. Sent(t)' = Sent(t) /\ (Stream(t) = <<>> => Sent(t) = <<>>)
    BY <1>4 DEF Sent
  <1>9. Promise(t)!Close
    BY <1>1, <1>5, <1>6, <1>7, <1>8 DEF Promise!Close, Sent, Mark
  <1> QED BY <1>9 DEF PromiseKept, Promise!Next

\* Every step of the three threads is, for every table, a step of TableStream
\* or a stutter.
LEMMA PromiseStep ==
  ASSUME ArrowInv, [Next]_vars, NEW t \in Table
  PROVE  PromiseKept(t)
  <1>0. DOMAIN queue = Table /\ received \in [Table -> Seq(Desc)]
        /\ \A w \in Table : {"q", "done", "error", "waiting"} \subseteq DOMAIN queue[w]
    BY SMTT(30) DEF ArrowInv, Shapes
  <1>1. CASE UNCHANGED <<queue, received>>
    BY <1>1, SameQueueStutters
  <1>2. ASSUME NEW w \in Table, NEW c, queue' = [queue EXCEPT ![w] = c],
               c.q = queue[w].q, c.done = queue[w].done, c.error = queue[w].error,
               UNCHANGED received
        PROVE  PromiseKept(t)
    BY <1>0, <1>2, SameQueueStutters, Zenon
  <1>3. CASE PushStores
    <2>1. CASE t = table
      BY <1>3, <2>1, PushSends
    <2>2. CASE t # table
      BY <1>0, <1>3, <2>2, SameQueueStutters DEF PushStores, readerVars
    <2> QED BY <2>1, <2>2
  <1>4. CASE Notify
    <2>1. PICK c \in NotifyOne(queue[table]) : queue' = [queue EXCEPT ![table] = c]
      BY <1>4, ZenonT(40) DEF Notify
    <2>2. table \in Table /\ UNCHANGED received
      BY <1>4 DEF ArrowInv, Shapes, Notify, readerVars
    <2>3. c.q = queue[table].q /\ c.done = queue[table].done /\ c.error = queue[table].error
      BY <1>0, <2>1, <2>2 DEF NotifyOne
    <2> QED BY <1>2, <2>1, <2>2, <2>3, Zenon
  <1>5. CASE Finish
    <2>1. CASE t = table
      BY <1>5, <2>1, FinishCloses
    <2>2. CASE t # table
      BY <1>0, <1>5, <2>2, SameQueueStutters DEF Finish, readerVars
    <2> QED BY <2>1, <2>2
  <1>6. ASSUME NEW r \in Reader, PopTakes(r) PROVE PromiseKept(t)
    <2>1. CASE t = TableOf[r]
      BY <1>6, <2>1, PopTakesOne
    <2>2. CASE t # TableOf[r]
      BY <1>0, <1>6, <2>2, SameQueueStutters DEF PopTakes
    <2> QED BY <2>1, <2>2
  <1>7. ASSUME NEW r \in Reader, PopWaits(r) \/ SpuriousWake(r) PROVE PromiseKept(t)
    <2> DEFINE w == TableOf[r]
    <2>1. w \in Table /\ UNCHANGED received
      BY <1>7, ArrowAssumption DEF PopWaits, SpuriousWake, readerVars
    <2>2. queue' = [queue EXCEPT ![w] = Waits(queue[w], r)]
          \/ queue' = [queue EXCEPT ![w] = Wakes(queue[w], r)]
      BY <1>7 DEF PopWaits, SpuriousWake
    <2>3. \A c \in {Waits(queue[w], r), Wakes(queue[w], r)} :
            c.q = queue[w].q /\ c.done = queue[w].done /\ c.error = queue[w].error
      BY <1>0, <2>1 DEF Waits, Wakes
    <2> HIDE DEF w
    <2> QED BY <1>2, <2>1, <2>2, <2>3
  <1>8. CASE WakeAll
    <2>1. waking \in Table /\ UNCHANGED received
          /\ queue' = [queue EXCEPT ![waking] = wake_all(queue[waking])]
      BY <1>8 DEF ArrowInv, Shapes, WakeAll, readerVars
    <2>2. LET c == wake_all(queue[waking]) IN
            /\ c.q = queue[waking].q /\ c.done = queue[waking].done
            /\ c.error = queue[waking].error
      BY <1>0, <2>1 DEF wake_all
    <2> QED BY <1>2, <2>1, <2>2, ZenonT(40)
  <1>9. CASE Scan \/ OtherBlock \/ PacketBlock \/ LeaveLoop \/ Fed \/ Poll
             \/ PushCancelled \/ Settle \/ \E w \in Table : FeedRow(w)
    <2>1. UNCHANGED <<queue, received>>
      BY <1>9 DEF Scan, OtherBlock, PacketBlock, LeaveLoop, Fed, Poll, PushCancelled,
                  Settle, FeedRow, readerVars
    <2> QED BY <1>1, <2>1
  <1>10. CASE Drop \/ Join \/ Finished \/ UNCHANGED vars
    BY <1>1, <1>10 DEF Drop, Join, Finished, vars, readerVars
  <1>11. ASSUME NEW r \in Reader, GetNext(r) \/ PopEnds(r) PROVE PromiseKept(t)
    BY <1>1, <1>11 DEF GetNext, PopEnds
  <1> QED BY <1>3, <1>4, <1>5, <1>6, <1>7, <1>8, <1>9, <1>10, <1>11
          DEF Next, Producer, Read, Teardown
=============================================================================
