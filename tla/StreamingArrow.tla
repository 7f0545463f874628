--------------------------- MODULE StreamingArrow ---------------------------
(***************************************************************************)
(* StreamingArrowSession (bindings/python/nanom_shark/streaming_arrow.hpp): *)
(* a decode thread fills the tables and hands their sealed chunks, table   *)
(* by table, to bounded queues; readers take them through get_next(); the  *)
(* owner may drop the session at any moment, which requests a stop, wakes  *)
(* everyone, joins the thread and then frees the tables.                   *)
(*                                                                         *)
(* The threads interleave at the granularity of the queue's critical       *)
(* sections; a notification made after the unlock is a step of its own.    *)
(* A descriptor names a chunk by its index (its column pointers) and       *)
(* carries the row count read when it was made.                            *)
(*                                                                         *)
(* A definition marked "Slip" is the one after it with a mistake in it.    *)
(***************************************************************************)
EXTENDS Chunks, FiniteSets

CONSTANTS
  Tables,       \* number of tables; they are polled in the order 1..Tables
  Reader,       \* threads reading streams
  TableOf,      \* TableOf[r]: the table reader r reads
  MaxBlocks,    \* bound: blocks in the capture
  MaxRows       \* bound: rows decoded into one table

Table == 1..Tables

ASSUME ArrowAssumption ==
  /\ Tables \in Nat \ {0}
  /\ IsFiniteSet(Reader) /\ TableOf \in [Reader -> Table]
  /\ MaxBlocks \in Nat /\ MaxRows \in Nat

VARIABLES
  pc,             \* where the decode thread is in run()
  table,          \* the table it is polling or finishing
  final_flush,    \* poll's argument
  ok,             \* run's ok
  cancelled,      \* run's cancelled
  blocks,         \* blocks taken from the capture
  soa,            \* the tables
  last_delivered, \* per table: the poller's count
  queue,          \* per table: its ChunkQueue
  stop,           \* the stop token
  owner,          \* the session object: in use, being destroyed, destroyed
  waking,         \* the destructor's loop index
  reader,         \* per reader: where it is
  received        \* per table: the descriptors handed to readers, in order

producerVars == <<pc, table, final_flush, ok, cancelled, blocks, soa,
                  last_delivered>>
ownerVars == <<stop, owner, waking>>
readerVars == <<reader, received>>
vars == <<producerVars, queue, ownerVars, readerVars>>

Init ==
  /\ pc = "scan" /\ table = 1 /\ final_flush = FALSE
  /\ ok = TRUE /\ cancelled = FALSE /\ blocks = 0
  /\ soa = [t \in Table |-> NewSoa]
  /\ last_delivered = [t \in Table |-> 0]
  /\ queue = [t \in Table |-> NewQueue]
  /\ stop = FALSE /\ owner = "using" /\ waking = 1
  /\ reader = [r \in Reader |-> "idle"]
  /\ received = [t \in Table |-> <<>>]

-----------------------------------------------------------------------------
(* The decode thread: run() and the pollers *)

\* scan_blocks lists the blocks or reports a malformed file.
Scan ==
  /\ pc = "scan"
  /\ \/ ok' = TRUE  /\ pc' = "next"
     \/ ok' = FALSE /\ pc' = "settle"
  /\ UNCHANGED <<table, final_flush, cancelled, blocks, soa, last_delivered,
                 queue, ownerVars, readerVars>>

\* A block that is no packet: nothing reaches the tables, nothing is polled.
OtherBlock ==
  /\ pc = "next" /\ ~stop /\ blocks < MaxBlocks
  /\ blocks' = blocks + 1
  /\ UNCHANGED <<pc, table, final_flush, ok, cancelled, soa, last_delivered,
                 queue, ownerVars, readerVars>>

PacketBlock ==
  /\ pc = "next" /\ ~stop /\ blocks < MaxBlocks
  /\ blocks' = blocks + 1
  /\ pc' = "feed"
  /\ UNCHANGED <<table, final_flush, ok, cancelled, soa, last_delivered,
                 queue, ownerVars, readerVars>>

\* The loop ends with the last block, or at a stop.
LeaveLoop ==
  /\ pc = "next"
  /\ pc' = "settle"
  /\ UNCHANGED <<table, final_flush, ok, cancelled, blocks, soa,
                 last_delivered, queue, ownerVars, readerVars>>

\* feed_epb pushes any number of rows into any of the tables.
FeedRow(t) ==
  /\ pc = "feed"
  /\ Len(soa[t].sealed) * ChunkRows + soa[t].open < MaxRows
  /\ soa' = [soa EXCEPT ![t] = push(@)]
  /\ UNCHANGED <<pc, table, final_flush, ok, cancelled, blocks,
                 last_delivered, queue, ownerVars, readerVars>>

Fed ==
  /\ pc = "feed"
  /\ pc' = "poll" /\ table' = 1
  /\ UNCHANGED <<final_flush, ok, cancelled, blocks, soa, last_delivered,
                 queue, ownerVars, readerVars>>

\* Slip: the open chunk is delivered like the sealed ones.
DeliverableAtOnce(t) == chunk_count(soa[t])

\* Chunks [0, deliverable) may be handed over: all but the last one, which may
\* still be open, and on the final flush that one too.
Deliverable(t) ==
  LET cur == chunk_count(soa[t])
  IN IF final_flush THEN cur ELSE IF cur > 0 THEN cur - 1 ELSE 0

\* Slip: the index runs past the last table.
AfterTablePast ==
  /\ table' = table + 1
  /\ pc' = IF table < Tables THEN "poll"
           ELSE IF final_flush THEN "finish" ELSE "next"

\* The next poller, or what follows the last one.
AfterTable ==
  /\ table' = IF table < Tables THEN table + 1 ELSE 1
  /\ pc' = IF table < Tables THEN "poll"
           ELSE IF final_flush THEN "finish" ELSE "next"

\* The poller's loop test: another chunk to push, or this table is done.
Poll ==
  /\ pc = "poll"
  /\ IF last_delivered[table] < Deliverable(table)
     THEN pc' = "push" /\ UNCHANGED table
     ELSE AfterTable
  /\ UNCHANGED <<final_flush, ok, cancelled, blocks, soa, last_delivered,
                 queue, ownerVars, readerVars>>

Descriptor(t) ==
  [chunk |-> last_delivered[t], rows |-> chunk_at(soa[t], last_delivered[t])]

\* push: a stop is looked at before room is.  With neither, the thread waits
\* and, as the wait is timed, looks again.
PushStores ==
  /\ pc = "push" /\ ~stop /\ HasRoom(queue[table])
  /\ queue' = [queue EXCEPT ![table] = Pushed(@, Descriptor(table))]
  /\ pc' = "notify"
  /\ UNCHANGED <<table, final_flush, ok, cancelled, blocks, soa,
                 last_delivered, ownerVars, readerVars>>

\* Slip: a stop is only seen once there is room.
PushCancelledWithRoom ==
  /\ pc = "push" /\ stop /\ HasRoom(queue[table])
  /\ IF final_flush THEN AfterTable /\ UNCHANGED ok
                    ELSE ok' = FALSE /\ pc' = "settle" /\ UNCHANGED table
  /\ UNCHANGED <<final_flush, cancelled, blocks, soa, last_delivered, queue,
                 ownerVars, readerVars>>

\* A push that returns false ends the feeding; on the final flush it only ends
\* this table's poll.
PushCancelled ==
  /\ pc = "push" /\ stop
  /\ IF final_flush THEN AfterTable /\ UNCHANGED ok
                    ELSE ok' = FALSE /\ pc' = "settle" /\ UNCHANGED table
  /\ UNCHANGED <<final_flush, cancelled, blocks, soa, last_delivered, queue,
                 ownerVars, readerVars>>

\* After the unlock: notify_one, then the poller counts the chunk.
Notify ==
  /\ pc = "notify"
  /\ \E c \in NotifyOne(queue[table]) : queue' = [queue EXCEPT ![table] = c]
  /\ last_delivered' = [last_delivered EXCEPT ![table] = @ + 1]
  /\ pc' = "poll"
  /\ UNCHANGED <<table, final_flush, ok, cancelled, blocks, soa, ownerVars,
                 readerVars>>

\* Slip: the tail is not flushed.
SettleUnflushed ==
  /\ pc = "settle"
  /\ cancelled' = stop
  /\ pc' = "finish" /\ table' = 1
  /\ UNCHANGED <<final_flush, ok, blocks, soa, last_delivered, queue,
                 ownerVars, readerVars>>

\* done_feeding: flush the tables unless the session was cancelled.
Settle ==
  /\ pc = "settle"
  /\ cancelled' = stop
  /\ pc' = IF stop THEN "finish" ELSE "poll"
  /\ table' = 1
  /\ final_flush' = ~stop
  /\ UNCHANGED <<ok, blocks, soa, last_delivered, queue, ownerVars, readerVars>>

\* Slip: the last queue is never finished.
FinishAllButLast ==
  /\ pc = "finish"
  /\ IF table < Tables
     THEN /\ queue' = [queue EXCEPT ![table] = finish(@, ~(ok \/ cancelled))]
          /\ table' = table + 1 /\ UNCHANGED pc
     ELSE pc' = "exited" /\ UNCHANGED <<table, queue>>
  /\ UNCHANGED <<final_flush, ok, cancelled, blocks, soa, last_delivered,
                 ownerVars, readerVars>>

\* finish on each queue in turn; then the thread exits.
Finish ==
  /\ pc = "finish"
  /\ queue' = [queue EXCEPT ![table] = finish(@, ~(ok \/ cancelled))]
  /\ IF table < Tables THEN table' = table + 1 /\ UNCHANGED pc
                       ELSE pc' = "exited" /\ UNCHANGED table
  /\ UNCHANGED <<final_flush, ok, cancelled, blocks, soa, last_delivered,
                 ownerVars, readerVars>>

Producer ==
  \/ Scan \/ OtherBlock \/ PacketBlock \/ LeaveLoop
  \/ \E t \in Table : FeedRow(t)
  \/ Fed \/ Poll \/ PushStores \/ PushCancelled \/ Notify \/ Settle \/ Finish

-----------------------------------------------------------------------------
(* A reader: get_next() calls pop() *)

Blocked(r) == r \in queue[TableOf[r]].waiting
Running(r) == reader[r] = "popping" /\ ~Blocked(r)

GetNext(r) ==
  /\ reader[r] = "idle"
  /\ reader' = [reader EXCEPT ![r] = "popping"]
  /\ UNCHANGED <<producerVars, queue, ownerVars, received>>

PopWaits(r) ==
  /\ Running(r) /\ MustWait(queue[TableOf[r]])
  /\ queue' = [queue EXCEPT ![TableOf[r]] = Waits(@, r)]
  /\ UNCHANGED <<producerVars, ownerVars, readerVars>>

PopTakes(r) ==
  LET t == TableOf[r]
  IN /\ Running(r) /\ queue[t].q # <<>>
     /\ received' = [received EXCEPT ![t] = Append(@, Head(queue[t].q))]
     /\ queue' = [queue EXCEPT ![t] = Popped(@)]
     /\ reader' = [reader EXCEPT ![r] = "idle"]
     /\ UNCHANGED <<producerVars, ownerVars>>

\* The queue is drained and marked: a clean end, or the error is raised.
PopEnds(r) ==
  LET t == TableOf[r]
  IN /\ Running(r) /\ queue[t].q = <<>> /\ queue[t].done
     /\ reader' = [reader EXCEPT ![r] = IF queue[t].error THEN "failed" ELSE "ended"]
     /\ UNCHANGED <<producerVars, queue, ownerVars, received>>

\* A condition variable may wake a thread for no reason.
SpuriousWake(r) ==
  /\ Blocked(r)
  /\ queue' = [queue EXCEPT ![TableOf[r]] = Wakes(@, r)]
  /\ UNCHANGED <<producerVars, ownerVars, readerVars>>

Read(r) == GetNext(r) \/ PopWaits(r) \/ PopTakes(r) \/ PopEnds(r)

-----------------------------------------------------------------------------
(* The owner: ~StreamingArrowSession *)

Drop ==
  /\ owner = "using"
  /\ stop' = TRUE
  /\ owner' = "waking" /\ waking' = 1
  /\ UNCHANGED <<producerVars, queue, readerVars>>

WakeAll ==
  /\ owner = "waking"
  /\ queue' = [queue EXCEPT ![waking] = wake_all(@)]
  /\ IF waking < Tables THEN waking' = waking + 1 /\ UNCHANGED owner
                        ELSE owner' = "joining" /\ UNCHANGED waking
  /\ UNCHANGED <<producerVars, stop, readerVars>>

\* join, then the members go: the tables are freed.
Join ==
  /\ owner = "joining" /\ pc = "exited"
  /\ owner' = "gone"
  /\ UNCHANGED <<producerVars, queue, stop, waking, readerVars>>

Teardown == WakeAll \/ Join

-----------------------------------------------------------------------------

\* Everything has come to its end.
Finished ==
  /\ owner = "gone"
  /\ \A r \in Reader : reader[r] \in {"ended", "failed"}
  /\ UNCHANGED vars

Next ==
  \/ Producer
  \/ \E r \in Reader : Read(r) \/ SpuriousWake(r)
  \/ Drop \/ Teardown
  \/ Finished

Spec == Init /\ [][Next]_vars

\* The scheduler runs the decode thread and a destructor under way; readers
\* may stop reading at any point.
ThreadSpec == Spec /\ WF_vars(Producer) /\ WF_vars(Teardown)

\* Every reader, too, keeps reading until its stream ends: none rests for ever
\* between two calls, none is left unscheduled for ever inside one.  (Of the
\* steps, only Read(r) leaves either state: this is WF_vars(Read(r)).)
KeepReading == \A r \in Reader : []<>(reader[r] # "idle") /\ []<>~Running(r)

-----------------------------------------------------------------------------
(* Properties *)

Pc == {"scan", "next", "feed", "poll", "push", "notify", "settle", "finish",
       "exited"}

\* What has left table t through its queue, taken or not.
Stream(t) == received[t] \o queue[t].q

\* A chunk is in queue t and its notify_one is still to come.
Pending(t) == IF pc = "notify" /\ table = t THEN 1 ELSE 0

RunningOn(t) == {r \in Reader : TableOf[r] = t /\ Running(r)}

\* Types of the three threads' state.
TypeOK ==
  /\ pc \in Pc /\ table \in Table /\ blocks \in 0..MaxBlocks
  /\ {final_flush, ok, cancelled, stop} \subseteq BOOLEAN
  /\ last_delivered \in [Table -> Nat]
  /\ \A t \in Table : soa[t].open \in 0..(ChunkRows - 1)
  /\ owner \in {"using", "waking", "joining", "gone"} /\ waking \in Table
  /\ reader \in [Reader -> {"idle", "popping", "ended", "failed"}]

\* The stream is the table: the chunks handed over are the table's first ones,
\* in order, none twice and none left out, and each still has the rows it had
\* when its descriptor was made (only sealed chunks leave before the flush).
StreamIsPrefix ==
  \A t \in Table :
    /\ Len(Stream(t)) = last_delivered[t] + Pending(t)
    /\ \A n \in 1..Len(Stream(t)) :
         /\ n <= chunk_count(soa[t])
         /\ Stream(t)[n] = [chunk |-> n - 1, rows |-> chunk_at(soa[t], n - 1)]

\* No wake-up is lost: while a reader is blocked, each queued chunk has a
\* running reader or the producer's pending notify_one to fetch it, and after
\* finish nobody is blocked.
NoLostWakeup ==
  \A t \in Table :
    /\ queue[t].waiting # {} =>
         Len(queue[t].q) <= Cardinality(RunningOn(t)) + Pending(t)
    /\ queue[t].done => queue[t].waiting = {}

\* A clean end of stream is the end of the table: unless the session is being
\* dropped, a reader that saw it has left nothing behind, and the file was
\* well-formed (a scan error is never turned into an empty table).
CleanEndIsComplete ==
  \A r \in Reader :
    reader[r] = "ended" /\ ~stop =>
      /\ ok
      /\ Len(received[TableOf[r]]) = chunk_count(soa[TableOf[r]])

\* Each table's stream keeps the promise of TableStream: bounded, in order,
\* full batches but the last, one end, errors only without rows.
Promise(t) == INSTANCE TableStream WITH
  sent  <- [n \in 1..Len(Stream(t)) |-> Stream(t)[n].rows],
  taken <- Len(received[t]),
  end   <- IF ~queue[t].done THEN "open"
           ELSE IF queue[t].error THEN "error" ELSE "clean"

KeepsPromise ==
  /\ \A t \in Table : Promise(t)!Init
  /\ [][\A t \in Table : [Promise(t)!Next]_(Promise(t)!vars)]_vars

\* When every stream's readers keep reading, all come to the end of theirs.
ReadersFinish == KeepReading => <>(\A r \in Reader : reader[r] \in {"ended", "failed"})

\* A dropped session goes away, whether or not anybody still reads: the
\* destructor's join never waits on a full queue ("requests cancellation and
\* joins the background thread").
DropReturns == owner = "waking" ~> owner = "gone"

\* A chunk a reader can still be given, or was given, lies in live memory:
\* "the underlying AllTables is kept alive" (get_next).
ChunksAreAlive ==
  \A t \in Table : Stream(t) # <<>> => owner # "gone"
=============================================================================
