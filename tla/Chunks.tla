------------------------------- MODULE Chunks -------------------------------
(***************************************************************************)
(* Where the rows of a table become chunks, and how the chunks travel.     *)
(*                                                                         *)
(* soa<T> (include/nanom/soa.hpp), the chunked column table, as operators  *)
(* on a table value: the chunks sealed so far and the open one, each as    *)
(* its number of rows.  What the rows hold does not matter here; whether a *)
(* chunk can still grow does.                                              *)
(*                                                                         *)
(* ChunkQueue (bindings/python/nanom_shark/chunk_queue.hpp), the bounded   *)
(* handoff between the decode thread and the readers of one table, as      *)
(* operators on a queue value.  Each operator is one critical section, or  *)
(* one notification made outside it.  `waiting` holds the threads blocked  *)
(* on cv_consumer_.  A thread blocked on cv_producer_ needs no such        *)
(* record: its wait ends by itself after a few milliseconds, so a          *)
(* notification only shortens it.                                          *)
(*                                                                         *)
(* A definition marked "Slip" is the one after it with a mistake in it.    *)
(***************************************************************************)
EXTENDS Integers, Sequences

CONSTANTS
  ChunkRows,    \* chunk_rows_: rows at which a chunk is sealed
  Bound         \* bound_: chunks the queue holds

ASSUME ChunkAssumption == ChunkRows \in Nat \ {0}
ASSUME BoundAssumption == Bound \in Nat

-----------------------------------------------------------------------------
(* soa<T> *)

NewSoa == [sealed |-> <<>>, open |-> 0]

\* seal: the open chunk, if it has rows, joins the sealed ones.
seal(s) ==
  IF s.open = 0 THEN s
                ELSE [sealed |-> Append(s.sealed, s.open), open |-> 0]

\* push: one more row, and a full chunk is sealed at once.
push(s) ==
  LET grown == [s EXCEPT !.open = @ + 1]
  IN IF grown.open = ChunkRows THEN seal(grown) ELSE grown

\* chunk_count: the open chunk counts when it is not empty.
chunk_count(s) == Len(s.sealed) + (IF s.open > 0 THEN 1 ELSE 0)

\* The rows of chunk_at(i); i counts from 0.
chunk_at(s, i) == IF i < Len(s.sealed) THEN s.sealed[i + 1] ELSE s.open

-----------------------------------------------------------------------------
(* ChunkQueue *)

NewQueue == [q |-> <<>>, done |-> FALSE, error |-> FALSE, waiting |-> {}]

\* Slip: one chunk too many.
HasRoomForOneMore(c) == Len(c.q) <= Bound

\* push waits until this holds.
HasRoom(c) == Len(c.q) < Bound

Pushed(c, d) == [c EXCEPT !.q = Append(@, d)]

\* Slip: nobody is notified.
NotifyNobody(c) == {c}

\* notify_one: some blocked thread, if there is one, runs again.
NotifyOne(c) ==
  IF c.waiting = {} THEN {c}
                    ELSE {[c EXCEPT !.waiting = @ \ {r}] : r \in c.waiting}

\* finish: the end mark, the error, and every blocked thread runs again.
finish(c, error) ==
  [c EXCEPT !.done = TRUE, !.error = error, !.waiting = {}]

wake_all(c) == [c EXCEPT !.waiting = {}]

\* pop's wait condition, negated: nothing queued and the end not reached.
MustWait(c) == c.q = <<>> /\ ~c.done

Waits(c, r) == [c EXCEPT !.waiting = @ \cup {r}]
Wakes(c, r) == [c EXCEPT !.waiting = @ \ {r}]

Popped(c) == [c EXCEPT !.q = Tail(@)]
=============================================================================
