---------------------------- MODULE TableStream ----------------------------
(***************************************************************************)
(* What a table's Arrow stream promises its readers, whatever the threads  *)
(* behind it do: a sequence of batches, handed over in order and each one  *)
(* once, of which only the last may be shorter than a full chunk; at most  *)
(* `Bound` of them wait unread; and one end, after which none is added.  A *)
(* stream that ends in an error has produced nothing.                      *)
(***************************************************************************)
EXTENDS Integers, Sequences

CONSTANTS
  Bound,        \* batches produced and not yet taken
  ChunkRows     \* rows of a full batch

VARIABLES
  sent,         \* the batches produced so far, as their row counts
  taken,        \* how many of them were handed over
  end           \* "open", "clean" or "error"

vars == <<sent, taken, end>>

Init == sent = <<>> /\ taken = 0 /\ end = "open"

Send(rows) ==
  /\ end = "open"
  /\ Len(sent) - taken < Bound
  /\ \A i \in DOMAIN sent : sent[i] = ChunkRows
  /\ sent' = Append(sent, rows)
  /\ UNCHANGED <<taken, end>>

Take ==
  /\ taken < Len(sent)
  /\ taken' = taken + 1
  /\ UNCHANGED <<sent, end>>

Close ==
  /\ end = "open"
  /\ \/ end' = "clean"
     \/ end' = "error" /\ sent = <<>>
  /\ UNCHANGED <<sent, taken>>

Next == (\E rows \in 1..ChunkRows : Send(rows)) \/ Take \/ Close

Spec == Init /\ [][Next]_vars
=============================================================================
