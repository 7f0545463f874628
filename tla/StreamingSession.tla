-------------------------- MODULE StreamingSession --------------------------
(***************************************************************************)
(* StreamingDecodeSession (include/nanom_shark/streaming.hpp) with the     *)
(* per-packet visitor it drives (packet_visitor.hpp) and its two           *)
(* reassembly tables (module Defrag), seen together with the caller that   *)
(* owns the packet buffers.                                                *)
(*                                                                         *)
(* The caller hands a block over in a buffer named by a token and may      *)
(* reuse the buffer once the session has reported the token released.      *)
(* feed_epb runs to completion before the next call, in the phases of the  *)
(* code: walk the packet (each fragment it carries goes to a table, and a  *)
(* datagram it completes is dispatched and then retired), sweep the IPv4   *)
(* and then the IPv6 table, settle the pins and return.                    *)
(*                                                                         *)
(* A definition marked "Slip" is the one after it with a mistake in it.    *)
(***************************************************************************)
EXTENDS Defrag, Functions

CONSTANTS
  Token,        \* the caller's buffers
  Key,          \* reassembly keys
  Config,       \* Config[v]: ReassemblyTable::Config of the IPv4 / IPv6 table
  Fragments,    \* Fragments[v]: what an IPv4 / IPv6 fragment carries
  MaxPackets,   \* bound: packets decoded
  MaxHeaders    \* Fragment headers one IPv6 packet may chain (64 in the code)

Version == {4, 6}

ASSUME SessionAssumption ==
  /\ kNoToken \notin Token
  /\ MaxPackets \in Nat
  /\ MaxHeaders \in Nat
  /\ \A v \in Version : /\ Config[v].max_datagram_bytes \in Nat
                        /\ Config[v].max_concurrent \in Nat
                        /\ Config[v].timeout_ticks \in Nat
                        /\ \A f \in Fragments[v] : /\ f.offset \in Nat
                                                    /\ f.more \in BOOLEAN
                                                    /\ f.data \in Seq(Nat)

VARIABLES
  defrag,       \* defrag_: the two reassembly tables
  pid,          \* pid_: the id of the packet being decoded
  tracking,     \* tracking_: a tracked token has been fed
  pins,         \* pins_: spans per buffer; 0 where the map has no entry
  rows,         \* the datagram table
  pc,           \* where in feed_epb the session is
  token,        \* feed_epb's token
  headers,      \* Fragment headers walked in this packet
  done,         \* the datagram this packet has just completed
  pin_count,    \* the visitor's pin_count
  retired,      \* the visitor's retired_tokens, counted per token
  released,     \* FeedResult::released, counted per token
  pinned,       \* FeedResult::pinned
  held          \* the caller: buffers handed over and not yet given back

callVars == <<token, headers, done, pin_count, retired>>
resultVars == <<released, pinned>>
vars == <<defrag, pid, tracking, pins, rows, pc, callVars, resultVars, held>>

None == [version |-> 4, id |-> 0, resume |-> "evict4"]
NoCount == [t \in Token |-> 0]

\* unpin, applied n times to a count of p: what is left, and whether this is
\* where the buffer is reported free (a token without a pin is ignored).
Unpinned(p, n) == IF n < p THEN p - n ELSE 0

\* Slip: the last pin is never the last.
FreedLate(p, n) == IF 0 < p /\ p < n THEN 1 ELSE 0

Freed(p, n) == IF 0 < p /\ p <= n THEN 1 ELSE 0

\* Slip: the list is not searched first.
OwnReleasedAgain(rel, t) ==
  IF t \in Token THEN [rel EXCEPT ![t] = @ + 1] ELSE rel

\* release_own_token: unless untracked, or reported already.
OwnReleased(rel, t) ==
  IF t \in Token THEN [rel EXCEPT ![t] = IF @ = 0 THEN 1 ELSE @] ELSE rel

\* The caller takes back what a result reports.
TakenBack(rel) == {t \in Token : rel[t] > 0}

Init ==
  /\ defrag = [v \in Version |-> EmptyTable]
  /\ pid = 0
  /\ tracking = FALSE
  /\ pins = NoCount
  /\ rows = <<>>
  /\ pc = "idle"
  /\ token = kNoToken /\ headers = 0 /\ done = None
  /\ pin_count = 0 /\ retired = NoCount
  /\ released = NoCount /\ pinned = FALSE
  /\ held = {}

-----------------------------------------------------------------------------
(* feed_epb *)

\* The buffers the caller may hand over: one it has, or an untracked one.
Feedable(t) == t \in (Token \ held) \cup {kNoToken}

\* A block parse_epb rejects is released at once; the packet id stays.
FeedMalformed(t) ==
  /\ pc = "idle" /\ Feedable(t)
  /\ tracking' = (tracking \/ t # kNoToken)
  /\ released' = OwnReleased(NoCount, t)
  /\ pinned' = FALSE
  /\ token' = t
  /\ UNCHANGED <<defrag, pid, pins, rows, pc, headers, done, pin_count,
                 retired, held>>

\* Slip: the visitor's count is carried over from the last packet.
FeedEpbKeepsCount(t) ==
  /\ pc = "idle" /\ Feedable(t) /\ pid < MaxPackets
  /\ tracking' = (tracking \/ t # kNoToken)
  /\ held' = held \cup ({t} \cap Token)
  /\ token' = t /\ headers' = 0 /\ done' = None
  /\ retired' = NoCount
  /\ released' = NoCount /\ pinned' = FALSE
  /\ pc' = "walk"
  /\ UNCHANGED <<defrag, pid, pins, rows, pin_count>>

\* A block that parses: the visitor is set up and the walk begins.
FeedEpb(t) ==
  /\ pc = "idle" /\ Feedable(t) /\ pid < MaxPackets
  /\ tracking' = (tracking \/ t # kNoToken)
  /\ held' = held \cup ({t} \cap Token)
  /\ token' = t /\ headers' = 0 /\ done' = None
  /\ pin_count' = 0 /\ retired' = NoCount
  /\ released' = NoCount /\ pinned' = FALSE
  /\ pc' = "walk"
  /\ UNCHANGED <<defrag, pid, pins, rows>>

\* Slip: the completed entry is retired before it is dispatched.
GiveFragmentRetired(v, key, f) ==
  LET result == add_fragment(Config[v], defrag[v], key, pid, f.offset, f.more,
                             f.data, token)
      resume == IF v = 6 /\ f.offset = 0 THEN "chain" ELSE "evict4"
  IN /\ defrag' = [defrag EXCEPT ![v] = retire(result.table, result.datagram_id)]
     /\ pin_count' = pin_count + (IF result.retained THEN 1 ELSE 0)
     /\ headers' = headers + 1
     /\ done' = IF result.completed
                THEN [version |-> v, id |-> result.datagram_id, resume |-> resume]
                ELSE None
     /\ pc' = IF result.completed THEN "complete" ELSE resume
     /\ UNCHANGED <<pid, tracking, pins, rows, token, retired, resultVars, held>>

\* on_ipv4 / on_fragment hand a fragment to the table of IP version v.
GiveFragment(v, key, f) ==
  LET result == add_fragment(Config[v], defrag[v], key, pid, f.offset, f.more,
                             f.data, token)
      resume == IF v = 6 /\ f.offset = 0 THEN "chain" ELSE "evict4"
  IN /\ defrag' = [defrag EXCEPT ![v] = result.table]
     /\ pin_count' = pin_count + (IF result.retained THEN 1 ELSE 0)
     /\ headers' = headers + 1
     /\ done' = IF result.completed
                THEN [version |-> v, id |-> result.datagram_id, resume |-> resume]
                ELSE None
     /\ pc' = IF result.completed THEN "complete" ELSE resume
     /\ UNCHANGED <<pid, tracking, pins, rows, token, retired, resultVars, held>>

\* An IPv4 packet carries at most one fragment.
OnIpv4(key, f) == pc = "walk" /\ GiveFragment(4, key, f)

\* An IPv6 packet may chain Fragment headers as long as their offset is 0.
OnFragment(key, f) ==
  /\ pc \in {"walk", "chain"}
  /\ headers < MaxHeaders
  /\ GiveFragment(6, key, f)

\* Nothing (more) to hand over: no fragment, or the end of the header chain.
WalkDone ==
  /\ pc \in {"walk", "chain"}
  /\ pc' = "evict4"
  /\ UNCHANGED <<defrag, pid, tracking, pins, rows, callVars, resultVars, held>>

\* complete_datagram, first half: the row, and the dispatch over the parts.
Entry(d) == defrag[d.version].by_id[d.id]

Complete ==
  /\ pc = "complete"
  /\ rows' = Append(rows, [version |-> done.version, id |-> done.id, status |-> 0])
  /\ pc' = "retire"
  /\ UNCHANGED <<defrag, pid, tracking, pins, callVars, resultVars, held>>

\* complete_datagram, second half: retire, if the caller tracks buffers.  The
\* walk then goes on where the fragment left it.
Retire ==
  /\ pc = "retire"
  /\ IF tracking
     THEN LET t == defrag[done.version]
              dropped == IF Retirable(t, done.id) THEN {done.id} ELSE {}
          IN /\ defrag' = [defrag EXCEPT ![done.version] = retire(t, done.id)]
             /\ retired' = [u \in Token |->
                              retired[u] + Cardinality(SpansOf(t, dropped, u))]
     ELSE UNCHANGED <<defrag, retired>>
  /\ pc' = done.resume
  /\ UNCHANGED <<pid, tracking, pins, rows, token, headers, done, pin_count,
                 resultVars, held>>

\* Slip: only what timed out is reported.
SweepRowsTimedOut(v) ==
  {[version |-> v, id |-> s.datagram_id, status |-> s.completion_status] :
     s \in {s \in Summaries(Config[v], defrag[v], pid) : s.completion_status = 1}}

\* The rows a sweep of table v emits: everything but what was complete.
SweepRows(v) ==
  {[version |-> v, id |-> s.datagram_id, status |-> s.completion_status] :
     s \in {s \in Summaries(Config[v], defrag[v], pid) : s.completion_status # 0}}

\* The order of a sweep over an unordered_map is nobody's promise.
InSomeOrder(S) == CHOOSE list \in Bijection(1..Cardinality(S), S) : TRUE

\* evict_stale on one table, with the rows and the unpinning around it.
Sweep(v) ==
  LET stale == StaleIds(Config[v], defrag[v], pid)
      dropped == [u \in Token |-> Cardinality(SpansOf(defrag[v], stale, u))]
  IN /\ defrag' = [defrag EXCEPT ![v] = evict_stale(Config[v], @, pid)]
     /\ pins' = [u \in Token |-> Unpinned(pins[u], dropped[u])]
     /\ released' = [u \in Token |-> released[u] + Freed(pins[u], dropped[u])]
     /\ rows' = rows \o InSomeOrder(SweepRows(v))
     /\ UNCHANGED <<pid, tracking, callVars, pinned, held>>

EvictIpv4 == pc = "evict4" /\ Sweep(4) /\ pc' = "evict6"
EvictIpv6 == pc = "evict6" /\ Sweep(6) /\ pc' = "settle"

\* Slip: a flag where the code counts.
PinsFlagged ==
  [u \in Token |-> pins[u] + (IF u = token /\ pin_count > 0 THEN 1 ELSE 0)]

\* pins_[token] += pins_added: what the packet left behind is now on record.
PinsAdded == [u \in Token |-> pins[u] + (IF u = token THEN pin_count ELSE 0)]

\* Slip: the retired pins are dropped before the packet's own are on record.
ReturnUnpinsFirst ==
  /\ pc = "settle"
  /\ pid' = pid + 1
  /\ pins' = [u \in Token |-> Unpinned(pins[u], retired[u])
                             + (IF u = token THEN pin_count ELSE 0)]
  /\ pinned' = (token \in Token /\ pins'[token] > 0)
  /\ LET rel == [u \in Token |-> released[u] + Freed(pins[u], retired[u])]
     IN released' = IF pinned' THEN rel ELSE OwnReleased(rel, token)
  /\ held' = held \ TakenBack(released')
  /\ pc' = "idle"
  /\ UNCHANGED <<defrag, tracking, rows, callVars>>

\* The tail of feed_epb: count the pins, unpin what was retired, decide
\* whether the packet's own buffer stays, and return to the caller.
Return ==
  /\ pc = "settle"
  /\ pid' = pid + 1
  /\ pins' = [u \in Token |-> Unpinned(PinsAdded[u], retired[u])]
  /\ pinned' = (token \in Token /\ pins'[token] > 0)
  /\ LET rel == [u \in Token |-> released[u] + Freed(PinsAdded[u], retired[u])]
     IN released' = IF pinned' THEN rel ELSE OwnReleased(rel, token)
  /\ held' = held \ TakenBack(released')
  /\ pc' = "idle"
  /\ UNCHANGED <<defrag, tracking, rows, callVars>>

Next ==
  \/ \E t \in Token \cup {kNoToken} : FeedMalformed(t) \/ FeedEpb(t)
  \/ \E key \in Key : \/ \E f \in Fragments[4] : OnIpv4(key, f)
                      \/ \E f \in Fragments[6] : OnFragment(key, f)
  \/ WalkDone \/ Complete \/ Retire \/ EvictIpv4 \/ EvictIpv6 \/ Return

Spec == Init /\ [][Next]_vars

-----------------------------------------------------------------------------
(* Properties *)

\* What a packet may be fed with, and whether feed_epb is at work on one.
AnyToken == Token \cup {kNoToken}
InCall == pc # "idle"

\* The spans of both tables that point into buffer u.
TableSpans(v, u) == SpansOf(defrag[v], DOMAIN defrag[v].by_id, u)
SpanCount(u) == Cardinality(TableSpans(4, u)) + Cardinality(TableSpans(6, u))

\* Some part of a completed datagram points into buffer u.
Viewed(u) ==
  \E v \in Version : \E i \in DOMAIN defrag[v].by_id :
    \E n \in DOMAIN defrag[v].by_id[i].parts :
      defrag[v].by_id[i].parts[n].token = u

\* Types of the session's own state.
TypeOK ==
  /\ pid \in 0..MaxPackets
  /\ {tracking, pinned} \subseteq BOOLEAN
  /\ pins \in [Token -> Nat] /\ retired \in [Token -> Nat]
  /\ released \in [Token -> Nat]
  /\ pc \in {"idle", "walk", "chain", "complete", "retire", "evict4", "evict6",
             "settle"}
  /\ token \in Token \cup {kNoToken}
  /\ headers \in 0..Larger(1, MaxHeaders) /\ pin_count \in 0..headers
  /\ held \subseteq Token

\* The buffer contract, safety: no stored span ever points into a buffer the
\* caller has got back.
NoDanglingSpan ==
  \A v \in Version, u \in Token : TableSpans(v, u) # {} => u \in held

\* The same of the parts of a completed datagram.
NoDanglingView ==
  \A u \in Token : Viewed(u) => u \in held

\* The pin counts are the truth: between calls pins_ counts, for each buffer,
\* the spans of both tables into it, so that the last unpin is the last span
\* (streaming.hpp counts instead of flagging for exactly this).
PinsAreExact ==
  pc = "idle" => \A u \in Token : pins[u] = SpanCount(u)

\* The buffer contract, economy: between calls the buffers the caller is
\* without are the pinned ones, so a pool of pinned_buffers() + 1 suffices.
HeldIsPinned ==
  pc = "idle" => held = {u \in Token : pins[u] > 0}

\* No buffer is reported free twice, and none the session does not have.
ReleasedOnce ==
  [][\A u \in Token :
       /\ released'[u] <= 1
       /\ released'[u] > released[u] => u \in held \/ u = token']_vars

\* FeedResult::pinned means what it says: a reassembly that has not finished
\* holds a span into this block's buffer.
PinnedIsJustified ==
  pc = "idle" /\ pinned =>
    \E v \in Version : \E i \in DOMAIN defrag[v].by_id :
      /\ ~defrag[v].by_id[i].completed
      /\ \E n \in DOMAIN defrag[v].by_id[i].fragments :
           defrag[v].by_id[i].fragments[n].token = token

\* Dispatch reads a whole datagram: when complete_datagram runs, the entry is
\* still there, its parts add up to the declared length, and every buffer they
\* show is one the session still has (retire only comes after dispatch).
DispatchSeesDatagram ==
  pc = "complete" =>
    /\ done.id \in DOMAIN defrag[done.version].by_id
    /\ Entry(done).completed /\ ~Entry(done).retired
    /\ Len(Bytes(Entry(done).parts)) = Entry(done).total_length
    /\ \A n \in DOMAIN Entry(done).parts :
         Entry(done).parts[n].token \in held \cup {kNoToken}

\* Nothing lingers: after a packet, every entry was touched less than
\* timeout_ticks packets ago, so a buffer whose datagram stalls comes back
\* within that many packets.
NothingStale ==
  pc = "idle" =>
    \A v \in Version : \A i \in DOMAIN defrag[v].by_id :
      pid <= defrag[v].by_id[i].last_packet_id + Config[v].timeout_ticks

RowsOf(v, i, s) ==
  {n \in DOMAIN rows : rows[n] = [version |-> v, id |-> i, status |-> s]}

\* An open datagram has no row yet, a completed one its one complete row, and
\* one that left the table at least one row, of which timed_out excludes the
\* others.
RowsAddUp ==
  \A v \in Version : \A i \in 1..(defrag[v].next_id - 1) :
    LET n(s) == Cardinality(RowsOf(v, i, s))
        live == i \in DOMAIN defrag[v].by_id
        fresh == pc = "complete" /\ done.version = v /\ done.id = i
    IN /\ n(0) <= 1 /\ n(1) + n(3) <= 1 /\ n(0) + n(1) <= 1
       /\ live => n(1) + n(3) = 0
       /\ live => (n(0) = 1 <=> defrag[v].by_id[i].completed /\ ~fresh)
       /\ ~live => n(0) + n(1) + n(3) > 0

\* The rows an entry that leaves the table must have got: complete if it was
\* completed, overlap_conflict if it was in conflict, timed_out if neither.  The
\* code lets an entry be both (see ConflictNeverCompletes); it has two rows then.
Due(r, s) ==
  CASE s = 0 -> r.completed
    [] s = 3 -> r.conflict
    [] s = 1 -> ~r.completed /\ ~r.conflict

\* Every datagram is accounted for, and by what became of it: the rows add up
\* after every step, one that leaves its table has exactly the rows due to it, each
\* once, and the rows of one that has left stay as they are.
EveryDatagramReported ==
  [][/\ RowsAddUp'
     /\ \A v \in Version : \A i \in 1..(defrag[v].next_id - 1) : \A s \in {0, 1, 3} :
          i \notin DOMAIN defrag'[v].by_id =>
            Cardinality(RowsOf(v, i, s)') =
              IF i \in DOMAIN defrag[v].by_id
              THEN IF Due(defrag[v].by_id[i], s) THEN 1 ELSE 0
              ELSE Cardinality(RowsOf(v, i, s))]_vars

\* What a call hands out or reports is so: views lie in buffers the session
\* has, dispatch sees the whole datagram, and a buffer called pinned carries a
\* span (complete_datagram, the result of feed_epb).
AnswersAreTrue == NoDanglingView /\ DispatchSeesDatagram /\ PinnedIsJustified
=============================================================================
