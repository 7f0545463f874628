# Formal models of nanom

TLA+ specifications of nanom and nanom_shark: IP reassembly, the streaming decode
session and its buffer contract, the threaded Arrow stream of the Python binding, capture
files and the packet walk, the parser combinators, wire structs and views, the columnar
kernels and codecs, and the tagged message codecs. TLC checks them on small instances;
TLAPS proves the properties of the stateful parts for every value of the constants.

## The system and its modules

| Part | Source | Modules | What is hard |
|---|---|---|---|
| Reassembly table | `nanom_shark/defrag.hpp` | `Defrag`, `ReassemblyTable` | overlaps, duplicates, an end that moves, stale keys, limits |
| Streaming session | `streaming.hpp`, `packet_visitor.hpp` | `StreamingSession` | spans into buffers that are reused; several fragment headers in one packet; three ways a buffer becomes free in one call |
| Column table, chunk queue | `nanom/soa.hpp`, `chunk_queue.hpp` | `Chunks` | the last chunk may still grow; notification outside the lock |
| Arrow session | `streaming_arrow.hpp`, `nanom_shark_ext.cpp` | `StreamingArrow`, `TableStream` | decode thread, readers and owner interleave; ends, errors, lifetime |
| Capture files, batch pass | `pcap.hpp`, `decode_pass.hpp` | `PcapBlocks`, `CaptureDecode` | lengths from the file, byte order per section, two entry points |
| Packet walk, L4 dispatch | `protocols.hpp`, `l4_dispatch.hpp` | `PacketWalk` | header chains, windows, one dispatch per packet |
| Registry and decoders | `protocol.hpp`, `gptp.hpp`, `lldp.hpp`, `someip.hpp`, `json_tree.hpp` | `SharkProtocols` | nested item lists; the rows and the tree describe the same packet |
| Combinators | `nanom/nom.hpp` | `NomInput`, `NomNumbers`, `NomCombinators`, `NomStream` | whole-buffer and streaming mode, loops without progress, overflow |
| Wire structs | `reflect.hpp`, `emit.hpp` | `WireLayout`, `WireViews` | bit fields, computed lengths and checksums, refused writes |
| Segmented input | `segmented.hpp` | `Segmented` | values across part boundaries, empty parts |
| Wire arena | `generation.hpp` | `WireArena` | views of a buffer that has been reused |
| Columnar kernels | `columnar*.hpp`, `values.hpp`, `fastlanes.hpp` | `ColumnarBits`, `RleHybrid`, `ColumnValues`, `DeltaPacked`, `FastLanes`, `ColumnarPages` | word-sized fast paths at the end of a buffer, resumable decoders, wrap-around |
| Codecs | `codec.hpp`, `fsst*.hpp` | `BlockCodec`, `Fsst` | overlapping copies, output that must not be overrun |
| Tagged messages | `tagged*.hpp`, `protobuf*.hpp`, `sink.hpp` | `TaggedModel`, `ThriftCompact`, `Protobuf`, `TaggedMessages` | staged writes into full sinks, unknown fields, lazy members, depth |

How the parts interact. `PcapBlocks` scans a capture and feeds its blocks to a session; a
second session (`twin`) is fed the same blocks one by one, by a caller without a scan. `CaptureDecode`
composes it with what happens between the start and the end of a packet: the session walks it
with `PacketWalk`, hands fragments to `Defrag` tables and payloads to `SharkProtocols`. Each of
its actions is an action of `PcapBlocks` or leaves the variables of `PcapBlocks` alone.
`StreamingSession` composes two `Defrag` tables with the phases of `feed_epb`
(`walk`, `chain`, `complete`, `retire`, `evict4`, `evict6`, `settle`) and with the caller's
pool of buffers (`held`). A session belongs to one thread: its phases are steps so that
properties can look between them, and calls do not interleave. `StreamingArrow` runs a
decode session on a thread of its own and hands sealed chunks through one queue per table to
readers; a queue operator is one critical section, a notification outside the lock is a step
of its own. `WireViews` composes `WireLayout`, `Segmented` and `WireArena`: one buffer is
written, split, parsed, viewed and reused. `ColumnarPages` writes a column, reads it back in
any mix of calls, and applies the kernels without state to one input at a time.
`TaggedMessages` sends messages between programs built against different models.

Data is abstract where no property looks at it: a key, a token and a payload are model
values, a row is counted, a decoder is handed an arbitrary body. Fragment bytes, frame
bytes, packed bits and codec output are real sequences, because properties compare them.
The `MC` modules hold the values for TLC. Definitions marked "Mutant" or "Slip" are deliberate mistakes,
each next to the definition it distorts; they confirm that a property would notice.

## Runs

| Run | Checks | Bounds |
|---|---|---|
| `Reassembly` | `DatagramsAreExact`: what is reported complete, and what `materialize` stitches, is exactly the datagram. `CompletesWhenWhole`: a fragment stored for a datagram not yet in conflict completes it exactly when the reference (`Whole`, `Agreed`, `Connected`) says so, and marks a conflict only where two disagree. `TableIsSound`: the index never leads to a missing or finished entry, limits hold. `CompletedIsFinal`. | 2 interchangeable keys, 4 packets, offsets and lengths 0..2, true and false bytes: holes, overlaps, duplicates and shortened ends all occur; 2 open entries, timeout 2 |
| `Streaming_tokens` | The buffer contract (`NoDanglingSpan`, `PinsAreExact`, `HeldIsPinned`, `ReleasedOnce`), true answers (`AnswersAreTrue`), `NothingStale`, and `EveryDatagramReported`. | 3 interchangeable buffers and an untracked one, 4 packets, 2 chained headers, 2 open datagrams, timeouts 2 and 1; pieces of a two-byte datagram that complete it, disagree, are empty or end it early |
| `Arrow` | `StreamIsPrefix`, `CleanEndIsComplete`, `KeepsPromise` (`TableStream` is implemented), `NoLostWakeup`, `ReadersFinish`, `DropReturns`. | 2 tables, two readers on the first and one on the second, bound 1, chunks of 2 rows, up to 5 rows and 2 blocks; readers may stop and the session may be dropped at any time |
| `Nom_stream` | `ParsersAreExact`: answers lie inside the input; loops, permutations and numbers mean what they should. `DecidedStays`: an answer does not change as bytes arrive. `NeededIsHonest`. | every combinator over a few leaves, some nested; inputs arrive in pieces of up to 2 |
| `Wire_views` | `FramesReadBack`, `CutsNeverShow` (split or joined reads alike), `NoStaleRead`, `NoFalseFault`, `ArenaContract` (every step is a step of `WireArena`). | bit fields on both sides of the fast path, computed length and checksum, a nested struct; the buffer is reused |
| `Capture` | `FramingIsExact`, `SectionsAreKept` (both entry points frame and number packets alike; interfaces belong to their section and both entry points have them, where every interface block has room for its fields), `ReadsStayInside`, `RowsTellOneStory` (one L4 dispatch, message indices join, the tree matches the tables), `PassReturns`. | section header and up to three more blocks, both formats and byte orders, files cut at any byte of a header, unpadded classic records; bytes of one hex digit, item lists up to 2 |
| `Tagged` | `WritersAreExact` (sizes, refusals, what a full sink holds), `ReadersAgree` (prefixes, skippers, lazy members), `RecordsSurvive` (concatenation, unknown fields). | integers of 6 and 15 bits, depth 2, sinks of every capacity, every foreign string over a small alphabet (5 bytes Thrift, 6 protobuf), and structs of two lists under equal and different ids; strings around protobuf's length limit |
| `Columnar` | `ColumnIsDescribed`, `PagesReadBack`, `BlocksAreExact`, `EncodingsReadBack`, `PlacesAreKept`, `LevelsAreTrees`: each kernel, with its word loads, shifts, masks and table bytes, computes its reference definition. | bytes of 3 bits, words of 2 bytes, 6 rows, batches up to 3, blocks of 12 values; FastLanes at real size on symbols, UTF-8 on real bytes |
| `Reassembly_conflict` | violation (`ConflictNeverCompletes`): a datagram in conflict completes | as `Reassembly` |
| `Capture_short_interface` | violation (`EntryPointsAgree`): a short interface block parts the two entry points | as `Capture` |
| `Streaming_zero_timeout` | violation (`PinnedIsJustified`): a timeout of 0 loses a buffer | as `Streaming_tokens` |
| `Arrow_dropped` | violation (`ChunksAreAlive`): chunks outlive the tables | one reader |

Why the bounds suffice. Widths and block sizes that only scale a loop (bits of a byte,
bytes of a word, values of a block, chunk sizes) are constants, set so small that
every fast path, its fallback and the boundary between them are reached by inputs TLC can
enumerate. Limits (open datagrams, queue bound, sink capacity, nesting depth) are set below
what the inputs ask for, so that they bite. Symmetry is used only for keys and buffers, which
the models never order.

Deadlock is checked except in `Nom_stream`, `Wire_views`, `Tagged` and `Columnar`, where a
parse, a message or a sample may simply be done.

Fairness. `ThreadSpec` assumes that the scheduler runs the decode thread and a destructor under
way; the thread blocks only in `push`, whose wait is timed, so it looks again whenever there is
room or a stop. `ReadersFinish` is said of the behaviours in which the consumers play their part
(`KeepReading`): a reader always asks again, and its call to `pop` runs on when it is not blocked.
Spurious wake-ups and the
drop are never assumed to happen. In `Capture` the pass is one thread that runs until it
returns.

Assumptions about the outside: the caller of a tracked session does not hand over a buffer it
has not got back, and uses one buffer per block; the program does not write under an open
arena; packet ids stay below 2^64 (`TickModulus` is that limit, small in the runs but out of reach:
the wrap of the age test is not explored).

## Proofs

Proved for every value of the constants, from the named assumptions on them:

| Theorem | Property | Module |
|---|---|---|
| `DatagramsStayExact`, `CompletionIsDecided` | `DatagramsAreExact`, `CompletesWhenWhole` | `ReassemblyProofs` |
| `TableStaysSound`, `CompletedStaysFinal` | `TableIsSound`, `CompletedIsFinal` | `ReassemblyProofs` |
| `AssembleOK`, `TableKeepsContract` | the completion loop; `TableContract` | `AssemblyProofs` |
| `NoDangling`, `PinsExact`, `PoolSuffices`, `StaleIsSwept`, `NoDoubleRelease` | `NoDanglingSpan`, `PinsAreExact`, `HeldIsPinned`, `NothingStale`, `ReleasedOnce` | `StreamingProofs` |
| `AnswersTrue`, `EveryOneReported` | `AnswersAreTrue`, `EveryDatagramReported` | `StreamingProofs` |
| `StreamsArePrefixes`, `CleanEndsAreComplete`, `NoWakeupIsLost` | `StreamIsPrefix`, `CleanEndIsComplete`, `NoLostWakeup` | `ArrowProofs` |
| `PromiseIsKept` | `KeepsPromise`: the session implements `TableStream` | `ArrowProofs` |
| `FramingExact`, `SectionsApart` | `FramingIsExact`, `SectionsAreKept` | `InputProofs` |
| `StampedReadsAreFresh`, `StaleForGood` | `NoStaleRead`; a stale stamp never becomes valid again | `InputProofs` |

So every safety property of the reassembly, streaming and Arrow runs is a theorem, and so is all
that is said of the framing of captures.

**Completion loop (`AssemblyProofs`).** `AssembleOK` says what the sort and the loop of
`add_fragment` compute for every list of fragments and every declared length: success exactly
when the fragments fill the datagram with no hole in front of one of them and no clash inside
it, and then its bytes; a conflict only when two fragments clash. The loop is a recursive function, so this needs induction over data. The library's
induction theorems take an operator and no installed prover can apply them; `Induction`,
`Recursion` and `RecursionUnique`, which take a *set* of numbers, a function and its step instead,
are proved here from `LeastNat` (a set of naturals has a least one) and applied by
instantiation. `LoopInv` is the loop's invariant: what has been emitted is the
agreed prefix of the datagram. `std::sort` leaves the order of fragments with equal offset open;
`LoopOK` holds for any order that sorts and `OrderIsIrrelevant` removes the choice.

**Table contract.** `TableContract` (end of `Defrag`) is what callers rely on: for
every table, fragment and configuration, which spans `add_fragment`, `retire` and `evict_stale`
add and take away, and what they leave in the entries. The first part of `AssemblyProofs` derives
it from `AssemblyWorks`, the statement of `AssembleOK`; the theorem joins the two.

**One table (`ReassemblyProofs`).** `TableInv` says of each entry whether it is open (no bytes
shown, its fragments do not yet complete), closed (exactly its datagram) and when it was last
touched, and that index and entries agree; that is what keeps `by_id_.at(id)` from failing.
`CompletionIsDecided` speaks of datagrams not marked as a conflict before; what happens to
the others is the subject of `Reassembly_conflict`.

**Session (`StreamingSteps`, `SessionProofs`, `StreamingProofs`).** None of the session's
properties is inductive, because they hold between calls and a call has seven phases.
- `Inv`: each buffer's spans equal its pins, plus this packet's uncounted ones, minus the
  retired ones not yet dropped (`Balance`); this packet's spans sit in entries touched by this
  packet, so that a sweep takes only counted ones (`OwnIsRecent`); what has been released has no
  span left (`Lending`). The hypothesis `TimeoutsWork` says that timeouts are positive and that
  packet id plus timeout stays below the 64-bit limit; `Streaming_zero_timeout` shows why.
- `Views`: what the entries of both tables show, and which may still hold spans of tracked
  buffers. With `Inv` it gives `AnswersTrue`, under `TimeoutsWork` as well.
- `Reports`: which rows the datagram table has for every id given out, in every phase, and
  `Partings`: an entry that leaves has just the rows `Due` to it, each once, and one that has left gets
  no more. They give `EveryOneReported`, and none of them needs an assumption on timeouts. A datagram
  that was in conflict and completed has two rows, complete and overlap_conflict, as the code does.

The step lemmas take three facts as hypotheses: `TableContract`, `Counting` (about
cardinalities) and `Listing` (a finite set of ids can be listed). `StreamingProofs` discharges them and
states the theorems. This keeps the lemmas' context small; nothing is left assumed.

**Arrow session (`ArrowSteps`, `ArrowProofs`).** For any tables, readers, assignment of readers
to tables, bound, chunk size and number of rows. `ArrowInv` adds to the properties:
- `Waiters`: only a reader inside `pop` is blocked, and on its own queue;
- `Control`: what the decode thread's position says of the flags, that a chunk about to be pushed
  exists, and that a queue is ended exactly when `finish` has run on it;
- `Failure`: a scan that fails leaves the tables empty, any other failure is a stop;
- `Frozen`: before the final flush only sealed chunks have left, so that later rows do not
  change a chunk a reader has;
- `Flushed`: an unstopped final flush leaves no chunk behind it;
- `Ends`: a reader at its end saw an ended and drained queue.

The wake-up argument counts: while someone is blocked on a queue, its chunks are at most the
running readers plus the notification under way (`ReadersCount`). For `PromiseIsKept`, the initial states map to initial
states of `TableStream` and, where `ArrowInv` holds, every step maps for each table to a step or a stutter.

**Capture framing (`InputProofs`).** For any set of captures of either format, sequences of bytes of any
length with any number of sections, blocks and interfaces, classic records of any captured length, and
for bytes of 16 and of 256 values. `CaptureAssumption` says that a capture is what its writer
noted of it (`WellWritten`): where each block lies, its kind, byte order, link type or captured
length, and whether it is sound. A block may be cut off at any byte, claim a bad length, be an interface block
too short for its fields, or hold a packet that claims more than fits; TLC evaluates the assumption on the
captures of the run. Neither property is inductive. `ScanInv` adds where the scan stands: at the start of
the block after the last one found, with the byte order of the section, or at the end of the file. `FeedInv`
adds that the two sessions agree, on their interfaces as long as those of the section are whole
(`WholeInterfaces`), that the order the session reports is that of the block fed last, and which packet is
under way. The leaves are about numbers in a byte order: four bytes give one number each way and the
constants are told apart by it (`DigitsUnique`, `ConstantNumbers`), and a block taken out of the file (`block_of`,
`exact_block`) holds the same bytes as the file at that place (`Holds`), which is all the parsers read.
`CaptureDecode` cannot be reasoned about in the prover (`PacketWalk` and `SharkProtocols` are recursive);
the theorems reach it because it changes the variables of `PcapBlocks` by its actions only.

**Wire arena (`InputProofs`).** `ArenaInv`: stamps never run ahead of the arena's
generation, and a span of the open generation agrees with memory on every cell inside the arena.
`Wire_views` checks `ArenaContract`, so the theorems carry over to its programs.

Only model-checked. Liveness (`ReadersFinish`, `DropReturns`, `PassReturns`) is out of the
prover's reach, and so are modules with RECURSIVE operators: `ParsersAreExact`, `DecidedStays`,
`NeededIsHonest`, `FramesReadBack`, `CutsNeverShow`, `NoFalseFault`, `ArenaContract`,
`ReadsStayInside`, `RowsTellOneStory`, and the properties of `Tagged` and `Columnar`. Parsers, codecs and kernels are
recursive on their input, and what they compute is compared with reference definitions on
bounded inputs only.

## Where code and comments differ

Four are runs, because state and steps are needed to see them:

- `Reassembly_conflict`: after a conflict the entry stays open and the next fragment tries again; a terminal
  fragment that ends the datagram before the disagreement lets it complete, though `defrag.hpp:271` and `:287`
  say it never does. It then has a complete row, and an overlap_conflict row when it is evicted.
- `Capture_short_interface`: `decode_pass.hpp:11` says the entry points cannot drift; an interface block shorter
  than 16 bytes gives an interface to the whole-file pass, which hands over 28 bytes, and none to the caller that
  feeds the block alone.
- `Streaming_zero_timeout`: with `timeout_ticks = 0` the sweep at the end of `feed_epb` takes
  the entry the packet opened before its pin is counted (`streaming.hpp:187`); the pin stays for
  good, though `streaming.hpp:55` says a pinned buffer is held by an unfinished reassembly.
- `Arrow_dropped`: streams and arrays keep the queue alive, not the tables
  (`streaming_arrow.hpp:156`; the comment at 153 says they are kept).

Others, seen while modelling. Each model follows the code.

Reassembly and session:
- A fragment past a hole beyond the declared end blocks
  completion (`:200`, `:279`). `gap_bytes` ignores holes below the highest byte received (`:127`, `:395`).
- Eviction happens at an age of exactly `timeout_ticks` (`defrag.hpp:359` says more than); a timeout near
  2^64 wraps in the age test; a timed-out row carries the declared length (the comment says 0).
- The IPv4 and the IPv6 table both number their datagrams from 1.
- A table nobody reads stalls the decode once its queue is full (`streaming_arrow.hpp:27`, `:224`).

Captures and protocols:
- `l4_dispatch.hpp:10` says the two paths cannot disagree: the reassembled one ignores TCP's data
  offset and UDP's length, and does not descend into an IPv6 extension header after the Fragment
  header. A SOME/IP node of a reassembled datagram has `datagram_id` 0 and `is_reassembled` false.
- `gptp.hpp:210` and `:227` say an organization TLV is read within its declared length: of one that declares 16
  bytes or more, 28 are read, which stay inside the message but may be the next TLV's. `sd_decode_endpoint` is bounded by
  its 24-byte probe and the options region, not by the option. `ItemsReadInPlace` therefore leaves these two out, and
  `ShapesReadInRegion` says what holds of them.
- A trigger `all_of<ethertype, udp_port>` never fires. Two PATH_TRACE TLVs repeat `entry_index`, and the count is the last one's.
- SD entry and option indices have 8 bits and wrap. `pcap.hpp:162` narrows a length to 32 bits after
  adding 16. The header sizes in `pcap.hpp`'s comments (24 and 20) differ. An AH header with
  `payload_len` 0 overlaps what follows it by 4 bytes.

Combinators and wire structs:
- In streaming mode `opt`, `not_`, `separated_list` and `complete` swallow an incomplete answer, and
  `take_while`, `dec` and `hex` take the end of the prefix for the end, though `docs/THREAT_MODEL.md:90`
  promises stable answers. `DecidedStays` is stated for the terms without them (`StreamSafe`).
- `layout_ok` does not look into nested structs. `emit_frame` leaves a header in a sink that refuses
  the payload. `csv_value` calls a list rendered with commas CSV-safe. `elem_bytes` of `soa` and
  bulk decode are wire bits / 8 where the decoded size is meant.

Tagged messages and columns:
- Thrift's `skip` accepts long-form ids outside 16 bits and boolean list bytes above 2, which `read`
  rejects. A repeated nested struct merges when read eagerly; a lazy member keeps the last.
- Thrift's writer has no depth check. An error at the final flush names no field, nor do errors of
  protobuf's size pass, though `tagged_encode.hpp` says an error names its struct and field.
- `docs/index.md:27` and `docs/THREAT_MODEL.md:42` say that a live message cut short is incomplete. Cut inside a list whose
  header has arrived, it is the error `bad_count` (`tagged.hpp:553`): the count is held against the bytes there are.
  `ThriftPrefix` admits the error there and nowhere else.
- `protobuf_encode.hpp:26` and `:349`, and `test_protobuf.cpp:8` (`protobuf_size(x) == bytes written`), say the size is that of
  the encoding. The length limit is tested by the measuring pass only, which `protobuf_encode` makes for messages with nested
  ones: a flat message over the limit is written, and has no size. `SizeIsExact` admits this case and no other.
- When a list field occurs twice, the eager reader decodes both and fails on a fault in the first; a reader that keeps
  lists as bytes never looks at the first. `LazyListsAgree` admits this difference and no other.
- `parse_symbol_table` takes any header whose magic bits are set, whatever others are (`fsst.hpp:72`).
- `list_slots` counts an entry that continues an open list whatever its definition level, `level_slots` goes by that level
  alone: for levels no record has, the leaf may have fewer slots than its list has elements. `list_slots` and `struct_slots`
  are told what to expect, `level_slots` is not, so the comparison is its caller's (`AcceptedTreesAgree` leaves the leaf out).
- `copy_bits`' guard `p + 9 <= in_bytes` is redundant. `groups * 8` of an RLE run wraps: it is modelled, but no input within the bounds reaches it.

## Not modelled

Dump writers, member descriptions and schemas, bulk decode, the message declarations under
`formats/`, the Arrow C structures, the GIL and the command line: text and file output, compile-time
tables, or plumbing without state. Within modelled parts: column bytes of `soa`, `walk_packet` (the
twin of `walk_packet_ext` for visitors without extension callbacks), header field values, the
value transformers and the floating-point conversion of `nom.hpp`, the saturation of exponents at
100000, the vector forms of the FSST decoder and its 16-bit counters. The order of equal candidates
in FSST training is left open. Datagram ids are unbounded numbers: the 32-bit wrap of `next_id_` is not
modelled. A protobuf `fixed` stands for `pb_fixed`, float and double alike.
