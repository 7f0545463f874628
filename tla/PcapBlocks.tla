----------------------------- MODULE PcapBlocks -----------------------------
(***************************************************************************)
(* Capture files, block by block.  scan_blocks (pcap.hpp) finds the        *)
(* boundaries; run_decode_pass (decode_pass.hpp) feeds every block to a    *)
(* session (streaming.hpp), which keeps the interfaces of the section and  *)
(* frames the packets.  Beside it a caller without a scan feeds the same   *)
(* blocks, one exact block at a time, to a second session `twin`, in the   *)
(* byte order the twin reports: the two entry points streaming.hpp has.    *)
(* What is inside a packet is the subject of module CaptureDecode.         *)
(*                                                                         *)
(* A file is a sequence of bytes, and every field is read from its bytes   *)
(* in the byte order the code uses, so that the wrong order gives the      *)
(* number it really gives.  Radix is the number of values of a byte; with  *)
(* 16 instead of 256 every byte of a constant keeps its last hex digit and *)
(* no two constants collide.  Time stamps and other fields nothing depends *)
(* on are left out.                                                        *)
(*                                                                         *)
(* A capture is its bytes, and what its writer knows of each block: where  *)
(* it is, its kind, its byte order, the payload it holds and whether it is *)
(* well formed.                                                            *)
(***************************************************************************)
EXTENDS Integers, Sequences, FiniteSets

CONSTANTS Radix,      \* 256 in the code
          Captures    \* records [bytes, blocks, traffic, classic]

ASSUME RadixAssumption == Radix \in {16, 256}

U16 == Radix * Radix
U32 == U16 * U16

\* The number of four bytes, the most significant first.
Number(a, b, c, d) == ((a * Radix + b) * Radix + c) * Radix + d
Constant(a, b, c, d) == Number(a % Radix, b % Radix, c % Radix, d % Radix)

kShb            == Constant(10, 13, 13, 10)       \* 0x0A0D0D0A: the same in both orders
kIdb            == Constant(0, 0, 0, 1)
kSpb            == Constant(0, 0, 0, 3)
kEpb            == Constant(0, 0, 0, 6)
kByteOrderMagic == Constant(26, 43, 60, 77)       \* 0x1A2B3C4D
kMagicUsLE      == Constant(161, 178, 195, 212)   \* 0xA1B2C3D4
kMagicNsLE      == Constant(161, 178, 60, 77)     \* 0xA1B23C4D
kMagicUsBE      == Constant(212, 195, 178, 161)
kMagicNsBE      == Constant(77, 60, 178, 161)
Magics          == {kMagicUsLE, kMagicNsLE, kMagicUsBE, kMagicNsBE}

word_at(bytes, off) == <<bytes[off + 1], bytes[off + 2], bytes[off + 3], bytes[off + 4]>>

\* A 32-bit field, and a 16-bit one, in the order `little` says.
u32(w, little) == IF little THEN Number(w[4], w[3], w[2], w[1]) ELSE Number(w[1], w[2], w[3], w[4])
read_u32(bytes, off, little) == u32(word_at(bytes, off), little)
read_u16(bytes, off, little) ==
  IF little THEN bytes[off + 2] * Radix + bytes[off + 1]
  ELSE bytes[off + 1] * Radix + bytes[off + 2]

\* shb_byte_order: `none` if the block is too short to tell.
shb_byte_order(bytes, off, none) ==
  IF off + 12 > Len(bytes) THEN none
  ELSE read_u32(bytes, off + 8, TRUE) = kByteOrderMagic

-----------------------------------------------------------------------------
(* Phase A: the boundary scan.  Its state is the cursor, the section's     *)
(* byte order, the BlockRefs so far, and how it stands.                    *)

BlockRef(off, length, kind, little) ==
  [file_offset |-> off, length |-> length % U32, kind |-> kind, little |-> little]

KindOf(type) ==
  CASE type = kShb -> "Shb" [] type = kIdb -> "Idb" [] type = kEpb -> "Epb"
    [] type = kSpb -> "SimplePacket" [] OTHER -> "Other"

\* scan_blocks up to its loop: which of the two formats, if any.
scan_begin(bytes) ==
  LET blank == [at |-> 0, little |-> TRUE, out |-> <<>>, status |-> "error"]
      magic == read_u32(bytes, 0, TRUE)
      little == magic \in {kMagicUsLE, kMagicNsLE}
  IN IF Len(bytes) < 4 THEN blank
     ELSE IF magic = kShb THEN [blank EXCEPT !.status = "pcapng"]
     ELSE IF magic \in Magics /\ Len(bytes) >= 24
          THEN [at |-> 24, little |-> little, status |-> "pcap",
                out |-> <<BlockRef(0, 24, "Idb", little)>>]
     ELSE blank

\* Mutant of scan_block: only the first section header sets the order.
scan_blockFirstOrder(bytes, s) ==
  LET size   == Len(bytes) - s.at
      little == IF s.at = 0 THEN shb_byte_order(bytes, s.at, TRUE) ELSE s.little
      total  == read_u32(bytes, s.at + 4, little)
  IN IF size < 12 \/ total < 12 \/ total % 4 # 0 \/ total > size
     THEN [s EXCEPT !.status = "error"]
     ELSE [s EXCEPT !.at = @ + total, !.little = little,
                    !.out = Append(@, BlockRef(s.at, total,
                                KindOf(read_u32(bytes, s.at, little)), little))]

\* One turn of the pcapng loop.
scan_block(bytes, s) ==
  LET size   == Len(bytes) - s.at
      is_shb == size >= 4 /\ read_u32(bytes, s.at, TRUE) = kShb
      little == IF is_shb THEN shb_byte_order(bytes, s.at, TRUE) ELSE s.little
      total  == read_u32(bytes, s.at + 4, little)
  IN IF \/ is_shb /\ size < 12
        \/ size < 8
        \/ total < 12 \/ total % 4 # 0 \/ total > size
     THEN [s EXCEPT !.status = "error", !.little = little]
     ELSE [s EXCEPT !.at = @ + total, !.little = little,
                    !.out = Append(@, BlockRef(s.at, total,
                                KindOf(read_u32(bytes, s.at, little)), little))]

\* One turn of the classic pcap loop.
scan_record(bytes, s) ==
  LET size   == Len(bytes) - s.at
      caplen == read_u32(bytes, s.at + 8, s.little)
  IN IF size < 16 \/ caplen > size - 16
     THEN [s EXCEPT !.status = "error"]
     ELSE [s EXCEPT !.at = @ + 16 + caplen,
                    !.out = Append(@, BlockRef(s.at, 16 + caplen, "PcapRecord", s.little))]

scan_step(bytes, s) ==
  IF s.at >= Len(bytes) THEN [s EXCEPT !.status = "done"]
  ELSE IF s.status = "pcapng" THEN scan_block(bytes, s) ELSE scan_record(bytes, s)

-----------------------------------------------------------------------------
(* Phase B: one block.  `block` holds the block's bytes, `length` what its *)
(* BlockRef says.                                                          *)

Failed == [ok |-> FALSE]

\* Mutant of parse_idb: the link type is always read as little-endian.
parse_idbLittle(block, length, little) ==
  IF length = 24 /\ Len(block) >= 24 /\ read_u32(block, 0, TRUE) \in Magics
  THEN [ok |-> TRUE, link_type |-> read_u32(block, 20, TRUE) % U16]
  ELSE IF Len(block) < 16 THEN Failed
       ELSE [ok |-> TRUE, link_type |-> read_u16(block, 8, TRUE)]

parse_idb(block, length, little) ==
  IF length = 24 /\ Len(block) >= 4 /\ read_u32(block, 0, TRUE) \in Magics
  THEN IF Len(block) < 24 THEN Failed
       ELSE [ok |-> TRUE, link_type |-> read_u32(block, 20, little) % U16]
  ELSE IF Len(block) < 16 THEN Failed
       ELSE [ok |-> TRUE, link_type |-> read_u16(block, 8, little)]

\* Mutant of parse_epb: the captured length is taken on trust.
parse_epbTrusting(block, length, little, kind) ==
  IF kind # "Epb" \/ Len(block) < 28 THEN Failed
  ELSE [ok |-> TRUE, interface_id |-> read_u32(block, 8, little),
        caplen |-> read_u32(block, 20, little), payload |-> 28]

parse_epb(block, length, little, kind) ==
  IF kind = "Epb"
  THEN IF Len(block) < 28 \/ 28 + read_u32(block, 20, little) + 4 > length THEN Failed
       ELSE [ok |-> TRUE, interface_id |-> read_u32(block, 8, little),
             caplen |-> read_u32(block, 20, little), payload |-> 28]
  ELSE IF kind # "PcapRecord" \/ Len(block) < 16 THEN Failed
       ELSE [ok |-> TRUE, interface_id |-> 0,
             caplen |-> read_u32(block, 8, little), payload |-> 16]

-----------------------------------------------------------------------------
(* The session's cross-block state, and the bookkeeping of its feeds.      *)

NewSession == [iface_link |-> <<>>, section_little |-> TRUE, pid |-> 0]

\* Mutant of feed_shb: the interfaces of the last section stay.
feed_shbKeeping(s, block) ==
  [s EXCEPT !.section_little = shb_byte_order(block, 0, TRUE)]

\* Mutant of feed_shb: the byte order of the last section stays.
feed_shbSameOrder(s, block) == [s EXCEPT !.iface_link = <<>>]

feed_shb(s, block) ==
  [s EXCEPT !.iface_link = <<>>, !.section_little = shb_byte_order(block, 0, TRUE)]

feed_idb(s, block, little, declared_length) ==
  LET length == IF declared_length # 0 THEN declared_length ELSE Len(block)
      idb    == parse_idb(block, length, little)
  IN IF idb.ok THEN [s EXCEPT !.iface_link = Append(@, idb.link_type)] ELSE s

\* What feed_epb makes of the block's framing: the packet's link type, its
\* captured length, and whether its bytes are there to be walked.
framed(s, block, little, kind) ==
  LET e == parse_epb(block, Len(block), little, kind)
  IN IF ~e.ok THEN Failed
     ELSE [ok |-> TRUE, caplen |-> e.caplen,
           link_type |-> IF e.interface_id < Len(s.iface_link)
                         THEN s.iface_link[e.interface_id + 1] ELSE 0,
           whole |-> e.payload + e.caplen <= Len(block)]

\* The bytes run_decode_pass hands over for a ref: at least 28 of an
\* interface block, and never past the end of the file.
block_of(bytes, ref) ==
  LET want == IF ref.kind = "Idb" /\ ref.length < 28 THEN 28 ELSE ref.length
      to   == ref.file_offset + want
  IN SubSeq(bytes, ref.file_offset + 1, IF to < Len(bytes) THEN to ELSE Len(bytes))

\* The bytes of a ref alone, which a caller that reads block by block has.
exact_block(bytes, ref) ==
  SubSeq(bytes, ref.file_offset + 1, ref.file_offset + ref.length)

-----------------------------------------------------------------------------
(* What the writer of a capture knows of it.                               *)

Byte == 0 .. Radix - 1
BlockKind == {"Shb", "Idb", "Epb", "PcapRecord", "SimplePacket", "Other"}
BlockFact == [start : Nat, length : Nat, kind : BlockKind, little : BOOLEAN, sound : BOOLEAN,
              link : Nat, iface : Nat, data : Nat]

\* Where block i lies: behind the one before, the last up to the end.
Placed(c, i) ==
  LET b == c.blocks[i]
  IN /\ b.start = IF i = 1 THEN 0 ELSE c.blocks[i - 1].start + c.blocks[i - 1].length
     /\ b.length > 0 /\ b.length < U32
     /\ b.start + b.length <= Len(c.bytes)
     /\ i = Len(c.blocks) => b.start + b.length = Len(c.bytes)

\* A block of a pcapng file.  Its type and its length are in the order of its
\* section, which the section header's magic gives.  A sound interface block
\* has room for its fields, or is too short for them; a sound packet block
\* says how many bytes it holds, or more than fit in it.  A file that starts
\* with anything else is no capture at all.
PcapngBlock(c, i) ==
  LET b      == c.blocks[i]
      left   == Len(c.bytes) - b.start
      total  == read_u32(c.bytes, b.start + 4, b.little)
      caplen == read_u32(c.bytes, b.start + 20, b.little)
      alien  == i = 1 /\ b.kind # "Shb"
  IN /\ b.kind = IF left < 4 THEN "Other" ELSE KindOf(read_u32(c.bytes, b.start, b.little))
     /\ IF b.kind = "Shb"
        THEN left >= 12 => b.little = (read_u32(c.bytes, b.start + 8, TRUE) = kByteOrderMagic)
        ELSE alien \/ b.little = c.blocks[i - 1].little
     /\ alien => ~b.sound /\ (left < 4 \/ read_u32(c.bytes, 0, TRUE) \notin Magics)
     /\ b.sound => b.length >= 12 /\ b.length % 4 = 0 /\ total = b.length
     /\ ~b.sound => \/ alien
                    \/ left < IF b.kind = "Shb" THEN 12 ELSE 8
                    \/ total < 12 \/ total % 4 # 0 \/ total > left
     /\ b.sound /\ b.kind = "Idb" /\ b.length >= 16 =>
          b.link = read_u16(c.bytes, b.start + 8, b.little)
     /\ b.sound /\ b.kind = "Epb" /\ b.length >= 28 =>
          /\ b.iface = read_u32(c.bytes, b.start + 8, b.little)
          /\ b.data = caplen \/ 28 + caplen + 4 > b.length

\* The global header of a classic file, and its records, which may end at any
\* byte.
ClassicBlock(c, i) ==
  LET b      == c.blocks[i]
      left   == Len(c.bytes) - b.start
      caplen == read_u32(c.bytes, b.start + 8, b.little)
      magic  == read_u32(c.bytes, 0, TRUE)
  IN IF i = 1
     THEN /\ left >= 4 /\ b.kind = "Idb" /\ magic \in Magics
          /\ b.little = (magic \in {kMagicUsLE, kMagicNsLE})
          /\ b.sound => b.length = 24 /\ b.link = read_u32(c.bytes, 20, b.little) % U16
          /\ ~b.sound => left < 24
     ELSE /\ b.kind = "PcapRecord" /\ b.little = c.blocks[i - 1].little
          /\ b.sound => b.length >= 16 /\ b.length = 16 + caplen /\ b.data = caplen /\ b.iface = 0
          /\ ~b.sound => left < 16 \/ caplen > left - 16

WellWritten(c) ==
  /\ c.bytes \in Seq(Byte) /\ c.classic \in BOOLEAN
  /\ c.blocks \in Seq(BlockFact) /\ c.blocks # <<>>
  /\ \A i \in DOMAIN c.blocks :
       Placed(c, i) /\ IF c.classic THEN ClassicBlock(c, i) ELSE PcapngBlock(c, i)

\* Every capture is of one of the two formats.  Its last block may be cut off
\* or malformed; so may one in the middle, where the scan then stops.
ASSUME CaptureAssumption == \A c \in Captures : WellWritten(c)

-----------------------------------------------------------------------------
(* The pass                                                                *)

VARIABLES
  capture,      \* the capture being decoded
  scan,         \* scan_blocks' state, then its result
  next,         \* the position of the next BlockRef to feed
  session,      \* the session run_decode_pass feeds
  twin,         \* the session fed without a scan
  packet        \* the packet feed_epb is decoding, Failed if there is none

framingVars == <<capture, scan, next, session, twin, packet>>

file == capture.bytes

FramingInit ==
  /\ capture \in Captures
  /\ scan = scan_begin(file)
  /\ next = 1
  /\ session = NewSession
  /\ twin = NewSession
  /\ packet = Failed

Scanning == scan.status \in {"pcapng", "pcap"}

ScanStep ==
  /\ Scanning
  /\ scan' = scan_step(file, scan)
  /\ UNCHANGED <<capture, next, session, twin, packet>>

\* The loop over the refs.
Ref == scan.out[next]
Feeding == scan.status = "done" /\ next <= Len(scan.out) /\ ~packet.ok

ExactBlock == exact_block(file, Ref)

\* The order a caller without a scan goes by: what the twin's last section
\* header said; the magic of a classic capture says it once for all.
TwinOrder == IF capture.classic THEN Ref.little ELSE twin.section_little

FeedShb ==
  /\ Feeding /\ Ref.kind = "Shb"
  /\ session' = feed_shb(session, block_of(file, Ref))
  /\ twin' = feed_shb(twin, ExactBlock)
  /\ next' = next + 1
  /\ UNCHANGED <<capture, scan, packet>>

FeedIdb ==
  /\ Feeding /\ Ref.kind = "Idb"
  /\ session' = feed_idb(session, block_of(file, Ref), Ref.little, Ref.length)
  /\ twin' = feed_idb(twin, ExactBlock, TwinOrder, 0)
  /\ next' = next + 1
  /\ UNCHANGED <<capture, scan, packet>>

SkipBlock ==
  /\ Feeding /\ Ref.kind \in {"SimplePacket", "Other"}
  /\ next' = next + 1
  /\ UNCHANGED <<capture, scan, session, twin, packet>>

PacketFraming == framed(session, block_of(file, Ref), Ref.little, Ref.kind)
TwinFraming == framed(twin, ExactBlock, TwinOrder, Ref.kind)
IsPacket == Feeding /\ Ref.kind \in {"Epb", "PcapRecord"}

\* The twin's feed_epb as a whole, what is inside the packet left out.
TwinFed == IF TwinFraming.ok THEN [twin EXCEPT !.pid = @ + 1] ELSE twin

\* A packet block that does not parse: the packet id does not advance.
FeedMalformed ==
  /\ IsPacket /\ ~PacketFraming.ok
  /\ twin' = TwinFed
  /\ next' = next + 1
  /\ UNCHANGED <<capture, scan, session, packet>>

\* feed_epb up to the walk, and its end.
FeedEpb ==
  /\ IsPacket /\ PacketFraming.ok
  /\ packet' = PacketFraming
  /\ UNCHANGED <<capture, scan, next, session, twin>>

EndPacket ==
  /\ packet.ok
  /\ session' = [session EXCEPT !.pid = @ + 1]
  /\ twin' = TwinFed
  /\ packet' = Failed
  /\ next' = next + 1
  /\ UNCHANGED <<capture, scan>>

\* The pass has returned: false if the scan failed, true after the last ref.
Returned == scan.status = "error" \/ (scan.status = "done" /\ next > Len(scan.out))

FramingNext ==
  ScanStep \/ FeedShb \/ FeedIdb \/ SkipBlock \/ FeedMalformed \/ FeedEpb \/ EndPacket

FramingSpec == FramingInit /\ [][FramingNext]_framingVars

-----------------------------------------------------------------------------
(* Properties                                                              *)

Expected(i) ==
  LET b == capture.blocks[i] IN BlockRef(b.start, b.length, b.kind, b.little)

\* The interface blocks before block i in the section that block lies in.
Idbs(i) ==
  {j \in 1 .. i - 1 : /\ capture.blocks[j].kind = "Idb"
                      /\ \A k \in j .. i - 1 : capture.blocks[k].kind # "Shb"}

\* The number an interface block gives its interface within the section.
IfaceNumber(j) == Cardinality(Idbs(j))

\* The boundary scan finds exactly the blocks that were written, in order,
\* each in the byte order of its own section, and fails only on a file with
\* a malformed block (scan_blocks; shb_byte_order at every section header).
ScanFindsBlocks ==
  /\ Len(scan.out) <= Len(capture.blocks)
  /\ \A i \in DOMAIN scan.out : capture.blocks[i].sound /\ scan.out[i] = Expected(i)
  /\ scan.status = "done" => Len(scan.out) = Len(capture.blocks)
  /\ scan.status = "error" => /\ Len(scan.out) < Len(capture.blocks)
                              /\ ~capture.blocks[Len(scan.out) + 1].sound

\* The interface blocks before `next` in its section have room for their
\* fields.  One of 12 bytes, the least scan_blocks lets pass, has not.
WholeInterfaces == \A j \in Idbs(next) : capture.blocks[j].length >= 16

\* A packet takes its link type from the interface of its own section that it
\* names, however many sections and interfaces came before (iface_link_).
OwnInterface ==
  /\ Len(session.iface_link) = Cardinality(Idbs(next))
  /\ \A j \in Idbs(next) : session.iface_link[IfaceNumber(j) + 1] = capture.blocks[j].link
  /\ packet.ok =>
       LET iface == capture.blocks[next].iface
       IN /\ \A j \in Idbs(next) :
               IfaceNumber(j) = iface => packet.link_type = capture.blocks[j].link
          /\ iface >= Cardinality(Idbs(next)) => packet.link_type = 0

\* The bytes walked as a packet are the packet's: never the padding or the
\* trailer of its block (the caplen test of parse_epb, the test of feed_epb).
PacketInsideBlock ==
  packet.ok /\ packet.whole => packet.caplen <= capture.blocks[next].data

\* A caller that feeds exact blocks in the order the session reports finds the
\* packets of the whole-file pass, under the same ids (feed_epb, pid_).
PacketsAgree ==
  /\ session.pid = twin.pid
  /\ IsPacket => PacketFraming.ok = TwinFraming.ok
  /\ IsPacket /\ PacketFraming.ok =>
       PacketFraming.caplen = TwinFraming.caplen /\ PacketFraming.whole = TwinFraming.whole

\* It also has the interfaces of the pass, and every packet its link type
\* (decode_pass.hpp: "the two entry points can't drift").  The code keeps this
\* only in a section of WholeInterfaces: the pass hands feed_idb 28 bytes of a
\* shorter block, and so reads a link type where the exact block has none.
EntryPointsAgree ==
  /\ session.iface_link = twin.iface_link
  /\ IsPacket => PacketFraming = TwinFraming

\* The framing is right: scan_blocks finds the blocks, and parse_epb the packet
\* in its block.
FramingIsExact == ScanFindsBlocks /\ PacketInsideBlock

\* What a section declares holds in that section alone, for a session fed by
\* the pass and for one fed block by block: an interface block too short to
\* read spoils the rest of its section and no other, and never the framing or
\* the numbering of the packets (feed_shb, feed_idb, feed_epb).
SectionsAreKept == PacketsAgree /\ (WholeInterfaces => OwnInterface /\ EntryPointsAgree)
=============================================================================
