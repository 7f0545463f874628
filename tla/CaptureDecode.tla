---------------------------- MODULE CaptureDecode ----------------------------
(***************************************************************************)
(* A whole capture decoded: run_decode_pass (decode_pass.hpp) feeds every  *)
(* block of the file to a session (module PcapBlocks), which walks each    *)
(* packet (PacketWalk), hands fragments to the reassembly tables (Defrag)  *)
(* and dispatches payloads (SharkProtocols).                               *)
(*                                                                         *)
(* What the packets of a capture contain is arbitrary within               *)
(* Contents[traffic].                                                      *)
(***************************************************************************)
EXTENDS PcapBlocks, PacketWalk

CONSTANTS
  Contents,     \* per traffic: the sets of headers and bodies packets hold
  Config,       \* Config[v]: ReassemblyTable::Config of the IPv4 / IPv6 table
  Settings      \* sets of DecodeOptions [decode_l2l3, decode_defrag]

VARIABLES
  opts,         \* DecodeOptions
  walk,         \* the walk of the packet being decoded
  defrag,       \* the session's reassembly tables
  msg_index,    \* Gptp::state
  messages      \* the gPTP message rows of the whole pass: <<table, msg_index>>

vars == <<framingVars, opts, walk, defrag, msg_index, messages>>

Idle == [Walk(0, 0) EXCEPT !.stage = "idle"]

Init ==
  /\ FramingInit
  /\ opts \in Settings
  /\ walk = Idle
  /\ defrag = [v \in {4, 6} |-> EmptyTable]
  /\ msg_index = 0
  /\ messages = {}

Content == Contents[capture.traffic]

\* Scanning, and the blocks that hold no packet.
Plainly(step) == step /\ UNCHANGED <<opts, walk, defrag, msg_index, messages>>

\* feed_epb up to the walk, which starts if it is wanted and the bytes are
\* there; the packet has its row and its frame layer either way.
StartPacket ==
  /\ FeedEpb
  /\ LET w == Walk(packet'.link_type, packet'.caplen)
         out == Push(NoOutput, [table |-> "packets", packet_id |-> session.pid], "frame")
     IN walk' = IF opts.decode_l2l3 /\ packet'.whole
                THEN [w EXCEPT !.out = out, !.index = msg_index]
                ELSE [Stop(w) EXCEPT !.out = out, !.index = msg_index]
  /\ UNCHANGED <<opts, defrag, msg_index, messages>>

-----------------------------------------------------------------------------
(* The walk                                                                *)

Step(w) ==
  /\ walk' = w
  /\ UNCHANGED <<framingVars, opts, defrag, msg_index, messages>>

At(stage) == walk.stage = stage /\ walk.due = NoDatagram

WalkEth == At("eth") /\ \E t \in Content.ethertype : Step(on_eth(walk, t))
WalkVlan == At("vlan") /\ \E t \in Content.ethertype : Step(on_vlan(walk, t))
WalkL2 == At("l2") /\ \E b \in Content.eth_body[walk.ethertype] : Step(on_l2_done(walk, b))
WalkIpv6 == At("ipv6") /\ \E h \in Content.ipv6 : Step(on_ipv6(walk, h))
WalkExtDone == At("ext") /\ ~InExt(walk) /\ Step(ext_done(walk))
WalkExtOpt ==
  /\ At("ext") /\ InExt(walk) /\ walk.nh \in {0, 60}
  /\ \E h \in Content.ext_opt : Step(on_ext_opt(walk, h))
WalkSrh ==
  /\ At("ext") /\ InExt(walk) /\ walk.nh = 43
  /\ \E h \in Content.srh : Step(on_srh(walk, h))
WalkAh ==
  /\ At("ext") /\ InExt(walk) /\ walk.nh = 51
  /\ \E h \in Content.ah : Step(on_ah(walk, h))
WalkL4 == At("l4") /\ \E h \in Content.l4, b \in Content.l4_body : Step(walk_l4(walk, h, b))

\* A callback that leaves walk w and may have a fragment f for the table of
\* its IP version.  (The bindings to singletons have TLC evaluate f, its data
\* and the result of the call once.)
Give(w, f) ==
  \/ ~f.given /\ Step(w)
  \/ /\ f.given
     /\ \E data \in {[i \in 1 .. f.len |-> f.fill]} :
        \E result \in {add_fragment(Config[f.version], defrag[f.version], f.key, session.pid,
                                    f.offset, f.more, data, kNoToken)} :
          /\ walk' = given(w, f, result)
          /\ defrag' = [defrag EXCEPT ![f.version] = result.table]
     /\ UNCHANGED <<framingVars, opts, msg_index, messages>>

WalkIpv4 ==
  /\ At("ipv4")
  /\ \E h \in Content.ipv4 : \E f \in {fragment_of_ipv4(walk, h, opts.decode_defrag)} :
       Give(on_ipv4(walk, h, opts.decode_defrag), f)
WalkFragment ==
  /\ At("ext") /\ InExt(walk) /\ walk.nh = 44
  /\ \E h \in Content.fragment : \E f \in {fragment_of_ipv6(walk, h, opts.decode_defrag)} :
       Give(on_fragment(walk, h, opts.decode_defrag), f)

\* complete_datagram's dispatch, inside the callback that completed it.
DispatchDatagram ==
  /\ walk.due # NoDatagram
  /\ \E h \in Content.l4, b \in Content.l4_body : Step(dispatch_l4(walk, h, b))

\* The rest of feed_epb: both tables are swept, the packet id advances.  (The
\* rows of swept datagrams are the subject of module StreamingSession.)
MessageRows(w) ==
  {<<w.out.rows[i].table, w.out.rows[i].index>> :
     i \in {j \in DOMAIN w.out.rows : w.out.rows[j].table \in GptpTables}}

FinishPacket ==
  /\ At("stop") /\ EndPacket
  /\ defrag' = [v \in {4, 6} |-> evict_stale(Config[v], defrag[v], session.pid)]
  /\ msg_index' = walk.index
  /\ messages' = messages \cup MessageRows(walk)
  /\ walk' = Idle
  /\ UNCHANGED opts

Finished == Returned /\ UNCHANGED vars

\* The steps that may hand a fragment over, and the others.
Giving == WalkIpv4 \/ WalkFragment

Walking ==
  \/ WalkEth \/ WalkVlan \/ WalkL2 \/ WalkIpv6 \/ WalkExtDone
  \/ WalkExtOpt \/ WalkSrh \/ WalkAh \/ WalkL4 \/ DispatchDatagram

Feeds ==
  \/ Plainly(FeedShb) \/ Plainly(FeedIdb) \/ Plainly(SkipBlock) \/ Plainly(FeedMalformed)
  \/ StartPacket

Next == Plainly(ScanStep) \/ Feeds \/ Walking \/ Giving \/ FinishPacket \/ Finished

\* The pass is one thread that runs until it returns, so every kind of step
\* is fair.  The last conjunct is the weak fairness of Giving written out: it
\* is enabled whenever the walk stands before such a header.
BeforeFragment == At("ipv4") \/ (At("ext") /\ InExt(walk) /\ walk.nh = 44)
Runs ==
  /\ WF_vars(Plainly(ScanStep) \/ Feeds \/ FinishPacket)
  /\ WF_vars(Walking)
  /\ []<>~BeforeFragment \/ []<><<Giving>>_vars

Spec == Init /\ [][Next]_vars /\ Runs

-----------------------------------------------------------------------------
Rows(w, table) == {i \in DOMAIN w.out.rows : w.out.rows[i].table = table}

\* The number of objects the JSON of the packet has under a name.
JsonCount(w, name) ==
  LET at == {i \in DOMAIN w.out.json : w.out.json[i].name = name}
  IN IF at = {} THEN 0 ELSE w.out.json[CHOOSE i \in at : TRUE].count

JsonName(table) ==
  CASE table = "packets" -> "frame" [] table = "ipv4" -> "ip"
    [] table = "ipv4_frag" -> "ip.fragment" [] table = "ipv6_frag" -> "ipv6.fragment"
    [] table = "datagram" -> "ip.reassembled" [] table = "someip_tlv" -> "tlv_member"
    [] OTHER -> table

-----------------------------------------------------------------------------
(* Properties                                                              *)

\* Every window given to a parser lies in the captured packet, behind the
\* header it was found under; so do the data handed to the reassembly, which
\* also stay inside what the IP header declares (the clamps of the visitor).
WindowsInside ==
  /\ walk.l2_end <= walk.size
  /\ \A x \in walk.windows :
       /\ x.from <= x.to /\ x.to <= walk.size
       /\ x.from < x.to => walk.l2_end <= x.from
  /\ \A x \in walk.data :
       /\ walk.l2_end < x.from /\ x.to <= walk.size
       /\ x.from < x.to => x.to <= x.limit

\* No byte is decoded as L4 twice or in the wrong place: a packet that gave
\* data to the reassembly has no TCP or UDP row of its own, one that did not
\* has at most one, and a row of a reassembled datagram belongs to exactly one
\* datagram, completed in this packet (is_fragment, complete_datagram).
L4Once ==
  LET l4  == Rows(walk, "tcp") \cup Rows(walk, "udp")
      own == {i \in l4 : walk.out.rows[i].datagram_id = 0}
  IN /\ Cardinality(own) <= 1
     /\ walk.data # {} => own = {}
     /\ \A i \in l4 \ own :
          /\ Cardinality({j \in Rows(walk, "datagram") :
               walk.out.rows[j].datagram_id = walk.out.rows[i].datagram_id}) = 1
          /\ \A j \in l4 \ {i} :
               walk.out.rows[j].datagram_id # walk.out.rows[i].datagram_id

\* The msg_index of a gPTP message names one row of all the message tables of
\* the pass, and a path_trace row carries the index of the announce it belongs
\* to (gptp_rows.hpp: "the join key").
MessageIndexJoins ==
  /\ \A m1, m2 \in messages : m1[2] = m2[2] => m1 = m2
  /\ \A m \in messages : m[2] < msg_index
  /\ \A m \in MessageRows(walk) : \A old \in messages : old[2] # m[2]
  /\ \A i \in Rows(walk, "path_trace") :
       \E j \in Rows(walk, "announce") :
         walk.out.rows[j].index = walk.out.rows[i].index

\* The JSON of a packet has every layer once, with one object for each row
\* the packet left in the table of that layer (json_tree.hpp, add_layer_json).
JsonMatchesTables ==
  /\ \A i, j \in DOMAIN walk.out.json :
       walk.out.json[i].name = walk.out.json[j].name => i = j
  /\ \A i \in DOMAIN walk.out.rows :
       LET t == walk.out.rows[i].table
       IN JsonCount(walk, JsonName(t)) = Cardinality(Rows(walk, t))

\* TLVs, members and entries are read in place: what is read of one lies in it,
\* and the next one starts where it ends (lldp_walk, walk_tlv_members, the SD
\* entries, the path trace of an Announce).
ItemsReadInPlace ==
  \A t \in {"lldp", "someip_tlv", "sd_entry", "path_trace"} : \A i \in Rows(walk, t) :
    LET x == walk.out.rows[i]
    IN /\ x.to <= x.own
       /\ \A j \in Rows(walk, t) :
            j < i => /\ walk.out.rows[j].to <= x.to
                     /\ t # "path_trace" => walk.out.rows[j].index < x.index

\* Two readers are not bounded by their item, and stay inside what holds it: an
\* SD option's address is read inside the declared options region (someip.hpp:
\* "clamped ... to the SD region's declared lengths"), the fields of a gPTP
\* organization TLV inside the declared message (parse_follow_up).
ShapesReadInRegion ==
  /\ \A i \in Rows(walk, "sd_option") : walk.out.rows[i].to <= walk.out.rows[i].limit
  /\ \A i \in Rows(walk, "follow_up") :
       \A r \in walk.out.rows[i].reads : r.to <= walk.out.rows[i].limit

\* Every pass returns: neither the scan nor the walk of any packet, whatever
\* its headers say, goes round for ever (the guard, the minimum lengths).
PassReturns == <>Returned

\* No header or fragment is read outside the packet and its window, no item
\* outside itself, and the two shapes that may be larger than their item not
\* outside the region that holds it (walk_packet_ext and the walkers of the
\* protocols).
ReadsStayInside == WindowsInside /\ ItemsReadInPlace /\ ShapesReadInRegion

\* The rows of a packet tell one story: L4 once, indices that join, a tree with
\* the same layers (PacketVisitor, Gptp::state, PacketJson).
RowsTellOneStory == L4Once /\ MessageIndexJoins /\ JsonMatchesTables
=============================================================================
