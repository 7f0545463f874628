----------------------------- MODULE PacketWalk -----------------------------
(***************************************************************************)
(* walk_packet_ext (include/nanom_shark/protocols.hpp) with the visitor    *)
(* that consumes it (packet_visitor.hpp) and the L4 entry points           *)
(* (l4_dispatch.hpp).                                                      *)
(*                                                                         *)
(* The state of a walk is a record w: the captured size, the cursor `off`, *)
(* the offset `at` of the last header reported, the stage, and what the    *)
(* visitor has gathered.  Each operator below is one turn of the walk: it  *)
(* reads the header h at the cursor, if the packet is long enough, calls   *)
(* the visitor, and moves on.  Header bytes are arbitrary: every header is *)
(* read once, so it is chosen as it is read.                               *)
(***************************************************************************)
EXTENDS SharkProtocols, Defrag

CONSTANTS Decoder,      \* the protocol list of decoder<...>
          ext_guard     \* most IPv6 extension headers walked, 64 in the code

kLinkTypeEthernet == 1
VlanTypes == {"vlan", "qinq"}

is_ipv6_ext(nh) == nh \in {0, 43, 44, 60, 51}

\* No completed datagram is waiting to be dispatched.
NoDatagram == [id |-> 0]

\* A walk that has not read anything, and one that has returned.
Walk(link, size) ==
  [size |-> size, off |-> 0, at |-> 0, link_type |-> link, vlan_count |-> 0,
   stage |-> IF link = kLinkTypeEthernet THEN "eth" ELSE "stop",
   ethertype |-> "none", nh |-> 0, guard |-> 0, has_l4 |-> TRUE,
   is_fragment |-> FALSE, base |-> 0, payload_length |-> 0, windows |-> {},
   data |-> {}, due |-> NoDatagram, l2_end |-> 0, l3_end |-> 0, l4_end |-> 0, out |-> NoOutput, index |-> 0]

Stop(w) == [w EXCEPT !.stage = "stop"]

\* strct<T> at the cursor succeeds.
fits(w, n) == w.size - w.off >= n

\* The decode context the visitor hands to a trigger.
decode_ctx(w, ip_proto, src, dst) ==
  [link_type |-> w.link_type, ethertype |-> w.ethertype, ip_proto |-> ip_proto,
   src_port |-> src, dst_port |-> dst]

\* Dispatch over the window of n bytes at `from`, keeping a record of it.
Dispatched(w, layer, c, from, n, body) ==
  LET st == dispatch(Decoder, layer, c, n, body, [out |-> w.out, index |-> w.index])
  IN [w EXCEPT !.out = st.out, !.index = st.index,
               !.windows = @ \cup {[from |-> from, to |-> from + n]}]

-----------------------------------------------------------------------------
(* Ethernet and VLAN                                                       *)

AfterL2(ethertype) == IF ethertype \in VlanTypes THEN "vlan" ELSE "l2"

on_eth(w, ethertype) ==
  IF ~fits(w, 14) THEN Stop(w)
  ELSE [w EXCEPT !.off = 14, !.ethertype = ethertype, !.stage = AfterL2(ethertype),
                 !.out = Push(@, [table |-> "eth"], "eth")]

on_vlan(w, ethertype) ==
  IF ~fits(w, 4) THEN Stop(w)
  ELSE [w EXCEPT !.at = w.off, !.off = @ + 4, !.ethertype = ethertype,
                 !.vlan_count = @ + 1, !.stage = AfterL2(ethertype),
                 !.out = Push(@, [table |-> "vlan"], "vlan")]

\* The Ethernet payload is dispatched, then the walk enters IP or returns.
on_l2_done(w, body) ==
  LET c == decode_ctx(w, 0, 0, 0)
      d == Dispatched(w, "eth_payload", c, w.off, w.size - w.off, body)
  IN [d EXCEPT !.l2_end = w.off,
               !.stage = IF w.ethertype \in {"ipv4", "ipv6"} THEN w.ethertype ELSE "stop"]

-----------------------------------------------------------------------------
(* IPv4 and IPv6.  A header may give a fragment to the reassembly table:   *)
(* where its data is, and how much of it was captured.                     *)

NoFragment == [given |-> FALSE]

HeaderBytes(units, least) == AtLeast(4 * units, least)

Fragment(h, v, from, len, limit, proto) ==
  [given |-> TRUE, version |-> v, key |-> h.key, offset |-> 8 * h.frag_offset,
   more |-> h.more, from |-> from, len |-> len, limit |-> limit, proto |-> proto,
   fill |-> h.fill]

fragment_of_ipv4(w, h, defrag_on) ==
  LET hdr == HeaderBytes(h.ihl, 20)
      payload == w.off + hdr
      declared == IF h.total_length > hdr THEN h.total_length - hdr ELSE 0
  IN IF (h.frag_offset = 0 /\ ~h.more) \/ ~defrag_on \/ ~fits(w, 20) \/ payload > w.size
     THEN NoFragment
     ELSE Fragment(h, 4, payload, AtMost(declared, w.size - payload),
                   w.off + h.total_length, h.protocol)

on_ipv4(w, h, defrag_on) ==
  LET l3 == HeaderBytes(h.ihl, 20)
      row == [w EXCEPT !.out = Push(@, [table |-> "ipv4"], "ip"), !.at = w.off,
                       !.is_fragment = (h.frag_offset # 0 \/ h.more) /\ defrag_on]
  IN IF ~fits(w, 20) THEN Stop(w)
     ELSE IF ~fits(w, l3) THEN Stop(row)
     ELSE [row EXCEPT !.off = @ + l3, !.nh = h.protocol, !.stage = "l4",
                      !.has_l4 = h.frag_offset = 0]

on_ipv6(w, h) ==
  IF ~fits(w, 40) THEN Stop(w)
  ELSE [w EXCEPT !.at = w.off, !.base = w.off, !.off = @ + 40, !.nh = h.next_header,
                 !.payload_length = h.payload_length, !.stage = "ext",
                 !.out = Push(@, [table |-> "ipv6"], "ipv6")]

\* Mutant of ext_done: a chain that runs off the packet is tried again.
ext_doneAgain(w) ==
  IF w.guard < ext_guard /\ is_ipv6_ext(w.nh) THEN w ELSE [w EXCEPT !.stage = "l4"]

\* The turn of the extension loop that leaves it, or finds no byte left.
ext_done(w) ==
  IF w.guard < ext_guard /\ is_ipv6_ext(w.nh) THEN Stop(w) ELSE [w EXCEPT !.stage = "l4"]

InExt(w) == w.guard < ext_guard /\ is_ipv6_ext(w.nh) /\ w.off < w.size
Turn(w) == [w EXCEPT !.at = w.off, !.guard = @ + 1]
Extended(w, h, n) == [w EXCEPT !.off = @ + n, !.nh = h.next_header]

\* for_each_ipv6_option over [start, end): type 0 is a lone pad byte.
option_step(k, opt, lim) ==
  LET n == IF opt.type = 0 THEN 1 ELSE 2 + opt.length
  IN IF k.ended \/ k.at >= lim \/ k.at + n > lim THEN [k EXCEPT !.ended = TRUE]
     ELSE [k EXCEPT !.at = @ + n, !.count = @ + 1, !.to = k.at + n]

Options(w, start, end, items) ==
  FoldLeft(LAMBDA k, x : option_step(k, x, AtMost(end, w.size)), Cursor(start), items)

RECURSIVE Layers(_, _, _)
Layers(o, name, n) == IF n <= 0 THEN o ELSE Layers(Layer(o, name), name, n - 1)

\* Hop-by-Hop (0) and Destination Options (60).
on_ext_opt(w, h) ==
  LET hlen == 8 * (h.ext_len + 1)
      k == Options(w, w.off + 2, w.off + hlen, h.items)
      name == IF w.nh = 0 THEN "hop_by_hop" ELSE "dest_opts"
      o == Layers(Layer(w.out, name), "ipv6_option", k.count)
  IN IF ~fits(w, 2) THEN Stop(w) ELSE Extended([Turn(w) EXCEPT !.out = o], h, hlen)

\* Routing (43): the segments that fit, then the TLVs behind all of them.
on_srh(w, h) ==
  LET hlen == 8 * (h.ext_len + 1)
      end  == AtMost(w.off + hlen, w.size)
      room == IF end >= w.off + 8 THEN (end - w.off - 8) \div 16 ELSE 0
      k == Options(w, w.off + 8 + 16 * (h.last_entry + 1), end, h.items)
      o == Layers(Layers(Layer(w.out, "srh"), "srh_segment", AtMost(room, h.last_entry + 1)),
                  "ipv6_option", k.count)
  IN IF ~fits(w, 8) THEN Stop(w) ELSE Extended([Turn(w) EXCEPT !.out = o], h, hlen)

on_ah(w, h) ==
  IF ~fits(w, 12) THEN Stop(w)
  ELSE Extended([Turn(w) EXCEPT !.out = Layer(@, "ah")], h, 4 * (h.ext_len + 2))

\* Mutant of fragment_of_ipv6: the headers before the data are not deducted.
fragment_of_ipv6Whole(w, h, defrag_on) ==
  LET data == w.off + 8
  IN IF ~defrag_on \/ ~fits(w, 8) THEN NoFragment
     ELSE Fragment(h, 6, data, AtMost(w.payload_length, w.size - data),
                   w.base + 40 + w.payload_length, h.next_header)

\* Fragment (44): the declared payload less everything before the data.
fragment_of_ipv6(w, h, defrag_on) ==
  LET data == w.off + 8
      before == data - w.base - 40
      declared == IF w.payload_length > before THEN w.payload_length - before ELSE 0
  IN IF ~defrag_on \/ ~fits(w, 8) THEN NoFragment
     ELSE Fragment(h, 6, data, AtMost(declared, w.size - data),
                   w.base + 40 + w.payload_length, h.next_header)

on_fragment(w, h, defrag_on) ==
  LET o == [Turn(w) EXCEPT !.out = Layer(@, "fragment_hdr"),
                           !.is_fragment = @ \/ defrag_on]
      e == Extended(o, h, 8)
  IN IF ~fits(w, 8) THEN Stop(w)
     ELSE IF h.frag_offset # 0 THEN [e EXCEPT !.has_l4 = FALSE, !.stage = "l4"] ELSE e

-----------------------------------------------------------------------------
(* TCP and UDP.  on_tcp_layer / on_udp_layer push the row and dispatch the *)
(* payload; the walk and the reassembled datagram share them.              *)

on_l4_layer(w, table, proto, h, dg, from, n, body) ==
  LET row == [table |-> table, datagram_id |-> dg, is_reassembled |-> dg # 0]
  IN Dispatched([w EXCEPT !.out = Push(@, row, table)], "l4_payload",
                decode_ctx(w, proto, h.src_port, h.dst_port), from, n, body)

on_tcp(w, h, body) ==
  LET payload == w.off + HeaderBytes(h.data_offset, 20)
      inside  == payload <= w.size
  IN IF w.is_fragment THEN w
     ELSE on_l4_layer([w EXCEPT !.l3_end = w.off, !.l4_end = payload], "tcp", kIpProtoTcp, h, 0,
                      IF inside THEN payload ELSE 0,
                      IF inside THEN w.size - payload ELSE 0, body)

\* Mutant of on_udp: a fragment's own header is decoded too.
on_udpAlways(w, h, body) ==
  LET payload  == w.off + 8
      declared == IF h.length > 8 THEN h.length - 8 ELSE 0
  IN on_l4_layer([w EXCEPT !.l3_end = w.off, !.l4_end = payload], "udp", kIpProtoUdp, h, 0,
                 payload, AtMost(declared, w.size - payload), body)

on_udp(w, h, body) ==
  LET payload  == w.off + 8
      declared == IF h.length > 8 THEN h.length - 8 ELSE 0
  IN IF w.is_fragment THEN w
     ELSE on_l4_layer([w EXCEPT !.l3_end = w.off, !.l4_end = payload], "udp", kIpProtoUdp, h, 0,
                      payload, AtMost(declared, w.size - payload), body)

\* The end of the walk: the L4 header, unless the bytes there are the data of
\* a later fragment, or there are too few of them.
walk_l4(w, h, body) ==
  LET there == w.has_l4 /\ w.off <= w.size
      here  == IF there THEN [w EXCEPT !.at = w.off] ELSE w
  IN Stop(IF there /\ w.nh = kIpProtoTcp /\ fits(w, 20) THEN on_tcp(here, h, body)
          ELSE IF there /\ w.nh = kIpProtoUdp /\ fits(w, 8) THEN on_udp(here, h, body)
          ELSE here)

\* What the visitor makes of the result of add_fragment: the row of the
\* fragment and, if the datagram is complete, its row and the dispatch due.
FragmentTable(v) == IF v = 4 THEN "ipv4_frag" ELSE "ipv6_frag"
FragmentLayer(v) == IF v = 4 THEN "ip.fragment" ELSE "ipv6.fragment"

given(w, f, result) ==
  LET met == [w EXCEPT !.data = @ \cup {[from |-> f.from, to |-> f.from + f.len,
                                         limit |-> f.limit]},
                       !.out = Push(@, [table |-> FragmentTable(f.version),
                                        datagram_id |-> result.datagram_id],
                                    FragmentLayer(f.version))]
      size == Len(Bytes(result.parts))
      row == [table |-> "datagram", datagram_id |-> result.datagram_id,
              total_length |-> size, completion_status |-> 0]
  IN IF ~result.completed THEN met
     ELSE [met EXCEPT !.out = Push(@, row, "ip.reassembled"),
                      !.due = [id |-> result.datagram_id, proto |-> f.proto, size |-> size]]

\* dispatch_l4 over the reassembled datagram that is due, which starts with
\* header h.  A datagram is not a window of the packet, so none is recorded.
dispatch_l4(w, h, body) ==
  LET done == [w EXCEPT !.due = NoDatagram]
      n    == w.due.size
      over(table, hdr) ==
        [on_l4_layer(done, table, w.due.proto, h, w.due.id, 0, n - hdr, body)
           EXCEPT !.windows = w.windows]
  IN IF w.due.proto = kIpProtoTcp /\ n >= 20 THEN over("tcp", 20)
     ELSE IF w.due.proto = kIpProtoUdp /\ n >= 8 THEN over("udp", 8)
     ELSE done
=============================================================================
