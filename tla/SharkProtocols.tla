--------------------------- MODULE SharkProtocols ---------------------------
(***************************************************************************)
(* The protocols nanom_shark decodes above Ethernet and UDP, and how one   *)
(* is chosen: protocol.hpp (triggers, the dispatch fold), gptp.hpp,        *)
(* lldp.hpp, someip.hpp and the JSON tree of json_tree.hpp.                *)
(*                                                                         *)
(* A parser is handed the length n of its window; what it finds there is   *)
(* an arbitrary `body`, a record of the fields the control depends on and  *)
(* the sequence of the items (TLVs, options, members) it meets, each with  *)
(* the length it declares.  A row keeps what the properties look at: its   *)
(* table, its indices, and for a value the last byte read (`to`), the end  *)
(* of the item it belongs to (`own`) and of the region the item lies in    *)
(* (`limit`), all relative to the window.                                  *)
(***************************************************************************)
EXTENDS Integers, Sequences, SequencesExt, FiniteSets

CONSTANTS someip_ports,       \* DecodeOptions::someip_ports
          someip_tlv_ports,   \* DecodeOptions::someip_tlv_ports
          Index8              \* 2^8: SD entry and option indices are 8 bits wide

kEtherTypeGptp == "gptp"
kEtherTypeLldp == "lldp"
kIpProtoTcp    == 6
kIpProtoUdp    == 17

AtMost(a, b)  == IF a <= b THEN a ELSE b
AtLeast(a, b) == IF a >= b THEN a ELSE b

-----------------------------------------------------------------------------
(* What a packet leaves behind: table rows, and JSON layers in order of    *)
(* first appearance, each with the number of objects under its name.       *)

NoOutput == [rows |-> <<>>, json |-> <<>>]

\* Mutant of add_layer_json: a repeated name opens a second layer.
add_layer_jsonTwice(json, name) ==
  Append(json, [name |-> name, count |-> 1, is_array |-> FALSE])

add_layer_json(json, name) ==
  LET at == {i \in DOMAIN json : json[i].name = name}
  IN IF at = {} THEN Append(json, [name |-> name, count |-> 1, is_array |-> FALSE])
     ELSE [i \in DOMAIN json |->
             IF i \in at THEN [json[i] EXCEPT !.count = @ + 1, !.is_array = TRUE]
                         ELSE json[i]]

Layer(o, name) == [o EXCEPT !.json = add_layer_json(@, name)]
Push(o, row, name) == Layer([o EXCEPT !.rows = Append(@, row)], name)

-----------------------------------------------------------------------------
(* Triggers: predicates on the decode context, as trees.                   *)

port_in(ports, a, b) == a \in ports \/ b \in ports

RECURSIVE match(_, _)
match(t, c) ==
  CASE t.op = "ethertype" -> c.ethertype = t.v
    [] t.op = "ip_proto"  -> c.ip_proto = t.v
    [] t.op = "link_type" -> c.link_type = t.v
    [] t.op = "udp_port"  -> c.ip_proto = kIpProtoUdp /\ port_in(t.v, c.src_port, c.dst_port)
    [] t.op = "tcp_port"  -> c.ip_proto = kIpProtoTcp /\ port_in(t.v, c.src_port, c.dst_port)
    [] t.op = "opt_enabled" -> t.v   \* the value of a DecodeOptions flag
    [] t.op = "never"     -> FALSE
    [] t.op = "always"    -> TRUE
    [] t.op = "all_of"    -> \A i \in DOMAIN t.v : match(t.v[i], c)
    [] t.op = "any_of"    -> \E i \in DOMAIN t.v : match(t.v[i], c)
    [] t.op = "not_"      -> ~match(t.v[1], c)

\* Which dispatch points a trigger is tried at; link_type, opt_enabled, always
\* and not_ do not say, and so are tried at both.
RECURSIVE applies(_, _)
applies(t, layer) ==
  CASE t.op = "ethertype" -> layer = "eth_payload"
    [] t.op \in {"ip_proto", "udp_port", "tcp_port"} -> layer = "l4_payload"
    [] t.op = "never"     -> FALSE
    [] t.op = "all_of"    -> \A i \in DOMAIN t.v : applies(t.v[i], layer)
    [] t.op = "any_of"    -> \E i \in DOMAIN t.v : applies(t.v[i], layer)
    [] OTHER              -> TRUE

\* The triggers of the registered protocols.
Trigger(p) ==
  CASE p.name = "core"   -> [op |-> "never"]
    [] p.name = "someip" -> [op |-> "udp_port", v |-> someip_ports]
    [] p.name = "gptp"   -> [op |-> "ethertype", v |-> kEtherTypeGptp]
    [] p.name = "lldp"   -> [op |-> "ethertype", v |-> kEtherTypeLldp]
    [] OTHER             -> p.trigger

-----------------------------------------------------------------------------
(* gPTP                                                                    *)

GptpTables == {"sync", "delay_req", "pdelay_req", "follow_up", "delay_resp",
               "pdelay_resp", "pdelay_resp_follow_up", "announce"}

FixedBody(type) ==
  CASE type \in {"sync", "delay_req", "pdelay_req", "follow_up"} -> 10
    [] type \in {"delay_resp", "pdelay_resp", "pdelay_resp_follow_up"} -> 20
    [] type = "announce" -> 30

\* A walk over [type, length] items in a window: `at` the cursor, `ended` set
\* once the loop has been left.  Every item has a 4-byte header.
Cursor(at) == [at |-> at, ended |-> FALSE, rows |-> <<>>, reads |-> {}, has |-> FALSE, count |-> 0]

\* One TLV of a Follow_Up or an Announce; the walk goes on after the length
\* the TLV declares, whatever was decoded of it.  The reader of an organization
\* extension of 16 bytes or more is bounded by the message: it reads 28 bytes
\* if they are there, and else 12 and the next four, its skip having failed.
tlv_step(kind, k, tlv, end) ==
  LET at   == k.at + 4
      info == kind = "follow_up" /\ tlv.type = "org" /\ tlv.length >= 16
      path == kind = "announce" /\ tlv.type = "path"
      whole == end - at >= 28
      entry(i) == [entry |-> i - 1, to |-> at + 8 * i, own |-> at + tlv.length]
      entries == [i \in 1 .. tlv.length \div 8 |-> entry(i)]
  IN IF k.ended \/ end - k.at < 4 \/ tlv.length > end - at
     THEN [k EXCEPT !.ended = TRUE]
     ELSE [k EXCEPT
             !.at = at + tlv.length,
             !.has = IF info THEN whole ELSE @ \/ path,
             !.reads = IF info THEN @ \cup {[to |-> at + (IF whole THEN 28 ELSE 16),
                                            own |-> at + tlv.length]} ELSE @,
             !.count = IF path THEN Len(entries) ELSE @,
             !.rows = IF path THEN @ \o entries ELSE @]

\* The TLV loops of parse_follow_up and parse_announce; the others have none.
Tlvs(body, start, end) ==
  IF body.type \in {"follow_up", "announce"}
  THEN FoldLeft(LAMBDA k, tlv : tlv_step(body.type, k, tlv, end), Cursor(start), body.items)
  ELSE Cursor(start)

\* Mutant of next_msg_index: a message without a row gives its index back.
next_msg_indexReused(index, pushed) == IF pushed THEN index ELSE index + 1

\* The index advances with every message that has a header, row or no row.
next_msg_index(index, pushed) == index + 1

\* parse_gptp_message and the eight body parsers.
parse_gptp(n, body, index, o) ==
  LET end    == 34 + AtMost(body.length - 34, n - 34)
      short  == end - 34 < FixedBody(body.type)
      k      == Tlvs(body, 34 + FixedBody(body.type), end)
      paths  == FoldLeft(LAMBDA acc, x :
                           Push(acc, [table |-> "path_trace", index |-> index, entry |-> x.entry,
                                      to |-> x.to, own |-> x.own], "path_trace"), o, k.rows)
      row    == [table |-> body.type, index |-> index, reads |-> k.reads, limit |-> end,
                 count |-> k.count]
  IN IF n < 34 \/ body.length < 34 THEN [out |-> o, index |-> index]
     ELSE IF body.type = "other" \/ short
     THEN [out |-> o, index |-> next_msg_index(index, FALSE)]
     ELSE [out |-> Push(paths, row, body.type), index |-> next_msg_index(index, TRUE)]

-----------------------------------------------------------------------------
(* LLDP: many0 over [type, length] TLVs with a 2-byte header.              *)

\* The last byte decode_row reads of a value of v.length bytes that starts
\* with addr_str_len v.first: the 32-byte head, and what the type calls for.
LastRead(v) ==
  LET after == 1 + v.first
      typed == CASE v.type = "ttl" /\ v.length >= 2 -> 2
                 [] v.type = "sys_caps" /\ v.length >= 4 -> 4
                 [] v.type = "mgmt_addr" /\ v.length >= 1 ->
                      IF v.first = 0 \/ v.length < after THEN 1
                      ELSE IF v.length >= after + 5 THEN after + 5
                      ELSE IF v.length >= after + 1 THEN after + 1 ELSE 2
                 [] OTHER -> 0
  IN AtLeast(AtMost(v.length, 32), typed)

\* Mutant of lldp_step: a TLV that runs past the window is cut short.
lldp_stepCut(k, tlv, n) ==
  IF k.ended \/ n - k.at < 2 \/ tlv.type = "end"
  THEN [k EXCEPT !.ended = TRUE]
  ELSE [k EXCEPT !.at = @ + 2 + tlv.length,
                 !.rows = Append(@, [table |-> "lldp", index |-> Len(@), type |-> tlv.type,
                                     to |-> k.at + 2 + LastRead(tlv),
                                     own |-> AtMost(n, k.at + 2 + tlv.length)])]

lldp_step(k, tlv, n) ==
  IF k.ended \/ n - k.at < 2 \/ tlv.type = "end" \/ tlv.length > n - k.at - 2
  THEN [k EXCEPT !.ended = TRUE]
  ELSE [k EXCEPT !.at = @ + 2 + tlv.length,
                 !.rows = Append(@, [table |-> "lldp", index |-> Len(@), type |-> tlv.type,
                                     to |-> k.at + 2 + LastRead(tlv),
                                     own |-> k.at + 2 + tlv.length])]

lldp_walk(n, body, o) ==
  FoldLeft(LAMBDA acc, row : Push(acc, row, "lldp"), o,
           FoldLeft(LAMBDA k, tlv : lldp_step(k, tlv, n), Cursor(0), body.items).rows)

-----------------------------------------------------------------------------
(* SOME/IP                                                                 *)

AddressBytes(type) == CASE type = "v4" -> 4 [] type = "v6" -> 16 [] OTHER -> 0

\* One Service Discovery option [length:2][type:1]..., probed up to 24 bytes of
\* the region, whatever length the option declares.
sd_option_step(k, opt, end) ==
  LET probe == AtMost(24, end - k.at)
      next  == k.at + 3 + opt.length
      want  == 4 + AddressBytes(opt.type) + 4
      read  == opt.type \in {"v4", "v6"} /\ want <= probe
  IN IF k.ended \/ k.at + 3 > end \/ next > end
     THEN [k EXCEPT !.ended = TRUE]
     ELSE [k EXCEPT !.at = next, !.count = @ + 1,
                    !.rows = Append(@, [table |-> "sd_option", index |-> k.count % Index8,
                                        type |-> opt.type, own |-> next, limit |-> end,
                                        to |-> IF read THEN k.at + want ELSE k.at + 3])]

\* for_each_sd_child: the entries, then the options.
for_each_sd_child(n, body, o) ==
  LET entries_end == AtMost(8 + body.entries_len, n)
      entries == [i \in 1 .. (entries_end - 8) \div 16 |->
                    [table |-> "sd_entry", index |-> (i - 1) % Index8,
                     to |-> 8 + 16 * i, own |-> 8 + body.entries_len]]
      with_entries == FoldLeft(LAMBDA acc, row : Push(acc, row, "sd_entry"), o, entries)
      opt == 8 + body.entries_len + 4
      options == FoldLeft(LAMBDA k, x : sd_option_step(k, x, AtMost(opt + body.options_len, n)),
                          Cursor(opt), body.items).rows
  IN IF ~body.sd \/ n < 8 THEN o
     ELSE IF opt > n THEN with_entries
     ELSE FoldLeft(LAMBDA acc, row : Push(acc, row, "sd_option"), with_entries, options)

\* The prefix that gives a member's length, per wire type; 4 stops the walk.
PrefixBytes(wt) == CASE wt = 5 -> 1 [] wt = 6 -> 2 [] wt = 7 -> 4 [] OTHER -> 0
FixedBytes(wt) == CASE wt = 0 -> 1 [] wt = 1 -> 2 [] wt = 2 -> 4 [] wt = 3 -> 8

\* p_someip_member_seg, and the round of walk_tlv_members around it.
member_step(k, m, n) ==
  LET at   == k.at + 2 + PrefixBytes(m.wire_type)
      vlen == IF m.wire_type <= 3 THEN FixedBytes(m.wire_type) ELSE m.length
  IN IF k.ended \/ k.at >= n \/ m.wire_type = 4 \/ at > n \/ vlen > n - at
     THEN [k EXCEPT !.ended = TRUE]
     ELSE [k EXCEPT !.at = at + vlen, !.count = @ + 1,
                    !.rows = Append(@, [table |-> "someip_tlv", index |-> k.count,
                                        to |-> at, own |-> at + vlen])]

walk_tlv_members(n, body, o) ==
  FoldLeft(LAMBDA acc, row : Push(acc, row, "tlv_member"), o,
           FoldLeft(LAMBDA k, m : member_step(k, m, n), Cursor(0), body.members).rows)

\* maybe_dispatch: the header, Service Discovery if it is that, and the
\* members if the port is configured to carry them.
parse_someip(n, c, body, o) ==
  LET headed == Push(o, [table |-> "someip"], "someip")
      sd     == for_each_sd_child(n - 16, body, headed)
  IN IF n < 16 THEN o
     ELSE IF port_in(someip_tlv_ports, c.src_port, c.dst_port)
          THEN walk_tlv_members(n - 16, body, sd) ELSE sd

-----------------------------------------------------------------------------
(* The one dispatch: every protocol of the list whose trigger applies here *)
(* and matches parses the window.                                          *)

parse(p, layer, c, n, body, st) ==
  CASE p.name = "gptp" -> parse_gptp(n, body, st.index, st.out)
    [] p.name = "lldp" -> [st EXCEPT !.out = lldp_walk(n, body, @)]
    [] p.name = "someip" -> [st EXCEPT !.out = parse_someip(n, c, body, @)]
    [] OTHER -> [st EXCEPT !.out = Push(@, [table |-> p.name, layer |-> layer], p.name)]

dispatch_one(layer, p, c, n, body, st) ==
  IF applies(Trigger(p), layer) /\ match(Trigger(p), c)
  THEN parse(p, layer, c, n, body, st) ELSE st

dispatch(decoder, layer, c, n, body, st) ==
  FoldLeft(LAMBDA acc, p : dispatch_one(layer, p, c, n, body, acc), st, decoder)
=============================================================================
