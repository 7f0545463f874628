----------------------------- MODULE MCCapture -----------------------------
(***************************************************************************)
(* Small captures for TLC: every pcapng file of a section header and three *)
(* more blocks, in both byte orders, the last of them malformed or cut off *)
(* in some; classic pcap files with records of any length; and captures    *)
(* whose packets exercise one group of headers each.                       *)
(***************************************************************************)
EXTENDS CaptureDecode

MCRadix == 16
MCExtGuard == 3

-----------------------------------------------------------------------------
(* A writer of captures                                                    *)

\* A 32-bit field of a number, and so many zero bytes.
Word(v, little) ==
  LET d == <<v % 16, (v \div 16) % 16, (v \div 256) % 16, (v \div 4096) % 16>>
  IN IF little THEN d ELSE Reverse(d)
Filler(n) == [i \in 1 .. n |-> 0]

Block(type, body, little) ==
  LET length == Word(Len(body) + 12, little)
  IN Word(type, little) \o length \o body \o length

\* A capture, of blocks laid out one after the other.
Capture(blocks, traffic, classic) ==
  LET size(n) == FoldLeft(LAMBDA acc, b : acc + Len(b.bytes), 0, SubSeq(blocks, 1, n))
      facts(b, start) ==
        [start |-> start, length |-> Len(b.bytes), kind |-> b.kind, little |-> b.little,
         sound |-> b.sound, link |-> b.link, iface |-> b.iface, data |-> b.data]
  IN [bytes |-> FoldLeft(LAMBDA acc, b : acc \o b.bytes, <<>>, blocks),
      blocks |-> [i \in DOMAIN blocks |-> facts(blocks[i], size(i - 1))],
      traffic |-> traffic, classic |-> classic]

Fact(kind, little, bytes) ==
  [bytes |-> bytes, kind |-> kind, little |-> little, sound |-> TRUE,
   link |-> 0, iface |-> 0, data |-> 0]

ShbBlock(little) ==
  Fact("Shb", little, Block(kShb, Word(kByteOrderMagic, little) \o Filler(12), little))

\* An interface block, whole or without its snap length and reserved field.
IdbBlock(link, little) ==
  LET two == <<link % 16, link \div 16>>
  IN [Fact("Idb", little, Block(kIdb, (IF little THEN two ELSE Reverse(two)) \o Filler(6), little))
        EXCEPT !.link = link]
ShortIdb(n, little) == Fact("Idb", little, Block(kIdb, Filler(n), little))

\* An EPB of `data` payload bytes that says it holds `caplen`.
EpbBlock(iface, caplen, data, little) ==
  [Fact("Epb", little,
        Block(kEpb, Word(iface, little) \o Filler(8) \o Word(caplen, little) \o Word(caplen, little)
                    \o Filler(4 * ((data + 3) \div 4)), little))
     EXCEPT !.iface = iface, !.data = data]

\* A block whose length field is `length`, right or not, and one cut off.
BadBlock(length, little) ==
  [Fact("Other", little, Word(9, little) \o Word(length, little) \o Filler(4)) EXCEPT !.sound = FALSE]
Cut(b, n) == [b EXCEPT !.bytes = SubSeq(@, 1, n), !.sound = FALSE]

ClassicHeader(magic, link, little) ==
  [Fact("Idb", little, Word(magic, TRUE) \o Filler(16) \o Word(link, little)) EXCEPT !.link = link]
ClassicRecord(caplen, little) ==
  [Fact("PcapRecord", little, Filler(8) \o Word(caplen, little) \o Word(caplen, little)
                              \o Filler(caplen)) EXCEPT !.data = caplen]

\* A pcapng file from a list of block builders; a section header is "ShbL" or
\* "ShbB" and sets the order of what follows.
Built(name, little) ==
  CASE name = "ShbL" -> ShbBlock(TRUE)
    [] name = "ShbB" -> ShbBlock(FALSE)
    [] name = "Idb1" -> IdbBlock(1, little)
    [] name = "Idb2" -> IdbBlock(18, little)
    [] name = "Idb12" -> ShortIdb(0, little)
    [] name = "Idb16" -> ShortIdb(4, little)
    [] name = "Epb0" -> EpbBlock(0, 0, 0, little)
    [] name = "Epb1" -> EpbBlock(1, 0, 0, little)
    [] name = "EpbLong" -> EpbBlock(0, 4, 0, little)
    [] name = "Spb" -> Fact("SimplePacket", little, Block(kSpb, <<>>, little))
    [] name = "Other" -> Fact("Other", little, Block(5, <<>>, little))
    [] name = "Tiny" -> BadBlock(8, little)
    [] name = "Odd" -> BadBlock(14, little)
    [] name = "Huge" -> BadBlock(252, little)
    [] name = "Cut3" -> Cut(BadBlock(12, little), 3)
    [] name = "Cut7" -> Cut(IdbBlock(1, little), 7)
    [] name = "CutShb" -> Cut(ShbBlock(little), 11)

LittleAt(names, i) ==
  LET shbs == {j \in 1 .. i : names[j] \in {"ShbL", "ShbB"}}
  IN names[CHOOSE j \in shbs : \A k \in shbs : k <= j] = "ShbL"

Pcapng(names, traffic) ==
  Capture([i \in DOMAIN names |-> Built(names[i], LittleAt(names, i))], traffic, FALSE)

SectionNames == {"ShbL", "ShbB"}
BlockNames == SectionNames \cup {"Idb1", "Idb2", "Idb12", "Epb0", "Epb1", "EpbLong", "Other"}
LastNames == BlockNames \cup {"Spb", "Idb16", "Tiny", "Odd", "Huge", "Cut3", "Cut7", "CutShb"}
FramingFiles ==
  {Pcapng(<<s, a, b, c>>, "framing") : s \in SectionNames, a \in BlockNames, b \in BlockNames,
                                       c \in LastNames}
  \cup {Pcapng(<<"ShbL", "Idb2", a, s, "Idb1", b, "Epb0", "Epb1">>, "framing") :
          s \in SectionNames, a \in {"Idb1", "Idb12"}, b \in {"Idb2", "Idb12", "Idb16"}}
  \cup {Capture(<<b>>, "framing", FALSE) :
          b \in {Cut(BadBlock(12, TRUE), 3), Cut(ShbBlock(TRUE), 11), BadBlock(12, TRUE)}}

\* Records of any number of bytes, the last of them whole or cut off.
ClassicFile(magic, n, last) ==
  LET little == magic \in {kMagicUsLE, kMagicNsLE}
      record == ClassicRecord(5, little)
  IN Capture(<<ClassicHeader(magic, 18, little), ClassicRecord(n, little),
               IF last < 21 THEN Cut(record, last) ELSE record>>, "framing", TRUE)
ClassicFiles ==
  {ClassicFile(m, n, last) : m \in Magics, n \in {0, 1, 18}, last \in {1, 15, 20, 21}}
  \cup {Capture(<<Cut(ClassicHeader(kMagicUsBE, 1, FALSE), 23)>>, "framing", TRUE)}

\* One interface, and packets of the given captured lengths.
Traffic(name, sizes) ==
  Capture(<<ShbBlock(TRUE), IdbBlock(1, TRUE)>>
          \o [i \in DOMAIN sizes |-> EpbBlock(0, sizes[i], sizes[i], TRUE)], name, FALSE)

TrafficFiles ==
  {Traffic("l2", <<n>>) : n \in {13, 14, 17, 18, 22, 40}}
  \cup {Traffic("gptp", <<n, 98, 98>>) : n \in {40, 98}}
  \cup {Traffic("lldp", <<n>>) : n \in {24, 54}}
  \cup {Traffic("udp", <<n>>) : n \in {33, 38, 41, 54, 62, 100, 126}}
  \cup {Traffic("ext", <<n>>) : n \in {53, 62, 70, 102}}
  \cup {Traffic("frag4", <<50, 50, 50>>), Traffic("frag4", <<42, 58>>)}
  \cup {Traffic("frag6", <<78, 78>>), Traffic("frag6", <<86, 70>>)}

MCCaptures == FramingFiles \cup ClassicFiles \cup TrafficFiles

-----------------------------------------------------------------------------
(* Packet contents                                                         *)

NoBody == [type |-> "other", length |-> 0, items |-> <<>>, members |-> <<>>, sd |-> FALSE,
           entries_len |-> 0, options_len |-> 0]
UpTo2(S) == {<<>>} \cup {<<a>> : a \in S} \cup {<<a, b>> : a \in S, b \in S}

GptpBodies ==
  {[NoBody EXCEPT !.type = t, !.length = n] : t \in {"sync", "pdelay_resp", "other"}, n \in {20, 44, 60}}
  \cup {[NoBody EXCEPT !.type = "follow_up", !.length = 84, !.items = s] :
          s \in UpTo2({[type |-> "org", length |-> 28], [type |-> "org", length |-> 16],
                       [type |-> "org", length |-> 8],
                       [type |-> "pad", length |-> 4]})}
  \cup {[NoBody EXCEPT !.type = "announce", !.length = n, !.items = s] : n \in {60, 84},
          s \in UpTo2({[type |-> "path", length |-> 8], [type |-> "path", length |-> 12],
                       [type |-> "pad", length |-> 3]})}
LldpBodies ==
  {[NoBody EXCEPT !.items = s] :
     s \in UpTo2({[type |-> "ttl", length |-> 2, first |-> 0],
                  [type |-> "ttl", length |-> 1, first |-> 0],
                  [type |-> "sys_caps", length |-> 4, first |-> 0],
                  [type |-> "chassis", length |-> 36, first |-> 0],
                  [type |-> "mgmt_addr", length |-> 6, first |-> 5],
                  [type |-> "mgmt_addr", length |-> 12, first |-> 5],
                  [type |-> "mgmt_addr", length |-> 0, first |-> 0],
                  [type |-> "end", length |-> 0, first |-> 0]})}
SomeipBodies ==
  {[NoBody EXCEPT !.sd = TRUE, !.entries_len = n, !.options_len = 30, !.items = s] : n \in {0, 16, 40},
     s \in UpTo2({[type |-> "v4", length |-> 9], [type |-> "v4", length |-> 2], [type |-> "v6", length |-> 21],
                  [type |-> "other", length |-> 1]})}
  \cup {[NoBody EXCEPT !.members = s] :
          s \in UpTo2({[wire_type |-> w, length |-> 3] : w \in {0, 3, 4, 5, 7}})}

L4Header(src, dst, off, len) == [src_port |-> src, dst_port |-> dst, data_offset |-> off, length |-> len]
Ipv4Header(ihl, total, off, more, proto, key) ==
  [ihl |-> ihl, total_length |-> total, frag_offset |-> off, more |-> more, protocol |-> proto,
   key |-> key, fill |-> 0]

Fragment6(nh, off, more) ==
  [next_header |-> nh, frag_offset |-> off, more |-> more,
   key |-> IF nh = 44 THEN "k2" ELSE "k1", fill |-> 0]

Plain ==
  [ethertype |-> {"other"}, eth_body |-> [t \in {"other", "gptp", "lldp", "ipv4", "ipv6"} |-> {NoBody}],
   ipv4 |-> {}, ipv6 |-> {}, ext_opt |-> {}, srh |-> {}, ah |-> {}, fragment |-> {},
   l4 |-> {L4Header(1, 2, 5, 16)}, l4_body |-> {NoBody}]

\* Two options, one of them a pad byte, and a length that may overrun.
OptionLists == UpTo2({[type |-> 0, length |-> 0], [type |-> 5, length |-> 3]})

MCContents ==
  [framing |-> Plain,
   l2 |-> [Plain EXCEPT !.ethertype = {"vlan", "qinq", "gptp", "other"}],
   gptp |-> [Plain EXCEPT !.ethertype = {"gptp"}, !.eth_body["gptp"] = GptpBodies],
   lldp |-> [Plain EXCEPT !.ethertype = {"vlan", "lldp"}, !.eth_body["lldp"] = LldpBodies],
   udp |-> [Plain EXCEPT
              !.ethertype = {"ipv4"},
              !.ipv4 = {Ipv4Header(i, 60, f, FALSE, p, "k") : i \in {0, 6}, f \in {0, 2}, p \in {6, 17, 1}},
              !.l4 = {L4Header(s, 7, o, n) : s \in {1, 2, 3}, o \in {0, 7}, n \in {4, 40, 90}},
              !.l4_body = SomeipBodies],
   ext |-> [Plain EXCEPT
              !.ethertype = {"ipv6"},
              !.ipv6 = {[next_header |-> n, payload_length |-> 40] : n \in {0, 43, 51, 60, 17}},
              !.ext_opt = {[next_header |-> n, ext_len |-> e, items |-> s] :
                             n \in {43, 51, 60, 17, 59}, e \in {0, 1}, s \in OptionLists},
              !.srh = {[next_header |-> n, ext_len |-> e, last_entry |-> l, items |-> s] :
                         n \in {0, 6, 17}, e \in {0, 2, 3}, l \in {0, 1}, s \in OptionLists},
              !.ah = {[next_header |-> n, ext_len |-> e] : n \in {0, 17}, e \in {0, 1, 9}}],
   frag4 |-> [Plain EXCEPT
                !.ethertype = {"ipv4"},
                !.ipv4 = {Ipv4Header(5, t, f, m, 17, k) : t \in {28, 36}, f \in {0, 1}, m \in BOOLEAN,
                                                          k \in {"k1", "k2"}},
                !.l4 = {L4Header(1, 7, 5, 16)}],
   frag6 |-> [Plain EXCEPT
                !.ethertype = {"ipv6"},
                !.ipv6 = {[next_header |-> n, payload_length |-> l] : n \in {44, 60}, l \in {16, 24}},
                !.ext_opt = {[next_header |-> 44, ext_len |-> 0, items |-> <<>>]},
                !.fragment = {Fragment6(17, f, m) : f \in {0, 1}, m \in BOOLEAN}
                             \cup {Fragment6(44, 0, TRUE)},
                !.l4 = {L4Header(1, 7, 5, 16)}]]

MCConfig == [v \in {4, 6} |-> [max_datagram_bytes |-> 40, max_concurrent |-> 2, timeout_ticks |-> 2]]
MCSettings ==
  {[decode_l2l3 |-> TRUE, decode_defrag |-> d] : d \in BOOLEAN}
  \cup {[decode_l2l3 |-> FALSE, decode_defrag |-> TRUE]}

\* The full decoder, and a protocol of one's own on a UDP or TCP port.
OwnTrigger ==
  [op |-> "any_of",
   v |-> <<[op |-> "tcp_port", v |-> {3}],
           [op |-> "all_of", v |-> <<[op |-> "udp_port", v |-> {3}],
                                     [op |-> "not_", v |-> <<[op |-> "udp_port", v |-> {1}]>>]>>]>>]
MCDecoder == <<[name |-> "core"], [name |-> "someip"], [name |-> "gptp"], [name |-> "lldp"],
               [name |-> "own", trigger |-> OwnTrigger]>>
MCSomeipPorts == {1, 2}
MCTlvPorts == {2}
=============================================================================
