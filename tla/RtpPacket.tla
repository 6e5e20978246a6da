----------------------------- MODULE RtpPacket -----------------------------
(***************************************************************************)
(* What opusrtp makes of the bytes of a captured packet, and the RTP       *)
(* header it sends (src/opusrtp.c, parse_eth_header to                     *)
(* serialize_rtp_header, and the first half of write_packet).  Each parser *)
(* gives the set of what is behind its header: nothing if it refuses the   *)
(* packet.  Offsets count from 0, as in the code.                          *)
(***************************************************************************)
EXTENDS Integers, Sequences

Byte(p, i)    == p[i + 1]
rbe16(p, i)   == 256 * p[i + 1] + p[i + 2]
Behind(p, n)  == SubSeq(p, n + 1, Len(p))

-----------------------------------------------------------------------------
(* The link layer.                                                         *)

IsIp(ethertype) == ethertype \in {2048, 34525}      \* 0x0800, 0x86dd
Tag(ethertype)  == ethertype \in {33024, 34984}     \* 0x8100, 0x88a8

\* parse_eth_header: any number of 802.1Q tags come before the type.
M_TagsNone(p) == {n \in {0} : Len(p) >= 14}
TagCounts(p) ==
  {n \in 0 .. (Len(p) - 14) \div 4 : \A m \in 0 .. n - 1 : Tag(rbe16(p, 12 + 4 * m))}
EthPayload(p) ==
  {Behind(p, 14 + 4 * n) : n \in {k \in TagCounts(p) : IsIp(rbe16(p, 12 + 4 * k))}}

\* parse_loop_header: the family is in host byte order.
PfInet == {<<2, 0, 0, 0>>, <<10, 0, 0, 0>>}
LoopPayload(p) == {Behind(p, n) : n \in {k \in {4} : Len(p) >= k /\ SubSeq(p, 1, 4) \in PfInet}}

SllPayload(p) == {Behind(p, n) : n \in {k \in {16} : Len(p) >= k /\ IsIp(rbe16(p, 14))}}

LinkPayload(linktype, p) ==
  CASE linktype = "DLT_EN10MB"    -> EthPayload(p)
    [] linktype = "DLT_NULL"      -> LoopPayload(p)
    [] linktype = "DLT_LINUX_SLL" -> SllPayload(p)
    [] OTHER                      -> {}

-----------------------------------------------------------------------------
(* IP: what is behind the header if it is UDP.                             *)

UdpProtocol == 17

Ip4Size(p) == 4 * (Byte(p, 0) % 16)
Ip4Payload(p) ==
  {Behind(p, n) : n \in {k \in {Ip4Size(p)} : Len(p) >= k /\ Byte(p, 9) = UdpProtocol}}

\* Options that may be passed over, from one offset to another.
OptionsKnown(p, first, last) ==
  LET ok[i \in first .. last + 257] ==
        \/ i + 1 >= last
        \/ Byte(p, i) = 0 /\ ok[i + 1]
        \/ Byte(p, i) \in 1 .. 63 /\ ok[i + 2 + Byte(p, i + 1)]
  IN ok[first]

HopByHop       == 0
Routing        == 43
Authentication == 51
Destination    == 60
Extensions == {HopByHop, Routing, Authentication, Destination}
ExtensionSize(p, i) == (Byte(p, i + 1) + 1) * 8
ExtensionFits(p, i, protocol) ==
  /\ i + 8 <= Len(p) /\ i + ExtensionSize(p, i) <= Len(p)
  /\ protocol \in {HopByHop, Destination} => OptionsKnown(p, i + 2, i + ExtensionSize(p, i))

\* The offset behind the extension headers, each of which names the next one.
Ip6Payload(p) ==
  LET behind[header \in (40 .. Len(p)) \X (0 .. 255)] ==
        LET i == header[1]  protocol == header[2] IN
        IF protocol \notin Extensions THEN {n \in {i} : protocol = UdpProtocol}
        ELSE IF ExtensionFits(p, i, protocol)
             THEN behind[<<i + ExtensionSize(p, i), Byte(p, i)>>]
             ELSE {}
  IN IF Len(p) < 40 THEN {} ELSE {Behind(p, n) : n \in behind[<<40, Byte(p, 6)>>]}

IpPayload(p) ==
  IF Len(p) < 20 THEN {}
  ELSE CASE Byte(p, 0) \div 16 = 4 -> Ip4Payload(p)
         [] Byte(p, 0) \div 16 = 6 -> Ip6Payload(p)
         [] OTHER -> {}

-----------------------------------------------------------------------------
(* RTP over UDP.                                                           *)

\* parse_rtp_header: behind the sources comes an extension of any length.  Where its
\* length was not captured, parse_rtp_header reads it all the same, but refuses the
\* packet whatever it finds there.
Sources(p) == 12 + 4 * (Byte(p, 0) % 8)
Extended(p) == (Byte(p, 0) \div 16) % 2 = 1
RtpSize(p) ==
  IF Extended(p) THEN Sources(p) + 4 + 4 * rbe16(p, Sources(p) + 2) ELSE Sources(p)
RtpParses(p) ==
  Len(p) >= 12 /\ (Extended(p) => Len(p) >= Sources(p) + 4) /\ Len(p) >= RtpSize(p)

\* parse_udp_header: only the ports are used.
UdpPayload(p) == {[port |-> rbe16(p, 2), rtp |-> Behind(p, n)] : n \in {k \in {8} : Len(p) >= k}}

\* What write_packet learns from a packet.
Headers(linktype, data) ==
  {[port |-> d.port, type |-> Byte(d.rtp, 1) % 128, seq |-> rbe16(d.rtp, 2),
    payload |-> Behind(d.rtp, RtpSize(d.rtp))]
   : d \in {u \in UNION {UdpPayload(p) : p \in UNION {IpPayload(ip) : ip \in LinkPayload(linktype, data)}}
              : RtpParses(u.rtp)}}

\* be16, be32: the low bits of a number.
be16(n) == <<(n \div 256) % 256, n % 256>>
be32(n) == be16(n \div 65536) \o be16(n)

\* serialize_rtp_header of the header opusrtp sends: version 2 and nothing else.
SerializeRtp(type, seq, time, ssrc) == <<128, type>> \o be16(seq) \o be32(time) \o be32(ssrc)
=============================================================================
