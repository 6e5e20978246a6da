---------------------------- MODULE MCRtpSession ----------------------------
(* RtpSession with a file of four audio packets on two pages, among packets  *)
(* of three other flows and two that opusrtp cannot know for what they are;  *)
(* the capture is told the port and the type, one of them or neither.  Our   *)
(* packets come by tagged Ethernet or otherwise, over both versions of IP    *)
(* with their options.                                                       *)
EXTENDS RtpSession

P(kind, n, id) == [kind |-> kind, n |-> n, id |-> id]
Page(n, packets) ==
  [kind |-> "page", serial |-> 1, bos |-> n = 0, pageno |-> n, packets |-> packets]

MCFiles == {<<Page(0, <<P("head", 0, 1)>>), Page(1, <<P("tags", 0, 2)>>),
              Page(2, <<P("audio", 2, 3), P("audio", 1, 4)>>),
              Page(3, <<P("audio", 1, 5), P("audio", 2, 6)>>)>>}

\* IP headers: version 4 with words of options, version 6 with extension headers.
Zeros(n) == [i \in 1 .. n |-> 0]
Ip4(protocol, options) ==
  <<69 + options>> \o Zeros(8) \o <<protocol>> \o Zeros(10) \o Zeros(4 * options)
Ip6(protocol, extensions) ==
  <<96>> \o Zeros(5) \o <<protocol>> \o Zeros(33) \o extensions

Hop  == <<43, 0, 1, 4>> \o Zeros(4)                \* next a routing header; an option of 4
Rout == <<60, 1>> \o Zeros(14)                     \* next destination options
Dest == <<17, 0, 0, 1, 2, 9, 9, 0>>                \* next UDP; Pad1, PadN, Pad1
Odd  == <<17, 0, 194, 4>> \o Zeros(4)              \* an option that is not known
Auth == <<17, 4>> \o Zeros(22)                     \* next UDP; six words, by RFC 4302

\* Packets of other flows, with the options of RTP: sources and an extension.
Other(port, type, payload) ==
  [port |-> port, type |-> type, seq |-> 7, time |-> 0, payload |-> payload,
   flow |-> "other", id |-> 1]
Rtp(p, sources, extension) ==
  <<128 + sources + (IF extension = <<>> THEN 0 ELSE 16), p.type>> \o be16(p.seq)
     \o Zeros(8 + 4 * sources) \o extension \o p.payload
In(ip, p, rtpPacket) == ip \o UdpHeader(p.port, Len(rtpPacket)) \o rtpPacket

Type110 == Other(1234, 110, Payload(1, TRUE))
NoOpus  == Other(1235, 120, Payload(2, FALSE))
Type8   == Other(1234, 8, Payload(1, TRUE))
Flows ==
     Type110 :> In(Ip4(17, 1), Type110, Rtp(Type110, 2, <<1, 2, 0, 1, 9, 9, 9, 9>>))
  @@ NoOpus :> In(Ip6(17, <<>>), NoOpus, Rtp(NoOpus, 0, <<>>))
  @@ Type8 :> In(Ip4(17, 0), Type8, Rtp(Type8, 1, <<>>))

\* Datagrams that are no RTP as opusrtp knows it: a version of 0, the padding of RTP,
\* and nine sources, of which it counts one.
Udp(port, data) == [Other(port, 0, data) EXCEPT !.flow = "udp"]
Stun   == Udp(1234, <<0, 110, 0, 8>> \o Zeros(8) \o Payload(1, TRUE))
Padded == Udp(1234, <<160, 110, 0, 9>> \o Zeros(8) \o Payload(2, TRUE) \o <<0, 2>>)
Nine   == Udp(1235, <<137, 120, 0, 9>> \o Zeros(8 + 4 * 9) \o Payload(2, TRUE))
Short  == Udp(1234, <<128, 120, 0, 9>> \o Zeros(7))
Datagrams(ip, ps) == [p \in ps |-> In(ip, p, p.payload)]

\* And what is no UDP or cannot be read.
Kind(flow) == [Other(1234, 120, <<>>) EXCEPT !.flow = flow]
Tcp(ip) == Kind("ip") :> In(ip, Kind("ip"), Rtp(Type110, 0, <<>>))
Unread(ip) == Kind("odd") :> In(ip, Kind("odd"), Rtp(Type110, 0, <<>>))

MCNetworks ==
  {[linktype |-> "DLT_EN10MB",
    link |-> Zeros(12) \o <<136, 168, 0, 1, 129, 0, 0, 2, 134, 221>>, ip |-> Ip6(17, <<>>),
    others |-> Flows @@ Datagrams(Ip4(17, 0), {Nine}) @@ Unread(Ip6(60, Odd))],
   [linktype |-> "DLT_NULL", link |-> <<2, 0, 0, 0>>, ip |-> Ip4(17, 2),
    others |-> Flows @@ Datagrams(Ip4(17, 1), {Stun, Short}) @@ Tcp(Ip4(6, 0))],
   [linktype |-> "DLT_LINUX_SLL", link |-> Zeros(14) \o <<134, 221>>,
    ip |-> Ip6(0, Hop \o Rout \o Dest),
    others |-> Flows @@ Datagrams(Ip6(17, <<>>), {Padded}) @@ Unread(Ip6(51, Auth))
                 @@ Kind("ip") :> SubSeq(Ip4(17, 0) \o UdpHeader(1234, 2), 1, 27)]}
MCLinkTypes == {n.linktype : n \in MCNetworks}

MCPorts == {-1, 1234}
MCTypes == {-1, 120, 8}
Early == {0}
Late  == {65533}
=============================================================================
