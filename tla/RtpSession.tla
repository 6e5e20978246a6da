----------------------------- MODULE RtpSession -----------------------------
(***************************************************************************)
(* An opusrtp that transmits, a network and an opusrtp that captures.  The *)
(* network may lose, duplicate and reorder the packets of ours, and it     *)
(* carries other packets, each of one of these kinds, its flow:            *)
(*   "other"  RTP of another port or type, as opusrtp can read it          *)
(*   "udp"    any other UDP datagram: of another protocol, or RTP with     *)
(*            what opusrtp does not count as its header or does not take   *)
(*            off (more than seven sources, padding)                       *)
(*   "ip"     IP that is not UDP, or breaks off before its UDP header ends *)
(*   "odd"    anything else behind the link header: IPv6 authentication    *)
(*            headers, fragments, bytes of no meaning                      *)
(***************************************************************************)
EXTENDS RtpSend, RtpCapture, FiniteSets

CONSTANTS
  SendPort, SendType,   \* --port and --type of the sender
  Networks,             \* [linktype, link, ip, others]: the link and IP headers of our
                        \* packets, and the other packets with their bytes
  Window                \* bound: how many packets one may overtake

Octets == 0 .. 255
ASSUME SessionAssumption ==
  /\ Window \in Nat /\ Limit \in Nat
  /\ Ports \subseteq Int /\ Types \subseteq Int
  /\ SendPort \in SeqNumbers /\ SendType \in 0 .. 127

VARIABLES
  network,              \* the one both are on
  net                   \* packets on it, oldest first

allvars == <<vars, capture, network, net>>

SessionInit ==
  /\ Init /\ CaptureInit /\ net = <<>>
  /\ network \in {n \in Networks : n.linktype = linktype}

\* The first byte of a payload stands for its TOC: it tells the duration, and whether
\* opus_packet_parse accepts the packet, as it does those of a sound file.
Payload(samples, parses) == <<samples + (IF parses THEN 0 ELSE 128), 7>>
TocParses(payload)  == payload # <<>> /\ payload[1] < 128
TocSamples(payload) == IF payload = <<>> THEN 0 ELSE payload[1] % 128

Datagram(s) ==
  [port |-> SendPort, type |-> SendType, seq |-> s.seq, time |-> s.time,
   payload |-> Payload(s.samples, TRUE), flow |-> "ours", id |-> Len(sent) + 1]

\* A TOC is a byte, and libopus tells the capture of it what it told the sender.
ASSUME SamplesAssumption ==
  /\ \A n \in 0 .. Second - 1 : Payload(n, TRUE) \in Seq(Octets) /\ NbSamples(Payload(n, TRUE)) = n
  /\ \A n \in Networks : \A p \in DOMAIN n.others : \A i \in 0 .. Len(n.others[p]) :
       NbSamples(Behind(n.others[p], i)) \in Nat

\* send_rtp_packet makes it an RTP packet, the system puts UDP and IP headers before it.
UdpHeader(port, length) == be16(5004) \o be16(port) \o be16(8 + length) \o be16(0)
Bytes(p) ==
  LET rtpPacket == SerializeRtp(p.type, p.seq, p.time, 1) \o p.payload
  IN network.ip \o UdpHeader(p.port, Len(rtpPacket)) \o rtpPacket

-----------------------------------------------------------------------------
(* What the headers before ours are: as the standards have them, not as    *)
(* opusrtp reads them.                                                     *)

IsLinkHeader(type, h) ==
  CASE type = "DLT_EN10MB" -> \E k \in 0 .. Len(h) :
                                /\ Len(h) = 14 + 4 * k /\ IsIp(rbe16(h, 12 + 4 * k))
                                /\ \A m \in 0 .. k - 1 : Tag(rbe16(h, 12 + 4 * m))
    [] type = "DLT_NULL" -> h \in PfInet
    [] type = "DLT_LINUX_SLL" -> Len(h) = 16 /\ IsIp(rbe16(h, 14))
    [] OTHER -> FALSE

\* Options, each known or one that may be skipped, begin at the offsets `starts`.
AreOptions(h, first, last) ==
  \E starts \in SUBSET (first .. last - 1) :
    /\ first \in starts \cup {last}
    /\ \A i \in starts :
         \/ Byte(h, i) = 0 /\ i + 1 \in starts \cup {last}
         \/ Byte(h, i) \in 1 .. 63 /\ i + 1 < last /\ i + 2 + Byte(h, i + 1) \in starts \cup {last}

\* An extension header of the given kind begins at each offset of `kind`, and what is
\* behind the last is the protocol.
AreExtensions(h, kind, protocol) ==
  LET next == [i \in DOMAIN kind \cup {Len(h)} |-> IF i = Len(h) THEN protocol ELSE kind[i]]
  IN /\ 40 \in DOMAIN next /\ next[40] = Byte(h, 6)
     /\ \A i \in DOMAIN kind :
          LET end == i + ExtensionSize(h, i) IN
          /\ end \in DOMAIN next /\ next[end] = Byte(h, i)
          /\ kind[i] \in {HopByHop, Destination} => AreOptions(h, i + 2, end)

IsIp4Header(h, protocol) ==
  /\ Len(h) \in 20 .. 60 /\ Len(h) % 4 = 0
  /\ Byte(h, 0) = 64 + Len(h) \div 4 /\ Byte(h, 9) = protocol
  /\ rbe16(h, 6) % 8192 = 0      \* no later fragment

IsIp6Header(h, protocol) ==
  /\ Len(h) >= 40 /\ Len(h) % 8 = 0 /\ Byte(h, 0) \div 16 = 6
  /\ \E offsets \in SUBSET {i \in 40 .. Len(h) - 1 : i % 8 = 0} :
       \E kind \in [offsets -> Extensions \ {Authentication}] : AreExtensions(h, kind, protocol)

IsIpHeader(h, protocol) == IsIp4Header(h, protocol) \/ IsIp6Header(h, protocol)

\* Sources, of which parse_rtp_header counts up to seven, and an extension that tells
\* how many words it has.
IsRtpHeader(p, h) ==
  /\ Len(h) >= 12 /\ Byte(h, 1) % 128 = p.type /\ rbe16(h, 2) = p.seq
  /\ \E sources \in 0 .. 7 :
       \/ Byte(h, 0) = 128 + sources /\ Len(h) = 12 + 4 * sources
       \/ /\ Byte(h, 0) = 144 + sources /\ Len(h) >= 16 + 4 * sources
          /\ Len(h) = 16 + 4 * sources + 4 * rbe16(h, 14 + 4 * sources)

\* UDP to a port: an IP header up to i and a UDP header, before the data.
IsUdp(port, bytes, data) ==
  \E i \in 0 .. Len(bytes) :
    /\ i + 8 <= Len(bytes)
    /\ IsIpHeader(SubSeq(bytes, 1, i), UdpProtocol)
    /\ rbe16(bytes, i + 2) = port
    /\ Behind(bytes, i + 8) = data

\* An RTP packet p: its header, then its payload.
IsRtp(p, data) ==
  \E j \in 0 .. Len(data) : IsRtpHeader(p, SubSeq(data, 1, j)) /\ Behind(data, j) = p.payload

\* IP that carries no UDP header.
NoUdp(bytes) ==
  \E i \in 0 .. Len(bytes) :
    \/ \E protocol \in Octets \ (Extensions \cup {UdpProtocol}) :
         IsIpHeader(SubSeq(bytes, 1, i), protocol)
    \/ IsIpHeader(SubSeq(bytes, 1, i), UdpProtocol) /\ Len(bytes) < i + 8

\* Port and type are all that opusrtp tells a flow by.
NotOurs(h) == h.port # SendPort \/ h.type # SendType

ASSUME NetworksAssumption ==
  \A n \in Networks :
    /\ n.link \in Seq(Octets) /\ IsLinkHeader(n.linktype, n.link)
    /\ n.ip \in Seq(Octets) /\ IsIpHeader(n.ip, UdpProtocol)
    /\ \A p \in DOMAIN n.others :
         LET bytes == n.others[p] IN
         /\ p.port \in SeqNumbers /\ p.type \in 0 .. 127 /\ p.seq \in SeqNumbers
         /\ bytes \in Seq(Octets)
         /\ \/ p.flow = "other" /\ NotOurs(p) /\ \E i \in 0 .. Len(bytes) :
                 IsUdp(p.port, bytes, Behind(bytes, i)) /\ IsRtp(p, Behind(bytes, i))
            \/ p.flow = "udp" /\ IsUdp(p.port, bytes, p.payload)
            \/ p.flow = "ip" /\ NoUdp(bytes)
            \/ p.flow = "odd"
         /\ p.flow \in {"udp", "odd"} => \A h \in Headers(n.linktype, n.link \o bytes) : NotOurs(h)

-----------------------------------------------------------------------------
\* sendto may fail, and the packet may be lost on its way.
SenderStep ==
  /\ Sender
  /\ net' \in IF sent' = sent THEN {net} ELSE {net, Append(net, Datagram(Last(sent')))}
  /\ UNCHANGED <<capture, network>>

ClockStep == Tick /\ UNCHANGED <<capture, network, net>>

\* The capture sees one of the oldest packets; a copy of it may come again.
Deliver ==
  \E i \in DOMAIN net :
    /\ i <= Window + 1
    /\ WritePacket(net[i], network.link \o Bytes(net[i]))
    /\ net' \in {net, RemoveAt(net, i)}
    /\ UNCHANGED <<vars, network>>

DeliverOther ==
  \E p \in DOMAIN network.others :
    WritePacket(p, network.link \o network.others[p]) /\ UNCHANGED <<vars, network, net>>

SessionNext == SenderStep \/ ClockStep \/ Deliver \/ DeliverOther

SessionSpec == SessionInit /\ [][SessionNext]_allvars

-----------------------------------------------------------------------------
(* Correctness.                                                            *)

SessionTypeOK ==
  /\ TypeOK
  /\ dst_port \in Ports \cup SeqNumbers /\ payload_type \in Types \cup 0 .. 127
  /\ lastSeq \in SeqNumbers /\ granulepos \in Nat
  /\ captured \in 0 .. Limit /\ Len(recorded) + Cardinality(skipped) <= captured
  /\ \A i \in DOMAIN net : net[i].seq \in SeqNumbers

\* "lock onto first plausible port and payload_type": everything in the recording
\* was taken for a packet of one port and one type, which are those that --port and
\* --type asked for; without --type it is a dynamic type.  Which flow that is depends
\* on what comes first, and it may be UDP that is no RTP at all: parse_rtp_header
\* looks at no version.  But of RTP as opusrtp can read it the recording has the
\* packet itself, of UDP what came to that port, and of other IP nothing.
Taken(p) == [port |-> p.port, type |-> p.type, seq |-> p.seq, payload |-> p.payload]
OneFlow ==
  \A i \in DOMAIN recorded :
    LET p == recorded[i].packet  as == recorded[i].as IN
    /\ as.port = dst_port /\ as.type = payload_type
    /\ asked.port >= 0 => dst_port = asked.port
    /\ IF asked.type >= 0 THEN payload_type = asked.type ELSE payload_type >= DynamicType
    /\ p.flow \in {"ours", "other"} => as = Taken(p)
    /\ p.flow = "udp" => p.port = dst_port
    /\ p.flow # "ip"

\* By any link and behind any IP header but those called odd above, a packet of ours
\* and RTP with up to seven sources, an extension and no padding are taken for just
\* what they are; of any other UDP datagram the port is found, and what is taken for
\* the payload is an ending of its data, behind the 12 bytes of an RTP header or
\* more; and IP without UDP is taken for nothing.  The capture changes nothing of
\* that, so that it is asked only before its first packet.
SeenAsSent ==
  captured = 0 =>
    /\ \A i \in DOMAIN net :
         Headers(linktype, network.link \o Bytes(net[i])) = {Taken(net[i])}
    /\ \A p \in DOMAIN network.others :
         LET seen == Headers(linktype, network.link \o network.others[p]) IN
         /\ p.flow = "other" => seen = {Taken(p)}
         /\ p.flow = "udp" => \A h \in seen :
              h.port = p.port /\ \E i \in 12 .. Len(p.payload) : h.payload = Behind(p.payload, i)
         /\ p.flow = "ip" => seen = {}

\* The recording plays in the order of sending, whatever the network did; a packet
\* may be in it again, but only right after itself.
InSequence ==
  \A i, j \in DOMAIN recorded :
    LET p == recorded[i].packet  q == recorded[j].packet IN
    i < j /\ p.flow = "ours" /\ q.flow = "ours" => p.id <= q.id

\* A packet "out-of-sequence" really is: a packet sent after it was recorded before.
SkippedAreLate ==
  \A s \in skipped : s.flow = "ours" =>
    \E i \in 1 .. s.after : /\ recorded[i].packet.flow = "ours"
                            /\ recorded[i].packet.id > s.id

\* As long as the recording holds every packet once, from the first on, its granule
\* positions are the RTP timestamps of the sender.
ClockAgrees ==
  (\A i \in DOMAIN recorded : recorded[i].packet.flow = "ours" /\ recorded[i].packet.id = i)
    => \A i \in DOMAIN recorded : recorded[i].granulepos = recorded[i].packet.time
=============================================================================
