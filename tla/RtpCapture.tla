----------------------------- MODULE RtpCapture -----------------------------
(***************************************************************************)
(* opusrtp --sniff and --extract: write_packet, the handler libpcap calls  *)
(* for every captured packet, and the loop of sniff (src/opusrtp.c).       *)
(* What it decides, it decides on the bytes of a packet; of the packet     *)
(* itself, with its flow and id, it knows nothing, so that is history.     *)
(***************************************************************************)
EXTENDS RtpPacket

CONSTANTS
  LinkTypes,      \* of devices and capture files
  Ports, Types,   \* what --port and --type may be, -1 when not given
  Limit,          \* packets a live capture lasts (300)
  OpusParses(_),  \* opus_packet_parse accepts a payload
  NbSamples(_)    \* opus_packet_get_nb_samples, 0 if it refuses

DynamicType == 96      \* DYNAMIC_PAYLOAD_TYPE_MIN

VARIABLES
  out, linktype,            \* --output was given; of the device or file captured from
  asked,                    \* history: the port and type of the command line
  dst_port, payload_type,   \* -1 until given or locked onto
  lastSeq, granulepos,      \* state.seq and state.granulepos
  captured,                 \* packets pcap_loop has delivered
  recorded,                 \* the packets written, and what each was taken for
  skipped                   \* history: what was skipped as out of sequence, after
                            \* how many packets were recorded

lock    == <<dst_port, payload_type>>
capture == <<out, linktype, asked, lock, lastSeq, granulepos, captured, recorded, skipped>>

CaptureInit ==
  /\ out \in BOOLEAN /\ linktype \in LinkTypes
  /\ asked \in [port : Ports, type : Types]
  /\ dst_port = asked.port /\ payload_type = asked.type
  /\ lastSeq = 0 /\ granulepos = 0
  /\ captured = 0 /\ recorded = <<>> /\ skipped = {}

\* In what follows h is what Headers found in the bytes of a packet.
M_TypeAny(h) == payload_type >= 0 => h.type = payload_type
TypeWanted(h) == IF payload_type >= 0 THEN h.type = payload_type ELSE h.type >= DynamicType
PortWanted(h) == dst_port >= 0 => h.port = dst_port

\* Before port and type are both known, only what could be Opus is looked at.
Plausible(h) == dst_port < 0 \/ payload_type < 0 => OpusParses(h.payload)

Accepted(h) == PortWanted(h) /\ TypeWanted(h) /\ Plausible(h)

M_LockSwapped(h) ==
  /\ dst_port' = IF dst_port < 0 THEN h.type ELSE dst_port
  /\ payload_type' = IF payload_type < 0 THEN h.port ELSE payload_type
LockOnto(h) ==
  /\ dst_port' = IF dst_port < 0 THEN h.port ELSE dst_port
  /\ payload_type' = IF payload_type < 0 THEN h.type ELSE payload_type

M_SeqBehindNever(h) == FALSE
M_SeqNotNext(h) == recorded # <<>> /\ h.seq # lastSeq + 1
OutOfSequence(h) == h.seq < lastSeq

\* What the granule position becomes; the duration of an invalid packet is not added.
M_GranuleAfter(h) == granulepos + IF recorded = <<>> THEN 0 ELSE NbSamples(h.payload)
GranuleAfter(h) == granulepos + NbSamples(h.payload)

Ignore(seen) ==
  /\ \A h \in seen : ~Accepted(h)
  /\ UNCHANGED <<lock, lastSeq, granulepos, recorded, skipped>>

\* The port and the type are locked onto even by a packet that is then skipped.
SkipOutOfSequence(p, h) ==
  /\ Accepted(h) /\ OutOfSequence(h)
  /\ LockOnto(h)
  /\ skipped' = skipped \cup {[id |-> p.id, flow |-> p.flow, after |-> Len(recorded)]}
  /\ UNCHANGED <<lastSeq, granulepos, recorded>>

Record(p, h) ==
  /\ Accepted(h) /\ ~OutOfSequence(h)
  /\ LockOnto(h)
  /\ lastSeq' = h.seq
  /\ granulepos' = GranuleAfter(h)
  /\ recorded' = Append(recorded, [packet |-> p, as |-> h, granulepos |-> granulepos'])
  /\ UNCHANGED skipped

\* pcap_loop delivers the bytes `data` of packet p.  Without --output it is only shown.
WritePacket(p, data) ==
  /\ captured < Limit /\ captured' = captured + 1
  /\ UNCHANGED <<out, linktype, asked>>
  /\ IF out
     THEN \E bytes \in {data} : \E seen \in {Headers(linktype, bytes)} :
            Ignore(seen) \/ \E h \in seen : SkipOutOfSequence(p, h) \/ Record(p, h)
     ELSE Ignore({})
=============================================================================
