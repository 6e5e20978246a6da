-------------------------- MODULE RtpSessionProofs --------------------------
(***************************************************************************)
(* That an opusrtp that captures records one flow, in the order of sending *)
(* and with the sender's clock: for any network, whatever it loses,        *)
(* duplicates and reorders, and any other flows on it.                     *)
(***************************************************************************)
EXTENDS RtpSession, RtpSendProofs, FiniteSetTheorems, SequenceTheorems, WellFoundedInduction

\* The packets of the sender, and those of other flows.
DatagramOf(k) ==
  [port |-> SendPort, type |-> SendType, seq |-> sent[k].seq, time |-> sent[k].time,
   payload |-> Payload(sent[k].samples, TRUE), flow |-> "ours", id |-> k]
Ours   == {DatagramOf(k) : k \in DOMAIN sent}
Others == DOMAIN network.others

\* What the capture may take packet p for.
Readings == [port : SeqNumbers, type : 0 .. 127, seq : SeqNumbers, payload : Seq(Octets)]
Reads(p, h) ==
  /\ h \in Readings /\ NbSamples(h.payload) \in Nat
  /\ p.flow \in {"ours", "other"} => h = Taken(p)
  /\ p.flow = "udp" => h.port = p.port
  /\ p.flow # "ip"
  /\ p.flow # "ours" => NotOurs(h)

Recording ==
  {r \in [packet : Ours \cup Others, as : Readings, granulepos : Nat] : Reads(r.packet, r.as)}

\* The numbers of the packets sent so far have not wrapped around.
NotWrapped == sent # <<>> => sent[1].seq + Len(sent) <= 65536

Numbered ==
  /\ sent # <<>> => seq = sent[Len(sent)].seq
  /\ NotWrapped => \A k \in DOMAIN sent : sent[k].seq = sent[1].seq + (k - 1)

Stamped ==
  /\ sent = <<>> => time = 0
  /\ sent # <<>> => sent[1].time = sent[1].samples

Known ==
  /\ network \in Networks /\ linktype = network.linktype
  /\ net \in Seq(Ours) /\ recorded \in Seq(Recording)
  /\ lastSeq \in SeqNumbers /\ granulepos \in Nat

Locked ==
  /\ dst_port \in Int /\ payload_type \in Int
  /\ dst_port \in Ports \cup SeqNumbers /\ payload_type \in Types \cup 0 .. 127
  /\ asked.port >= 0 => dst_port = asked.port
  /\ asked.type >= 0 => payload_type = asked.type
  /\ ~(asked.type >= 0) => payload_type < 0 \/ payload_type >= DynamicType
  /\ \A i \in DOMAIN recorded : recorded[i].as.port = dst_port /\ recorded[i].as.type = payload_type

Ascending ==
  /\ recorded = <<>> => lastSeq = 0
  /\ recorded # <<>> => lastSeq = recorded[Len(recorded)].as.seq
  /\ \A i, j \in DOMAIN recorded : i < j => recorded[i].as.seq <= recorded[j].as.seq

\* Where a packet that was sent after packet k is in the recording, it is ours.
Later(i, k) == recorded[i].packet.flow = "ours" /\ recorded[i].packet.id > k
SkippedLate ==
  \A s \in skipped :
    /\ s.after \in Nat /\ s.after <= Len(recorded)
    /\ NotWrapped /\ s.flow = "ours" => \E i \in 1 .. s.after : Later(i, s.id)

Counted ==
  /\ captured \in Nat /\ captured <= Limit
  /\ IsFiniteSet(skipped) /\ Len(recorded) + Cardinality(skipped) <= captured

\* The recording holds every packet once, from the first on.
Gapless == \A i \in DOMAIN recorded : recorded[i].packet.flow = "ours" /\ recorded[i].packet.id = i
Granules ==
  /\ recorded = <<>> => granulepos = 0
  /\ recorded # <<>> => granulepos = recorded[Len(recorded)].granulepos
  /\ Gapless => \A i \in DOMAIN recorded : recorded[i].granulepos = recorded[i].packet.time

CInv == Known /\ Locked /\ Ascending /\ SkippedLate /\ Counted /\ Granules
SInv == IInv /\ Numbered /\ Stamped /\ CInv

USE SecondAssumption, SessionAssumption

-----------------------------------------------------------------------------
(* The sender: numbers and stamps of what it sends.                        *)

\* What a step of the sender or its clock does to what was sent.
Extends(e) ==
  /\ e \in SentPacket /\ sent' = Append(sent, e)
  /\ seq' = Wire(seq + 1) /\ e.seq = seq'
  /\ time' = time + e.samples /\ e.time = time'
SentGrows == (\E e : Extends(e)) \/ UNCHANGED <<seq, time, sent>>

LEMMA SendExtends ==
  ASSUME Typed, Send
  PROVE  SentGrows
<1>1. PICK n \in 0 .. Second - 1, i \in Nat : n = Head(stream).n /\ i = Head(stream).id
  <2>1. Head(stream) \in Content
    BY DEF Send, NextPacket, Typed
  <2> QED
    BY <2>1 DEF Content
<1>2. PICK q \in SeqNumbers, t \in Nat, a \in Nat : q = seq' /\ t = time' /\ a = now
  BY <1>1, NextSeqFits, NextTimeFits
<1>3. PICK e : e = [seq |-> q, time |-> t, samples |-> n, id |-> i, at |-> a]
  OBVIOUS
<1>4. e \in SentPacket /\ e.seq = q /\ e.time = t /\ e.samples = n
  BY <1>3 DEF SentPacket
<1>5. sent' = Append(sent, e)
  BY <1>1, <1>2, <1>3 DEF Send
<1>6. seq' = Wire(seq + 1) /\ time' = time + n
  BY <1>1 DEF Send
<1>7. Extends(e)
  BY <1>2, <1>4, <1>5, <1>6 DEF Extends
<1> QED
  BY <1>7 DEF SentGrows

LEMMA StepExtends ==
  ASSUME Typed, [Next]_vars
  PROVE  SentGrows
<1>1. CASE Send
  BY <1>1, SendExtends
<1>2. CASE ~Send
  <2>1. UNCHANGED rtp
    BY <1>2 DEF Next, Sender, Terminated, vars, Read, NoPage, StartOpus, SkipPage, LaterPage, NoPacket,
         SkipHeader, SkipInvalid, FirstSlot, NextSlot, Awake, Tick
  <2> QED
    BY <2>1 DEF SentGrows, rtp
<1> QED
  BY <1>1, <1>2

LEMMA SentFacts ==
  ASSUME Typed
  PROVE  /\ sent \in Seq(SentPacket) /\ Len(sent) \in Nat /\ DOMAIN sent = 1 .. Len(sent)
         /\ \A k \in DOMAIN sent : /\ sent[k].seq \in Nat /\ sent[k].seq < 65536 /\ sent[k].time \in Nat
                                   /\ sent[k].samples \in 0 .. Second - 1
<1>1. sent \in Seq(SentPacket) /\ Len(sent) \in Nat /\ DOMAIN sent = 1 .. Len(sent)
  BY DEF Typed
<1>2. ASSUME NEW k \in DOMAIN sent
      PROVE  /\ sent[k].seq \in Nat /\ sent[k].seq < 65536 /\ sent[k].time \in Nat
             /\ sent[k].samples \in 0 .. Second - 1
  <2>1. sent[k] \in SentPacket
    BY <1>1
  <2> QED
    BY <2>1 DEF SentPacket, SeqNumbers
<1> QED
  BY <1>1, <1>2

\* Until the numbers wrap around, they have not done so.
LEMMA WrappedBefore ==
  ASSUME Typed, SentGrows, NotWrapped'
  PROVE  NotWrapped
<1>1. CASE UNCHANGED <<seq, time, sent>>
  BY <1>1 DEF NotWrapped
<1>2. CASE \E e : Extends(e)
  <2>1. PICK e : Extends(e)
    BY <1>2
  <2>2. SUFFICES ASSUME sent # <<>> PROVE sent[1].seq + Len(sent) <= 65536
    BY DEF NotWrapped
  <2>3. sent' # <<>> /\ Len(sent') = Len(sent) + 1 /\ sent'[1] = sent[1]
    BY <2>1, <2>2, SentFacts DEF Extends
  <2>4. sent[1].seq + (Len(sent) + 1) <= 65536
    BY <2>3 DEF NotWrapped
  <2>5. sent[1].seq \in Nat
    BY <2>2, SentFacts
  <2> QED
    BY <2>4, <2>5, SentFacts
<1> QED
  BY <1>1, <1>2 DEF SentGrows

LEMMA NumbersStep ==
  ASSUME Typed, Typed', SentGrows, Numbered
  PROVE  Numbered'
<1>1. CASE UNCHANGED <<seq, time, sent>>
  BY <1>1 DEF Numbered, NotWrapped
<1>2. CASE \E e : Extends(e)
  <2>1. PICK e : Extends(e)
    BY <1>2
  <2>20. Len(sent) \in Nat
    BY SentFacts
  <2>2. PICK n \in Nat : n = Len(sent)
    BY <2>20
  <2>3. /\ Len(sent') = n + 1 /\ DOMAIN sent' = 1 .. n + 1 /\ sent'[n + 1] = e
        /\ \A k \in 1 .. n : sent'[k] = sent[k]
    BY <2>1, <2>2, SentFacts DEF Extends
  <2>4. seq' = sent'[Len(sent')].seq
    BY <2>1, <2>3 DEF Extends
  <2>5. ASSUME NotWrapped', NEW k \in DOMAIN sent'
        PROVE  sent'[k].seq = sent'[1].seq + (k - 1)
    <3>1. NotWrapped
      BY <2>5, WrappedBefore
    <3>2. CASE n = 0
      <4>1. k = 1
        BY <2>3, <2>5, <3>2
      <4>2. sent'[1] \in SentPacket
        BY <2>1, <2>3, <3>2 DEF Extends
      <4>3. sent'[1].seq \in Nat
        BY <4>2 DEF SentPacket, SeqNumbers
      <4> QED
        BY <4>1, <4>3
    <3>3. CASE n > 0 /\ k \in 1 .. n
      BY <2>2, <2>3, <3>1, <3>3, SentFacts DEF Numbered
    <3>4. CASE n > 0 /\ k = n + 1
      <4>1. PICK a \in Nat : a = sent[1].seq
        BY <2>2, <3>4, SentFacts
      <4>2. sent # <<>>
        BY <2>2, <3>4
      <4>3. seq = a + (n - 1)
        <5>1. seq = sent[n].seq /\ n \in DOMAIN sent
          BY <2>2, <3>4, <4>2, SentFacts DEF Numbered
        <5> QED
          BY <3>1, <4>1, <5>1 DEF Numbered
      <4>4. sent'[1] = sent[1] /\ sent' # <<>>
        BY <2>3, <3>4
      <4>5. a + (n + 1) <= 65536
        BY <2>3, <2>5, <4>1, <4>4 DEF NotWrapped
      <4>6. Wire(seq + 1) = a + n
        <5>1. seq + 1 = a + n /\ a + n \in Nat /\ a + n < 65536
          BY <4>3, <4>5
        <5> QED
          BY <5>1 DEF Wire
      <4>7. sent'[k].seq = a + n
        BY <2>1, <2>3, <3>4, <4>6 DEF Extends
      <4> QED
        BY <3>4, <4>1, <4>4, <4>7
    <3> QED
      BY <2>3, <2>5, <3>2, <3>3, <3>4
  <2> QED
    BY <2>4, <2>5 DEF Numbered
<1> QED
  BY <1>1, <1>2 DEF SentGrows

LEMMA StampsStep ==
  ASSUME Typed, SentGrows, Stamped
  PROVE  Stamped'
<1>1. CASE UNCHANGED <<seq, time, sent>>
  BY <1>1 DEF Stamped
<1>2. CASE \E e : Extends(e)
  <2>1. PICK e : Extends(e)
    BY <1>2
  <2>2. sent' # <<>> /\ sent'[1] = IF sent = <<>> THEN e ELSE sent[1]
    BY <2>1, SentFacts DEF Extends
  <2>3. e.time = e.samples \/ sent # <<>>
    <3>1. ASSUME sent = <<>> PROVE e.time = e.samples
      <4>1. e.time = 0 + e.samples
        BY <2>1, <3>1 DEF Extends, Stamped
      <4>2. e.samples \in Nat
        BY <2>1 DEF Extends, SentPacket
      <4> QED
        BY <4>1, <4>2
    <3> QED
      BY <3>1
  <2> QED
    BY <2>2, <2>3 DEF Stamped
<1> QED
  BY <1>1, <1>2 DEF SentGrows

-----------------------------------------------------------------------------
(* The packets on the network.                                             *)

LEMMA OursFacts ==
  ASSUME Typed, NEW p \in Ours
  PROVE  /\ p.flow = "ours" /\ p.port = SendPort /\ p.type = SendType
         /\ p.id \in DOMAIN sent /\ p.id \in Nat
         /\ p.seq = sent[p.id].seq /\ p.time = sent[p.id].time
         /\ p.seq \in SeqNumbers /\ p.time \in Nat
         /\ NbSamples(p.payload) = sent[p.id].samples /\ NbSamples(p.payload) \in Nat
         /\ p.payload \in Seq(Octets)
<1>1. PICK k \in DOMAIN sent : p = DatagramOf(k)
  BY DEF Ours
<1>2. sent[k] \in SentPacket /\ k \in Nat
  BY DEF Typed
<1>3. sent[k].seq \in SeqNumbers /\ sent[k].time \in Nat /\ sent[k].samples \in 0 .. Second - 1
  BY <1>2 DEF SentPacket
<1>4. /\ p.flow = "ours" /\ p.port = SendPort /\ p.type = SendType /\ p.id = k
      /\ p.seq = sent[k].seq /\ p.time = sent[k].time /\ p.payload = Payload(sent[k].samples, TRUE)
  BY <1>1 DEF DatagramOf
<1>5. NbSamples(p.payload) = sent[k].samples /\ p.payload \in Seq(Octets)
  BY <1>3, <1>4, SamplesAssumption
<1>6. NbSamples(p.payload) \in Nat
  BY <1>3, <1>5
<1>7. p.id \in DOMAIN sent /\ p.id \in Nat /\ p.seq = sent[p.id].seq /\ p.time = sent[p.id].time
      /\ NbSamples(p.payload) = sent[p.id].samples
  BY <1>2, <1>4, <1>5
<1> QED
  BY <1>3, <1>4, <1>5, <1>6, <1>7

LEMMA OthersFacts ==
  ASSUME Known, NEW p \in Others
  PROVE  /\ p.flow \in {"other", "udp", "ip", "odd"}
         /\ p.port \in SeqNumbers /\ p.type \in 0 .. 127 /\ p.seq \in SeqNumbers
<1>1. network \in Networks /\ p \in DOMAIN network.others
  BY DEF Known, Others
<1>2. /\ p.port \in SeqNumbers /\ p.type \in 0 .. 127 /\ p.seq \in SeqNumbers
      /\ p.flow = "other" \/ p.flow = "udp" \/ p.flow = "ip" \/ p.flow = "odd"
  BY <1>1, NetworksAssumption, Zenon
<1> QED
  BY <1>2

\* Which packets are the sender's own.
LEMMA PacketFacts ==
  ASSUME Typed, Known, NEW p \in Ours \cup Others
  PROVE  p.flow = "ours" <=> p \in Ours
<1>1. CASE p \in Ours
  BY <1>1, OursFacts
<1>2. CASE p \in Others
  <2>1. p.flow # "ours"
    BY <1>2, OthersFacts
  <2> QED
    BY <2>1, OursFacts
<1> QED
  BY <1>1, <1>2

LEMMA ReadingFacts ==
  ASSUME NEW h \in Readings
  PROVE  h.port \in Nat /\ h.type \in Nat /\ h.seq \in Nat /\ h.seq \in SeqNumbers
         /\ h.port \in SeqNumbers /\ h.type \in 0 .. 127
<1>1. h.port \in SeqNumbers /\ h.type \in 0 .. 127 /\ h.seq \in SeqNumbers
  BY DEF Readings
<1>2. \A n \in SeqNumbers : n \in Nat
  BY DEF SeqNumbers
<1> QED
  BY <1>1, <1>2

\* A packet of ours that was read was read as what it is.
LEMMA ReadAsOurs ==
  ASSUME NEW p, NEW h, Reads(p, h), p.flow = "ours"
  PROVE  h = Taken(p) /\ h.port = p.port /\ h.type = p.type /\ h.seq = p.seq /\ h.payload = p.payload
BY DEF Reads, Taken

LEMMA RecordedFacts ==
  ASSUME Typed, Known
  PROVE  /\ recorded \in Seq(Recording) /\ Len(recorded) \in Nat /\ DOMAIN recorded = 1 .. Len(recorded)
         /\ \A i \in DOMAIN recorded :
              /\ recorded[i].packet \in Ours \cup Others /\ recorded[i].granulepos \in Nat
              /\ recorded[i].as \in Readings /\ Reads(recorded[i].packet, recorded[i].as)
<1>1. recorded \in Seq(Recording) /\ Len(recorded) \in Nat /\ DOMAIN recorded = 1 .. Len(recorded)
  BY DEF Known
<1>2. ASSUME NEW i \in DOMAIN recorded
      PROVE  /\ recorded[i].packet \in Ours \cup Others /\ recorded[i].granulepos \in Nat
             /\ recorded[i].as \in Readings /\ Reads(recorded[i].packet, recorded[i].as)
  <2>1. recorded[i] \in Recording
    BY <1>1
  <2> QED
    BY <2>1 DEF Recording
<1> QED
  BY <1>1, <1>2

\* Sending adds to our packets.
LEMMA OursGrow ==
  ASSUME Typed, SentGrows
  PROVE  /\ Ours \subseteq Ours'
         /\ \A k \in DOMAIN sent : k \in DOMAIN sent' /\ sent'[k] = sent[k]
<1>1. \A k \in DOMAIN sent : k \in DOMAIN sent' /\ sent'[k] = sent[k]
  <2>1. CASE UNCHANGED <<seq, time, sent>>
    BY <2>1
  <2>2. CASE \E e : Extends(e)
    <3>1. PICK e : Extends(e)
      BY <2>2
    <3> QED
      BY <3>1, SentFacts DEF Extends
  <2> QED
    BY <2>1, <2>2 DEF SentGrows
<1>2. ASSUME NEW p \in Ours PROVE p \in Ours'
  <2>1. PICK k \in DOMAIN sent : p = DatagramOf(k)
    BY DEF Ours
  <2>2. k \in DOMAIN sent' /\ p = DatagramOf(k)'
    BY <1>1, <2>1 DEF DatagramOf
  <2> QED
    BY <2>2 DEF Ours
<1> QED
  BY <1>1, <1>2

LEMMA SeqWidens ==
  ASSUME NEW S, NEW T, S \subseteq T, NEW s \in Seq(S)
  PROVE  s \in Seq(T)
OBVIOUS

\* A step that does not touch the recording.
LEMMA KnownQuiet ==
  ASSUME Typed, SentGrows, Known, UNCHANGED <<capture, network>>, net' \in Seq(Ours')
  PROVE  Known'
<1>1. Ours \cup Others \subseteq (Ours \cup Others)'
  BY OursGrow DEF Others
<1>2. ASSUME NEW x \in Recording PROVE x \in Recording'
  <2>1. /\ x \in [packet : Ours \cup Others, as : Readings, granulepos : Nat]
        /\ Reads(x.packet, x.as)
    BY DEF Recording
  <2>2. x \in [packet : (Ours \cup Others)', as : Readings, granulepos : Nat]
    BY <1>1, <2>1
  <2> QED
    BY <2>1, <2>2 DEF Recording
<1>3. recorded' \in Seq(Recording')
  <2>1. recorded \in Seq(Recording) /\ Recording \subseteq Recording'
    BY <1>2 DEF Known
  <2>2. recorded \in Seq(Recording')
    BY <2>1, SeqWidens
  <2> QED
    BY <2>2 DEF capture
<1> QED
  BY <1>3 DEF Known, capture

LEMMA QuietStep ==
  ASSUME Typed, SentGrows, CInv, UNCHANGED <<capture, network>>, net' \in Seq(Ours')
  PROVE  CInv'
<1>1. Known'
  BY KnownQuiet DEF CInv
<1>2. Locked' /\ Ascending' /\ Counted' /\ Granules'
  BY DEF CInv, Locked, Ascending, Counted, Granules, Gapless, capture, lock
<1>3. SkippedLate'
  BY WrappedBefore DEF CInv, SkippedLate, Later, capture
<1> QED
  BY <1>1, <1>2, <1>3 DEF CInv

-----------------------------------------------------------------------------
(* The capture.                                                            *)

\* A packet p comes, and is taken only for what it may be taken for.
Heard(p, data) ==
  p \in Ours \cup Others /\ \A h \in Headers(linktype, data) : Reads(p, h)

Dropped         == UNCHANGED <<lock, lastSeq, granulepos, recorded, skipped>>
Processed(p, h) == Reads(p, h) /\ (SkipOutOfSequence(p, h) \/ Record(p, h))
Delivered ==
  /\ captured < Limit /\ captured' = captured + 1
  /\ UNCHANGED <<out, linktype, asked, vars, network>> /\ net' \in Seq(Ours)
  /\ Dropped \/ \E p \in Ours \cup Others : \E h : Processed(p, h)

LEMMA WriteDelivers ==
  ASSUME NEW p, NEW data, Heard(p, data), WritePacket(p, data),
         UNCHANGED <<vars, network>>, net' \in Seq(Ours)
  PROVE  Delivered
<1>1. captured < Limit /\ captured' = captured + 1 /\ UNCHANGED <<out, linktype, asked>>
  BY DEF WritePacket
<1>2. Dropped \/ \E p2 \in Ours \cup Others : \E h : Processed(p2, h)
  <2>1. CASE out
    <3>1. PICK seen : /\ seen = Headers(linktype, data)
                      /\ Ignore(seen) \/ \E h \in seen : SkipOutOfSequence(p, h) \/ Record(p, h)
      BY <2>1 DEF WritePacket
    <3>2. CASE Ignore(seen)
      BY <3>2 DEF Ignore, Dropped
    <3>3. CASE \E h \in seen : SkipOutOfSequence(p, h) \/ Record(p, h)
      <4>1. PICK h \in seen : SkipOutOfSequence(p, h) \/ Record(p, h)
        BY <3>3
      <4>2. p \in Ours \cup Others /\ Reads(p, h)
        BY <3>1, <4>1 DEF Heard
      <4> QED
        BY <4>1, <4>2 DEF Processed
    <3> QED
      BY <3>1, <3>2, <3>3
  <2>2. CASE ~out
    <3>1. Ignore({})
      BY <2>2 DEF WritePacket
    <3> QED
      BY <3>1 DEF Ignore, Dropped
  <2> QED
    BY <2>1, <2>2
<1> QED
  BY <1>1, <1>2 DEF Delivered

LEMMA SameOurs ==
  ASSUME UNCHANGED <<vars, network>>
  PROVE  Ours' = Ours /\ Others' = Others /\ Recording' = Recording /\ UNCHANGED <<sent, seq, time>>
BY DEF Ours, Others, Recording, DatagramOf, vars, rtp

\* What an accepted header does to port and type.
LEMMA AcceptedFacts ==
  ASSUME Locked, NEW h \in Readings, Accepted(h), LockOnto(h)
  PROVE  /\ dst_port' = h.port /\ payload_type' = h.type
         /\ dst_port >= 0 => h.port = dst_port
         /\ payload_type >= 0 => h.type = payload_type
         /\ payload_type < 0 => h.type >= DynamicType
<1>1. h.port \in Nat /\ h.type \in Nat
  BY ReadingFacts
<1>2. dst_port \in Int /\ payload_type \in Int
  BY DEF Locked
<1>3. /\ dst_port >= 0 => h.port = dst_port
      /\ payload_type >= 0 => h.type = payload_type
      /\ payload_type < 0 => h.type >= DynamicType
  BY <1>2 DEF Accepted, PortWanted, TypeWanted
<1>4. /\ dst_port' = IF dst_port < 0 THEN h.port ELSE dst_port
      /\ payload_type' = IF payload_type < 0 THEN h.type ELSE payload_type
  BY DEF LockOnto
<1> QED
  BY <1>1, <1>2, <1>3, <1>4

LEMMA LockKept ==
  ASSUME Typed, Known, Locked, NEW h \in Readings, Accepted(h), LockOnto(h), UNCHANGED asked
  PROVE  /\ dst_port' \in Int /\ payload_type' \in Int
         /\ dst_port' \in Ports \cup SeqNumbers /\ payload_type' \in Types \cup 0 .. 127
         /\ asked'.port >= 0 => dst_port' = asked'.port
         /\ asked'.type >= 0 => payload_type' = asked'.type
         /\ ~(asked'.type >= 0) => payload_type' < 0 \/ payload_type' >= DynamicType
         /\ \A i \in DOMAIN recorded :
              recorded[i].as.port = dst_port' /\ recorded[i].as.type = payload_type'
<1>1. h.port \in Nat /\ h.type \in Nat /\ h.port \in SeqNumbers /\ h.type \in 0 .. 127
  BY ReadingFacts
<1>2. dst_port' = h.port /\ payload_type' = h.type
  BY AcceptedFacts
<1>3. dst_port \in Int /\ payload_type \in Int
  BY DEF Locked
<1>4. ASSUME asked.port >= 0 PROVE dst_port' = asked.port
  <2>1. dst_port = asked.port
    BY <1>4 DEF Locked
  <2>2. dst_port >= 0
    BY <1>4, <2>1
  <2> QED
    BY <1>2, <2>1, <2>2, AcceptedFacts
<1>5. ASSUME asked.type >= 0 PROVE payload_type' = asked.type
  <2>1. payload_type = asked.type
    BY <1>5 DEF Locked
  <2>2. payload_type >= 0
    BY <1>5, <2>1
  <2> QED
    BY <1>2, <2>1, <2>2, AcceptedFacts
<1>6. ASSUME ~(asked.type >= 0) PROVE payload_type' >= DynamicType
  <2>1. CASE payload_type < 0
    BY <1>2, <2>1, AcceptedFacts
  <2>2. CASE ~(payload_type < 0)
    <3>1. payload_type' = payload_type
      BY <1>2, <1>3, <2>2, AcceptedFacts
    <3>2. payload_type >= DynamicType
      BY <1>6, <2>2 DEF Locked
    <3> QED
      BY <3>1, <3>2
  <2> QED
    BY <2>1, <2>2
<1>7. ASSUME NEW i \in DOMAIN recorded
      PROVE  recorded[i].as.port = dst_port' /\ recorded[i].as.type = payload_type'
  <2>1. recorded[i].as.port = dst_port /\ recorded[i].as.type = payload_type
    BY DEF Locked
  <2>2. PICK r \in Readings : r = recorded[i].as
    BY RecordedFacts
  <2>3. dst_port >= 0 /\ payload_type >= 0
    BY <2>1, <2>2, ReadingFacts
  <2> QED
    BY <1>2, <2>1, <2>3, AcceptedFacts
<1> QED
  BY <1>1, <1>2, <1>4, <1>5, <1>6, <1>7

LEMMA DropStep ==
  ASSUME Typed, CInv, Dropped, captured < Limit, captured' = captured + 1,
         UNCHANGED <<out, linktype, asked, vars, network>>, net' \in Seq(Ours)
  PROVE  CInv'
<1>1. Ours' = Ours /\ Others' = Others /\ Recording' = Recording /\ UNCHANGED sent
  BY SameOurs
<1>2. Known' /\ Locked'
  BY <1>1 DEF CInv, Known, Locked, Dropped, lock
<1>3. Ascending' /\ SkippedLate' /\ Granules'
  BY <1>1 DEF CInv, Ascending, SkippedLate, Granules, Gapless, Later, NotWrapped, Dropped
<1>4. Counted'
  <2>1. recorded \in Seq(Recording)
    BY DEF CInv, Known
  <2>2. Len(recorded) \in Nat /\ captured \in Nat /\ IsFiniteSet(skipped)
        /\ Len(recorded) + Cardinality(skipped) <= captured
    BY <2>1 DEF CInv, Counted
  <2>3. Cardinality(skipped) \in Nat
    BY <2>2, FS_CardinalityType
  <2>4. captured' \in Nat /\ captured' <= Limit
    BY <2>2
  <2>5. Len(recorded) + Cardinality(skipped) <= captured'
    BY <2>2, <2>3
  <2> QED
    BY <2>2, <2>4, <2>5 DEF Counted, Dropped
<1> QED
  BY <1>2, <1>3, <1>4 DEF CInv

\* What the capture skips comes after a packet recorded that has a higher number: one
\* of ours, if it is one of ours itself, and sent later unless the numbers wrapped.
LEMMA SkipIsLate ==
  ASSUME Typed, Numbered, CInv, NEW p \in Ours, NEW h, Reads(p, h), SkipOutOfSequence(p, h), NotWrapped
  PROVE  \E i \in 1 .. Len(recorded) : Later(i, p.id)
<1>1. Known /\ Locked /\ Ascending
  BY DEF CInv
<1>2. /\ h \in Readings /\ h.port = SendPort /\ h.type = SendType /\ h.seq = p.seq
      /\ Accepted(h) /\ p.seq < lastSeq /\ LockOnto(h)
  <2>1. p.flow = "ours" /\ p.port = SendPort /\ p.type = SendType
    BY OursFacts
  <2>2. h.port = p.port /\ h.type = p.type /\ h.seq = p.seq
    BY <2>1, ReadAsOurs
  <2> QED
    BY <2>1, <2>2 DEF SkipOutOfSequence, OutOfSequence, Reads
<1>3. p.seq \in Nat
  BY OursFacts DEF SeqNumbers
<1>4. recorded # <<>>
  BY <1>1, <1>2, <1>3 DEF Ascending
<1>5. PICK n \in Nat : n = Len(recorded) /\ n >= 1 /\ n \in DOMAIN recorded
  <2>1. Len(recorded) \in Nat /\ Len(recorded) >= 1 /\ Len(recorded) \in DOMAIN recorded
    BY <1>1, <1>4, RecordedFacts
  <2> QED
    BY <2>1
<1>6. PICK q \in Ours \cup Others, r \in Readings :
        q = recorded[n].packet /\ r = recorded[n].as /\ Reads(q, r)
  BY <1>1, <1>5, RecordedFacts
<1>7. r.port = dst_port /\ r.type = payload_type /\ r.seq = lastSeq
  BY <1>1, <1>4, <1>5, <1>6 DEF Locked, Ascending
<1>8. dst_port >= 0 /\ payload_type >= 0
  BY <1>6, <1>7, ReadingFacts
<1>9. r.port = SendPort /\ r.type = SendType
  BY <1>1, <1>2, <1>7, <1>8, AcceptedFacts
<1>10. q \in Ours /\ q.seq = lastSeq
  <2>1. q.flow = "ours"
    BY <1>6, <1>9 DEF Reads, NotOurs
  <2>2. r.seq = q.seq
    BY <1>6, <2>1, ReadAsOurs
  <2> QED
    BY <1>1, <1>6, <1>7, <2>1, <2>2, PacketFacts
<1>11. q.flow = "ours" /\ q.id \in DOMAIN sent /\ q.seq = sent[q.id].seq
       /\ p.id \in DOMAIN sent /\ p.seq = sent[p.id].seq
  BY <1>10, OursFacts
<1>12. PICK a \in Nat, i \in Nat, j \in Nat : a = sent[1].seq /\ i = p.id /\ j = q.id
  <2>1. 1 \in DOMAIN sent
    BY <1>11, SentFacts
  <2>2. sent[1].seq \in Nat /\ p.id \in Nat /\ q.id \in Nat
    BY <1>10, <2>1, SentFacts, OursFacts
  <2> QED
    BY <2>2
<1>13. p.seq = a + (i - 1) /\ q.seq = a + (j - 1)
  BY <1>11, <1>12 DEF Numbered
<1>14. j > i
  BY <1>2, <1>10, <1>13
<1> QED
  BY <1>5, <1>6, <1>11, <1>12, <1>14 DEF Later

LEMMA SkipStep ==
  ASSUME Typed, Numbered, CInv, NEW p \in Ours \cup Others, NEW h, Reads(p, h), SkipOutOfSequence(p, h),
         captured < Limit, captured' = captured + 1,
         UNCHANGED <<out, linktype, asked, vars, network>>, net' \in Seq(Ours)
  PROVE  CInv'
<1>1. Ours' = Ours /\ Others' = Others /\ Recording' = Recording /\ UNCHANGED sent
  BY SameOurs
<1>2. /\ h \in Readings /\ Accepted(h) /\ LockOnto(h) /\ UNCHANGED <<lastSeq, granulepos, recorded>>
      /\ skipped' = skipped \cup {[id |-> p.id, flow |-> p.flow, after |-> Len(recorded)]}
  BY DEF SkipOutOfSequence, Reads
<1>3. Known'
  BY <1>1, <1>2 DEF CInv, Known
<1>4. Locked'
  <2>1. Known /\ Locked
    BY DEF CInv
  <2> QED
    BY <1>2, <2>1, LockKept DEF Locked
<1>5. Ascending' /\ Granules'
  BY <1>2 DEF CInv, Ascending, Granules, Gapless
<1>6. Len(recorded) \in Nat /\ captured \in Nat /\ IsFiniteSet(skipped)
      /\ Len(recorded) + Cardinality(skipped) <= captured
  <2>1. recorded \in Seq(Recording)
    BY DEF CInv, Known
  <2> QED
    BY <2>1 DEF CInv, Counted
<1>7. Counted'
  <2>1. PICK x : x = [id |-> p.id, flow |-> p.flow, after |-> Len(recorded)]
    OBVIOUS
  <2>2. IsFiniteSet(skipped') /\ Cardinality(skipped') <= Cardinality(skipped) + 1
        /\ Cardinality(skipped') \in Nat /\ Cardinality(skipped) \in Nat
    <3>1. skipped' = skipped \cup {x}
      BY <1>2, <2>1
    <3>2. /\ IsFiniteSet(skipped \cup {x})
          /\ Cardinality(skipped \cup {x}) = IF x \in skipped THEN Cardinality(skipped)
                                              ELSE Cardinality(skipped) + 1
      BY <1>6, FS_AddElement
    <3>3. Cardinality(skipped) \in Nat
      BY <1>6, FS_CardinalityType
    <3> QED
      BY <3>1, <3>2, <3>3
  <2>3. captured' \in Nat /\ captured' <= Limit
    BY <1>6
  <2>4. Len(recorded) + Cardinality(skipped') <= captured'
    BY <1>6, <2>2
  <2> QED
    BY <1>2, <2>2, <2>3, <2>4 DEF Counted
<1>8. SkippedLate'
  <2>1. ASSUME NEW s \in skipped'
        PROVE  /\ s.after \in Nat /\ s.after <= Len(recorded)
               /\ NotWrapped /\ s.flow = "ours" => \E i \in 1 .. s.after : Later(i, s.id)
    <3>1. CASE s \in skipped
      BY <3>1 DEF CInv, SkippedLate
    <3>2. CASE s = [id |-> p.id, flow |-> p.flow, after |-> Len(recorded)]
      <4>1. s.after = Len(recorded) /\ s.flow = p.flow /\ s.id = p.id
        BY <3>2
      <4>2. ASSUME NotWrapped, s.flow = "ours" PROVE \E i \in 1 .. Len(recorded) : Later(i, s.id)
        <5>1. p \in Ours
          BY <4>1, <4>2, PacketFacts DEF CInv
        <5> QED
          BY <4>1, <4>2, <5>1, SkipIsLate
      <4> QED
        BY <1>6, <4>1, <4>2
    <3> QED
      BY <1>2, <2>1, <3>1, <3>2
  <2>2. NotWrapped' = NotWrapped /\ \A i, k : Later(i, k)' = Later(i, k)
    BY <1>1, <1>2 DEF NotWrapped, Later
  <2> QED
    BY <1>2, <2>1, <2>2 DEF SkippedLate
<1> QED
  BY <1>3, <1>4, <1>5, <1>7, <1>8 DEF CInv

\* What is written is the packet as it was taken, and its end.
RecordsPacket(p, h, r) ==
  /\ r = [packet |-> p, as |-> h, granulepos |-> granulepos']
  /\ r.packet = p /\ r.as = h /\ r.granulepos = granulepos' /\ r \in Recording
  /\ recorded' = Append(recorded, r)

LEMMA RecordIsTyped ==
  ASSUME Typed, Known, NEW p \in Ours \cup Others, NEW h, Reads(p, h), Record(p, h)
  PROVE  /\ \E r : RecordsPacket(p, h, r)
         /\ granulepos' = granulepos + NbSamples(h.payload) /\ granulepos' \in Nat
         /\ lastSeq' = h.seq /\ h.seq \in SeqNumbers /\ h.seq >= lastSeq
<1>1. h \in Readings /\ NbSamples(h.payload) \in Nat
  BY DEF Reads
<1>2. granulepos' = granulepos + NbSamples(h.payload)
  BY DEF Record, GranuleAfter
<1>3. granulepos' \in Nat
  BY <1>1, <1>2 DEF Known
<1>4. lastSeq' = h.seq /\ h.seq \in SeqNumbers /\ h.seq >= lastSeq
  BY <1>1, ReadingFacts DEF Record, OutOfSequence, Known, SeqNumbers
<1>5. PICK r : r = [packet |-> p, as |-> h, granulepos |-> granulepos']
  OBVIOUS
<1>6. r \in Recording
  BY <1>1, <1>3, <1>5 DEF Recording
<1>7. recorded' = Append(recorded, r)
  BY <1>5 DEF Record
<1>8. RecordsPacket(p, h, r)
  BY <1>5, <1>6, <1>7 DEF RecordsPacket
<1> QED
  BY <1>2, <1>3, <1>4, <1>8

LEMMA RecordStep ==
  ASSUME Typed, Numbered, Clock, Stamped, CInv, NEW p \in Ours \cup Others, NEW h, Reads(p, h), Record(p, h),
         captured < Limit, captured' = captured + 1,
         UNCHANGED <<out, linktype, asked, vars, network>>, net' \in Seq(Ours)
  PROVE  CInv'
<1>1. Ours' = Ours /\ Others' = Others /\ Recording' = Recording /\ UNCHANGED sent
  BY SameOurs
<1>2. Known /\ Locked /\ Ascending
  BY DEF CInv
<1>3. PICK r : RecordsPacket(p, h, r)
  BY <1>2, RecordIsTyped
<1>4. /\ granulepos' = granulepos + NbSamples(h.payload) /\ granulepos' \in Nat
      /\ lastSeq' = h.seq /\ h.seq \in SeqNumbers /\ h.seq >= lastSeq
  BY <1>2, RecordIsTyped
<1>5. h \in Readings /\ Accepted(h) /\ LockOnto(h) /\ UNCHANGED skipped
  BY DEF Record, Reads
<1>6. PICK n \in Nat : n = Len(recorded)
  <2>1. Len(recorded) \in Nat
    BY <1>2, RecordedFacts
  <2> QED
    BY <2>1
<1>7. /\ recorded' \in Seq(Recording) /\ Len(recorded') = n + 1 /\ DOMAIN recorded' = 1 .. n + 1
      /\ DOMAIN recorded = 1 .. n
      /\ recorded'[n + 1] = r /\ \A i \in 1 .. n : recorded'[i] = recorded[i]
  <2>1. recorded \in Seq(Recording) /\ r \in Recording /\ recorded' = Append(recorded, r)
    BY <1>2, <1>3 DEF RecordsPacket, Known
  <2> QED
    BY <1>6, <2>1
<1>8. recorded'[n + 1].packet = p /\ recorded'[n + 1].as = h /\ recorded'[n + 1].granulepos = granulepos'
  BY <1>3, <1>7 DEF RecordsPacket
<1>9. Known'
  BY <1>1, <1>2, <1>4, <1>7 DEF Known
<1>10. Locked'
  <2>1. dst_port' = h.port /\ payload_type' = h.type
    BY <1>2, <1>5, AcceptedFacts
  <2>2. ASSUME NEW i \in DOMAIN recorded'
        PROVE  recorded'[i].as.port = dst_port' /\ recorded'[i].as.type = payload_type'
    <3>1. CASE i \in 1 .. n
      <4>1. i \in DOMAIN recorded /\ recorded'[i] = recorded[i]
        BY <1>7, <3>1
      <4> QED
        BY <1>2, <1>5, <4>1, LockKept
    <3>2. CASE i = n + 1
      BY <1>8, <2>1, <3>2
    <3> QED
      BY <1>7, <2>2, <3>1, <3>2
  <2> QED
    BY <1>2, <1>5, <2>2, LockKept DEF Locked
<1>11. Ascending'
  <2>1. \A i \in 1 .. n : recorded[i].as.seq <= h.seq
    <3>1. CASE n = 0
      BY <3>1
    <3>2. CASE n > 0
      <4>1. recorded # <<>> /\ n \in 1 .. n
        BY <1>6, <3>2
      <4>2. recorded[n].as.seq <= h.seq
        <5>1. lastSeq = recorded[n].as.seq
          BY <1>2, <1>6, <4>1 DEF Ascending
        <5> QED
          BY <1>4, <5>1
      <4>3. ASSUME NEW i \in 1 .. n PROVE recorded[i].as.seq <= h.seq
        <5>1. i = n \/ recorded[i].as.seq <= recorded[n].as.seq
          BY <1>2, <1>7, <4>1, <4>3 DEF Ascending
        <5>2. recorded[i].as.seq \in Nat /\ recorded[n].as.seq \in Nat /\ h.seq \in Nat
          <6>1. PICK x \in Readings, y \in Readings : x = recorded[i].as /\ y = recorded[n].as
            BY <1>2, <1>7, <4>1, <4>3, RecordedFacts
          <6> QED
            BY <1>5, <6>1, ReadingFacts
        <5> QED
          BY <4>2, <5>1, <5>2
      <4> QED
        BY <4>3
    <3> QED
      BY <1>6, <3>1, <3>2
  <2>2. ASSUME NEW i \in DOMAIN recorded', NEW j \in DOMAIN recorded', i < j
        PROVE  recorded'[i].as.seq <= recorded'[j].as.seq
    <3>1. i \in 1 .. n
      BY <1>7, <2>2
    <3>2. CASE j = n + 1
      BY <1>7, <1>8, <2>1, <3>1, <3>2
    <3>3. CASE j \in 1 .. n
      BY <1>2, <1>7, <2>2, <3>1, <3>3 DEF Ascending
    <3> QED
      BY <1>7, <2>2, <3>2, <3>3
  <2>3. recorded' # <<>> /\ lastSeq' = recorded'[Len(recorded')].as.seq
    BY <1>4, <1>7, <1>8
  <2> QED
    BY <2>2, <2>3 DEF Ascending
<1>12. SkippedLate'
  <2>1. ASSUME NEW s \in skipped
        PROVE  /\ s.after \in Nat /\ s.after <= Len(recorded')
               /\ NotWrapped /\ s.flow = "ours" => \E i \in 1 .. s.after : Later(i, s.id)'
    <3>1. s.after \in Nat /\ s.after <= n
      BY <1>6 DEF CInv, SkippedLate
    <3>2. \A i \in 1 .. s.after : recorded'[i] = recorded[i]
      BY <1>7, <3>1
    <3>3. NotWrapped /\ s.flow = "ours" => \E i \in 1 .. s.after : Later(i, s.id)
      BY DEF CInv, SkippedLate
    <3> QED
      BY <1>7, <3>1, <3>2, <3>3 DEF Later
  <2>2. NotWrapped' = NotWrapped
    BY <1>1 DEF NotWrapped
  <2> QED
    BY <1>5, <2>1, <2>2 DEF SkippedLate
<1>13. Counted'
  <2>1. captured \in Nat /\ IsFiniteSet(skipped) /\ n + Cardinality(skipped) <= captured
    BY <1>6 DEF CInv, Counted
  <2>2. Cardinality(skipped) \in Nat
    BY <2>1, FS_CardinalityType
  <2>3. captured' \in Nat /\ captured' <= Limit /\ Len(recorded') + Cardinality(skipped) <= captured'
    BY <1>7, <2>1, <2>2
  <2> QED
    BY <1>5, <2>1, <2>3 DEF Counted
<1>14. Granules'
  <2>1. recorded' # <<>> /\ granulepos' = recorded'[Len(recorded')].granulepos
    BY <1>7, <1>8
  <2>2. ASSUME Gapless', NEW i \in DOMAIN recorded'
        PROVE  recorded'[i].granulepos = recorded'[i].packet.time
    <3>1. ASSUME NEW j \in 1 .. n
          PROVE  recorded[j].packet.flow = "ours" /\ recorded[j].packet.id = j
      <4>1. j \in DOMAIN recorded' /\ recorded'[j] = recorded[j]
        BY <1>7, <3>1
      <4> QED
        BY <2>2, <4>1 DEF Gapless
    <3>2. Gapless
      BY <1>7, <3>1 DEF Gapless
    <3>3. CASE i \in 1 .. n
      <4>1. recorded[i].granulepos = recorded[i].packet.time
        BY <1>7, <3>2, <3>3 DEF CInv, Granules
      <4> QED
        BY <1>7, <3>3, <4>1
    <3>4. CASE i = n + 1
      <4>1. p.flow = "ours" /\ p.id = n + 1
        <5>1. n + 1 \in DOMAIN recorded'
          BY <1>7
        <5>2. recorded'[n + 1].packet.flow = "ours" /\ recorded'[n + 1].packet.id = n + 1
          BY <2>2, <5>1 DEF Gapless
        <5> QED
          BY <1>8, <5>2
      <4>2. p \in Ours
        BY <1>2, <4>1, PacketFacts
      <4>3. /\ n + 1 \in DOMAIN sent /\ p.time = sent[n + 1].time
            /\ NbSamples(h.payload) = sent[n + 1].samples
        BY <4>1, <4>2, OursFacts, ReadAsOurs
      <4>4. CASE n = 0
        <5>1. granulepos = 0 /\ sent # <<>>
          <6>1. recorded = <<>>
            BY <1>2, <1>6, <4>4, RecordedFacts
          <6>2. granulepos = 0
            BY <6>1 DEF CInv, Granules
          <6> QED
            BY <4>3, <6>2
        <5>2. sent[1].time = sent[1].samples
          BY <5>1 DEF Stamped
        <5>3. granulepos' = 0 + sent[1].samples /\ p.time = sent[1].time /\ sent[1].samples \in Nat
          BY <1>4, <4>3, <4>4, <5>1, SentFacts
        <5> QED
          BY <1>8, <3>4, <5>2, <5>3
      <4>5. CASE n > 0
        <5>1. n \in 1 .. n /\ n \in DOMAIN recorded /\ recorded # <<>>
          BY <1>6, <1>7, <4>5
        <5>2. granulepos = recorded[n].granulepos
          BY <1>6, <5>1 DEF CInv, Granules
        <5>3. recorded[n].granulepos = recorded[n].packet.time
          BY <3>2, <5>1 DEF CInv, Granules
        <5>4. recorded[n].packet \in Ours /\ recorded[n].packet.id = n
          BY <1>2, <3>1, <5>1, RecordedFacts, PacketFacts
        <5>5. recorded[n].packet.time = sent[n].time
          BY <5>4, OursFacts
        <5>6. sent[n + 1].time = sent[(n + 1) - 1].time + sent[n + 1].samples
          <6>1. n + 1 \in 2 .. Len(sent)
            BY <4>3, <4>5, SentFacts
          <6> QED
            BY <6>1 DEF Clock
        <5>7. (n + 1) - 1 = n
          OBVIOUS
        <5>8. sent[n + 1].time = sent[n].time + sent[n + 1].samples
          BY <5>6, <5>7
        <5> QED
          BY <1>4, <1>8, <3>4, <4>3, <5>2, <5>3, <5>5, <5>8
      <4> QED
        BY <1>6, <4>4, <4>5
    <3> QED
      BY <1>7, <2>2, <3>3, <3>4
  <2> QED
    BY <2>1, <2>2 DEF Granules
<1> QED
  BY <1>9, <1>10, <1>11, <1>12, <1>13, <1>14 DEF CInv

-----------------------------------------------------------------------------
(* The bytes of a packet: what a parser finds of header h and what is      *)
(* behind it, x.                                                           *)

\* Induction, on a set: a set of numbers has a least one.
LEMMA Induction ==
  ASSUME NEW S, 0 \in S, \A i \in Nat : i \in S => i + 1 \in S
  PROVE  Nat \subseteq S
<1> SUFFICES ASSUME NEW bad \in Nat, bad \notin S PROVE FALSE
  OBVIOUS
<1> DEFINE R == OpToRel(<, Nat)
           T == Nat \ S
<1>1. IsWellFoundedOn(R, Nat)
  BY NatLessThanWellFounded
<1>2. \A k, l \in Nat : k < l => <<k, l>> \in R
  BY DEF OpToRel
<1>3. T \subseteq Nat /\ T # {}
  OBVIOUS
<1> HIDE DEF R
<1>4. PICK m \in T : \A k \in T : ~(<<k, m>> \in R)
  BY <1>1, <1>3, WFMin
<1>5. m # 0 /\ m - 1 \in Nat /\ m - 1 < m
  OBVIOUS
<1>6. m - 1 \notin T
  BY <1>2, <1>4, <1>5
<1> QED
  BY <1>4, <1>5, <1>6

LEMMA PartOf ==
  ASSUME NEW S, NEW a \in Seq(S), NEW m \in Nat, NEW n \in Nat, m + n <= Len(a)
  PROVE  /\ SubSeq(a, m + 1, m + n) \in Seq(S) /\ Len(SubSeq(a, m + 1, m + n)) = n
         /\ \A i \in 1 .. n : SubSeq(a, m + 1, m + n)[i] = a[m + i]
<1>1. PICK i \in Nat, j \in Nat : i = m + 1 /\ j = m + n
  OBVIOUS
<1>2. \A k \in i .. j : a[k] \in S
  BY <1>1
<1>3. /\ SubSeq(a, i, j) \in Seq(S)
      /\ Len(SubSeq(a, i, j)) = IF i <= j + 1 THEN j - i + 1 ELSE 0
      /\ \A k \in 1 .. j - i + 1 : SubSeq(a, i, j)[k] = a[i + k - 1]
  BY <1>2, SubSeqProperties
<1>4. j - i + 1 = n /\ i <= j + 1 /\ \A k \in 1 .. n : i + k - 1 = m + k
  BY <1>1
<1> QED
  BY <1>1, <1>3, <1>4

LEMMA BehindIs ==
  ASSUME NEW h \in Seq(Octets), NEW x \in Seq(Octets)
  PROVE  Behind(h \o x, Len(h)) = x
<1>1. PICK m \in Nat, n \in Nat : m = Len(h) /\ n = Len(x)
  OBVIOUS
<1>2. /\ h \o x \in Seq(Octets) /\ Len(h \o x) = m + n
      /\ \A i \in 1 .. n : (h \o x)[m + i] = x[i]
  BY <1>1, Joined
<1>3. PICK b : b = SubSeq(h \o x, m + 1, m + n)
  OBVIOUS
<1>4. b \in Seq(Octets) /\ Len(b) = n /\ \A i \in 1 .. n : b[i] = (h \o x)[m + i]
  <2>1. PICK a : a = h \o x
    OBVIOUS
  <2>2. a \in Seq(Octets) /\ Len(a) = m + n
    BY <1>2, <2>1
  <2>3. b = SubSeq(a, m + 1, m + n) /\ m + n <= Len(a)
    BY <1>3, <2>1, <2>2
  <2>4. /\ SubSeq(a, m + 1, m + n) \in Seq(Octets) /\ Len(SubSeq(a, m + 1, m + n)) = n
        /\ \A i \in 1 .. n : SubSeq(a, m + 1, m + n)[i] = a[m + i]
    BY <2>2, <2>3, PartOf
  <2> QED
    BY <2>1, <2>3, <2>4
<1>5. b = x
  BY <1>1, <1>2, <1>4
<1> QED
  BY <1>1, <1>2, <1>3, <1>5 DEF Behind

LEMMA BytesOf ==
  ASSUME NEW h \in Seq(Octets), NEW x \in Seq(Octets)
  PROVE  /\ h \o x \in Seq(Octets) /\ Len(h \o x) = Len(h) + Len(x) /\ Len(h) \in Nat /\ Len(x) \in Nat
         /\ \A i \in 0 .. Len(h) - 1 : Byte(h \o x, i) = Byte(h, i) /\ Byte(h, i) \in Octets
         /\ \A i \in 0 .. Len(h) - 2 : rbe16(h \o x, i) = rbe16(h, i)
<1>1. /\ h \o x \in Seq(Octets) /\ Len(h \o x) = Len(h) + Len(x) /\ Len(h) \in Nat /\ Len(x) \in Nat
      /\ \A i \in 1 .. Len(h) : (h \o x)[i] = h[i] /\ h[i] \in Octets
  BY Joined
<1>2. \A i \in 0 .. Len(h) - 1 : Byte(h \o x, i) = Byte(h, i) /\ Byte(h, i) \in Octets
  BY <1>1 DEF Byte
<1>3. \A i \in 0 .. Len(h) - 2 : rbe16(h \o x, i) = rbe16(h, i)
  BY <1>1 DEF rbe16
<1> QED
  BY <1>1, <1>2, <1>3

-----------------------------------------------------------------------------
(* The link layer.                                                         *)

LEMMA EthernetIs ==
  ASSUME NEW h \in Seq(Octets), NEW x \in Seq(Octets), IsLinkHeader("DLT_EN10MB", h)
  PROVE  EthPayload(h \o x) = {x}
<1>1. PICK k \in 0 .. Len(h) :
        /\ Len(h) = 14 + 4 * k /\ IsIp(rbe16(h, 12 + 4 * k))
        /\ \A m \in 0 .. k - 1 : Tag(rbe16(h, 12 + 4 * m))
  BY DEF IsLinkHeader
<1>2. PICK p : p = h \o x
  OBVIOUS
<1>3. k \in Nat /\ Len(h) \in Nat /\ Len(x) \in Nat /\ Len(p) = Len(h) + Len(x)
  BY <1>2, BytesOf
<1>4. \A m \in 0 .. k : rbe16(p, 12 + 4 * m) = rbe16(h, 12 + 4 * m)
  <2>1. \A m \in 0 .. k : 12 + 4 * m \in 0 .. Len(h) - 2
    BY <1>1, <1>3
  <2> QED
    BY <1>2, <2>1, BytesOf
<1>5. \A e : Tag(e) => ~IsIp(e)
  BY DEF Tag, IsIp
<1>6. k \in 0 .. (Len(p) - 14) \div 4
  BY <1>1, <1>3
<1>7. k \in TagCounts(p) /\ IsIp(rbe16(p, 12 + 4 * k))
  BY <1>1, <1>3, <1>4, <1>6 DEF TagCounts
<1>8. ASSUME NEW n \in TagCounts(p), IsIp(rbe16(p, 12 + 4 * n)) PROVE n = k
  <2>1. n \in Nat /\ \A m \in 0 .. n - 1 : Tag(rbe16(p, 12 + 4 * m))
    BY <1>3 DEF TagCounts
  <2>2. ~(n < k)
    BY <1>1, <1>3, <1>4, <1>5, <1>8, <2>1
  <2>3. ~(k < n)
    BY <1>3, <1>5, <1>7, <2>1
  <2> QED
    BY <1>3, <2>1, <2>2, <2>3
<1>9. {n \in TagCounts(p) : IsIp(rbe16(p, 12 + 4 * n))} = {k}
  BY <1>7, <1>8
<1>10. EthPayload(p) = {Behind(p, 14 + 4 * k)}
  BY <1>9 DEF EthPayload
<1> QED
  BY <1>1, <1>2, <1>10, BehindIs

LEMMA LinkIs ==
  ASSUME NEW type, NEW h \in Seq(Octets), NEW x \in Seq(Octets), IsLinkHeader(type, h)
  PROVE  LinkPayload(type, h \o x) = {x}
<1>1. CASE type = "DLT_EN10MB"
  BY <1>1, EthernetIs DEF LinkPayload
<1>2. CASE type = "DLT_NULL"
  <2>1. h \in PfInet
    BY <1>2 DEF IsLinkHeader
  <2>2. Len(h) = 4
    BY <2>1 DEF PfInet
  <2>3. SubSeq(h \o x, 1, 4) = h
    <3>1. SubSeq(h \o x, 1, 4) = SubSeq(h, 1, 4)
      <4>1. 1 \in 1 .. Len(h) /\ 4 \in 1 .. Len(h)
        BY <2>2
      <4> QED
        BY <4>1, SubSeqOfConcat1
    <3>2. SubSeq(h, 1, 4) = h
      BY <2>2, SubSeqFull
    <3> QED
      BY <3>1, <3>2
  <2>4. Len(h \o x) >= 4
    <3>1. Len(h \o x) = Len(h) + Len(x) /\ Len(x) \in Nat
      BY BytesOf
    <3> QED
      BY <2>2, <3>1
  <2>5. LoopPayload(h \o x) = {Behind(h \o x, 4)}
    BY <2>1, <2>3, <2>4 DEF LoopPayload
  <2>6. Behind(h \o x, 4) = x
    BY <2>2, BehindIs
  <2> QED
    BY <1>2, <2>5, <2>6 DEF LinkPayload
<1>3. CASE type = "DLT_LINUX_SLL"
  <2>1. Len(h) = 16 /\ IsIp(rbe16(h, 14))
    BY <1>3 DEF IsLinkHeader
  <2>2. Len(h \o x) >= 16 /\ rbe16(h \o x, 14) = rbe16(h, 14)
    <3>1. Len(h \o x) = Len(h) + Len(x) /\ Len(x) \in Nat
          /\ \A i \in 0 .. Len(h) - 2 : rbe16(h \o x, i) = rbe16(h, i)
      BY BytesOf
    <3>2. 14 \in 0 .. Len(h) - 2
      BY <2>1
    <3> QED
      BY <2>1, <3>1, <3>2
  <2>3. SllPayload(h \o x) = {Behind(h \o x, 16)}
    BY <2>1, <2>2 DEF SllPayload
  <2>4. Behind(h \o x, 16) = x
    BY <2>1, BehindIs
  <2> QED
    BY <1>3, <2>3, <2>4 DEF LinkPayload
<1> QED
  BY <1>1, <1>2, <1>3 DEF IsLinkHeader

-----------------------------------------------------------------------------
(* IP: options and extension headers, by induction from the last one.      *)

OptionBody(p, last, g, i) ==
  \/ i + 1 >= last
  \/ Byte(p, i) = 0 /\ g[i + 1]
  \/ Byte(p, i) \in 1 .. 63 /\ g[i + 2 + Byte(p, i + 1)]

OptionsBy(p, first, last, ok) ==
  /\ ok = [i \in first .. last + 257 |-> OptionBody(p, last, ok, i)]
  /\ OptionsKnown(p, first, last) = ok[first]

LEMMA OptionBodyLocal ==
  ASSUME NEW p, NEW last \in Nat, NEW i \in Nat, NEW g, NEW h,
         \A k \in Nat : i < k /\ k <= last + 257 => g[k] = h[k],
         i + 1 < last => Byte(p, i + 1) \in Octets
  PROVE  OptionBody(p, last, g, i) = OptionBody(p, last, h, i)
<1>1. CASE i + 1 >= last
  BY <1>1 DEF OptionBody
<1>2. CASE i + 1 < last
  <2>1. i + 1 \in Nat /\ i < i + 1 /\ i + 1 <= last + 257
    BY <1>2
  <2>2. PICK k \in Nat : k = i + 2 + Byte(p, i + 1) /\ i < k /\ k <= last + 257
    <3>1. PICK b \in Nat : b = Byte(p, i + 1) /\ b <= 255
      BY <1>2 DEF Octets
    <3> QED
      BY <1>2, <3>1
  <2>3. g[i + 1] = h[i + 1] /\ g[i + 2 + Byte(p, i + 1)] = h[i + 2 + Byte(p, i + 1)]
    BY <2>1, <2>2
  <2> QED
    BY <2>3, Zenon DEF OptionBody
<1> QED
  BY <1>1, <1>2

LEMMA OptionsDefined ==
  ASSUME NEW p, NEW first \in Nat, NEW last \in Nat, first <= last,
         \A i \in first .. last - 1 : Byte(p, i) \in Octets
  PROVE  \E ok : OptionsBy(p, first, last, ok)
<1> DEFINE D == first .. last + 257
           Good(g, j) == g = [i \in D |-> g[i]]
                         /\ \A i \in D : i >= last - j => g[i] = OptionBody(p, last, g, i)
           S == {j \in Nat : j <= last => \E g : Good(g, j)}
<1>1. 0 \in S
  <2> DEFINE g == [i \in D |-> TRUE]
  <2>1. ASSUME NEW i \in D, i >= last - 0 PROVE g[i] = OptionBody(p, last, g, i)
    <3>1. g[i] = TRUE /\ i + 1 >= last
      BY <2>1
    <3> HIDE DEF g
    <3> QED
      BY <3>1 DEF OptionBody
  <2>2. Good(g, 0)
    BY <2>1
  <2> QED
    BY <2>2
<1>2. ASSUME NEW j \in Nat, j \in S PROVE j + 1 \in S
  <2> SUFFICES ASSUME j + 1 <= last PROVE \E g : Good(g, j + 1)
    OBVIOUS
  <2>1. PICK g : Good(g, j)
    BY <1>2
  <2>2. PICK k \in Nat : k = last - (j + 1)
    OBVIOUS
  <2> DEFINE h == [i \in D |-> IF i = k THEN OptionBody(p, last, g, k) ELSE g[i]]
  <2>3. \A m \in Nat : k < m /\ m <= last + 257 => g[m] = h[m] \/ m \notin D
    OBVIOUS
  <2>4. ASSUME NEW i \in D, i >= last - (j + 1) PROVE h[i] = OptionBody(p, last, h, i)
    <3>1. i \in Nat /\ k <= i
      BY <2>2, <2>4
    <3>2. \A m \in Nat : i < m /\ m <= last + 257 => g[m] = h[m]
      BY <3>1, <2>3
    <3>3. i + 1 < last => Byte(p, i + 1) \in Octets
      BY <3>1
    <3> HIDE DEF h
    <3>4. OptionBody(p, last, g, i) = OptionBody(p, last, h, i)
      BY <3>1, <3>2, <3>3, OptionBodyLocal
    <3>5. CASE i = k
      BY <3>4, <3>5 DEF h
    <3>6. CASE i # k
      <4>1. i >= last - j
        BY <2>2, <2>4, <3>1, <3>6
      <4>2. h[i] = g[i] /\ g[i] = OptionBody(p, last, g, i)
        BY <2>1, <3>6, <4>1 DEF h
      <4> QED
        BY <3>4, <4>2
    <3> QED
      BY <3>5, <3>6
  <2>5. h = [i \in D |-> h[i]]
    OBVIOUS
  <2> HIDE DEF h
  <2> QED
    BY <2>4, <2>5
<1> HIDE DEF S
<1>3. last \in S
  BY <1>1, <1>2, Induction
<1>4. PICK g : Good(g, last)
  BY <1>3 DEF S
<1>5. g = [i \in D |-> OptionBody(p, last, g, i)]
  BY <1>4
<1>6. PICK ok : /\ ok = [i \in D |-> OptionBody(p, last, ok, i)]
                /\ OptionsKnown(p, first, last) = ok[first]
  <2> DEFINE all == CHOOSE ok : ok = [i \in D |-> OptionBody(p, last, ok, i)]
  <2>1. all = [i \in D |-> OptionBody(p, last, all, i)]
    BY <1>5, Zenon
  <2>2. OptionsKnown(p, first, last) = all[first]
    BY Zenon DEF OptionsKnown, OptionBody
  <2> HIDE DEF all
  <2> QED
    BY <2>1, <2>2
<1> QED
  BY <1>6 DEF OptionsBy

LEMMA OptionsAre ==
  ASSUME NEW h \in Seq(Octets), NEW x \in Seq(Octets), NEW first \in Nat, NEW last \in Nat,
         first <= last, last <= Len(h), AreOptions(h, first, last)
  PROVE  OptionsKnown(h \o x, first, last)
<1>1. PICK p : p = h \o x
  OBVIOUS
<1>2. \A i \in first .. last - 1 : Byte(p, i) = Byte(h, i) /\ Byte(p, i) \in Octets
  <2>1. Len(h) \in Nat /\ \A i \in 0 .. Len(h) - 1 : Byte(h \o x, i) = Byte(h, i) /\ Byte(h, i) \in Octets
    BY BytesOf
  <2> QED
    BY <1>1, <2>1
<1>3. PICK ok : /\ ok = [i \in first .. last + 257 |-> OptionBody(p, last, ok, i)]
                /\ OptionsKnown(p, first, last) = ok[first]
  <2>1. \A i \in first .. last - 1 : Byte(p, i) \in Octets
    BY <1>2
  <2>2. \E ok : OptionsBy(p, first, last, ok)
    BY <2>1, OptionsDefined
  <2> QED
    BY <2>2 DEF OptionsBy
<1>4. PICK starts \in SUBSET (first .. last - 1) :
        /\ first \in starts \cup {last}
        /\ \A i \in starts :
             \/ Byte(h, i) = 0 /\ i + 1 \in starts \cup {last}
             \/ /\ Byte(h, i) \in 1 .. 63 /\ i + 1 < last
                /\ i + 2 + Byte(h, i + 1) \in starts \cup {last}
  BY DEF AreOptions
<1> DEFINE S == {j \in Nat : \A i \in starts \cup {last} : last - i <= j => ok[i]}
<1>5. last \in first .. last + 257
  OBVIOUS
<1>6. ok[last]
  <2>1. ok[last] = OptionBody(p, last, ok, last)
    BY <1>3, <1>5
  <2> QED
    BY <2>1 DEF OptionBody
<1>7. 0 \in S
  <2>1. ASSUME NEW i \in starts \cup {last}, last - i <= 0 PROVE i = last
    BY <2>1
  <2> QED
    BY <1>6, <2>1
<1>8. ASSUME NEW j \in Nat, j \in S PROVE j + 1 \in S
  <2>1. ASSUME NEW i \in starts, last - i <= j + 1 PROVE ok[i]
    <3>1. i \in first .. last - 1 /\ i \in Nat
      BY DEF Octets
    <3>2. ok[i] = OptionBody(p, last, ok, i)
      <4>1. i \in first .. last + 257
        BY <3>1
      <4> QED
        BY <1>3, <4>1
    <3>3. CASE i + 1 >= last
      BY <3>2, <3>3 DEF OptionBody
    <3>4. CASE Byte(h, i) = 0 /\ i + 1 \in starts \cup {last}
      <4>1. last - (i + 1) <= j
        BY <2>1, <3>1
      <4>2. ok[i + 1]
        BY <1>8, <3>4, <4>1
      <4>3. Byte(p, i) = 0
        BY <1>2, <3>1, <3>4
      <4> QED
        BY <3>2, <4>2, <4>3, Zenon DEF OptionBody
    <3>5. CASE /\ Byte(h, i) \in 1 .. 63 /\ i + 1 < last
               /\ i + 2 + Byte(h, i + 1) \in starts \cup {last}
      <4>1. i + 1 \in first .. last - 1
        BY <3>1, <3>5
      <4>2. Byte(p, i) = Byte(h, i) /\ Byte(p, i + 1) = Byte(h, i + 1) /\ Byte(h, i + 1) \in Nat
        <5>1. Byte(p, i) = Byte(h, i) /\ Byte(p, i + 1) = Byte(h, i + 1) /\ Byte(p, i + 1) \in Octets
          BY <1>2, <3>1, <4>1
        <5>2. \A n \in Octets : n \in Nat
          BY DEF Octets
        <5> QED
          BY <5>1, <5>2, Zenon
      <4>3. PICK k \in starts \cup {last} : k = i + 2 + Byte(p, i + 1) /\ last - k <= j
        BY <2>1, <3>1, <3>5, <4>2
      <4>4. ok[k]
        BY <1>8, <4>3
      <4>5. Byte(p, i) \in 1 .. 63 /\ ok[i + 2 + Byte(p, i + 1)]
        BY <3>5, <4>2, <4>3, <4>4
      <4> QED
        BY <3>2, <4>5, Zenon DEF OptionBody
    <3> QED
      BY <1>4, <2>1, <3>3, <3>4, <3>5
  <2>2. ASSUME NEW i \in starts \cup {last}, last - i <= j + 1 PROVE ok[i]
    BY <1>6, <2>1, <2>2
  <2> QED
    BY <2>2
<1> HIDE DEF S
<1>9. Nat \subseteq S
  BY <1>7, <1>8, Induction
<1>10. last - first \in S /\ last - first <= last - first
  BY <1>9
<1>11. ok[first]
  BY <1>4, <1>10 DEF S
<1> QED
  BY <1>1, <1>3, <1>11

\* Extension headers: where one may begin, and of which protocol.
Places(p) == (40 .. Len(p)) \X (0 .. 255)
ChainBody(p, g, at) ==
  IF at[2] \notin Extensions THEN {n \in {at[1]} : at[2] = UdpProtocol}
  ELSE IF ExtensionFits(p, at[1], at[2]) THEN g[<<at[1] + ExtensionSize(p, at[1]), Byte(p, at[1])>>]
  ELSE {}

ChainBy(p, behind) ==
  /\ \A at \in Places(p) : behind[at] = ChainBody(p, behind, at)
  /\ Len(p) >= 40 => Ip6Payload(p) = {Behind(p, n) : n \in behind[<<40, Byte(p, 6)>>]}

LEMMA NextHeader ==
  ASSUME NEW p \in Seq(Octets), NEW at \in Places(p), ExtensionFits(p, at[1], at[2])
  PROVE  /\ <<at[1] + ExtensionSize(p, at[1]), Byte(p, at[1])>> \in Places(p)
         /\ ExtensionSize(p, at[1]) \in Nat /\ ExtensionSize(p, at[1]) >= 8
<1>1. PICK i \in Nat : i = at[1] /\ i >= 40
  BY DEF Places
<1>2. Len(p) \in Nat /\ i + 8 <= Len(p) /\ i + ExtensionSize(p, i) <= Len(p)
  BY <1>1 DEF ExtensionFits
<1>3. i + 1 \in 1 .. Len(p) /\ i + 1 + 1 \in 1 .. Len(p)
  BY <1>2
<1>4. Byte(p, i) \in Octets /\ Byte(p, i + 1) \in Octets
  BY <1>3 DEF Byte
<1>5. PICK b \in 0 .. 255 : b = Byte(p, i + 1)
  BY <1>4 DEF Octets
<1>6. ExtensionSize(p, i) = (b + 1) * 8
  BY <1>5 DEF ExtensionSize
<1>7. i + ExtensionSize(p, i) \in 40 .. Len(p) /\ Byte(p, i) \in 0 .. 255
  BY <1>1, <1>2, <1>4, <1>6 DEF Octets
<1>8. <<i + ExtensionSize(p, i), Byte(p, i)>> \in Places(p)
  BY <1>7 DEF Places
<1> QED
  BY <1>1, <1>6, <1>8

LEMMA ChainBodyLocal ==
  ASSUME NEW p \in Seq(Octets), NEW at \in Places(p), NEW g, NEW h,
         \A next \in Places(p) : at[1] < next[1] => g[next] = h[next]
  PROVE  ChainBody(p, g, at) = ChainBody(p, h, at)
<1>1. CASE ExtensionFits(p, at[1], at[2])
  <2>1. PICK next : next = <<at[1] + ExtensionSize(p, at[1]), Byte(p, at[1])>>
    OBVIOUS
  <2>2. at[1] \in Nat
    BY DEF Places
  <2>3. next \in Places(p) /\ at[1] < next[1]
    BY <1>1, <2>1, <2>2, NextHeader
  <2>4. g[next] = h[next]
    BY <2>3
  <2> QED
    BY <2>1, <2>4 DEF ChainBody
<1>2. CASE ~ExtensionFits(p, at[1], at[2])
  BY <1>2 DEF ChainBody
<1> QED
  BY <1>1, <1>2

LEMMA ChainDefined ==
  ASSUME NEW p \in Seq(Octets)
  PROVE  \E behind : ChainBy(p, behind)
<1>1. PICK last \in Nat : last = Len(p)
  OBVIOUS
<1> DEFINE D == Places(p)
           Good(g, j) == g = [at \in D |-> g[at]]
                         /\ \A at \in D : at[1] >= last - j => g[at] = ChainBody(p, g, at)
           S == {j \in Nat : \E g : Good(g, j)}
<1>0. \A at \in D : at[1] \in Nat /\ at[1] <= last
  BY <1>1 DEF Places
<1>2. 0 \in S
  <2> DEFINE g == [at \in D |-> ChainBody(p, <<>>, at)]
  <2>1. ASSUME NEW at \in D, at[1] >= last - 0 PROVE g[at] = ChainBody(p, g, at)
    <3>1. g[at] = ChainBody(p, <<>>, at)
      OBVIOUS
    <3> HIDE DEF g
    <3>2. \A next \in D : ~(at[1] < next[1])
      BY <1>0, <2>1
    <3>3. ChainBody(p, <<>>, at) = ChainBody(p, g, at)
      BY <3>2, ChainBodyLocal
    <3> QED
      BY <3>1, <3>3
  <2>2. Good(g, 0)
    BY <2>1
  <2> QED
    BY <2>2
<1>3. ASSUME NEW j \in Nat, j \in S PROVE j + 1 \in S
  <2>1. PICK g : Good(g, j)
    BY <1>3
  <2> DEFINE h == [at \in D |-> IF at[1] = last - (j + 1) THEN ChainBody(p, g, at) ELSE g[at]]
  <2>2. \A at \in D : h[at] = IF at[1] = last - (j + 1) THEN ChainBody(p, g, at) ELSE g[at]
    OBVIOUS
  <2>3. h = [at \in D |-> h[at]]
    OBVIOUS
  <2> HIDE DEF h
  <2>4. ASSUME NEW at \in D, at[1] >= last - (j + 1) PROVE h[at] = ChainBody(p, h, at)
    <3>1. \A next \in D : at[1] < next[1] => g[next] = h[next]
      BY <1>0, <2>2, <2>4
    <3>2. ChainBody(p, g, at) = ChainBody(p, h, at)
      BY <3>1, ChainBodyLocal
    <3>3. CASE at[1] = last - (j + 1)
      BY <2>2, <3>2, <3>3
    <3>4. CASE at[1] # last - (j + 1)
      <4>1. at[1] >= last - j
        BY <1>0, <2>4, <3>4
      <4>2. g[at] = ChainBody(p, g, at)
        BY <2>1, <4>1
      <4> QED
        BY <2>2, <3>2, <3>4, <4>2
    <3> QED
      BY <3>3, <3>4
  <2>5. Good(h, j + 1)
    BY <2>3, <2>4
  <2> QED
    BY <2>5
<1> HIDE DEF S
<1>4. last \in S
  BY <1>2, <1>3, Induction
<1>5. PICK g : Good(g, last)
  BY <1>4 DEF S
<1>6. g = [at \in D |-> ChainBody(p, g, at)]
  BY <1>0, <1>5
<1>7. PICK f : /\ f = [at \in D |-> ChainBody(p, f, at)]
               /\ Len(p) >= 40 => Ip6Payload(p) = {Behind(p, n) : n \in f[<<40, Byte(p, 6)>>]}
  <2>1. PICK f : f = CHOOSE f2 : f2 = [at \in D |-> ChainBody(p, f2, at)]
    OBVIOUS
  <2>2. f = [at \in D |-> ChainBody(p, f, at)]
    BY <1>6, <2>1
  <2>3. ~(Len(p) < 40) => Ip6Payload(p) = {Behind(p, n) : n \in f[<<40, Byte(p, 6)>>]}
    BY <2>1 DEF Ip6Payload, ChainBody, Places
  <2> QED
    BY <1>1, <2>2, <2>3
<1>8. \A at \in D : f[at] = ChainBody(p, f, at)
  BY <1>7
<1>9. ChainBy(p, f)
  BY <1>7, <1>8 DEF ChainBy
<1> QED
  BY <1>9

LEMMA OctetIsNat ==
  ASSUME NEW b \in Octets
  PROVE  b \in Nat
BY DEF Octets

LEMMA EightTimes ==
  ASSUME NEW k \in Nat, k % 8 = 0
  PROVE  k = 8 * (k \div 8)
OBVIOUS

LEMMA Ip6Is ==
  ASSUME NEW h \in Seq(Octets), NEW x \in Seq(Octets),
         NEW protocol \in Octets \ Extensions, IsIp6Header(h, protocol)
  PROVE  Ip6Payload(h \o x) = {y \in {x} : protocol = UdpProtocol}
<1>a. /\ Len(h) >= 40 /\ Len(h) % 8 = 0
      /\ \E offsets \in SUBSET {i \in 40 .. Len(h) - 1 : i % 8 = 0} :
           \E kind \in [offsets -> Extensions \ {Authentication}] : AreExtensions(h, kind, protocol)
  BY DEF IsIp6Header
<1>b. PICK offsets \in SUBSET {i \in 40 .. Len(h) - 1 : i % 8 = 0} :
        \E kind \in [offsets -> Extensions \ {Authentication}] : AreExtensions(h, kind, protocol)
  BY <1>a
<1>c. PICK kind \in [offsets -> Extensions \ {Authentication}] : AreExtensions(h, kind, protocol)
  BY <1>b
<1>1. PICK p \in Seq(Octets) : p = h \o x
  BY BytesOf
<1>2. PICK m \in Nat, n \in Nat : m = Len(h) /\ n = Len(p) /\ m <= n /\ m >= 40 /\ m % 8 = 0
  <2>1. Len(h) \in Nat /\ Len(p) \in Nat /\ Len(h) <= Len(p)
    <3>1. Len(p) = Len(h) + Len(x) /\ Len(h) \in Nat /\ Len(x) \in Nat
      BY <1>1, BytesOf
    <3> QED
      BY <3>1
  <2> QED
    BY <1>a, <2>1
<1>3. \A i \in 0 .. m - 1 : Byte(p, i) = Byte(h, i) /\ Byte(h, i) \in Octets
  BY <1>1, <1>2, BytesOf
<1>4. PICK behind : ChainBy(p, behind)
  BY ChainDefined
<1> DEFINE N == offsets \cup {m}
           next(i) == IF i = m THEN protocol ELSE kind[i]
           end == {k \in {m} : protocol = UdpProtocol}
           S == {j \in Nat : \A i \in N : m - i <= j => behind[<<i, next(i)>>] = end}
<1>5. DOMAIN kind = offsets /\ m \notin offsets
  BY <1>2
<1>6. ASSUME NEW i \in offsets
      PROVE  /\ i \in 40 .. m - 8 /\ kind[i] \in {HopByHop, Routing, Destination}
             /\ i + ExtensionSize(h, i) \in N /\ next(i + ExtensionSize(h, i)) = Byte(h, i)
             /\ kind[i] \in {HopByHop, Destination} => AreOptions(h, i + 2, i + ExtensionSize(h, i))
  <2>1. i \in 40 .. m - 1 /\ i % 8 = 0
    BY <1>2
  <2>2. i \in 40 .. m - 8
    <3>1. i = 8 * (i \div 8) /\ m = 8 * (m \div 8)
      <4>1. i \in Nat /\ i % 8 = 0 /\ m \in Nat /\ m % 8 = 0
        BY <1>2, <2>1
      <4> QED
        BY <4>1, EightTimes
    <3>2. PICK a \in Int, b \in Int : a = i \div 8 /\ b = m \div 8
      BY <1>2, <2>1
    <3>3. i = 8 * a /\ m = 8 * b
      BY <3>1, <3>2
    <3>4. i <= m - 8
      <4>1. 8 * a < 8 * b
        BY <1>2, <2>1, <3>3
      <4>2. a + 1 <= b
        BY <4>1
      <4> QED
        BY <3>3, <4>2
    <3> QED
      BY <1>2, <2>1, <3>4
  <2>3. kind[i] \in {HopByHop, Routing, Destination}
    BY DEF Extensions
  <2> QED
    BY <1>2, <1>5, <1>c, <2>2, <2>3 DEF AreExtensions
<1>7. 40 \in N /\ next(40) = Byte(h, 6)
  BY <1>2, <1>5, <1>c DEF AreExtensions
<1>8. ASSUME NEW i \in N PROVE <<i, next(i)>> \in Places(p)
  <2>1. i \in 40 .. n
    BY <1>2, <1>6
  <2>2. next(i) \in 0 .. 255
    BY <1>6 DEF HopByHop, Routing, Destination, Octets
  <2> QED
    BY <1>2, <2>1, <2>2 DEF Places
<1>9. behind[<<m, next(m)>>] = end
  <2>1. behind[<<m, protocol>>] = ChainBody(p, behind, <<m, protocol>>)
    BY <1>4, <1>8 DEF ChainBy
  <2>2. ChainBody(p, behind, <<m, protocol>>) = end
    BY DEF ChainBody
  <2> QED
    BY <2>1, <2>2
<1>10. 0 \in S
  <2>1. ASSUME NEW i \in N, m - i <= 0 PROVE i = m
    BY <1>2, <1>6, <2>1
  <2> QED
    BY <1>9, <2>1
<1>11. ASSUME NEW j \in Nat, j \in S PROVE j + 1 \in S
  <2>1. ASSUME NEW i \in offsets, m - i <= j + 1 PROVE behind[<<i, next(i)>>] = end
    <3>1. i \in Nat /\ i + 8 <= m /\ i >= 40 /\ next(i) = kind[i]
      BY <1>2, <1>5, <1>6
    <3>2. Byte(p, i) = Byte(h, i) /\ Byte(p, i + 1) = Byte(h, i + 1) /\ Byte(h, i + 1) \in Octets
      <4>1. i \in 0 .. m - 1 /\ i + 1 \in 0 .. m - 1
        BY <1>2, <3>1
      <4> QED
        BY <1>3, <4>1
    <3>3. PICK e \in Nat : e = i + ExtensionSize(h, i) /\ e >= i + 8
      <4>1. PICK b \in Nat : b = Byte(h, i + 1)
        <5>1. Byte(h, i + 1) \in Nat
          <6>1. Byte(h, i + 1) \in Octets
            BY <3>2
          <6> QED
            BY <6>1, OctetIsNat
        <5> QED
          BY <5>1
      <4>2. ExtensionSize(h, i) = (b + 1) * 8
        BY <4>1 DEF ExtensionSize
      <4> QED
        BY <3>1, <4>2
    <3>4. ExtensionSize(p, i) = ExtensionSize(h, i)
      BY <3>2 DEF ExtensionSize
    <3>5. e \in N /\ next(e) = Byte(h, i) /\ e <= m
      BY <1>2, <1>6, <3>3
    <3>6. ExtensionFits(p, i, kind[i])
      <4>1. i + 8 <= n /\ e <= n
        BY <1>2, <3>1, <3>5
      <4>2. ASSUME kind[i] \in {HopByHop, Destination} PROVE OptionsKnown(p, i + 2, e)
        <5>1. AreOptions(h, i + 2, e)
          BY <1>6, <3>3, <4>2
        <5>2. i + 2 \in Nat /\ i + 2 <= e /\ e <= Len(h)
          BY <1>2, <3>1, <3>3, <3>5
        <5>3. OptionsKnown(h \o x, i + 2, e)
          BY <5>1, <5>2, OptionsAre
        <5> QED
          BY <1>1, <5>3
      <4> QED
        BY <1>2, <3>3, <3>4, <4>1, <4>2 DEF ExtensionFits
    <3>7. behind[<<i, kind[i]>>] = ChainBody(p, behind, <<i, kind[i]>>)
      BY <1>4, <1>8, <3>1 DEF ChainBy
    <3>8. ChainBody(p, behind, <<i, kind[i]>>) = behind[<<e, next(e)>>]
      <4>1. kind[i] \in Extensions
        BY <1>6 DEF Extensions
      <4>2. <<e, next(e)>> = <<i + ExtensionSize(p, i), Byte(p, i)>>
        BY <3>2, <3>3, <3>4, <3>5
      <4> HIDE DEF next
      <4> QED
        BY <3>6, <4>1, <4>2 DEF ChainBody
    <3>9. m - e <= j
      BY <2>1, <3>1, <3>3, <3>5
    <3>10. behind[<<e, next(e)>>] = end
      BY <1>11, <3>5, <3>9
    <3> QED
      BY <3>1, <3>7, <3>8, <3>10
  <2>2. ASSUME NEW i \in N, m - i <= j + 1 PROVE behind[<<i, next(i)>>] = end
    BY <1>9, <2>1, <2>2
  <2> QED
    BY <2>2
<1> HIDE DEF S
<1>12. m - 40 \in S
  <2>1. Nat \subseteq S
    BY <1>10, <1>11, Induction
  <2>2. m - 40 \in Nat
    BY <1>2
  <2> QED
    BY <2>1, <2>2
<1>13. behind[<<40, next(40)>>] = end
  <2>1. m - 40 <= m - 40
    BY <1>2
  <2> QED
    BY <1>7, <1>12, <2>1 DEF S
<1> HIDE DEF next
<1>14. Byte(p, 6) = next(40)
  <2>1. 6 \in 0 .. m - 1
    BY <1>2
  <2> QED
    BY <1>3, <1>7, <2>1
<1>15. Ip6Payload(p) = {Behind(p, k) : k \in end}
  <2>1. Len(p) >= 40
    BY <1>2
  <2>2. Ip6Payload(p) = {Behind(p, k) : k \in behind[<<40, Byte(p, 6)>>]}
    BY <1>4, <2>1 DEF ChainBy
  <2>3. behind[<<40, Byte(p, 6)>>] = end
    BY <1>13, <1>14
  <2> QED
    BY <2>2, <2>3
<1>16. Behind(p, m) = x
  BY <1>1, <1>2, BehindIs
<1>17. {Behind(p, k) : k \in end} = {y \in {x} : protocol = UdpProtocol}
  BY <1>16
<1> QED
  BY <1>1, <1>15, <1>17

LEMMA IpIs ==
  ASSUME NEW h \in Seq(Octets), NEW x \in Seq(Octets),
         NEW protocol \in Octets \ Extensions, IsIpHeader(h, protocol)
  PROVE  IpPayload(h \o x) = {y \in {x} : protocol = UdpProtocol}
<1>1. PICK p : p = h \o x
  OBVIOUS
<1>2. PICK m \in Nat, n \in Nat : m = Len(h) /\ n = Len(p) /\ m <= n /\ m >= 20
  <2>1. Len(h) \in Nat /\ Len(p) \in Nat /\ Len(h) <= Len(p)
    <3>1. Len(p) = Len(h) + Len(x) /\ Len(h) \in Nat /\ Len(x) \in Nat
      BY <1>1, BytesOf
    <3> QED
      BY <3>1
  <2>2. Len(h) >= 20
    <3>1. Len(h) \in 20 .. 60 \/ Len(h) >= 40
      <4>1. IsIp4Header(h, protocol) \/ IsIp6Header(h, protocol)
        BY DEF IsIpHeader
      <4>2. IsIp4Header(h, protocol) => Len(h) \in 20 .. 60
        BY DEF IsIp4Header
      <4>3. IsIp6Header(h, protocol) => Len(h) >= 40
        BY DEF IsIp6Header
      <4> QED
        BY <4>1, <4>2, <4>3, Zenon
    <3>2. PICK k \in Nat : k = Len(h)
      BY <2>1
    <3>3. k \in 20 .. 60 \/ k >= 40
      BY <3>1, <3>2, Zenon
    <3> QED
      BY <3>2, <3>3
  <2> QED
    BY <2>1, <2>2
<1>3. Byte(p, 0) = Byte(h, 0) /\ Byte(p, 9) = Byte(h, 9)
  <2>1. 0 \in 0 .. Len(h) - 1 /\ 9 \in 0 .. Len(h) - 1
    BY <1>2
  <2> QED
    BY <1>1, <2>1, BytesOf
<1>4. CASE IsIp4Header(h, protocol)
  <2>0. /\ Len(h) \in 20 .. 60 /\ Len(h) % 4 = 0
        /\ Byte(h, 0) = 64 + Len(h) \div 4 /\ Byte(h, 9) = protocol
    BY <1>4 DEF IsIp4Header
  <2>1. Byte(p, 0) \div 16 = 4 /\ Byte(p, 0) % 16 = m \div 4 /\ 4 * (m \div 4) = m
    <3>0. m \in 20 .. 60 /\ m % 4 = 0
      BY <1>2, <2>0
    <3>1. PICK k \in 5 .. 15 : k = m \div 4 /\ m = 4 * k
      <4>1. m = 4 * (m \div 4) /\ m \div 4 \in 5 .. 15
        BY <3>0
      <4> QED
        BY <4>1
    <3>2. Byte(p, 0) = 64 + k
      BY <1>2, <1>3, <2>0, <3>1
    <3> QED
      BY <3>1, <3>2
  <2>2. Ip4Size(p) = m
    BY <2>1 DEF Ip4Size
  <2>3. Ip4Payload(p) = {y \in {Behind(p, m)} : protocol = UdpProtocol}
    BY <1>2, <1>3, <2>0, <2>2 DEF Ip4Payload
  <2>4. Behind(p, m) = x
    BY <1>1, <1>2, BehindIs
  <2> QED
    BY <1>1, <1>2, <2>1, <2>3, <2>4 DEF IpPayload
<1>5. CASE IsIp6Header(h, protocol)
  <2>1. Byte(h, 0) \div 16 = 6
    BY <1>5 DEF IsIp6Header
  <2>2. Ip6Payload(h \o x) = {y \in {x} : protocol = UdpProtocol}
    BY <1>5, Ip6Is
  <2> QED
    BY <1>1, <1>2, <1>3, <2>1, <2>2 DEF IpPayload
<1> QED
  BY <1>4, <1>5 DEF IsIpHeader

-----------------------------------------------------------------------------
(* RTP over UDP: the headers that are put before a packet of ours.         *)

LEMMA Be16Is ==
  ASSUME NEW n \in Nat
  PROVE  /\ be16(n) \in Seq(Octets) /\ Len(be16(n)) = 2
         /\ n < 65536 => 256 * be16(n)[1] + be16(n)[2] = n
<1>1. PICK a \in Nat, b \in Nat : a = n \div 256 /\ b = n % 256 /\ n = 256 * a + b /\ b < 256
  OBVIOUS
<1>2. a % 256 \in Octets /\ b \in Octets
  BY <1>1 DEF Octets
<1>3. be16(n) = <<a % 256, b>>
  BY <1>1 DEF be16
<1>4. n < 65536 => a % 256 = a
  BY <1>1
<1>5. be16(n)[1] = a % 256 /\ be16(n)[2] = b /\ Len(be16(n)) = 2
  BY <1>3
<1>6. be16(n) \in Seq(Octets)
  BY <1>2, <1>3
<1>7. n < 65536 => 256 * (a % 256) + b = n
  BY <1>1, <1>4
<1> QED
  BY <1>5, <1>6, <1>7

\* s is n octets long; s is a before b, which are m and n octets long.
Chunk(s, n) == n \in Nat /\ s \in Seq(Octets) /\ Len(s) = n
Join(s, a, m, b, n) ==
  /\ Chunk(s, m + n)
  /\ \A i \in 1 .. m : s[i] = a[i]
  /\ \A i \in 1 .. n : s[m + i] = b[i]

LEMMA JoinIs ==
  ASSUME NEW a, NEW m, NEW b, NEW n, Chunk(a, m), Chunk(b, n)
  PROVE  Join(a \o b, a, m, b, n)
<1>1. a \in Seq(Octets) /\ b \in Seq(Octets) /\ m \in Nat /\ n \in Nat /\ Len(a) = m /\ Len(b) = n
  BY DEF Chunk
<1>2. PICK s : s = a \o b
  OBVIOUS
<1>3. /\ s \in Seq(Octets) /\ Len(s) = m + n
      /\ \A i \in 1 .. m : s[i] = a[i]
      /\ \A i \in 1 .. n : s[m + i] = b[i]
  <2>1. /\ s \in Seq(Octets) /\ Len(s) = Len(a) + Len(b)
        /\ \A i \in DOMAIN a : s[i] = a[i]
        /\ \A i \in DOMAIN b : s[Len(a) + i] = b[i]
    <3>1. /\ a \o b \in Seq(Octets) /\ Len(a \o b) = Len(a) + Len(b)
          /\ \A i \in DOMAIN a : (a \o b)[i] = a[i]
          /\ \A i \in DOMAIN b : (a \o b)[Len(a) + i] = b[i]
      <4>1. a \in Seq(Octets) /\ b \in Seq(Octets)
        BY <1>1
      <4> QED
        BY <4>1, Joined
    <3> QED
      BY <1>2, <3>1
  <2>2. DOMAIN a = 1 .. m /\ DOMAIN b = 1 .. n
    BY <1>1
  <2> QED
    BY <1>1, <2>1, <2>2
<1>4. m + n \in Nat
  BY <1>1
<1> QED
  BY <1>2, <1>3, <1>4 DEF Join, Chunk

\* Four pieces, of which two are two octets long.
Join4(s, a, b, n) ==
  Chunk(s, n) /\ s[1] = a[1] /\ s[2] = a[2] /\ s[3] = b[1] /\ s[4] = b[2]

LEMMA Joined4 ==
  ASSUME NEW a, NEW b, NEW c, NEW k, NEW d, NEW l,
         Chunk(a, 2), Chunk(b, 2), Chunk(c, k), Chunk(d, l)
  PROVE  Join4(a \o b \o c \o d, a, b, 4 + k + l)
<1>1. PICK r : r = a \o b
  OBVIOUS
<1>2. Chunk(r, 4) /\ r[1] = a[1] /\ r[2] = a[2] /\ r[3] = b[1] /\ r[4] = b[2]
  <2>1. Join(r, a, 2, b, 2)
    BY <1>1, JoinIs
  <2>2. 1 \in 1 .. 2 /\ 2 \in 1 .. 2 /\ 2 + 1 = 3 /\ 2 + 2 = 4
    OBVIOUS
  <2>3. r[1] = a[1] /\ r[2 + 1] = b[1] /\ r[2] = a[2] /\ r[2 + 2] = b[2] /\ Chunk(r, 2 + 2)
    BY <2>1, <2>2, Zenon DEF Join
  <2> QED
    BY <2>2, <2>3
<1>3. PICK t : t = r \o c
  OBVIOUS
<1>4. Join(t, r, 4, c, k)
  BY <1>2, <1>3, JoinIs
<1>5. PICK s : s = t \o d
  OBVIOUS
<1>6. Join(s, t, 4 + k, d, l)
  <2>1. Chunk(t, 4 + k)
    BY <1>4 DEF Join
  <2> QED
    BY <1>5, <2>1, JoinIs
<1>7. k \in Nat
  BY DEF Chunk
<1>8. ASSUME NEW i \in 1 .. 4 PROVE s[i] = r[i]
  <2>1. i \in 1 .. 4 + k
    BY <1>7
  <2>2. s[i] = t[i]
    BY <1>6, <2>1, Zenon DEF Join
  <2>3. t[i] = r[i]
    BY <1>4, Zenon DEF Join
  <2> QED
    BY <2>2, <2>3
<1>9. s[1] = r[1] /\ s[2] = r[2] /\ s[3] = r[3] /\ s[4] = r[4]
  <2>1. 1 \in 1 .. 4 /\ 2 \in 1 .. 4 /\ 3 \in 1 .. 4 /\ 4 \in 1 .. 4
    OBVIOUS
  <2> QED
    BY <1>8, <2>1, Zenon
<1>10. s = a \o b \o c \o d
  BY <1>1, <1>3, <1>5
<1>11. Chunk(s, 4 + k + l)
  BY <1>6 DEF Join
<1>12. Join4(s, a, b, 4 + k + l)
  BY <1>2, <1>9, <1>11 DEF Join4
<1> QED
  BY <1>10, <1>12

LEMMA UdpHeaderIs ==
  ASSUME NEW port \in SeqNumbers, NEW length \in Nat, NEW u, u = UdpHeader(port, length)
  PROVE  u \in Seq(Octets) /\ Len(u) = 8 /\ rbe16(u, 2) = port
<1>1. PICK a, b, c, d : a = be16(5004) /\ b = be16(port) /\ c = be16(8 + length) /\ d = be16(0)
  OBVIOUS
<1>2. Chunk(a, 2) /\ Chunk(b, 2) /\ Chunk(c, 2) /\ Chunk(d, 2) /\ 256 * b[1] + b[2] = port
  <2>1. port \in Nat /\ port < 65536 /\ 8 + length \in Nat
    BY DEF SeqNumbers
  <2> QED
    BY <1>1, <2>1, Be16Is DEF Chunk
<1>3. u = a \o b \o c \o d
  BY <1>1 DEF UdpHeader
<1>4. Join4(u, a, b, 4 + 2 + 2)
  <2>1. Chunk(a, 2) /\ Chunk(b, 2) /\ Chunk(c, 2) /\ Chunk(d, 2)
    BY <1>2, Zenon
  <2>2. Join4(a \o b \o c \o d, a, b, 4 + 2 + 2)
    BY <2>1, Joined4, Zenon
  <2> QED
    BY <1>3, <2>2, Zenon
<1>5. rbe16(u, 2) = port
  BY <1>2, <1>4 DEF rbe16, Join4
<1> QED
  BY <1>4, <1>5 DEF Join4, Chunk

RtpHeader(r, type, number) ==
  Chunk(r, 12) /\ r[1] = 128 /\ r[2] = type /\ 256 * r[3] + r[4] = number

LEMMA RtpHeaderIs ==
  ASSUME NEW type \in 0 .. 127, NEW number \in SeqNumbers, NEW stamp \in Nat
  PROVE  RtpHeader(SerializeRtp(type, number, stamp, 1), type, number)
<1>1. PICK a, b, c, d : /\ a = <<128, type>> /\ b = be16(number)
                        /\ c = be32(stamp) /\ d = be32(1)
  OBVIOUS
<1>2. Chunk(b, 2) /\ 256 * b[1] + b[2] = number
  <2>1. number \in Nat /\ number < 65536
    BY DEF SeqNumbers
  <2> QED
    BY <1>1, <2>1, Be16Is DEF Chunk
<1>3. ASSUME NEW n \in Nat PROVE Chunk(be32(n), 4)
  <2>1. n \div 65536 \in Nat
    OBVIOUS
  <2>2. PICK high, low : high = be16(n \div 65536) /\ low = be16(n)
    OBVIOUS
  <2>3. Chunk(high, 2) /\ Chunk(low, 2)
    BY <2>1, <2>2, Be16Is DEF Chunk
  <2>4. be32(n) = high \o low
    BY <2>2 DEF be32
  <2>5. Join(be32(n), high, 2, low, 2)
    BY <2>3, <2>4, JoinIs
  <2> QED
    BY <2>5 DEF Join
<1>4. Chunk(c, 4) /\ Chunk(d, 4)
  BY <1>1, <1>3
<1>5. Chunk(a, 2) /\ a[1] = 128 /\ a[2] = type
  <2>1. 128 \in Octets /\ type \in Octets
    BY DEF Octets
  <2>2. a \in Seq(Octets) /\ Len(a) = 2 /\ a[1] = 128 /\ a[2] = type
    BY <1>1, <2>1
  <2> QED
    BY <2>2 DEF Chunk
<1>6. PICK r : r = a \o b \o c \o d
  OBVIOUS
<1>7. Join4(r, a, b, 4 + 4 + 4)
  <2>1. Chunk(a, 2) /\ Chunk(b, 2) /\ Chunk(c, 4) /\ Chunk(d, 4)
    BY <1>2, <1>4, <1>5
  <2>2. Join4(a \o b \o c \o d, a, b, 4 + 4 + 4)
    BY <2>1, Joined4, Zenon
  <2> QED
    BY <1>6, <2>2
<1>8. RtpHeader(r, type, number)
  BY <1>2, <1>5, <1>7 DEF Join4, RtpHeader
<1>9. r = SerializeRtp(type, number, stamp, 1)
  BY <1>1, <1>6 DEF SerializeRtp
<1> QED
  BY <1>8, <1>9

\* What follows the UDP header of packet p.
RtpIs(p, pkt) ==
  /\ pkt \in Seq(Octets) /\ RtpParses(pkt)
  /\ Byte(pkt, 1) % 128 = p.type /\ rbe16(pkt, 2) = p.seq
  /\ Behind(pkt, RtpSize(pkt)) = p.payload

LEMMA RtpIsParsed ==
  ASSUME NEW p, NEW h \in Seq(Octets), p.payload \in Seq(Octets), IsRtpHeader(p, h)
  PROVE  RtpIs(p, h \o p.payload)
<1>1. PICK x, pkt : x = p.payload /\ pkt = h \o x
  OBVIOUS
<1>2. PICK m \in Nat, n \in Nat : m = Len(h) /\ n = Len(pkt) /\ m <= n /\ m >= 12
  <2>1. Len(h) \in Nat /\ Len(pkt) \in Nat /\ Len(h) <= Len(pkt)
    <3>1. Len(pkt) = Len(h) + Len(x) /\ Len(h) \in Nat /\ Len(x) \in Nat
      BY <1>1, BytesOf
    <3> QED
      BY <3>1
  <2> QED
    BY <2>1 DEF IsRtpHeader
<1>3. /\ pkt \in Seq(Octets)
      /\ \A i \in 0 .. m - 1 : Byte(pkt, i) = Byte(h, i)
      /\ \A i \in 0 .. m - 2 : rbe16(pkt, i) = rbe16(h, i)
  BY <1>1, <1>2, BytesOf
<1>4. /\ Byte(pkt, 0) = Byte(h, 0) /\ Byte(pkt, 1) = Byte(h, 1) /\ rbe16(pkt, 2) = rbe16(h, 2)
  <2>1. 0 \in 0 .. m - 1 /\ 1 \in 0 .. m - 1 /\ 2 \in 0 .. m - 2
    BY <1>2
  <2> QED
    BY <1>3, <2>1
<1>5. PICK sources \in 0 .. 7 :
        \/ Byte(h, 0) = 128 + sources /\ m = 12 + 4 * sources
        \/ /\ Byte(h, 0) = 144 + sources /\ m >= 16 + 4 * sources
           /\ m = 16 + 4 * sources + 4 * rbe16(h, 14 + 4 * sources)
  BY <1>2 DEF IsRtpHeader
<1>6. RtpParses(pkt) /\ RtpSize(pkt) = m
  <2>1. CASE Byte(h, 0) = 128 + sources /\ m = 12 + 4 * sources
    <3>1. Sources(pkt) = m /\ ~Extended(pkt)
      <4>1. PICK b \in Nat : b = Byte(pkt, 0) /\ b = 128 + sources
        BY <1>4, <2>1
      <4>2. sources \in {0, 1, 2, 3, 4, 5, 6, 7}
        OBVIOUS
      <4>3. b % 8 = sources
        <5>1. /\ 128 % 8 = 0 /\ 129 % 8 = 1 /\ 130 % 8 = 2 /\ 131 % 8 = 3
              /\ 132 % 8 = 4 /\ 133 % 8 = 5 /\ 134 % 8 = 6 /\ 135 % 8 = 7
          OBVIOUS
        <5>2. /\ sources = 0 => b = 128
              /\ sources = 1 => b = 129
              /\ sources = 2 => b = 130
              /\ sources = 3 => b = 131
              /\ sources = 4 => b = 132
              /\ sources = 5 => b = 133
              /\ sources = 6 => b = 134
              /\ sources = 7 => b = 135
          BY <4>1
        <5> QED
          BY <4>2, <5>1, <5>2
      <4>4. (b \div 16) % 2 = 0
        BY <4>1, <4>2
      <4> QED
        BY <2>1, <4>1, <4>3, <4>4 DEF Sources, Extended
    <3> QED
      BY <1>2, <3>1 DEF RtpParses, RtpSize
  <2>2. CASE /\ Byte(h, 0) = 144 + sources /\ m >= 16 + 4 * sources
             /\ m = 16 + 4 * sources + 4 * rbe16(h, 14 + 4 * sources)
    <3>1. Sources(pkt) = 12 + 4 * sources /\ Extended(pkt)
      <4>1. PICK b \in Nat : b = Byte(pkt, 0) /\ b = 144 + sources
        BY <1>4, <2>2
      <4>2. sources \in {0, 1, 2, 3, 4, 5, 6, 7}
        OBVIOUS
      <4>3. b % 8 = sources
        <5>1. /\ 144 % 8 = 0 /\ 145 % 8 = 1 /\ 146 % 8 = 2 /\ 147 % 8 = 3
              /\ 148 % 8 = 4 /\ 149 % 8 = 5 /\ 150 % 8 = 6 /\ 151 % 8 = 7
          OBVIOUS
        <5>2. /\ sources = 0 => b = 144
              /\ sources = 1 => b = 145
              /\ sources = 2 => b = 146
              /\ sources = 3 => b = 147
              /\ sources = 4 => b = 148
              /\ sources = 5 => b = 149
              /\ sources = 6 => b = 150
              /\ sources = 7 => b = 151
          BY <4>1
        <5> QED
          BY <4>2, <5>1, <5>2
      <4>4. (b \div 16) % 2 = 1
        BY <4>1, <4>2
      <4> QED
        BY <4>1, <4>3, <4>4 DEF Sources, Extended
    <3>2. PICK k \in Nat : k = 14 + 4 * sources /\ k \in 0 .. m - 2
      BY <1>2, <2>2
    <3>3. PICK words : words = rbe16(h, k) /\ words = rbe16(pkt, k)
      BY <1>3, <3>2
    <3>4. m = 16 + 4 * sources + 4 * words
      BY <2>2, <3>2, <3>3
    <3>5. Sources(pkt) + 2 = k
      BY <3>1, <3>2
    <3>6. RtpSize(pkt) = 12 + 4 * sources + 4 + 4 * words
      BY <3>1, <3>3, <3>5 DEF RtpSize
    <3>7. words \in Int
      <4>1. k \in 0 .. m - 1 /\ k + 1 \in 0 .. m - 1
        BY <3>2
      <4>2. Byte(h, k) \in Octets /\ Byte(h, k + 1) \in Octets
        BY <1>2, <4>1, BytesOf
      <4>3. words = 256 * Byte(h, k) + Byte(h, k + 1)
        <5>1. h[k + 1] = Byte(h, k) /\ h[k + 2] = Byte(h, k + 1)
          BY <3>2 DEF Byte
        <5> QED
          BY <3>3, <5>1 DEF rbe16
      <4> QED
        BY <4>2, <4>3 DEF Octets
    <3>8. RtpSize(pkt) = m
      BY <3>4, <3>6, <3>7
    <3> QED
      BY <1>2, <2>2, <3>1, <3>8 DEF RtpParses
  <2> QED
    BY <1>5, <2>1, <2>2
<1>7. Behind(pkt, m) = x
  BY <1>1, <1>2, BehindIs
<1>8. Byte(pkt, 1) % 128 = p.type /\ rbe16(pkt, 2) = p.seq
  BY <1>4 DEF IsRtpHeader
<1>9. RtpIs(p, pkt)
  BY <1>1, <1>3, <1>6, <1>7, <1>8 DEF RtpIs
<1> QED
  BY <1>1, <1>9

-----------------------------------------------------------------------------
(* What write_packet finds in bytes of any kind.                           *)

LEMMA SuffixIs ==
  ASSUME NEW s \in Seq(Octets), NEW k \in 0 .. Len(s)
  PROVE  /\ Behind(s, k) \in Seq(Octets) /\ Len(Behind(s, k)) = Len(s) - k
         /\ \A i \in 1 .. Len(s) - k : Behind(s, k)[i] = s[k + i]
<1>1. PICK n \in Nat : n = Len(s)
  OBVIOUS
<1>2. PICK m \in Nat : m = k /\ m <= n
  BY <1>1
<1>3. PICK l \in Nat : l = n - m
  BY <1>2
<1>4. n = m + l
  BY <1>3
<1>5. m + l <= Len(s)
  BY <1>1, <1>4
<1>6. /\ SubSeq(s, m + 1, m + l) \in Seq(Octets) /\ Len(SubSeq(s, m + 1, m + l)) = l
      /\ \A i \in 1 .. l : SubSeq(s, m + 1, m + l)[i] = s[m + i]
  BY <1>5, PartOf
<1>7. Behind(s, k) = SubSeq(s, m + 1, m + l)
  BY <1>1, <1>2, <1>4 DEF Behind
<1> QED
  BY <1>1, <1>2, <1>3, <1>6, <1>7

LEMMA SuffixOfSuffix ==
  ASSUME NEW s \in Seq(Octets), NEW i \in 0 .. Len(s), NEW j \in 0 .. Len(s) - i
  PROVE  Behind(Behind(s, i), j) = Behind(s, i + j) /\ i + j \in 0 .. Len(s)
<1>1. PICK n \in Nat : n = Len(s) /\ i \in Nat /\ j \in Nat /\ i + j \in 0 .. n
  OBVIOUS
<1>2. PICK a, b, c : a = Behind(s, i) /\ b = Behind(a, j) /\ c = Behind(s, i + j)
  OBVIOUS
<1>3. a \in Seq(Octets) /\ Len(a) = n - i /\ \A l \in 1 .. n - i : a[l] = s[i + l]
  BY <1>1, <1>2, SuffixIs
<1>4. /\ b \in Seq(Octets) /\ Len(b) = n - i - j
      /\ \A l \in 1 .. n - i - j : b[l] = a[j + l]
  <2>1. j \in 0 .. Len(a) /\ a \in Seq(Octets)
    BY <1>1, <1>3
  <2>2. /\ Behind(a, j) \in Seq(Octets) /\ Len(Behind(a, j)) = Len(a) - j
        /\ \A l \in 1 .. Len(a) - j : Behind(a, j)[l] = a[j + l]
    BY <2>1, SuffixIs
  <2> QED
    BY <1>2, <1>3, <2>2
<1>5. /\ c \in Seq(Octets) /\ Len(c) = n - (i + j)
      /\ \A l \in 1 .. n - (i + j) : c[l] = s[(i + j) + l]
  <2>1. PICK k \in 0 .. Len(s) : k = i + j
    BY <1>1
  <2>2. /\ Behind(s, k) \in Seq(Octets) /\ Len(Behind(s, k)) = Len(s) - k
        /\ \A l \in 1 .. Len(s) - k : Behind(s, k)[l] = s[k + l]
    BY SuffixIs
  <2> QED
    BY <1>1, <1>2, <2>1, <2>2
<1>6. Len(b) = Len(c)
  BY <1>1, <1>4, <1>5
<1>7. ASSUME NEW l \in 1 .. Len(b) PROVE b[l] = c[l]
  <2>1. l \in 1 .. n - i - j /\ j + l \in 1 .. n - i /\ l \in 1 .. n - (i + j)
    BY <1>1, <1>4
  <2>2. b[l] = a[j + l] /\ a[j + l] = s[i + (j + l)] /\ c[l] = s[(i + j) + l]
    BY <1>3, <1>4, <1>5, <2>1
  <2>3. i + (j + l) = (i + j) + l
    BY <1>1, <2>1
  <2> QED
    BY <2>2, <2>3
<1>8. b = c
  BY <1>4, <1>5, <1>6, <1>7
<1> QED
  BY <1>1, <1>2, <1>8

LEMMA Sixteen ==
  ASSUME NEW a \in 0 .. 255, NEW b \in 0 .. 255
  PROVE  256 * a + b \in SeqNumbers
<1>1. a \in Nat /\ b \in Nat /\ a <= 255 /\ b <= 255
  OBVIOUS
<1>2. PICK c \in Nat : c = 256 * a
  BY <1>1
<1>3. c <= 65280
  BY <1>1, <1>2
<1>4. c + b \in Nat /\ c + b <= 65535
  BY <1>1, <1>2, <1>3
<1> QED
  BY <1>2, <1>4 DEF SeqNumbers

LEMMA OctetsAt ==
  ASSUME NEW s \in Seq(Octets), NEW k \in Nat
  PROVE  /\ k < Len(s) => Byte(s, k) \in 0 .. 255
         /\ k + 1 < Len(s) => rbe16(s, k) \in SeqNumbers
<1>1. ASSUME k < Len(s) PROVE Byte(s, k) \in 0 .. 255
  <2>1. k + 1 \in 1 .. Len(s)
    BY <1>1
  <2>2. s[k + 1] \in Octets
    BY <2>1
  <2> QED
    BY <2>2 DEF Byte, Octets
<1>2. ASSUME k + 1 < Len(s) PROVE rbe16(s, k) \in SeqNumbers
  <2>1. k + 1 \in 1 .. Len(s) /\ k + 2 \in 1 .. Len(s)
    BY <1>2
  <2>2. s[k + 1] \in Octets /\ s[k + 2] \in Octets
    BY <2>1
  <2>3. PICK a \in 0 .. 255, b \in 0 .. 255 : a = s[k + 1] /\ b = s[k + 2]
    BY <2>2 DEF Octets
  <2>4. rbe16(s, k) = 256 * a + b
    BY <2>3 DEF rbe16
  <2>5. 256 * a + b \in SeqNumbers
    BY Sixteen
  <2> QED
    BY <2>4, <2>5
<1> QED
  BY <1>1, <1>2

LEMMA UdpIsNoExtension == UdpProtocol \in Octets \ Extensions
BY DEF UdpProtocol, Octets, Extensions, HopByHop, Routing, Authentication, Destination

\* x is what is behind some first octets of p.
Ends(p, x) == \E k \in 0 .. Len(p) : x = Behind(p, k)

LEMMA ChainEnds ==
  ASSUME NEW p \in Seq(Octets), Len(p) >= 40, NEW x \in Ip6Payload(p)
  PROVE  Ends(p, x)
<1>1. PICK n \in Nat : n = Len(p) /\ n >= 40
  OBVIOUS
<1>2. PICK behind : ChainBy(p, behind)
  BY ChainDefined
<1> DEFINE S == {j \in Nat : \A at \in Places(p) : n - at[1] <= j => behind[at] \subseteq 0 .. n}
<1>3. ASSUME NEW j \in Nat, NEW at \in Places(p), n - at[1] <= j,
             \A q \in Places(p) : n - q[1] < j => behind[q] \subseteq 0 .. n
      PROVE  behind[at] \subseteq 0 .. n
  <2>1. at[1] \in Nat /\ at[1] <= n
    BY <1>1 DEF Places
  <2>2. behind[at] = ChainBody(p, behind, at)
    BY <1>2 DEF ChainBy
  <2>3. CASE at[2] \notin Extensions
    BY <2>1, <2>2, <2>3 DEF ChainBody
  <2>4. CASE at[2] \in Extensions /\ ExtensionFits(p, at[1], at[2])
    <3>1. PICK q \in Places(p), e \in Nat :
            q = <<at[1] + ExtensionSize(p, at[1]), Byte(p, at[1])>> /\ q[1] = at[1] + e /\ e >= 8
      <4>1. PICK e \in Nat : e = ExtensionSize(p, at[1]) /\ e >= 8
        BY <2>4, NextHeader
      <4> QED
        BY <2>4, <4>1, NextHeader
    <3>2. n - q[1] < j
      BY <1>1, <1>3, <2>1, <3>1
    <3>3. behind[q] \subseteq 0 .. n
      BY <1>3, <3>2
    <3>4. behind[at] = behind[q]
      BY <2>2, <2>4, <3>1 DEF ChainBody
    <3> QED
      BY <3>3, <3>4
  <2>5. CASE at[2] \in Extensions /\ ~ExtensionFits(p, at[1], at[2])
    BY <2>2, <2>5 DEF ChainBody
  <2> QED
    BY <2>3, <2>4, <2>5
<1>4. \A at \in Places(p) : at[1] \in Nat /\ at[1] <= n
  BY <1>1 DEF Places
<1>5. 0 \in S
  <2>1. \A q \in Places(p) : ~(n - q[1] < 0)
    BY <1>1, <1>4
  <2> QED
    BY <1>3, <2>1
<1>6. ASSUME NEW j \in Nat, j \in S PROVE j + 1 \in S
  <2>1. \A q \in Places(p) : n - q[1] < j + 1 => n - q[1] <= j
    BY <1>1, <1>4
  <2>2. \A q \in Places(p) : n - q[1] < j + 1 => behind[q] \subseteq 0 .. n
    BY <1>6, <2>1
  <2>3. j + 1 \in Nat
    OBVIOUS
  <2> QED
    BY <1>3, <2>2, <2>3
<1> HIDE DEF S
<1>7. n \in S
  BY <1>5, <1>6, Induction
<1>8. <<40, Byte(p, 6)>> \in Places(p)
  <2>1. Byte(p, 6) \in 0 .. 255
    <3>1. 6 \in Nat /\ 6 < Len(p)
      BY <1>1
    <3> QED
      BY <3>1, OctetsAt
  <2> QED
    BY <1>1, <2>1 DEF Places
<1>9. behind[<<40, Byte(p, 6)>>] \subseteq 0 .. n
  <2>1. n - 40 <= n
    BY <1>1
  <2> QED
    BY <1>7, <1>8, <2>1 DEF S
<1>10. Ip6Payload(p) = {Behind(p, k) : k \in behind[<<40, Byte(p, 6)>>]}
  BY <1>2 DEF ChainBy
<1>11. PICK k \in behind[<<40, Byte(p, 6)>>] : x = Behind(p, k)
  BY <1>10
<1> QED
  BY <1>1, <1>9, <1>11 DEF Ends

LEMMA IpEnds ==
  ASSUME NEW p \in Seq(Octets), NEW x \in IpPayload(p)
  PROVE  Ends(p, x)
<1>1. Len(p) \in Nat /\ Len(p) >= 20
  BY DEF IpPayload
<1>2. CASE Byte(p, 0) \div 16 = 4
  <2>1. x \in Ip4Payload(p)
    BY <1>1, <1>2 DEF IpPayload
  <2>2. Len(p) >= Ip4Size(p) /\ x = Behind(p, Ip4Size(p))
    BY <2>1 DEF Ip4Payload
  <2>3. PICK b \in 0 .. 255 : b = Byte(p, 0)
    <3>1. 0 \in Nat /\ 0 < Len(p)
      BY <1>1
    <3> QED
      BY <3>1, OctetsAt
  <2>4. Ip4Size(p) \in Nat
    BY <2>3 DEF Ip4Size
  <2> QED
    BY <1>1, <2>2, <2>4 DEF Ends
<1>3. CASE Byte(p, 0) \div 16 = 6
  <2>1. x \in Ip6Payload(p)
    BY <1>1, <1>3 DEF IpPayload
  <2>2. Len(p) >= 40
    BY <1>1, <2>1 DEF Ip6Payload
  <2> QED
    BY <2>1, <2>2, ChainEnds
<1>4. CASE Byte(p, 0) \div 16 # 4 /\ Byte(p, 0) \div 16 # 6
  BY <1>1, <1>4 DEF IpPayload
<1> QED
  BY <1>2, <1>3, <1>4

\* What is found in x, an RTP packet behind a UDP header.
HeaderOf(x) ==
  [port |-> rbe16(x, 2), type |-> Byte(Behind(x, 8), 1) % 128, seq |-> rbe16(Behind(x, 8), 2),
   payload |-> Behind(Behind(x, 8), RtpSize(Behind(x, 8)))]
Readable(x) == Len(x) >= 8 /\ RtpParses(Behind(x, 8))

LEMMA HeadersAre ==
  ASSUME NEW type, NEW link \in Seq(Octets), IsLinkHeader(type, link), NEW bytes \in Seq(Octets)
  PROVE  /\ \A h \in Headers(type, link \o bytes) :
              \E x \in IpPayload(bytes) : Readable(x) /\ h = HeaderOf(x)
         /\ \A x \in IpPayload(bytes) : Readable(x) => HeaderOf(x) \in Headers(type, link \o bytes)
<1> DEFINE IPs  == UNION {IpPayload(ip) : ip \in LinkPayload(type, link \o bytes)}
           UDPs == UNION {UdpPayload(p) : p \in IPs}
           Of(d) == [port |-> d.port, type |-> Byte(d.rtp, 1) % 128, seq |-> rbe16(d.rtp, 2),
                     payload |-> Behind(d.rtp, RtpSize(d.rtp))]
<1>1. LinkPayload(type, link \o bytes) = {bytes}
  BY LinkIs
<1>2. IPs = IpPayload(bytes)
  BY <1>1
<1> HIDE DEF IPs
<1>3. Headers(type, link \o bytes) = {Of(d) : d \in {u \in UDPs : RtpParses(u.rtp)}}
  BY DEF Headers, IPs
<1>4. \A x : UdpPayload(x) = {d \in {[port |-> rbe16(x, 2), rtp |-> Behind(x, 8)]} : Len(x) >= 8}
  BY DEF UdpPayload
<1>5. ASSUME NEW h \in Headers(type, link \o bytes)
      PROVE  \E x \in IpPayload(bytes) : Readable(x) /\ h = HeaderOf(x)
  <2>1. PICK d \in UDPs : RtpParses(d.rtp) /\ h = Of(d)
    BY <1>3
  <2>2. PICK x \in IPs : d \in UdpPayload(x)
    BY <2>1
  <2>3. d = [port |-> rbe16(x, 2), rtp |-> Behind(x, 8)] /\ Len(x) >= 8
    BY <1>4, <2>2
  <2>4. d.port = rbe16(x, 2) /\ d.rtp = Behind(x, 8)
    BY <2>3
  <2>5. Readable(x) /\ h = HeaderOf(x)
    BY <2>1, <2>3, <2>4 DEF Readable, HeaderOf
  <2> QED
    BY <1>2, <2>2, <2>5
<1>6. ASSUME NEW x \in IpPayload(bytes), Readable(x)
      PROVE  HeaderOf(x) \in Headers(type, link \o bytes)
  <2>1. PICK d : d = [port |-> rbe16(x, 2), rtp |-> Behind(x, 8)]
    OBVIOUS
  <2>2. d.port = rbe16(x, 2) /\ d.rtp = Behind(x, 8)
    BY <2>1
  <2>3. d \in UDPs
    BY <1>2, <1>4, <1>6, <2>1 DEF Readable
  <2>4. RtpParses(d.rtp) /\ Of(d) = HeaderOf(x)
    BY <1>6, <2>2 DEF Readable, HeaderOf
  <2> HIDE DEF UDPs, Of
  <2> QED
    BY <1>3, <2>3, <2>4
<1> QED
  BY <1>5, <1>6

LEMMA RtpSizeFits ==
  ASSUME NEW r \in Seq(Octets), RtpParses(r)
  PROVE  RtpSize(r) \in 12 .. Len(r)
<1>1. PICK n \in Nat : n = Len(r) /\ n >= 12 /\ n >= RtpSize(r)
  BY DEF RtpParses
<1>2. PICK b \in 0 .. 255 : b = Byte(r, 0)
  <2>1. 0 \in Nat /\ 0 < Len(r)
    BY <1>1
  <2> QED
    BY <2>1, OctetsAt
<1>3. PICK k \in Nat : k = Sources(r) /\ k >= 12
  BY <1>2 DEF Sources
<1>4. CASE Extended(r)
  <2>1. n >= k + 4
    BY <1>1, <1>3, <1>4 DEF RtpParses
  <2>2. rbe16(r, k + 2) \in SeqNumbers
    BY <1>1, <1>3, <2>1, OctetsAt
  <2>3. PICK w \in Nat : w = rbe16(r, k + 2)
    BY <2>2 DEF SeqNumbers
  <2>4. RtpSize(r) = k + 4 + 4 * w
    BY <1>3, <1>4, <2>3 DEF RtpSize
  <2>5. PICK z \in Nat : z = RtpSize(r) /\ z = k + 4 + 4 * w
    BY <1>3, <2>3, <2>4
  <2>6. z \in 12 .. n
    BY <1>1, <1>3, <2>3, <2>5
  <2> QED
    BY <1>1, <2>5, <2>6
<1>5. CASE ~Extended(r)
  <2>1. RtpSize(r) = k
    BY <1>3, <1>5 DEF RtpSize
  <2> QED
    BY <1>1, <1>3, <2>1
<1> QED
  BY <1>4, <1>5

\* Whatever the bytes are, what is found in them has the ranges of the fields of RTP,
\* and the payload is an ending of them.
LEMMA HeadersTyped ==
  ASSUME NEW type, NEW link \in Seq(Octets), IsLinkHeader(type, link), NEW bytes \in Seq(Octets),
         NEW h \in Headers(type, link \o bytes)
  PROVE  h \in Readings /\ \E k \in 0 .. Len(bytes) : h.payload = Behind(bytes, k)
<1>1. PICK x \in IpPayload(bytes) : Readable(x) /\ h = HeaderOf(x)
  BY HeadersAre
<1>2. PICK n \in Nat : n = Len(bytes)
  OBVIOUS
<1>3. PICK i \in 0 .. n : x = Behind(bytes, i)
  BY <1>1, <1>2, IpEnds DEF Ends
<1>4. x \in Seq(Octets) /\ Len(x) = n - i /\ Len(x) >= 8
  BY <1>1, <1>2, <1>3, SuffixIs DEF Readable
<1>5. PICK r : r = Behind(x, 8)
  OBVIOUS
<1>6. r \in Seq(Octets) /\ Len(r) = n - i - 8 /\ RtpParses(r)
  <2>1. 8 \in 0 .. Len(x)
    BY <1>4
  <2>2. Behind(x, 8) \in Seq(Octets) /\ Len(Behind(x, 8)) = Len(x) - 8
    BY <1>4, <2>1, SuffixIs
  <2> QED
    BY <1>1, <1>4, <1>5, <2>2 DEF Readable
<1>7. PICK s \in 12 .. Len(r) : s = RtpSize(r)
  BY <1>6, RtpSizeFits
<1>8. h.port \in SeqNumbers
  <2>1. rbe16(x, 2) \in SeqNumbers
    BY <1>4, OctetsAt
  <2> QED
    BY <1>1, <2>1 DEF HeaderOf
<1>9. h.type \in 0 .. 127 /\ h.seq \in SeqNumbers
  <2>1. Byte(r, 1) \in 0 .. 255 /\ rbe16(r, 2) \in SeqNumbers
    <3>1. 1 < Len(r) /\ 2 + 1 < Len(r)
      BY <1>2, <1>6, <1>7
    <3> QED
      BY <1>6, <3>1, OctetsAt
  <2>2. Byte(r, 1) % 128 \in 0 .. 127
    <3>1. PICK b \in Nat : b = Byte(r, 1)
      BY <2>1
    <3>2. b % 128 \in 0 .. 127
      OBVIOUS
    <3> QED
      BY <3>1, <3>2
  <2>3. h.type = Byte(r, 1) % 128 /\ h.seq = rbe16(r, 2)
    BY <1>1, <1>5 DEF HeaderOf
  <2> QED
    BY <2>1, <2>2, <2>3
<1>10. h.payload = Behind(r, s)
  BY <1>1, <1>5, <1>7 DEF HeaderOf
<1>11. h.payload = Behind(bytes, i + (8 + s)) /\ i + (8 + s) \in 0 .. n
  <2>1. 8 + s \in 0 .. Len(x) /\ s \in 0 .. Len(x) - 8 /\ 8 \in 0 .. Len(x)
    BY <1>2, <1>3, <1>4, <1>6, <1>7
  <2>2. Behind(r, s) = Behind(x, 8 + s)
    BY <1>4, <1>5, <2>1, SuffixOfSuffix
  <2>3. 8 + s \in 0 .. n - i
    BY <1>4, <2>1
  <2>4. Behind(x, 8 + s) = Behind(bytes, i + (8 + s)) /\ i + (8 + s) \in 0 .. n
    BY <1>2, <1>3, <2>3, SuffixOfSuffix
  <2> QED
    BY <1>10, <2>2, <2>4
<1>12. h.payload \in Seq(Octets)
  BY <1>2, <1>11, SuffixIs
<1>13. h = [port |-> h.port, type |-> h.type, seq |-> h.seq, payload |-> h.payload]
  BY <1>1 DEF HeaderOf
<1>14. h \in Readings
  BY <1>8, <1>9, <1>12, <1>13 DEF Readings
<1> QED
  BY <1>2, <1>11, <1>14

\* An RTP packet p behind a UDP header is taken for what it is.
LEMMA HeaderIs ==
  ASSUME NEW p, NEW x, Len(x) >= 8, rbe16(x, 2) = p.port, RtpIs(p, Behind(x, 8))
  PROVE  Readable(x) /\ HeaderOf(x) = Taken(p)
BY DEF Readable, HeaderOf, RtpIs, Taken

LEMMA SeenIs ==
  ASSUME NEW type, NEW link \in Seq(Octets), IsLinkHeader(type, link), NEW bytes \in Seq(Octets),
         NEW x, IpPayload(bytes) = {x}, NEW p, Len(x) >= 8, rbe16(x, 2) = p.port, RtpIs(p, Behind(x, 8))
  PROVE  Headers(type, link \o bytes) = {Taken(p)}
<1>1. Readable(x) /\ HeaderOf(x) = Taken(p)
  BY HeaderIs
<1>2. PICK H : H = Headers(type, link \o bytes)
  OBVIOUS
<1>3. \A h \in H : h = Taken(p)
  BY <1>1, <1>2, HeadersAre
<1>4. Taken(p) \in H
  BY <1>1, <1>2, HeadersAre
<1>5. H = {Taken(p)}
  BY <1>3, <1>4
<1> QED
  BY <1>2, <1>5

\* Whatever network it goes by, a packet of ours is taken for what it is.
LEMMA OursSeen ==
  ASSUME Typed, Known, NEW p \in Ours
  PROVE  Headers(linktype, network.link \o Bytes(p)) = {Taken(p)}
<1>1. p.type \in 0 .. 127 /\ p.seq \in SeqNumbers /\ p.time \in Nat /\ p.port \in SeqNumbers
  BY OursFacts
<1>2. p.payload \in Seq(Octets)
  BY OursFacts
<1>3. PICK r : r = SerializeRtp(p.type, p.seq, p.time, 1)
  OBVIOUS
<1>4. r \in Seq(Octets) /\ IsRtpHeader(p, r)
  <2>1. RtpHeader(SerializeRtp(p.type, p.seq, p.time, 1), p.type, p.seq)
    BY <1>1, RtpHeaderIs
  <2>2. RtpHeader(r, p.type, p.seq)
    BY <1>3, <2>1
  <2>3. PICK n \in 0 .. 127 : n = p.type
    BY <1>1
  <2>4. Byte(r, 0) = 128 /\ Byte(r, 1) = n /\ rbe16(r, 2) = p.seq /\ Len(r) = 12 /\ r \in Seq(Octets)
    BY <2>2, <2>3 DEF RtpHeader, Chunk, Byte, rbe16
  <2>5. n % 128 = n
    BY <2>3
  <2>6. 0 \in 0 .. 7 /\ 128 + 0 = 128 /\ 12 + 4 * 0 = 12
    OBVIOUS
  <2>7. \E sources \in 0 .. 7 : Byte(r, 0) = 128 + sources /\ Len(r) = 12 + 4 * sources
    BY <2>4, <2>6
  <2> QED
    BY <2>3, <2>4, <2>5, <2>7 DEF IsRtpHeader
<1>5. PICK pkt : pkt = r \o p.payload
  OBVIOUS
<1>6. RtpIs(p, pkt)
  <2>1. RtpIs(p, r \o p.payload)
    BY <1>2, <1>4, RtpIsParsed
  <2> QED
    BY <1>5, <2>1
<1>7. pkt \in Seq(Octets) /\ Len(pkt) \in Nat
  BY <1>6 DEF RtpIs
<1>8. PICK udp : udp = UdpHeader(p.port, Len(pkt))
  OBVIOUS
<1>9. udp \in Seq(Octets) /\ Len(udp) = 8 /\ rbe16(udp, 2) = p.port
  BY <1>1, <1>7, <1>8, UdpHeaderIs
<1>10. PICK link, ip, type : link = network.link /\ ip = network.ip /\ type = linktype
  OBVIOUS
<1>11. link \in Seq(Octets) /\ IsLinkHeader(type, link) /\ ip \in Seq(Octets)
       /\ IsIpHeader(ip, UdpProtocol)
  BY <1>10, NetworksAssumption DEF Known
<1>12. Bytes(p) = ip \o (udp \o pkt)
  <2>1. Bytes(p) = (ip \o udp) \o pkt
    BY <1>3, <1>5, <1>8, <1>10 DEF Bytes
  <2>2. ip \in Seq(Octets) /\ udp \in Seq(Octets) /\ pkt \in Seq(Octets)
    BY <1>7, <1>9, <1>11
  <2>3. (ip \o udp) \o pkt = ip \o (udp \o pkt)
    BY <2>2, ConcatAssociative
  <2> QED
    BY <2>1, <2>3
<1>13. PICK x, y : x = udp \o pkt /\ y = ip \o x
  OBVIOUS
<1>14. x \in Seq(Octets) /\ Len(x) >= 8 /\ rbe16(x, 2) = p.port /\ Behind(x, 8) = pkt
  <2>1. x \in Seq(Octets) /\ Len(x) = 8 + Len(pkt) /\ \A i \in 0 .. Len(udp) - 2 : rbe16(x, i) = rbe16(udp, i)
    BY <1>7, <1>9, <1>13, BytesOf
  <2>2. 2 \in 0 .. Len(udp) - 2
    BY <1>9
  <2>3. Behind(x, 8) = pkt
    BY <1>7, <1>9, <1>13, BehindIs
  <2> QED
    BY <1>7, <1>9, <2>1, <2>2, <2>3
<1>15. y \in Seq(Octets) /\ IpPayload(y) = {x}
  <2>1. IpPayload(ip \o x) = {z \in {x} : UdpProtocol = UdpProtocol}
    BY <1>11, <1>14, IpIs, UdpIsNoExtension
  <2> QED
    BY <1>11, <1>13, <1>14, <2>1, BytesOf
<1>16. RtpIs(p, Behind(x, 8))
  BY <1>6, <1>14
<1>17. Headers(type, link \o y) = {Taken(p)}
  <2>1. /\ link \in Seq(Octets) /\ IsLinkHeader(type, link) /\ y \in Seq(Octets)
        /\ IpPayload(y) = {x} /\ Len(x) >= 8 /\ rbe16(x, 2) = p.port /\ RtpIs(p, Behind(x, 8))
    BY <1>11, <1>14, <1>15, <1>16, Zenon
  <2> QED
    BY <2>1, SeenIs
<1>18. network.link \o Bytes(p) = link \o y
  BY <1>10, <1>12, <1>13, Zenon
<1> QED
  BY <1>10, <1>17, <1>18, Zenon

\* A packet that begins with an IP header.
LEMMA IpAt ==
  ASSUME NEW bytes \in Seq(Octets), NEW i \in 0 .. Len(bytes), NEW protocol \in Octets \ Extensions,
         IsIpHeader(SubSeq(bytes, 1, i), protocol)
  PROVE  IpPayload(bytes) = {y \in {Behind(bytes, i)} : protocol = UdpProtocol}
<1>1. PICK n \in Nat, m \in Nat : n = Len(bytes) /\ m = i /\ m <= n
  OBVIOUS
<1>2. PICK h, x : h = SubSeq(bytes, 1, m) /\ x = SubSeq(bytes, m + 1, n)
  OBVIOUS
<1>3. h \in Seq(Octets)
  <2>1. 0 \in Nat /\ 0 + m <= Len(bytes) /\ 0 + 1 = 1 /\ 0 + m = m
    BY <1>1
  <2>2. SubSeq(bytes, 0 + 1, 0 + m) \in Seq(Octets)
    BY <2>1, PartOf
  <2> QED
    BY <1>2, <2>1, <2>2
<1>4. x = Behind(bytes, i) /\ x \in Seq(Octets)
  BY <1>1, <1>2, SuffixIs DEF Behind
<1>5. bytes = h \o x
  <2>1. 1 \in 1 .. n + 1 /\ m \in 1 - 1 .. n /\ n \in m .. n
    BY <1>1
  <2>2. SubSeq(bytes, 1, m) \o SubSeq(bytes, m + 1, n) = SubSeq(bytes, 1, n)
    BY <1>1, <2>1, ConcatAdjacentSubSeq
  <2>3. SubSeq(bytes, 1, n) = bytes
    BY <1>1, SubSeqFull
  <2> QED
    BY <1>2, <2>2, <2>3
<1>6. IpPayload(h \o x) = {y \in {x} : protocol = UdpProtocol}
  BY <1>1, <1>2, <1>3, <1>4, IpIs
<1> QED
  BY <1>4, <1>5, <1>6

\* UDP to a port, with data behind its header x begins with.
UdpIn(port, data, x) ==
  /\ x \in Seq(Octets) /\ Len(x) >= 8 /\ rbe16(x, 2) = port
  /\ data = Behind(x, 8) /\ data \in Seq(Octets)

LEMMA UdpIs ==
  ASSUME NEW port, NEW bytes \in Seq(Octets), NEW data, IsUdp(port, bytes, data)
  PROVE  \E x : IpPayload(bytes) = {x} /\ UdpIn(port, data, x)
<1>1. PICK n \in Nat : n = Len(bytes)
  OBVIOUS
<1>2. PICK i \in 0 .. n : /\ i + 8 <= n /\ IsIpHeader(SubSeq(bytes, 1, i), UdpProtocol)
                          /\ rbe16(bytes, i + 2) = port /\ Behind(bytes, i + 8) = data
  BY <1>1 DEF IsUdp
<1>3. PICK x : x = Behind(bytes, i)
  OBVIOUS
<1>4. IpPayload(bytes) = {x}
  <2>1. IpPayload(bytes) = {y \in {Behind(bytes, i)} : UdpProtocol = UdpProtocol}
    BY <1>1, <1>2, IpAt, UdpIsNoExtension
  <2> QED
    BY <1>3, <2>1
<1>5. x \in Seq(Octets) /\ Len(x) = n - i /\ Len(x) >= 8 /\ \A l \in 1 .. n - i : x[l] = bytes[i + l]
  <2>1. /\ Behind(bytes, i) \in Seq(Octets) /\ Len(Behind(bytes, i)) = n - i
        /\ \A l \in 1 .. n - i : Behind(bytes, i)[l] = bytes[i + l]
    BY <1>1, SuffixIs
  <2>2. n - i >= 8
    BY <1>1, <1>2
  <2> QED
    BY <1>3, <2>1, <2>2
<1>6. rbe16(x, 2) = port
  <2>1. 3 \in 1 .. n - i /\ 4 \in 1 .. n - i /\ i + 3 = (i + 2) + 1 /\ i + 4 = (i + 2) + 2
    BY <1>1, <1>2
  <2>2. x[3] = bytes[(i + 2) + 1] /\ x[4] = bytes[(i + 2) + 2]
    BY <1>5, <2>1
  <2>3. rbe16(x, 2) = 256 * x[3] + x[4] /\ rbe16(bytes, i + 2) = 256 * bytes[(i + 2) + 1] + bytes[(i + 2) + 2]
    BY DEF rbe16
  <2> QED
    BY <1>2, <2>2, <2>3
<1>7. Behind(x, 8) = data
  <2>1. 8 \in 0 .. n - i
    BY <1>1, <1>2
  <2> QED
    BY <1>1, <1>2, <1>3, <2>1, SuffixOfSuffix
<1>8. data \in Seq(Octets)
  <2>1. 8 \in 0 .. Len(x)
    BY <1>5
  <2> QED
    BY <1>5, <1>7, <2>1, SuffixIs
<1>9. UdpIn(port, data, x)
  BY <1>5, <1>6, <1>7, <1>8 DEF UdpIn
<1> QED
  BY <1>4, <1>9

\* What SeenAsSent says of a packet of another flow.
SeenFor(p, seen) ==
  /\ p.flow = "other" => seen = {Taken(p)}
  /\ p.flow = "udp" => \A h \in seen :
       h.port = p.port /\ \E i \in 12 .. Len(p.payload) : h.payload = Behind(p.payload, i)
  /\ p.flow = "ip" => seen = {}

\* RTP that opusrtp can read.
LEMMA RtpSeen ==
  ASSUME NEW type, NEW link \in Seq(Octets), IsLinkHeader(type, link), NEW bytes \in Seq(Octets),
         NEW p, NEW data, IsUdp(p.port, bytes, data), IsRtp(p, data)
  PROVE  Headers(type, link \o bytes) = {Taken(p)}
<1>1. PICK x : IpPayload(bytes) = {x} /\ UdpIn(p.port, data, x)
  BY UdpIs
<1>2. data \in Seq(Octets) /\ data = Behind(x, 8) /\ Len(x) >= 8 /\ rbe16(x, 2) = p.port
  BY <1>1 DEF UdpIn
<1>3. PICK n \in Nat : n = Len(data)
  BY <1>2
<1>4. PICK j \in 0 .. n : IsRtpHeader(p, SubSeq(data, 1, j)) /\ Behind(data, j) = p.payload
  BY <1>3 DEF IsRtp
<1>5. PICK h : h = SubSeq(data, 1, j)
  OBVIOUS
<1>6. h \in Seq(Octets)
  <2>1. 0 \in Nat /\ j \in Nat /\ 0 + j <= Len(data) /\ 0 + 1 = 1 /\ 0 + j = j
    BY <1>3
  <2>2. SubSeq(data, 0 + 1, 0 + j) \in Seq(Octets)
    BY <1>2, <2>1, PartOf
  <2> QED
    BY <1>5, <2>1, <2>2
<1>7. p.payload \in Seq(Octets)
  BY <1>2, <1>3, <1>4, SuffixIs
<1>8. data = h \o p.payload
  <2>1. 1 \in 1 .. n + 1 /\ j \in 1 - 1 .. n /\ n \in j .. n
    BY <1>3
  <2>2. SubSeq(data, 1, j) \o SubSeq(data, j + 1, n) = SubSeq(data, 1, n)
    BY <1>2, <1>3, <2>1, ConcatAdjacentSubSeq
  <2>3. SubSeq(data, 1, n) = data
    BY <1>2, <1>3, SubSeqFull
  <2>4. p.payload = SubSeq(data, j + 1, n)
    BY <1>3, <1>4 DEF Behind
  <2> QED
    BY <1>5, <2>2, <2>3, <2>4
<1>9. RtpIs(p, data)
  <2>1. RtpIs(p, h \o p.payload)
    BY <1>4, <1>5, <1>6, <1>7, RtpIsParsed
  <2> QED
    BY <1>8, <2>1
<1> QED
  BY <1>1, <1>2, <1>9, SeenIs

\* Any UDP: of it the port is found, and an ending of its data.
LEMMA UdpSeen ==
  ASSUME NEW type, NEW link \in Seq(Octets), IsLinkHeader(type, link), NEW bytes \in Seq(Octets),
         NEW p, IsUdp(p.port, bytes, p.payload), NEW h \in Headers(type, link \o bytes)
  PROVE  h.port = p.port /\ \E i \in 12 .. Len(p.payload) : h.payload = Behind(p.payload, i)
<1>1. PICK x : IpPayload(bytes) = {x} /\ UdpIn(p.port, p.payload, x)
  BY UdpIs
<1>2. Readable(x) /\ h = HeaderOf(x)
  BY <1>1, HeadersAre
<1>3. p.payload \in Seq(Octets) /\ RtpParses(p.payload) /\ rbe16(x, 2) = p.port /\ p.payload = Behind(x, 8)
  BY <1>1, <1>2 DEF UdpIn, Readable
<1>4. RtpSize(p.payload) \in 12 .. Len(p.payload)
  BY <1>3, RtpSizeFits
<1>5. h.port = p.port /\ h.payload = Behind(p.payload, RtpSize(p.payload))
  BY <1>2, <1>3 DEF HeaderOf
<1> QED
  BY <1>4, <1>5

\* IP that carries no UDP header.
LEMMA IpSeen ==
  ASSUME NEW type, NEW link \in Seq(Octets), IsLinkHeader(type, link), NEW bytes \in Seq(Octets),
         NoUdp(bytes)
  PROVE  Headers(type, link \o bytes) = {}
<1>1. SUFFICES ASSUME NEW h \in Headers(type, link \o bytes) PROVE FALSE
  OBVIOUS
<1>2. PICK x \in IpPayload(bytes) : Readable(x)
  BY HeadersAre
<1>3. PICK n \in Nat : n = Len(bytes)
  OBVIOUS
<1>4. PICK i \in 0 .. n :
        \/ \E protocol \in Octets \ (Extensions \cup {UdpProtocol}) :
             IsIpHeader(SubSeq(bytes, 1, i), protocol)
        \/ IsIpHeader(SubSeq(bytes, 1, i), UdpProtocol) /\ n < i + 8
  BY <1>3 DEF NoUdp
<1>5. CASE \E protocol \in Octets \ (Extensions \cup {UdpProtocol}) :
             IsIpHeader(SubSeq(bytes, 1, i), protocol)
  <2>1. PICK protocol \in Octets \ (Extensions \cup {UdpProtocol}) :
          IsIpHeader(SubSeq(bytes, 1, i), protocol)
    BY <1>5
  <2>2. IpPayload(bytes) = {y \in {Behind(bytes, i)} : protocol = UdpProtocol}
    BY <1>3, <2>1, IpAt
  <2> QED
    BY <1>2, <2>1, <2>2
<1>6. CASE IsIpHeader(SubSeq(bytes, 1, i), UdpProtocol) /\ n < i + 8
  <2>1. IpPayload(bytes) = {y \in {Behind(bytes, i)} : UdpProtocol = UdpProtocol}
    BY <1>3, <1>6, IpAt, UdpIsNoExtension
  <2>2. x = Behind(bytes, i)
    BY <1>2, <2>1
  <2>3. Len(x) = n - i
    BY <1>3, <2>2, SuffixIs
  <2>4. Len(x) >= 8
    BY <1>2 DEF Readable
  <2> QED
    BY <1>3, <1>6, <2>3, <2>4
<1> QED
  BY <1>4, <1>5, <1>6

\* What is assumed of a packet of another flow on network n.
OtherOn(n, p, bytes) ==
  /\ n.link \in Seq(Octets) /\ IsLinkHeader(n.linktype, n.link) /\ bytes \in Seq(Octets)
  /\ \/ p.flow = "other" /\ NotOurs(p) /\ \E i \in 0 .. Len(bytes) :
          IsUdp(p.port, bytes, Behind(bytes, i)) /\ IsRtp(p, Behind(bytes, i))
     \/ p.flow = "udp" /\ IsUdp(p.port, bytes, p.payload)
     \/ p.flow = "ip" /\ NoUdp(bytes)
     \/ p.flow = "odd"
  /\ p.flow \in {"udp", "odd"} => \A h \in Headers(n.linktype, n.link \o bytes) : NotOurs(h)

LEMMA OtherIs ==
  ASSUME NEW n \in Networks, NEW p \in DOMAIN n.others
  PROVE  OtherOn(n, p, n.others[p])
BY NetworksAssumption, Zenon DEF OtherOn

LEMMA OthersSeen ==
  ASSUME NEW n \in Networks, NEW p \in DOMAIN n.others
  PROVE  SeenFor(p, Headers(n.linktype, n.link \o n.others[p]))
<1>1. PICK type, link, bytes : type = n.linktype /\ link = n.link /\ bytes = n.others[p]
  OBVIOUS
<1>2. link \in Seq(Octets) /\ IsLinkHeader(type, link) /\ bytes \in Seq(Octets)
  BY <1>1, OtherIs DEF OtherOn
<1>3. CASE p.flow = "other"
  <2>1. PICK data : IsUdp(p.port, bytes, data) /\ IsRtp(p, data)
    BY <1>1, <1>3, OtherIs DEF OtherOn
  <2>2. Headers(type, link \o bytes) = {Taken(p)}
    BY <1>2, <2>1, RtpSeen
  <2> QED
    BY <1>1, <1>3, <2>2 DEF SeenFor
<1>4. CASE p.flow = "udp"
  <2>1. IsUdp(p.port, bytes, p.payload)
    BY <1>1, <1>4, OtherIs DEF OtherOn
  <2>2. \A h \in Headers(type, link \o bytes) :
          h.port = p.port /\ \E i \in 12 .. Len(p.payload) : h.payload = Behind(p.payload, i)
    BY <1>2, <2>1, UdpSeen
  <2> QED
    BY <1>1, <1>4, <2>2 DEF SeenFor
<1>5. CASE p.flow = "ip"
  <2>1. NoUdp(bytes)
    BY <1>1, <1>5, OtherIs DEF OtherOn
  <2>2. Headers(type, link \o bytes) = {}
    BY <1>2, <2>1, IpSeen
  <2> QED
    BY <1>1, <1>5, <2>2 DEF SeenFor
<1>6. CASE p.flow \notin {"other", "udp", "ip"}
  BY <1>6 DEF SeenFor
<1> QED
  BY <1>3, <1>4, <1>5, <1>6

\* A packet of another flow is taken for nothing but what it may be taken for.
LEMMA OthersRead ==
  ASSUME NEW n \in Networks, NEW p \in DOMAIN n.others, NEW h \in Headers(n.linktype, n.link \o n.others[p])
  PROVE  Reads(p, h)
<1>1. PICK type, link, bytes : type = n.linktype /\ link = n.link /\ bytes = n.others[p]
  OBVIOUS
<1>2. link \in Seq(Octets) /\ IsLinkHeader(type, link) /\ bytes \in Seq(Octets)
  BY <1>1, OtherIs DEF OtherOn
<1>3. SeenFor(p, Headers(type, link \o bytes)) /\ h \in Headers(type, link \o bytes)
  BY <1>1, OthersSeen
<1>4. h \in Readings /\ \E k \in 0 .. Len(bytes) : h.payload = Behind(bytes, k)
  BY <1>2, <1>3, HeadersTyped
<1>5. NbSamples(h.payload) \in Nat
  <2>1. \A k \in 0 .. Len(bytes) : NbSamples(Behind(bytes, k)) \in Nat
    BY <1>1, SamplesAssumption
  <2> QED
    BY <1>4, <2>1
<1>6. p.flow = "other" => h = Taken(p)
  BY <1>3 DEF SeenFor
<1>7. p.flow = "udp" => h.port = p.port
  BY <1>3 DEF SeenFor
<1>8. p.flow # "ip"
  BY <1>3 DEF SeenFor
<1>9. NotOurs(h) /\ p.flow # "ours"
  <2>1. CASE p.flow = "other" /\ NotOurs(p)
    <3>1. h = Taken(p)
      BY <1>6, <2>1
    <3>2. h.port = p.port /\ h.type = p.type
      BY <3>1 DEF Taken
    <3> QED
      BY <2>1, <3>2 DEF NotOurs
  <2>2. CASE p.flow \in {"udp", "odd"}
    BY <1>1, <1>3, <2>2, OtherIs DEF OtherOn
  <2> QED
    BY <1>8, <2>1, <2>2, OtherIs DEF OtherOn
<1> QED
  BY <1>4, <1>5, <1>6, <1>7, <1>8, <1>9 DEF Reads

\* And one of ours for what it is.
LEMMA OursRead ==
  ASSUME Typed, NEW p \in Ours
  PROVE  Reads(p, Taken(p))
<1>1. /\ p.flow = "ours" /\ p.port = SendPort /\ p.type = SendType /\ p.seq \in SeqNumbers
      /\ NbSamples(p.payload) \in Nat /\ p.payload \in Seq(Octets)
  BY OursFacts
<1>2. Taken(p) \in Readings /\ Taken(p).payload = p.payload
  BY <1>1 DEF Taken, Readings
<1> QED
  BY <1>1, <1>2 DEF Reads

-----------------------------------------------------------------------------
(* The session.                                                            *)

LEMMA SessionStarts ==
  ASSUME SessionInit
  PROVE  SInv
<1>1. Init /\ CaptureInit /\ net = <<>> /\ network \in Networks /\ network.linktype = linktype
  BY DEF SessionInit
<1>2. IInv
  BY <1>1, InitIInv
<1>3. sent = <<>> /\ time = 0
  BY <1>1 DEF Init
<1>4. Numbered /\ Stamped
  BY <1>3 DEF Numbered, Stamped
<1>5. /\ dst_port \in Ports /\ payload_type \in Types
      /\ lastSeq = 0 /\ granulepos = 0 /\ captured = 0 /\ recorded = <<>> /\ skipped = {}
  BY <1>1 DEF CaptureInit
<1>6. Known
  BY <1>1, <1>5 DEF Known, SeqNumbers
<1>7. Locked
  <2>1. dst_port \in Int /\ payload_type \in Int
    BY <1>5
  <2>2. DOMAIN recorded = {}
    BY <1>5
  <2>3. dst_port = asked.port /\ payload_type = asked.type
    BY <1>1 DEF CaptureInit
  <2>4. ~(asked.type >= 0) => payload_type < 0 \/ payload_type >= DynamicType
    BY <2>1, <2>3
  <2> QED
    BY <1>5, <2>1, <2>2, <2>3, <2>4, Zenon DEF Locked
<1>8. Ascending /\ SkippedLate
  BY <1>5 DEF Ascending, SkippedLate
<1>9. Counted
  <2>1. IsFiniteSet({}) /\ Cardinality({}) = 0
    BY FS_EmptySet
  <2>2. Len(recorded) = 0
    BY <1>5
  <2> QED
    BY <1>5, <2>1, <2>2 DEF Counted
<1>10. Granules
  BY <1>5 DEF Granules
<1> QED
  BY <1>2, <1>4, <1>6, <1>7, <1>8, <1>9, <1>10 DEF SInv, CInv

\* What is sent is one of ours.
LEMMA SentToNet ==
  ASSUME Typed, Typed', Known, SentGrows,
         net' \in IF sent' = sent THEN {net} ELSE {net, Append(net, Datagram(Last(sent')))}
  PROVE  net' \in Seq(Ours')
<1>1. net \in Seq(Ours')
  <2>1. Ours \subseteq Ours' /\ net \in Seq(Ours)
    BY OursGrow DEF Known
  <2> QED
    BY <2>1, SeqWidens
<1>2. CASE net' = net
  BY <1>1, <1>2
<1>3. CASE sent' # sent /\ net' = Append(net, Datagram(Last(sent')))
  <2>1. PICK e : Extends(e)
    BY <1>3 DEF SentGrows
  <2>0. sent \in Seq(SentPacket) /\ Len(sent) \in Nat
    BY DEF Typed
  <2>2. PICK n \in Nat : n = Len(sent)
    BY <2>0
  <2>3. PICK s : s = sent'
    OBVIOUS
  <2>4. s = Append(sent, e) /\ sent \in Seq(SentPacket) /\ e \in SentPacket
    BY <2>1, <2>3, <2>0 DEF Extends
  <2>5. s \in Seq(SentPacket) /\ Len(s) = n + 1 /\ s[n + 1] = e /\ n + 1 \in DOMAIN s
    BY <2>2, <2>4
  <2>6. Last(s) = e
    BY <2>5 DEF Last
  <2>7. PICK d : d = Datagram(e)
    OBVIOUS
  <2>8. d = [port |-> SendPort, type |-> SendType, seq |-> s[n + 1].seq, time |-> s[n + 1].time,
             payload |-> Payload(s[n + 1].samples, TRUE), flow |-> "ours", id |-> n + 1]
    BY <2>2, <2>5, <2>7 DEF Datagram
  <2>9. d \in Ours'
    BY <2>3, <2>5, <2>8 DEF Ours, DatagramOf
  <2>10. net' = Append(net, d)
    BY <1>3, <2>3, <2>6, <2>7
  <2> QED
    BY <1>1, <2>9, <2>10, AppendProperties
<1> QED
  BY <1>2, <1>3

LEMMA SenderSteps ==
  ASSUME SInv, SenderStep \/ ClockStep
  PROVE  SInv'
<1>1. IInv /\ Numbered /\ Stamped /\ CInv /\ Typed /\ Known
  BY DEF SInv, IInv, CInv
<1>2. [Next]_vars /\ UNCHANGED <<capture, network>>
  BY DEF SenderStep, ClockStep, Next
<1>3. IInv' /\ Typed'
  <2>1. IInv'
    BY <1>1, <1>2, InvariantStep
  <2> QED
    BY <2>1 DEF IInv
<1>4. SentGrows
  BY <1>1, <1>2, StepExtends
<1>5. net' \in Seq(Ours')
  <2>1. CASE SenderStep
    BY <1>1, <1>3, <1>4, <2>1, SentToNet DEF SenderStep
  <2>2. CASE ClockStep
    <3>1. net' = net /\ sent' = sent
      BY <2>2 DEF ClockStep, Tick, rtp
    <3> QED
      BY <1>1, <1>3, <1>4, <3>1, SentToNet
  <2> QED
    BY <2>1, <2>2
<1>6. Numbered'
  BY <1>1, <1>3, <1>4, NumbersStep
<1>7. Stamped'
  BY <1>1, <1>4, StampsStep
<1>8. CInv'
  BY <1>1, <1>2, <1>4, <1>5, QuietStep
<1> QED
  BY <1>3, <1>6, <1>7, <1>8 DEF SInv

LEMMA SenderWaits ==
  ASSUME SInv, UNCHANGED <<vars, network>>
  PROVE  IInv' /\ Numbered' /\ Stamped'
<1>1. [Next]_vars
  OBVIOUS
<1>2. IInv'
  BY <1>1, InvariantStep DEF SInv
<1>3. UNCHANGED <<sent, seq, time>>
  BY DEF vars, rtp
<1>4. Numbered' /\ Stamped'
  BY <1>3 DEF SInv, Numbered, NotWrapped, Stamped
<1> QED
  BY <1>2, <1>4

LEMMA DeliveredStep ==
  ASSUME SInv, Delivered
  PROVE  SInv'
<1>1. IInv /\ Numbered /\ Stamped /\ CInv /\ Typed /\ Clock
  BY DEF SInv, IInv
<1>2. /\ captured < Limit /\ captured' = captured + 1
      /\ UNCHANGED <<out, linktype, asked, vars, network>> /\ net' \in Seq(Ours)
  BY DEF Delivered
<1>3. IInv' /\ Numbered' /\ Stamped'
  BY <1>2, SenderWaits
<1>4. CInv'
  <2>1. CASE Dropped
    BY <1>1, <1>2, <2>1, DropStep
  <2>2. ASSUME NEW p \in Ours \cup Others, NEW h, Reads(p, h), SkipOutOfSequence(p, h)
        PROVE  CInv'
    BY <1>1, <1>2, <2>2, SkipStep
  <2>3. ASSUME NEW p \in Ours \cup Others, NEW h, Reads(p, h), Record(p, h)
        PROVE  CInv'
    BY <1>1, <1>2, <2>3, RecordStep
  <2> QED
    BY <2>1, <2>2, <2>3 DEF Delivered, Processed
<1> QED
  BY <1>3, <1>4 DEF SInv

LEMMA RemoveKeeps ==
  ASSUME NEW S, NEW s \in Seq(S), NEW i \in DOMAIN s
  PROVE  RemoveAt(s, i) \in Seq(S)
<1>1. PICK n \in Nat : n = Len(s) /\ i \in 1 .. n
  OBVIOUS
<1>2. \A k \in 1 .. n : s[k] \in S
  BY <1>1
<1>3. SubSeq(s, 1, i - 1) \in Seq(S)
  <2>1. 1 \in Int /\ i - 1 \in Int /\ \A k \in 1 .. i - 1 : s[k] \in S
    BY <1>1, <1>2
  <2> QED
    BY <2>1, SubSeqProperties
<1>4. SubSeq(s, i + 1, n) \in Seq(S)
  <2>1. i + 1 \in Int /\ n \in Int /\ \A k \in i + 1 .. n : s[k] \in S
    BY <1>1, <1>2
  <2> QED
    BY <2>1, SubSeqProperties
<1>5. PICK a, b : a = SubSeq(s, 1, i - 1) /\ b = SubSeq(s, i + 1, n)
  OBVIOUS
<1>6. a \o b \in Seq(S)
  BY <1>3, <1>4, <1>5
<1> QED
  BY <1>1, <1>5, <1>6 DEF RemoveAt

LEMMA CaptureSteps ==
  ASSUME SInv, Deliver \/ DeliverOther
  PROVE  Delivered
<1>1. Typed /\ Known
  BY DEF SInv, IInv, CInv
<1>2. network \in Networks /\ linktype = network.linktype /\ net \in Seq(Ours)
  BY <1>1 DEF Known
<1>3. CASE Deliver
  <2>1. PICK i \in DOMAIN net : /\ WritePacket(net[i], network.link \o Bytes(net[i]))
                                /\ net' \in {net, RemoveAt(net, i)}
                                /\ UNCHANGED <<vars, network>>
    BY <1>3 DEF Deliver
  <2>2. PICK p \in Ours : p = net[i]
    BY <1>2, <2>1
  <2>3. Headers(linktype, network.link \o Bytes(p)) = {Taken(p)}
    BY <1>1, <2>2, OursSeen
  <2>4. Reads(p, Taken(p))
    BY <1>1, <2>2, OursRead
  <2>5. Heard(p, network.link \o Bytes(p))
    BY <2>2, <2>3, <2>4 DEF Heard
  <2>6. net' \in Seq(Ours)
    BY <1>2, <2>1, RemoveKeeps
  <2> QED
    BY <2>1, <2>2, <2>5, <2>6, WriteDelivers
<1>4. CASE DeliverOther
  <2>1. PICK p \in Others :
          WritePacket(p, network.link \o network.others[p]) /\ UNCHANGED <<vars, network, net>>
    BY <1>4 DEF DeliverOther, Others
  <2>2. \A h \in Headers(linktype, network.link \o network.others[p]) : Reads(p, h)
    BY <1>2, <2>1, OthersRead DEF Others
  <2>3. Heard(p, network.link \o network.others[p])
    BY <2>2 DEF Heard
  <2> QED
    BY <1>2, <2>1, <2>3, WriteDelivers
<1> QED
  BY <1>3, <1>4

LEMMA SessionStep ==
  ASSUME SInv, [SessionNext]_allvars
  PROVE  SInv'
<1>1. CASE SenderStep \/ ClockStep
  BY <1>1, SenderSteps
<1>2. CASE Deliver \/ DeliverOther
  BY <1>2, CaptureSteps, DeliveredStep
<1>3. CASE UNCHANGED allvars
  <2>1. UNCHANGED <<vars, network, capture, net>>
    BY <1>3 DEF allvars
  <2>2. IInv' /\ Numbered' /\ Stamped'
    BY <2>1, SenderWaits
  <2>3. Typed /\ CInv /\ net \in Seq(Ours)
    BY DEF SInv, IInv, CInv, Known
  <2>4. SentGrows /\ net' \in Seq(Ours')
    BY <2>1, <2>3, SameOurs DEF SentGrows
  <2>5. CInv'
    BY <2>1, <2>3, <2>4, QuietStep
  <2> QED
    BY <2>2, <2>5 DEF SInv
<1> QED
  BY <1>1, <1>2, <1>3 DEF SessionNext

-----------------------------------------------------------------------------
(* The theorems.                                                           *)

LEMMA SessionInvariant == SessionSpec => []SInv
<1>1. SessionInit => SInv
  BY SessionStarts
<1>2. SInv /\ [SessionNext]_allvars => SInv'
  BY SessionStep
<1> QED
  BY <1>1, <1>2, PTL DEF SessionSpec

\* Nothing the capture does leaves the range of its variables, whatever bytes come;
\* what it locks onto is a port and a type of the command line or as RTP has them, and
\* each packet it records or skips is one that libpcap delivered.
THEOREM SessionTypeCorrect == SessionSpec => []SessionTypeOK
<1>1. ASSUME SInv PROVE SessionTypeOK
  <2>1. TypeOK /\ Typed /\ Known /\ Locked /\ Counted
    BY <1>1 DEF SInv, IInv, Typed, CInv
  <2>2. captured \in 0 .. Limit /\ Len(recorded) + Cardinality(skipped) <= captured
    BY <2>1 DEF Counted
  <2>3. ASSUME NEW i \in DOMAIN net PROVE net[i].seq \in SeqNumbers
    <3>1. net[i] \in Ours
      BY <2>1 DEF Known
    <3> QED
      BY <2>1, <3>1, OursFacts
  <2> QED
    BY <2>1, <2>2, <2>3 DEF SessionTypeOK, Known, Locked
<1> QED
  BY <1>1, SessionInvariant, PTL

\* "lock onto first plausible port and payload_type": whatever comes first, everything
\* recorded was taken for a packet of one port and one payload type, those asked for
\* or, without --type, a dynamic type; RTP as opusrtp can read it is recorded as it
\* is, UDP only if it came to that port, and other IP never.
THEOREM OneFlowAlways == SessionSpec => []OneFlow
<1>1. ASSUME SInv PROVE OneFlow
  <2>1. Typed /\ Known /\ Locked
    BY <1>1 DEF SInv, IInv, CInv
  <2> SUFFICES ASSUME NEW i \in DOMAIN recorded, NEW p, NEW as,
                      p = recorded[i].packet, as = recorded[i].as
               PROVE  /\ as.port = dst_port /\ as.type = payload_type
                      /\ asked.port >= 0 => dst_port = asked.port
                      /\ IF asked.type >= 0 THEN payload_type = asked.type
                         ELSE payload_type >= DynamicType
                      /\ p.flow \in {"ours", "other"} => as = Taken(p)
                      /\ p.flow = "udp" => p.port = dst_port
                      /\ p.flow # "ip"
    BY DEF OneFlow
  <2>2. as.port = dst_port /\ as.type = payload_type
    BY <2>1 DEF Locked
  <2>3. as \in Readings /\ Reads(p, as)
    BY <2>1, RecordedFacts
  <2>4. asked.port >= 0 => dst_port = asked.port
    BY <2>1 DEF Locked
  <2>5. payload_type >= 0
    BY <2>2, <2>3, ReadingFacts
  <2>6. payload_type \in Int
    BY <2>1 DEF Locked
  <2>7. CASE asked.type >= 0
    BY <2>1, <2>2, <2>3, <2>4, <2>7 DEF Locked, Reads
  <2>8. CASE ~(asked.type >= 0)
    <3>1. payload_type >= DynamicType
      BY <2>1, <2>5, <2>6, <2>8 DEF Locked
    <3> QED
      BY <2>2, <2>3, <2>4, <2>8, <3>1 DEF Reads
  <2> QED
    BY <2>7, <2>8
<1> QED
  BY <1>1, SessionInvariant, PTL

\* By any link and behind any IP header of the kinds named, with options, extension
\* headers or 802.1Q tags, a packet of RTP that opusrtp can read is taken for what was
\* sent; of other UDP the port is found and an ending of its data; other IP is refused.
THEOREM SeenAsSentAlways == SessionSpec => []SeenAsSent
<1>1. ASSUME SInv PROVE SeenAsSent
  <2>1. Typed /\ Known
    BY <1>1 DEF SInv, IInv, CInv
  <2>2. network \in Networks /\ linktype = network.linktype
    BY <2>1 DEF Known
  <2>3. ASSUME NEW i \in DOMAIN net
        PROVE  Headers(linktype, network.link \o Bytes(net[i])) = {Taken(net[i])}
    <3>1. PICK p \in Ours : p = net[i]
      BY <2>1 DEF Known
    <3> QED
      BY <2>1, <3>1, OursSeen
  <2>4. ASSUME NEW p \in DOMAIN network.others
        PROVE  SeenFor(p, Headers(linktype, network.link \o network.others[p]))
    BY <2>2, OthersSeen
  <2> QED
    BY <2>3, <2>4 DEF SeenAsSent, SeenFor
<1> QED
  BY <1>1, SessionInvariant, PTL

\* Up to the wrap-around of the 16-bit numbers, the recording plays in the order of
\* sending, whatever the network loses, duplicates and reorders.
THEOREM InSequenceAlways == SessionSpec => [](NotWrapped => InSequence)
<1>1. ASSUME SInv, NotWrapped PROVE InSequence
  <2>1. Typed /\ Known /\ Ascending /\ Numbered
    BY <1>1 DEF SInv, IInv, CInv
  <2> SUFFICES ASSUME NEW i \in DOMAIN recorded, NEW j \in DOMAIN recorded, i < j,
                      recorded[i].packet.flow = "ours", recorded[j].packet.flow = "ours"
               PROVE  recorded[i].packet.id <= recorded[j].packet.id
    BY DEF InSequence
  <2>2. PICK p \in Ours, q \in Ours : p = recorded[i].packet /\ q = recorded[j].packet
    <3>1. recorded[i].packet \in Ours \cup Others /\ recorded[j].packet \in Ours \cup Others
      BY <2>1, RecordedFacts
    <3>2. recorded[i].packet \in Ours /\ recorded[j].packet \in Ours
      BY <2>1, <3>1, PacketFacts
    <3> QED
      BY <3>2
  <2>3. p.seq <= q.seq
    <3>1. recorded[i].as.seq = p.seq /\ recorded[j].as.seq = q.seq
      BY <2>1, <2>2, RecordedFacts, ReadAsOurs
    <3>2. recorded[i].as.seq <= recorded[j].as.seq
      BY <2>1 DEF Ascending
    <3> QED
      BY <3>1, <3>2
  <2>4. PICK k \in Nat, l \in Nat : /\ k = p.id /\ l = q.id /\ k \in DOMAIN sent /\ l \in DOMAIN sent
                                    /\ p.seq = sent[k].seq /\ q.seq = sent[l].seq
    <3>1. p.id \in Nat /\ q.id \in Nat
      BY <2>1, OursFacts
    <3> QED
      BY <2>1, <3>1, OursFacts
  <2>5. PICK f \in Nat : f = sent[1].seq /\ sent[k].seq = f + (k - 1) /\ sent[l].seq = f + (l - 1)
    <3>1. DOMAIN sent = 1 .. Len(sent) /\ Len(sent) \in Nat
      BY <2>1, SentFacts
    <3>2. 1 \in DOMAIN sent
      BY <2>4, <3>1
    <3>3. sent[1].seq \in Nat
      BY <2>1, <3>2, SentFacts
    <3>4. sent[k].seq = sent[1].seq + (k - 1) /\ sent[l].seq = sent[1].seq + (l - 1)
      BY <1>1, <2>1, <2>4 DEF Numbered
    <3> QED
      BY <3>3, <3>4
  <2>6. k <= l
    BY <2>3, <2>4, <2>5
  <2> QED
    BY <2>2, <2>4, <2>6
<1> QED
  BY <1>1, SessionInvariant, PTL

\* Up to the wrap-around, a packet of ours that is called "out-of-sequence" is late:
\* one that was sent after it was recorded before.
THEOREM SkippedLateAlways == SessionSpec => [](NotWrapped => SkippedAreLate)
<1>1. ASSUME SInv, NotWrapped PROVE SkippedAreLate
  BY <1>1 DEF SInv, CInv, SkippedLate, SkippedAreLate, Later
<1> QED
  BY <1>1, SessionInvariant, PTL

\* As long as the recording holds every packet once, from the first on, the granule
\* positions it counts up are the RTP timestamps the sender counted up.
THEOREM ClockAgreesAlways == SessionSpec => []ClockAgrees
<1>1. ASSUME SInv PROVE ClockAgrees
  BY <1>1 DEF SInv, CInv, Granules, Gapless, ClockAgrees
<1> QED
  BY <1>1, SessionInvariant, PTL
=============================================================================
