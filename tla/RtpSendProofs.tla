--------------------------- MODULE RtpSendProofs ---------------------------
(***************************************************************************)
(* That opusrtp sends the audio packets of the first Opus stream in order, *)
(* all of them if the file is whole, and none before its time: for files   *)
(* of any length, cut into reads in any way, and a clock that goes on at   *)
(* any moment.                                                             *)
(***************************************************************************)
EXTENDS RtpSend, TLAPS

USE SecondAssumption

SentPacket == [seq : SeqNumbers, time : Nat, samples : 0 .. Second - 1, id : Nat, at : Nat]

Typed ==
  /\ TypeOK /\ file \in Files
  /\ stream \in Seq(Content \cup {Gap})
  /\ sent \in Seq(SentPacket)
  /\ target \in [sec : Nat, nsec : 0 .. Second - 1]

\* The time at which the slot begins that wait_for_time_slot waited for last.
Target == target.sec * Second + target.nsec

\* Packets whose slots were waited for.
Waited == IF pc = "wait" THEN Len(sent) - 1 ELSE Len(sent)

Clock ==
  /\ sent # <<>> => time = sent[Len(sent)].time
  /\ \A k \in 2 .. Len(sent) : sent[k].time = sent[k - 1].time + sent[k].samples
  /\ pc = "wait" => sent # <<>>
  /\ pc = "sleep" => started
  /\ started <=> Waited > 0
  /\ started => base + sent[Waited].time - sent[1].time = Target
  /\ started /\ pc # "sleep" => now >= Target
  /\ \A k \in 2 .. Len(sent) : sent[k - 1].time - sent[1].time <= sent[k].at - base

\* The packets on the pages of the stream that ogg_sync_pageout has taken out.
Page(i) == file[i].kind = "page" /\ file[i].serial = serial
TakenOut == {p \in Content : \E i \in 1 .. taken :
               Page(i) /\ \E l \in DOMAIN file[i].packets : p = file[i].packets[l]}

\* Where the stream begins.
FirstOpus(i) == i \in Begins /\ \A j \in Begins : i <= j

Origin ==
  /\ eof => got = Len(file)
  /\ headers = 0 => stream = <<>> /\ sent = <<>> /\ \A j \in Begins : j > taken
  /\ headers > 0 => \E i \in 1 .. taken : FirstOpus(i) /\ serial = file[i].serial
  /\ pc \in {"packets", "wait", "sleep"} => headers > 0
  /\ \A k \in DOMAIN stream : stream[k] = Gap \/ stream[k] \in TakenOut
  /\ \A k \in DOMAIN sent : \E p \in TakenOut : /\ p.kind = "audio"
                                                /\ p.id = sent[k].id /\ p.n = sent[k].samples

Order ==
  /\ \A j, k \in DOMAIN sent : j < k => sent[j].id < sent[k].id
  /\ \A j, k \in DOMAIN stream :
       j < k /\ stream[j] # Gap /\ stream[k] # Gap => stream[j].id < stream[k].id
  /\ \A j \in DOMAIN sent, k \in DOMAIN stream : stream[k] # Gap => sent[j].id < stream[k].id

\* In a whole file with an Opus stream: no gap, no error, and what is not sent of the
\* pages taken out waits in the ogg_stream_state.
SentIds == {sent[k].id : k \in DOMAIN sent}
Waiting == {stream[k] : k \in DOMAIN stream}
Handled == \A p \in TakenOut : p.kind = "audio" => p.id \in SentIds \/ p \in Waiting
AllHandled ==
  /\ ret = 0
  /\ headers = 0 => taken = 0
  /\ headers > 0 => pageno = taken /\ serial = file[1].serial
  /\ \A k \in DOMAIN stream : stream[k] # Gap
  /\ pc \in {"read", "pages", "done"} => stream = <<>>
  /\ pc = "done" => taken = Len(file)
  /\ Handled
Complete == Whole /\ Begins # {} => AllHandled

IInv == Typed /\ Clock /\ Origin /\ Order /\ Complete

-----------------------------------------------------------------------------
(* Sequences, and what the files are.                                      *)

LEMMA HeadAndTail ==
  ASSUME NEW S, NEW s \in Seq(S), s # <<>>
  PROVE  /\ Head(s) \in S /\ Head(s) = s[1] /\ 1 \in DOMAIN s
         /\ Tail(s) \in Seq(S) /\ Len(Tail(s)) = Len(s) - 1
         /\ \A k \in DOMAIN Tail(s) : k + 1 \in DOMAIN s /\ Tail(s)[k] = s[k + 1]
         /\ \A k \in DOMAIN s : k = 1 \/ (k - 1 \in DOMAIN Tail(s) /\ Tail(s)[k - 1] = s[k])
OBVIOUS

LEMMA Joined ==
  ASSUME NEW S, NEW s \in Seq(S), NEW t \in Seq(S)
  PROVE  /\ s \o t \in Seq(S) /\ Len(s \o t) = Len(s) + Len(t)
         /\ \A k \in DOMAIN s : k \in DOMAIN (s \o t) /\ (s \o t)[k] = s[k]
         /\ \A k \in DOMAIN t : Len(s) + k \in DOMAIN (s \o t) /\ (s \o t)[Len(s) + k] = t[k]
         /\ \A k \in DOMAIN (s \o t) : k \in DOMAIN s \/ k - Len(s) \in DOMAIN t
<1>1. /\ s \o t \in Seq(S) /\ Len(s \o t) = Len(s) + Len(t) /\ Len(s) \in Nat /\ Len(t) \in Nat
      /\ DOMAIN s = 1 .. Len(s) /\ DOMAIN t = 1 .. Len(t)
      /\ DOMAIN (s \o t) = 1 .. Len(s) + Len(t)
  OBVIOUS
<1>2. \A k \in 1 .. Len(s) + Len(t) : (s \o t)[k] = IF k <= Len(s) THEN s[k] ELSE t[k - Len(s)]
  OBVIOUS
<1>3. ASSUME NEW k \in DOMAIN s PROVE k \in DOMAIN (s \o t) /\ (s \o t)[k] = s[k]
  BY <1>1, <1>2
<1>4. ASSUME NEW k \in DOMAIN t
      PROVE  Len(s) + k \in DOMAIN (s \o t) /\ (s \o t)[Len(s) + k] = t[k]
  <2>1. k \in 1 .. Len(t) /\ Len(s) + k \in 1 .. Len(s) + Len(t) /\ (Len(s) + k) - Len(s) = k
        /\ ~(Len(s) + k <= Len(s))
    BY <1>1
  <2>2. (s \o t)[Len(s) + k] = t[(Len(s) + k) - Len(s)]
    BY <1>2, <2>1
  <2> QED
    BY <1>1, <2>1, <2>2
<1>5. ASSUME NEW k \in DOMAIN (s \o t) PROVE k \in DOMAIN s \/ k - Len(s) \in DOMAIN t
  BY <1>1
<1> QED
  BY <1>1, <1>3, <1>4, <1>5

LEMMA Added ==
  ASSUME NEW S, NEW s \in Seq(S), NEW e \in S
  PROVE  /\ Append(s, e) \in Seq(S) /\ Len(Append(s, e)) = Len(s) + 1 /\ Append(s, e) # <<>>
         /\ \A k \in DOMAIN s : k \in DOMAIN Append(s, e) /\ Append(s, e)[k] = s[k]
         /\ Append(s, e)[Len(s) + 1] = e
         /\ \A k \in DOMAIN Append(s, e) : k \in DOMAIN s \/ k = Len(s) + 1
OBVIOUS

LEMMA GapIsNone == Gap \notin Content
BY DEF Gap, Content

LEMMA FileFacts ==
  ASSUME NEW f \in Files
  PROVE  /\ f \in Seq(Element) /\ Len(f) \in Nat /\ DOMAIN f = 1 .. Len(f)
         /\ \A i \in DOMAIN f : f[i].kind = "page" =>
              /\ f[i].serial \in Nat /\ f[i].pageno \in Nat /\ f[i].packets \in Seq(Content)
<1>1. f \in Seq(Element) /\ Len(f) \in Nat /\ DOMAIN f = 1 .. Len(f)
  BY FilesAssumption
<1>2. ASSUME NEW i \in DOMAIN f, f[i].kind = "page"
      PROVE  f[i].serial \in Nat /\ f[i].pageno \in Nat /\ f[i].packets \in Seq(Content)
  <2>1. f[i] \in Element
    BY <1>1
  <2>2. f[i] \in [kind : {"page"}, serial : Nat, bos : BOOLEAN, pageno : Nat, packets : Seq(Content)]
    BY <1>2, <2>1 DEF Element
  <2> QED
    BY <2>2
<1> QED
  BY <1>1, <1>2

LEMMA WireFits == \A n \in Nat : Wire(n) \in SeqNumbers
BY DEF Wire, SeqNumbers

LEMMA NextSeqFits == Typed /\ Send => seq' \in SeqNumbers
<1> SUFFICES ASSUME Typed, Send PROVE seq' \in SeqNumbers
  OBVIOUS
<1>1. seq + 1 \in Nat
  BY DEF Typed, TypeOK, SeqNumbers
<1>2. seq' = Wire(seq + 1)
  BY DEF Send
<1> QED
  BY <1>1, <1>2, WireFits

LEMMA NextTimeFits ==
  ASSUME Typed, Send, NEW n \in Nat, n = Head(stream).n
  PROVE  time' \in Nat /\ now \in Nat
<1>1. time \in Nat /\ now \in Nat
  BY DEF Typed, TypeOK
<1>2. time' = time + n
  BY DEF Send
<1> QED
  BY <1>1, <1>2

LEMMA Divided ==
  ASSUME NEW n \in Nat
  PROVE  /\ n \div Second \in Nat /\ n % Second \in 0 .. Second - 1
         /\ (n \div Second) * Second + (n % Second) = n
BY SecondAssumption

LEMMA NormalKeeps ==
  ASSUME NEW t \in [sec : Nat, nsec : Nat], t.nsec < 2 * Second
  PROVE  /\ Normal(t) \in [sec : Nat, nsec : 0 .. Second - 1]
         /\ Normal(t).sec * Second + Normal(t).nsec = t.sec * Second + t.nsec
<1>1. CASE t.nsec >= Second
  <2>1. Normal(t) = [sec |-> t.sec + 1, nsec |-> t.nsec - Second]
    BY <1>1 DEF Normal
  <2>2. Normal(t).sec = t.sec + 1 /\ Normal(t).nsec = t.nsec - Second
    BY <2>1
  <2>3. (t.sec + 1) * Second = t.sec * Second + Second /\ t.sec * Second \in Nat
    OBVIOUS
  <2>4. Normal(t) \in [sec : Nat, nsec : 0 .. Second - 1]
    BY <1>1, <2>1
  <2> QED
    BY <2>2, <2>3, <2>4
<1>2. CASE ~(t.nsec >= Second)
  <2>1. Normal(t) = t
    BY <1>2 DEF Normal
  <2>2. t = [sec |-> t.sec, nsec |-> t.nsec] /\ t.nsec \in 0 .. Second - 1 /\ t.sec \in Nat
    BY <1>2
  <2>3. t \in [sec : Nat, nsec : 0 .. Second - 1]
    BY <2>2
  <2> QED
    BY <2>1, <2>3
<1> QED
  BY <1>1, <1>2

LEMMA LastOf ==
  ASSUME sent \in Seq(SentPacket), sent # <<>>
  PROVE  /\ Len(sent) \in Nat /\ Len(sent) >= 1 /\ Len(sent) \in DOMAIN sent
         /\ Last(sent) = sent[Len(sent)] /\ Last(sent) \in SentPacket
         /\ \A k \in DOMAIN sent : sent[k] \in SentPacket
BY DEF Last

LEMMA NextTargetOf ==
  ASSUME Typed, sent # <<>>
  PROVE  /\ NextTarget \in [sec : Nat, nsec : 0 .. Second - 1]
         /\ NextTarget.sec * Second + NextTarget.nsec = Target + Last(sent).samples
<1>1. Last(sent).samples \in 0 .. Second - 1
  BY LastOf DEF Typed, SentPacket
<1>2. PICK n \in 0 .. Second - 1 : n = Last(sent).samples
  BY <1>1
<1>3. target \in [sec : Nat, nsec : 0 .. Second - 1]
  BY DEF Typed
<1>4. PICK t : t = [target EXCEPT !.nsec = @ + n]
  OBVIOUS
<1>5. t \in [sec : Nat, nsec : Nat] /\ t.sec = target.sec /\ t.nsec = target.nsec + n
  BY <1>3, <1>4
<1>6. NextTarget = Normal(t)
  BY <1>2, <1>4 DEF NextTarget
<1>7. t.nsec < 2 * Second
  BY <1>3, <1>5
<1>8. /\ Normal(t) \in [sec : Nat, nsec : 0 .. Second - 1]
      /\ Normal(t).sec * Second + Normal(t).nsec = t.sec * Second + t.nsec
  BY <1>5, <1>7, NormalKeeps
<1>9. PICK x \in Nat : x = target.sec * Second
  BY <1>3
<1>10. t.sec * Second + t.nsec = x + (target.nsec + n)
  BY <1>5, <1>9
<1>11. Target = x + target.nsec /\ target.nsec \in Nat
  BY <1>3, <1>9 DEF Target
<1>12. x + (target.nsec + n) = (x + target.nsec) + n
  BY <1>11
<1>13. NextTarget.sec * Second + NextTarget.nsec = Target + n
  BY <1>6, <1>8, <1>10, <1>11, <1>12
<1> QED
  BY <1>2, <1>6, <1>8, <1>13

-----------------------------------------------------------------------------
(* Types.                                                                  *)

LEMMA InitIInv == Init => IInv
<1> SUFFICES ASSUME Init PROVE IInv
  OBVIOUS
<1>1. /\ pc = "read" /\ ret = 0 /\ file \in Files /\ got = 0 /\ taken = 0 /\ eof = FALSE
      /\ stream = <<>> /\ serial = 0 /\ pageno = 0 /\ headers = 0 /\ seq \in SeqNumbers
      /\ time = 0 /\ sent = <<>> /\ started = FALSE /\ target = [sec |-> 0, nsec |-> 0]
      /\ base = 0 /\ now = 0
  BY SeqAssumption DEF Init
<1>2. Len(file) \in Nat
  BY <1>1, FileFacts
<1>3. Typed
  <2>1. eof \in BOOLEAN /\ started \in BOOLEAN
    BY <1>1, Zenon
  <2>2. target.sec = 0 /\ target.nsec = 0 /\ target \in [sec : Nat, nsec : 0 .. Second - 1]
    BY <1>1
  <2> QED
    BY <1>1, <1>2, <2>1, <2>2 DEF Typed, TypeOK
<1>4. Waited = 0
  BY <1>1 DEF Waited
<1>5. Clock
  BY <1>1, <1>4 DEF Clock
<1>6. Origin /\ Order
  BY <1>1, <1>2, FileFacts DEF Origin, Order, Begins, PageItems
<1>7. Complete
  <2>1. TakenOut = {}
    BY <1>1 DEF TakenOut
  <2> QED
    BY <1>1, <2>1 DEF Complete, AllHandled, Handled
<1> QED
  BY <1>3, <1>5, <1>6, <1>7 DEF IInv

LEMMA PageOf ==
  ASSUME Typed, taken < got, Item.kind = "page"
  PROVE  /\ taken + 1 \in DOMAIN file /\ Item = file[taken + 1] /\ taken + 1 \in PageItems
         /\ Item.serial \in Nat /\ Item.pageno \in Nat /\ Item.packets \in Seq(Content)
<1>1. DOMAIN file = 1 .. Len(file) /\ Len(file) \in Nat
  BY FileFacts DEF Typed
<1>2. taken + 1 \in DOMAIN file /\ Item = file[taken + 1]
  BY <1>1 DEF Typed, TypeOK, Item
<1> QED
  BY <1>2, FileFacts DEF Typed, PageItems

LEMMA PacketsTyped ==
  ASSUME NEW page, page.packets \in Seq(Content), NEW expected
  PROVE  Packets(page, expected) \in Seq(Content \cup {Gap})
<1> DEFINE S == Content \cup {Gap}
<1>1. page.packets \in Seq(S) /\ <<Gap>> \in Seq(S)
  OBVIOUS
<1> HIDE DEF S
<1>2. <<Gap>> \o page.packets \in Seq(S)
  BY <1>1, Joined
<1>3. Packets(page, expected) = page.packets \/ Packets(page, expected) = <<Gap>> \o page.packets
  <2>1. <<>> \o page.packets = page.packets
    OBVIOUS
  <2> QED
    BY <2>1 DEF Packets
<1>4. Packets(page, expected) \in Seq(S)
  BY <1>1, <1>2, <1>3
<1> QED
  BY <1>4 DEF S

LEMMA PageInTyped ==
  ASSUME Typed, NEW expected, taken < got, Item.kind = "page", PageIn(Item, expected),
         headers' \in 0 .. 3, taken' = taken + 1,
         UNCHANGED <<ret, file, got, eof, rtp, slot, now>>
  PROVE  Typed'
<1>1. Item.pageno \in Nat /\ Item.packets \in Seq(Content)
  BY PageOf
<1>2. stream' \in Seq(Content \cup {Gap})
  <2>1. Packets(Item, expected) \in Seq(Content \cup {Gap})
    BY <1>1, PacketsTyped
  <2>2. stream' = stream \o Packets(Item, expected) /\ stream \in Seq(Content \cup {Gap})
    BY DEF PageIn, Typed
  <2> QED
    BY <2>1, <2>2
<1>3. pageno' \in Nat /\ pc' = "packets"
  BY <1>1 DEF PageIn
<1>4. taken' \in 0 .. got' /\ got' \in 0 .. Len(file')
  BY DEF Typed, TypeOK
<1> QED
  BY <1>2, <1>3, <1>4 DEF Typed, TypeOK, rtp, slot

LEMMA TypedStep == Typed /\ Clock /\ [Next]_vars => Typed'
<1> SUFFICES ASSUME Typed, Clock, [Next]_vars PROVE Typed'
  OBVIOUS
<1>1. CASE UNCHANGED vars
  BY <1>1 DEF Typed, TypeOK, vars, input, ogg, rtp, slot
<1>2. CASE Read
  <2>1. Len(file) \in Nat
    BY FileFacts DEF Typed
  <2>2. got' \in 0 .. Len(file) /\ taken \in 0 .. got'
    BY <1>2, <2>1 DEF Read, Typed, TypeOK
  <2>3. eof' \in BOOLEAN
    BY <1>2 DEF Read, EndNoticed
  <2> QED
    BY <1>2, <2>2, <2>3 DEF Read, Typed, TypeOK, ogg, rtp, slot
<1>3. CASE NoPage
  BY <1>3 DEF NoPage, Typed, TypeOK, ogg, rtp, slot
<1>4. CASE StartOpus
  BY <1>4, PageInTyped DEF StartOpus, NextPage
<1>5. CASE SkipPage
  BY <1>5 DEF SkipPage, NextPage, Typed, TypeOK, ogg, rtp, slot
<1>6. CASE LaterPage
  <2>1. CASE OfStream(Item)
    BY <1>6, <2>1, PageInTyped DEF LaterPage, NextPage, Typed, TypeOK
  <2>2. CASE ~OfStream(Item)
    BY <1>6, <2>2 DEF LaterPage, NextPage, Typed, TypeOK, rtp, slot
  <2> QED
    BY <2>1, <2>2
<1>7. ASSUME stream # <<>> PROVE Tail(stream) \in Seq(Content \cup {Gap})
  BY <1>7 DEF Typed
<1>8. CASE NoPacket
  BY <1>7, <1>8 DEF NoPacket, Typed, TypeOK, input, rtp, slot
<1>9. CASE SkipHeader
  <2>1. headers' \in 0 .. 3
    BY <1>9 DEF SkipHeader, IsHeader
  <2> QED
    BY <1>7, <1>9, <2>1 DEF SkipHeader, NextPacket, Typed, TypeOK, input, rtp, slot
<1>10. CASE SkipInvalid
  BY <1>7, <1>10 DEF SkipInvalid, NextPacket, Typed, TypeOK, input, rtp, slot
<1>11. CASE Send
  <2>1. Head(stream) \in Content
    BY <1>11 DEF Send, NextPacket, Typed
  <2>2. Head(stream).n \in 0 .. Second - 1 /\ Head(stream).id \in Nat
    BY <2>1 DEF Content
  <2>3. seq' \in SeqNumbers
    BY <1>11, NextSeqFits
  <2>4. time' \in Nat
    BY <1>11, <2>2, NextTimeFits
  <2>5. sent' \in Seq(SentPacket)
    <3>1. [seq |-> seq', time |-> time', samples |-> Head(stream).n,
           id |-> Head(stream).id, at |-> now] \in SentPacket
      BY <2>2, <2>3, <2>4 DEF SentPacket, Typed, TypeOK
    <3> QED
      BY <1>11, <3>1, Added DEF Send, Typed
  <2> QED
    BY <1>7, <1>11, <2>3, <2>4, <2>5 DEF Send, NextPacket, Typed, TypeOK, input, slot
<1>12. CASE FirstSlot
  <2>1. now \div Second \in Nat /\ now % Second \in 0 .. Second - 1 /\ base' \in 0 .. now
    <3>1. now \in Nat /\ base' = now
      BY <1>12 DEF FirstSlot, Typed, TypeOK
    <3> QED
      BY <3>1, Divided
  <2>2. target' \in [sec : Nat, nsec : 0 .. Second - 1]
    BY <1>12, <2>1 DEF FirstSlot
  <2>3. target'.sec \in Nat /\ target'.nsec \in 0 .. Second - 1
    BY <2>2
  <2>4. started' \in BOOLEAN
    BY <1>12, Zenon DEF FirstSlot
  <2> QED
    BY <1>12, <2>1, <2>2, <2>3, <2>4 DEF FirstSlot, Typed, TypeOK, input, ogg, rtp
<1>13. CASE NextSlot
  <2>1. target' \in [sec : Nat, nsec : 0 .. Second - 1]
    BY <1>13, NextTargetOf DEF NextSlot, Clock
  <2>2. target'.sec \in Nat /\ target'.nsec \in 0 .. Second - 1
    BY <2>1
  <2> QED
    BY <1>13, <2>1, <2>2 DEF NextSlot, Typed, TypeOK, input, ogg, rtp
<1>14. CASE Awake
  BY <1>14 DEF Awake, Typed, TypeOK, input, ogg, rtp, slot
<1>15. CASE Tick
  BY <1>15 DEF Tick, Typed, TypeOK, input, ogg, rtp, slot
<1> QED
  BY <1>1, <1>2, <1>3, <1>4, <1>5, <1>6, <1>8, <1>9, <1>10, <1>11, <1>12, <1>13, <1>14, <1>15
     DEF Next, Sender, Terminated

-----------------------------------------------------------------------------
(* Time slots.                                                             *)

\* Nothing is sent or waited for.
LEMMA ClockQuiet ==
  ASSUME Clock, pc \notin {"wait", "sleep"}, pc' \notin {"wait", "sleep"},
         UNCHANGED <<time, sent, slot, now>>
  PROVE  Clock'
<1>1. Waited' = Waited
  BY DEF Waited
<1>2. Target' = Target
  BY DEF Target, slot
<1> QED
  BY <1>1, <1>2 DEF Clock, slot, Waited

LEMMA ClockSend == Typed /\ Clock /\ Send => Clock'
<1> SUFFICES ASSUME Typed, Clock, Send PROVE Clock'
  OBVIOUS
<1>1. PICK n \in 0 .. Second - 1, id \in Nat : n = Head(stream).n /\ id = Head(stream).id
  <2>1. Head(stream) \in Content
    BY DEF Send, NextPacket, Typed
  <2> QED
    BY <2>1 DEF Content
<1>2. PICK e \in SentPacket : e.samples = n /\ e.time = time' /\ e.at = now /\ sent' = Append(sent, e)
  <2>1. seq' \in SeqNumbers
    BY NextSeqFits
  <2>2. time' \in Nat /\ now \in Nat
    BY <1>1, NextTimeFits
  <2>3. [seq |-> seq', time |-> time', samples |-> n, id |-> id, at |-> now] \in SentPacket
    BY <1>1, <2>1, <2>2 DEF SentPacket
  <2> QED
    BY <1>1, <2>3 DEF Send
<1>3. /\ pc = "packets" /\ pc' = "wait" /\ time' = time + n
      /\ started' = started /\ target' = target /\ base' = base /\ now' = now
  BY <1>1 DEF Send, NextPacket, slot
<1>4. /\ Len(sent') = Len(sent) + 1 /\ sent' # <<>> /\ sent' \in Seq(SentPacket)
      /\ \A k \in 1 .. Len(sent) : sent'[k] = sent[k]
      /\ sent'[Len(sent) + 1] = e /\ Len(sent) \in Nat /\ sent \in Seq(SentPacket)
  BY <1>2, Added DEF Typed
<1>5. Waited = Len(sent) /\ Waited' = Len(sent)
  BY <1>3, <1>4 DEF Waited
<1>6. Target' = Target
  BY <1>3 DEF Target
<1>7. time' = sent'[Len(sent')].time
  BY <1>2, <1>4
<1>8. \A k \in 2 .. Len(sent') : sent'[k].time = sent'[k - 1].time + sent'[k].samples
  <2> SUFFICES ASSUME NEW k \in 2 .. Len(sent')
               PROVE  sent'[k].time = sent'[k - 1].time + sent'[k].samples
    OBVIOUS
  <2>1. CASE k \in 2 .. Len(sent)
    <3>1. k \in 1 .. Len(sent) /\ k - 1 \in 1 .. Len(sent)
      BY <1>4, <2>1
    <3> QED
      BY <1>4, <2>1, <3>1 DEF Clock
  <2>2. CASE k = Len(sent) + 1
    <3>1. k - 1 = Len(sent) /\ Len(sent) \in 1 .. Len(sent) /\ sent # <<>>
      BY <1>4, <2>2
    <3>2. sent'[k - 1] = sent[Len(sent)] /\ time = sent[Len(sent)].time
      BY <1>4, <3>1 DEF Clock
    <3> QED
      BY <1>2, <1>3, <1>4, <2>2, <3>2
  <2> QED
    BY <1>4, <2>1, <2>2
<1>9. started <=> Len(sent) > 0
  BY <1>5 DEF Clock
<1>10. started => /\ base + sent'[Len(sent)].time - sent'[1].time = Target /\ now >= Target
                  /\ sent[Len(sent)].time - sent[1].time <= now - base
  <2> SUFFICES ASSUME started
               PROVE  /\ base + sent'[Len(sent)].time - sent'[1].time = Target /\ now >= Target
                      /\ sent[Len(sent)].time - sent[1].time <= now - base
    OBVIOUS
  <2>1. Len(sent) \in 1 .. Len(sent) /\ 1 \in 1 .. Len(sent)
    BY <1>4, <1>9
  <2>2. /\ base + sent[Len(sent)].time - sent[1].time = Target /\ now >= Target
    BY <1>3, <1>5 DEF Clock
  <2>3. sent[Len(sent)].time \in Nat /\ sent[1].time \in Nat /\ base \in Nat /\ now \in Nat
    <3>1. sent[Len(sent)] \in SentPacket /\ sent[1] \in SentPacket
      BY <1>4, <2>1
    <3>2. base \in Nat /\ now \in Nat
      BY DEF Typed, TypeOK
    <3> QED
      BY <3>1, <3>2 DEF SentPacket
  <2> QED
    BY <1>4, <2>1, <2>2, <2>3
<1>11. \A k \in 2 .. Len(sent') : sent'[k - 1].time - sent'[1].time <= sent'[k].at - base
  <2> SUFFICES ASSUME NEW k \in 2 .. Len(sent')
               PROVE  sent'[k - 1].time - sent'[1].time <= sent'[k].at - base
    OBVIOUS
  <2>1. CASE k \in 2 .. Len(sent)
    <3>1. k \in 1 .. Len(sent) /\ k - 1 \in 1 .. Len(sent) /\ 1 \in 1 .. Len(sent)
      BY <1>4, <2>1
    <3> QED
      BY <1>4, <2>1, <3>1 DEF Clock
  <2>2. CASE k = Len(sent) + 1
    <3>1. k - 1 = Len(sent) /\ Len(sent) \in 1 .. Len(sent) /\ 1 \in 1 .. Len(sent)
      BY <1>4, <2>2
    <3> QED
      BY <1>2, <1>4, <1>9, <1>10, <2>2, <3>1
  <2> QED
    BY <1>4, <2>1, <2>2
<1> QED
  BY <1>3, <1>4, <1>5, <1>6, <1>7, <1>8, <1>9, <1>10, <1>11 DEF Clock

LEMMA ClockFirstSlot == Typed /\ Clock /\ FirstSlot => Clock'
<1> SUFFICES ASSUME Typed, Clock, FirstSlot PROVE Clock'
  OBVIOUS
<1>1. /\ pc = "wait" /\ ~started /\ started' /\ base' = now /\ now' = now /\ pc' = "packets"
      /\ target' = [sec |-> now \div Second, nsec |-> now % Second] /\ sent' = sent /\ time' = time
  BY DEF FirstSlot, rtp
<1>2. Len(sent) = 1 /\ sent[1] \in SentPacket
  <2>1. sent # <<>> /\ ~(Len(sent) - 1 > 0)
    BY <1>1 DEF Clock, Waited
  <2>2. Len(sent) \in Nat /\ Len(sent) >= 1 /\ \A k \in DOMAIN sent : sent[k] \in SentPacket
    BY <2>1, LastOf DEF Typed
  <2>3. Len(sent) = 1
    BY <2>1, <2>2
  <2> QED
    BY <2>2, <2>3 DEF Typed
<1>3. Waited' = 1 /\ sent[1].time \in Nat
  BY <1>1, <1>2 DEF Waited, SentPacket
<1>4. Target' = now
  <2>1. target'.sec = now \div Second /\ target'.nsec = now % Second
    BY <1>1
  <2>2. (now \div Second) * Second + (now % Second) = now
    BY Divided DEF Typed, TypeOK
  <2> QED
    BY <2>1, <2>2 DEF Target
<1>5. now \in Nat
  BY DEF Typed, TypeOK
<1> QED
  BY <1>1, <1>2, <1>3, <1>4, <1>5 DEF Clock

LEMMA ClockNextSlot == Typed /\ Clock /\ NextSlot => Clock'
<1> SUFFICES ASSUME Typed, Clock, NextSlot PROVE Clock'
  OBVIOUS
<1>1. /\ pc = "wait" /\ started /\ started' = started /\ base' = base /\ now' = now
      /\ pc' = "sleep" /\ target' = NextTarget /\ sent' = sent /\ time' = time /\ sent # <<>>
  BY DEF NextSlot, rtp, Clock
<1>2. PICK m \in Nat : m = Len(sent) - 1 /\ m + 1 = Len(sent) /\ m > 0
  BY <1>1, LastOf DEF Clock, Waited, Typed
<1>3. Waited = m /\ Waited' = m + 1
  BY <1>1, <1>2 DEF Waited
<1>4. sent[m + 1] \in SentPacket /\ sent[m] \in SentPacket /\ sent[1] \in SentPacket
      /\ Last(sent) = sent[m + 1]
  <2>1. m + 1 \in DOMAIN sent /\ m \in DOMAIN sent /\ 1 \in DOMAIN sent
    BY <1>1, <1>2 DEF Typed
  <2> QED
    BY <1>1, <1>2, <2>1, LastOf DEF Typed
<1>5. sent[m + 1].time = sent[m].time + sent[m + 1].samples
  <2>1. m + 1 \in 2 .. Len(sent) /\ (m + 1) - 1 = m
    BY <1>2
  <2> QED
    BY <2>1 DEF Clock
<1>6. base + sent[m].time - sent[1].time = Target
  BY <1>1, <1>3 DEF Clock
<1>7. Target' = Target + sent[m + 1].samples
  <2>1. NextTarget.sec * Second + NextTarget.nsec = Target + Last(sent).samples
    BY <1>1, NextTargetOf
  <2> QED
    BY <1>1, <1>4, <2>1 DEF Target
<1>8. base + sent[m + 1].time - sent[1].time = Target'
  <2>1. /\ sent[m + 1].time \in Nat /\ sent[m].time \in Nat /\ sent[1].time \in Nat
        /\ sent[m + 1].samples \in Nat
    BY <1>4 DEF SentPacket
  <2>2. base \in Nat
    BY DEF Typed, TypeOK
  <2> QED
    BY <1>5, <1>6, <1>7, <2>1, <2>2
<1>9. started <=> Waited' > 0
  BY <1>1, <1>2, <1>3
<1> QED
  BY <1>1, <1>2, <1>3, <1>8, <1>9 DEF Clock

LEMMA TargetNat == Typed => Target \in Nat
<1> SUFFICES ASSUME Typed PROVE Target \in Nat
  OBVIOUS
<1>1. PICK s \in Nat, n \in Nat : s = target.sec /\ n = target.nsec
  BY DEF Typed, TypeOK
<1>2. s * Second + n \in Nat
  OBVIOUS
<1> QED
  BY <1>1, <1>2 DEF Target

LEMMA ClockKept == Typed /\ Clock /\ Typed' /\ [Next]_vars => Clock'
<1> SUFFICES ASSUME Typed, Clock, Typed', [Next]_vars PROVE Clock'
  OBVIOUS
<1>1. CASE UNCHANGED vars
  BY <1>1 DEF Clock, Waited, Target, vars, rtp, slot
<1>2. CASE Read \/ NoPage \/ StartOpus \/ SkipPage \/ LaterPage \/ NoPacket \/ SkipHeader \/ SkipInvalid
  <2>1. pc \notin {"wait", "sleep"} /\ pc' \notin {"wait", "sleep"}
    BY <1>2 DEF Read, NoPage, StartOpus, SkipPage, LaterPage, NoPacket, SkipHeader, SkipInvalid,
                NextPage, NextPacket, PageIn
  <2>2. UNCHANGED <<time, sent, slot, now>>
    BY <1>2 DEF Read, NoPage, StartOpus, SkipPage, LaterPage, NoPacket, SkipHeader, SkipInvalid, rtp
  <2> QED
    BY <2>1, <2>2, ClockQuiet
<1>3. CASE Awake
  <2>1. /\ pc = "sleep" /\ pc' = "packets" /\ now >= Target /\ sent' = sent /\ time' = time
        /\ started' = started /\ target' = target /\ base' = base /\ now' = now
    <3>1. PICK t \in Nat : t = Target
      BY TargetNat
    <3>2. now >= t
      BY <1>3, <3>1 DEF Awake, Asleep, Target, Typed, TypeOK
    <3> QED
      BY <1>3, <3>1, <3>2 DEF Awake, rtp, slot
  <2>2. Waited' = Waited /\ Target' = Target
    BY <2>1 DEF Waited, Target
  <2> QED
    BY <2>1, <2>2 DEF Clock, Waited, Target
<1>4. CASE Tick
  <2>1. /\ pc' = pc /\ sent' = sent /\ time' = time /\ started' = started /\ target' = target
        /\ base' = base /\ now' = now + 1
    BY <1>4 DEF Tick, rtp, slot
  <2>2. Waited' = Waited /\ Target' = Target
    BY <2>1 DEF Waited, Target
  <2>3. now >= Target => now' >= Target
    <3>1. PICK t \in Nat : t = Target
      BY TargetNat
    <3> QED
      BY <2>1, <3>1 DEF Typed, TypeOK
  <2> QED
    BY <2>1, <2>2, <2>3 DEF Clock, Waited, Target
<1> QED
  BY <1>1, <1>2, <1>3, <1>4, ClockSend, ClockFirstSlot, ClockNextSlot DEF Next, Sender, Terminated

-----------------------------------------------------------------------------
(* Where the packets come from, and in what order.                         *)

LEMMA SameFile ==
  ASSUME file' = file
  PROVE  Begins' = Begins /\ PageItems' = PageItems /\ (Whole' <=> Whole)
BY DEF Begins, PageItems, Whole

LEMMA TakenOutGrows ==
  ASSUME file' = file, serial' = serial, taken \in Nat, taken' \in {taken, taken + 1},
         NEW p \in TakenOut
  PROVE  p \in TakenOut'
<1>1. PICK i \in 1 .. taken : Page(i) /\ \E l \in DOMAIN file[i].packets : p = file[i].packets[l]
  BY DEF TakenOut
<1>2. i \in 1 .. taken' /\ p \in Content
  BY DEF TakenOut
<1>3. /\ file'[i].kind = "page" /\ file'[i].serial = serial'
      /\ \E l \in DOMAIN file'[i].packets : p = file'[i].packets[l]
  BY <1>1 DEF Page
<1> QED
  BY <1>2, <1>3 DEF TakenOut, Page

\* What the ogg_stream_state gets from a page.
LEMMA PacketsIn ==
  ASSUME NEW page, page.packets \in Seq(Content), NEW e
  PROVE  \E d \in {0, 1} :
           /\ page.pageno = e => d = 0
           /\ \A k \in DOMAIN Packets(page, e) :
                \/ k <= d /\ Packets(page, e)[k] = Gap
                \/ /\ k > d /\ k - d \in DOMAIN page.packets
                   /\ Packets(page, e)[k] = page.packets[k - d]
           /\ \A l \in DOMAIN page.packets :
                l + d \in DOMAIN Packets(page, e) /\ Packets(page, e)[l + d] = page.packets[l]
<1>1. CASE page.pageno = e
  <2>1. Packets(page, e) = page.packets
    BY <1>1 DEF Packets
  <2> QED
    BY <1>1, <2>1
<1>2. CASE page.pageno # e
  <2> DEFINE S == Content \cup {Gap}
             P == Packets(page, e)
  <2>1. P = <<Gap>> \o page.packets
    BY <1>2 DEF Packets
  <2>2. <<Gap>> \in Seq(S) /\ page.packets \in Seq(S) /\ Len(<<Gap>>) = 1 /\ <<Gap>>[1] = Gap
        /\ DOMAIN <<Gap>> = {1}
    OBVIOUS
  <2>3. /\ P \in Seq(S) /\ Len(P) = Len(<<Gap>>) + Len(page.packets)
        /\ \A k \in DOMAIN <<Gap>> : k \in DOMAIN P /\ P[k] = <<Gap>>[k]
        /\ \A k \in DOMAIN page.packets :
             Len(<<Gap>>) + k \in DOMAIN P /\ P[Len(<<Gap>>) + k] = page.packets[k]
        /\ \A k \in DOMAIN P : k \in DOMAIN <<Gap>> \/ k - Len(<<Gap>>) \in DOMAIN page.packets
    BY <2>1, <2>2, Joined
  <2> HIDE DEF P, S
  <2>4. ASSUME NEW l \in DOMAIN page.packets
        PROVE  l + 1 \in DOMAIN P /\ P[l + 1] = page.packets[l]
    <3>1. l \in Nat /\ l + 1 = 1 + l
      OBVIOUS
    <3> QED
      BY <2>2, <2>3, <3>1
  <2>5. ASSUME NEW k \in DOMAIN P
        PROVE  \/ k <= 1 /\ P[k] = Gap
               \/ k > 1 /\ k - 1 \in DOMAIN page.packets /\ P[k] = page.packets[k - 1]
    <3>1. CASE k = 1
      BY <2>2, <2>3, <3>1
    <3>2. CASE k - 1 \in DOMAIN page.packets
      <4>1. PICK l \in DOMAIN page.packets : l = k - 1 /\ l \in Nat /\ l >= 1
        BY <3>2
      <4>2. k = l + 1
        BY <2>3, <4>1
      <4> QED
        BY <2>4, <4>1, <4>2
    <3> QED
      BY <2>2, <2>3, <3>1, <3>2
  <2>6. \E d \in {0, 1} :
           /\ page.pageno = e => d = 0
           /\ \A k \in DOMAIN P : \/ k <= d /\ P[k] = Gap
                                  \/ k > d /\ k - d \in DOMAIN page.packets /\ P[k] = page.packets[k - d]
           /\ \A l \in DOMAIN page.packets : l + d \in DOMAIN P /\ P[l + d] = page.packets[l]
    BY <1>2, <2>4, <2>5
  <2> QED
    BY <2>6 DEF P
<1> QED
  BY <1>1, <1>2

\* The ids of the packets of one stream, from page to page and on one page.
LEMMA IdsGrow ==
  ASSUME file \in Files, NEW i \in DOMAIN file, NEW j \in DOMAIN file,
         file[i].kind = "page", file[j].kind = "page", file[i].serial = file[j].serial,
         NEW k \in DOMAIN file[i].packets, NEW l \in DOMAIN file[j].packets,
         i < j \/ (i = j /\ k < l)
  PROVE  file[i].packets[k].id < file[j].packets[l].id
BY FilesAssumption DEF SameStream

LEMMA OriginKept ==
  ASSUME Typed, Origin, file' = file, serial' = serial, headers' = headers, stream' = stream,
         sent' = sent, taken' \in {taken, taken + 1},
         taken' = taken + 1 => headers > 0 \/ taken + 1 \notin Begins,
         eof' => got' = Len(file), pc' \in {"packets", "wait", "sleep"} => headers > 0
  PROVE  Origin'
<1>1. Begins' = Begins /\ taken \in Nat
  BY SameFile DEF Typed, TypeOK
<1>2. headers = 0 => \A j \in Begins : j > taken'
  <2> SUFFICES ASSUME headers = 0, NEW j \in Begins PROVE j > taken'
    OBVIOUS
  <2>1. j > taken /\ j \in Nat
    BY FileFacts DEF Origin, Begins, PageItems, Typed
  <2> QED
    BY <1>1, <2>1
<1>3. headers > 0 => \E i \in 1 .. taken' : FirstOpus(i)' /\ serial' = file'[i].serial
  <2> SUFFICES ASSUME headers > 0
               PROVE  \E i \in 1 .. taken' : FirstOpus(i)' /\ serial' = file'[i].serial
    OBVIOUS
  <2>1. PICK i \in 1 .. taken : FirstOpus(i) /\ serial = file[i].serial
    BY DEF Origin
  <2>2. FirstOpus(i)'
    BY <1>1, <2>1 DEF FirstOpus
  <2> QED
    BY <1>1, <2>1, <2>2
<1>4. \A p \in TakenOut : p \in TakenOut'
  BY <1>1, TakenOutGrows
<1>5. \A k \in DOMAIN stream : stream[k] = Gap \/ stream[k] \in TakenOut'
  BY <1>4 DEF Origin
<1>6. \A k \in DOMAIN sent : \E p \in TakenOut' : /\ p.kind = "audio"
                                                  /\ p.id = sent[k].id /\ p.n = sent[k].samples
  BY <1>4 DEF Origin
<1>7. headers = 0 => stream' = <<>> /\ sent' = <<>>
  BY DEF Origin
<1>8. \A k \in DOMAIN stream' : stream'[k] = Gap \/ stream'[k] \in TakenOut'
  BY <1>5
<1> QED
  <2>1. /\ eof' => got' = Len(file')
        /\ headers' = 0 => stream' = <<>> /\ sent' = <<>> /\ \A j \in Begins' : j > taken'
        /\ pc' \in {"packets", "wait", "sleep"} => headers' > 0
    BY <1>1, <1>2, <1>7
  <2> QED
    BY <1>3, <1>6, <1>8, <2>1, Zenon DEF Origin

\* A page of the stream comes in, perhaps the first one.
PageComes(e) ==
  /\ taken < got /\ Item.kind = "page" /\ taken' = taken + 1 /\ file' = file
  /\ serial' = Item.serial /\ stream' = stream \o Packets(Item, e) /\ sent' = sent
  /\ serial' = serial \/ (stream = <<>> /\ sent = <<>>)

LEMMA PageFound ==
  ASSUME Typed, NEW e, PageComes(e)
  PROVE  /\ taken \in Nat /\ taken + 1 \in DOMAIN file /\ Item = file[taken + 1]
         /\ Item.packets \in Seq(Content)
         /\ \A l \in DOMAIN Item.packets : Item.packets[l] \in TakenOut'
<1>1. /\ taken \in Nat /\ taken + 1 \in DOMAIN file /\ Item = file[taken + 1]
      /\ Item.packets \in Seq(Content)
  BY PageOf DEF PageComes, Typed, TypeOK
<1>2. PICK i \in 1 .. taken' : i = taken + 1
  BY <1>1 DEF PageComes
<1>3. file'[i].kind = "page" /\ file'[i].serial = serial' /\ file'[i].packets = Item.packets
  BY <1>1, <1>2 DEF PageComes
<1>4. ASSUME NEW l \in DOMAIN Item.packets PROVE Item.packets[l] \in TakenOut'
  <2>1. PICK p \in Content : p = Item.packets[l]
    BY <1>1
  <2>2. p \in TakenOut'
    BY <1>3, <2>1 DEF TakenOut, Page
  <2> QED
    BY <2>1, <2>2
<1> QED
  BY <1>1, <1>4

\* What is in the stream after that.
LEMMA StreamThen ==
  ASSUME Typed, NEW e, PageComes(e), NEW k \in DOMAIN stream'
  PROVE  \/ k \in DOMAIN stream /\ stream'[k] = stream[k]
         \/ stream'[k] = Gap
         \/ k \notin DOMAIN stream /\ \E l \in DOMAIN Item.packets : stream'[k] = Item.packets[l]
<1> DEFINE P == Packets(Item, e)
<1>1. Item.packets \in Seq(Content)
  BY PageFound
<1>2. P \in Seq(Content \cup {Gap}) /\ stream \in Seq(Content \cup {Gap}) /\ stream' = stream \o P
  BY <1>1, PacketsTyped DEF Typed, PageComes
<1>3. PICK d \in {0, 1} : \A m \in DOMAIN P : \/ m <= d /\ P[m] = Gap
                                              \/ m - d \in DOMAIN Item.packets /\ P[m] = Item.packets[m - d]
  BY <1>1, PacketsIn
<1> HIDE DEF P
<1>4. CASE k \in DOMAIN stream
  BY <1>2, <1>4, Joined
<1>5. CASE k \notin DOMAIN stream
  <2>1. PICK m \in DOMAIN P : m = k - Len(stream) /\ Len(stream) + m = k
    <3>1. k - Len(stream) \in DOMAIN P
      BY <1>2, <1>5, Joined
    <3>2. Len(stream) + (k - Len(stream)) = k
      BY <1>2
    <3> QED
      BY <3>1, <3>2
  <2>2. stream'[k] = P[m]
    BY <1>2, <2>1, Joined
  <2> QED
    BY <1>3, <1>5, <2>2
<1> QED
  BY <1>4, <1>5

\* The order of what comes in.
LEMMA NewOrder ==
  ASSUME Typed, NEW e, PageComes(e), NEW j \in DOMAIN stream', NEW k \in DOMAIN stream', j < k,
         j \notin DOMAIN stream, stream'[j] # Gap, stream'[k] # Gap
  PROVE  stream'[j].id < stream'[k].id
<1> DEFINE P == Packets(Item, e)
<1>1. Item.packets \in Seq(Content) /\ taken + 1 \in DOMAIN file /\ Item = file[taken + 1]
  BY PageFound
<1>2. P \in Seq(Content \cup {Gap}) /\ stream \in Seq(Content \cup {Gap}) /\ stream' = stream \o P
  BY <1>1, PacketsTyped DEF Typed, PageComes
<1>3. PICK d \in {0, 1} : \A m \in DOMAIN P : \/ m <= d /\ P[m] = Gap
                                              \/ m - d \in DOMAIN Item.packets /\ P[m] = Item.packets[m - d]
  BY <1>1, PacketsIn
<1> HIDE DEF P
<1>4. k \notin DOMAIN stream /\ j \in Nat /\ k \in Nat
  BY <1>2
<1>5. ASSUME NEW i \in DOMAIN stream', i \notin DOMAIN stream, stream'[i] # Gap
      PROVE  (i - Len(stream)) - d \in DOMAIN Item.packets
             /\ stream'[i] = Item.packets[(i - Len(stream)) - d]
  <2>1. PICK m \in DOMAIN P : m = i - Len(stream) /\ Len(stream) + m = i
    <3>1. i - Len(stream) \in DOMAIN P
      BY <1>2, <1>5, Joined
    <3>2. Len(stream) + (i - Len(stream)) = i
      BY <1>2
    <3> QED
      BY <3>1, <3>2
  <2>2. stream'[i] = P[m]
    BY <1>2, <2>1, Joined
  <2> QED
    BY <1>3, <1>5, <2>1, <2>2
<1>6. PICK l \in DOMAIN Item.packets, m \in DOMAIN Item.packets :
        /\ l = (j - Len(stream)) - d /\ m = (k - Len(stream)) - d
        /\ stream'[j] = Item.packets[l] /\ stream'[k] = Item.packets[m]
  BY <1>4, <1>5
<1>7. l < m
  BY <1>2, <1>4, <1>6
<1>8. Item.kind = "page" /\ file \in Files
  BY DEF PageComes, Typed
<1>9. file[taken + 1].packets[l].id < file[taken + 1].packets[m].id
  BY <1>1, <1>6, <1>7, <1>8, IdsGrow
<1> QED
  BY <1>1, <1>6, <1>9

\* What came from an earlier page comes before it.
LEMMA OldOrder ==
  ASSUME Typed, NEW e, PageComes(e), serial' = serial, NEW p \in TakenOut,
         NEW l \in DOMAIN Item.packets
  PROVE  p.id < Item.packets[l].id
<1>1. taken \in Nat /\ taken + 1 \in DOMAIN file /\ Item = file[taken + 1]
  BY PageFound
<1>2. PICK i \in 1 .. taken : Page(i) /\ \E m \in DOMAIN file[i].packets : p = file[i].packets[m]
  BY DEF TakenOut
<1>3. PICK m \in DOMAIN file[i].packets : p = file[i].packets[m]
  BY <1>2
<1>4. i \in DOMAIN file /\ i < taken + 1
  BY <1>1, <1>2, FileFacts DEF Typed
<1>5. /\ file[i].kind = "page" /\ file[taken + 1].kind = "page"
      /\ file[i].serial = file[taken + 1].serial /\ file \in Files
  BY <1>1, <1>2 DEF Page, PageComes, Typed
<1> QED
  BY <1>1, <1>3, <1>4, <1>5, IdsGrow

LEMMA PageComesOrigin ==
  ASSUME Typed, Origin, NEW e, PageComes(e), headers' > 0, eof' => got' = Len(file),
         \E i \in 1 .. taken + 1 : FirstOpus(i) /\ Item.serial = file[i].serial
  PROVE  Origin'
<1>1. Begins' = Begins /\ taken \in Nat /\ file' = file
  BY SameFile DEF PageComes, Typed, TypeOK
<1>2. \E i \in 1 .. taken' : FirstOpus(i)' /\ serial' = file'[i].serial
  <2>1. PICK i \in 1 .. taken + 1 : FirstOpus(i) /\ Item.serial = file[i].serial
    OBVIOUS
  <2>2. FirstOpus(i)' /\ serial' = file'[i].serial /\ i \in 1 .. taken'
    BY <1>1, <2>1 DEF FirstOpus, PageComes
  <2> QED
    BY <2>2
<1>3. ASSUME serial' = serial, NEW p \in TakenOut PROVE p \in TakenOut'
  BY <1>1, <1>3, TakenOutGrows DEF PageComes
<1>4. ASSUME NEW k \in DOMAIN stream' PROVE stream'[k] = Gap \/ stream'[k] \in TakenOut'
  <2>1. CASE k \in DOMAIN stream /\ stream'[k] = stream[k]
    <3>1. serial' = serial
      BY <2>1 DEF PageComes
    <3>2. PICK p : p = stream[k]
      OBVIOUS
    <3>3. p = Gap \/ p \in TakenOut
      BY <2>1, <3>2 DEF Origin
    <3>4. p = Gap \/ p \in TakenOut'
      BY <1>3, <3>1, <3>3
    <3>5. stream'[k] = p
      BY <2>1, <3>2
    <3> QED
      BY <3>4, <3>5
  <2>2. CASE \E l \in DOMAIN Item.packets : stream'[k] = Item.packets[l]
    <3>1. PICK l \in DOMAIN Item.packets : stream'[k] = Item.packets[l]
      BY <2>2
    <3>2. PICK p : p = Item.packets[l] /\ p \in TakenOut'
      BY PageFound
    <3>3. stream'[k] = p
      BY <3>1, <3>2
    <3> QED
      BY <3>2, <3>3
  <2> QED
    BY <2>1, <2>2, StreamThen
<1>5. \A k \in DOMAIN sent' : \E p \in TakenOut' : /\ p.kind = "audio"
                                                   /\ p.id = sent'[k].id /\ p.n = sent'[k].samples
  <2>1. CASE serial' = serial
    BY <1>3, <2>1 DEF Origin, PageComes
  <2>2. CASE sent = <<>>
    BY <2>2 DEF PageComes
  <2> QED
    BY <2>1, <2>2 DEF PageComes
<1> QED
  <2>1. /\ eof' => got' = Len(file')
        /\ headers' = 0 => stream' = <<>> /\ sent' = <<>> /\ \A j \in Begins' : j > taken'
        /\ pc' \in {"packets", "wait", "sleep"} => headers' > 0
    BY <1>1
  <2> QED
    BY <1>2, <1>4, <1>5, <2>1, Zenon DEF Origin

LEMMA PageComesOrder ==
  ASSUME Typed, Origin, Order, NEW e, PageComes(e)
  PROVE  Order'
<1>1. \A j, k \in DOMAIN sent' : j < k => sent'[j].id < sent'[k].id
  BY DEF Order, PageComes
<1>2. ASSUME NEW j \in DOMAIN stream', NEW k \in DOMAIN stream', j < k,
             stream'[j] # Gap, stream'[k] # Gap
      PROVE  stream'[j].id < stream'[k].id
  <2>1. CASE j \notin DOMAIN stream
    BY <1>2, <2>1, NewOrder
  <2>2. CASE j \in DOMAIN stream /\ k \in DOMAIN stream
    <3>1. stream'[j] = stream[j] /\ stream'[k] = stream[k]
      <4>1. stream' = stream \o Packets(Item, e) /\ Packets(Item, e) \in Seq(Content \cup {Gap})
        BY PageFound, PacketsTyped DEF PageComes
      <4> QED
        BY <2>2, <4>1, Joined DEF Typed
    <3> QED
      BY <1>2, <2>2, <3>1 DEF Order
  <2>3. CASE j \in DOMAIN stream /\ k \notin DOMAIN stream
    <3>1. stream'[j] = stream[j] /\ serial' = serial
      <4>1. stream' = stream \o Packets(Item, e) /\ Packets(Item, e) \in Seq(Content \cup {Gap})
        BY PageFound, PacketsTyped DEF PageComes
      <4> QED
        BY <2>3, <4>1, Joined DEF Typed, PageComes
    <3>2. PICK p : p = stream[j] /\ p \in TakenOut
      BY <1>2, <2>3, <3>1 DEF Origin
    <3>3. PICK l \in DOMAIN Item.packets : stream'[k] = Item.packets[l]
      BY <1>2, <2>3, StreamThen
    <3>4. p.id < Item.packets[l].id
      BY <3>1, <3>2, OldOrder
    <3> QED
      BY <3>1, <3>2, <3>3, <3>4
  <2> QED
    BY <2>1, <2>2, <2>3
<1>3. ASSUME NEW j \in DOMAIN sent', NEW k \in DOMAIN stream', stream'[k] # Gap
      PROVE  sent'[j].id < stream'[k].id
  <2>1. sent' = sent /\ serial' = serial
    BY <1>3 DEF PageComes
  <2>2. CASE k \in DOMAIN stream /\ stream'[k] = stream[k]
    BY <1>3, <2>1, <2>2 DEF Order
  <2>3. CASE \E l \in DOMAIN Item.packets : stream'[k] = Item.packets[l]
    <3>1. PICK l \in DOMAIN Item.packets : stream'[k] = Item.packets[l]
      BY <2>3
    <3>2. PICK p \in TakenOut : p.id = sent[j].id
      BY <1>3, <2>1 DEF Origin
    <3>3. p.id < Item.packets[l].id
      BY <2>1, <3>2, OldOrder
    <3> QED
      BY <2>1, <3>1, <3>2, <3>3
  <2> QED
    BY <1>3, <2>2, <2>3, StreamThen
<1> QED
  BY <1>1, <1>2, <1>3 DEF Order

\* ogg_stream_packetout takes the first packet, or gap, out, and opusrtp may send it.
Popped ==
  /\ pc = "packets" /\ stream # <<>> /\ stream' = Tail(stream) /\ headers' >= headers
  /\ headers' \in Nat
  /\ UNCHANGED <<file, got, taken, eof, serial>>
SendsHead ==
  /\ Head(stream) # Gap /\ Head(stream).kind = "audio"
  /\ \E e \in SentPacket : /\ sent' = Append(sent, e) /\ e.id = Head(stream).id
                           /\ e.samples = Head(stream).n

LEMMA RecordSent ==
  ASSUME NEW q \in SeqNumbers, NEW t \in Nat, NEW n \in 0 .. Second - 1, NEW i \in Nat, NEW a \in Nat,
         NEW e, e = [seq |-> q, time |-> t, samples |-> n, id |-> i, at |-> a]
  PROVE  e \in SentPacket /\ e.id = i /\ e.samples = n
BY DEF SentPacket

LEMMA SentIsTyped ==
  ASSUME Typed, Send
  PROVE  SendsHead
<1>1. Head(stream) \in Content /\ Head(stream) # Gap /\ Head(stream).kind = "audio"
  BY DEF Send, NextPacket, Typed
<1>2. Head(stream).n \in 0 .. Second - 1 /\ Head(stream).id \in Nat
  BY <1>1 DEF Content
<1>3. seq' \in SeqNumbers
  BY NextSeqFits
<1>4. time' \in Nat /\ now \in Nat
  BY <1>2, NextTimeFits
<1>5. PICK e : /\ e = [seq |-> seq', time |-> time', samples |-> Head(stream).n,
                       id |-> Head(stream).id, at |-> now]
               /\ sent' = Append(sent, e)
  BY Zenon DEF Send
<1>6. PICK n \in 0 .. Second - 1, i \in Nat : n = Head(stream).n /\ i = Head(stream).id
  BY <1>2
<1>7. PICK q \in SeqNumbers, t \in Nat, a \in Nat : q = seq' /\ t = time' /\ a = now
  BY <1>3, <1>4
<1>8. e = [seq |-> q, time |-> t, samples |-> n, id |-> i, at |-> a]
  BY <1>5, <1>6, <1>7
<1>9. e \in SentPacket /\ e.id = i /\ e.samples = n
  BY <1>8, RecordSent
<1> QED
  BY <1>1, <1>5, <1>6, <1>9 DEF SendsHead

LEMMA PoppedFrom ==
  ASSUME Typed, stream # <<>>, stream' = Tail(stream)
  PROVE  /\ Head(stream) = stream[1] /\ 1 \in DOMAIN stream /\ DOMAIN stream = 1 .. Len(stream)
         /\ Head(stream) \in Content \cup {Gap}
         /\ \A k \in DOMAIN stream' :
              k \in Nat /\ k >= 1 /\ k + 1 \in DOMAIN stream /\ stream'[k] = stream[k + 1]
         /\ \A k \in DOMAIN stream : k = 1 \/ (k - 1 \in DOMAIN stream' /\ stream'[k - 1] = stream[k])
<1>1. stream \in Seq(Content \cup {Gap})
  BY DEF Typed
<1>2. stream' \in Seq(Content \cup {Gap})
  BY <1>1
<1> QED
  BY <1>1, <1>2, HeadAndTail

LEMMA PoppedOrigin ==
  ASSUME Typed, Origin, Popped, sent' = sent \/ SendsHead
  PROVE  Origin'
<1>1. Begins' = Begins /\ headers > 0 /\ headers' > 0 /\ taken \in Nat /\ taken' = taken
      /\ file' = file /\ serial' = serial
  BY SameFile DEF Popped, Origin, Typed, TypeOK
<1>2. \A p \in TakenOut : p \in TakenOut'
  BY <1>1, TakenOutGrows
<1>3. \E i \in 1 .. taken' : FirstOpus(i)' /\ serial' = file'[i].serial
  <2>1. PICK i \in 1 .. taken : FirstOpus(i) /\ serial = file[i].serial
    BY <1>1 DEF Origin
  <2>2. FirstOpus(i)' /\ serial' = file'[i].serial /\ i \in 1 .. taken'
    BY <1>1, <2>1 DEF FirstOpus
  <2> QED
    BY <2>2
<1>4. ASSUME NEW k \in DOMAIN stream' PROVE stream'[k] = Gap \/ stream'[k] \in TakenOut'
  <2>1. k + 1 \in DOMAIN stream /\ stream'[k] = stream[k + 1]
    BY PoppedFrom DEF Popped
  <2>2. PICK p : p = stream[k + 1]
    OBVIOUS
  <2>3. p = Gap \/ p \in TakenOut
    BY <2>1, <2>2 DEF Origin
  <2>4. p = Gap \/ p \in TakenOut'
    BY <1>2, <2>3
  <2>5. stream'[k] = p
    BY <2>1, <2>2
  <2> QED
    BY <2>4, <2>5
<1>5. ASSUME NEW k \in DOMAIN sent, NEW e, e = sent[k]
      PROVE  \E p \in TakenOut' : /\ p.kind = "audio" /\ p.id = e.id /\ p.n = e.samples
  BY <1>2, <1>5 DEF Origin
<1>6. ASSUME NEW k \in DOMAIN sent', NEW e, e = sent'[k]
      PROVE  \E p \in TakenOut' : /\ p.kind = "audio" /\ p.id = e.id /\ p.n = e.samples
  <2>1. CASE sent' = sent
    BY <1>5, <1>6, <2>1
  <2>2. CASE SendsHead
    <3>1. PICK f \in SentPacket : /\ sent' = Append(sent, f) /\ f.id = Head(stream).id
                                  /\ f.samples = Head(stream).n
      BY <2>2 DEF SendsHead
    <3>2. CASE k \in DOMAIN sent
      <4>1. e = sent[k]
        BY <1>6, <3>1, <3>2, Added DEF Typed
      <4> QED
        BY <1>5, <3>2, <4>1
    <3>3. CASE k = Len(sent) + 1
      <4>1. e = f
        BY <1>6, <3>1, <3>3, Added DEF Typed
      <4>2. PICK p : p = Head(stream)
        OBVIOUS
      <4>3. p = stream[1] /\ 1 \in DOMAIN stream /\ p \in Content \cup {Gap}
        BY <4>2, PoppedFrom DEF Popped
      <4>4. p \in Content /\ p.kind = "audio" /\ p # Gap
        BY <2>2, <4>2, <4>3 DEF SendsHead
      <4>5. p \in TakenOut
        BY <4>3, <4>4 DEF Origin
      <4> QED
        BY <1>2, <3>1, <4>1, <4>2, <4>4, <4>5
    <3> QED
      BY <3>1, <3>2, <3>3, Added DEF Typed
  <2> QED
    BY <2>1, <2>2
<1>7. \A k \in DOMAIN sent' : \E p \in TakenOut' : /\ p.kind = "audio"
                                                   /\ p.id = sent'[k].id /\ p.n = sent'[k].samples
  BY <1>6
<1>8. eof' => got' = Len(file')
  BY DEF Popped, Origin
<1> QED
  BY <1>1, <1>3, <1>4, <1>7, <1>8 DEF Origin

LEMMA PoppedOrder ==
  ASSUME Typed, Order, Popped, sent' = sent \/ SendsHead
  PROVE  Order'
<1>1. ASSUME NEW j \in DOMAIN stream', NEW k \in DOMAIN stream', j < k,
             stream'[j] # Gap, stream'[k] # Gap
      PROVE  stream'[j].id < stream'[k].id
  <2>1. /\ j + 1 \in DOMAIN stream /\ stream'[j] = stream[j + 1] /\ j \in Nat
        /\ k + 1 \in DOMAIN stream /\ stream'[k] = stream[k + 1] /\ k \in Nat
    BY PoppedFrom DEF Popped
  <2>2. PICK i \in DOMAIN stream, l \in DOMAIN stream : i = j + 1 /\ l = k + 1 /\ i < l
    BY <1>1, <2>1
  <2> QED
    BY <1>1, <2>1, <2>2 DEF Order
<1>2. ASSUME NEW j \in DOMAIN sent, NEW k \in DOMAIN stream', stream'[k] # Gap
      PROVE  sent[j].id < stream'[k].id
  BY <1>2, PoppedFrom DEF Order, Popped
<1>3. CASE sent' = sent
  BY <1>1, <1>2, <1>3 DEF Order
<1>4. CASE SendsHead
  <2>1. PICK e \in SentPacket : sent' = Append(sent, e) /\ e.id = Head(stream).id
    BY <1>4 DEF SendsHead
  <2>2. /\ \A k \in DOMAIN sent : k \in DOMAIN sent' /\ sent'[k] = sent[k]
        /\ sent'[Len(sent) + 1] = e /\ DOMAIN sent = 1 .. Len(sent) /\ Len(sent) \in Nat
        /\ \A k \in DOMAIN sent' : k \in DOMAIN sent \/ k = Len(sent) + 1
    BY <2>1, Added DEF Typed
  <2>3. stream[1] # Gap /\ e.id = stream[1].id /\ 1 \in DOMAIN stream
    BY <1>4, <2>1, PoppedFrom DEF SendsHead, Popped
  <2>4. ASSUME NEW j \in DOMAIN sent', NEW k \in DOMAIN sent', j < k
        PROVE  sent'[j].id < sent'[k].id
    <3>1. CASE k \in DOMAIN sent
      <4>1. j \in DOMAIN sent
        BY <2>2, <2>4, <3>1
      <4> QED
        BY <2>2, <2>4, <3>1, <4>1 DEF Order
    <3>2. CASE k = Len(sent) + 1
      <4>1. j \in DOMAIN sent
        BY <2>2, <2>4, <3>2
      <4> QED
        BY <2>2, <2>3, <3>2, <4>1 DEF Order
    <3> QED
      BY <2>2, <3>1, <3>2
  <2>5. ASSUME NEW j \in DOMAIN sent', NEW k \in DOMAIN stream', stream'[k] # Gap
        PROVE  sent'[j].id < stream'[k].id
    <3>1. CASE j \in DOMAIN sent
      BY <1>2, <2>2, <2>5, <3>1
    <3>2. CASE j = Len(sent) + 1
      <4>1. k + 1 \in DOMAIN stream /\ stream'[k] = stream[k + 1] /\ 1 < k + 1
        BY PoppedFrom DEF Popped
      <4>2. stream[1].id < stream[k + 1].id
        BY <2>3, <2>5, <4>1 DEF Order
      <4> QED
        BY <2>2, <2>3, <3>2, <4>1, <4>2
    <3> QED
      BY <2>2, <3>1, <3>2
  <2> QED
    BY <1>1, <2>4, <2>5 DEF Order
<1> QED
  BY <1>3, <1>4

-----------------------------------------------------------------------------
(* Every step keeps Origin and Order.                                      *)

LEMMA OrderKept ==
  ASSUME Order, stream' = stream, sent' = sent
  PROVE  Order'
BY DEF Order

LEMMA OriginStep ==
  ASSUME Typed, Origin, Order, [Next]_vars
  PROVE  Origin' /\ Order'
<1>0. taken \in Nat /\ file \in Files /\ headers \in 0 .. 3 /\ eof \in BOOLEAN
  BY DEF Typed, TypeOK
<1>1. CASE Read
  <2>1. eof' => got' = Len(file)
    <3>1. got \in 0 .. Len(file) /\ Len(file) \in Nat
      BY FileFacts DEF Typed, TypeOK
    <3> QED
      <4>1. got' \in got .. Len(file) /\ eof' \in EndNoticed(got, got')
        BY <1>1 DEF Read
      <4>2. CASE got = Len(file)
        BY <3>1, <4>1, <4>2
      <4>3. CASE got # Len(file)
        BY <4>1, <4>3 DEF EndNoticed
      <4> QED
        BY <4>2, <4>3
  <2>2. /\ file' = file /\ serial' = serial /\ headers' = headers /\ stream' = stream
        /\ sent' = sent /\ taken' = taken /\ pc' = "pages"
    BY <1>1 DEF Read, ogg, rtp
  <2> QED
    BY <1>0, <2>1, <2>2, OriginKept, OrderKept
<1>2. CASE NoPage
  <2>1. /\ file' = file /\ serial' = serial /\ headers' = headers /\ stream' = stream
        /\ sent' = sent /\ eof' = eof /\ got' = got /\ pc' \in {"done", "read"}
        /\ taken' = taken \/ (taken' = taken + 1 /\ Item.kind = "junk")
    BY <1>2 DEF NoPage, ogg, rtp
  <2>2. Item.kind = "junk" => taken + 1 \notin Begins
    BY DEF Item, Begins, PageItems
  <2> QED
    BY <1>0, <2>1, <2>2, OriginKept, OrderKept DEF Origin
<1>3. CASE StartOpus
  <2>1. PageComes(0) /\ headers = 0 /\ headers' = 1 /\ eof' = eof /\ got' = got
    BY <1>3 DEF StartOpus, NextPage, PageIn, PageComes, Origin, rtp
  <2>2. FirstOpus(taken + 1)
    <3>1. taken + 1 \in DOMAIN file /\ Item = file[taken + 1]
      BY <2>1, PageFound
    <3>2. taken + 1 \in Begins
      BY <1>3, <3>1 DEF StartOpus, NextPage, Begins, PageItems
    <3>3. \A j \in Begins : j > taken /\ j \in Nat
      BY <1>0, <2>1, FileFacts DEF Origin, Begins, PageItems
    <3> QED
      BY <1>0, <3>2, <3>3 DEF FirstOpus
  <2>3. \E i \in 1 .. taken + 1 : FirstOpus(i) /\ Item.serial = file[i].serial
    BY <1>0, <2>2 DEF Item
  <2>4. eof' => got' = Len(file)
    BY <2>1 DEF Origin
  <2>5. headers' > 0
    BY <2>1
  <2> QED
    BY <2>1, <2>3, <2>4, <2>5, PageComesOrigin, PageComesOrder
<1>4. CASE SkipPage
  <2>1. /\ file' = file /\ serial' = serial /\ headers' = headers /\ stream' = stream
        /\ sent' = sent /\ eof' = eof /\ got' = got /\ taken' = taken + 1
        /\ pc' \in {"pages", "done"} /\ ~IsOpus(Item)
    BY <1>4 DEF SkipPage, NextPage, ogg, rtp
  <2>2. taken + 1 \notin Begins
    BY <2>1 DEF Item, Begins
  <2> QED
    BY <1>0, <2>1, <2>2, OriginKept, OrderKept DEF Origin
<1>5. CASE LaterPage
  <2>1. /\ file' = file /\ serial' = serial /\ headers' = headers /\ headers > 0
        /\ sent' = sent /\ eof' = eof /\ got' = got /\ taken' = taken + 1
        /\ eof' => got' = Len(file)
    BY <1>5 DEF LaterPage, NextPage, rtp, Origin
  <2>2. CASE OfStream(Item)
    <3>1. PageComes(pageno)
      BY <1>5, <2>1, <2>2 DEF LaterPage, NextPage, PageIn, PageComes, OfStream
    <3>2. PICK i \in 1 .. taken : FirstOpus(i) /\ serial = file[i].serial
      BY <2>1 DEF Origin
    <3>3. \E j \in 1 .. taken + 1 : FirstOpus(j) /\ Item.serial = file[j].serial
      BY <1>0, <2>2, <3>2 DEF OfStream
    <3> QED
      BY <2>1, <3>1, <3>3, PageComesOrigin, PageComesOrder
  <2>3. CASE ~OfStream(Item)
    <3>1. stream' = stream
      BY <1>5, <2>3 DEF LaterPage
    <3> QED
      BY <1>0, <2>1, <3>1, OriginKept, OrderKept
  <2> QED
    BY <2>2, <2>3
<1>6. CASE NoPacket
  <2>1. /\ file' = file /\ serial' = serial /\ headers' = headers /\ sent' = sent
        /\ eof' = eof /\ got' = got /\ taken' = taken /\ pc' = "pages" /\ pc = "packets"
    BY <1>6 DEF NoPacket, input, rtp
  <2>2. CASE stream = <<>>
    <3>1. stream' = stream
      BY <1>6, <2>2 DEF NoPacket
    <3> QED
      BY <1>0, <2>1, <3>1, OriginKept, OrderKept DEF Origin
  <2>3. CASE stream # <<>>
    <3>1. Popped
      BY <1>0, <1>6, <2>1, <2>3 DEF NoPacket, Popped
    <3> QED
      BY <2>1, <3>1, PoppedOrigin, PoppedOrder
  <2> QED
    BY <2>2, <2>3
<1>7. CASE SkipHeader
  <2>1. Popped /\ sent' = sent
    BY <1>0, <1>7 DEF SkipHeader, NextPacket, Popped, input, rtp
  <2> QED
    BY <2>1, PoppedOrigin, PoppedOrder
<1>8. CASE SkipInvalid
  <2>1. Popped /\ sent' = sent
    BY <1>0, <1>8 DEF SkipInvalid, NextPacket, Popped, input, rtp
  <2> QED
    BY <2>1, PoppedOrigin, PoppedOrder
<1>9. CASE Send
  <2>1. Popped
    BY <1>0, <1>9 DEF Send, NextPacket, Popped, input
  <2>2. SendsHead
    BY <1>9, SentIsTyped
  <2> QED
    BY <2>1, <2>2, PoppedOrigin, PoppedOrder
<1>10. CASE FirstSlot \/ NextSlot \/ Awake \/ Tick \/ Terminated \/ UNCHANGED vars
  <2>1. /\ file' = file /\ serial' = serial /\ headers' = headers /\ stream' = stream
        /\ sent' = sent /\ eof' = eof /\ got' = got /\ taken' = taken
        /\ pc' = pc \/ (pc \in {"wait", "sleep"} /\ pc' \in {"packets", "sleep"})
    BY <1>10 DEF FirstSlot, NextSlot, Awake, Tick, Terminated, vars, input, ogg, rtp
  <2> QED
    BY <1>0, <2>1, OriginKept, OrderKept DEF Origin
<1> QED
  BY <1>1, <1>2, <1>3, <1>4, <1>5, <1>6, <1>7, <1>8, <1>9, <1>10 DEF Next, Sender

-----------------------------------------------------------------------------
(* A whole file.                                                           *)

LEMMA WholeFacts ==
  ASSUME Typed, Whole, Begins # {}
  PROVE  /\ 1 \in DOMAIN file /\ IsOpus(file[1]) /\ Len(file) >= 1
         /\ \A i \in DOMAIN file : /\ file[i].kind = "page" /\ file[i].pageno = i - 1
                                   /\ file[i].serial = file[1].serial
<1>1. \A i \in DOMAIN file : /\ file[i].kind = "page" /\ file[i].pageno = i - 1
                             /\ file[i].serial = file[1].serial
  BY DEF Whole, PageItems
<1>2. PICK i \in DOMAIN file : IsOpus(file[i])
  BY DEF Begins, PageItems
<1>3. DOMAIN file = 1 .. Len(file) /\ Len(file) \in Nat
  BY FileFacts DEF Typed
<1>4. file[i].pageno = 0
  BY <1>2 DEF IsOpus
<1>5. i = 1
  BY <1>1, <1>3, <1>4
<1> QED
  BY <1>1, <1>2, <1>3, <1>5

LEMMA HandledKept ==
  ASSUME AllHandled, UNCHANGED <<ret, headers, taken, pageno, serial, file, stream, sent>>,
         pc' \in {"read", "pages", "done"} => stream = <<>>,
         pc' = "done" => taken = Len(file)
  PROVE  AllHandled'
<1>1. TakenOut' = TakenOut /\ SentIds' = SentIds /\ Waiting' = Waiting
  BY DEF TakenOut, Page, SentIds, Waiting
<1>2. Handled'
  BY <1>1 DEF AllHandled, Handled
<1> QED
  BY <1>2 DEF AllHandled

LEMMA HandledPage ==
  ASSUME Typed, Whole, Begins # {}, AllHandled, NEW e, PageComes(e), stream = <<>>,
         Item.pageno = e, pageno' = Item.pageno + 1, ret' = ret, headers' > 0, pc' = "packets"
  PROVE  AllHandled'
<1>1. /\ taken \in Nat /\ taken + 1 \in DOMAIN file /\ Item = file[taken + 1]
      /\ Item.packets \in Seq(Content)
  BY PageFound
<1>2. /\ Item.pageno = taken /\ Item.serial = file[1].serial /\ file' = file
      /\ taken' = taken + 1 /\ serial' = Item.serial /\ sent' = sent
  BY <1>1, WholeFacts DEF PageComes
<1>3. stream' = Item.packets
  BY <1>1 DEF PageComes, Packets
<1>4. ASSUME NEW p \in TakenOut', p.kind = "audio"
      PROVE  p.id \in SentIds' \/ p \in Waiting'
  <2>1. PICK i \in 1 .. taken' : \E l \in DOMAIN file'[i].packets : p = file'[i].packets[l]
    BY DEF TakenOut
  <2>2. PICK l \in DOMAIN file[i].packets : p = file[i].packets[l]
    BY <1>2, <2>1
  <2>3. CASE i = taken + 1
    BY <1>1, <1>3, <2>2, <2>3 DEF Waiting
  <2>4. CASE i \in 1 .. taken
    <3>1. headers > 0 /\ serial = file[1].serial
      BY <2>4 DEF AllHandled, Typed, TypeOK
    <3>2. i \in DOMAIN file
      BY <1>1, <2>4, FileFacts DEF Typed
    <3>3. Page(i)
      BY <3>1, <3>2, WholeFacts DEF Page
    <3>4. p \in TakenOut
      <4>1. p \in Content
        BY DEF TakenOut
      <4> QED
        BY <2>2, <2>4, <3>3, <4>1 DEF TakenOut
    <3>5. p.id \in SentIds
      BY <1>4, <3>4 DEF AllHandled, Handled, Waiting
    <3> QED
      BY <1>2, <3>5 DEF SentIds
  <2> QED
    BY <1>1, <1>2, <2>3, <2>4
<1>5. Handled'
  BY <1>4 DEF Handled
<1>6. \A k \in DOMAIN stream' : stream'[k] # Gap
  BY <1>1, <1>3, GapIsNone
<1>7. pageno' = taken' /\ serial' = file'[1].serial
  BY <1>2
<1> QED
  BY <1>5, <1>6, <1>7 DEF AllHandled

LEMMA HandledPop ==
  ASSUME Typed, Origin, AllHandled, Popped, pageno' = pageno, ret' = ret,
         pc' \in {"packets", "wait"},
         (sent' = sent /\ Head(stream).kind # "audio") \/ SendsHead
  PROVE  AllHandled'
<1>1. TakenOut' = TakenOut /\ headers > 0 /\ headers' > 0
  BY DEF TakenOut, Page, Popped, Origin, Typed, TypeOK
<1>2. SentIds \subseteq SentIds' /\ (Head(stream).kind = "audio" => Head(stream).id \in SentIds')
  <2>1. CASE sent' = sent /\ Head(stream).kind # "audio"
    BY <2>1 DEF SentIds
  <2>2. CASE SendsHead
    <3>1. PICK e \in SentPacket : sent' = Append(sent, e) /\ e.id = Head(stream).id
      BY <2>2 DEF SendsHead
    <3>2. /\ \A k \in DOMAIN sent : k \in DOMAIN sent' /\ sent'[k] = sent[k]
          /\ sent'[Len(sent) + 1] = e /\ Len(sent) + 1 \in DOMAIN sent'
      BY <3>1, Added DEF Typed
    <3> QED
      BY <3>1, <3>2 DEF SentIds
  <2> QED
    BY <2>1, <2>2
<1>3. ASSUME NEW p \in TakenOut, p.kind = "audio"
      PROVE  p.id \in SentIds' \/ p \in Waiting'
  <2>1. CASE p.id \in SentIds
    BY <1>2, <2>1
  <2>2. CASE p \in Waiting
    <3>1. PICK k \in DOMAIN stream : p = stream[k]
      BY <2>2 DEF Waiting
    <3>2. CASE k = 1
      <4>1. p = Head(stream)
        BY <3>1, <3>2, PoppedFrom DEF Popped
      <4> QED
        BY <1>2, <1>3, <4>1
    <3>3. CASE k # 1
      <4>1. k - 1 \in DOMAIN stream' /\ stream'[k - 1] = p
        BY <3>1, <3>3, PoppedFrom DEF Popped
      <4> QED
        BY <4>1 DEF Waiting
    <3> QED
      BY <3>2, <3>3
  <2> QED
    BY <1>3, <2>1, <2>2 DEF AllHandled, Handled
<1>4. Handled'
  BY <1>1, <1>3 DEF Handled
<1>5. \A k \in DOMAIN stream' : stream'[k] # Gap
  BY PoppedFrom DEF AllHandled, Popped
<1> QED
  BY <1>1, <1>4, <1>5 DEF AllHandled, Popped

LEMMA CompleteStep ==
  ASSUME Typed, Origin, Complete, [Next]_vars
  PROVE  Complete'
<1>1. file' = file
  BY DEF Next, Sender, Read, NoPage, StartOpus, SkipPage, LaterPage, NoPacket, SkipHeader,
         SkipInvalid, Send, FirstSlot, NextSlot, Awake, Tick, Terminated, vars, input
<1> SUFFICES ASSUME Whole, Begins # {} PROVE AllHandled'
  BY <1>1, SameFile DEF Complete
<1>2. AllHandled /\ taken \in 0 .. got /\ got \in 0 .. Len(file) /\ Len(file) \in Nat
      /\ headers \in 0 .. 3
  BY FileFacts DEF Complete, Typed, TypeOK
<1>3. taken < got => /\ taken + 1 \in DOMAIN file /\ Item = file[taken + 1] /\ Item.kind = "page"
                     /\ Item.pageno = taken /\ Item.serial = file[1].serial
  <2> SUFFICES ASSUME taken < got
               PROVE  /\ taken + 1 \in DOMAIN file /\ Item = file[taken + 1] /\ Item.kind = "page"
                      /\ Item.pageno = taken /\ Item.serial = file[1].serial
    OBVIOUS
  <2>1. taken + 1 \in DOMAIN file /\ Item = file[taken + 1]
    BY <1>2, FileFacts DEF Typed, Item
  <2> QED
    BY <1>2, <2>1, WholeFacts
<1>4. CASE Read
  <2>1. stream = <<>> /\ pc' = "pages"
    BY <1>2, <1>4 DEF Read, AllHandled
  <2> QED
    BY <1>2, <1>4, <2>1, HandledKept DEF Read, ogg, rtp
<1>5. CASE NoPage
  <2>1. stream = <<>> /\ taken = got /\ taken' = taken
    BY <1>2, <1>3, <1>5 DEF NoPage, AllHandled
  <2>2. pc' = "done" => taken = Len(file)
    BY <1>5, <2>1 DEF NoPage, Origin
  <2> QED
    BY <1>2, <1>5, <2>1, <2>2, HandledKept DEF NoPage, ogg, rtp
<1>6. CASE StartOpus
  <2>1. PageComes(0) /\ stream = <<>> /\ headers' > 0 /\ taken = 0 /\ ret' = ret
        /\ pageno' = Item.pageno + 1 /\ pc' = "packets"
    BY <1>2, <1>6 DEF StartOpus, NextPage, PageIn, PageComes, Origin, AllHandled, rtp
  <2>2. Item.pageno = 0
    BY <1>3, <1>6, <2>1 DEF StartOpus, NextPage
  <2> QED
    BY <1>2, <2>1, <2>2, HandledPage
<1>7. CASE SkipPage
  <2>1. taken = 0 /\ taken < got /\ ~IsOpus(Item)
    BY <1>2, <1>7 DEF SkipPage, NextPage, AllHandled
  <2>2. Item = file[1]
    BY <1>3, <2>1
  <2> QED
    BY <2>1, <2>2, WholeFacts
<1>8. CASE LaterPage
  <2>1. /\ headers > 0 /\ taken < got /\ pc = "pages" /\ headers' = headers /\ serial' = serial
        /\ Item.kind = "page" /\ taken' = taken + 1 /\ sent' = sent
    BY <1>8 DEF LaterPage, NextPage, rtp
  <2>2. stream = <<>> /\ serial = file[1].serial /\ pageno = taken
    BY <1>2, <2>1 DEF AllHandled
  <2>3. OfStream(Item) /\ Item.pageno = pageno
    BY <1>3, <2>1, <2>2 DEF OfStream
  <2>4. PageIn(Item, pageno) /\ ret' = ret
    BY <1>8, <2>3 DEF LaterPage
  <2>5. PageComes(pageno)
    BY <1>1, <2>1, <2>3, <2>4 DEF PageComes, PageIn, OfStream
  <2> QED
    BY <1>2, <2>1, <2>2, <2>3, <2>4, <2>5, HandledPage DEF PageIn
<1>9. CASE NoPacket
  <2>1. stream = <<>>
    <3> SUFFICES ASSUME stream # <<>> PROVE FALSE
      OBVIOUS
    <3>1. Head(stream) = Gap /\ Head(stream) = stream[1] /\ 1 \in DOMAIN stream
      BY <1>9, HeadAndTail DEF NoPacket, Typed
    <3> QED
      BY <1>2, <3>1 DEF AllHandled
  <2>2. stream' = stream /\ pc' = "pages"
    BY <1>9, <2>1 DEF NoPacket
  <2> QED
    BY <1>2, <1>9, <2>1, <2>2, HandledKept DEF NoPacket, input, rtp
<1>10. CASE SkipHeader
  <2>1. Popped /\ sent' = sent /\ pageno' = pageno /\ ret' = ret /\ pc' = "packets"
    BY <1>2, <1>10 DEF SkipHeader, NextPacket, Popped, input, rtp
  <2>2. Head(stream).kind # "audio"
    BY <1>10 DEF SkipHeader, IsHeader
  <2> QED
    BY <1>2, <2>1, <2>2, HandledPop
<1>11. CASE SkipInvalid
  <2>1. Popped /\ sent' = sent /\ pageno' = pageno /\ ret' = ret /\ pc' = "packets"
    BY <1>2, <1>11 DEF SkipInvalid, NextPacket, Popped, input, rtp
  <2>2. Head(stream).kind # "audio"
    BY <1>11 DEF SkipInvalid
  <2> QED
    BY <1>2, <2>1, <2>2, HandledPop
<1>12. CASE Send
  <2>1. Popped /\ pageno' = pageno /\ ret' = ret /\ pc' = "wait"
    BY <1>2, <1>12 DEF Send, NextPacket, Popped, input
  <2> QED
    BY <1>2, <1>12, <2>1, SentIsTyped, HandledPop
<1>13. CASE FirstSlot \/ NextSlot \/ Awake \/ Tick \/ Terminated \/ UNCHANGED vars
  <2>1. /\ UNCHANGED <<ret, headers, taken, pageno, serial, file, stream, sent>>
        /\ pc' = pc \/ pc' \in {"packets", "sleep"}
    BY <1>13 DEF FirstSlot, NextSlot, Awake, Tick, Terminated, vars, input, ogg, rtp
  <2>2. /\ pc' \in {"read", "pages", "done"} => stream = <<>>
        /\ pc' = "done" => taken = Len(file)
    BY <1>2, <2>1 DEF AllHandled
  <2> QED
    BY <1>2, <2>1, <2>2, HandledKept
<1> QED
  BY <1>4, <1>5, <1>6, <1>7, <1>8, <1>9, <1>10, <1>11, <1>12, <1>13 DEF Next, Sender

-----------------------------------------------------------------------------
(* The theorems.                                                           *)

LEMMA InvariantStep ==
  ASSUME IInv, [Next]_vars
  PROVE  IInv'
<1>1. Typed'
  BY TypedStep DEF IInv
<1>2. Clock'
  BY <1>1, ClockKept DEF IInv
<1>3. Origin' /\ Order'
  BY OriginStep DEF IInv
<1>4. Complete'
  BY CompleteStep DEF IInv
<1> QED
  BY <1>1, <1>2, <1>3, <1>4 DEF IInv

LEMMA Invariant == Spec => []IInv
  BY InitIInv, InvariantStep, PTL DEF Spec

\* The state of the sender stays what its variables can hold: pages taken out of the
\* ogg_sync_state were read before, the sequence number keeps its 16 bits, and the
\* nanoseconds of the target stay below a second.
THEOREM TypeCorrect == Spec => []TypeOK
<1>1. IInv => TypeOK
  BY DEF IInv, Typed
<1> QED
  BY <1>1, Invariant, PTL

\* wait_for_time_slot keeps the timestamps from running ahead of the clock, however
\* late the sender wakes up or the packets come, and never sleeps without need.
THEOREM PacedAlways == Spec => []Paced
<1>1. ASSUME IInv PROVE Paced
  <2>1. Typed /\ Clock
    BY <1>1 DEF IInv
  <2>2. ASSUME Asleep PROVE Last(sent).time - sent[1].time > now - base
    <3>1. started /\ Waited = Len(sent) /\ Waited > 0 /\ now < Target
      BY <2>1, <2>2 DEF Asleep, Clock, Waited, Target
    <3>2. sent # <<>>
      BY <3>1
    <3>3. Last(sent) = sent[Len(sent)] /\ sent[Len(sent)] \in SentPacket /\ sent[1] \in SentPacket
      <4>1. /\ Len(sent) \in Nat /\ Len(sent) >= 1 /\ Len(sent) \in DOMAIN sent
            /\ Last(sent) = sent[Len(sent)] /\ \A k \in DOMAIN sent : sent[k] \in SentPacket
        BY <2>1, <3>2, LastOf DEF Typed
      <4> QED
        BY <2>1, <4>1 DEF Typed
    <3>4. PICK a \in Nat, b \in Nat : a = sent[Len(sent)].time /\ b = sent[1].time
      BY <3>3 DEF SentPacket
    <3>5. base + a - b = Target
      BY <2>1, <3>1, <3>4 DEF Clock
    <3>6. base \in Nat /\ now \in Nat
      BY <2>1 DEF Typed, TypeOK
    <3>7. a - b > now - base
      BY <3>1, <3>5, <3>6
    <3> QED
      BY <3>3, <3>4, <3>7
  <2> QED
    BY <2>1, <2>2 DEF Paced, Clock
<1> QED
  BY <1>1, Invariant, PTL

LEMMA FirstOfStream ==
  ASSUME file \in Files, NEW i, FirstOpus(i)
  PROVE  Min(Begins) = i
<1>1. \A j \in Begins : j \in Nat
  BY FileFacts DEF Begins, PageItems
<1>2. i \in Begins /\ \A j \in Begins : i <= j
  BY DEF FirstOpus
<1>3. \A j \in Begins : (\A k \in Begins : j <= k) => j = i
  BY <1>1, <1>2
<1> QED
  BY <1>2, <1>3 DEF Min

LEMMA AudioTakenOut ==
  ASSUME Typed, Origin, headers > 0, NEW p \in TakenOut, p.kind = "audio"
  PROVE  p \in AudioPackets
<1>1. PICK i \in 1 .. taken : FirstOpus(i) /\ serial = file[i].serial
  BY DEF Origin
<1>2. Min(Begins) = i /\ Begins # {}
  BY <1>1, FirstOfStream DEF Typed, FirstOpus
<1>3. PICK j \in 1 .. taken : Page(j) /\ \E l \in DOMAIN file[j].packets : p = file[j].packets[l]
  BY DEF TakenOut
<1>4. j \in DOMAIN file
  BY FileFacts DEF Typed, TypeOK
<1>5. j \in PageItems /\ file[j].serial = file[Min(Begins)].serial
  BY <1>1, <1>2, <1>3, <1>4 DEF Page, PageItems
<1>6. p \in Range(file[j].packets)
  BY <1>3 DEF Range
<1> QED
  BY <1>2, <1>5, <1>6 DEF AudioPackets

\* opusrtp sends audio packets of the first Opus stream only, each at most once and in
\* their order, whatever the file holds; and it sends them all when the file is whole.
THEOREM InOrder == Spec => []SentInOrder
<1>1. ASSUME IInv PROVE SentInOrder
  <2>1. Typed /\ Origin /\ Order /\ Complete
    BY <1>1 DEF IInv
  <2>2. ASSUME NEW k \in DOMAIN sent
        PROVE  \E p \in AudioPackets : p.id = sent[k].id /\ p.n = sent[k].samples
    <3>1. PICK p \in TakenOut : p.kind = "audio" /\ p.id = sent[k].id /\ p.n = sent[k].samples
      BY <2>1 DEF Origin
    <3>2. headers > 0
      <4>1. sent # <<>>
        BY <2>2
      <4> QED
        BY <2>1, <4>1 DEF Origin, Typed, TypeOK
    <3> QED
      BY <2>1, <3>1, <3>2, AudioTakenOut
  <2>3. ASSUME pc = "done", Whole, Begins # {}
        PROVE  ret = 0 /\ \A p \in AudioPackets : \E k \in DOMAIN sent : sent[k].id = p.id
    <3>1. AllHandled
      BY <2>1, <2>3 DEF Complete
    <3>2. ret = 0 /\ stream = <<>> /\ taken = Len(file)
      BY <2>3, <3>1 DEF AllHandled
    <3>3. headers > 0 /\ serial = file[1].serial
      BY <2>1, <2>3, <3>1, <3>2, WholeFacts DEF AllHandled, Typed, TypeOK
    <3>4. ASSUME NEW p \in AudioPackets PROVE \E k \in DOMAIN sent : sent[k].id = p.id
      <4>1. PICK j \in PageItems : p \in Range(file[j].packets) /\ p.kind = "audio"
        BY DEF AudioPackets
      <4>2. j \in 1 .. taken /\ j \in DOMAIN file
        BY <2>1, <3>2, FileFacts DEF Typed, PageItems
      <4>3. Page(j) /\ file[j].packets \in Seq(Content)
        BY <2>1, <2>3, <3>3, <4>2, WholeFacts, FileFacts DEF Page, Typed
      <4>4. PICK l \in DOMAIN file[j].packets : p = file[j].packets[l]
        BY <4>1 DEF Range
      <4>5. p \in TakenOut
        BY <4>2, <4>3, <4>4 DEF TakenOut
      <4>6. p.id \in SentIds
        BY <3>1, <3>2, <4>1, <4>5 DEF AllHandled, Handled, Waiting
      <4> QED
        BY <4>6 DEF SentIds
    <3> QED
      BY <3>2, <3>4
  <2> QED
    BY <2>1, <2>2, <2>3 DEF SentInOrder, Order
<1> QED
  BY <1>1, Invariant, PTL

=============================================================================
