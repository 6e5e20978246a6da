------------------------------ MODULE RtpSend ------------------------------
(***************************************************************************)
(* opusrtp transmit: rtp_send_file_to_addr and wait_for_time_slot          *)
(* (src/opusrtp.c).  An Ogg file is read chunk by chunk, its pages go      *)
(* through an ogg_sync_state and an ogg_stream_state (libogg, external) and*)
(* every audio packet of the first Opus stream becomes one RTP packet, sent*)
(* at its time slot.                                                       *)
(***************************************************************************)
EXTENDS Integers, Sequences, SequencesExt

CONSTANTS
  Files,       \* what a file may hold: sequences of items, each a page or junk
  FirstSeqs,   \* what rand() may give for rtp.seq, modulo 2^16
  Second,      \* time units in a second; a packet is shorter than that
  MaxTime      \* bound: how far the clock goes

ASSUME SecondAssumption == Second \in Nat \ {0} /\ MaxTime \in Nat
\* What 16 bits hold.
SeqNumbers == {n \in Nat : n < 65536}
ASSUME SeqAssumption == FirstSeqs \subseteq SeqNumbers

\* What a page holds, and what a file does; an id tells where in its stream a packet is.
Content == [kind : {"head", "tags", "audio", "bad"}, n : 0 .. Second - 1, id : Nat]
Element == [kind : {"page"}, serial : Nat, bos : BOOLEAN, pageno : Nat, packets : Seq(Content)]
             \cup [kind : {"junk"}]
SameStream(f, i, j) ==
  f[i].kind = "page" /\ f[j].kind = "page" /\ f[i].serial = f[j].serial

ASSUME FilesAssumption ==
  \A f \in Files :
    /\ f \in Seq(Element)
    /\ \A i, j \in DOMAIN f : SameStream(f, i, j) =>
         \A k \in DOMAIN f[i].packets, l \in DOMAIN f[j].packets :
           i < j \/ (i = j /\ k < l) => f[i].packets[k].id < f[j].packets[l].id

\* be16: the low 16 bits of rtp.seq.
M_WireWide(n) == n
Wire(n) == n % 65536

VARIABLES
  pc,          \* "read", "pages", "packets", "wait", "sleep" or "done"
  ret,         \* what the program returns
  file,        \* the file
  got,         \* how many items of it fread has delivered to the ogg_sync_state
  taken,       \* how many of those ogg_sync_pageout has taken out again
  eof,         \* feof(in)
  stream,      \* ogg_stream_state: packets, and gaps, not returned yet
  serial, pageno,   \* its serial number and the page number it expects
  headers,
  seq, time,   \* of the rtp header; time counts from the random start
  sent,        \* history: the RTP packets sent, with the time of sending
  started, target,  \* the statics of wait_for_time_slot
  base,        \* history: when the first time slot began
  now          \* the clock

input  == <<file, got, taken, eof>>
ogg    == <<stream, serial, pageno, headers>>
rtp    == <<seq, time, sent>>
slot   == <<started, target, base>>
vars   == <<pc, ret, input, ogg, rtp, slot, now>>

Gap == [kind |-> "gap", n |-> 0, id |-> 0]

Init ==
  /\ pc = "read" /\ ret = 0
  /\ file \in Files /\ got = 0 /\ taken = 0 /\ eof = FALSE
  /\ stream = <<>> /\ serial = 0 /\ pageno = 0 /\ headers = 0
  /\ seq \in FirstSeqs /\ time = 0 /\ sent = <<>>
  /\ started = FALSE /\ target = [sec |-> 0, nsec |-> 0] /\ base = 0
  /\ now = 0

-----------------------------------------------------------------------------
(* Reading the file.                                                       *)

\* The end of the file is noticed by the read that comes back short: the last one
\* with data, or one more.
M_EndUnnoticed(before, after) == {FALSE}
EndNoticed(before, after) ==
  IF before = Len(file) THEN {TRUE} ELSE {FALSE, after = Len(file)}

\* fread and ogg_sync_wrote.
Read ==
  /\ pc = "read" /\ ~eof
  /\ got' \in got .. Len(file)
  /\ eof' \in EndNoticed(got, got')
  /\ pc' = "pages"
  /\ UNCHANGED <<ret, file, taken, ogg, rtp, slot, now>>

\* is_opus: the first packet of the page, in a stream of its own.
IsOpus(page) == page.pageno = 0 /\ page.packets # <<>> /\ page.packets[1].kind = "head"

\* ogg_sync_pageout does not return 1: nothing is left, or bytes that are no page
\* had to be skipped.  On to the next read, or the end.
Item == file[taken + 1]
NoPage ==
  /\ pc = "pages"
  /\ \/ taken = got /\ UNCHANGED taken
     \/ taken < got /\ Item.kind = "junk" /\ taken' = taken + 1
  /\ pc' = IF eof THEN "done" ELSE "read"
  /\ UNCHANGED <<ret, file, got, eof, ogg, rtp, slot, now>>

NextPage == pc = "pages" /\ taken < got /\ Item.kind = "page" /\ taken' = taken + 1

\* ogg_stream_pagein: a page out of sequence leaves a gap before its packets.
Packets(page, expected) ==
  (IF page.pageno = expected THEN <<>> ELSE <<Gap>>) \o page.packets

PageIn(page, expected) ==
  /\ stream' = stream \o Packets(page, expected)
  /\ pageno' = page.pageno + 1
  /\ pc' = "packets"

\* The page that begins the first Opus stream.
StartOpus ==
  /\ NextPage /\ headers = 0 /\ IsOpus(Item)
  /\ headers' = 1
  /\ serial' = Item.serial
  /\ PageIn(Item, 0)
  /\ UNCHANGED <<ret, file, got, eof, rtp, slot, now>>

\* Before it, only pages that begin other streams are passed over.
SkipPage ==
  /\ NextPage /\ headers = 0 /\ ~IsOpus(Item)
  /\ IF Item.bos
     THEN UNCHANGED <<pc, ret>>
     ELSE pc' = "done" /\ ret' = 1
  /\ UNCHANGED <<file, got, eof, ogg, rtp, slot, now>>

\* Later pages: ogg_stream_pagein refuses those of other streams, and so does
\* opusrtp with the whole file.
M_OfStream(page) == TRUE
OfStream(page) == page.serial = serial

LaterPage ==
  /\ NextPage /\ headers > 0
  /\ IF OfStream(Item)
     THEN PageIn(Item, pageno) /\ UNCHANGED ret
     ELSE pc' = "done" /\ ret' = -1 /\ UNCHANGED <<stream, pageno>>
  /\ UNCHANGED <<file, got, eof, serial, headers, rtp, slot, now>>

-----------------------------------------------------------------------------
(* Sending.                                                                *)

\* ogg_stream_packetout does not return 1: no packet is left, or a gap.
NoPacket ==
  /\ pc = "packets"
  /\ stream # <<>> => Head(stream) = Gap
  /\ stream' = IF stream = <<>> THEN stream ELSE Tail(stream)
  /\ pc' = "pages"
  /\ UNCHANGED <<ret, input, serial, pageno, headers, rtp, slot, now>>

NextPacket ==
  pc = "packets" /\ stream # <<>> /\ Head(stream) # Gap /\ stream' = Tail(stream)

IsHeader(packet) == \/ headers = 1 /\ packet.kind = "head"
                    \/ headers = 2 /\ packet.kind = "tags"

SkipHeader ==
  /\ NextPacket /\ IsHeader(Head(stream))
  /\ headers' = headers + 1
  /\ UNCHANGED <<pc, ret, input, serial, pageno, rtp, slot, now>>

\* opus_packet_get_nb_samples refuses it; a misplaced header packet is refused too.
SkipInvalid ==
  /\ NextPacket /\ ~IsHeader(Head(stream)) /\ Head(stream).kind # "audio"
  /\ UNCHANGED <<pc, ret, input, serial, pageno, headers, rtp, slot, now>>

\* Number, stamp and send the packet; whether sendto fails makes no difference.
Send ==
  /\ NextPacket /\ Head(stream).kind = "audio"
  /\ seq' = Wire(seq + 1)
  /\ time' = time + Head(stream).n
  /\ sent' = Append(sent, [seq |-> seq', time |-> time', samples |-> Head(stream).n,
                           id |-> Head(stream).id, at |-> now])
  /\ pc' = "wait"
  /\ UNCHANGED <<ret, input, serial, pageno, headers, slot, now>>

-----------------------------------------------------------------------------
(* wait_for_time_slot.                                                     *)

\* The first call only notes the time.
FirstSlot ==
  /\ pc = "wait" /\ ~started
  /\ started' = TRUE
  /\ target' = [sec |-> now \div Second, nsec |-> now % Second] /\ base' = now
  /\ pc' = "packets"
  /\ UNCHANGED <<ret, input, ogg, rtp, now>>

M_NoCarry(t) == [t EXCEPT !.nsec = @ % Second]
Normal(t) == IF t.nsec >= Second THEN [sec |-> t.sec + 1, nsec |-> t.nsec - Second] ELSE t

\* The target moves by the length of the packet just sent, and clock_nanosleep
\* sleeps until it is reached; when it is in the past it returns at once.
M_NextFromNow == Normal([sec |-> now \div Second, nsec |-> (now % Second) + Last(sent).samples])
NextTarget == Normal([target EXCEPT !.nsec = @ + Last(sent).samples])

NextSlot ==
  /\ pc = "wait" /\ started
  /\ target' = NextTarget
  /\ pc' = "sleep"
  /\ UNCHANGED <<ret, input, ogg, rtp, started, base, now>>

Asleep == pc = "sleep" /\ now < target.sec * Second + target.nsec

Awake ==
  /\ pc = "sleep" /\ ~Asleep
  /\ pc' = "packets"
  /\ UNCHANGED <<ret, input, ogg, rtp, slot, now>>

\* Time passes: while the sender sleeps, and up to MaxTime at any other moment.
Tick ==
  /\ pc # "done" /\ (Asleep \/ now < MaxTime)
  /\ now' = now + 1
  /\ UNCHANGED <<pc, ret, input, ogg, rtp, slot>>

-----------------------------------------------------------------------------
Sender == Read \/ NoPage \/ StartOpus \/ SkipPage \/ LaterPage
          \/ NoPacket \/ SkipHeader \/ SkipInvalid \/ Send
          \/ FirstSlot \/ NextSlot \/ Awake

Terminated == pc = "done" /\ UNCHANGED vars

Next == Sender \/ Tick \/ Terminated

Spec == Init /\ [][Next]_vars

\* The sender runs, the clock goes on, and fread does not for ever return data that
\* completes no page: every read takes 8192 bytes further, and pages are finite.
FairSpec == /\ Spec /\ WF_vars(Sender) /\ WF_vars(Tick)
            /\ SF_vars(Read /\ (got' > got \/ eof'))
-----------------------------------------------------------------------------
(* Correctness.                                                            *)

PageItems == {i \in DOMAIN file : file[i].kind = "page"}
Begins    == {i \in PageItems : IsOpus(file[i])}

\* The audio packets of the first Opus stream of the file.
AudioPackets ==
  {p \in UNION {Range(file[i].packets) : i \in {j \in PageItems :
                  Begins # {} /\ file[j].serial = file[Min(Begins)].serial}} : p.kind = "audio"}

\* Only that stream, with no page damaged or lost.
Whole == \A i \in DOMAIN file : /\ i \in PageItems /\ file[i].pageno = i - 1
                               /\ file[i].serial = file[1].serial

TypeOK ==
  /\ pc \in {"read", "pages", "packets", "wait", "sleep", "done"}
  /\ ret \in {-1, 0, 1} /\ eof \in BOOLEAN
  /\ got \in 0 .. Len(file) /\ taken \in 0 .. got
  /\ headers \in 0 .. 3 /\ pageno \in Nat
  /\ seq \in SeqNumbers /\ time \in Nat
  /\ started \in BOOLEAN /\ now \in Nat /\ base \in 0 .. now
  /\ target.sec \in Nat /\ target.nsec \in 0 .. Second - 1

\* "Wait for the next time slot, which begins delta nanoseconds after the start of
\* the previous time slot": however late single packets are, the timestamps, which
\* count the audio sent, never get further ahead of the clock than the first packet,
\* which is not waited for, and the sender sleeps only while they are ahead.
Paced ==
  /\ \A k \in 2 .. Len(sent) : sent[k - 1].time - sent[1].time <= sent[k].at - base
  /\ Asleep => Last(sent).time - sent[1].time > now - base

\* Whatever the file holds and however it is cut into reads, the packets sent are
\* audio packets of its first Opus stream, in their order; and all of them are
\* sent when the file is whole.
SentInOrder ==
  /\ \A j, k \in DOMAIN sent : j < k => sent[j].id < sent[k].id
  /\ \A k \in DOMAIN sent : \E p \in AudioPackets : p.id = sent[k].id /\ p.n = sent[k].samples
  /\ pc = "done" /\ Whole /\ Begins # {} =>
       ret = 0 /\ \A p \in AudioPackets : \E k \in DOMAIN sent : sent[k].id = p.id

\* The program comes to the end of its file.
Terminates == <>(pc = "done")

\* "read and process available packets": when the file was read to its end, no packet
\* of the stream remains unprocessed in the ogg_stream_state.
NothingLeft == pc = "done" /\ ret = 0 => \A i \in DOMAIN stream : stream[i] = Gap
=============================================================================
