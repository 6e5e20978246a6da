------------------------------ MODULE InfoOpus ------------------------------
(***************************************************************************)
(* The Opus checks of opusinfo (src/info_opus.c): what it remembers of one *)
(* Opus stream and what it says of every page and of the whole stream.     *)
(* A page is a record with bos, eos, pageno, granulepos and the packets    *)
(* that are completed on it; a packet is a record with its kind and the    *)
(* header of an OpusHead, the tags of an OpusTags or the samples n of an   *)
(* audio packet.  Tags are a record with vendor (the fixed part and the    *)
(* vendor string fit into the packet), room (the bytes left behind them    *)
(* and the number of comments) and comments, each with its length len.     *)
(* The minima and maxima that are only printed in the summary are left     *)
(* out; the longest page is kept, as one of five seconds draws a warning.  *)
(***************************************************************************)
EXTENDS OpusHeader, XiphComment

CONSTANTS
  MinPreskip,     \* 120: a smaller pre-skip is implausible
  MaxDelay        \* 240000: the samples of a page that count as a high muxing delay

ASSUME ThresholdAssumption == MinPreskip \in Nat /\ MaxDelay \in Nat \ {0}

\* head and tags: packets that start with "OpusHead" and "OpusTags"; audio: a packet
\* with a valid TOC; bad: the rest.
PacketKinds == {"head", "tags", "audio", "bad"}

\* misc_opus_info as info_opus_start leaves it.  os_pageno is the page number the
\* ogg_stream_state expects next; seen_file_icons is kept in the stream_processor, of
\* which there is one for each misc_opus_info.
NewInf ==
  [doneheaders |-> 0, preskip |-> 0, os_pageno |-> 0, last_eos |-> FALSE,
   total_samples |-> 0, total_packets |-> 0, last_packet_duration |-> 0,
   last_page_duration |-> 0, max_page_duration |-> 0, seen_file_icons |-> {},
   firstgranule |-> -1, lastgranulepos |-> 0, lastlastgranulepos |-> 0]

\* What info_opus_process carries from packet to packet of one page, with what
\* it has said so far.
NewPass(inf, page) ==
  [inf |-> [inf EXCEPT !.last_eos = page.eos, !.os_pageno = page.pageno + 1],
   header |-> inf.doneheaders < 2, packets |-> 0, page_samples |-> 0,
   said |-> IF page.pageno = inf.os_pageno THEN {} ELSE {"discontinuity"}]

Say(a, what) == [a EXCEPT !.said = @ \cup what]

\* One comment of an OpusTags packet, of which `left` bytes are left.
Comment(a, c) ==
  IF a.over THEN a
  ELSE IF a.left < 4 \/ c.len > a.left - 4
       THEN [a EXCEPT !.over = TRUE, !.said = @ \cup {"corrupted comments"}]
  ELSE [a EXCEPT !.left = @ - 4 - c.len,
                 !.said = @ \cup CommentSays(a.seen, c),
                 !.seen = IconsAfter(a.seen, c)]

\* The tags are taken as read even when a comment runs over their end.
TagsReadable(tags) == tags.vendor /\ Len(tags.comments) <= tags.room \div 4
ReadTags(seen, tags) ==
  FoldLeft(Comment, [left |-> tags.room, over |-> FALSE, said |-> {}, seen |-> seen],
           tags.comments)

\* A packet while headers are missing: only the right one advances doneheaders.
HeaderPacket(a, packet) ==
  CASE a.inf.doneheaders = 0 /\ packet.kind = "head" /\ HeaderParses(packet.header) ->
         Say([a EXCEPT !.inf.doneheaders = 1, !.inf.preskip = packet.header.preskip],
             IF packet.header.preskip < MinPreskip THEN {"low preskip"} ELSE {})
    [] a.inf.doneheaders = 1 /\ packet.kind = "tags" /\ TagsReadable(packet.tags) ->
         LET read == ReadTags(a.inf.seen_file_icons, packet.tags)
         IN Say([a EXCEPT !.inf.doneheaders = 2, !.inf.seen_file_icons = read.seen],
                read.said)
    [] OTHER -> Say(a, {"bad header"})

AudioPacket(a, packet) ==
  IF packet.kind = "audio"
  THEN [a EXCEPT !.inf.total_samples = @ + packet.n,
                 !.inf.total_packets = @ + 1,
                 !.inf.last_packet_duration = packet.n,
                 !.page_samples = @ + packet.n]
  ELSE Say(a, {"bad packet"})

\* One turn of the loop over the packets.
Packet(a, packet) ==
  LET b == Say([a EXCEPT !.packets = @ + 1],
               IF a.header /\ a.packets >= 1 THEN {"extra packet"} ELSE {})
  IN IF b.inf.doneheaders < 2 THEN HeaderPacket(b, packet) ELSE AudioPacket(b, packet)

FirstTimed(inf) == inf.lastgranulepos = 0 /\ inf.firstgranule = -1

\* The first timed page gives the start time, counted back from its granulepos;
\* only a page that is also the last one may have been trimmed below zero.
StartOf(inf, page) ==
  IF ~FirstTimed(inf) THEN inf.firstgranule
  ELSE IF page.eos /\ page.granulepos < inf.total_samples THEN 0
  ELSE page.granulepos - inf.total_samples

\* Sample count behind or ahead of the granule position, the latter allowed only
\* where the end may be trimmed.
CountSays(total, elapsed, eos) ==
  (IF total < elapsed THEN {"behind"} ELSE {})
    \cup (IF ~eos /\ total > elapsed THEN {"ahead"} ELSE {})

\* The granule position of a page after the headers.
Granule(a, page) ==
  LET inf   == a.inf
      gp    == page.granulepos
      start == StartOf(inf, page)
  IN IF gp > 0
     THEN Say([a EXCEPT !.inf.firstgranule = start,
                        !.inf.lastlastgranulepos = inf.lastgranulepos,
                        !.inf.lastgranulepos = gp],
              (IF gp < inf.lastgranulepos THEN {"decreases"} ELSE {})
              \cup (IF FirstTimed(inf) /\ start < 0 THEN {"negative granpos"} ELSE {})
              \cup CountSays(inf.total_samples, gp - start, page.eos)
              \cup (IF a.packets = 0 THEN {"no packets"} ELSE {}))
     ELSE Say(a, IF a.packets > 0 THEN {"bad granulepos"} ELSE {})

PageTotals(a) ==
  IF a.page_samples = 0 THEN a
  ELSE [a EXCEPT !.inf.last_page_duration = a.page_samples,
                 !.inf.max_page_duration = IF @ < a.page_samples THEN a.page_samples ELSE @]

\* info_opus_process: all packets of the page, then its granule position; the result
\* holds the new inf and what was said.
Packets(inf, page) == FoldLeft(Packet, NewPass(inf, page), page.packets)
PageDone(a, page) == IF a.header THEN a ELSE PageTotals(Granule(a, page))

M_ElapsedFromZero(inf) == inf.lastgranulepos
Elapsed(inf) == inf.lastgranulepos - inf.firstgranule

TrimSays(inf) ==
  IF inf.last_eos /\ inf.last_page_duration - inf.last_packet_duration
                       > inf.lastgranulepos - inf.lastlastgranulepos
  THEN {"trimmed packets"} ELSE {}

\* info_opus_end: what is said of the whole stream.
EndSays(inf) ==
  IF inf.total_packets = 0 THEN {"empty"}
  ELSE (IF Elapsed(inf) < inf.preskip THEN {"negative duration"} ELSE {})
       \cup (IF inf.total_samples - inf.last_page_duration > Elapsed(inf)
             THEN {"interior holes"} ELSE {})
       \cup TrimSays(inf)
       \cup (IF inf.max_page_duration >= MaxDelay THEN {"high muxing delay"} ELSE {})

\* The playback length it prints, in samples.
PlaybackLength(inf) ==
  IF Elapsed(inf) < inf.preskip THEN 0 ELSE Elapsed(inf) - inf.preskip
=============================================================================
