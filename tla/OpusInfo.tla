------------------------------ MODULE OpusInfo ------------------------------
(***************************************************************************)
(* opusinfo on one file (src/opusinfo.c): process_file reads the pages one *)
(* by one, find_stream_processor finds or starts the logical stream of the *)
(* page, the page is checked against the state of that stream and handed   *)
(* to it, and free_stream_set closes what is still open at the end.        *)
(***************************************************************************)
EXTENDS InfoOpus, CommentRules

CONSTANTS
  Serials,       \* serial numbers of logical streams
  NextPages(_),  \* bound: the pages that may follow those read so far, as records of
                 \* serial, jump (from the expected page number) and contents
  MayHole(_)     \* bound: whether bytes that are no page may follow them

VARIABLES
  streams,      \* stream_set.streams, in the order they were found
  in_headers,   \* stream_set.in_headers
  pages,        \* history: the pages read so far
  holes,        \* history: how many holes there were
  messages,     \* history: what was said, of which stream and at which page
  done,
  flawed        \* the exit status

vars == <<streams, in_headers, pages, holes, messages, done, flawed>>

Init ==
  /\ streams = <<>> /\ in_headers = FALSE
  /\ pages = <<>> /\ holes = 0 /\ messages = {} /\ done = FALSE /\ flawed = FALSE

\* oi_info does not change the exit status, oi_warn and oi_error do.
Informs == {"new stream", "ended"}
Report(what) ==
  /\ messages' = messages \cup what
  /\ flawed' = (flawed \/ \E m \in what : m.says \notin Informs)
At(num, says) == [says : says, num : {num}, page : {Len(pages')}]

StreamsOpen == \E i \in DOMAIN streams : ~streams[i].end

-----------------------------------------------------------------------------
(* One page of one stream.  The record of a stream carries in `said` what   *)
(* is said of it at this page.                                              *)

Says(s, what) == [s EXCEPT !.said = @ \cup what]

\* The page number: note that a page that is out of sequence is also expected
\* next.
Sequence(s, page) ==
  IF s.seqno = page.pageno
  THEN [s EXCEPT !.seqno = @ + 1, !.lostseq = FALSE]
  ELSE Says([s EXCEPT !.seqno = page.pageno, !.lostseq = TRUE],
            IF s.lostseq THEN {} ELSE {"gap"})

\* process_page: info_opus_process with the result a, process_other or process_null.
ProcessPage(s, a) ==
  IF s.type # "opus" THEN s
  ELSE Says([s EXCEPT !.inf = a.inf, !.misused = @ \/ s.data # "live"], a.said)

\* process_end, which frees stream->data.
ProcessEnd(s) ==
  IF s.type # "opus" THEN s
  ELSE Says([s EXCEPT !.data = "freed", !.misused = @ \/ s.data # "live"], EndSays(s.inf))

EndOfStream(s) ==
  Says([ProcessEnd(s) EXCEPT !.isillegal = TRUE, !.constraint = "page after EOS"], {"ended"})

EndIfLast(s) == IF s.end THEN EndOfStream(s) ELSE s
Hand(s, a) == IF s.isillegal THEN s ELSE EndIfLast(ProcessPage(s, a))

\* What process_file says of the stream find_stream_processor returned, before the
\* page is handed to it.
Check(s, page) ==
  LET shown == IF s.isillegal /\ ~s.shownillegal
               THEN Says([s EXCEPT !.shownillegal = TRUE], {s.constraint}) ELSE s
      flags == CASE s.isnew /\ s.start   -> {"new stream"}
                 [] s.isnew /\ ~s.start  -> {"new stream", "start flag not set"}
                 [] ~s.isnew /\ s.start  -> {"start flag in mid-stream"}
                 [] ~s.isnew /\ ~s.start -> {}
  IN IF s.isillegal /\ ~s.shownillegal /\ ~s.isnew
     THEN shown
     ELSE Sequence(Says(shown, flags), page)

\* The type of a stream whose first page is `page`, by its first packet.
TypeOf(page) ==
  IF page.pageno # 0 \/ page.packets = <<>> THEN "invalid"
  ELSE IF Head(page.packets).kind = "head" THEN "opus" ELSE "other"

HeaderSays(page) ==
  (IF TypeOf(page) = "invalid" THEN {"no packet in header page"} ELSE {})
    \cup (IF Len(page.packets) > (IF page.pageno = 0 THEN 1 ELSE 0)
          THEN {"several packets in header page"} ELSE {})

MuxingViolated == StreamsOpen /\ ~in_headers

StartStream(page) ==
  [serial |-> page.serial, type |-> TypeOf(page),
   isillegal |-> MuxingViolated,
   constraint |-> IF MuxingViolated THEN "muxing violated" ELSE "none",
   shownillegal |-> FALSE, isnew |-> TRUE, start |-> page.bos, end |-> page.eos,
   seqno |-> page.pageno, lostseq |-> FALSE,
   data |-> IF TypeOf(page) = "opus" THEN "live" ELSE "none",
   inf |-> NewInf, misused |-> FALSE, said |-> HeaderSays(page)]

\* A page of a stream that is known: once it ended, only isillegal is set.
M_ResumeEnded(s, page) == [s EXCEPT !.isnew = FALSE, !.start = page.bos, !.end = page.eos]
Resume(s, page) ==
  IF s.end
  THEN [s EXCEPT !.isillegal = TRUE, !.constraint = "page after EOS"]
  ELSE [s EXCEPT !.isnew = FALSE, !.start = page.bos, !.end = page.eos]

-----------------------------------------------------------------------------
M_KnownOpen(serial) == {i \in DOMAIN streams : streams[i].serial = serial /\ ~streams[i].end}
Known(serial) == {i \in DOMAIN streams : streams[i].serial = serial}

\* What follows find_stream_processor, on the stream with index i.
Settle(i, s, others, page) ==
  \E checked \in {Check(s, page)} :
  \E read \in {Packets(checked.inf, page)} :
  \E a \in {PageDone(read, page)} :
  \E t \in {Hand(checked, a)} :
    /\ streams' = [others EXCEPT ![i] = [t EXCEPT !.said = {}]]
    /\ pages' = Append(pages, page)
    /\ Report(At(i, t.said))
    /\ UNCHANGED <<done, holes>>

NewStream(page) ==
  /\ ~done /\ Known(page.serial) = {}
  /\ in_headers' = TRUE
  /\ \E s \in {StartStream(page)} : Settle(Len(streams) + 1, s, Append(streams, s), page)

KnownStream(page) ==
  /\ ~done
  /\ \E i \in Known(page.serial) :
       /\ in_headers' = FALSE
       /\ \E s \in {Resume(streams[i], page)} : Settle(i, s, streams, page)

\* The number the next page of this stream should have.
NextPageno(serial) ==
  LET own == {i \in DOMAIN pages : pages[i].serial = serial}
  IN IF own = {} THEN 0 ELSE pages[Max(own)].pageno + 1

\* What libogg can return as a page of these streams.
IsPage(page) ==
  /\ page.serial \in Serials /\ page.pageno \in Nat
  /\ page.bos \in BOOLEAN /\ page.eos \in BOOLEAN

ReadPage ==
  \E next \in NextPages(pages) :
  \E page \in {[serial |-> next.serial, pageno |-> NextPageno(next.serial) + next.jump,
                bos |-> next.bos, eos |-> next.eos, granulepos |-> next.granulepos,
                packets |-> next.packets]} :
    IsPage(page) /\ (NewStream(page) \/ KnownStream(page))

LeftOpen(s) == Says(ProcessEnd(s), {"EOS not set"}).said

\* get_next_page skips bytes to the next page.
HoleInData ==
  /\ ~done /\ holes = 0 /\ MayHole(pages)
  /\ holes' = holes + 1
  /\ UNCHANGED <<streams, in_headers, pages, done>>
  /\ Report({[says |-> "hole in data", num |-> 0, page |-> 0]})

\* No more pages: free_stream_set.
EndOfFile ==
  /\ ~done /\ done' = TRUE
  /\ streams' = [i \in DOMAIN streams |->
                   IF streams[i].end THEN streams[i] ELSE ProcessEnd(streams[i])]
  /\ UNCHANGED <<pages, in_headers, holes>>
  /\ Report(UNION {At(i, IF streams[i].end THEN {} ELSE LeftOpen(streams[i]))
                     : i \in DOMAIN streams}
            \cup (IF pages = <<>> THEN At(0, {"no Ogg data"}) ELSE {}))

Next == ReadPage \/ HoleInData \/ EndOfFile

Spec == Init /\ [][Next]_vars

-----------------------------------------------------------------------------
(* What a correct file is, independently of how opusinfo goes through it.  *)

\* The positions, in the file, of the pages of one stream.
Own(serial) == SelectSeq([i \in DOMAIN pages |-> i], LAMBDA i : pages[i].serial = serial)
PagesOf(serial) == [i \in DOMAIN Own(serial) |-> pages[Own(serial)[i]]]
Found == {pages[i].serial : i \in DOMAIN pages}

\* Flags and page numbers of one logical stream, and one packet on its first page.
Framed(p) ==
  /\ \A i \in DOMAIN p : /\ p[i].bos <=> i = 1
                         /\ p[i].eos <=> i = Len(p)
                         /\ p[i].pageno = i - 1
  /\ Len(p[1].packets) = 1

\* Ogg: all streams of a group begin before any of them goes on, and the next group
\* begins when all of them have ended.
FirstOf(serial) == Own(serial)[1]
EndsBefore(serial, n) == \E i \in DOMAIN pages :
                           i < n /\ pages[i].serial = serial /\ pages[i].eos
Grouped ==
  \A new \in Found : \A i \in 1 .. FirstOf(new) - 1 :
    i # FirstOf(pages[i].serial) =>
      \A old \in Found : FirstOf(old) < i => EndsBefore(old, FirstOf(new))

\* An Opus stream: its header packets alone on their pages, then audio packets.
Samples(packets) == FoldLeft(LAMBDA n, packet : n + packet.n, 0, packets)
IsHeader(p, i) == \A j \in 1 .. i - 1 : \A k \in DOMAIN p[j].packets :
                    p[j].packets[k].kind # "tags"
HeaderPages(p) == {i \in DOMAIN p : IsHeader(p, i)}
Headers(p) == FlattenSeq([i \in 1 .. Cardinality(HeaderPages(p)) |-> p[i].packets])
HeadersGood(p, but) ==
  /\ \A i \in HeaderPages(p) : Len(p[i].packets) <= 1
  /\ [i \in DOMAIN Headers(p) |-> Headers(p)[i].kind] = <<"head", "tags">>
  /\ \A h \in {Headers(p)[1].header} : HeadGood(h, but) /\ h.preskip >= MinPreskip
  /\ \A t \in {Headers(p)[2].tags} : TagsGood(t, but)

\* RFC 7845, section 4: from some start time on, every page that completes a packet
\* is stamped with the time at its end; only the last may be stamped earlier, by
\* at most its last packet.
SamplesUpTo(p, i) == Samples(FlattenSeq([j \in 1 .. i |->
                       IF IsHeader(p, j) THEN <<>> ELSE p[j].packets]))
Data(p) == {i \in DOMAIN p : ~IsHeader(p, i)}
Timed(p) == {i \in Data(p) : p[i].packets # <<>>}
Stamped(p, start) ==
  \A i \in Data(p) :
    IF p[i].packets = <<>> THEN p[i].granulepos <= 0
    ELSE LET due == start + SamplesUpTo(p, i)
         IN IF p[i].eos
            THEN p[i].granulepos \in due - Last(p[i].packets).n .. due
            ELSE p[i].granulepos = due

\* Of the possible starts the earliest, which leaves the least to be trimmed.
Starts(p) == {start \in 0 .. p[Max(Timed(p))].granulepos : Stamped(p, start)}
Length(p) == p[Max(Timed(p))].granulepos - Min(Starts(p)) - Headers(p)[1].header.preskip

\* No page takes five seconds, which opusinfo asks beyond the RFC, as it asks for a
\* plausible pre-skip.
OpusGood(p, but) ==
  /\ HeadersGood(p, but)
  /\ Timed(p) # {}
  /\ \A i \in Timed(p) : Samples(p[i].packets) < MaxDelay
  /\ \A i \in Data(p) : \A k \in DOMAIN p[i].packets : p[i].packets[k].kind = "audio"
  /\ \A i \in Timed(p) : p[i].granulepos > 0
  /\ Starts(p) # {}
  /\ Length(p) >= 0

IsOpus(p) == p[1].packets[1].kind = "head"

FileGood(but) ==
  /\ pages # <<>> /\ holes = 0
  /\ Grouped
  /\ \A p \in {PagesOf(serial) : serial \in Found} :
       Framed(p) /\ (IsOpus(p) => OpusGood(p, but))

-----------------------------------------------------------------------------
(* Correctness.                                                            *)

TypeOK ==
  /\ in_headers \in BOOLEAN /\ done \in BOOLEAN /\ flawed \in BOOLEAN
  /\ \A i \in DOMAIN streams :
       LET s == streams[i] IN
       /\ s.serial \in Serials /\ s.type \in {"opus", "other", "invalid"}
       /\ s.data \in {"none", "live", "freed"}
       /\ s.constraint \in {"none", "muxing violated", "page after EOS"}
       /\ s.isillegal <=> s.constraint # "none"
       /\ s.seqno \in Nat
  /\ \A i, j \in DOMAIN streams : streams[i].serial = streams[j].serial => i = j


SaidViolated(i) == \E m \in messages : m.says = "muxing violated" /\ m.num = i

\* The state of an Opus stream is freed by process_end and not touched after; at
\* the end of the file it was summarised, unless its pages were refused from the
\* start and it has ended.
EndedOnce ==
  \A i \in DOMAIN streams : LET s == streams[i] IN
    /\ ~s.misused
    /\ done /\ s.type = "opus" => s.data = "freed" \/ (s.end /\ SaidViolated(i))

\* Of a file without flaws the length printed for an Opus stream is the one a
\* player would play: from the pre-skip to the last granule position.
LengthExact ==
  done /\ ~flawed => \A i \in DOMAIN streams :
    streams[i].type = "opus" =>
      PlaybackLength(streams[i].inf) = Length(PagesOf(streams[i].serial))

\* A page number gap is reported, unless the gap goes on from the page before.
InOrder(p, i) == i = 1 \/ p[i].pageno = p[i - 1].pageno + 1
GapsReported ==
  \A i \in DOMAIN streams :
    LET own == Own(streams[i].serial)
        p   == PagesOf(streams[i].serial)
    IN \A k \in DOMAIN p :
         k > 1 /\ ~InOrder(p, k) /\ InOrder(p, k - 1)
           /\ (\A j \in 1 .. k - 1 : ~p[j].eos)
           => [says |-> "gap", num |-> i, page |-> own[k]] \in messages
=============================================================================
