--------------------------- MODULE OpusInfoProofs ---------------------------
(***************************************************************************)
(* That opusinfo tears every logical stream down once, for any number of   *)
(* streams whose pages come in any order and with any flags.               *)
(***************************************************************************)
EXTENDS OpusInfo, TLAPS

\* The fields of a stream; what info_opus.c keeps in inf does not matter here.
Stream(s) ==
  /\ s = [serial |-> s.serial, type |-> s.type, isillegal |-> s.isillegal,
          constraint |-> s.constraint, shownillegal |-> s.shownillegal, isnew |-> s.isnew,
          start |-> s.start, end |-> s.end, seqno |-> s.seqno, lostseq |-> s.lostseq,
          data |-> s.data, inf |-> s.inf, misused |-> s.misused, said |-> s.said]
  /\ s.serial \in Serials /\ s.type \in {"opus", "other", "invalid"}
  /\ s.data \in {"none", "live", "freed"} /\ (s.type = "opus" <=> s.data # "none")
  /\ s.constraint \in {"none", "muxing violated", "page after EOS"}
  /\ s.seqno \in Nat
  /\ s.isillegal \in BOOLEAN /\ (s.isillegal <=> s.constraint # "none")
  /\ s.end \in BOOLEAN /\ s.misused = FALSE

\* A stream between two pages.  One that has ended is illegal, and so is one that is
\* freed: this is what keeps later pages from it.
Settled(s) ==
  /\ Stream(s)
  /\ s.end => s.isillegal
  /\ s.data = "freed" => s.end

\* An Opus stream that is illegal though it is not freed was so from its first page.
Live(s) == s.data = "live" /\ s.isillegal

Listed == streams = [i \in 1 .. Len(streams) |-> streams[i]] /\ Len(streams) \in Nat

\* While the file is read, and after it.
Reading == \A i \in 1 .. Len(streams) :
             Settled(streams[i]) /\ (Live(streams[i]) => SaidViolated(i))
Closed  == \A i \in 1 .. Len(streams) :
             Stream(streams[i]) /\ (streams[i].data = "live" => streams[i].end /\ SaidViolated(i))
Flags   == in_headers \in BOOLEAN /\ done \in BOOLEAN /\ flawed \in BOOLEAN
Distinct == \A i, j \in 1 .. Len(streams) : streams[i].serial = streams[j].serial => i = j

IInv == Listed /\ Flags /\ Distinct /\ (IF done THEN Closed ELSE Reading)
-----------------------------------------------------------------------------
(* What the steps of process_file do to the record of a stream.            *)

\* t is s but for what is not about its life.
Alike(t, s) ==
  /\ t.serial = s.serial /\ t.type = s.type /\ t.isillegal = s.isillegal
  /\ t.constraint = s.constraint /\ t.end = s.end /\ t.data = s.data /\ t.misused = s.misused
More(t, s)  == Stream(t) /\ Alike(t, s) /\ s.said \subseteq t.said

LEMMA MoreAndMore == ASSUME NEW r, NEW s, NEW t, More(s, r), More(t, s) PROVE More(t, r)
BY DEF More, Alike

LEMMA Saying ==
  ASSUME NEW s, Stream(s), NEW what
  PROVE  More(Says(s, what), s) /\ what \subseteq Says(s, what).said
<1>1. Says(s, what) = [s EXCEPT !.said = s.said \cup what]
  BY DEF Says
<1>2. Stream(Says(s, what))
  BY <1>1 DEF Stream
<1>3. Alike(Says(s, what), s) /\ Says(s, what).said = s.said \cup what
  BY <1>1 DEF Alike, Stream
<1> QED
  BY <1>2, <1>3 DEF More

LEMMA Sequencing ==
  ASSUME NEW s, Stream(s), NEW page, IsPage(page)
  PROVE  More(Sequence(s, page), s)
<1> USE DEF IsPage
<1>1. CASE s.seqno = page.pageno
  <2>1. Sequence(s, page) = [s EXCEPT !.seqno = s.seqno + 1, !.lostseq = FALSE]
    BY <1>1 DEF Sequence
  <2>2. s.seqno + 1 \in Nat
    <3>1. s.seqno \in Nat
      BY DEF Stream
    <3> QED
      BY <3>1
  <2>3. Stream(Sequence(s, page)) /\ Alike(Sequence(s, page), s)
    BY <2>1, <2>2 DEF Stream, Alike
  <2>4. Sequence(s, page).said = s.said
    BY <2>1 DEF Stream
  <2> QED
    BY <2>3, <2>4 DEF More
<1>2. CASE s.seqno # page.pageno
  <2>1. PICK t : t = [s EXCEPT !.seqno = page.pageno, !.lostseq = TRUE]
    OBVIOUS
  <2>2. Stream(t) /\ Alike(t, s) /\ t.said = s.said
    BY <2>1 DEF Stream, Alike
  <2>3. More(t, s)
    BY <2>2 DEF More
  <2>4. PICK what : Sequence(s, page) = Says(t, what)
    BY <1>2, <2>1 DEF Sequence
  <2> QED
    BY <2>2, <2>3, <2>4, Saying, MoreAndMore
<1> QED
  BY <1>1, <1>2

\* A new stream that is illegal is said to be so.
LEMMA Checking ==
  ASSUME NEW s, Stream(s), NEW page, IsPage(page)
  PROVE  /\ More(Check(s, page), s)
         /\ s.isillegal /\ ~s.shownillegal /\ s.isnew => s.constraint \in Check(s, page).said
<1>1. PICK shown : shown = IF s.isillegal /\ ~s.shownillegal
                          THEN Says([s EXCEPT !.shownillegal = TRUE], {s.constraint}) ELSE s
  OBVIOUS
<1>2. More(shown, s) /\ (s.isillegal /\ ~s.shownillegal => s.constraint \in shown.said)
  <2>1. CASE s.isillegal /\ ~s.shownillegal
    <3>1. PICK t : t = [s EXCEPT !.shownillegal = TRUE]
      OBVIOUS
    <3>2. Stream(t) /\ Alike(t, s) /\ t.said = s.said
      BY <3>1 DEF Stream, Alike
    <3>3. More(t, s)
      BY <3>2 DEF More
    <3>4. shown = Says(t, {s.constraint})
      BY <1>1, <2>1, <3>1
    <3> QED
      BY <3>2, <3>3, <3>4, Saying, MoreAndMore
  <2>2. CASE ~(s.isillegal /\ ~s.shownillegal)
    BY <1>1, <2>2 DEF More, Alike
  <2> QED
    BY <2>1, <2>2
<1>3. \/ Check(s, page) = shown
      \/ \E flags : Check(s, page) = Sequence(Says(shown, flags), page)
  BY <1>1 DEF Check
<1>4. CASE Check(s, page) = shown
  BY <1>2, <1>4
<1>5. ASSUME NEW flags, Check(s, page) = Sequence(Says(shown, flags), page)
      PROVE  More(Check(s, page), s) /\ shown.said \subseteq Check(s, page).said
  <2>1. Stream(shown)
    BY <1>2 DEF More
  <2>2. More(Says(shown, flags), shown)
    BY <2>1, Saying
  <2>3. Stream(Says(shown, flags))
    BY <2>2 DEF More
  <2>4. More(Check(s, page), Says(shown, flags))
    BY <1>5, <2>3, Sequencing
  <2>5. More(Check(s, page), shown)
    BY <2>2, <2>4, MoreAndMore
  <2> QED
    BY <1>2, <2>5, MoreAndMore DEF More
<1> QED
  BY <1>2, <1>3, <1>4, <1>5

\* A stream that is not freed can be.
LEMMA Ending ==
  ASSUME NEW s, Stream(s), s.data # "freed"
  PROVE  /\ Stream(ProcessEnd(s)) /\ ProcessEnd(s).data # "live"
         /\ ProcessEnd(s).serial = s.serial /\ ProcessEnd(s).end = s.end
         /\ ProcessEnd(s).type = s.type
<1>1. CASE s.type # "opus"
  BY <1>1 DEF ProcessEnd, Stream
<1>2. CASE s.type = "opus"
  <2>1. PICK t : t = [s EXCEPT !.data = "freed", !.misused = s.misused \/ s.data # "live"]
    OBVIOUS
  <2>2. s.data = "live"
    BY <1>2 DEF Stream
  <2>3. t = [s EXCEPT !.data = "freed", !.misused = FALSE]
    BY <2>1, <2>2 DEF Stream
  <2>4. Stream(t) /\ t.serial = s.serial /\ t.end = s.end /\ t.type = s.type /\ t.data = "freed"
    BY <1>2, <2>3 DEF Stream
  <2>5. ProcessEnd(s) = Says(t, EndSays(s.inf))
    BY <1>2, <2>1 DEF ProcessEnd
  <2>6. More(ProcessEnd(s), t)
    BY <2>4, <2>5, Saying
  <2> QED
    BY <2>4, <2>6 DEF More, Alike
<1> QED
  BY <1>1, <1>2

\* A page that is handed on frees the stream if it is the last one.
LEMMA Handing ==
  ASSUME NEW s, Stream(s), s.data = "freed" => s.isillegal, NEW a
  PROVE  /\ Stream(Hand(s, a))
         /\ Hand(s, a).serial = s.serial /\ Hand(s, a).end = s.end
         /\ Hand(s, a).type = s.type
         /\ s.isillegal => Hand(s, a) = s
         /\ ~s.isillegal => \/ Hand(s, a).isillegal /\ s.end /\ Hand(s, a).data # "live"
                            \/ ~Hand(s, a).isillegal /\ ~s.end /\ Hand(s, a).data # "freed"
<1>1. CASE s.isillegal
  BY <1>1 DEF Hand
<1>2. CASE ~s.isillegal
  <2>1. PICK read : read = ProcessPage(s, a)
    OBVIOUS
  <2>2. /\ Stream(read) /\ read.serial = s.serial /\ read.end = s.end /\ read.type = s.type
        /\ read.isillegal = s.isillegal /\ read.data = s.data
    <3>1. CASE s.type # "opus"
      BY <2>1, <3>1 DEF ProcessPage
    <3>2. CASE s.type = "opus"
      <4>1. PICK t : t = [s EXCEPT !.inf = a.inf, !.misused = s.misused \/ s.data # "live"]
        OBVIOUS
      <4>2. s.data = "live"
        BY <1>2, <3>2 DEF Stream
      <4>3. t = [s EXCEPT !.inf = a.inf, !.misused = FALSE]
        BY <4>1, <4>2 DEF Stream
      <4>4. Stream(t) /\ Alike(t, s)
        BY <4>3 DEF Stream, Alike
      <4>5. read = Says(t, a.said)
        BY <2>1, <3>2, <4>1 DEF ProcessPage
      <4>6. More(read, t)
        BY <4>4, <4>5, Saying
      <4> QED
        BY <4>4, <4>6 DEF More, Alike
    <3> QED
      BY <3>1, <3>2
  <2>3. Hand(s, a) = EndIfLast(read)
    BY <1>2, <2>1 DEF Hand
  <2>4. CASE ~read.end
    <3>1. Hand(s, a) = read
      BY <2>3, <2>4 DEF EndIfLast
    <3> QED
      BY <1>2, <2>2, <2>4, <3>1
  <2>5. CASE read.end
    <3>1. read.data # "freed"
      BY <1>2, <2>2
    <3>2. PICK ended : ended = ProcessEnd(read)
      OBVIOUS
    <3>3. /\ Stream(ended) /\ ended.serial = read.serial /\ ended.end = read.end
          /\ ended.type = read.type /\ ended.data # "live"
      BY <2>2, <3>1, <3>2, Ending
    <3>4. PICK t : t = [ended EXCEPT !.isillegal = TRUE, !.constraint = "page after EOS"]
      OBVIOUS
    <3>5. /\ Stream(t) /\ t.serial = ended.serial /\ t.end = ended.end
          /\ t.type = ended.type /\ t.data = ended.data /\ t.isillegal
      BY <3>3, <3>4 DEF Stream
    <3>6. Hand(s, a) = Says(t, {"ended"})
      BY <2>3, <2>5, <3>2, <3>4 DEF EndIfLast, EndOfStream
    <3>7. More(Hand(s, a), t)
      BY <3>5, <3>6, Saying
    <3> QED
      BY <1>2, <2>2, <2>5, <3>3, <3>5, <3>7 DEF More, Alike
  <2> QED
    BY <2>2, <2>4, <2>5 DEF Stream
<1> QED
  BY <1>1, <1>2 DEF Stream

-----------------------------------------------------------------------------
(* The steps.                                                              *)

LEMMA Reporting ==
  ASSUME NEW what, Report(what), flawed \in BOOLEAN
  PROVE  flawed' \in BOOLEAN /\ messages \subseteq messages' /\ what \subseteq messages'
<1>1. messages \subseteq messages' /\ what \subseteq messages'
  BY DEF Report
<1>2. flawed' = (flawed \/ \E m \in what : m.says \notin Informs)
  BY DEF Report
<1> QED
  BY <1>1, <1>2

\* The record of stream i after a page, when it was s before.
Becomes(i, others, s, t) ==
  /\ streams' = [others EXCEPT ![i] = t]
  /\ Settled(t) /\ t.serial = s.serial
  /\ Live(t) => SaidViolated(i)'

\* What process_file does with the record s of stream i: it stays illegal once it is,
\* and is freed when it ends, unless its pages were refused from the first one on.
LEMMA Settling ==
  ASSUME NEW page, IsPage(page), NEW i, NEW others, NEW s, Settle(i, s, others, page),
         flawed \in BOOLEAN, Stream(s), s.data = "freed" => s.isillegal /\ s.end,
         Live(s) => \/ SaidViolated(i)
                    \/ s.isnew /\ ~s.shownillegal /\ s.constraint = "muxing violated"
  PROVE  /\ UNCHANGED done /\ flawed' \in BOOLEAN /\ messages \subseteq messages'
         /\ \E t : Becomes(i, others, s, t)
<1>1. PICK checked, a, t :
        /\ checked = Check(s, page) /\ t = Hand(checked, a)
        /\ streams' = [others EXCEPT ![i] = [t EXCEPT !.said = {}]]
        /\ Report(At(i, t.said))
        /\ UNCHANGED done
  BY DEF Settle
<1>2. More(checked, s) /\ (s.isillegal /\ ~s.shownillegal /\ s.isnew => s.constraint \in checked.said)
  BY <1>1, Checking
<1>3. Stream(checked) /\ (checked.data = "freed" => checked.isillegal /\ checked.end)
  BY <1>2 DEF More, Alike
<1>4. /\ Stream(t) /\ t.serial = checked.serial /\ t.end = checked.end
      /\ checked.isillegal => t = checked
      /\ ~checked.isillegal => \/ t.isillegal /\ checked.end /\ t.data # "live"
                               \/ ~t.isillegal /\ ~checked.end /\ t.data # "freed"
  <2>1. checked.data = "freed" => checked.isillegal
    BY <1>3
  <2>2. /\ Stream(Hand(checked, a)) /\ Hand(checked, a).serial = checked.serial
        /\ Hand(checked, a).end = checked.end
        /\ checked.isillegal => Hand(checked, a) = checked
        /\ ~checked.isillegal =>
             \/ Hand(checked, a).isillegal /\ checked.end /\ Hand(checked, a).data # "live"
             \/ ~Hand(checked, a).isillegal /\ ~checked.end /\ Hand(checked, a).data # "freed"
    BY <1>3, <2>1, Handing
  <2> QED
    BY <1>1, <2>2
<1>5. flawed' \in BOOLEAN /\ messages \subseteq messages' /\ At(i, t.said) \subseteq messages'
  BY <1>1, Reporting
<1>6. Live(t) => SaidViolated(i)'
  <2> SUFFICES ASSUME Live(t) PROVE SaidViolated(i)'
    OBVIOUS
  <2>1. checked.isillegal /\ t = checked
    BY <1>4 DEF Live
  <2>2. Live(s)
    BY <1>2, <2>1 DEF Live, More, Alike
  <2>3. CASE SaidViolated(i)
    BY <1>5, <2>3 DEF SaidViolated
  <2>4. CASE s.isnew /\ ~s.shownillegal /\ s.constraint = "muxing violated"
    <3>1. "muxing violated" \in t.said
      BY <1>2, <2>1, <2>2, <2>4 DEF Live
    <3>2. PICK m : m = [says |-> "muxing violated", num |-> i, page |-> Len(pages')]
      OBVIOUS
    <3>3. m \in At(i, t.said)
      BY <3>1, <3>2 DEF At
    <3>4. m.says = "muxing violated" /\ m.num = i
      BY <3>2
    <3> QED
      BY <1>5, <3>3, <3>4 DEF SaidViolated
  <2> QED
    BY <2>2, <2>3, <2>4
<1>7. PICK u : u = [t EXCEPT !.said = {}]
  OBVIOUS
<1>8. Stream(u) /\ Alike(u, t)
  BY <1>4, <1>7 DEF Stream, Alike
<1>9. (t.end => t.isillegal) /\ (t.data = "freed" => t.end)
  BY <1>3, <1>4
<1>10. Settled(u) /\ u.serial = s.serial /\ (Live(u) => SaidViolated(i)')
  BY <1>2, <1>4, <1>6, <1>8, <1>9 DEF Settled, Live, Alike, More
<1> QED
  BY <1>1, <1>5, <1>7, <1>10 DEF Becomes

LEMMA StartingStream ==
  ASSUME NEW page, IsPage(page)
  PROVE  /\ Stream(StartStream(page)) /\ StartStream(page).data # "freed"
         /\ StartStream(page).serial = page.serial
         /\ StartStream(page).isnew /\ ~StartStream(page).shownillegal
         /\ StartStream(page).isillegal => StartStream(page).constraint = "muxing violated"
<1>1. PICK type, violated, said, s :
        /\ type = TypeOf(page) /\ violated = MuxingViolated /\ said = HeaderSays(page)
        /\ s = StartStream(page)
  OBVIOUS
<1>2. type \in {"opus", "other", "invalid"}
  BY <1>1 DEF TypeOf
<1>3. violated \in BOOLEAN
  BY <1>1 DEF MuxingViolated
<1>4. s = [serial |-> page.serial, type |-> type, isillegal |-> violated,
           constraint |-> IF violated THEN "muxing violated" ELSE "none",
           shownillegal |-> FALSE, isnew |-> TRUE, start |-> page.bos, end |-> page.eos,
           seqno |-> page.pageno, lostseq |-> FALSE,
           data |-> IF type = "opus" THEN "live" ELSE "none",
           inf |-> NewInf, misused |-> FALSE, said |-> said]
  BY <1>1 DEF StartStream
<1>5. Stream(s)
  BY <1>2, <1>3, <1>4 DEF Stream, IsPage
<1>6. /\ s.data # "freed" /\ s.serial = page.serial /\ s.isnew /\ ~s.shownillegal
      /\ s.isillegal => s.constraint = "muxing violated"
  BY <1>2, <1>3, <1>4
<1> QED
  BY <1>1, <1>5, <1>6

LEMMA Appended ==
  ASSUME NEW X, NEW q \in Seq(X), NEW s \in X, NEW n \in Nat, n = Len(q)
  PROVE  Append(q, s) = [i \in 1 .. n + 1 |-> IF i = n + 1 THEN s ELSE q[i]]
<1>1. Append(q, s) \in Seq(X) /\ Len(Append(q, s)) = n + 1
  OBVIOUS
<1>2. \A i \in 1 .. n + 1 : Append(q, s)[i] = IF i = n + 1 THEN s ELSE q[i]
  OBVIOUS
<1>3. Append(q, s) = [i \in 1 .. n + 1 |-> Append(q, s)[i]]
  <2>1. PICK z : z = Append(q, s)
    OBVIOUS
  <2>2. z \in Seq(X) /\ Len(z) = n + 1
    BY <1>1, <2>1
  <2>3. z = [i \in 1 .. n + 1 |-> z[i]]
    BY <2>2
  <2> QED
    BY <2>1, <2>3
<1> QED
  BY <1>2, <1>3

LEMMA NewStep ==
  ASSUME IInv, NEW page, IsPage(page), NewStream(page)
  PROVE  IInv'
<1>1. ~done /\ Reading /\ Listed /\ Distinct /\ flawed \in BOOLEAN
  BY DEF NewStream, IInv, Flags
<1>2. in_headers' = TRUE /\ \A i \in 1 .. Len(streams) : streams[i].serial # page.serial
  BY <1>1 DEF NewStream, Known, Listed
<1>3. PICK n \in Nat : n = Len(streams)
  BY <1>1 DEF Listed
<1> PICK k : k = n + 1
  OBVIOUS
<1>4. PICK s, appended :
        s = StartStream(page) /\ appended = Append(streams, s) /\ Settle(k, s, appended, page)
  BY <1>3 DEF NewStream
<1>5. /\ UNCHANGED done /\ flawed' \in BOOLEAN /\ messages \subseteq messages'
      /\ \E t : Becomes(k, appended, s, t)
  <2>1. /\ Stream(s) /\ s.data # "freed" /\ s.isnew /\ ~s.shownillegal
        /\ s.isillegal => s.constraint = "muxing violated"
    BY <1>4, StartingStream
  <2>2. Live(s) => \/ SaidViolated(k)
                   \/ s.isnew /\ ~s.shownillegal /\ s.constraint = "muxing violated"
    BY <2>1 DEF Live
  <2>3. Settle(k, s, appended, page) /\ flawed \in BOOLEAN /\ Stream(s)
        /\ (s.data = "freed" => s.isillegal /\ s.end)
    BY <1>1, <1>4, <2>1
  <2> QED
    BY <2>2, <2>3, Settling
<1>6. PICK t :
        /\ streams' = [appended EXCEPT ![k] = t]
        /\ Settled(t) /\ t.serial = s.serial
        /\ Live(t) => SaidViolated(k)'
  BY <1>5 DEF Becomes
<1>7. streams' = [i \in 1 .. n + 1 |-> IF i = n + 1 THEN t ELSE streams[i]]
  <2>1. streams = [i \in 1 .. n |-> streams[i]]
    BY <1>1, <1>3 DEF Listed
  <2>2. PICK X : X = {streams[i] : i \in 1 .. n} \cup {s}
    OBVIOUS
  <2>3. streams \in Seq(X) /\ s \in X
    BY <2>1, <2>2
  <2>4. appended = [i \in 1 .. n + 1 |-> IF i = n + 1 THEN s ELSE streams[i]]
    BY <1>3, <1>4, <2>3, Appended
  <2> QED
    BY <1>6, <2>4
<1>8. /\ Len(streams') = n + 1 /\ streams'[n + 1] = t
      /\ \A i \in 1 .. n : streams'[i] = streams[i]
      /\ Listed'
  BY <1>3, <1>7 DEF Listed
<1>9. Distinct'
  <2>1. t.serial = page.serial
    BY <1>4, <1>6, StartingStream
  <2>2. \A i \in 1 .. n + 1 : i \in 1 .. n \/ i = n + 1
    OBVIOUS
  <2>3. \A i, j \in 1 .. n : streams[i].serial = streams[j].serial => i = j
    BY <1>1, <1>3 DEF Distinct
  <2> QED
    BY <1>2, <1>3, <1>8, <2>1, <2>2, <2>3 DEF Distinct
<1>10. Reading'
  <2>1. \A i \in 1 .. n : Settled(streams[i]) /\ (Live(streams[i]) => SaidViolated(i))
    BY <1>1, <1>3 DEF Reading
  <2>2. \A i \in 1 .. n : SaidViolated(i) => SaidViolated(i)'
    BY <1>5 DEF SaidViolated
  <2>3. \A i \in 1 .. n + 1 : i \in 1 .. n \/ i = n + 1
    OBVIOUS
  <2>4. \A i \in 1 .. n + 1 :
          Settled(streams'[i]) /\ (Live(streams'[i]) => SaidViolated(i)')
    BY <1>6, <1>8, <2>1, <2>2, <2>3
  <2>5. Reading' <=> \A i \in 1 .. n + 1 :
                       Settled(streams'[i]) /\ (Live(streams'[i]) => SaidViolated(i)')
    BY <1>8 DEF Reading, Settled, Stream, Live, SaidViolated
  <2> QED
    BY <2>4, <2>5
<1> QED
  BY <1>1, <1>2, <1>5, <1>8, <1>9, <1>10 DEF IInv, Flags

\* A stream that has ended resumes as an illegal one.
LEMMA Resuming ==
  ASSUME NEW s, Settled(s), NEW page, IsPage(page)
  PROVE  /\ Stream(Resume(s, page)) /\ Resume(s, page).serial = s.serial
         /\ Resume(s, page).data = "freed" => Resume(s, page).isillegal /\ Resume(s, page).end
         /\ Live(Resume(s, page)) => Live(s)
<1>1. PICK r : r = Resume(s, page)
  OBVIOUS
<1>2. Stream(s) /\ (s.end => s.isillegal) /\ (s.data = "freed" => s.end)
  BY DEF Settled
<1>3. CASE s.end
  <2>1. r = [s EXCEPT !.isillegal = TRUE, !.constraint = "page after EOS"]
    BY <1>1, <1>3 DEF Resume
  <2>2. /\ Stream(r) /\ r.serial = s.serial /\ r.isillegal /\ r.end /\ r.data = s.data
    BY <1>2, <1>3, <2>1 DEF Stream
  <2> QED
    BY <1>1, <1>2, <1>3, <2>2 DEF Live
<1>4. CASE ~s.end
  <2>1. r = [s EXCEPT !.isnew = FALSE, !.start = page.bos, !.end = page.eos]
    BY <1>1, <1>4 DEF Resume
  <2>2. /\ Stream(r) /\ r.serial = s.serial /\ r.isillegal = s.isillegal /\ r.data = s.data
    BY <1>2, <2>1 DEF Stream, IsPage
  <2> QED
    BY <1>1, <1>2, <1>4, <2>2 DEF Live
<1> QED
  BY <1>3, <1>4

LEMMA KnownStep ==
  ASSUME IInv, NEW page, IsPage(page), KnownStream(page)
  PROVE  IInv'
<1>1. ~done /\ Reading /\ Listed /\ Distinct /\ flawed \in BOOLEAN /\ in_headers' = FALSE
  BY DEF KnownStream, IInv, Flags
<1>2. PICK n \in Nat : n = Len(streams)
  BY <1>1 DEF Listed
<1> PICK k \in 1 .. n : Settle(k, Resume(streams[k], page), streams, page)
  BY <1>1, <1>2 DEF KnownStream, Known, Listed
<1>3. PICK s : s = Resume(streams[k], page) /\ Settle(k, s, streams, page)
  OBVIOUS
<1>4. PICK q : q = streams
  OBVIOUS
<1>5. /\ UNCHANGED done /\ flawed' \in BOOLEAN /\ messages \subseteq messages'
      /\ \E t : Becomes(k, q, s, t)
  <2>1. Settled(streams[k]) /\ (Live(streams[k]) => SaidViolated(k))
    BY <1>1, <1>2 DEF Reading
  <2>2. /\ Stream(s) /\ (s.data = "freed" => s.isillegal /\ s.end)
        /\ Live(s) => Live(streams[k])
    BY <1>3, <2>1, Resuming
  <2>3. Live(s) => \/ SaidViolated(k)
                   \/ s.isnew /\ ~s.shownillegal /\ s.constraint = "muxing violated"
    BY <2>1, <2>2
  <2>4. Settle(k, s, q, page)
    BY <1>3, <1>4
  <2> QED
    BY <1>1, <2>2, <2>3, <2>4, Settling
<1>6. PICK t :
        /\ streams' = [q EXCEPT ![k] = t]
        /\ Settled(t) /\ t.serial = s.serial
        /\ Live(t) => SaidViolated(k)'
  BY <1>5 DEF Becomes
<1>7. streams' = [i \in 1 .. n |-> IF i = k THEN t ELSE streams[i]]
  <2>1. streams = [i \in 1 .. n |-> streams[i]]
    BY <1>1, <1>2 DEF Listed
  <2> QED
    BY <1>4, <1>6, <2>1
<1>8. /\ Len(streams') = n /\ streams'[k] = t
      /\ \A i \in 1 .. n : i # k => streams'[i] = streams[i]
      /\ Listed'
  BY <1>7 DEF Listed
<1>9. Distinct'
  <2>1. t.serial = streams[k].serial
    <3>1. Settled(streams[k])
      BY <1>1, <1>2 DEF Reading
    <3> QED
      BY <1>3, <1>6, <3>1, Resuming
  <2>2. \A i \in 1 .. n : streams'[i].serial = streams[i].serial
    BY <1>8, <2>1
  <2>3. \A i, j \in 1 .. n : streams[i].serial = streams[j].serial => i = j
    BY <1>1, <1>2 DEF Distinct
  <2> QED
    BY <1>8, <2>2, <2>3 DEF Distinct
<1>10. Reading'
  <2>1. \A i \in 1 .. n : Settled(streams[i]) /\ (Live(streams[i]) => SaidViolated(i))
    BY <1>1, <1>2 DEF Reading
  <2>2. \A i \in 1 .. n : SaidViolated(i) => SaidViolated(i)'
    BY <1>5 DEF SaidViolated
  <2>3. \A i \in 1 .. n :
          Settled(streams'[i]) /\ (Live(streams'[i]) => SaidViolated(i)')
    BY <1>6, <1>8, <2>1, <2>2
  <2>4. Reading' <=> \A i \in 1 .. n :
                       Settled(streams'[i]) /\ (Live(streams'[i]) => SaidViolated(i)')
    BY <1>8 DEF Reading, Settled, Stream, Live, SaidViolated
  <2> QED
    BY <2>3, <2>4
<1> QED
  BY <1>1, <1>5, <1>8, <1>9, <1>10 DEF IInv, Flags

LEMMA HoleStep == IInv /\ HoleInData => IInv'
<1> SUFFICES ASSUME IInv, HoleInData PROVE IInv'
  OBVIOUS
<1>1. ~done /\ ~done' /\ UNCHANGED <<streams, in_headers>> /\ flawed \in BOOLEAN
  BY DEF HoleInData, IInv, Flags
<1>2. flawed' \in BOOLEAN /\ messages \subseteq messages'
  BY <1>1, Reporting DEF HoleInData
<1>3. Listed' /\ Distinct' /\ Flags'
  <2>1. Listed /\ Distinct /\ Flags /\ streams' = streams /\ in_headers' = in_headers
    BY <1>1 DEF IInv
  <2>2. done' = done /\ done \in BOOLEAN
    BY DEF HoleInData, IInv, Flags
  <2> QED
    BY <1>2, <2>1, <2>2 DEF Listed, Distinct, Flags
<1>4. \A i \in 1 .. Len(streams) : SaidViolated(i) => SaidViolated(i)'
  BY <1>2 DEF SaidViolated
<1>5. \A i \in 1 .. Len(streams) :
        Settled(streams[i]) /\ (Live(streams[i]) => SaidViolated(i)')
  BY <1>1, <1>4 DEF IInv, Reading
<1>6. Reading'
  BY <1>1, <1>5 DEF Reading, SaidViolated
<1> QED
  BY <1>1, <1>3, <1>6 DEF IInv

LEMMA EndStep == IInv /\ EndOfFile => IInv'
<1> SUFFICES ASSUME IInv, EndOfFile PROVE IInv'
  OBVIOUS
<1>1. /\ ~done /\ done' = TRUE /\ UNCHANGED in_headers
      /\ Reading /\ Listed /\ Distinct /\ Flags
  BY DEF EndOfFile, IInv
<1>2. flawed' \in BOOLEAN /\ messages \subseteq messages'
  BY <1>1, Reporting DEF EndOfFile, Flags
<1>3. PICK n \in Nat : n = Len(streams)
  BY <1>1 DEF Listed
<1>4. streams' = [i \in 1 .. n |-> IF streams[i].end THEN streams[i] ELSE ProcessEnd(streams[i])]
  <2>1. DOMAIN streams = 1 .. n
    BY <1>1, <1>3 DEF Listed
  <2> QED
    BY <2>1 DEF EndOfFile
<1>5. Len(streams') = n /\ Listed'
  BY <1>4 DEF Listed
<1>6. ASSUME NEW i \in 1 .. n
      PROVE  /\ Stream(streams'[i]) /\ streams'[i].serial = streams[i].serial
             /\ streams'[i].data = "live" => streams'[i].end /\ SaidViolated(i)'
  <2>1. Settled(streams[i]) /\ (Live(streams[i]) => SaidViolated(i))
    BY <1>1, <1>3 DEF Reading
  <2>2. SaidViolated(i) => SaidViolated(i)'
    BY <1>2 DEF SaidViolated
  <2>3. CASE streams[i].end
    <3>1. streams'[i] = streams[i]
      BY <1>4, <2>3
    <3> QED
      BY <2>1, <2>2, <2>3, <3>1 DEF Settled, Live
  <2>4. CASE ~streams[i].end
    <3>1. streams'[i] = ProcessEnd(streams[i])
      BY <1>4, <2>4
    <3>2. Stream(streams[i]) /\ streams[i].data # "freed"
      BY <2>1, <2>4 DEF Settled
    <3> QED
      BY <3>1, <3>2, Ending
  <2> QED
    BY <2>3, <2>4
<1>7. Distinct'
  BY <1>1, <1>3, <1>5, <1>6 DEF Distinct
<1>8. Closed'
  BY <1>5, <1>6 DEF Closed, Stream, SaidViolated
<1> QED
  BY <1>1, <1>2, <1>5, <1>7, <1>8 DEF IInv, Flags

LEMMA InitInvariant == Init => IInv
<1> SUFFICES ASSUME Init PROVE IInv
  OBVIOUS
<1>1. streams = <<>> /\ ~done
  BY DEF Init
<1>2. Len(streams) = 0
  BY <1>1
<1>3. Listed /\ Reading /\ Distinct
  BY <1>1, <1>2 DEF Listed, Reading, Distinct
<1> QED
  BY <1>1, <1>3 DEF Init, IInv, Flags

LEMMA NextInvariant == IInv /\ [Next]_vars => IInv'
<1> SUFFICES ASSUME IInv, [Next]_vars PROVE IInv'
  OBVIOUS
<1>1. CASE ReadPage
  <2>1. PICK page : IsPage(page) /\ (NewStream(page) \/ KnownStream(page))
    BY <1>1 DEF ReadPage
  <2> QED
    BY <2>1, NewStep, KnownStep
<1>2. CASE HoleInData
  BY <1>2, HoleStep
<1>3. CASE EndOfFile
  BY <1>3, EndStep
<1>4. CASE UNCHANGED vars
  <2>1. Listed' /\ Flags' /\ Distinct' /\ (Closed => Closed') /\ (Reading => Reading')
    BY <1>4 DEF vars, IInv, Listed, Flags, Distinct, Closed, Reading, SaidViolated
  <2> QED
    BY <1>4, <2>1 DEF vars, IInv
<1> QED
  BY <1>1, <1>2, <1>3, <1>4 DEF Next

LEMMA Invariant == Spec => []IInv
BY InitInvariant, NextInvariant, PTL DEF Spec

-----------------------------------------------------------------------------
\* Every variable keeps its type, and no two records are of the same logical stream:
\* find_stream_processor finds the one there is.
THEOREM TypeCorrect == Spec => []TypeOK
<1>1. IInv => TypeOK
  <2> SUFFICES ASSUME IInv PROVE TypeOK
    OBVIOUS
  <2>1. DOMAIN streams = 1 .. Len(streams)
    BY DEF IInv, Listed
  <2>2. \A i \in 1 .. Len(streams) : Stream(streams[i])
    BY DEF IInv, Reading, Closed, Settled
  <2>3. in_headers \in BOOLEAN /\ done \in BOOLEAN /\ flawed \in BOOLEAN /\ Distinct
    BY DEF IInv, Flags
  <2> QED
    BY <2>1, <2>2, <2>3 DEF TypeOK, Stream, Distinct
<1> QED
  BY <1>1, Invariant, PTL

\* Whatever pages follow the one with the EOS flag, stream->data is freed by process_end
\* and not used after; a stream that is not freed at the end of the file was refused
\* from its first page on, which the user was told.
THEOREM FreedOnce == Spec => []EndedOnce
<1>1. IInv => EndedOnce
  <2> SUFFICES ASSUME IInv PROVE EndedOnce
    OBVIOUS
  <2>1. DOMAIN streams = 1 .. Len(streams)
    BY DEF IInv, Listed
  <2>2. \A i \in 1 .. Len(streams) : Stream(streams[i])
    BY DEF IInv, Reading, Closed, Settled
  <2>3. ASSUME NEW i \in 1 .. Len(streams)
        PROVE  /\ ~streams[i].misused
               /\ done /\ streams[i].type = "opus" =>
                    streams[i].data = "freed" \/ (streams[i].end /\ SaidViolated(i))
    <3>1. /\ streams[i].misused = FALSE
          /\ streams[i].type = "opus" => streams[i].data \in {"live", "freed"}
      BY <2>2 DEF Stream
    <3>2. done /\ streams[i].data = "live" => streams[i].end /\ SaidViolated(i)
      BY DEF IInv, Closed
    <3> QED
      BY <3>1, <3>2
  <2> QED
    BY <2>1, <2>3 DEF EndedOnce
<1> QED
  BY <1>1, Invariant, PTL
=============================================================================
