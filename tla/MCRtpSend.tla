----------------------------- MODULE MCRtpSend -----------------------------
(* RtpSend on every file of up to four items: the pages of an Opus stream,  *)
(* some of which may be missing, pages of another stream and damaged pages. *)
(* A second has 4 time units, packets last 1 to 3.                          *)
EXTENDS RtpSend, FiniteSetsExt

P(kind, n, id) == [kind |-> kind, n |-> n, id |-> id]
Page(s, n, packets) ==
  [kind |-> "page", serial |-> s, bos |-> n = 0, pageno |-> n, packets |-> packets]

Items ==
  {Page(1, 0, <<P("head", 0, 1)>>), Page(1, 1, <<P("tags", 0, 2)>>),
   Page(1, 2, <<P("audio", 3, 3), P("bad", 0, 4), P("audio", 2, 5)>>),
   Page(1, 3, <<P("audio", 3, 6), P("audio", 1, 7)>>),
   Page(2, 0, <<P("bad", 0, 1)>>), Page(2, 1, <<P("audio", 1, 2)>>),
   [kind |-> "junk"]}

MCFiles == {f \in UNION {[1 .. n -> Items] : n \in 0 .. 4} :
              \A i, j \in DOMAIN f : i < j /\ f[i].kind = "page" /\ f[j].kind = "page"
                /\ f[i].serial = f[j].serial => f[i].pageno < f[j].pageno}
MCFirstSeqs == {65534}
=============================================================================
