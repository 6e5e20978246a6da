----------------------------- MODULE OpusHeader -----------------------------
(***************************************************************************)
(* opus_header_parse (src/opus_header.c), which decides whether a packet   *)
(* that starts with "OpusHead" is a header.  Such a packet is a record:    *)
(* cut (shorter than the 19 bytes every header has), version, channels,    *)
(* preskip, mapping, and tail, the bytes behind the mapping family.  The   *)
(* sampling rate and the gain are read and never judged, and left out.     *)
(***************************************************************************)
EXTENDS Integers, Sequences

\* read_chars: n more bytes behind the first `used` ones of the tail.
Readable(h, used, n) == used + n <= Len(h.tail)

StreamCounts(h) ==
  /\ Readable(h, 0, 2)
  /\ h.tail[1] >= 1
  /\ h.tail[2] <= h.tail[1]
  /\ h.tail[1] + h.tail[2] <= 255

\* Family 3 has a demixing matrix of 16-bit numbers, the others a byte per channel.
TableLength(h) ==
  IF h.mapping = 3 THEN h.channels * (h.tail[1] + h.tail[2]) * 2 ELSE h.channels

\* A byte of the table names one of the decoded channels, or is 255 for silence;
\* the code lets it be one more than the last of them.
TableValid(h) ==
  /\ Readable(h, 2, TableLength(h))
  /\ h.mapping = 3 \/ \A i \in 1 .. h.channels :
       h.tail[2 + i] <= h.tail[1] + h.tail[2] \/ h.tail[2 + i] = 255

Used(h) == IF h.mapping = 0 THEN 0 ELSE 2 + TableLength(h)


\* Nothing may follow in a header of version 0 or 1.
HeaderParses(h) ==
  /\ ~h.cut
  /\ h.version < 16
  /\ h.channels # 0
  /\ IF h.mapping = 0 THEN h.channels <= 2 ELSE StreamCounts(h) /\ TableValid(h)
  /\ h.version \in {0, 1} => Len(h.tail) = Used(h)
=============================================================================
