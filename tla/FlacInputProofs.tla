-------------------------- MODULE FlacInputProofs --------------------------
(***************************************************************************)
(* The two ends of flac.c, for every set of files and all sizes: libFLAC   *)
(* is given the bytes of the file in order, no position of a buffer leaves *)
(* it, and the encoder is given the audio of the file as FrameFeed says.   *)
(***************************************************************************)
EXTENDS FlacInput, TLAPS, SequenceTheorems, WellFoundedInduction

\* Where the bytes are that libFLAC was given: first those read for identification,
\* then those behind them.
Positions ==
  /\ file \in Files
  /\ buflen <= fpos /\ fpos <= Min(file.bytes, file.errorat)
  /\ bufpos < buflen => fpos = buflen
  /\ feof => fpos = file.bytes
  /\ fed = [b \in 1 .. bufpos + (fpos - buflen) |-> b]

\* What flac_read has read and what it has still to read make up a frame.
Counts ==
  /\ pc \in {"read", "single", "block", "copy"} => got + samples = FrameSize
  /\ pc \in {"single", "block", "copy"} => samples > 0

IInv == TypeOK /\ Positions /\ Counts /\ BytesInOrder
-----------------------------------------------------------------------------
LEMMA FileFacts ==
  ASSUME NEW f \in Files
  PROVE  /\ f.bytes \in Nat /\ f.errorat \in Nat /\ f.errorat >= IdBytes
         /\ f.items \in Seq(Element) /\ Len(f.items) \in Nat
         /\ f.metas \in Nat /\ f.metas <= Len(f.items)
         /\ \A i \in 1 .. Len(f.items) :
              /\ f.items[i] \in Element
              /\ f.items[i].size \in Nat /\ f.items[i].channels \in Nat
              /\ f.items[i].kind \in {"info", "tags", "frame", "damaged"}
              /\ i <= f.metas <=> f.items[i].kind \in {"info", "tags"}
              /\ f.items[i].kind \in {"info", "frame"} => f.items[i].channels > 0
              /\ f.items[i].kind = "frame" => f.items[i].size > 0
<1>1. f.items \in Seq(Element)
  BY FilesAssumption
<1>2. /\ f.bytes \in Nat /\ f.errorat \in Nat /\ f.errorat >= IdBytes
      /\ f.metas \in 0 .. Len(f.items)
      /\ \A i \in 1 .. Len(f.items) :
           /\ i <= f.metas <=> f.items[i].kind \in {"info", "tags"}
           /\ f.items[i].kind \in {"info", "frame"} => f.items[i].channels > 0
           /\ f.items[i].kind = "frame" => f.items[i].size > 0
  BY FilesAssumption DEF Metadata
<1>3. ASSUME NEW r \in Element
      PROVE  r.size \in Nat /\ r.channels \in Nat /\ r.kind \in {"info", "tags", "frame", "damaged"}
  BY DEF Element, Metadata
<1>4. Len(f.items) \in Nat /\ \A i \in 1 .. Len(f.items) : f.items[i] \in Element
  BY <1>1
<1>5. f.metas \in Nat /\ f.metas <= Len(f.items)
  BY <1>2, <1>4
<1> QED
  BY <1>1, <1>2, <1>3, <1>4, <1>5

LEMMA SizeFacts ==
  /\ ItemBytes \in Nat \ {0} /\ IdBytes \in Nat \ {0}
  /\ MaxRequest \in Nat \ {0} /\ FrameSize \in Nat \ {0}
BY SizesAssumption

\* Bytes m + 1 to m + n behind bytes 1 to m.
LEMMA Consecutive ==
  ASSUME NEW m \in Nat, NEW n \in Nat
  PROVE  [b \in 1 .. m |-> b] \o [b \in 1 .. n |-> m + b] = [b \in 1 .. m + n |-> b]
<1> DEFINE s == [b \in 1 .. m |-> b]
           t == [b \in 1 .. n |-> m + b]
<1>1. s \in Seq(Nat) /\ t \in Seq(Nat) /\ Len(s) = m /\ Len(t) = n
  OBVIOUS
<1>2. s \o t \in Seq(Nat) /\ Len(s \o t) = m + n
  BY <1>1
<1>3. ASSUME NEW b \in 1 .. m + n
      PROVE  (s \o t)[b] = b
  <2>1. CASE b <= m
    BY <1>1, <2>1
  <2>2. CASE b > m
    <3>1. (s \o t)[b] = t[b - m]
      BY <1>1, <2>2
    <3> QED
      BY <2>2, <3>1
  <2> QED
    BY <2>1, <2>2
<1>4. s \o t = [b \in 1 .. m + n |-> (s \o t)[b]]
  BY <1>2
<1> QED
  BY <1>3, <1>4

LEMMA LengthFed ==
  ASSUME NEW n \in Nat, NEW f, f = [b \in 1 .. n |-> b]
  PROVE  Len(f) = n
OBVIOUS

-----------------------------------------------------------------------------
(* The invariant holds at first, and every step preserves it.              *)

LEMMA InitInvariant == Init => IInv
<1> SUFFICES ASSUME Init PROVE IInv
  OBVIOUS
<1>1. file \in Files
  BY DEF Init
<1>2. /\ buflen \in Nat /\ fpos = buflen /\ bufpos = 0
      /\ buflen <= Min(file.bytes, file.errorat) /\ buflen <= file.bytes
      /\ feof => buflen = file.bytes
      /\ feof \in BOOLEAN
  <2>1. file.bytes \in Nat /\ file.errorat \in Nat /\ file.errorat >= IdBytes /\ IdBytes \in Nat
    BY <1>1, FileFacts, SizeFacts
  <2>2. /\ buflen \in Nat /\ buflen <= Min(file.bytes, file.errorat) /\ buflen <= file.bytes
        /\ file.bytes < IdBytes => buflen = file.bytes
    BY <2>1 DEF Init, Min
  <2>3. fpos = buflen /\ bufpos = 0
    BY DEF Init
  <2>4. (feof => file.bytes < IdBytes) /\ feof \in BOOLEAN
    BY DEF Init
  <2> QED
    BY <2>2, <2>3, <2>4
<1>3. TypeOK
  BY <1>1, <1>2, FileFacts, SizeFacts DEF Init, TypeOK
<1>4. fed = [b \in 1 .. bufpos + (fpos - buflen) |-> b]
  BY <1>2 DEF Init
<1>5. Positions /\ Counts
  BY <1>1, <1>2, <1>4 DEF Init, Positions, Counts
<1>6. BytesInOrder
  BY DEF Init, BytesInOrder
<1> QED
  BY <1>3, <1>5, <1>6 DEF IInv

\* Where neither the file nor what libFLAC has done changes, only the buffers count.
LEMMA QuietStep ==
  ASSUME IInv, UNCHANGED <<disk, channels, max_blocksize, parsed>>, dec' = dec \/ dec' = "frames",
         TypeOK', Counts'
  PROVE  IInv'
<1>1. Positions'
  BY DEF IInv, Positions, disk
<1>2. BytesInOrder'
  BY DEF IInv, BytesInOrder, Acceptable, disk
<1> QED
  BY <1>1, <1>2 DEF IInv

\* A read of n bytes, of those held or of the file.
LEMMA BufferedStep == IInv /\ ReadBuffered => IInv'
<1> SUFFICES ASSUME IInv, ReadBuffered PROVE IInv'
  OBVIOUS
<1> PICK bytes \in 1 .. MaxRequest :
       /\ bufpos' = bufpos + Min(bytes, buflen - bufpos)
       /\ fed' = fed \o [b \in 1 .. Min(bytes, buflen - bufpos) |-> bufpos + b]
  BY DEF ReadBuffered
<1> DEFINE n == Min(bytes, buflen - bufpos)
<1>1. file \in Files /\ file.bytes \in Nat /\ fpos \in Nat /\ buflen \in Nat /\ bufpos \in Nat
  BY FileFacts DEF IInv, Positions, TypeOK
<1>2. bufpos < buflen /\ fpos = buflen /\ n \in Nat /\ bufpos + n <= buflen
  BY <1>1, SizeFacts DEF ReadBuffered, IdLeft, IInv, Positions, Min
<1>3. fed = [b \in 1 .. bufpos |-> b]
  BY <1>1, <1>2 DEF IInv, Positions
<1> HIDE DEF n
<1>4. fed' = [b \in 1 .. bufpos + n |-> b]
  BY <1>1, <1>2, <1>3, Consecutive DEF n
<1>5. bufpos' = bufpos + n
  BY DEF n
<1>6. Positions'
  <2>1. UNCHANGED <<file, fpos, feof, buflen>>
    BY DEF ReadBuffered
  <2>2. bufpos' + (fpos' - buflen') = bufpos + n
    BY <1>1, <1>2, <1>5, <2>1
  <2>3. fed' = [b \in 1 .. bufpos' + (fpos' - buflen') |-> b]
    BY <1>4, <2>2
  <2>4. bufpos' < buflen' => fpos' = buflen'
    BY <1>2, <2>1
  <2> QED
    BY <2>1, <2>3, <2>4 DEF IInv, Positions
<1>7. TypeOK' /\ Counts'
  BY <1>1, <1>2, <1>5 DEF ReadBuffered, IInv, TypeOK, Counts, lib, block, loop
<1>8. BytesInOrder'
  <2>1. Len(fed') = bufpos + n
    <3>1. bufpos + n \in Nat
      BY <1>1, <1>2
    <3> QED
      BY <1>4, <3>1, LengthFed
  <2>2. dec' # "ended"
    BY DEF ReadBuffered, Asks, Waiting, lib
  <2> QED
    BY <1>4, <2>1, <2>2 DEF BytesInOrder
<1> QED
  BY <1>6, <1>7, <1>8 DEF IInv

LEMMA FileStep == IInv /\ ReadFile => IInv'
<1> SUFFICES ASSUME IInv, ReadFile PROVE IInv'
  OBVIOUS
<1> PICK bytes \in 1 .. MaxRequest :
       LET n == Min(bytes, Min(file.bytes, file.errorat) - fpos)
       IN /\ fpos' = fpos + n /\ fed' = fed \o [b \in 1 .. n |-> fpos + b]
          /\ feof' = (feof \/ (fpos + n = file.bytes /\ n < bytes))
          /\ dec' = IF n = 0 THEN "ended" ELSE dec
  BY DEF ReadFile
<1> DEFINE last == Min(file.bytes, file.errorat)
           n == Min(bytes, last - fpos)
<1>1. /\ file \in Files /\ file.bytes \in Nat /\ last \in Nat /\ last <= file.bytes
      /\ fpos \in Nat /\ fpos <= last /\ buflen \in Nat /\ bufpos = buflen /\ buflen <= fpos
  <2>1. file \in Files /\ file.bytes \in Nat /\ file.errorat \in Nat
    BY FileFacts DEF IInv, Positions
  <2>2. last \in Nat /\ last <= file.bytes
    BY <2>1 DEF Min
  <2>3. fpos \in Nat /\ fpos <= last /\ buflen \in Nat /\ bufpos \in 0 .. buflen /\ buflen <= fpos
    BY <2>1 DEF IInv, Positions, TypeOK
  <2>4. bufpos = buflen
    BY <2>3 DEF ReadFile, IdLeft
  <2> QED
    BY <2>1, <2>2, <2>3, <2>4
<1>2. /\ n \in Nat /\ fpos + n <= last /\ (n = 0 => fpos = last)
  <2> HIDE DEF last
  <2>1. bytes \in Nat \ {0} /\ last - fpos \in Nat
    BY <1>1, SizeFacts
  <2>2. \/ bytes < last - fpos /\ n = bytes
        \/ n = last - fpos
    BY DEF Min
  <2> QED
    BY <1>1, <2>1, <2>2
<1>3. fed = [b \in 1 .. fpos |-> b]
  <2>1. bufpos + (fpos - buflen) = fpos
    BY <1>1
  <2> QED
    BY <2>1 DEF IInv, Positions
<1>4. /\ fpos' = fpos + n /\ (feof' => feof \/ fpos + n = file.bytes) /\ feof' \in BOOLEAN
      /\ dec' = IF n = 0 THEN "ended" ELSE dec
      /\ fed' = fed \o [b \in 1 .. n |-> fpos + b]
      /\ UNCHANGED <<file, bufpos, buflen, parsed, block, loop>>
  BY DEF ReadFile, IInv, TypeOK
<1> HIDE DEF n
<1>5. fed' = [b \in 1 .. fpos + n |-> b]
  BY <1>1, <1>2, <1>3, <1>4, Consecutive
<1>6. Positions'
  <2>1. bufpos' + (fpos' - buflen') = fpos + n
    <3>1. fpos' = fpos + n /\ bufpos' = bufpos /\ buflen' = buflen
      BY <1>4
    <3>2. fpos + n \in Nat /\ bufpos = buflen /\ buflen \in Nat
      BY <1>1, <1>2
    <3> QED
      BY <3>1, <3>2
  <2>2. fpos' <= Min(file.bytes, file.errorat)' /\ (feof' => fpos' = file.bytes')
    BY <1>1, <1>2, <1>4 DEF IInv, Positions
  <2>3. file' \in Files /\ buflen' <= fpos' /\ ~(bufpos' < buflen')
    BY <1>1, <1>2, <1>4
  <2> QED
    BY <1>5, <2>1, <2>2, <2>3 DEF Positions
<1>7. TypeOK' /\ Counts'
  <2>1. fpos' \in 0 .. file'.bytes /\ feof' \in BOOLEAN /\ dec' \in {"metadata", "frames", "ended"}
    <3>1. fpos + n \in 0 .. file.bytes
      BY <1>1, <1>2
    <3>2. dec \in {"metadata", "frames", "ended"}
      BY DEF IInv, TypeOK
    <3> QED
      BY <1>4, <3>1, <3>2
  <2>2. Counts'
    BY <1>4 DEF IInv, Counts, loop
  <2>3. TypeOK'
    BY <1>4, <2>1 DEF IInv, TypeOK, block, loop
  <2> QED
    BY <2>2, <2>3
<1>8. BytesInOrder'
  <2>1. Len(fed') = fpos + n
    <3>1. fpos + n \in Nat
      BY <1>1, <1>2
    <3> QED
      BY <1>5, <3>1, LengthFed
  <2>2. dec # "ended"
    BY DEF ReadFile, Asks, Waiting
  <2>3. dec' = "ended" => fpos + n = Min(file.bytes, file.errorat)'
    <3>1. dec' = "ended" => n = 0
      BY <1>4, <2>2
    <3>2. Min(file.bytes, file.errorat)' = last
      BY <1>4
    <3>3. n = 0 => fpos + n = last
      BY <1>1, <1>2
    <3> QED
      BY <3>1, <3>2, <3>3
  <2> QED
    BY <1>5, <2>1, <2>3 DEF BytesInOrder
<1> QED
  BY <1>6, <1>7, <1>8 DEF IInv

\* libFLAC finds no more bytes, by feof.
LEMMA EofStep == IInv /\ AtEof => IInv'
<1> SUFFICES ASSUME IInv, AtEof PROVE IInv'
  OBVIOUS
<1>1. UNCHANGED <<disk, block, loop, parsed>> /\ dec' = "ended" /\ bufpos >= buflen /\ feof
  BY DEF AtEof, Eof
<1>2. Positions' /\ Counts' /\ TypeOK'
  BY <1>1 DEF IInv, Positions, Counts, TypeOK, disk, block, loop
<1>3. /\ file \in Files /\ file.bytes \in Nat /\ file.errorat \in Nat /\ bufpos = buflen
      /\ buflen \in Nat /\ fpos = file.bytes /\ fpos <= Min(file.bytes, file.errorat)
  BY <1>1, FileFacts DEF IInv, Positions, TypeOK
<1>4. file.bytes = Min(file.bytes, file.errorat) /\ bufpos + (fpos - buflen) = file.bytes
  BY <1>3 DEF Min
<1>5. fed = [b \in 1 .. file.bytes |-> b] /\ Len(fed) = file.bytes
  <2>1. fed = [b \in 1 .. file.bytes |-> b]
    BY <1>4 DEF IInv, Positions
  <2> QED
    BY <1>3, <2>1, LengthFed
<1>6. BytesInOrder'
  BY <1>1, <1>4, <1>5 DEF BytesInOrder, disk
<1> QED
  BY <1>2, <1>6 DEF IInv

\* The callbacks for one item.  None of them is called once libFLAC has ended, so the
\* item that it aborted stays the last one.
LEMMA ItemStep ==
  IInv /\ (StreamInfo \/ OtherMetadata \/ LostFrame \/ GotFrame \/ AbortFrame) => IInv'
<1> SUFFICES ASSUME IInv, StreamInfo \/ OtherMetadata \/ LostFrame \/ GotFrame \/ AbortFrame
             PROVE  IInv'
  OBVIOUS
<1>1. UNCHANGED disk /\ parsed' = parsed + 1 /\ parsed < Len(file.items) /\ dec # "ended"
  BY DEF StreamInfo, OtherMetadata, LostFrame, GotFrame, AbortFrame, Parses, Waiting
<1>2. Positions'
  BY <1>1 DEF IInv, Positions, disk
<1>3. /\ parsed + 1 \in 1 .. Len(file.items) /\ Len(file.items) \in Nat
      /\ Item.size \in Nat /\ Item.channels \in Nat
  <2>1. file \in Files /\ parsed \in Nat
    BY DEF IInv, Positions, TypeOK
  <2>2. parsed + 1 \in 1 .. Len(file.items) /\ Len(file.items) \in Nat
    BY <1>1, <2>1, FileFacts
  <2> QED
    BY <2>1, <2>2, FileFacts DEF Item
<1>4. fed' = [b \in 1 .. Len(fed') |-> b]
  BY <1>1 DEF IInv, BytesInOrder, disk
<1> parsed' \in 0 .. Len(file'.items)
  BY <1>1, <1>3 DEF disk
<1>5. CASE StreamInfo
  <2>1. TypeOK' /\ Counts'
    BY <1>1, <1>3, <1>5 DEF StreamInfo, IInv, TypeOK, Counts, disk, loop
  <2> QED
    BY <1>1, <1>2, <1>4, <1>5, <2>1 DEF StreamInfo, IInv, BytesInOrder
<1>6. CASE OtherMetadata \/ LostFrame
  <2>1. TypeOK' /\ Counts'
    <3>1. UNCHANGED <<dec, disk, block, loop>>
      BY <1>6 DEF OtherMetadata, LostFrame
    <3> QED
      BY <3>1 DEF IInv, TypeOK, Counts, disk, block, loop
  <2> QED
    BY <1>1, <1>2, <1>4, <1>6, <2>1 DEF OtherMetadata, LostFrame, IInv, BytesInOrder
<1>7. CASE GotFrame
  <2>1. DOMAIN block_buf' = DOMAIN block_buf
    BY <1>7 DEF GotFrame
  <2>2. block_buf_len' \in 0 .. max_blocksize' /\ block_buf_pos' \in 0 .. block_buf_len'
    BY <1>3, <1>7 DEF GotFrame, Acceptable, IInv, TypeOK
  <2>3. TypeOK' /\ Counts'
    <3>1. /\ pc' = "block" /\ pc \in {"open", "single"} /\ (pc = "single" => samples > 0)
          /\ UNCHANGED <<channels, max_blocksize, dec, disk, input, samples, got, encoded>>
      BY <1>7 DEF GotFrame, Parses, Waiting, IInv, Counts
    <3>2. TypeOK'
      BY <2>1, <2>2, <3>1 DEF IInv, TypeOK, disk
    <3>3. pc = "single"
      <4>1. file.items[parsed + 1].kind = "frame" /\ (pc = "single" \/ parsed < file.metas)
        BY <1>7 DEF GotFrame, Parses, Waiting
      <4>2. parsed < file.metas => parsed + 1 \in 1 .. file.metas
        BY <1>3, FileFacts DEF IInv, Positions, TypeOK
      <4> QED
        BY <4>1, <4>2, FileFacts DEF IInv, Positions
    <3> QED
      BY <3>1, <3>2, <3>3 DEF IInv, Counts
  <2> QED
    BY <1>1, <1>2, <1>4, <1>7, <2>3 DEF GotFrame, IInv, BytesInOrder
<1>8. CASE AbortFrame
  <2>1. TypeOK' /\ Counts'
    BY <1>1, <1>3, <1>8 DEF AbortFrame, IInv, TypeOK, Counts, disk, block, loop
  <2>2. /\ parsed' > 0 /\ file'.items[parsed'].kind = "frame" /\ ~Acceptable(file'.items[parsed'])
        /\ UNCHANGED <<channels, max_blocksize>>
    BY <1>1, <1>3, <1>8 DEF AbortFrame, Parses, Item, disk, block
  <2>3. ~Acceptable(file.items[parsed])'
    BY <2>2 DEF Acceptable
  <2> QED
    BY <1>2, <1>4, <2>1, <2>2, <2>3 DEF IInv, BytesInOrder
<1> QED
  BY <1>5, <1>6, <1>7, <1>8

\* flac_open, flac_read and the encoding loop.
LEMMA LoopStep == IInv /\ (Opusenc \/ Terminated) => IInv'
<1> SUFFICES ASSUME IInv, Opusenc \/ Terminated PROVE IInv'
  OBVIOUS
<1>1. UNCHANGED <<disk, channels, max_blocksize, parsed>> /\ (dec' = dec \/ dec' = "frames")
  BY DEF Opusenc, Opened, Refused, NextFrame, CallSingle, NoBlock, SingleReturns, Copy, FullRead,
     Encode, EncoderFails, Drain, Terminated, vars, block, lib
<1>2. CASE Opened \/ Refused \/ NextFrame \/ CallSingle \/ NoBlock \/ SingleReturns
  <2>1. TypeOK' /\ Counts'
    <3>1. CASE Opened \/ Refused
      BY <3>1 DEF Opened, Refused, IInv, TypeOK, Counts, disk, block, lib
    <3>4. CASE NextFrame
      <4>1. samples' = FrameSize /\ got' = 0 /\ pc' = "read" /\ UNCHANGED <<disk, block, lib, input>>
        BY <3>4 DEF NextFrame
      <4>2. samples' \in 0 .. FrameSize /\ got' \in 0 .. FrameSize /\ got' + samples' = FrameSize
        BY <4>1, SizeFacts
      <4> QED
        BY <4>1, <4>2 DEF IInv, TypeOK, Counts, disk, block, lib
    <3>2. CASE CallSingle \/ NoBlock
      BY <3>2 DEF CallSingle, NoBlock, IInv, TypeOK, Counts, disk, block, lib
    <3>3. CASE SingleReturns
      <4>1. /\ pc' \in {"encode", "copy"} /\ pc = "block"
            /\ UNCHANGED <<disk, block, lib, input, samples, got, encoded>>
        BY <3>3 DEF SingleReturns
      <4> QED
        BY <4>1 DEF IInv, TypeOK, Counts, disk, block, lib
    <3> QED
      BY <1>2, <3>1, <3>2, <3>3, <3>4
  <2> QED
    BY <1>1, <2>1, QuietStep
<1>3. CASE FullRead \/ Encode \/ EncoderFails \/ Drain \/ Terminated
  <2>1. TypeOK' /\ Counts'
    BY <1>3 DEF FullRead, Encode, EncoderFails, Drain, Terminated, IInv, TypeOK, Counts, vars,
       disk, block, lib, loop
  <2> QED
    BY <1>1, <2>1, QuietStep
<1>4. CASE Copy
  <2>1. /\ samples \in Nat /\ samples > 0 /\ got \in Nat /\ got + samples = FrameSize
        /\ block_buf_len - block_buf_pos \in Nat /\ block_buf_pos \in Nat /\ block_buf_len \in Nat
    BY <1>4, SizeFacts DEF Copy, IInv, TypeOK, Counts
  <2>2. ToCopy \in Nat /\ ToCopy <= samples /\ block_buf_pos + ToCopy <= block_buf_len
    BY <2>1 DEF ToCopy, Min
  <2>3. /\ got' = got + ToCopy /\ samples' = samples - ToCopy
        /\ block_buf_pos' = block_buf_pos + ToCopy /\ pc' = "read" /\ DOMAIN input' = 1 .. FrameSize
        /\ UNCHANGED <<channels, max_blocksize, block_buf, block_buf_len, disk, lib>>
    BY <1>4 DEF Copy
  <2> HIDE DEF ToCopy
  <2>4. /\ got' \in 0 .. FrameSize /\ samples' \in 0 .. FrameSize /\ got' + samples' = FrameSize
        /\ block_buf_pos' \in 0 .. block_buf_len'
    BY <2>1, <2>2, <2>3, SizeFacts
  <2>5. TypeOK' /\ Counts'
    BY <2>3, <2>4 DEF IInv, TypeOK, Counts, disk, lib
  <2> QED
    BY <1>1, <2>5, QuietStep
<1> QED
  BY <1>2, <1>3, <1>4 DEF Opusenc

LEMMA NextInvariant == IInv /\ [Next]_vars => IInv'
<1> SUFFICES ASSUME IInv, [Next]_vars PROVE IInv'
  OBVIOUS
<1>1. CASE Callbacks
  BY <1>1, EofStep, BufferedStep, FileStep, ItemStep DEF Callbacks
<1>2. CASE Opusenc \/ Terminated
  BY <1>2, LoopStep
<1>3. CASE UNCHANGED vars
  BY <1>3 DEF IInv, TypeOK, Positions, Counts, BytesInOrder, Acceptable, vars, disk, block, lib, loop
<1> QED
  BY <1>1, <1>2, <1>3 DEF Next

LEMMA Invariant == Spec => []IInv
BY InitInvariant, NextInvariant, PTL DEF Spec

-----------------------------------------------------------------------------
\* Every variable keeps its type; in particular write_callback never fills block_buf
\* beyond max_blocksize, and flac_read neither reads behind the block nor writes behind
\* the frame it was asked for.
THEOREM TypeCorrect == Spec => []TypeOK
<1>1. IInv => TypeOK
  BY DEF IInv
<1> QED
  BY <1>1, Invariant, PTL

\* However many bytes libFLAC asks for at a time, and wherever those read for
\* identification end, it is given all bytes of the file in order, and none is left when it ends,
\* unless write_callback aborted it.
THEOREM InOrder == Spec => []BytesInOrder
<1>1. IInv => BytesInOrder
  BY DEF IInv
<1> QED
  BY <1>1, Invariant, PTL

-----------------------------------------------------------------------------
(* The audio of a file, by induction from its end.                         *)

\* Induction, on a set: a set of numbers has a least one.
LEMMA Induction ==
  ASSUME NEW S, 0 \in S, \A i \in Nat : i \in S => i + 1 \in S
  PROVE  Nat \subseteq S
<1> SUFFICES ASSUME NEW bad \in Nat, bad \notin S PROVE FALSE
  OBVIOUS
<1> DEFINE R == OpToRel(<, Nat)
           T == Nat \ S
<1>1. IsWellFoundedOn(R, Nat)
  BY NatLessThanWellFounded
<1>2. \A k, l \in Nat : k < l => <<k, l>> \in R
  BY DEF OpToRel
<1>3. T \subseteq Nat /\ T # {}
  OBVIOUS
<1> HIDE DEF R
<1>4. PICK m \in T : \A k \in T : ~(<<k, m>> \in R)
  BY <1>1, <1>3, WFMin
<1>5. m # 0 /\ m - 1 \in Nat /\ m - 1 < m
  OBVIOUS
<1>6. m - 1 \notin T
  BY <1>2, <1>4, <1>5
<1> QED
  BY <1>4, <1>5, <1>6

Sample == Nat \X Nat

Body(f, g, i) ==
  IF i \notin Whole(f) \/ Misfit(f, i) THEN <<>>
  ELSE IF f.items[i].kind = "frame" THEN SamplesOf(f, i) \o g[i + 1] ELSE g[i + 1]

LEMMA BodyLocal ==
  ASSUME NEW f, NEW g, NEW h, NEW i, g[i + 1] = h[i + 1]
  PROVE  Body(f, g, i) = Body(f, h, i)
BY DEF Body

LEMMA AudioBody ==
  ASSUME NEW f \in Files
  PROVE  AudioFrom(f) = [i \in 1 .. Len(f.items) + 1 |-> Body(f, AudioFrom(f), i)]
<1>1. PICK last \in Nat : last = Len(f.items)
  BY FileFacts
<1> DEFINE D == 1 .. last + 1
           Good(g, j) == g = [i \in D |-> g[i]]
                         /\ \A i \in D : i >= last + 1 - j => g[i] = Body(f, g, i)
           S == {j \in Nat : j <= last => \E g : Good(g, j)}
<1>2. 0 \in S
  <2> DEFINE g == [i \in D |-> <<>>]
  <2>1. last + 1 \notin Whole(f)
    BY <1>1, FileFacts DEF Whole
  <2>2. Body(f, g, last + 1) = <<>>
    BY <2>1 DEF Body
  <2>3. \A i \in D : i >= last + 1 - 0 => i = last + 1
    OBVIOUS
  <2>4. Good(g, 0)
    BY <2>2, <2>3
  <2> QED
    BY <2>4
<1>3. ASSUME NEW j \in Nat, j \in S PROVE j + 1 \in S
  <2> SUFFICES ASSUME j + 1 <= last PROVE \E g : Good(g, j + 1)
    OBVIOUS
  <2>1. PICK g : Good(g, j)
    BY <1>3
  <2>2. PICK k \in D : k = last - j /\ k + 1 \in D
    OBVIOUS
  <2> DEFINE h == [i \in D |-> IF i = k THEN Body(f, g, k) ELSE g[i]]
  <2>3. ASSUME NEW i \in D, i >= last + 1 - (j + 1) PROVE h[i] = Body(f, h, i)
    <3>1. CASE i = k
      <4>1. h[k + 1] = g[k + 1]
        BY <2>2
      <4>2. Body(f, h, k) = Body(f, g, k)
        BY <4>1, BodyLocal
      <4> QED
        BY <3>1, <4>2
    <3>2. CASE i # k
      <4>1. i >= last + 1 - j /\ i # k
        BY <2>2, <2>3, <3>2
      <4>2. h[i] = Body(f, g, i)
        BY <2>1, <4>1
      <4>3. CASE i + 1 \in D
        <5>1. h[i + 1] = g[i + 1]
          BY <2>2, <4>1, <4>3
        <5> QED
          BY <4>2, <5>1, BodyLocal
      <4>4. CASE i + 1 \notin D
        <5>1. i \notin Whole(f)
          BY <1>1, <4>4, FileFacts DEF Whole
        <5> QED
          BY <4>2, <5>1 DEF Body
      <4> QED
        BY <4>3, <4>4
    <3> QED
      BY <3>1, <3>2
  <2>4. h = [i \in D |-> h[i]]
    OBVIOUS
  <2> HIDE DEF h
  <2> QED
    BY <2>3, <2>4
<1> HIDE DEF S
<1>4. last \in S
  BY <1>2, <1>3, Induction
<1>5. PICK g : Good(g, last)
  BY <1>4 DEF S
<1>6. g = [i \in D |-> Body(f, g, i)]
  BY <1>5
<1> QED
  BY <1>1, <1>6 DEF AudioFrom, Body

LEMMA FrameSamples ==
  ASSUME NEW f \in Files, NEW i \in 1 .. Len(f.items)
  PROVE  /\ SamplesOf(f, i) \in Seq(Sample) /\ Len(SamplesOf(f, i)) = f.items[i].size
         /\ \A s \in 1 .. f.items[i].size : SamplesOf(f, i)[s] = <<i, s>>
<1>1. PICK size \in Nat : size = f.items[i].size
  BY FileFacts
<1>2. SamplesOf(f, i) = [s \in 1 .. size |-> <<i, s>>]
  BY <1>1 DEF SamplesOf
<1>3. i \in Nat
  BY FileFacts
<1>4. \A s \in 1 .. size : <<i, s>> \in Sample
  BY <1>3 DEF Sample
<1> QED
  BY <1>1, <1>2, <1>4

\* What follows item i, and what follows from it.
LEMMA AudioItem ==
  ASSUME NEW f \in Files, NEW i \in 1 .. Len(f.items)
  PROVE  LET a == AudioFrom(f)[i]
             b == AudioFrom(f)[i + 1]
         IN /\ i \notin Whole(f) \/ Misfit(f, i) => a = <<>>
            /\ i \in Whole(f) /\ f.items[i].kind # "frame" => a = b
            /\ i \in Whole(f) /\ f.items[i].kind = "frame" /\ ~Misfit(f, i) =>
                 a = SamplesOf(f, i) \o b
<1>1. i \in 1 .. Len(f.items) + 1
  BY FileFacts
<1>2. AudioFrom(f)[i] = Body(f, AudioFrom(f), i)
  BY <1>1, AudioBody
<1>3. Misfit(f, i) => f.items[i].kind = "frame"
  BY DEF Misfit
<1> QED
  BY <1>2, <1>3 DEF Body

LEMMA AudioLast ==
  ASSUME NEW f \in Files
  PROVE  AudioFrom(f)[Len(f.items) + 1] = <<>>
<1>1. Len(f.items) + 1 \in 1 .. Len(f.items) + 1 /\ Len(f.items) + 1 \notin Whole(f)
  BY FileFacts DEF Whole
<1>2. AudioFrom(f)[Len(f.items) + 1] = Body(f, AudioFrom(f), Len(f.items) + 1)
  BY <1>1, AudioBody
<1> QED
  BY <1>1, <1>2 DEF Body

LEMMA AudioTyped ==
  ASSUME NEW f \in Files
  PROVE  \A i \in 1 .. Len(f.items) + 1 : AudioFrom(f)[i] \in Seq(Sample)
<1>1. PICK last \in Nat : last = Len(f.items)
  BY FileFacts
<1> DEFINE S == {j \in Nat : j <= last => AudioFrom(f)[last + 1 - j] \in Seq(Sample)}
<1>2. 0 \in S
  <2>1. last + 1 - 0 = Len(f.items) + 1
    BY <1>1
  <2>2. AudioFrom(f)[last + 1 - 0] = <<>>
    BY <2>1, AudioLast
  <2>3. AudioFrom(f)[last + 1 - 0] \in Seq(Sample)
    BY <2>2
  <2> QED
    BY <2>3
<1>3. ASSUME NEW j \in Nat, j \in S PROVE j + 1 \in S
  <2> SUFFICES ASSUME j + 1 <= last PROVE AudioFrom(f)[last + 1 - (j + 1)] \in Seq(Sample)
    OBVIOUS
  <2>1. PICK k \in 1 .. last : k = last + 1 - (j + 1) /\ k + 1 = last + 1 - j
    OBVIOUS
  <2>2. AudioFrom(f)[k + 1] \in Seq(Sample)
    BY <1>3, <2>1
  <2>3. SamplesOf(f, k) \in Seq(Sample)
    BY <1>1, FrameSamples
  <2>4. SamplesOf(f, k) \o AudioFrom(f)[k + 1] \in Seq(Sample)
    BY <2>2, <2>3
  <2>5. AudioFrom(f)[k] \in {<<>>, AudioFrom(f)[k + 1], SamplesOf(f, k) \o AudioFrom(f)[k + 1]}
    BY <1>1, AudioItem
  <2>6. <<>> \in Seq(Sample)
    OBVIOUS
  <2>7. AudioFrom(f)[k] \in Seq(Sample)
    BY <2>2, <2>4, <2>5, <2>6, Zenon
  <2> QED
    BY <2>1, <2>7
<1> HIDE DEF S
<1>4. Nat \subseteq S
  BY <1>2, <1>3, Induction
<1>5. ASSUME NEW i \in 1 .. last + 1 PROVE AudioFrom(f)[i] \in Seq(Sample)
  <2>1. PICK j \in Nat : j = last + 1 - i
    OBVIOUS
  <2>2. j \in S /\ j <= last /\ last + 1 - j = i
    BY <1>4, <2>1
  <2> QED
    BY <2>2 DEF S
<1> QED
  BY <1>1, <1>5

\* The audio from a frame on begins with its samples.
LEMMA AudioFrame ==
  ASSUME NEW f \in Files, NEW i \in 1 .. Len(f.items), i \in Whole(f),
         f.items[i].kind = "frame", ~Misfit(f, i)
  PROVE  LET a == AudioFrom(f)[i]
             b == AudioFrom(f)[i + 1]
             n == f.items[i].size
         IN /\ Len(a) = n + Len(b)
            /\ \A s \in 1 .. n : a[s] = <<i, s>>
            /\ \A s \in 1 .. Len(b) : a[n + s] = b[s]
<1>1. PICK a, b, c : a = AudioFrom(f)[i] /\ b = AudioFrom(f)[i + 1] /\ c = SamplesOf(f, i)
  OBVIOUS
<1>2. PICK n \in Nat : n = f.items[i].size
  BY FileFacts
<1>3. a = c \o b
  BY <1>1, AudioItem
<1>4. c \in Seq(Sample) /\ Len(c) = n /\ \A s \in 1 .. n : c[s] = <<i, s>>
  BY <1>1, <1>2, FrameSamples
<1>5. b \in Seq(Sample)
  <2>1. i + 1 \in 1 .. Len(f.items) + 1
    BY FileFacts
  <2> QED
    BY <1>1, <2>1, AudioTyped
<1>6. Len(a) = n + Len(b)
  BY <1>3, <1>4, <1>5
<1>7. \A s \in 1 .. n : a[s] = c[s]
  BY <1>3, <1>4, <1>5
<1>8. \A s \in 1 .. Len(b) : a[n + s] = b[s]
  BY <1>3, <1>4, <1>5
<1> QED
  BY <1>1, <1>2, <1>4, <1>6, <1>7, <1>8

-----------------------------------------------------------------------------
(* Opusenc implements FrameFeed: where the samples of the file are.        *)

\* A sequence a: its first e elements are gone, the next `taken` are in `in`, the next
\* `left` in buf behind pos, and the others in rest.
Follows(a, e, in, taken, buf, pos, left, rest) ==
  /\ Len(a) = e + taken + left + Len(rest)
  /\ \A s \in 1 .. taken : in[s] = a[e + s]
  /\ \A s \in 1 .. left : buf[pos + s] = a[e + taken + s]
  /\ \A s \in 1 .. Len(rest) : rest[s] = a[e + taken + left + s]

\* The samples flac_read has read, and those libFLAC has not decoded.
Taken == IF pc \in {"read", "single", "block", "copy", "encode"} THEN got ELSE 0
Rest  == IF dec = "ended" THEN <<>> ELSE AudioFrom(file)[parsed + 1]

Flowing ==
  Follows(AudioFrom(file)[1], Len(encoded), input, Taken,
          block_buf, block_buf_pos, block_buf_len - block_buf_pos, Rest)

Cells ==
  /\ input \in [1 .. FrameSize -> Sample] /\ block_buf \in [1 .. max_blocksize -> Sample]
  /\ encoded \in Seq(Sample)

\* channels and max_blocksize are those of the last STREAMINFO so far.
IsLatest(i) == /\ i \in Infos(file) /\ i <= parsed
               /\ \A j \in Infos(file) : j <= parsed => j <= i
Latest ==
  \/ channels = 0 /\ \A j \in Infos(file) : j > parsed
  \/ \E i \in 1 .. parsed :
       IsLatest(i) /\ channels = file.items[i].channels /\ max_blocksize = file.items[i].size

Started == {"loop", "read", "single", "block", "copy", "encode", "drain", "done", "failed", "undrained"}
Phases ==
  /\ pc = "open" => /\ dec # "frames" /\ parsed <= file.metas
                    /\ encoded = <<>> /\ block_buf_pos = 0 /\ block_buf_len = 0
  /\ pc \in Started => dec # "metadata" /\ parsed >= file.metas /\ channels > 0
  /\ pc = "single" => Exhausted
  /\ pc = "block" /\ Exhausted => dec = "ended"
  /\ pc = "encode" => got = FrameSize \/ (dec = "ended" /\ Exhausted)
  /\ pc \in {"drain", "done", "undrained"} => Len(encoded) = Len(AudioFrom(file)[1])

FInv ==
  /\ IInv /\ Cells /\ Latest /\ Phases
  /\ Infos(file) # {} /\ pc \notin {"refused", "failed"} => Flowing

-----------------------------------------------------------------------------
LEMMA FollowsFrame ==
  ASSUME NEW a, NEW e \in Nat, NEW in, NEW taken \in Nat, NEW buf, NEW pos, NEW rest,
         Follows(a, e, in, taken, buf, pos, 0, rest),
         NEW new, NEW n \in Nat, NEW rest2, Len(rest2) \in Nat, Len(rest) = n + Len(rest2),
         \A s \in 1 .. n : rest[s] = new[s],
         \A s \in 1 .. Len(rest2) : rest[n + s] = rest2[s]
  PROVE  Follows(a, e, in, taken, new, 0, n, rest2)
<1>1. PICK m \in Nat : m = Len(rest2) /\ Len(rest) = n + m
  OBVIOUS
<1>2. \A s \in 1 .. n + m : rest[s] = a[e + taken + s]
  BY <1>1 DEF Follows
<1>3. ASSUME NEW s \in 1 .. n PROVE new[0 + s] = a[e + taken + s]
  BY <1>1, <1>2
<1>4. ASSUME NEW s \in 1 .. m PROVE rest2[s] = a[e + taken + n + s]
  <2>1. n + s \in 1 .. n + m /\ e + taken + (n + s) = e + taken + n + s
    OBVIOUS
  <2> QED
    BY <1>1, <1>2, <2>1
<1> QED
  BY <1>1, <1>3, <1>4 DEF Follows

LEMMA FollowsCopy ==
  ASSUME NEW a, NEW e \in Nat, NEW in, NEW taken \in Nat, NEW buf, NEW pos \in Nat, NEW left \in Nat,
         NEW rest, Len(rest) \in Nat, Follows(a, e, in, taken, buf, pos, left, rest),
         NEW n \in Nat, n <= left, NEW new,
         \A s \in 1 .. taken : new[s] = in[s],
         \A s \in 1 .. n : new[taken + s] = buf[pos + s]
  PROVE  Follows(a, e, new, taken + n, buf, pos + n, left - n, rest)
<1>1. PICK m \in Nat : m = Len(rest)
  OBVIOUS
<1>2. ASSUME NEW s \in 1 .. taken + n PROVE new[s] = a[e + s]
  <2>1. CASE s <= taken
    BY <2>1 DEF Follows
  <2>2. CASE s > taken
    <3>1. PICK t \in 1 .. n : s = taken + t /\ e + s = e + taken + t
      <4>1. s - taken \in 1 .. n
        BY <2>2
      <4> QED
        BY <4>1
    <3>2. buf[pos + t] = a[e + taken + t]
      <4>1. t \in 1 .. left
        OBVIOUS
      <4> QED
        BY <4>1 DEF Follows
    <3> QED
      BY <3>1, <3>2
  <2> QED
    BY <2>1, <2>2
<1>3. ASSUME NEW s \in 1 .. left - n PROVE buf[pos + n + s] = a[e + (taken + n) + s]
  <2>1. n + s \in 1 .. left /\ pos + n + s = pos + (n + s) /\ e + (taken + n) + s = e + taken + (n + s)
    OBVIOUS
  <2> QED
    BY <2>1 DEF Follows
<1>4. ASSUME NEW s \in 1 .. m PROVE rest[s] = a[e + (taken + n) + (left - n) + s]
  <2>1. e + (taken + n) + (left - n) + s = e + taken + left + s
    OBVIOUS
  <2> QED
    BY <1>1, <2>1 DEF Follows
<1>5. Len(a) = e + (taken + n) + (left - n) + m
  BY <1>1 DEF Follows
<1> QED
  BY <1>1, <1>2, <1>3, <1>4, <1>5 DEF Follows

LEMMA FollowsEncode ==
  ASSUME NEW a, NEW e \in Nat, NEW in, NEW taken \in Nat, NEW buf, NEW pos \in Nat, NEW left \in Nat,
         NEW rest, Len(rest) \in Nat, Follows(a, e, in, taken, buf, pos, left, rest)
  PROVE  Follows(a, e + taken, in, 0, buf, pos, left, rest)
<1>1. PICK m \in Nat : m = Len(rest)
  OBVIOUS
<1>2. ASSUME NEW s \in 1 .. left PROVE buf[pos + s] = a[(e + taken) + 0 + s]
  <2>1. (e + taken) + 0 + s = e + taken + s
    OBVIOUS
  <2> QED
    BY <2>1 DEF Follows
<1>3. ASSUME NEW s \in 1 .. m PROVE rest[s] = a[(e + taken) + 0 + left + s]
  <2>1. (e + taken) + 0 + left + s = e + taken + left + s
    OBVIOUS
  <2> QED
    BY <1>1, <2>1 DEF Follows
<1>4. Len(a) = (e + taken) + 0 + left + m
  BY <1>1 DEF Follows
<1> QED
  BY <1>1, <1>2, <1>3, <1>4 DEF Follows

-----------------------------------------------------------------------------
LEMMA FedBound ==
  ASSUME IInv
  PROVE  /\ Len(fed) \in Nat /\ Len(fed) <= Min(file.bytes, file.errorat)
         /\ bufpos >= buflen => Len(fed) = fpos
<1>1. /\ fpos \in Nat /\ buflen \in Nat /\ bufpos \in Nat /\ bufpos <= buflen /\ buflen <= fpos
      /\ file.bytes \in Nat /\ file.errorat \in Nat
  BY FileFacts DEF IInv, TypeOK, Positions
<1>2. PICK n \in Nat : n = bufpos + (fpos - buflen) /\ n <= fpos /\ (bufpos >= buflen => n = fpos)
  BY <1>1
<1>3. Len(fed) = n
  BY <1>2, LengthFed DEF IInv, Positions
<1> QED
  BY <1>1, <1>2, <1>3 DEF IInv, Positions, Min

LEMMA WholeItem ==
  ASSUME file \in Files, NEW i \in Nat
  PROVE  i \in Whole(file) <=> i \in 1 .. Len(file.items)
                                /\ ItemBytes * i <= Min(file.bytes, file.errorat)
<1>1. PICK b \in Nat : b = ItemBytes
  BY SizeFacts
<1>2. i * b = b * i
  BY <1>1
<1>3. DOMAIN file.items = 1 .. Len(file.items)
  BY FileFacts
<1> QED
  BY <1>1, <1>2, <1>3 DEF Whole

\* An item that libFLAC handles can be read whole.
LEMMA ParsedItem ==
  ASSUME IInv, NEW kinds, Parses(kinds)
  PROVE  /\ parsed \in Nat /\ parsed + 1 \in 1 .. Len(file.items) /\ parsed + 1 \in Whole(file)
         /\ file.items[parsed + 1].kind \in kinds /\ parsed' = parsed + 1 /\ Waiting
<1>1. file \in Files /\ parsed \in Nat
  BY DEF IInv, Positions, TypeOK
<1>2. /\ parsed < Len(file.items) /\ Len(fed) >= ItemBytes * (parsed + 1)
      /\ file.items[parsed + 1].kind \in kinds /\ parsed' = parsed + 1 /\ Waiting
  BY DEF Parses
<1>3. parsed + 1 \in 1 .. Len(file.items)
  BY <1>1, <1>2, FileFacts
<1>4. PICK n, m : /\ n \in Nat /\ n = Len(fed)
                  /\ m = Min(file.bytes, file.errorat) /\ n <= m
  BY FedBound
<1>5. PICK k \in Nat, b \in Nat : k = parsed + 1 /\ b = ItemBytes
  BY <1>1, SizeFacts
<1>6. b * k \in Nat /\ b * k <= n
  BY <1>2, <1>4, <1>5
<1>7. m \in Nat
  BY <1>1, <1>4, FileFacts DEF Min
<1>8. ItemBytes * (parsed + 1) <= Min(file.bytes, file.errorat)
  BY <1>4, <1>5, <1>6, <1>7
<1> QED
  BY <1>1, <1>2, <1>3, <1>8, WholeItem

\* When libFLAC asks for bytes, and has all there are, no audio is left.
LEMMA NothingLeft ==
  ASSUME IInv, Asks, Len(fed) = Min(file.bytes, file.errorat)
  PROVE  AudioFrom(file)[parsed + 1] = <<>>
<1>1. file \in Files /\ parsed \in Nat /\ parsed <= Len(file.items) /\ Len(file.items) \in Nat
  BY FileFacts DEF IInv, Positions, TypeOK
<1>2. CASE parsed = Len(file.items)
  BY <1>1, <1>2, AudioLast
<1>3. CASE parsed < Len(file.items)
  <2>1. ~(Len(fed) >= ItemBytes * (parsed + 1))
    BY <1>3 DEF Asks
  <2>2. PICK k \in Nat, b \in Nat : k = parsed + 1 /\ b = ItemBytes
    BY <1>1, SizeFacts
  <2>3. b * k \in Nat /\ Len(fed) \in Nat /\ ~(Len(fed) >= b * k)
    BY <2>1, <2>2, FedBound
  <2>4. ~(ItemBytes * (parsed + 1) <= Min(file.bytes, file.errorat))
    BY <2>2, <2>3
  <2>5. parsed + 1 \in 1 .. Len(file.items) /\ parsed + 1 \notin Whole(file)
    BY <1>1, <1>3, <2>4, WholeItem
  <2> QED
    BY <1>1, <2>5, AudioItem
<1> QED
  BY <1>1, <1>2, <1>3

\* Once the metadata is read, channels and max_blocksize are those of the STREAMINFO
\* that counts.
LEMMA LatestDeclared ==
  ASSUME IInv, Latest, parsed >= file.metas, channels > 0
  PROVE  Infos(file) # {} /\ Declared(file).channels = channels /\ Declared(file).size = max_blocksize
<1>1. file \in Files /\ file.metas \in Nat /\ parsed \in Nat
  BY FileFacts DEF IInv, Positions, TypeOK
<1>2. Infos(file) \subseteq 1 .. file.metas
  BY DEF Infos
<1>3. \A j \in Infos(file) : j \in Nat /\ j <= parsed
  BY <1>1, <1>2
<1>4. channels \in Nat
  BY DEF IInv, TypeOK
<1>5. PICK i \in 1 .. parsed :
        IsLatest(i) /\ channels = file.items[i].channels /\ max_blocksize = file.items[i].size
  BY <1>4 DEF Latest
<1>6. i \in Infos(file) /\ \A j \in Infos(file) : j <= i
  BY <1>3, <1>5 DEF IsLatest
<1>7. PICK k : k = CHOOSE i2 \in Infos(file) : \A j \in Infos(file) : j <= i2
  OBVIOUS
<1>8. k \in Infos(file) /\ \A j \in Infos(file) : j <= k
  BY <1>6, <1>7
<1>9. k = i
  BY <1>3, <1>6, <1>8
<1>10. Declared(file) = file.items[i]
  BY <1>7, <1>9 DEF Declared
<1> QED
  BY <1>5, <1>6, <1>10

-----------------------------------------------------------------------------
(* Every step keeps it.                                                    *)

LEMMA FlowKept ==
  ASSUME Flowing, Taken' = Taken, Rest' = Rest,
         UNCHANGED <<file, encoded, input, block_buf, block_buf_pos, block_buf_len>>
  PROVE  Flowing'
<1>1. AudioFrom(file)' = AudioFrom(file)
  BY DEF AudioFrom, Whole, Misfit, Declared, Infos, SamplesOf, Min
<1> QED
  BY <1>1 DEF Flowing

LEMMA RestTyped == ASSUME IInv PROVE Rest \in Seq(Sample) /\ Len(Rest) \in Nat
<1>1. file \in Files /\ parsed + 1 \in 1 .. Len(file.items) + 1
  BY FileFacts DEF IInv, Positions, TypeOK
<1>2. AudioFrom(file)[parsed + 1] \in Seq(Sample)
  BY <1>1, AudioTyped
<1> QED
  BY <1>2 DEF Rest

LEMMA LatestKept ==
  ASSUME Latest, UNCHANGED <<file, parsed, channels, max_blocksize>>
  PROVE  Latest'
BY DEF Latest, IsLatest, Infos

\* libFLAC gets bytes, or finds that there are no more.
LEMMA BytesFlow ==
  ASSUME FInv, AtEof \/ ReadBuffered \/ ReadFile
  PROVE  FInv'
<1>1. IInv'
  BY NextInvariant DEF FInv, Next, Callbacks
<1>2. /\ UNCHANGED <<file, parsed, block, loop>> /\ Asks /\ dec # "ended"
      /\ (pc = "open" /\ dec = "metadata") \/ pc = "single"
  BY DEF AtEof, ReadBuffered, ReadFile, disk, lib, Asks, Waiting
<1>3. dec' = dec \/ (dec' = "ended" /\ AudioFrom(file)[parsed + 1] = <<>>)
  <2>1. CASE AtEof
    <3>1. /\ file \in Files /\ file.bytes \in Nat /\ file.errorat \in Nat /\ fpos = file.bytes
          /\ fpos <= Min(file.bytes, file.errorat) /\ bufpos >= buflen
      BY <2>1, FileFacts DEF AtEof, Eof, FInv, IInv, Positions
    <3>2. Len(fed) = Min(file.bytes, file.errorat)
      BY <3>1, FedBound DEF FInv, Min
    <3> QED
      BY <1>2, <2>1, <3>2, NothingLeft DEF AtEof, FInv
  <2>2. CASE ReadBuffered
    BY <2>2 DEF ReadBuffered, lib
  <2>3. CASE ReadFile
    <3> SUFFICES ASSUME dec' # dec PROVE dec' = "ended" /\ AudioFrom(file)[parsed + 1] = <<>>
      OBVIOUS
    <3>1. PICK bytes \in 1 .. MaxRequest :
            /\ Min(bytes, Min(file.bytes, file.errorat) - fpos) = 0
            /\ dec' = "ended"
      BY <2>3 DEF ReadFile
    <3>2. PICK last \in Nat : last = Min(file.bytes, file.errorat) /\ fpos <= last /\ fpos \in Nat
      BY FileFacts DEF FInv, IInv, Positions, TypeOK, Min
    <3>3. fpos = last
      BY <3>1, <3>2, SizeFacts DEF Min
    <3>4. bufpos >= buflen
      BY <2>3 DEF ReadFile, IdLeft, FInv, IInv, TypeOK
    <3>5. Len(fed) = Min(file.bytes, file.errorat)
      BY <3>2, <3>3, <3>4, FedBound DEF FInv
    <3> QED
      BY <1>2, <3>1, <3>5, NothingLeft DEF FInv
  <2> QED
    BY <2>1, <2>2, <2>3
<1>4. Cells' /\ Latest'
  BY <1>2, LatestKept DEF FInv, Cells, block, loop
<1>5. Phases'
  <2>1. UNCHANGED <<pc, encoded, block_buf_pos, block_buf_len, got, channels>>
    BY <1>2 DEF block, loop
  <2>2. pc = "single" => Exhausted /\ Exhausted' /\ parsed >= file.metas /\ channels > 0 /\ dec # "metadata"
    BY <2>1 DEF FInv, Phases, Exhausted, Started
  <2>3. CASE pc = "single"
    BY <1>2, <1>3, <2>1, <2>2, <2>3 DEF Phases
  <2>4. CASE pc = "open"
    BY <1>2, <1>3, <2>1, <2>4 DEF FInv, Phases, Started
  <2> QED
    BY <1>2, <2>3, <2>4
<1>6. Rest' = Rest
  <2>1. AudioFrom(file)' = AudioFrom(file)
    BY <1>2 DEF AudioFrom, Whole, Misfit, Declared, Infos, SamplesOf, Min
  <2> QED
    BY <1>2, <1>3, <2>1 DEF Rest
<1>7. Infos(file)' # {} /\ pc' \notin {"refused", "failed"} => Flowing'
  <2>1. Infos(file)' = Infos(file)
    BY <1>2 DEF Infos
  <2>2. Taken' = Taken
    BY <1>2 DEF Taken, loop
  <2>3. Flowing => Flowing'
    BY <1>2, <1>6, <2>2, FlowKept DEF block, loop
  <2> QED
    BY <1>2, <2>1, <2>3 DEF FInv, loop
<1> QED
  BY <1>1, <1>4, <1>5, <1>7 DEF FInv

\* Metadata, or a frame that is lost: no audio.
LEMMA SilentFlow ==
  ASSUME FInv, StreamInfo \/ OtherMetadata \/ LostFrame
  PROVE  FInv'
<1>1. IInv'
  BY NextInvariant DEF FInv, Next, Callbacks
<1>2. /\ UNCHANGED <<file, disk, dec, loop>> /\ Parses({"info", "tags", "damaged"})
      /\ Parses({"info"}) \/ UNCHANGED block
      /\ ~StreamInfo => UNCHANGED block /\ Parses({"tags", "damaged"})
  BY DEF StreamInfo, OtherMetadata, LostFrame, Parses, disk
<1>3. /\ parsed \in Nat /\ parsed + 1 \in 1 .. Len(file.items) /\ parsed + 1 \in Whole(file)
      /\ file.items[parsed + 1].kind \in {"info", "tags", "damaged"} /\ parsed' = parsed + 1
      /\ Waiting /\ file \in Files
  BY <1>2, ParsedItem DEF FInv, IInv, Positions
<1>4. dec # "ended" /\ dec' # "ended" /\ ((pc = "open" /\ parsed < file.metas) \/ pc = "single")
  BY <1>2, <1>3 DEF Waiting
<1>5. StreamInfo => pc = "open" /\ file.items[parsed + 1].kind = "info"
  <2> SUFFICES ASSUME StreamInfo PROVE pc = "open" /\ file.items[parsed + 1].kind = "info"
    OBVIOUS
  <2>1. file.items[parsed + 1].kind = "info"
    BY DEF StreamInfo, Parses
  <2>2. parsed + 1 <= file.metas
    BY <1>3, <2>1, FileFacts
  <2>3. ~(parsed >= file.metas)
    BY <1>3, <2>2, FileFacts
  <2>4. pc # "single"
    BY <2>3 DEF FInv, Phases, Started
  <2> QED
    BY <1>4, <2>1, <2>4
<1>6. Cells'
  <2>1. CASE StreamInfo
    <3>1. /\ block_buf' = [s \in 1 .. Item.size |-> <<0, 0>>] /\ max_blocksize' = Item.size
          /\ UNCHANGED <<input, encoded>>
      BY <2>1 DEF StreamInfo, loop
    <3>2. <<0, 0>> \in Sample
      BY DEF Sample
    <3> QED
      BY <3>1, <3>2 DEF FInv, Cells
  <2>2. CASE ~StreamInfo
    BY <1>2, <2>2 DEF FInv, Cells, block, loop
  <2> QED
    BY <2>1, <2>2
<1>7. Latest'
  <2>1. Infos(file)' = Infos(file) /\ \A j \in Infos(file) : j \in Nat
    BY <1>2, <1>3, FileFacts DEF Infos
  <2>2. CASE StreamInfo
    <3>1. parsed + 1 \in Infos(file)
      <4>1. parsed + 1 <= file.metas
        BY <1>3, <1>5, <2>2, FileFacts
      <4> QED
        BY <1>3, <1>5, <2>2, <4>1, FileFacts DEF Infos
    <3>2. channels' = file.items[parsed + 1].channels /\ max_blocksize' = file.items[parsed + 1].size
      BY <2>2 DEF StreamInfo, Item
    <3>3. PICK i : i = parsed + 1
      OBVIOUS
    <3>4. i \in 1 .. parsed' /\ IsLatest(i)' /\ channels' = file'.items[i].channels
          /\ max_blocksize' = file'.items[i].size
      BY <1>2, <1>3, <2>1, <3>1, <3>2, <3>3 DEF IsLatest
    <3> QED
      BY <3>4 DEF Latest
  <2>3. CASE ~StreamInfo
    <3>1. parsed + 1 \notin Infos(file)
      <4>1. file.items[parsed + 1].kind \in {"tags", "damaged"}
        BY <1>2, <2>3 DEF Parses
      <4> QED
        BY <4>1 DEF Infos
    <3>2. \A j \in Infos(file) : j <= parsed' <=> j <= parsed
      BY <1>3, <2>1, <3>1
    <3>3. UNCHANGED <<channels, max_blocksize>>
      BY <1>2, <2>3 DEF block
    <3>4. \A i : IsLatest(i) => IsLatest(i)'
      BY <2>1, <3>2 DEF IsLatest
    <3>5. CASE channels = 0 /\ \A j \in Infos(file) : j > parsed
      <4>1. \A j \in Infos(file) : j > parsed'
        BY <1>3, <2>1, <3>2, <3>5
      <4> QED
        BY <2>1, <3>3, <3>5, <4>1 DEF Latest
    <3>6. CASE \E i \in 1 .. parsed :
                 IsLatest(i) /\ channels = file.items[i].channels /\ max_blocksize = file.items[i].size
      <4>1. PICK i \in 1 .. parsed :
                 IsLatest(i) /\ channels = file.items[i].channels /\ max_blocksize = file.items[i].size
        BY <3>6
      <4>2. i \in 1 .. parsed' /\ IsLatest(i)' /\ channels' = file'.items[i].channels
            /\ max_blocksize' = file'.items[i].size
        BY <1>2, <1>3, <3>3, <3>4, <4>1
      <4> QED
        BY <4>2 DEF Latest
    <3> QED
      BY <3>5, <3>6 DEF FInv, Latest
  <2> QED
    BY <2>2, <2>3
<1>8. /\ UNCHANGED <<pc, got, encoded, input>>
      /\ block_buf_len' - block_buf_pos' = block_buf_len - block_buf_pos
      /\ ~StreamInfo => UNCHANGED <<block_buf, block_buf_pos, block_buf_len, channels>>
      /\ StreamInfo => block_buf_pos' = 0 /\ block_buf_len' = 0 /\ block_buf_pos = 0 /\ block_buf_len = 0
  <2>1. StreamInfo => block_buf_pos' = 0 /\ block_buf_len' = 0 /\ block_buf_pos = 0 /\ block_buf_len = 0
    BY <1>5 DEF StreamInfo, FInv, Phases
  <2>2. ~StreamInfo => UNCHANGED <<block_buf, block_buf_pos, block_buf_len, channels>>
    BY <1>2 DEF block
  <2> QED
    BY <1>2, <2>1, <2>2 DEF loop
<1>9. Phases'
  <2>1. CASE pc = "single"
    <3>1. ~StreamInfo /\ Exhausted /\ parsed >= file.metas /\ channels > 0 /\ dec # "metadata"
      BY <1>5, <2>1 DEF FInv, Phases, Started
    <3>2. Exhausted' /\ parsed' >= file'.metas /\ channels' > 0 /\ dec' # "metadata"
      BY <1>2, <1>3, <1>8, <3>1, FileFacts DEF Exhausted
    <3> QED
      BY <1>8, <2>1, <3>2 DEF Phases
  <2>2. CASE pc = "open"
    <3>1. dec' # "frames" /\ encoded' = <<>> /\ block_buf_pos' = 0 /\ block_buf_len' = 0
      BY <1>2, <1>8, <2>2 DEF FInv, Phases
    <3>2. parsed' <= file'.metas
      BY <1>2, <1>3, <1>4, <2>2, FileFacts
    <3> QED
      BY <1>8, <2>2, <3>1, <3>2 DEF Phases, Started
  <2> QED
    BY <1>4, <2>1, <2>2
<1>10. Infos(file)' # {} /\ pc' \notin {"refused", "failed"} => Flowing'
  <2>1. Infos(file)' = Infos(file) /\ AudioFrom(file)' = AudioFrom(file)
    BY <1>2 DEF AudioFrom, Whole, Misfit, Declared, Infos, SamplesOf, Min
  <2>2. Taken' = Taken
    BY <1>8 DEF Taken
  <2>3. Rest' = Rest
    <3>1. AudioFrom(file)[parsed + 1] = AudioFrom(file)[(parsed + 1) + 1]
      BY <1>3, AudioItem
    <3> QED
      BY <1>3, <1>4, <2>1, <3>1 DEF Rest
  <2>4. CASE StreamInfo
    <3>1. block_buf_len - block_buf_pos = 0 /\ block_buf_len' - block_buf_pos' = 0
      BY <1>8, <2>4
    <3>2. Follows(AudioFrom(file)[1], Len(encoded), input, Taken, block_buf, block_buf_pos, 0, Rest)
          => Follows(AudioFrom(file)[1], Len(encoded), input, Taken, block_buf', block_buf_pos', 0, Rest)
      BY DEF Follows
    <3> QED
      BY <1>8, <2>1, <2>2, <2>3, <3>1, <3>2 DEF FInv, Flowing
  <2>5. CASE ~StreamInfo
    <3>1. Flowing => Flowing'
      BY <1>2, <1>8, <2>2, <2>3, <2>5, FlowKept
    <3> QED
      BY <1>8, <2>1, <3>1 DEF FInv
  <2> QED
    BY <2>4, <2>5
<1> QED
  BY <1>1, <1>6, <1>7, <1>9, <1>10 DEF FInv

LEMMA FrameStep ==
  ASSUME FInv, Parses({"frame"})
  PROVE  /\ parsed \in Nat /\ parsed + 1 \in 1 .. Len(file.items) /\ parsed + 1 \in Whole(file)
         /\ file.items[parsed + 1].kind = "frame" /\ parsed' = parsed + 1
         /\ file \in Files /\ pc = "single" /\ dec = "frames" /\ Exhausted
         /\ Misfit(file, parsed + 1) <=> ~Acceptable(Item)
         /\ channels > 0 /\ parsed >= file.metas /\ Infos(file) # {}
<1>1. /\ parsed \in Nat /\ parsed + 1 \in 1 .. Len(file.items) /\ parsed + 1 \in Whole(file)
      /\ file.items[parsed + 1].kind = "frame" /\ parsed' = parsed + 1 /\ Waiting /\ file \in Files
  BY ParsedItem DEF FInv, IInv, Positions
<1>2. pc = "single" /\ dec = "frames"
  <2>1. ~(parsed + 1 <= file.metas)
    BY <1>1, FileFacts
  <2>2. ~(parsed < file.metas)
    BY <1>1, <2>1, FileFacts
  <2> QED
    BY <1>1, <2>2 DEF Waiting
<1>3. Exhausted /\ channels > 0 /\ parsed >= file.metas
  BY <1>2 DEF FInv, Phases, Started
<1>4. Infos(file) # {} /\ Declared(file).channels = channels /\ Declared(file).size = max_blocksize
  BY <1>3, LatestDeclared DEF FInv
<1>5. Item.size \in Nat /\ max_blocksize \in Nat
  BY <1>1, FileFacts DEF Item, FInv, IInv, TypeOK
<1>6. Misfit(file, parsed + 1) <=> ~Acceptable(Item)
  BY <1>1, <1>4, <1>5 DEF Misfit, Acceptable, Item
<1> QED
  BY <1>1, <1>2, <1>3, <1>4, <1>6

\* A frame is no metadata.
LEMMA LatestFrame ==
  ASSUME Latest, UNCHANGED <<file, channels, max_blocksize>>, file \in Files, parsed \in Nat,
         parsed' = parsed + 1, file.items[parsed + 1].kind = "frame"
  PROVE  Latest'
<1>1. Infos(file)' = Infos(file) /\ \A j \in Infos(file) : j \in Nat
  BY FileFacts DEF Infos
<1>2. parsed + 1 \notin Infos(file)
  BY DEF Infos
<1>3. \A j \in Infos(file) : j <= parsed' <=> j <= parsed
  BY <1>1, <1>2
<1>4. \A i : IsLatest(i) => IsLatest(i)'
  BY <1>1, <1>3 DEF IsLatest
<1>5. CASE channels = 0 /\ \A j \in Infos(file) : j > parsed
  <2>1. \A j \in Infos(file) : j > parsed'
    BY <1>1, <1>3, <1>5
  <2> QED
    BY <1>1, <1>5, <2>1 DEF Latest
<1>6. CASE \E i \in 1 .. parsed :
             IsLatest(i) /\ channels = file.items[i].channels /\ max_blocksize = file.items[i].size
  <2>1. PICK i \in 1 .. parsed :
             IsLatest(i) /\ channels = file.items[i].channels /\ max_blocksize = file.items[i].size
    BY <1>6
  <2>2. i \in 1 .. parsed' /\ IsLatest(i)' /\ channels' = file'.items[i].channels
        /\ max_blocksize' = file'.items[i].size
    BY <1>4, <2>1
  <2> QED
    BY <2>2 DEF Latest
<1> QED
  BY <1>5, <1>6 DEF Latest

LEMMA AudioKept == ASSUME UNCHANGED file PROVE /\ AudioFrom(file)' = AudioFrom(file)
                                               /\ Infos(file)' = Infos(file)
BY DEF AudioFrom, Whole, Misfit, Declared, Infos, SamplesOf, Min

LEMMA GotFlow == ASSUME FInv, GotFrame PROVE FInv'
<1>1. IInv'
  BY NextInvariant DEF FInv, Next, Callbacks
<1>2. PICK k : k = parsed + 1
  OBVIOUS
<1>3. /\ parsed \in Nat /\ k \in 1 .. Len(file.items) /\ k \in Whole(file)
      /\ file.items[k].kind = "frame" /\ parsed' = k
      /\ file \in Files /\ pc = "single" /\ dec = "frames" /\ Exhausted
      /\ ~Misfit(file, k) /\ channels > 0 /\ parsed >= file.metas /\ Infos(file) # {}
  BY <1>2, FrameStep DEF GotFrame
<1>4. PICK n \in Nat : n = file.items[k].size /\ n > 0 /\ n <= max_blocksize
  BY <1>2, <1>3, FileFacts DEF GotFrame, Acceptable, Item
<1>5. /\ block_buf' = [s \in DOMAIN block_buf |-> IF s <= n THEN <<k, s>> ELSE block_buf[s]]
      /\ block_buf_pos' = 0 /\ block_buf_len' = n /\ pc' = "block"
      /\ UNCHANGED <<file, channels, max_blocksize, dec, input, samples, got, encoded>>
  BY <1>2, <1>4 DEF GotFrame, Item, disk
<1>6. Cells'
  <2>1. block_buf \in [1 .. max_blocksize -> Sample] /\ max_blocksize \in Nat /\ k \in Nat
    BY <1>3, FileFacts DEF FInv, Cells, IInv, TypeOK
  <2>2. \A s \in 1 .. max_blocksize : <<k, s>> \in Sample
    BY <2>1 DEF Sample
  <2>3. block_buf' \in [1 .. max_blocksize -> Sample]
    BY <1>5, <2>1, <2>2
  <2> QED
    BY <1>5, <2>3 DEF FInv, Cells
<1>7. Latest'
  BY <1>2, <1>3, <1>5, LatestFrame DEF FInv
<1>8. Phases'
  <2>1. ~Exhausted'
    BY <1>4, <1>5 DEF Exhausted
  <2>2. parsed' >= file'.metas
    BY <1>2, <1>3, <1>5, FileFacts
  <2> QED
    BY <1>3, <1>5, <2>1, <2>2 DEF Phases, Started
<1>9. Flowing'
  <2>1. PICK a, b, all, e, t, pos, buf :
          /\ e \in Nat /\ t \in Nat
          /\ a = AudioFrom(file)[k] /\ b = AudioFrom(file)[k + 1] /\ all = AudioFrom(file)[1]
          /\ e = Len(encoded) /\ t = Taken /\ pos = block_buf_pos /\ buf = block_buf'
    <3>1. Len(encoded) \in Nat
      BY DEF FInv, Cells
    <3>2. Taken \in Nat
      BY SizeFacts DEF Taken, FInv, IInv, TypeOK
    <3> QED
      BY <3>1, <3>2
  <2>2. block_buf_len - block_buf_pos = 0
    BY <1>3 DEF Exhausted, FInv, IInv, TypeOK
  <2>3. Follows(all, e, input, t, block_buf, pos, 0, a)
    <3>1. Flowing /\ Rest = a
      BY <1>2, <1>3, <2>1 DEF FInv, Rest
    <3> QED
      BY <2>1, <2>2, <3>1 DEF Flowing
  <2>4. /\ Len(a) = n + Len(b)
        /\ \A s \in 1 .. n : a[s] = <<k, s>>
        /\ \A s \in 1 .. Len(b) : a[n + s] = b[s]
    BY <1>3, <1>4, <2>1, AudioFrame
  <2>5. Len(b) \in Nat
    <3>1. k + 1 \in 1 .. Len(file.items) + 1
      BY <1>3, FileFacts
    <3>2. b \in Seq(Sample)
      BY <1>3, <2>1, <3>1, AudioTyped
    <3> QED
      BY <3>2
  <2>6. \A s \in 1 .. n : buf[s] = <<k, s>>
    <3>1. DOMAIN block_buf = 1 .. max_blocksize /\ max_blocksize \in Nat
      BY DEF FInv, IInv, TypeOK
    <3> QED
      BY <1>4, <1>5, <2>1, <3>1
  <2>7. Follows(all, e, input, t, buf, 0, n, b)
    <3>1. \A s \in 1 .. n : a[s] = buf[s]
      BY <2>4, <2>6
    <3>2. \A s \in 1 .. Len(b) : a[n + s] = b[s]
      BY <2>4
    <3>3. e \in Nat /\ t \in Nat /\ n \in Nat /\ Len(b) \in Nat /\ Len(a) = n + Len(b)
      BY <2>1, <2>4, <2>5
    <3> QED
      BY <2>3, <3>1, <3>2, <3>3, FollowsFrame
  <2>8. /\ Taken' = t /\ Rest' = b /\ block_buf_len' - block_buf_pos' = n
        /\ AudioFrom(file)'[1] = all /\ Len(encoded)' = e
    BY <1>3, <1>5, <2>1, AudioKept DEF Taken, Rest
  <2> QED
    BY <1>5, <2>1, <2>7, <2>8 DEF Flowing
<1> QED
  BY <1>1, <1>6, <1>7, <1>8, <1>9 DEF FInv

LEMMA AbortFlow == ASSUME FInv, AbortFrame PROVE FInv'
<1>1. IInv'
  BY NextInvariant DEF FInv, Next, Callbacks
<1>2. /\ parsed \in Nat /\ parsed + 1 \in 1 .. Len(file.items)
      /\ file.items[parsed + 1].kind = "frame" /\ parsed' = parsed + 1
      /\ file \in Files /\ pc = "single" /\ dec = "frames" /\ Exhausted
      /\ Misfit(file, parsed + 1) /\ channels > 0 /\ parsed >= file.metas
  BY FrameStep DEF AbortFrame
<1>3. dec' = "ended" /\ UNCHANGED <<file, block, loop>>
  BY DEF AbortFrame, disk
<1>4. Cells'
  BY <1>3 DEF FInv, Cells, block, loop
<1>5. Latest'
  BY <1>2, <1>3, LatestFrame DEF FInv, block
<1>6. Phases'
  <2>1. Exhausted' /\ channels' > 0 /\ pc' = "single"
    BY <1>2, <1>3 DEF Exhausted, block, loop
  <2>2. parsed' >= file'.metas
    BY <1>2, <1>3, FileFacts
  <2> QED
    BY <1>3, <2>1, <2>2 DEF Phases, Started
<1>7. Rest = <<>> /\ Rest' = <<>>
  BY <1>2, <1>3, AudioItem DEF Rest
<1>8. Infos(file)' # {} /\ pc' \notin {"refused", "failed"} => Flowing'
  <2>1. Taken' = Taken /\ Infos(file)' = Infos(file)
    BY <1>3, AudioKept DEF Taken, loop
  <2>2. Flowing => Flowing'
    BY <1>3, <1>7, <2>1, FlowKept DEF block, loop
  <2> QED
    BY <1>2, <2>1, <2>2 DEF FInv
<1> QED
  BY <1>1, <1>4, <1>5, <1>6, <1>8 DEF FInv

\* Steps of the loop and of flac_read that move no sample.
LEMMA StillFlow ==
  ASSUME FInv, \/ Opened \/ Refused \/ NextFrame \/ CallSingle \/ NoBlock \/ SingleReturns
               \/ FullRead \/ EncoderFails \/ Drain
  PROVE  FInv'
<1>1. IInv'
  BY NextInvariant DEF FInv, Next, Opusenc
<1>2. /\ UNCHANGED <<disk, block, parsed, input, encoded>>
      /\ dec' = dec \/ Opened
  BY DEF Opened, Refused, NextFrame, CallSingle, NoBlock, SingleReturns, FullRead, EncoderFails,
     Drain, lib
<1>3. Cells' /\ Latest'
  BY <1>2, LatestKept DEF FInv, Cells, disk, block
<1>4. Phases'
  <2>1. UNCHANGED <<file, channels, parsed, block_buf_pos, block_buf_len, encoded>>
    BY <1>2 DEF disk, block
  <2>2. AudioFrom(file)' = AudioFrom(file)
    BY <2>1, AudioKept
  <2>3. CASE Opened
    BY <2>1, <2>3, FileFacts DEF Opened, FInv, Phases, Started, IInv, Positions
  <2>4. CASE Refused
    BY <2>4 DEF Refused, Phases, Started
  <2>5. CASE NextFrame
    BY <1>2, <2>1, <2>5 DEF NextFrame, Opened, FInv, Phases, Started
  <2>6. CASE CallSingle
    <3>1. Exhausted' /\ pc = "read" /\ pc' = "single" /\ dec' = dec
      BY <1>2, <2>1, <2>6 DEF CallSingle, Exhausted, Opened
    <3> QED
      BY <2>1, <3>1 DEF FInv, Phases, Started
  <2>7. CASE NoBlock
    BY <1>2, <2>1, <2>7 DEF NoBlock, Opened, FInv, Phases, Started
  <2>8. CASE SingleReturns
    <3>1. /\ Exhausted' <=> Exhausted
          /\ pc = "block" /\ pc' = (IF Exhausted THEN "encode" ELSE "copy") /\ dec' = dec
      BY <1>2, <2>1, <2>8 DEF SingleReturns, HitEnd, Exhausted, Opened
    <3> QED
      BY <2>1, <3>1 DEF FInv, Phases, Started
  <2>9. CASE FullRead
    <3>1. pc = "read" /\ pc' = "encode" /\ dec' = dec /\ got' = got /\ samples = 0
      BY <1>2, <2>9 DEF FullRead, Opened
    <3>2. got = FrameSize
      BY <3>1, SizeFacts DEF FInv, IInv, TypeOK, Counts
    <3> QED
      BY <2>1, <3>1, <3>2 DEF FInv, Phases, Started
  <2>10. CASE EncoderFails
    <3>1. dec' = dec /\ ((pc = "encode" /\ pc' = "failed") \/ (pc = "drain" /\ pc' = "undrained"))
      BY <1>2, <2>10 DEF EncoderFails, Opened
    <3> QED
      BY <2>1, <2>2, <3>1 DEF FInv, Phases, Started
  <2>11. CASE Drain
    <3>1. dec' = dec /\ pc = "drain" /\ pc' = "done"
      BY <1>2, <2>11 DEF Drain, Opened
    <3> QED
      BY <2>1, <2>2, <3>1 DEF FInv, Phases, Started
  <2> QED
    BY <2>3, <2>4, <2>5, <2>6, <2>7, <2>8, <2>9, <2>10, <2>11
<1>5. Infos(file)' # {} /\ pc' \notin {"refused", "failed"} => Flowing'
  <2> SUFFICES ASSUME Infos(file)' # {}, pc' \notin {"refused", "failed"} PROVE Flowing'
    OBVIOUS
  <2>1. UNCHANGED <<file, encoded, input, block_buf, block_buf_pos, block_buf_len>>
    BY <1>2 DEF disk, block
  <2>2. Flowing
    <3>1. pc \notin {"refused", "failed"}
      BY DEF Opened, Refused, NextFrame, CallSingle, NoBlock, SingleReturns, FullRead, EncoderFails, Drain
    <3> QED
      BY <2>1, <3>1, AudioKept DEF FInv
  <2>3. Taken' = Taken
    <3>1. CASE NextFrame
      BY <3>1 DEF NextFrame, Taken
    <3>2. CASE ~NextFrame
      BY <3>2 DEF Opened, Refused, CallSingle, NoBlock, SingleReturns, FullRead, EncoderFails,
         Drain, Taken
    <3> QED
      BY <3>1, <3>2
  <2>4. Rest' = Rest
    <3>1. dec' = "ended" <=> dec = "ended"
      BY <1>2 DEF Opened
    <3> QED
      BY <1>2, <2>1, <3>1, AudioKept DEF Rest
  <2> QED
    BY <2>1, <2>2, <2>3, <2>4, FlowKept
<1> QED
  BY <1>1, <1>3, <1>4, <1>5 DEF FInv

\* Samples go from the block into the buffer of the encoding loop.
LEMMA CopyFlow == ASSUME FInv, Copy PROVE FInv'
<1>1. IInv'
  BY NextInvariant DEF FInv, Next, Opusenc
<1>2. /\ pc \in {"copy", "read"} /\ pc' = "read" /\ samples > 0
      /\ UNCHANGED <<file, channels, max_blocksize, block_buf, block_buf_len, dec, parsed, encoded>>
      /\ got' = got + ToCopy /\ block_buf_pos' = block_buf_pos + ToCopy
      /\ input' = [s \in 1 .. FrameSize |->
                     IF s \in got + 1 .. got + ToCopy THEN block_buf[block_buf_pos + s - got]
                     ELSE input[s]]
  BY DEF Copy, disk, lib, FInv, IInv, Counts
<1>3. PICK t, n, pos, left, e :
        /\ t \in Nat /\ n \in Nat /\ pos \in Nat /\ left \in Nat /\ e \in Nat
        /\ t = got /\ n = ToCopy /\ pos = block_buf_pos /\ left = block_buf_len - block_buf_pos
        /\ e = Len(encoded) /\ n <= left /\ t + n <= FrameSize /\ pos + left <= max_blocksize
        /\ max_blocksize \in Nat
  <2>1. /\ samples \in Nat /\ got \in Nat /\ got + samples = FrameSize /\ max_blocksize \in Nat
        /\ block_buf_len - block_buf_pos \in Nat /\ block_buf_pos \in Nat /\ block_buf_len \in Nat
        /\ block_buf_len <= max_blocksize /\ Len(encoded) \in Nat
    BY <1>2, SizeFacts DEF FInv, IInv, TypeOK, Counts, Cells
  <2>2. ToCopy \in Nat /\ ToCopy <= samples /\ ToCopy <= block_buf_len - block_buf_pos
    BY <2>1 DEF ToCopy, Min
  <2>3. got + ToCopy <= FrameSize
    BY <2>1, <2>2
  <2>4. block_buf_pos + (block_buf_len - block_buf_pos) <= max_blocksize
    BY <2>1
  <2> QED
    BY <2>1, <2>2, <2>3, <2>4
<1>4. /\ \A s \in 1 .. t : input'[s] = input[s]
      /\ \A s \in 1 .. n : input'[t + s] = block_buf[pos + s]
  <2>1. ASSUME NEW s \in 1 .. t PROVE input'[s] = input[s]
    <3>1. s \in 1 .. FrameSize /\ s \notin got + 1 .. got + ToCopy
      BY <1>3, SizeFacts
    <3> QED
      BY <1>2, <3>1
  <2>2. ASSUME NEW s \in 1 .. n PROVE input'[t + s] = block_buf[pos + s]
    <3>1. t + s \in 1 .. FrameSize /\ t + s \in got + 1 .. got + ToCopy
      BY <1>3, SizeFacts
    <3>2. block_buf_pos + (t + s) - got = pos + s
      BY <1>3
    <3> QED
      BY <1>2, <3>1, <3>2
  <2> QED
    BY <2>1, <2>2
<1>5. Cells'
  <2>1. ASSUME NEW s \in 1 .. FrameSize PROVE input'[s] \in Sample
    <3>1. CASE s \in got + 1 .. got + ToCopy
      <4>1. block_buf_pos + s - got \in 1 .. max_blocksize
        BY <1>3, <3>1
      <4> QED
        BY <1>2, <3>1, <4>1 DEF FInv, Cells
    <3>2. CASE s \notin got + 1 .. got + ToCopy
      BY <1>2, <3>2 DEF FInv, Cells
    <3> QED
      BY <3>1, <3>2
  <2>2. input' \in [1 .. FrameSize -> Sample]
    BY <1>2, <2>1
  <2> QED
    BY <1>2, <2>2 DEF FInv, Cells
<1>6. Latest'
  BY <1>2, LatestKept DEF FInv
<1>7. Phases' /\ Infos(file) # {}
  <2>1. parsed >= file.metas /\ channels > 0 /\ dec # "metadata"
    BY <1>2 DEF FInv, Phases, Started
  <2> QED
    BY <1>2, <2>1, LatestDeclared DEF FInv, Phases, Started
<1>8. Flowing'
  <2>1. Flowing /\ Taken = t
    BY <1>2, <1>3, <1>7 DEF FInv, Taken
  <2>2. PICK a, rest : a = AudioFrom(file)[1] /\ rest = Rest
    OBVIOUS
  <2>3. Follows(a, e, input, t, block_buf, pos, left, rest)
    BY <1>3, <2>1, <2>2 DEF Flowing
  <2>4. Len(rest) \in Nat
    BY <2>2, RestTyped DEF FInv
  <2>5. PICK new : new = input'
    OBVIOUS
  <2>6. Follows(a, e, new, t + n, block_buf, pos + n, left - n, rest)
    <3>1. /\ \A s \in 1 .. t : new[s] = input[s]
          /\ \A s \in 1 .. n : new[t + s] = block_buf[pos + s]
      BY <1>4, <2>5
    <3> QED
      BY <1>3, <2>3, <2>4, <3>1, FollowsCopy
  <2>7. block_buf_len - (block_buf_pos + n) = left - n
    BY <1>3 DEF FInv, IInv, TypeOK
  <2>8. Taken' = t + n /\ Rest' = rest /\ AudioFrom(file)' = AudioFrom(file)
    BY <1>2, <1>3, <2>2, AudioKept DEF Taken, Rest
  <2>9. block_buf_len' - block_buf_pos' = left - n /\ block_buf_pos' = pos + n
    BY <1>2, <1>3, <2>7
  <2> QED
    BY <1>2, <1>3, <2>2, <2>5, <2>6, <2>8, <2>9 DEF Flowing
<1> QED
  BY <1>1, <1>5, <1>6, <1>7, <1>8 DEF FInv

\* What is cut out of a sequence.
LEMMA Cut ==
  ASSUME NEW S, NEW a \in Seq(S), NEW m \in Nat, NEW n \in Nat, m + n <= Len(a)
  PROVE  /\ SubSeq(a, m + 1, m + n) \in Seq(S) /\ Len(SubSeq(a, m + 1, m + n)) = n
         /\ \A s \in 1 .. n : SubSeq(a, m + 1, m + n)[s] = a[m + s]
<1>1. \A i \in m + 1 .. m + n : a[i] \in S
  OBVIOUS
<1> QED
  BY <1>1, SubSeqProperties

\* Sequences with the same elements are the same.
LEMMA SameSeq ==
  ASSUME NEW S, NEW a \in Seq(S), NEW b \in Seq(S), Len(a) = Len(b),
         \A s \in 1 .. Len(a) : a[s] = b[s]
  PROVE  a = b
OBVIOUS

LEMMA CutTwice ==
  ASSUME NEW S, NEW a \in Seq(S), NEW e \in Nat, NEW n \in Nat, NEW r \in Nat, Len(a) = e + n + r,
         NEW b, b = SubSeq(a, e + 1, Len(a))
  PROVE  /\ b \in Seq(S) /\ Len(b) = n + r
         /\ SubSeq(b, 1, n) = SubSeq(a, e + 1, e + n)
         /\ SubSeq(b, n + 1, Len(b)) = SubSeq(a, e + n + 1, Len(a))
<1>1. PICK m \in Nat : m = n + r /\ Len(a) = e + m
  OBVIOUS
<1>2. b \in Seq(S) /\ Len(b) = m /\ \A s \in 1 .. m : b[s] = a[e + s]
  BY <1>1, Cut
<1>3. SubSeq(b, 1, n) = SubSeq(a, e + 1, e + n)
  <2>1. PICK c, d : c = SubSeq(b, 1, n) /\ d = SubSeq(a, e + 1, e + n)
    OBVIOUS
  <2>2. d \in Seq(S) /\ Len(d) = n /\ \A s \in 1 .. n : d[s] = a[e + s]
    BY <2>1, Cut
  <2>3. SubSeq(b, 0 + 1, 0 + n) \in Seq(S) /\ Len(SubSeq(b, 0 + 1, 0 + n)) = n
        /\ \A s \in 1 .. n : SubSeq(b, 0 + 1, 0 + n)[s] = b[0 + s]
    BY <1>1, <1>2, Cut
  <2>4. c \in Seq(S) /\ Len(c) = n /\ \A s \in 1 .. n : c[s] = b[s]
    BY <2>1, <2>3
  <2>5. \A s \in 1 .. n : c[s] = d[s]
    BY <1>1, <1>2, <2>2, <2>4
  <2> QED
    BY <2>1, <2>2, <2>4, <2>5, SameSeq
<1>4. SubSeq(b, n + 1, Len(b)) = SubSeq(a, e + n + 1, Len(a))
  <2>1. PICK c, d : c = SubSeq(b, n + 1, n + r) /\ d = SubSeq(a, (e + n) + 1, (e + n) + r)
    OBVIOUS
  <2>2. d \in Seq(S) /\ Len(d) = r /\ \A s \in 1 .. r : d[s] = a[(e + n) + s]
    BY <2>1, Cut
  <2>3. c \in Seq(S) /\ Len(c) = r /\ \A s \in 1 .. r : c[s] = b[n + s]
    BY <1>1, <1>2, <2>1, Cut
  <2>4. ASSUME NEW s \in 1 .. r PROVE c[s] = d[s]
    <3>1. n + s \in 1 .. m /\ e + (n + s) = (e + n) + s
      BY <1>1
    <3> QED
      BY <1>2, <2>2, <2>3, <3>1
  <2>5. c = d
    BY <2>2, <2>3, <2>4, SameSeq
  <2> QED
    BY <1>1, <1>2, <2>1, <2>5
<1> QED
  BY <1>1, <1>2, <1>3, <1>4

\* What flac_read has read is what the encoder is to be given next, and a short read
\* leaves nothing.
LEMMA EncodeFacts ==
  ASSUME FInv, pc = "encode"
  PROVE  /\ Infos(file) # {} /\ got \in Nat /\ got <= FrameSize /\ Len(encoded) \in Nat
         /\ AudioFrom(file)[1] \in Seq(Sample)
         /\ Len(encoded) + got <= Len(AudioFrom(file)[1])
         /\ got < FrameSize => Len(AudioFrom(file)[1]) = Len(encoded) + got
         /\ SubSeq(input, 1, got) = SubSeq(AudioFrom(file)[1], Len(encoded) + 1, Len(encoded) + got)
<1>1. parsed >= file.metas /\ channels > 0 /\ (got = FrameSize \/ (dec = "ended" /\ Exhausted))
  BY DEF FInv, Phases, Started
<1>2. Infos(file) # {}
  BY <1>1, LatestDeclared DEF FInv
<1>3. Flowing /\ Taken = got
  BY <1>2 DEF FInv, Taken
<1>4. PICK a, e, t, left, m :
        /\ a = AudioFrom(file)[1] /\ e = Len(encoded) /\ t = got
        /\ left = block_buf_len - block_buf_pos /\ m = Len(Rest)
        /\ e \in Nat /\ t \in Nat /\ left \in Nat /\ m \in Nat /\ t <= FrameSize
  <2>1. block_buf_len - block_buf_pos \in Nat /\ got \in Nat /\ got <= FrameSize
    BY SizeFacts DEF FInv, IInv, TypeOK
  <2>2. Len(encoded) \in Nat
    BY DEF FInv, Cells
  <2> QED
    BY <2>1, <2>2, RestTyped DEF FInv
<1>5. Len(a) = e + t + left + m /\ \A s \in 1 .. t : input[s] = a[e + s]
  BY <1>3, <1>4 DEF Flowing, Follows
<1>6. a \in Seq(Sample)
  <2>1. file \in Files /\ 1 \in 1 .. Len(file.items) + 1
    BY FileFacts DEF FInv, IInv, Positions
  <2> QED
    BY <1>4, <2>1, AudioTyped
<1>7. e + t <= Len(a)
  BY <1>4, <1>5
<1>8. t < FrameSize => Len(a) = e + t
  <2> SUFFICES ASSUME t < FrameSize PROVE left = 0 /\ m = 0
    BY <1>4, <1>5
  <2>1. dec = "ended" /\ Exhausted
    BY <1>1, <1>4, SizeFacts
  <2>2. left = 0
    BY <1>4, <2>1 DEF Exhausted, FInv, IInv, TypeOK
  <2>3. m = 0
    BY <1>4, <2>1 DEF Rest
  <2> QED
    BY <2>2, <2>3
<1>9. SubSeq(input, 1, t) = SubSeq(a, e + 1, e + t)
  <2>1. PICK c, d : c = SubSeq(input, 1, t) /\ d = SubSeq(a, e + 1, e + t)
    OBVIOUS
  <2>2. d \in Seq(Sample) /\ Len(d) = t /\ \A s \in 1 .. t : d[s] = a[e + s]
    BY <1>4, <1>6, <1>7, <2>1, Cut
  <2>3. \A s \in 1 .. t : input[s] \in Sample
    BY <1>4, SizeFacts DEF FInv, Cells
  <2>4. c \in Seq(Sample) /\ Len(c) = t /\ \A s \in 1 .. t : c[s] = input[s]
    BY <1>4, <2>1, <2>3, SubSeqProperties
  <2>5. \A s \in 1 .. t : c[s] = d[s]
    BY <1>5, <2>2, <2>4
  <2> QED
    BY <2>1, <2>2, <2>4, <2>5, SameSeq
<1> QED
  BY <1>2, <1>4, <1>6, <1>7, <1>8, <1>9

\* The encoder is given what was read.
LEMMA EncodeFlow == ASSUME FInv, Encode PROVE FInv'
<1>1. IInv'
  BY NextInvariant DEF FInv, Next, Opusenc
<1>2. /\ pc = "encode" /\ pc' = (IF got < FrameSize THEN "drain" ELSE "loop")
      /\ encoded' = encoded \o SubSeq(input, 1, got)
      /\ UNCHANGED <<disk, block, lib, input, samples, got>>
  BY DEF Encode
<1>3. PICK a, e, t, c :
        /\ a = AudioFrom(file)[1] /\ e = Len(encoded) /\ t = got /\ c = SubSeq(input, 1, got)
        /\ e \in Nat /\ t \in Nat /\ a \in Seq(Sample) /\ e + t <= Len(a)
        /\ c = SubSeq(a, e + 1, e + t) /\ (t < FrameSize => Len(a) = e + t)
  BY <1>2, EncodeFacts
<1>4. c \in Seq(Sample) /\ Len(c) = t
  <2>1. a \in Seq(Sample) /\ e \in Nat /\ t \in Nat /\ e + t <= Len(a) /\ c = SubSeq(a, e + 1, e + t)
    BY <1>3
  <2> QED
    BY <2>1, Cut
<1>5. encoded' \in Seq(Sample) /\ Len(encoded') = e + t
  <2>1. encoded \in Seq(Sample) /\ encoded' = encoded \o c
    BY <1>2, <1>3 DEF FInv, Cells
  <2> QED
    BY <1>3, <1>4, <2>1
<1>6. AudioFrom(file)' = AudioFrom(file) /\ Infos(file)' = Infos(file)
  BY <1>2, AudioKept DEF disk
<1>7. Cells' /\ Latest'
  BY <1>2, <1>5, LatestKept DEF FInv, Cells, disk, block, lib
<1>8. Phases'
  <2>1. UNCHANGED <<file, channels, parsed, dec>>
    BY <1>2 DEF disk, block, lib
  <2>2. dec # "metadata" /\ parsed >= file.metas /\ channels > 0
    BY <1>2 DEF FInv, Phases, Started
  <2>3. pc' \in {"drain", "loop"} /\ (pc' = "drain" => Len(encoded') = Len(AudioFrom(file)'[1]))
    BY <1>2, <1>3, <1>5, <1>6
  <2> QED
    BY <2>1, <2>2, <2>3 DEF Phases, Started
<1>9. Flowing'
  <2>1. Infos(file) # {}
    BY <1>2, EncodeFacts
  <2>2. PICK pos, left, rest :
          /\ pos = block_buf_pos /\ left = block_buf_len - block_buf_pos /\ rest = Rest
          /\ pos \in Nat /\ left \in Nat /\ Len(rest) \in Nat
    <3>1. block_buf_len - block_buf_pos \in Nat /\ block_buf_pos \in Nat
      BY DEF FInv, IInv, TypeOK
    <3> QED
      BY <3>1, RestTyped DEF FInv
  <2>3. Follows(a, e, input, t, block_buf, pos, left, rest)
    <3>1. Flowing /\ Taken = t
      BY <1>2, <1>3, <2>1 DEF FInv, Taken
    <3> QED
      BY <1>3, <2>2, <3>1 DEF Flowing
  <2>4. Follows(a, e + t, input, 0, block_buf, pos, left, rest)
    BY <1>3, <2>2, <2>3, FollowsEncode
  <2>5. Taken' = 0
    BY <1>2 DEF Taken
  <2>6. Rest' = rest
    BY <1>2, <1>6, <2>2 DEF Rest, lib
  <2>7. UNCHANGED <<input, block_buf, block_buf_pos, block_buf_len>>
    BY <1>2 DEF block
  <2> QED
    BY <1>3, <1>5, <1>6, <2>2, <2>4, <2>5, <2>6, <2>7 DEF Flowing
<1> QED
  BY <1>1, <1>7, <1>8, <1>9 DEF FInv

LEMMA InitFlow == Init => FInv
<1> SUFFICES ASSUME Init PROVE FInv
  OBVIOUS
<1>1. IInv
  BY InitInvariant
<1>2. /\ file \in Files /\ channels = 0 /\ max_blocksize = 0
      /\ block_buf = <<>> /\ block_buf_pos = 0 /\ block_buf_len = 0
      /\ dec = "metadata" /\ parsed = 0 /\ pc = "open" /\ got = 0 /\ encoded = <<>>
      /\ input = [s \in 1 .. FrameSize |-> <<0, 0>>]
  BY DEF Init
<1>3. Cells
  <2>1. <<0, 0>> \in Sample
    BY DEF Sample
  <2>2. input \in [1 .. FrameSize -> Sample] /\ block_buf \in [1 .. 0 -> Sample]
    BY <1>2, <2>1
  <2> QED
    BY <1>2, <2>2 DEF Cells
<1>4. Latest
  BY <1>2 DEF Latest, Infos
<1>5. Phases
  BY <1>2, FileFacts DEF Phases, Started
<1>6. Flowing
  <2>1. PICK a : a = AudioFrom(file)[1] /\ a \in Seq(Sample)
    <3>1. 1 \in 1 .. Len(file.items) + 1
      BY <1>2, FileFacts
    <3> QED
      BY <1>2, <3>1, AudioTyped
  <2>2. Rest = a /\ Taken = 0 /\ Len(encoded) = 0
    BY <1>2, <2>1 DEF Rest, Taken
  <2>3. Follows(a, 0, input, 0, block_buf, 0, 0, a)
    BY <2>1 DEF Follows
  <2> QED
    BY <1>2, <2>1, <2>2, <2>3 DEF Flowing
<1> QED
  BY <1>1, <1>3, <1>4, <1>5, <1>6 DEF FInv

LEMMA NextFlow == FInv /\ [Next]_vars => FInv'
<1> SUFFICES ASSUME FInv, [Next]_vars PROVE FInv'
  OBVIOUS
<1>1. CASE AtEof \/ ReadBuffered \/ ReadFile
  BY <1>1, BytesFlow
<1>2. CASE StreamInfo \/ OtherMetadata \/ LostFrame
  BY <1>2, SilentFlow
<1>3. CASE GotFrame
  BY <1>3, GotFlow
<1>4. CASE AbortFrame
  BY <1>4, AbortFlow
<1>5. CASE Opened \/ Refused \/ NextFrame \/ CallSingle \/ NoBlock \/ SingleReturns
           \/ FullRead \/ EncoderFails \/ Drain
  BY <1>5, StillFlow
<1>6. CASE Copy
  BY <1>6, CopyFlow
<1>7. CASE Encode
  BY <1>7, EncodeFlow
<1>8. CASE Terminated \/ UNCHANGED vars
  <2>1. UNCHANGED vars
    BY <1>8 DEF Terminated
  <2>2. UNCHANGED <<disk, block, lib, loop>>
    BY <2>1 DEF vars
  <2>3. UNCHANGED <<file, fpos, feof, bufpos, buflen, fed, channels, max_blocksize, block_buf,
                    block_buf_pos, block_buf_len, dec, parsed, pc, input, samples, got, encoded>>
    BY <2>2 DEF disk, block, lib, loop
  <2>4. IInv'
    BY <2>1, NextInvariant DEF FInv
  <2>5. Cells' /\ Latest'
    BY <2>3, LatestKept DEF FInv, Cells
  <2>6. AudioFrom(file)' = AudioFrom(file) /\ Infos(file)' = Infos(file)
    BY <2>3, AudioKept
  <2>7. Phases'
    BY <2>3, <2>6 DEF FInv, Phases, Started, Exhausted
  <2>8. Taken' = Taken /\ Rest' = Rest
    BY <2>3, <2>6 DEF Taken, Rest
  <2>9. Flowing => Flowing'
    BY <2>3, <2>8, FlowKept
  <2> QED
    BY <2>3, <2>4, <2>5, <2>6, <2>7, <2>9 DEF FInv
<1> QED
  BY <1>1, <1>2, <1>3, <1>4, <1>5, <1>6, <1>7, <1>8 DEF Next, Callbacks, Opusenc

LEMMA FlowInvariant == Spec => []FInv
BY InitFlow, NextFlow, PTL DEF Spec

-----------------------------------------------------------------------------
(* Refinement: every step is one of FrameFeed, or none.                    *)

\* The samples still to come and the outcome, as FrameFeed has them.
Source  == SubSeq(Audio(file), Len(encoded) + 1, Len(Audio(file)))
Outcome == IF pc \in {"refused", "drain", "done", "undrained"} THEN "complete"
           ELSE IF pc = "failed" THEN "failed" ELSE "running"

LEMMA SourceKept == ASSUME UNCHANGED <<file, encoded>> PROVE Source' = Source
<1>1. Audio(file)' = Audio(file)
  BY AudioKept DEF Audio
<1> QED
  BY <1>1 DEF Source

LEMMA Stutters ==
  ASSUME UNCHANGED <<file, encoded>>, Outcome' = Outcome
  PROVE  UNCHANGED Feed!vars
BY SourceKept DEF Feed!vars, Source, Outcome

\* A full frame is one of FrameFeed, a short one the last.
LEMMA EncodeFeeds == ASSUME FInv, Encode PROVE Feed!Next
<1>1. /\ pc = "encode" /\ pc' = (IF got < FrameSize THEN "drain" ELSE "loop")
      /\ encoded' = encoded \o SubSeq(input, 1, got) /\ file' = file
  BY DEF Encode, disk
<1>2. PICK a, e, t :
        /\ a = AudioFrom(file)[1] /\ e = Len(encoded) /\ t = got
        /\ e \in Nat /\ t \in Nat /\ a \in Seq(Sample) /\ t <= FrameSize
        /\ SubSeq(input, 1, t) = SubSeq(a, e + 1, e + t)
        /\ e + t <= Len(a) /\ (t < FrameSize => Len(a) = e + t)
        /\ Infos(file) # {}
  BY <1>1, EncodeFacts
<1>3. PICK r \in Nat : Len(a) = e + t + r /\ (t < FrameSize => r = 0)
  <2>1. PICK n : n = Len(a) /\ n \in Nat
    <3>1. a \in Seq(Sample)
      BY <1>2
    <3>2. Len(a) \in Nat
      BY <3>1
    <3> QED
      BY <3>2
  <2>2. e \in Nat /\ t \in Nat /\ e + t <= n
    BY <1>2, <2>1
  <2>3. n - (e + t) \in Nat /\ n = e + t + (n - (e + t)) /\ (n = e + t => n - (e + t) = 0)
    BY <2>1, <2>2
  <2> QED
    BY <1>2, <2>1, <2>3
<1>4. Audio(file) = a /\ Audio(file)' = a
  BY <1>1, <1>2, AudioKept DEF Audio
<1>5. PICK source : source = SubSeq(a, e + 1, Len(a))
  OBVIOUS
<1>6. /\ source \in Seq(Sample) /\ Len(source) = t + r
      /\ SubSeq(source, 1, t) = SubSeq(input, 1, t)
      /\ SubSeq(source, t + 1, Len(source)) = SubSeq(a, e + t + 1, Len(a))
  <2>1. e \in Nat /\ t \in Nat /\ r \in Nat /\ a \in Seq(Sample) /\ Len(a) = e + t + r
    BY <1>2, <1>3
  <2>2. /\ source \in Seq(Sample) /\ Len(source) = t + r
        /\ SubSeq(source, 1, t) = SubSeq(a, e + 1, e + t)
        /\ SubSeq(source, t + 1, Len(source)) = SubSeq(a, e + t + 1, Len(a))
    BY <1>5, <2>1, CutTwice
  <2> QED
    BY <1>2, <2>2
<1>7. Len(encoded') = e + t
  <2>1. PICK c : c = SubSeq(a, e + 1, e + t) /\ c \in Seq(Sample) /\ Len(c) = t
    <3>1. e \in Nat /\ t \in Nat /\ r \in Nat /\ a \in Seq(Sample) /\ Len(a) = e + t + r
      BY <1>2, <1>3
    <3>2. e + t <= Len(a)
      BY <1>2
    <3>3. SubSeq(a, e + 1, e + t) \in Seq(Sample) /\ Len(SubSeq(a, e + 1, e + t)) = t
      BY <3>1, <3>2, Cut
    <3> QED
      BY <3>3
  <2>2. encoded \in Seq(Sample) /\ encoded' = encoded \o c
    BY <1>1, <1>2, <2>1 DEF FInv, Cells
  <2> QED
    BY <1>2, <2>1, <2>2
<1>8. Source = source /\ Source' = SubSeq(source, t + 1, Len(source))
  BY <1>2, <1>4, <1>5, <1>6, <1>7 DEF Source
<1>9. encoded' = encoded \o SubSeq(source, 1, t)
  BY <1>1, <1>2, <1>6
<1>10. CASE t = FrameSize
  <2>1. Outcome = "running" /\ Outcome' = "running"
    BY <1>1, <1>2, <1>10, SizeFacts DEF Outcome
  <2>2. Len(Source) >= FrameSize
    <3>1. t \in Nat /\ r \in Nat /\ Len(Source) = t + r
      BY <1>2, <1>3, <1>6, <1>8
    <3> QED
      BY <1>10, <3>1
  <2>3. /\ encoded' = encoded \o SubSeq(Source, 1, FrameSize)
        /\ Source' = SubSeq(Source, FrameSize + 1, Len(Source))
    BY <1>8, <1>9, <1>10
  <2> QED
    BY <2>1, <2>2, <2>3 DEF Feed!Next, Feed!FullFrame, Source, Outcome
<1>11. CASE t < FrameSize
  <2>1. Outcome = "running" /\ Outcome' = "complete"
    BY <1>1, <1>2, <1>11 DEF Outcome
  <2>2. Len(source) = t
    <3>1. t \in Nat /\ r = 0 /\ Len(source) = t + r
      BY <1>2, <1>3, <1>6, <1>11
    <3> QED
      BY <3>1
  <2>3. Len(Source) < FrameSize
    BY <1>8, <1>11, <2>2
  <2>4. SubSeq(source, 1, Len(source)) = source /\ SubSeq(source, t + 1, Len(source)) = <<>>
    <3>1. source \in Seq(Sample) /\ t \in Nat
      BY <1>2, <1>6
    <3>2. SubSeq(source, t + 1, t) = <<>>
      BY <3>1, SubSeqEmpty
    <3> QED
      BY <2>2, <3>1, <3>2, SubSeqFull
  <2>5. encoded' = encoded \o Source /\ Source' = <<>>
    BY <1>8, <1>9, <2>2, <2>4
  <2> QED
    BY <2>1, <2>3, <2>5 DEF Feed!Next, Feed!LastFrame, Source, Outcome
<1> QED
  BY <1>2, <1>10, <1>11, SizeFacts

\* A file that is refused has no audio.
LEMMA RefusedFeeds == ASSUME FInv, Refused PROVE Feed!Next
<1>1. /\ pc = "open" /\ pc' = "refused" /\ UNCHANGED <<file, encoded>>
      /\ dec = "ended" \/ (parsed = file.metas /\ channels = 0)
  BY DEF Refused, disk
<1>2. encoded = <<>> /\ block_buf_pos = 0 /\ block_buf_len = 0
  BY <1>1 DEF FInv, Phases
<1>3. Audio(file) = <<>>
  <2>1. CASE Infos(file) = {}
    BY <2>1 DEF Audio
  <2>2. CASE Infos(file) # {}
    <3>1. dec = "ended"
      <4>1. ASSUME parsed = file.metas, channels = 0 PROVE FALSE
        <5>1. file \in Files /\ file.metas \in Nat
          BY FileFacts DEF FInv, IInv, Positions
        <5>2. \A j \in Infos(file) : j \in Nat /\ j <= parsed
          BY <4>1, <5>1 DEF Infos
        <5>3. PICK i \in 1 .. parsed : IsLatest(i) /\ channels = file.items[i].channels
          <6>1. ~(\A j \in Infos(file) : j > parsed)
            BY <2>2, <4>1, <5>1, <5>2
          <6> QED
            BY <6>1 DEF FInv, Latest
        <5>4. i \in 1 .. Len(file.items) /\ file.items[i].kind = "info"
          BY <4>1, <5>1, <5>3, FileFacts DEF IsLatest, Infos
        <5>5. file.items[i].channels > 0
          BY <5>1, <5>4, FileFacts
        <5> QED
          BY <4>1, <5>3, <5>5
      <4> QED
        BY <1>1, <4>1
    <3>2. Flowing /\ Taken = 0 /\ Rest = <<>>
      BY <1>1, <2>2, <3>1 DEF FInv, Taken, Rest
    <3>3. Len(AudioFrom(file)[1]) = 0
      BY <1>2, <3>2 DEF Flowing, Follows
    <3>4. AudioFrom(file)[1] \in Seq(Sample)
      <4>1. file \in Files /\ 1 \in 1 .. Len(file.items) + 1
        BY FileFacts DEF FInv, IInv, Positions
      <4> QED
        BY <4>1, AudioTyped
    <3> QED
      BY <2>2, <3>3, <3>4 DEF Audio
  <2> QED
    BY <2>1, <2>2
<1>4. Source = <<>> /\ Source' = <<>>
  <2>1. Source = <<>>
    BY <1>2, <1>3, SubSeqEmpty DEF Source
  <2> QED
    BY <1>1, <2>1, SourceKept
<1>5. Outcome = "running" /\ Outcome' = "complete"
  BY <1>1 DEF Outcome
<1>6. Len(Source) < FrameSize /\ encoded' = encoded \o Source
  BY <1>1, <1>2, <1>4, SizeFacts
<1> QED
  BY <1>4, <1>5, <1>6 DEF Feed!Next, Feed!LastFrame, Source, Outcome

LEMMA FeedStep == FInv /\ [Next]_vars => [Feed!Next]_(Feed!vars)
<1> SUFFICES ASSUME FInv, [Next]_vars PROVE Feed!Next \/ UNCHANGED Feed!vars
  OBVIOUS
<1>1. CASE Encode
  BY <1>1, EncodeFeeds
<1>2. CASE Refused
  BY <1>2, RefusedFeeds
<1>3. CASE EncoderFails
  <2>1. UNCHANGED <<file, encoded>>
    BY <1>3 DEF EncoderFails, disk
  <2>2. CASE pc = "encode"
    <3>1. Outcome = "running" /\ Outcome' = "failed"
      BY <1>3, <2>2 DEF EncoderFails, Outcome
    <3>2. Source' = Source
      BY <2>1, SourceKept
    <3> QED
      BY <2>1, <3>1, <3>2 DEF Feed!Next, Feed!Fail, Source, Outcome
  <2>3. CASE pc = "drain"
    <3>1. Outcome' = Outcome
      BY <1>3, <2>3 DEF EncoderFails, Outcome
    <3> QED
      BY <2>1, <3>1, Stutters
  <2> QED
    BY <1>3, <2>2, <2>3 DEF EncoderFails
<1>4. CASE Callbacks
  <2>1. UNCHANGED <<file, encoded>> /\ (pc' = pc \/ (pc \in {"open", "single"} /\ pc' = "block"))
    <3>1. CASE GotFrame
      BY <3>1 DEF GotFrame, disk, Parses, Waiting
    <3>2. CASE ~GotFrame
      BY <1>4, <3>2 DEF Callbacks, AtEof, ReadBuffered, ReadFile, StreamInfo, OtherMetadata,
         LostFrame, AbortFrame, disk, loop
    <3> QED
      BY <3>1, <3>2
  <2>2. Outcome' = Outcome
    BY <2>1 DEF Outcome
  <2> QED
    BY <2>1, <2>2, Stutters
<1>5. CASE Opened \/ NextFrame \/ CallSingle \/ NoBlock \/ SingleReturns \/ Copy \/ FullRead \/ Drain
  <2>1. UNCHANGED <<file, encoded>>
    BY <1>5 DEF Opened, NextFrame, CallSingle, NoBlock, SingleReturns, Copy, FullRead, Drain, disk
  <2>2. Outcome' = Outcome
    BY <1>5 DEF Opened, NextFrame, CallSingle, NoBlock, SingleReturns, Copy, FullRead, Drain, Outcome
  <2> QED
    BY <2>1, <2>2, Stutters
<1>6. CASE Terminated \/ UNCHANGED vars
  <2>1. UNCHANGED <<file, encoded, pc>>
    BY <1>6 DEF Terminated, vars, disk, loop
  <2> QED
    BY <2>1, Stutters DEF Outcome
<1> QED
  BY <1>1, <1>2, <1>3, <1>4, <1>5, <1>6 DEF Next, Opusenc

\* However the bytes of the file are delivered and its blocks and the frames of the
\* encoder overlap, the encoder is given the samples of the file, all of them and in
\* order, in frames of which only the last is short, unless it fails itself.
THEOREM Refinement == Spec => ImplementsFeed
<1>1. Init => Feed!Init
  BY DEF Init, Feed!Init
<1>2. FInv /\ [Next]_vars => [Feed!Next]_(Feed!vars)
  BY FeedStep
<1> QED
  BY <1>1, <1>2, FlowInvariant, PTL DEF Spec, ImplementsFeed, Feed!Spec
=============================================================================
