----------------------------- MODULE FlacInput -----------------------------
(***************************************************************************)
(* FLAC input of opusenc: src/flac.c between the encoding loop above it,   *)
(* which asks for frames of fixed length, and libFLAC below it, which      *)
(* calls back for bytes and with blocks of any length.  The first bytes of *)
(* the file were already read to identify it.  A file is a sequence of     *)
(* metadata and frames that all take ItemBytes bytes.                      *)
(***************************************************************************)
EXTENDS Integers, Sequences

CONSTANTS
  Files,       \* [items, metas (how many of them are metadata), bytes, errorat];
               \* from byte errorat on it cannot be read
  ItemBytes,
  IdBytes,     \* what open_audio_file reads at most, 0x10000
  MaxRequest,  \* bytes libFLAC asks for at most
  FrameSize    \* samples opusenc asks for at a time

ASSUME SizesAssumption ==
  \A n \in {ItemBytes, IdBytes, MaxRequest, FrameSize} : n \in Nat \ {0}

Metadata == {"info", "tags"}
Element  == [kind : Metadata \cup {"frame", "damaged"}, channels : Nat, size : Nat]

\* The metadata comes first; no STREAMINFO or frame has 0 channels and no frame has 0
\* samples.  Errors come behind the bytes read for identification.
ASSUME FilesAssumption ==
  \A f \in Files :
    /\ f.items \in Seq(Element)
    /\ f.metas \in 0 .. Len(f.items)
    /\ \A i \in 1 .. Len(f.items) :
         /\ i <= f.metas <=> f.items[i].kind \in Metadata
         /\ f.items[i].kind \in {"info", "frame"} => f.items[i].channels > 0
         /\ f.items[i].kind = "frame" => f.items[i].size > 0
    /\ f.bytes \in Nat /\ f.errorat \in Nat /\ f.errorat >= IdBytes

VARIABLES
  file, fpos, feof,                      \* the file, bytes read from it, end noticed
  bufpos, buflen,                        \* flac: bytes used and held for identification
  channels, max_blocksize,               \* flac: from STREAMINFO
  block_buf, block_buf_pos, block_buf_len,
  dec, parsed,                           \* libFLAC: state and items done
  pc,                                    \* opusenc
  input, samples, got,                   \* its buffer; in flac_read: still to read, ret
  fed,                                   \* history: the bytes libFLAC was given
  encoded                                \* history: the samples the encoder was given

disk  == <<file, fpos, feof, bufpos, buflen, fed>>
block == <<channels, max_blocksize, block_buf, block_buf_pos, block_buf_len>>
lib   == <<dec, parsed>>
loop  == <<pc, input, samples, got, encoded>>
vars  == <<disk, block, lib, loop>>

Min(a, b) == IF a < b THEN a ELSE b

Info(ch, max)   == [kind |-> "info", channels |-> ch, size |-> max]
Tags            == [kind |-> "tags", channels |-> 0, size |-> 0]
Frame(ch, n)    == [kind |-> "frame", channels |-> ch, size |-> n]
Damaged         == [kind |-> "damaged", channels |-> 0, size |-> 0]

\* The samples of the frame that is item i.
SamplesOf(f, i) == [s \in 1 .. f.items[i].size |-> <<i, s>>]

\* open_audio_file has read its bytes; a short read notices the end.  flac_open has
\* set up libFLAC.
Init ==
  /\ file \in Files
  /\ buflen = Min(IdBytes, file.bytes) /\ fpos = buflen
  /\ feof \in BOOLEAN /\ (feof <=> file.bytes < IdBytes)
  /\ bufpos = 0 /\ fed = <<>>
  /\ channels = 0 /\ max_blocksize = 0
  /\ block_buf = <<>> /\ block_buf_pos = 0 /\ block_buf_len = 0
  /\ dec = "metadata" /\ parsed = 0
  /\ pc = "open" /\ input = [s \in 1 .. FrameSize |-> <<0, 0>>] /\ samples = 0 /\ got = 0
  /\ encoded = <<>>

-----------------------------------------------------------------------------
(* libFLAC, while flac_open or flac_read waits for it.                     *)

Waiting ==
  \/ pc = "open" /\ dec = "metadata" /\ parsed < file.metas
  \/ pc = "single" /\ dec = "frames"
Parses(kinds) ==
  /\ Waiting /\ parsed < Len(file.items)
  /\ Len(fed) >= ItemBytes * (parsed + 1)
  /\ file.items[parsed + 1].kind \in kinds
  /\ parsed' = parsed + 1
Item == file.items[parsed + 1]

\* Bytes are asked for when they do not make up the next item.
Asks ==
  Waiting /\ ~(parsed < Len(file.items) /\ Len(fed) >= ItemBytes * (parsed + 1))

M_EofFileOnly == feof
Eof == bufpos >= buflen /\ feof

M_IdLeftNever == FALSE
IdLeft == bufpos < buflen

\* eof_callback says that nothing is left.
AtEof ==
  /\ Asks /\ Eof
  /\ dec' = "ended" /\ UNCHANGED <<parsed, disk, block, loop>>

\* read_callback, from what was read for identification or from the file.
ReadBuffered ==
  /\ Asks /\ ~Eof /\ IdLeft
  /\ \E bytes \in 1 .. MaxRequest :
       LET n == Min(bytes, buflen - bufpos)
       IN bufpos' = bufpos + n /\ fed' = fed \o [b \in 1 .. n |-> bufpos + b]
  /\ UNCHANGED <<file, fpos, feof, buflen, lib, block, loop>>

ReadFile ==
  /\ Asks /\ ~Eof /\ ~IdLeft
  /\ \E bytes \in 1 .. MaxRequest :
       LET n == Min(bytes, Min(file.bytes, file.errorat) - fpos)
       IN /\ fpos' = fpos + n /\ fed' = fed \o [b \in 1 .. n |-> fpos + b]
          /\ feof' = (feof \/ (fpos + n = file.bytes /\ n < bytes))
          /\ dec' = IF n = 0 THEN "ended" ELSE dec
  /\ UNCHANGED <<file, bufpos, buflen, parsed, block, loop>>

\* metadata_callback.
StreamInfo ==
  /\ Parses({"info"})
  /\ channels' = Item.channels /\ max_blocksize' = Item.size
  /\ block_buf' = [s \in 1 .. Item.size |-> <<0, 0>>] /\ block_buf_pos' = 0 /\ block_buf_len' = 0
  /\ UNCHANGED <<dec, disk, loop>>

\* Tags and pictures, which only the comments of the output depend on.
OtherMetadata == Parses({"tags"}) /\ UNCHANGED <<dec, disk, block, loop>>

\* A frame that libFLAC cannot decode; error_callback does nothing.
LostFrame == Parses({"damaged"}) /\ UNCHANGED <<dec, disk, block, loop>>

\* write_callback.  `channels` stands also for bits per sample that make no sense.
M_AcceptableAlways(frame) == frame.channels = channels
Acceptable(frame) == frame.channels = channels /\ frame.size <= max_blocksize

GotFrame ==
  /\ Parses({"frame"}) /\ Acceptable(Item)
  /\ block_buf' = [s \in DOMAIN block_buf |->
                     IF s <= Item.size THEN <<parsed + 1, s>> ELSE block_buf[s]]
  /\ block_buf_pos' = 0 /\ block_buf_len' = Item.size
  /\ pc' = "block"
  /\ UNCHANGED <<channels, max_blocksize, dec, disk, input, samples, got, encoded>>

AbortFrame ==
  /\ Parses({"frame"}) /\ ~Acceptable(Item)
  /\ dec' = "ended"
  /\ UNCHANGED <<disk, block, loop>>

-----------------------------------------------------------------------------
(* flac_open and flac_read.                                                *)

\* process_until_end_of_metadata returns.
Opened ==
  /\ pc = "open" /\ parsed = file.metas /\ dec = "metadata" /\ channels > 0
  /\ dec' = "frames" /\ pc' = "loop"
  /\ UNCHANGED <<parsed, disk, block, input, samples, got, encoded>>

\* It fails, or there was no STREAMINFO.
Refused ==
  /\ pc = "open"
  /\ dec = "ended" \/ (parsed = file.metas /\ channels = 0)
  /\ pc' = "refused"
  /\ UNCHANGED <<disk, block, lib, input, samples, got, encoded>>

\* The encoding loop calls flac_read for the next frame.
NextFrame ==
  /\ pc = "loop"
  /\ samples' = FrameSize /\ got' = 0 /\ pc' = "read"
  /\ UNCHANGED <<disk, block, lib, input, encoded>>

Exhausted == block_buf_pos >= block_buf_len

\* The block is used up: process_single.
CallSingle ==
  /\ pc = "read" /\ samples > 0 /\ Exhausted
  /\ pc' = "single"
  /\ UNCHANGED <<disk, block, lib, input, samples, got, encoded>>

\* It returns without a block, at once if libFLAC had ended before.
NoBlock ==
  /\ pc = "single" /\ dec = "ended"
  /\ pc' = "block"
  /\ UNCHANGED <<disk, block, lib, input, samples, got, encoded>>

M_HitEndNever == FALSE
HitEnd == Exhausted

SingleReturns ==
  /\ pc = "block"
  /\ pc' = IF HitEnd THEN "encode" ELSE "copy"
  /\ UNCHANGED <<disk, block, lib, input, samples, got, encoded>>

ToCopy == Min(samples, block_buf_len - block_buf_pos)

Copy ==
  /\ \/ pc = "copy"
     \/ pc = "read" /\ samples > 0 /\ ~Exhausted
  /\ input' = [s \in 1 .. FrameSize |->
                 IF s \in got + 1 .. got + ToCopy THEN block_buf[block_buf_pos + s - got] ELSE input[s]]
  /\ block_buf_pos' = block_buf_pos + ToCopy
  /\ got' = got + ToCopy /\ samples' = samples - ToCopy
  /\ pc' = "read"
  /\ UNCHANGED <<channels, max_blocksize, block_buf, block_buf_len, disk, lib, encoded>>

FullRead ==
  /\ pc = "read" /\ samples = 0
  /\ pc' = "encode"
  /\ UNCHANGED <<disk, block, lib, input, samples, got, encoded>>

\* ope_encoder_write_float takes the samples; a short read was the last one.
Encode ==
  /\ pc = "encode"
  /\ encoded' = encoded \o SubSeq(input, 1, got)
  /\ pc' = IF got < FrameSize THEN "drain" ELSE "loop"
  /\ UNCHANGED <<disk, block, lib, input, samples, got>>

\* It or ope_encoder_drain fails, because write_callback did, and opusenc gives up.
EncoderFails ==
  /\ pc \in {"encode", "drain"}
  /\ pc' = IF pc = "encode" THEN "failed" ELSE "undrained"
  /\ UNCHANGED <<disk, block, lib, input, samples, got, encoded>>

Drain ==
  /\ pc = "drain"
  /\ pc' = "done"
  /\ UNCHANGED <<disk, block, lib, input, samples, got, encoded>>

Ended == pc \in {"done", "refused", "failed", "undrained"}
Terminated == Ended /\ UNCHANGED vars

-----------------------------------------------------------------------------
Callbacks == AtEof \/ ReadBuffered \/ ReadFile \/ StreamInfo \/ OtherMetadata \/ LostFrame
             \/ GotFrame \/ AbortFrame
Opusenc == Opened \/ Refused \/ NextFrame \/ CallSingle \/ NoBlock \/ SingleReturns \/ Copy
           \/ FullRead \/ Encode \/ EncoderFails \/ Drain

Next == Callbacks \/ Opusenc \/ Terminated

\* A sequential program on a finite file, whose reads return.
Spec == Init /\ [][Next]_vars /\ WF_vars(Callbacks \/ Opusenc)

-----------------------------------------------------------------------------
(* Correctness.                                                            *)

\* Every variable keeps its type; a block fits into block_buf, whose positions are
\* in order.
TypeOK ==
  /\ fpos \in 0 .. file.bytes /\ feof \in BOOLEAN
  /\ buflen \in 0 .. file.bytes /\ bufpos \in 0 .. buflen
  /\ channels \in Nat /\ max_blocksize \in Nat /\ DOMAIN block_buf = 1 .. max_blocksize
  /\ block_buf_len \in 0 .. max_blocksize /\ block_buf_pos \in 0 .. block_buf_len
  /\ dec \in {"metadata", "frames", "ended"} /\ parsed \in 0 .. Len(file.items)
  /\ pc \in {"open", "loop", "read", "single", "block", "copy", "encode", "drain", "done", "refused",
             "failed", "undrained"}
  /\ DOMAIN input = 1 .. FrameSize /\ samples \in 0 .. FrameSize /\ got \in 0 .. FrameSize

\* libFLAC gets every byte of the file once and in order, across the boundary between
\* those read for identification and the rest, and ends only behind the last one that
\* can be read, unless write_callback aborted it.
BytesInOrder ==
  /\ fed = [b \in 1 .. Len(fed) |-> b]
  /\ dec = "ended" =>
       \/ Len(fed) = Min(file.bytes, file.errorat)
       \/ parsed > 0 /\ file.items[parsed].kind = "frame" /\ ~Acceptable(file.items[parsed])

\* The samples a file has, for one who sees it whole: those of the frames that can be
\* read up to the first one that does not match the last STREAMINFO.
Whole(f)    == {i \in DOMAIN f.items : i * ItemBytes <= Min(f.bytes, f.errorat)}
Infos(f)    == {i \in 1 .. f.metas : f.items[i].kind = "info"}
Declared(f) == f.items[CHOOSE i \in Infos(f) : \A j \in Infos(f) : j <= i]
Misfit(f, i) == /\ f.items[i].kind = "frame"
                /\ f.items[i].channels # Declared(f).channels \/ f.items[i].size > Declared(f).size
AudioFrom(f) ==
  LET from[i \in 1 .. Len(f.items) + 1] ==
        IF i \notin Whole(f) \/ Misfit(f, i) THEN <<>>
        ELSE IF f.items[i].kind = "frame" THEN SamplesOf(f, i) \o from[i + 1] ELSE from[i + 1]
  IN from
Audio(f) == IF Infos(f) = {} THEN <<>> ELSE AudioFrom(f)[1]

\* Opusenc gives the encoder the audio of the file, as FrameFeed says; it fails only
\* when the encoder does, and refuses only a file that has none.
Feed == INSTANCE FrameFeed WITH
  source  <- SubSeq(Audio(file), Len(encoded) + 1, Len(Audio(file))),
  outcome <- IF pc \in {"refused", "drain", "done", "undrained"} THEN "complete"
             ELSE IF pc = "failed" THEN "failed" ELSE "running"

ImplementsFeed == Feed!Spec

\* The program ends.
Terminates == <>Ended
=============================================================================
