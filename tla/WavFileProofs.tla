--------------------------- MODULE WavFileProofs ---------------------------
(***************************************************************************)
(* That the sizes opusdec puts into a WAV header are never wrong, that     *)
(* opusenc reads back every sample of it, and that of any other file laid  *)
(* out chunk behind chunk it reads the audio declared or refuses it: for   *)
(* samples and frames of any size, any width of the size fields, any       *)
(* amount of audio and any number of chunks.                               *)
(***************************************************************************)
EXTENDS WavFile, TLAPS

LEMMA Sizes ==
  /\ Frame \in Nat /\ Frame >= 1 /\ FrameSize \in Nat /\ FrameSize >= 1
  /\ Unknown \in Nat /\ Unknown >= 40 /\ Plausible \in Nat /\ Plausible <= Unknown
  /\ MaxAudio \in Nat /\ Buffer \in Nat
<1>1. Frame \in Nat \ {0} /\ FrameSize \in Nat \ {0} /\ Unknown \in Nat \ {0}
      /\ Plausible \in Nat \ {0}
  BY SizeAssumption, Zenon
<1> QED
  BY <1>1, SizeAssumption

USE Sizes DEF NoFormat

\* The file is one of opusdec's, and its audio starts here.
Ours == wav_format # NoFormat \/ form = "raw"
Start == IF wav_format = NoFormat THEN 0 ELSE 28 + wav_format

\* What opusdec has written: a header of two chunks, whose length, once it is known,
\* counts bytes that are there; nothing in front of raw samples.
HeaderOf(format, length) ==
  {Chunk("fmt", 12, format, TRUE), Chunk("data", 20 + format, length, TRUE)}
Header(length) == HeaderOf(wav_format, length)

HeaderKnown(length) ==
  length = Unknown \/ (/\ wpc = "closed" /\ ~pipe /\ length = audio_size
                       /\ ~lost => size >= Start + length)

Heads ==
  /\ form = "raw" => wav_format = NoFormat /\ chunks = {} /\ wpc # "header"
  /\ wpc = "header" => /\ form = "WAVE" /\ wav_format = NoFormat /\ chunks = {}
                       /\ size = 0 /\ buffered = 0 /\ audio_size = 0 /\ ~lost
  /\ wpc \in {"audio", "riff", "data"} => Ours
  /\ wpc = "data" => wav_format # NoFormat
  /\ wav_format # NoFormat =>
       form = "WAVE" /\ \E length \in 0 .. Unknown : chunks = Header(length) /\ HeaderKnown(length)
  /\ wpc \in {"header", "audio", "riff"} => riff = Unknown
  /\ riff \in {Unknown, audio_size + 20 + wav_format}

\* No byte is written that was not passed to fwrite but those of one incomplete sample,
\* and as long as nothing is lost all are there or held back.
Counted ==
  Ours =>
    /\ \E k \in Nat : audio_size = k * Frame
    /\ size + buffered <= Start + audio_size + Frame - 1
    /\ ~lost => size + buffered >= Start + audio_size
    /\ wpc = "audio" => ~lost /\ size + buffered = Start + audio_size
    /\ wpc = "closed" => buffered = 0

\* Counters of opusenc.
Limited ==
  /\ rpc \notin {"read", "done"} => samplesread = 0
  /\ totalsamples > 0 /\ rpc = "read" => samplesread <= totalsamples
  /\ rpc = "id" => pos = 0 /\ totalsamples = 0

\* What the reader has taken for a header in a file of opusdec's that nobody cut short.
ChunksTyped ==
  \A c \in chunks : c.at \in Nat /\ c.len \in 0 .. Unknown /\ c.ok \in BOOLEAN /\ c.says \in Nat

Writes == TypeOK /\ Limited /\ Heads /\ Counted

\* opusenc was told what the file is, and did not read it from the disk too early.
Proper == (rawmode <=> form = "raw") /\ ~early

Patient ==
  /\ wpc = "header" => rpc = "id"
  /\ ~pipe /\ rpc # "id" =>
       wpc = "closed" \/ (rawmode /\ rpc = "read" /\ pos = 0 /\ samplesread = 0)

\* How far opusenc has come in a file of opusdec's.
Follows ==
  /\ rpc \notin {"COMM", "SSND"}
  /\ rpc = "fmt" => pos = 12 /\ wav_format # NoFormat
  /\ rpc = "data" => pos = 20 + wav_format /\ wav_format # NoFormat
  /\ rpc \in {"read", "done"} =>
       /\ samplesread * Frame <= audio_size
       /\ totalsamples = 0 \/ (wpc = "closed" /\ totalsamples * Frame = audio_size)
  /\ rpc = "read" => /\ pos = Start + samplesread * Frame
                     /\ samplesread = 0 \/ pos <= size
  /\ rpc = "done" => wpc = "closed" /\ (~lost => samplesread * Frame = audio_size)
  /\ rpc = "refused" => lost

Reads == Proper => Patient /\ (Ours => Follows)

-----------------------------------------------------------------------------
LEMMA InitWrites == Init => Writes
<1> SUFFICES ASSUME Init PROVE Writes
  OBVIOUS
<1>1. /\ riff = Unknown /\ wav_format = NoFormat /\ audio_size = 0 /\ rpc = "id" /\ pos = 0
      /\ len = 0 /\ totalsamples = 0 /\ samplesread = 0 /\ restarted = FALSE /\ early = FALSE
      /\ buffered = 0 /\ lost = FALSE
      /\ pipe \in BOOLEAN /\ ignorelength \in BOOLEAN /\ rawmode \in BOOLEAN
  BY DEF Init
<1>2. \/ form = "WAVE" /\ chunks = {} /\ size = 0 /\ wpc = "header"
      \/ form = "raw" /\ chunks = {} /\ size = 0 /\ wpc = "audio"
      \/ form \in {"WAVE", "AIFF"} /\ wpc = "closed" /\ size \in Nat /\ ChunksTyped
  BY OthersAssumption DEF Init, ChunksTyped
<1>3. 0 = 0 * Frame
  OBVIOUS
<1>4. form \in {"WAVE", "AIFF", "raw"} /\ size \in Nat /\ ChunksTyped
      /\ wpc \in {"header", "audio", "riff", "data", "closed"}
  BY <1>2 DEF ChunksTyped
<1>8. restarted \in BOOLEAN /\ early \in BOOLEAN /\ lost \in BOOLEAN
  BY <1>1, Zenon
<1>9. riff \in 0 .. Unknown /\ len \in 0 .. Unknown
  BY <1>1
<1>7. TypeOK
  BY <1>1, <1>4, <1>8, <1>9 DEF TypeOK, ChunksTyped
<1>5. Limited /\ Heads
  BY <1>1, <1>2 DEF Limited, Heads, Ours
<1>6. Counted
  BY <1>1, <1>2, <1>3 DEF Counted, Ours, Start
<1> QED
  BY <1>5, <1>6, <1>7 DEF Writes

\* What stdio writes out keeps the balance.
LEMMA WriteOutKeeps ==
  ASSUME NEW more \in Nat, size \in Nat, buffered \in Nat, lost \in BOOLEAN, WriteOut(more)
  PROVE  /\ size' \in Nat /\ buffered' = 0 /\ lost' \in BOOLEAN /\ (lost => lost')
         /\ size' >= size /\ size' <= size + buffered + more
         /\ ~lost' => ~lost /\ size' >= size + buffered
<1>1. PICK b \in 0 .. buffered + more :
        size' = size + b /\ buffered' = 0 /\ lost' = (lost \/ b < buffered)
  BY DEF WriteOut
<1>2. lost' <=> lost \/ b < buffered
  BY <1>1
<1> QED
  BY <1>1, <1>2


-----------------------------------------------------------------------------
(* What opusdec writes.                                                    *)

ReaderTyped ==
  /\ rpc \in {"id", "fmt", "data", "COMM", "SSND", "read", "done", "refused"}
  /\ pos \in Nat /\ len \in 0 .. Unknown /\ totalsamples \in Nat /\ samplesread \in Nat
  /\ restarted \in BOOLEAN /\ early \in BOOLEAN

WriterTyped ==
  /\ ChunksTyped /\ riff \in 0 .. Unknown /\ size \in Nat /\ buffered \in Nat /\ lost \in BOOLEAN
  /\ wpc \in {"header", "audio", "riff", "data", "closed"}
  /\ wav_format \in {NoFormat, 16, 40} /\ audio_size \in Nat

OptionsTyped ==
  /\ form \in {"WAVE", "AIFF", "raw"} /\ rawmode \in BOOLEAN /\ pipe \in BOOLEAN
  /\ ignorelength \in BOOLEAN

LEMMA Typed == TypeOK <=> ReaderTyped /\ WriterTyped /\ OptionsTyped
BY DEF TypeOK, ReaderTyped, WriterTyped, OptionsTyped, ChunksTyped

LEMMA WriterLeaves ==
  ASSUME Writes, WriterTyped', Heads', Counted', UNCHANGED <<options, reader>>
  PROVE  Writes'
<1>1. ReaderTyped' /\ OptionsTyped'
  BY Typed DEF Writes, ReaderTyped, OptionsTyped, options, reader
<1>2. TypeOK'
  BY <1>1, Typed DEF TypeOK, ReaderTyped, WriterTyped, OptionsTyped, ChunksTyped
<1>3. Limited'
  BY DEF Writes, Limited, reader
<1> QED
  BY <1>2, <1>3 DEF Writes

LEMMA ReaderLeaves ==
  ASSUME Writes, ReaderTyped', Limited', UNCHANGED <<header, options, stdio, writer>>
  PROVE  Writes'
<1>1. WriterTyped' /\ OptionsTyped'
  BY Typed DEF Writes, WriterTyped, OptionsTyped, ChunksTyped, header, options, stdio, writer
<1>2. TypeOK'
  BY <1>1, Typed DEF TypeOK, ReaderTyped, WriterTyped, OptionsTyped, ChunksTyped
<1>3. Heads'
  BY DEF Writes, Heads, Ours, Header, HeaderKnown, Start, header, options, stdio, writer
<1>4. Counted'
  BY DEF Writes, Counted, Ours, Start, header, options, stdio, writer
<1> QED
  BY <1>2, <1>3, <1>4 DEF Writes

LEMMA HeaderTyped ==
  ASSUME NEW format \in {16, 40}, NEW length \in 0 .. Unknown
  PROVE  \A c \in HeaderOf(format, length) :
           c.at \in Nat /\ c.len \in 0 .. Unknown /\ c.ok \in BOOLEAN /\ c.says \in Nat
<1> TAKE c \in HeaderOf(format, length)
<1>1. c.at \in Nat /\ c.len \in 0 .. Unknown /\ c.says \in Nat
  BY DEF Chunk, HeaderOf
<1>2. c.ok = TRUE
  BY DEF Chunk, HeaderOf
<1> QED
  BY <1>1, <1>2

\* A step of opusdec that passes nothing to fwrite and leaves the header alone.
LEMMA WriteOutWrites ==
  ASSUME Writes, NEW more \in 0 .. Frame - 1, WriteOut(more), wpc \in {"audio", "riff", "data"},
         more > 0 => wpc = "audio", wpc' \in {"riff", "closed"}, wpc' = "riff" => wpc = "audio",
         UNCHANGED <<header, options, wav_format, audio_size, reader>>
  PROVE  Writes'
<1>1. /\ size' \in Nat /\ buffered' = 0 /\ lost' \in BOOLEAN /\ (lost => lost')
      /\ size' >= size /\ size' <= size + buffered + more
      /\ ~lost' => ~lost /\ size' >= size + buffered
  BY WriteOutKeeps DEF Writes, TypeOK
<1>2. /\ chunks' = chunks /\ riff' = riff /\ form' = form /\ pipe' = pipe
      /\ wav_format' = wav_format /\ audio_size' = audio_size
  BY DEF header, options
<1>3. WriterTyped'
  <2>1. WriterTyped
    BY Typed DEF Writes
  <2>2. ChunksTyped'
    BY <1>2, <2>1 DEF WriterTyped, ChunksTyped
  <2> QED
    BY <1>1, <1>2, <2>1, <2>2 DEF WriterTyped
<1>4. Ours /\ Start' = Start /\ Ours'
  BY <1>2 DEF Writes, Heads, Ours, Start
<1>5. Heads'
  <2>1. wav_format # NoFormat =>
          form = "WAVE" /\ \E length \in 0 .. Unknown : chunks = Header(length) /\ length = Unknown
    BY DEF Writes, Heads, HeaderKnown
  <2>2. wav_format' # NoFormat =>
          form' = "WAVE" /\ \E length \in 0 .. Unknown :
                              chunks' = Header(length)' /\ HeaderKnown(length)'
    BY <2>1, <1>2 DEF Header, HeaderKnown
  <2> QED
    BY <1>2, <1>4, <2>2 DEF Writes, Heads, Ours
<1>6. Counted'
  <2>1. /\ size + buffered <= Start + audio_size + Frame - 1
        /\ ~lost => size + buffered >= Start + audio_size
        /\ wpc = "audio" => size + buffered = Start + audio_size
    BY <1>4 DEF Writes, Counted
  <2>6. \E k \in Nat : audio_size = k * Frame
    BY <1>4 DEF Writes, Counted
  <2>2. Start \in Nat /\ audio_size \in Nat /\ size \in Nat /\ buffered \in Nat
    BY DEF Writes, TypeOK, Start
  <2>3. size' + buffered' <= Start' + audio_size' + Frame - 1
    BY <1>1, <1>2, <2>1, <2>2 DEF Start
  <2>4. ~lost' => size' + buffered' >= Start' + audio_size'
    BY <1>1, <1>2, <2>1, <2>2 DEF Start
  <2>5. wpc' # "audio" /\ buffered' = 0
    BY <1>1
  <2>7. \E k \in Nat : audio_size' = k * Frame
    BY <1>2, <2>6
  <2> QED
    BY <2>3, <2>4, <2>5, <2>7 DEF Counted
<1> QED
  BY <1>3, <1>5, <1>6, WriterLeaves

LEMMA WriteHeaderWrites == Writes /\ WriteHeader => Writes'
<1> SUFFICES ASSUME Writes, WriteHeader PROVE Writes'
  OBVIOUS
<1>1. PICK format \in {16, 40} :
        /\ wav_format' = format /\ chunks' = WavHeader(format)
        /\ \/ size' = 28 + format /\ buffered' = 0
           \/ size' = 0 /\ buffered' = 28 + format
  BY DEF WriteHeader
<1>2. /\ wpc = "header" /\ wpc' = "audio" /\ riff' = riff /\ form' = form /\ lost' = lost
      /\ audio_size' = audio_size /\ UNCHANGED <<options, reader>>
  BY DEF WriteHeader, options
<1>3. /\ form = "WAVE" /\ audio_size = 0 /\ ~lost /\ riff = Unknown
  BY <1>2 DEF Writes, Heads
<1>4. ChunksTyped'
  <2>1. chunks' = HeaderOf(format, Unknown) /\ Unknown \in 0 .. Unknown
    BY <1>1 DEF WavHeader, HeaderOf
  <2> QED
    BY <2>1, HeaderTyped DEF ChunksTyped
<1>5. WriterTyped'
  BY <1>1, <1>2, <1>3, <1>4, Typed DEF Writes, WriterTyped
<1>6. chunks' = Header(Unknown)' /\ Start' = 28 + format
  BY <1>1 DEF Header, HeaderOf, WavHeader, Start
<1>7. Heads'
  BY <1>1, <1>2, <1>3, <1>6 DEF Heads, HeaderKnown, Ours
<1>8. Counted'
  <2>1. 0 = 0 * Frame
    OBVIOUS
  <2> QED
    BY <1>1, <1>2, <1>3, <1>6, <2>1 DEF Counted
<1> QED
  BY <1>2, <1>5, <1>7, <1>8, WriterLeaves

LEMMA HeaderFailsWrites == Writes /\ HeaderFails => Writes'
<1> SUFFICES ASSUME Writes, HeaderFails PROVE Writes'
  OBVIOUS
<1>1. PICK format \in {16, 40} : chunks' = WavHeader(format) /\ size' \in 0 .. 27 + format
  BY DEF HeaderFails
<1>2. /\ wpc = "header" /\ wpc' = "closed" /\ riff' = riff /\ form' = form /\ lost' = lost
      /\ buffered' = buffered /\ wav_format' = wav_format
      /\ audio_size' = audio_size /\ UNCHANGED <<options, reader>>
  BY DEF HeaderFails, options
<1>3. form = "WAVE" /\ wav_format = NoFormat /\ riff = Unknown
  BY <1>2 DEF Writes, Heads
<1>4. ChunksTyped'
  <2>1. chunks' = HeaderOf(format, Unknown) /\ Unknown \in 0 .. Unknown
    BY <1>1 DEF WavHeader, HeaderOf
  <2> QED
    BY <2>1, HeaderTyped DEF ChunksTyped
<1>5. WriterTyped'
  BY <1>1, <1>2, <1>4, Typed DEF Writes, WriterTyped
<1>6. Heads' /\ Counted'
  BY <1>2, <1>3 DEF Heads, Counted, Ours
<1> QED
  BY <1>2, <1>5, <1>6, WriterLeaves

LEMMA WriteAudioWrites == Writes /\ WriteAudio => Writes'
<1> SUFFICES ASSUME Writes, WriteAudio PROVE Writes'
  OBVIOUS
<1>1. /\ wpc = "audio" /\ wpc' = wpc /\ riff' = riff /\ chunks' = chunks /\ form' = form
      /\ pipe' = pipe /\ wav_format' = wav_format /\ lost' = lost
      /\ audio_size' = audio_size + Frame /\ UNCHANGED <<options, reader>>
  BY DEF WriteAudio, header, options
<1>2. size' + buffered' = size + buffered + Frame /\ size' \in Nat /\ buffered' \in Nat
  BY DEF WriteAudio, Writes, TypeOK
<1>3. WriterTyped'
  BY <1>1, <1>2, Typed DEF Writes, WriterTyped, ChunksTyped
<1>4. Ours /\ Ours' /\ Start' = Start /\ Start \in Nat
  BY <1>1 DEF Writes, Heads, TypeOK, Ours, Start
<1>5. Heads'
  <2>1. wav_format # NoFormat =>
          form = "WAVE" /\ \E length \in 0 .. Unknown : chunks = Header(length) /\ length = Unknown
    BY <1>1 DEF Writes, Heads, HeaderKnown
  <2>2. wav_format' # NoFormat =>
          form' = "WAVE" /\ \E length \in 0 .. Unknown :
                              chunks' = Header(length)' /\ HeaderKnown(length)'
    BY <1>1, <2>1 DEF Header, HeaderKnown
  <2> QED
    BY <1>1, <1>4, <2>2 DEF Writes, Heads
<1>6. Counted'
  <2>1. \E k \in Nat : audio_size' = k * Frame
    <3>1. PICK k \in Nat : audio_size = k * Frame
      BY <1>4 DEF Writes, Counted
    <3>2. audio_size' = (k + 1) * Frame /\ k + 1 \in Nat
      BY <1>1, <3>1
    <3> QED
      BY <3>2
  <2>2. ~lost /\ size + buffered = Start + audio_size
    BY <1>1, <1>4 DEF Writes, Counted
  <2>3. audio_size \in Nat /\ size \in Nat /\ buffered \in Nat
    BY DEF Writes, TypeOK
  <2>4. Start' \in Nat /\ audio_size' \in Nat
    BY <1>1, <1>4, <2>3
  <2>5. size' + buffered' = Start + audio_size + Frame
    BY <1>2, <1>4, <2>2, <2>3
  <2>6. Start' + audio_size' = Start + audio_size + Frame
    BY <1>1, <1>4, <2>3 DEF Start
  <2>7. /\ size' + buffered' = Start' + audio_size'
        /\ size' + buffered' <= Start' + audio_size' + Frame - 1
        /\ size' + buffered' >= Start' + audio_size'
    BY <1>2, <2>4, <2>5, <2>6 DEF Start
  <2> QED
    BY <1>1, <2>1, <2>2, <2>7 DEF Counted
<1> QED
  BY <1>1, <1>3, <1>5, <1>6, WriterLeaves

LEMMA EndOfStreamWrites == Writes /\ EndOfStream => Writes'
<1> SUFFICES ASSUME Writes, EndOfStream PROVE Writes'
  OBVIOUS
<1>1. /\ wpc = "audio" /\ wpc' = "riff" /\ UNCHANGED <<header, options, stdio, reader>>
      /\ UNCHANGED <<wav_format, audio_size>>
  BY DEF EndOfStream
<1>2. WriterTyped'
  BY <1>1, Typed DEF Writes, WriterTyped, ChunksTyped, header, stdio
<1>3. Heads'
  BY <1>1 DEF Writes, Heads, Header, HeaderKnown, Ours, header, options, stdio
<1>4. Counted'
  BY <1>1 DEF Writes, Counted, Ours, Start, header, options, stdio
<1> QED
  BY <1>1, <1>2, <1>3, <1>4, WriterLeaves

LEMMA CloseRawWrites == Writes /\ CloseRaw => Writes'
BY WriteOutWrites DEF CloseRaw

LEMMA AudioFailsWrites == Writes /\ AudioFails => Writes'
<1> SUFFICES ASSUME Writes, AudioFails PROVE Writes'
  OBVIOUS
<1>1. Frame - 1 \in 0 .. Frame - 1
  OBVIOUS
<1> QED
  BY <1>1, WriteOutWrites DEF AudioFails

LEMMA KillWrites == Writes /\ Kill => Writes'
<1> SUFFICES ASSUME Writes, Kill PROVE Writes'
  OBVIOUS
<1>1. PICK more \in 0 .. Frame - 1 : more = IF wpc = "audio" THEN Frame - 1 ELSE 0
  OBVIOUS
<1>2. WriteOut(more) /\ more > 0 => wpc = "audio"
  BY <1>1 DEF Kill
<1> QED
  BY <1>1, <1>2, WriteOutWrites DEF Kill

LEMMA FieldOf ==
  ASSUME NEW n \in Nat, n < Unknown
  PROVE  Field(n) = n /\ Field(n) \in 0 .. Unknown
BY DEF Field

\* In a file that opusdec has not closed, the length of the audio is not known.
LEMMA NotKnown ==
  ASSUME Writes, wav_format # NoFormat, wpc # "closed"
  PROVE  form = "WAVE" /\ chunks = Header(Unknown)
BY DEF Writes, Heads, HeaderKnown

LEMMA UpdateRiffWrites == Writes /\ UpdateRiff => Writes'
<1> SUFFICES ASSUME Writes, UpdateRiff PROVE Writes'
  OBVIOUS
<1>1. /\ wpc = "riff" /\ wav_format # NoFormat
      /\ chunks' = chunks /\ form' = form /\ wav_format' = wav_format /\ audio_size' = audio_size
      /\ pipe' = pipe /\ UNCHANGED <<options, reader>>
  BY DEF UpdateRiff, options
<1>2. riff = Unknown /\ form = "WAVE" /\ chunks = Header(Unknown)
  BY <1>1, NotKnown DEF Writes, Heads
<1>3. CASE WriteOut(0) /\ riff' = riff /\ wpc' = "closed"
  BY <1>1, <1>3, WriteOutWrites DEF header
<1>4. CASE /\ wpc' = "data" /\ riff' \in 0 .. Unknown /\ riff' \in {Unknown, audio_size + 20 + wav_format}
           /\ size' \in Nat /\ buffered' \in Nat /\ size' + buffered' = size + buffered /\ lost' = lost
  <2>1. WriterTyped'
    BY <1>1, <1>4, Typed DEF Writes, WriterTyped, ChunksTyped
  <2>2. chunks' = Header(Unknown)' /\ Unknown \in 0 .. Unknown
    BY <1>1, <1>2 DEF Header
  <2>3. Heads'
    BY <1>1, <1>2, <1>4, <2>2 DEF Heads, HeaderKnown, Ours
  <2>4. Counted'
    BY <1>1, <1>4 DEF Writes, Counted, Ours, Start
  <2> QED
    BY <1>1, <2>1, <2>3, <2>4, WriterLeaves
<1>5. CASE ~RiffFits /\ wpc' = "data" /\ UNCHANGED <<riff, stdio>>
  BY <1>2, <1>4, <1>5 DEF Writes, TypeOK, stdio
<1>6. CASE /\ RiffFits /\ ~pipe /\ Flush /\ riff' = Field(audio_size + 20 + wav_format)
           /\ wpc' = "data"
  <2>1. riff' = audio_size + 20 + wav_format /\ riff' \in 0 .. Unknown
    <3>1. audio_size + 20 + wav_format \in Nat /\ audio_size + 20 + wav_format < Unknown
      BY <1>6 DEF RiffFits, Writes, TypeOK
    <3> QED
      BY <3>1, <1>6, FieldOf
  <2>2. /\ size' \in Nat /\ buffered' \in Nat /\ size' + buffered' = size + buffered
        /\ lost' = lost
    BY <1>6 DEF Flush, Writes, TypeOK
  <2> QED
    BY <1>4, <1>6, <2>1, <2>2
<1> QED
  BY <1>3, <1>5, <1>6 DEF UpdateRiff

\* Of the chunks of opusdec's header only that of the audio changes.
LEMMA LengthPut ==
  ASSUME NEW format \in {16, 40}, NEW length \in 0 .. Unknown
  PROVE  {IF c.at + 4 = 24 + format THEN [c EXCEPT !.len = length] ELSE c
            : c \in HeaderOf(format, Unknown)} = HeaderOf(format, length)
<1> DEFINE f == Chunk("fmt", 12, format, TRUE)
           d == Chunk("data", 20 + format, Unknown, TRUE)
           P(c) == IF c.at + 4 = 24 + format THEN [c EXCEPT !.len = length] ELSE c
<1>1. P(f) = f
  BY DEF Chunk
<1>2. d.at + 4 = 24 + format
  BY DEF Chunk
<1>3. [d EXCEPT !.len = length] = Chunk("data", 20 + format, length, TRUE)
  <2>1. ASSUME NEW type, NEW at, NEW n, NEW ok
        PROVE  [Chunk(type, at, n, ok) EXCEPT !.len = length] = Chunk(type, at, length, ok)
    BY DEF Chunk
  <2>2. PICK at, ok : at = 20 + format /\ ok = TRUE
    OBVIOUS
  <2>3. [Chunk("data", at, Unknown, ok) EXCEPT !.len = length] = Chunk("data", at, length, ok)
    BY <2>1
  <2> QED
    BY <2>2, <2>3
<1>4. P(d) = Chunk("data", 20 + format, length, TRUE)
  BY <1>2, <1>3
<1>5. HeaderOf(format, Unknown) = {f, d}
  BY DEF HeaderOf
<1>6. {P(c) : c \in {f, d}} = {P(f), P(d)}
  <2> HIDE DEF P, f, d
  <2> QED
    OBVIOUS
<1>7. {P(c) : c \in HeaderOf(format, Unknown)} = {f, Chunk("data", 20 + format, length, TRUE)}
  BY <1>1, <1>4, <1>5, <1>6
<1> QED
  BY <1>7 DEF HeaderOf

LEMMA UpdateDataWrites == Writes /\ UpdateData => Writes'
<1> SUFFICES ASSUME Writes, UpdateData PROVE Writes'
  OBVIOUS
<1>1. /\ wpc = "data" /\ wpc' = "closed" /\ riff' = riff /\ form' = form /\ pipe' = pipe
      /\ wav_format' = wav_format /\ audio_size' = audio_size /\ UNCHANGED <<options, reader>>
  BY DEF UpdateData, options
<1>2. /\ form = "WAVE" /\ chunks = Header(Unknown) /\ wav_format \in {16, 40}
      /\ riff \in {Unknown, audio_size + 20 + wav_format}
  BY <1>1, NotKnown DEF Writes, Heads, TypeOK
<1>3. CASE WriteOut(0) /\ chunks' = chunks
  BY <1>1, <1>3, WriteOutWrites DEF header
<1>4. CASE /\ DataFits /\ ~pipe /\ Flush
           /\ chunks' = {IF c.at + 4 = 24 + wav_format THEN [c EXCEPT !.len = Field(audio_size)] ELSE c
                           : c \in chunks}
  <2>1. Field(audio_size) = audio_size /\ audio_size \in 0 .. Unknown
    BY <1>4, FieldOf DEF DataFits, Writes, TypeOK
  <2>2. chunks' = HeaderOf(wav_format, audio_size)
    BY <1>2, <1>4, <2>1, LengthPut DEF Header
  <2>3. ChunksTyped'
    BY <1>2, <2>1, <2>2, HeaderTyped DEF ChunksTyped
  <2>4. /\ size' \in Nat /\ buffered' = 0 /\ size' = size + buffered /\ lost' = lost
        /\ audio_size \in Nat /\ buffered \in Nat /\ size \in Nat
    BY <1>4 DEF Flush, Writes, TypeOK
  <2>5. WriterTyped'
    BY <1>1, <2>3, <2>4, Typed DEF Writes, WriterTyped
  <2>6. Counted'
    BY <1>1, <2>4 DEF Writes, Counted, Ours, Start
  <2>7. ~lost' => size' >= Start' + audio_size'
    BY <1>1, <1>2, <2>4 DEF Writes, Counted, Ours, Start
  <2>8. chunks' = Header(audio_size)' /\ HeaderKnown(audio_size)'
    BY <1>1, <1>4, <2>2, <2>7 DEF Header, HeaderKnown, Start
  <2>9. Heads'
    BY <1>1, <1>2, <2>1, <2>8 DEF Heads, Ours
  <2> QED
    BY <1>1, <2>5, <2>6, <2>9, WriterLeaves
<1> QED
  BY <1>3, <1>4 DEF UpdateData

-----------------------------------------------------------------------------
(* What opusenc does changes no file.                                      *)

LEMMA PaddedBounds ==
  ASSUME NEW n \in Nat
  PROVE  Padded(n) \in Nat /\ Padded(n) >= n /\ (n \in {16, 40} => Padded(n) = n)
BY DEF Padded

LEMMA EarlyTyped ==
  ASSUME early \in BOOLEAN, Early
  PROVE  early' \in BOOLEAN
<1>1. early' <=> early \/ (~pipe /\ wpc # "closed")
  BY DEF Early
<1>2. early' \in BOOLEAN
  BY DEF Early
<1> QED
  BY <1>2

\* How much a read brings.
Available == IF size > pos THEN (size - pos) \div Frame ELSE 0

LEMMA Brought ==
  ASSUME TypeOK, Limited, rpc = "read"
  PROVE  /\ Available \in Nat /\ Wanted \in Nat /\ Wanted <= FrameSize
         /\ Min(Wanted, Available) \in Nat
         /\ Min(Wanted, Available) <= Wanted /\ Min(Wanted, Available) <= Available
         /\ Min(Wanted, Available) \in {Wanted, Available}
         /\ totalsamples > 0 => samplesread + Wanted <= totalsamples
         /\ (totalsamples = 0 \/ samplesread + FrameSize <= totalsamples) => Wanted = FrameSize
         /\ Wanted # FrameSize => samplesread + Wanted = totalsamples
<1>1. Available \in Nat
  <2>1. CASE size > pos
    <3>1. PICK n \in Nat : n = size - pos
      BY <2>1 DEF TypeOK
    <3>2. n \div Frame \in Nat
      BY <3>1
    <3> QED
      BY <2>1, <3>1, <3>2 DEF Available
  <2> QED
    BY <2>1 DEF Available
<1>2. totalsamples > 0 => samplesread <= totalsamples
  BY DEF Limited
<1>3. /\ Wanted \in Nat /\ Wanted <= FrameSize
      /\ totalsamples > 0 => samplesread + Wanted <= totalsamples
      /\ (totalsamples = 0 \/ samplesread + FrameSize <= totalsamples) => Wanted = FrameSize
      /\ Wanted # FrameSize => samplesread + Wanted = totalsamples
  BY <1>2 DEF Wanted, TypeOK
<1> QED
  BY <1>1, <1>3 DEF Min

\* Refused, or a step of the search, or the audio begins.
LEMMA SearchLimited ==
  ASSUME Writes, rpc \notin {"read", "done", "refused"},
         \/ rpc' = "refused" /\ UNCHANGED <<pos, len, totalsamples, samplesread, restarted>>
         \/ /\ rpc' \in {"fmt", "data", "COMM", "SSND", "read"}
            /\ pos' \in Nat /\ len' \in 0 .. Unknown /\ totalsamples' \in Nat /\ samplesread' = 0
            /\ restarted' \in BOOLEAN,
         early' \in BOOLEAN, UNCHANGED <<header, options, stdio, writer>>
  PROVE  Writes'
<1>1. ReaderTyped
  BY Typed DEF Writes
<1>2. ReaderTyped' /\ Limited'
  BY <1>1 DEF Writes, Limited, ReaderTyped
<1> QED
  BY <1>2, ReaderLeaves

LEMMA OpenRawWrites == Writes /\ OpenRaw => Writes'
<1> SUFFICES ASSUME Writes, OpenRaw PROVE Writes'
  OBVIOUS
<1> QED
  BY SearchLimited DEF OpenRaw, Writes, TypeOK

LEMMA IdentifyWrites == Writes /\ Identify => Writes'
<1> SUFFICES ASSUME Writes, Identify PROVE Writes'
  OBVIOUS
<1>1. rpc = "id" /\ samplesread = 0 /\ early' \in BOOLEAN
  BY EarlyTyped DEF Identify, Writes, Limited, TypeOK
<1>2. \/ rpc' = "refused" /\ UNCHANGED <<pos, len, totalsamples, samplesread, restarted>>
      \/ /\ rpc' \in {"fmt", "COMM"} /\ pos' = 12
         /\ UNCHANGED <<len, totalsamples, samplesread, restarted>>
  BY DEF Identify, Refuse
<1> QED
  BY <1>1, <1>2, SearchLimited DEF Identify, Writes, TypeOK

LEMMA SkipChunkWrites == Writes /\ SkipChunk => Writes'
<1> SUFFICES ASSUME Writes, SkipChunk PROVE Writes'
  OBVIOUS
<1>1. /\ rpc \in {"fmt", "data", "COMM", "SSND"} /\ samplesread = 0 /\ early' \in BOOLEAN
      /\ UNCHANGED <<header, options, stdio, writer>>
  BY EarlyTyped DEF SkipChunk, Searching, Writes, Limited, TypeOK
<1>2. PICK c \in chunks :
        \/ pos' = pos + 8 + Padded(c.len)
           /\ UNCHANGED <<rpc, len, totalsamples, samplesread, restarted>>
        \/ rpc' = "refused" /\ UNCHANGED <<pos, len, totalsamples, samplesread, restarted>>
  BY DEF SkipChunk, Refuse
<1>3. c.len \in Nat /\ pos \in Nat
  BY DEF Writes, TypeOK
<1>4. pos + 8 + Padded(c.len) \in Nat
  BY <1>3, PaddedBounds
<1> QED
  BY <1>1, <1>2, <1>4, SearchLimited DEF Writes, TypeOK

LEMMA NoChunkWrites == Writes /\ NoChunk => Writes'
<1> SUFFICES ASSUME Writes, NoChunk PROVE Writes'
  OBVIOUS
<1>1. /\ rpc \in {"fmt", "data", "COMM", "SSND"} /\ samplesread = 0 /\ early' \in BOOLEAN
      /\ UNCHANGED <<header, options, stdio, writer>>
  BY EarlyTyped DEF NoChunk, Searching, Writes, Limited, TypeOK
<1>2. \/ pos' = 12 /\ restarted' = TRUE /\ UNCHANGED <<rpc, len, totalsamples, samplesread>>
      \/ rpc' = "refused" /\ UNCHANGED <<pos, len, totalsamples, samplesread, restarted>>
  BY DEF NoChunk, Refuse
<1>3. restarted \in BOOLEAN /\ TRUE \in BOOLEAN
  BY DEF Writes, TypeOK
<1>4. restarted' = TRUE \/ restarted' = restarted => restarted' \in BOOLEAN
  BY <1>3
<1> QED
  BY <1>1, <1>2, <1>4, SearchLimited DEF Writes, TypeOK

LEMMA ReadFormatWrites == Writes /\ ReadFormat => Writes'
<1> SUFFICES ASSUME Writes, ReadFormat PROVE Writes'
  OBVIOUS
<1>1. /\ rpc = "fmt" /\ samplesread = 0 /\ early' \in BOOLEAN
      /\ UNCHANGED <<header, options, stdio, writer>>
  BY EarlyTyped DEF ReadFormat, Writes, Limited, TypeOK
<1>2. PICK c \in chunks :
        \/ pos' = pos + 8 + Padded(c.len) /\ rpc' = "data"
           /\ UNCHANGED <<len, totalsamples, samplesread, restarted>>
        \/ rpc' = "refused" /\ UNCHANGED <<pos, len, totalsamples, samplesread, restarted>>
  BY DEF ReadFormat, Refuse
<1>3. c.len \in Nat /\ pos \in Nat
  BY DEF Writes, TypeOK
<1>4. pos + 8 + Padded(c.len) \in Nat
  BY <1>3, PaddedBounds
<1> QED
  BY <1>1, <1>2, <1>4, SearchLimited DEF Writes, TypeOK

LEMMA ReadCommonWrites == Writes /\ ReadCommon => Writes'
<1> SUFFICES ASSUME Writes, ReadCommon PROVE Writes'
  OBVIOUS
<1>1. /\ rpc = "COMM" /\ samplesread = 0 /\ early' \in BOOLEAN
      /\ UNCHANGED <<header, options, stdio, writer>>
  BY EarlyTyped DEF ReadCommon, Writes, Limited, TypeOK
<1>2. PICK c \in chunks :
        \/ /\ pos' = pos + 8 + Padded(c.len) /\ rpc' = "SSND"
           /\ totalsamples' = c.says /\ restarted' = FALSE /\ UNCHANGED <<len, samplesread>>
        \/ rpc' = "refused" /\ UNCHANGED <<pos, len, totalsamples, samplesread, restarted>>
  BY DEF ReadCommon, Refuse
<1>3. c.len \in Nat /\ c.says \in Nat /\ pos \in Nat
  BY DEF Writes, TypeOK
<1>4. pos + 8 + Padded(c.len) \in Nat
  BY <1>3, PaddedBounds
<1> QED
  BY <1>1, <1>2, <1>3, <1>4, SearchLimited DEF Writes, TypeOK

LEMMA FindSoundWrites == Writes /\ FindSound => Writes'
<1> SUFFICES ASSUME Writes, FindSound PROVE Writes'
  OBVIOUS
<1>1. /\ rpc = "SSND" /\ samplesread = 0 /\ early' \in BOOLEAN
      /\ UNCHANGED <<header, options, stdio, writer>>
  BY EarlyTyped DEF FindSound, Writes, Limited, TypeOK
<1>2. PICK c \in chunks :
        \/ /\ pos' \in {pos + 16 + c.says, size} /\ len' = c.len /\ samplesread' = 0
           /\ rpc' = "read" /\ UNCHANGED <<totalsamples, restarted>>
        \/ rpc' = "refused" /\ UNCHANGED <<pos, len, totalsamples, samplesread, restarted>>
  BY DEF FindSound, Refuse
<1>3. c.len \in 0 .. Unknown /\ c.says \in Nat /\ pos \in Nat /\ size \in Nat
  BY DEF Writes, TypeOK
<1> QED
  BY <1>1, <1>2, <1>3, SearchLimited DEF Writes, TypeOK

LEMMA FindDataWrites == Writes /\ FindData => Writes'
<1> SUFFICES ASSUME Writes, FindData PROVE Writes'
  OBVIOUS
<1>1. /\ rpc = "data" /\ samplesread = 0 /\ early' \in BOOLEAN
      /\ UNCHANGED <<header, options, stdio, writer>>
  BY EarlyTyped DEF FindData, Writes, Limited, TypeOK
<1>2. PICK c \in chunks :
        len' = c.len /\ totalsamples' \in {c.len \div Frame, 0}
  BY DEF FindData
<1>3. c.len \in 0 .. Unknown /\ pos \in Nat
  BY DEF Writes, TypeOK
<1>4. c.len \div Frame \in Nat
  BY <1>3
<1>5. pos' \in Nat /\ samplesread' = 0 /\ rpc' = "read" /\ restarted' = restarted
  BY <1>3 DEF FindData
<1> QED
  BY <1>1, <1>2, <1>3, <1>4, <1>5, SearchLimited DEF Writes, TypeOK

\* What a read does to opusenc.
LEMMA Reading ==
  ASSUME ReadSamples
  PROVE  /\ rpc = "read" /\ Ready(Wanted * Frame) /\ Early
         /\ samplesread' = samplesread + Min(Wanted, Available)
         /\ pos' = IF Min(Wanted, Available) = Wanted THEN pos + Min(Wanted, Available) * Frame
                   ELSE IF size > pos THEN size ELSE pos
         /\ rpc' = IF Min(Wanted, Available) < FrameSize THEN "done" ELSE "read"
         /\ UNCHANGED <<header, options, stdio, writer>> /\ len' = len
         /\ totalsamples' = totalsamples /\ restarted' = restarted
BY DEF ReadSamples, Available

LEMMA ReadSamplesWrites == Writes /\ ReadSamples => Writes'
<1> SUFFICES ASSUME Writes, ReadSamples PROVE Writes'
  OBVIOUS
<1> DEFINE got == Min(Wanted, Available)
<1>1. rpc = "read" /\ early' \in BOOLEAN /\ UNCHANGED <<header, options, stdio, writer>>
  BY Reading, EarlyTyped DEF Writes, TypeOK
<1>2. /\ got \in Nat /\ got <= Wanted /\ Wanted \in Nat
      /\ totalsamples > 0 => samplesread + Wanted <= totalsamples
  BY <1>1, Brought DEF Writes
<1>3. /\ samplesread \in Nat /\ totalsamples \in Nat /\ pos \in Nat /\ size \in Nat
      /\ len \in 0 .. Unknown /\ restarted \in BOOLEAN
  BY DEF Writes, TypeOK
<1> HIDE DEF got
<1>4. /\ samplesread' = samplesread + got /\ rpc' \in {"read", "done"} /\ len' = len
      /\ totalsamples' = totalsamples /\ restarted' = restarted
      /\ pos' \in {pos + got * Frame, size, pos}
  BY Reading DEF got
<1>5. pos + got * Frame \in Nat
  BY <1>2, <1>3
<1>6. ReaderTyped'
  BY <1>1, <1>2, <1>3, <1>4, <1>5 DEF ReaderTyped
<1>7. Limited'
  BY <1>2, <1>3, <1>4 DEF Limited
<1> QED
  BY <1>1, <1>6, <1>7, ReaderLeaves

LEMMA StutterWrites == Writes /\ UNCHANGED vars => Writes'
<1> SUFFICES ASSUME Writes, UNCHANGED vars PROVE Writes'
  OBVIOUS
<1>1. UNCHANGED <<header, options, stdio, writer>> /\ UNCHANGED reader
  BY DEF vars
<1>2. ReaderTyped' /\ Limited'
  BY <1>1, Typed DEF Writes, Limited, ReaderTyped, reader
<1> QED
  BY <1>1, <1>2, ReaderLeaves

LEMMA NextWrites == Writes /\ [Next]_vars => Writes'
BY StutterWrites, WriteHeaderWrites, HeaderFailsWrites, WriteAudioWrites, AudioFailsWrites,
   EndOfStreamWrites, CloseRawWrites, UpdateRiffWrites, UpdateDataWrites, KillWrites,
   OpenRawWrites, IdentifyWrites, SkipChunkWrites, NoChunkWrites, ReadFormatWrites,
   FindDataWrites, ReadCommonWrites, FindSoundWrites, ReadSamplesWrites
   DEF Next, Opusdec, Opusenc

LEMMA WritesInvariant == Spec => []Writes
BY InitWrites, NextWrites, PTL DEF Spec

\* Each variable keeps its type: the fields of every chunk stay in the range of their width.
THEOREM TypeCorrect == Spec => []TypeOK
<1>1. Writes => TypeOK
  BY DEF Writes
<1> QED
  BY <1>1, WritesInvariant, PTL

\* The lengths update_wav_header puts into the file are right or say that they are not
\* known, whatever the width of the fields and however much audio there is, and unless a
\* full disk took bytes away, no data chunk claims bytes that are not there.
THEOREM Honest == Spec => []SizesHonest
<1>1. Writes => SizesHonest
  <2> SUFFICES ASSUME Writes, wav_format # NoFormat, NEW c \in chunks
               PROVE  /\ riff \in {Unknown, audio_size + 20 + wav_format}
                      /\ c.type = "data" => c.len \in {Unknown, audio_size}
                      /\ c.type = "data" /\ c.len # Unknown /\ ~lost => size >= c.at + 8 + c.len
    BY DEF SizesHonest
  <2>1. PICK length \in 0 .. Unknown : chunks = Header(length) /\ HeaderKnown(length)
    BY DEF Writes, Heads
  <2>2. CASE c = Chunk("fmt", 12, wav_format, TRUE)
    BY <2>2 DEF Writes, Heads, Chunk
  <2>3. CASE c = Chunk("data", 20 + wav_format, length, TRUE)
    <3>1. c.at = 20 + wav_format /\ c.len = length
      BY <2>3 DEF Chunk
    <3>2. length # Unknown /\ ~lost => size >= 28 + wav_format + length
      BY <2>1 DEF HeaderKnown, Start
    <3> QED
      BY <2>1, <3>1, <3>2 DEF Writes, TypeOK, Heads, HeaderKnown
  <2> QED
    BY <2>1, <2>2, <2>3 DEF Header, HeaderOf
<1> QED
  BY <1>1, WritesInvariant, PTL

-----------------------------------------------------------------------------
(* What opusenc reads.                                                     *)

LEMMA InitReads == Init => Reads
<1> SUFFICES ASSUME Init PROVE Reads
  OBVIOUS
<1>1. rpc = "id" /\ pos = 0
  BY DEF Init
<1> QED
  BY <1>1 DEF Reads, Patient, Follows

\* A step of opusdec, as opusenc sees it.
LEMMA WriterSteps ==
  ASSUME Writes, Opusdec
  PROVE  /\ UNCHANGED <<options, reader>> /\ wpc # "closed" /\ wpc' # "header"
         /\ lost => lost'
         /\ wpc # "header" => size' >= size /\ wav_format' = wav_format
         /\ audio_size' >= audio_size
<1>1. CASE WriteHeader \/ HeaderFails
  <2>1. wpc = "header" /\ ~lost /\ audio_size = 0 /\ audio_size' = 0
    BY <1>1 DEF WriteHeader, HeaderFails, Writes, Heads
  <2> QED
    BY <1>1, <2>1 DEF WriteHeader, HeaderFails, options, reader
<1>2. CASE WriteAudio
  BY <1>2 DEF WriteAudio, Writes, TypeOK, options, reader
<1>3. CASE EndOfStream
  BY <1>3 DEF EndOfStream, Writes, TypeOK, options, reader, stdio
<1>4. ASSUME NEW more \in Nat, WriteOut(more)
      PROVE  (lost => lost') /\ size' >= size
  BY <1>4, WriteOutKeeps DEF Writes, TypeOK
<1>5. ASSUME Flush PROVE (lost => lost') /\ size' >= size
  BY <1>5 DEF Flush, Writes, TypeOK
<1>6. CASE AudioFails
  <2>1. WriteOut(Frame - 1) /\ Frame - 1 \in Nat
    BY <1>6 DEF AudioFails
  <2>2. (lost => lost') /\ size' >= size
    BY <1>4, <2>1
  <2> QED
    BY <1>6, <2>2 DEF AudioFails, Writes, TypeOK
<1>7. CASE CloseRaw
  <2>1. (lost => lost') /\ size' >= size
    BY <1>4, <1>7 DEF CloseRaw
  <2> QED
    BY <1>7, <2>1 DEF CloseRaw, Writes, TypeOK
<1>8. CASE UpdateRiff
  <2>1. (lost => lost') /\ size' >= size
    BY <1>4, <1>5, <1>8 DEF UpdateRiff, stdio, Writes, TypeOK
  <2> QED
    BY <1>8, <2>1 DEF UpdateRiff, Writes, TypeOK
<1>9. CASE UpdateData
  <2>1. (lost => lost') /\ size' >= size
    BY <1>4, <1>5, <1>9 DEF UpdateData
  <2> QED
    BY <1>9, <2>1 DEF UpdateData, Writes, TypeOK
<1>10. CASE Kill
  <2>1. PICK more \in Nat : more = IF wpc = "audio" THEN Frame - 1 ELSE 0
    OBVIOUS
  <2>2. (lost => lost') /\ size' >= size
    BY <1>4, <1>10, <2>1 DEF Kill
  <2> QED
    BY <1>10, <2>2 DEF Kill, Writes, TypeOK
<1> QED
  BY <1>1, <1>2, <1>3, <1>6, <1>7, <1>8, <1>9, <1>10 DEF Opusdec

LEMMA OpusdecReads ==
  ASSUME Writes, Reads, Opusdec, Writes'
  PROVE  Reads'
<1>1. /\ UNCHANGED <<options, reader>> /\ wpc # "closed" /\ wpc' # "header"
      /\ lost => lost'
      /\ wpc # "header" => size' >= size /\ wav_format' = wav_format
      /\ audio_size' >= audio_size
  BY WriterSteps
<1>2. /\ form' = form /\ pipe' = pipe /\ rawmode' = rawmode /\ rpc' = rpc /\ pos' = pos
      /\ samplesread' = samplesread /\ totalsamples' = totalsamples /\ early' = early
  BY <1>1 DEF options, reader
<1> SUFFICES ASSUME Proper' PROVE Patient' /\ (Ours' => Follows')
  BY DEF Reads
<1>3. Proper /\ Patient
  BY <1>2 DEF Reads, Proper
<1>4. Patient'
  BY <1>1, <1>2, <1>3 DEF Patient
<1>5. CASE rpc = "id"
  BY <1>2, <1>4, <1>5 DEF Follows
<1>6. ASSUME rpc # "id", Ours' PROVE Follows'
  <2>1. wpc # "header"
    BY <1>3, <1>6 DEF Patient
  <2>2. Ours /\ Follows /\ Start' = Start
    BY <1>1, <1>2, <1>3, <1>6, <2>1 DEF Reads, Ours, Start
  <2>3. samplesread * Frame <= audio_size => samplesread * Frame <= audio_size'
    <3>1. PICK n \in Nat : n = samplesread * Frame
      BY DEF Writes, TypeOK
    <3>2. audio_size \in Nat /\ audio_size' \in Nat
      BY DEF Writes, TypeOK
    <3> QED
      BY <1>1, <3>1, <3>2
  <2>4. pos <= size => pos <= size'
    BY <1>1, <2>1 DEF Writes, TypeOK
  <2>5. wav_format' = wav_format
    BY <1>1, <2>1
  <2> QED
    BY <1>1, <1>2, <2>2, <2>3, <2>4, <2>5 DEF Follows, Start
<1> QED
  BY <1>4, <1>5, <1>6

\* A file of opusdec's that opusenc reads, as Reads sees it, and that nobody writes any
\* more unless it is a pipe.
Watched == Writes /\ Proper /\ Patient /\ Ours /\ Follows /\ (~pipe => wpc = "closed")

LEMMA OpusencReads ==
  ASSUME Writes, Reads, UNCHANGED <<header, options, stdio, writer>>, Early,
         rpc # "id" \/ wpc # "header" \/ ~pipe,
         Watched => Follows'
  PROVE  Reads'
<1>1. /\ form' = form /\ pipe' = pipe /\ rawmode' = rawmode /\ wpc' = wpc
      /\ wav_format' = wav_format
  BY DEF header, options, stdio, writer
<1> SUFFICES ASSUME Proper' PROVE Patient' /\ (Ours' => Follows')
  BY DEF Reads
<1>2. ~early /\ (~pipe => wpc = "closed")
  BY DEF Proper, Early
<1>3. Proper /\ Patient
  BY <1>1, <1>2 DEF Reads, Proper
<1>4. wpc # "header"
  BY <1>2, <1>3 DEF Patient
<1>5. Patient'
  BY <1>1, <1>2, <1>4 DEF Patient
<1>6. Ours' => Watched
  BY <1>1, <1>2, <1>3 DEF Reads, Ours, Watched
<1> QED
  BY <1>5, <1>6

\* In a closed file in which bytes are missing some were lost.
LEMMA Lacks ==
  ASSUME Watched, NEW n \in Nat, Ready(n), ~Present(n), pos + n <= Start
  PROVE  lost
<1>1. wpc = "closed"
  BY DEF Watched, Ready, Present
<1>2. ~lost => size + buffered >= Start + audio_size /\ buffered = 0
  BY <1>1 DEF Watched, Writes, Counted
<1>3. /\ size \in Nat /\ audio_size \in Nat /\ pos \in Nat /\ Start \in Nat /\ size < pos + n
  BY DEF Watched, Writes, TypeOK, Present, Start
<1> QED
  BY <1>2, <1>3

\* The chunks at the two places where opusenc looks for them.
LEMMA ChunkAt ==
  ASSUME Watched, wav_format # NoFormat, NEW c \in chunks
  PROVE  /\ c.at = 12 => c.type = "fmt" /\ c.len = wav_format /\ c.ok
         /\ c.at = 20 + wav_format => c.type = "data" /\ c.len \in {Unknown, audio_size}
                                      /\ (c.len # Unknown => wpc = "closed")
<1>1. PICK length \in 0 .. Unknown : chunks = Header(length) /\ HeaderKnown(length)
  BY DEF Watched, Writes, Heads
<1>2. wav_format \in {16, 40}
  BY DEF Watched, Writes, TypeOK
<1>3. CASE c = Chunk("fmt", 12, wav_format, TRUE)
  BY <1>2, <1>3 DEF Chunk
<1>4. CASE c = Chunk("data", 20 + wav_format, length, TRUE)
  <2>1. c.type = "data" /\ c.len = length /\ c.at = 20 + wav_format
    BY <1>4 DEF Chunk
  <2> QED
    BY <1>1, <1>2, <2>1 DEF HeaderKnown
<1> QED
  BY <1>1, <1>3, <1>4 DEF Header, HeaderOf

LEMMA OpenRawReads == Writes /\ Reads /\ OpenRaw => Reads'
<1> SUFFICES ASSUME Writes, Reads, OpenRaw PROVE Reads'
  OBVIOUS
<1>1. /\ rpc = "id" /\ rawmode /\ rpc' = "read" /\ totalsamples' = 0 /\ samplesread' = 0
      /\ pos' = pos /\ early' = early /\ wpc' = wpc /\ form' = form /\ pipe' = pipe
      /\ rawmode' = rawmode /\ wav_format' = wav_format /\ audio_size' = audio_size /\ size' = size
  BY DEF OpenRaw, header, options, stdio, writer
<1> SUFFICES ASSUME Proper' PROVE Patient' /\ (Ours' => Follows')
  BY DEF Reads
<1>2. form = "raw" /\ wav_format = NoFormat /\ wpc # "header" /\ pos = 0 /\ audio_size \in Nat
  BY <1>1 DEF Proper, Writes, Heads, Limited, TypeOK
<1>3. 0 * Frame = 0
  OBVIOUS
<1>4. samplesread' * Frame = 0
  BY <1>1, <1>3
<1> QED
  BY <1>1, <1>2, <1>4 DEF Patient, Follows, Start

LEMMA IdentifyReads == Writes /\ Reads /\ Identify => Reads'
<1> SUFFICES ASSUME Writes, Reads, Identify PROVE Reads'
  OBVIOUS
<1>1. /\ rpc = "id" /\ ~rawmode /\ Ready(12) /\ Early
      /\ UNCHANGED <<header, options, stdio, writer>>
  BY DEF Identify
<1>2. wpc # "header" \/ ~pipe
  BY <1>1 DEF Ready, Writes, Heads, Limited
<1>3. ASSUME Watched PROVE Follows'
  <2>1. form = "WAVE" /\ wav_format # NoFormat /\ wav_format' = wav_format
    BY <1>1, <1>3 DEF Watched, Writes, Heads, Proper, Ours, writer
  <2>2. CASE Present(12)
    BY <2>1, <2>2 DEF Identify, Follows
  <2>3. CASE ~Present(12)
    <3>1. pos = 0 /\ Start >= 12
      BY <1>1, <2>1 DEF Writes, Limited, TypeOK, Start
    <3>2. lost
      BY <1>1, <1>3, <2>3, <3>1, Lacks DEF Start, Writes, TypeOK
    <3>3. lost' = lost /\ rpc' = "refused"
      BY <1>1, <2>3 DEF Identify, Refuse, stdio
    <3> QED
      BY <3>2, <3>3 DEF Follows
  <2> QED
    BY <2>2, <2>3
<1> QED
  BY <1>1, <1>2, <1>3, OpusencReads

LEMMA SkipChunkReads == Writes /\ Reads /\ SkipChunk => Reads'
<1> SUFFICES ASSUME Writes, Reads, SkipChunk PROVE Reads'
  OBVIOUS
<1>1. /\ rpc \in {"fmt", "data", "COMM", "SSND"} /\ Early
      /\ UNCHANGED <<header, options, stdio, writer>>
  BY DEF SkipChunk, Searching
<1>2. ~Watched
  <2> SUFFICES ASSUME Watched PROVE FALSE
    OBVIOUS
  <2>1. PICK c \in chunks : c.at = pos /\ c.type # rpc
    BY DEF SkipChunk
  <2> QED
    BY <1>1, <2>1, ChunkAt DEF Watched, Follows
<1> QED
  BY <1>1, <1>2, OpusencReads

LEMMA NoChunkReads == Writes /\ Reads /\ NoChunk => Reads'
<1> SUFFICES ASSUME Writes, Reads, NoChunk PROVE Reads'
  OBVIOUS
<1>1. /\ rpc \in {"fmt", "data", "COMM", "SSND"} /\ Early /\ Ready(8) /\ ~Present(8)
      /\ UNCHANGED <<header, options, stdio, writer>>
  BY DEF NoChunk, Searching
<1>2. ASSUME Watched PROVE Follows'
  <2>1. wav_format # NoFormat /\ pos \in {12, 20 + wav_format} /\ form = "WAVE"
    BY <1>1, <1>2 DEF Watched, Follows, Writes, Heads
  <2>2. pos + 8 <= Start
    BY <2>1 DEF Start, Writes, TypeOK
  <2>3. lost
    BY <1>1, <1>2, <2>2, Lacks
  <2>4. lost' = lost /\ rpc' = "refused"
    BY <1>1, <2>1 DEF NoChunk, StartsOver, Refuse, stdio
  <2> QED
    BY <2>3, <2>4 DEF Follows
<1> QED
  BY <1>1, <1>2, OpusencReads

LEMMA ReadFormatReads == Writes /\ Reads /\ ReadFormat => Reads'
<1> SUFFICES ASSUME Writes, Reads, ReadFormat PROVE Reads'
  OBVIOUS
<1>1. rpc = "fmt" /\ Early /\ UNCHANGED <<header, options, stdio, writer>>
  BY DEF ReadFormat
<1>2. ASSUME Watched PROVE Follows'
  <2>1. pos = 12 /\ wav_format \in {16, 40} /\ wav_format' = wav_format /\ lost' = lost
    BY <1>1, <1>2 DEF Watched, Follows, Writes, TypeOK, writer, stdio
  <2>2. PICK c \in chunks :
          /\ c.at = 12 /\ SeekReady(pos + 8, Padded(c.len))
          /\ IF c.len >= 16 /\ c.ok /\ ReadChunk(c, 40)
             THEN pos' = pos + 8 + Padded(c.len) /\ rpc' = "data"
             ELSE rpc' = "refused"
    BY <2>1 DEF ReadFormat, Refuse
  <2>3. c.len = wav_format /\ c.ok /\ c.len >= 16 /\ Padded(c.len) = wav_format
    BY <1>2, <2>1, <2>2, ChunkAt, PaddedBounds
  <2>4. CASE ReadChunk(c, 40)
    BY <2>1, <2>2, <2>3, <2>4 DEF Follows
  <2>5. CASE ~ReadChunk(c, 40)
    <3>1. Min(c.len, 40) = wav_format
      BY <2>1, <2>3 DEF Min
    <3>2. size < 20 + wav_format
      <4>1. wav_format - wav_format = 0 /\ ~(0 > 0)
        BY <2>1
      <4> QED
        BY <2>1, <2>3, <2>5, <3>1, <4>1 DEF ReadChunk, CanSeek, Writes, TypeOK
    <3>3. Ready(8 + wav_format) /\ ~Present(8 + wav_format)
      BY <2>1, <2>2, <2>3, <3>2 DEF SeekReady, Ready, Present, Writes, TypeOK
    <3>4. pos + (8 + wav_format) <= Start /\ 8 + wav_format \in Nat
      BY <2>1 DEF Start
    <3>5. lost
      BY <1>2, <3>3, <3>4, Lacks
    <3> QED
      BY <2>1, <2>2, <2>5, <3>5 DEF Follows
  <2> QED
    BY <2>4, <2>5
<1> QED
  BY <1>1, <1>2, OpusencReads

LEMMA WholeSamples ==
  ASSUME Watched
  PROVE  \E k \in Nat : audio_size = k * Frame
BY DEF Watched, Writes, Counted

LEMMA Quotient ==
  ASSUME NEW k \in Nat, NEW n, n = k * Frame
  PROVE  (n \div Frame) * Frame = n
<1>1. n \div Frame = k
  OBVIOUS
<1> QED
  BY <1>1

LEMMA FindDataReads == Writes /\ Reads /\ FindData => Reads'
<1> SUFFICES ASSUME Writes, Reads, FindData PROVE Reads'
  OBVIOUS
<1>1. /\ rpc = "data" /\ Early /\ UNCHANGED <<header, options, stdio, writer>>
      /\ pos' = pos + 8 /\ samplesread' = 0 /\ rpc' = "read" /\ Present(8)
  BY DEF FindData
<1>2. ASSUME Watched PROVE Follows'
  <2>1. /\ pos = 20 + wav_format /\ wav_format \in {16, 40} /\ wav_format' = wav_format
        /\ size' = size /\ audio_size' = audio_size /\ wpc' = wpc /\ audio_size \in Nat
    BY <1>1, <1>2 DEF Watched, Follows, Writes, TypeOK, writer, stdio
  <2>2. PICK c \in chunks :
          /\ c.at = 20 + wav_format
          /\ totalsamples' = IF ~ignorelength /\ Trusted(c.len) THEN c.len \div Frame ELSE 0
    BY <2>1 DEF FindData
  <2>3. c.len = Unknown \/ (c.len = audio_size /\ wpc = "closed")
    BY <1>2, <2>1, <2>2, ChunkAt
  <2>4. totalsamples' = 0 \/ (wpc = "closed" /\ totalsamples' * Frame = audio_size)
    <3>1. ~Trusted(Unknown)
      BY DEF Trusted
    <3>2. (audio_size \div Frame) * Frame = audio_size
      BY <1>2, WholeSamples, Quotient
    <3> QED
      BY <2>2, <2>3, <3>1, <3>2
  <2>5. samplesread' * Frame = 0
    BY <1>1
  <2> QED
    BY <1>1, <2>1, <2>4, <2>5 DEF Follows, Start
<1> QED
  BY <1>1, <1>2, OpusencReads

LEMMA ReadCommonReads == Writes /\ Reads /\ ReadCommon => Reads'
<1> SUFFICES ASSUME Writes, Reads, ReadCommon PROVE Reads'
  OBVIOUS
<1>1. rpc = "COMM" /\ Early /\ UNCHANGED <<header, options, stdio, writer>>
  BY DEF ReadCommon
<1> QED
  BY <1>1, OpusencReads DEF Watched, Follows

LEMMA FindSoundReads == Writes /\ Reads /\ FindSound => Reads'
<1> SUFFICES ASSUME Writes, Reads, FindSound PROVE Reads'
  OBVIOUS
<1>1. rpc = "SSND" /\ Early /\ UNCHANGED <<header, options, stdio, writer>>
  BY DEF FindSound
<1> QED
  BY <1>1, OpusencReads DEF Watched, Follows

LEMMA Cancel ==
  ASSUME NEW a \in Nat, NEW b \in Nat, a * Frame < b * Frame
  PROVE  a < b
<1> SUFFICES ASSUME b <= a PROVE FALSE
  OBVIOUS
<1>1. PICK d \in Nat : a = b + d
  <2>1. a - b \in Nat /\ a = b + (a - b)
    OBVIOUS
  <2> QED
    BY <2>1
<1>2. a * Frame = b * Frame + d * Frame /\ d * Frame \in Nat /\ b * Frame \in Nat
  BY <1>1
<1> QED
  BY <1>2

LEMMA Floor ==
  ASSUME NEW n \in Nat
  PROVE  n \div Frame \in Nat /\ (n \div Frame) * Frame <= n
         /\ n < (n \div Frame) * Frame + Frame
OBVIOUS

LEMMA AvailableBounds ==
  ASSUME TypeOK
  PROVE  /\ Available > 0 => pos + Available * Frame <= size
         /\ size < pos + Available * Frame + Frame
<1>1. pos \in Nat /\ size \in Nat
  BY DEF TypeOK
<1>2. CASE size > pos
  <2>1. PICK n \in Nat : n = size - pos
    BY <1>1, <1>2
  <2>2. Available = n \div Frame
    BY <1>2, <2>1 DEF Available
  <2>3. Available * Frame <= n /\ n < Available * Frame + Frame
    BY <2>2, Floor
  <2>4. Available * Frame \in Nat
    BY <2>2, Floor
  <2> QED
    BY <1>1, <2>1, <2>3, <2>4
<1>3. CASE ~(size > pos)
  <2>1. Available = 0 /\ Available * Frame = 0
    BY <1>3 DEF Available
  <2> QED
    BY <1>1, <1>3, <2>1
<1> QED
  BY <1>2, <1>3

\* After s samples from start a read of g more: no more than the k samples and an
\* incomplete one that are there, and all of them if what is left is less than a sample.
LEMMA NotMore ==
  ASSUME NEW start \in Nat, NEW s \in Nat, NEW g \in Nat, NEW k \in Nat, NEW n \in Nat,
         start + s * Frame + g * Frame <= n, n <= start + k * Frame + Frame - 1
  PROVE  s + g <= k /\ (s + g) * Frame <= k * Frame
<1>1. PICK x \in Nat, y \in Nat, z \in Nat : x = s * Frame /\ y = g * Frame /\ z = k * Frame
  OBVIOUS
<1>2. (s + g) * Frame = x + y /\ (k + 1) * Frame = z + Frame
  BY <1>1
<1>3. x + y < z + Frame
  BY <1>1
<1>4. s + g < k + 1
  BY <1>2, <1>3, Cancel
<1>5. PICK d \in Nat : k = s + g + d
  <2>1. k - (s + g) \in Nat /\ k = s + g + (k - (s + g))
    BY <1>4
  <2> QED
    BY <2>1
<1>6. k * Frame = (s + g) * Frame + d * Frame /\ d * Frame \in Nat /\ (s + g) * Frame \in Nat
  BY <1>5
<1> QED
  BY <1>4, <1>6

LEMMA NotLess ==
  ASSUME NEW start \in Nat, NEW s \in Nat, NEW g \in Nat, NEW k \in Nat, NEW n \in Nat,
         n >= start + k * Frame, n < start + s * Frame + g * Frame + Frame
  PROVE  k <= s + g
<1>1. PICK x \in Nat, y \in Nat, z \in Nat : x = s * Frame /\ y = g * Frame /\ z = k * Frame
  OBVIOUS
<1>2. (s + g + 1) * Frame = x + y + Frame
  BY <1>1
<1>3. z < x + y + Frame
  BY <1>1
<1>4. k < s + g + 1
  BY <1>1, <1>2, <1>3, Cancel
<1> QED
  BY <1>4

LEMMA ReadSamplesReads == Writes /\ Reads /\ ReadSamples => Reads'
<1> SUFFICES ASSUME Writes, Reads, ReadSamples PROVE Reads'
  OBVIOUS
<1> DEFINE got == Min(Wanted, Available)
<1>1. rpc = "read" /\ Ready(Wanted * Frame) /\ Early /\ UNCHANGED <<header, options, stdio, writer>>
  BY Reading
<1>2. ASSUME Watched PROVE Follows'
  <2>1. /\ samplesread' = samplesread + got
        /\ pos' = IF got = Wanted THEN pos + got * Frame ELSE IF size > pos THEN size ELSE pos
        /\ rpc' = IF got < FrameSize THEN "done" ELSE "read"
        /\ totalsamples' = totalsamples
    BY Reading
  <2>2. /\ size' = size /\ audio_size' = audio_size /\ wpc' = wpc /\ wav_format' = wav_format
        /\ lost' = lost
    BY <1>1 DEF writer, stdio
  <2>3. /\ Available \in Nat /\ Wanted \in Nat /\ Wanted <= FrameSize /\ got \in Nat
        /\ got <= Wanted /\ got <= Available /\ got \in {Wanted, Available}
        /\ totalsamples = 0 => Wanted = FrameSize
        /\ Wanted # FrameSize => samplesread + Wanted = totalsamples
    BY <1>1, Brought DEF Writes
  <2> HIDE DEF got
  <2>4. /\ Available > 0 => pos + Available * Frame <= size
        /\ size < pos + Available * Frame + Frame
    BY AvailableBounds DEF Writes
  <2>5. /\ samplesread * Frame <= audio_size
        /\ totalsamples = 0 \/ (wpc = "closed" /\ totalsamples * Frame = audio_size)
        /\ pos = Start + samplesread * Frame
    BY <1>1, <1>2 DEF Watched, Follows
  <2>6. PICK k \in Nat : audio_size = k * Frame
    BY <1>2, WholeSamples
  <2>7. /\ samplesread \in Nat /\ Start \in Nat /\ size \in Nat /\ pos \in Nat /\ buffered \in Nat
        /\ totalsamples \in Nat
    BY DEF Writes, TypeOK, Start
  <2>8. size <= Start + k * Frame + Frame - 1
    <3>1. size + buffered <= Start + audio_size + Frame - 1
      BY <1>2 DEF Watched, Writes, Counted
    <3>2. PICK z \in Nat : z = k * Frame
      OBVIOUS
    <3> QED
      BY <2>6, <2>7, <3>1, <3>2
  <2>9. got > 0 => pos + got * Frame <= size
    <3> SUFFICES ASSUME got > 0 PROVE pos + got * Frame <= size
      OBVIOUS
    <3>1. PICK d \in Nat : Available = got + d
      <4>1. Available - got \in Nat /\ Available = got + (Available - got)
        BY <2>3
      <4> QED
        BY <4>1
    <3>2. Available * Frame = got * Frame + d * Frame /\ got * Frame \in Nat /\ d * Frame \in Nat
      BY <2>3, <3>1
    <3>3. Available > 0
      BY <2>3, <3>1
    <3> QED
      BY <2>4, <2>7, <3>2, <3>3
  <2>10. samplesread' * Frame <= audio_size
    <3>1. CASE got = 0
      BY <2>1, <2>5, <2>7, <3>1
    <3>2. CASE got > 0
      <4>1. Start + samplesread * Frame + got * Frame <= size
        BY <2>5, <2>9, <3>2
      <4>2. (samplesread + got) * Frame <= k * Frame
        BY <2>3, <2>7, <2>8, <4>1, NotMore
      <4> QED
        BY <2>1, <2>6, <4>2
    <3> QED
      BY <2>3, <3>1, <3>2
  <2>11. rpc' = "read" => pos' = Start + samplesread' * Frame /\ pos' <= size
    <3> SUFFICES ASSUME rpc' = "read"
                 PROVE  pos' = Start + samplesread' * Frame /\ pos' <= size
      OBVIOUS
    <3>1. got = Wanted /\ got > 0
      BY <2>1, <2>3
    <3>2. pos' = pos + got * Frame
      BY <2>1, <3>1
    <3>3. (samplesread + got) * Frame = samplesread * Frame + got * Frame
      BY <2>3, <2>7
    <3>4. PICK x \in Nat, y \in Nat : x = samplesread * Frame /\ y = got * Frame
      BY <2>3, <2>7
    <3> QED
      BY <2>1, <2>5, <2>7, <2>9, <3>1, <3>2, <3>3, <3>4
  <2>12. got < Wanted => wpc = "closed"
    <3> SUFFICES ASSUME got < Wanted, wpc # "closed" PROVE FALSE
      OBVIOUS
    <3>1. size >= pos + Wanted * Frame
      BY <1>1, <1>2 DEF Watched, Ready
    <3>2. got = Available
      BY <2>3
    <3>3. PICK x \in Nat, y \in Nat : x = Available * Frame /\ y = Wanted * Frame
      BY <2>3
    <3>4. (Available + 1) * Frame = x + Frame
      BY <2>3, <3>3
    <3>5. y < x + Frame
      BY <2>4, <2>7, <3>1, <3>3
    <3>6. Wanted < Available + 1
      BY <2>3, <3>3, <3>4, <3>5, Cancel
    <3> QED
      BY <2>3, <3>2, <3>6
  <2>13. rpc' = "done" => wpc = "closed"
    <3>1. CASE got < Wanted
      BY <2>12, <3>1
    <3>2. CASE got = Wanted
      BY <2>1, <2>3, <2>5, <3>2
    <3> QED
      BY <2>3, <3>1, <3>2
  <2>14. rpc' = "done" /\ ~lost => samplesread' * Frame = audio_size
    <3> SUFFICES ASSUME rpc' = "done", ~lost PROVE samplesread' * Frame = audio_size
      OBVIOUS
    <3>1. CASE got = Wanted
      <4>1. Wanted # FrameSize
        BY <2>1, <2>3, <3>1
      <4>2. samplesread' = totalsamples /\ totalsamples # 0
        BY <2>1, <2>3, <3>1, <4>1
      <4> QED
        BY <2>5, <4>2
    <3>2. CASE got < Wanted
      <4>1. got = Available
        BY <2>3, <3>2
      <4>2. size >= Start + k * Frame
        <5>1. size + buffered >= Start + audio_size /\ buffered = 0
          BY <1>2, <2>13 DEF Watched, Writes, Counted
        <5> QED
          BY <2>6, <2>7, <5>1
      <4>3. size < Start + samplesread * Frame + got * Frame + Frame
        BY <2>4, <2>5, <4>1
      <4>4. k <= samplesread + got
        BY <2>3, <2>7, <4>2, <4>3, NotLess
      <4>5. PICK d \in Nat : samplesread + got = k + d
        <5>1. (samplesread + got) - k \in Nat
              /\ samplesread + got = k + ((samplesread + got) - k)
          BY <2>3, <2>7, <4>4
        <5> QED
          BY <5>1
      <4>6. (k + d) * Frame = k * Frame + d * Frame /\ k * Frame \in Nat /\ d * Frame \in Nat
        OBVIOUS
      <4>7. samplesread' * Frame >= audio_size
        BY <2>1, <2>6, <4>5, <4>6
      <4>8. samplesread' * Frame \in Nat /\ audio_size \in Nat
        BY <2>1, <2>6, <4>5, <4>6
      <4> QED
        BY <2>10, <4>7, <4>8
    <3> QED
      BY <2>3, <3>1, <3>2
  <2>15. Start' = Start /\ rpc' \in {"read", "done"}
    BY <2>1, <2>2 DEF Start
  <2> QED
    BY <2>1, <2>2, <2>5, <2>10, <2>11, <2>13, <2>14, <2>15 DEF Follows
<1> QED
  BY <1>1, <1>2, OpusencReads

LEMMA StutterReads == Reads /\ UNCHANGED vars => Reads'
BY DEF Reads, Proper, Patient, Ours, Follows, Start, vars, header, options, stdio, writer, reader

LEMMA NextReads == Writes /\ Reads /\ [Next]_vars => (Writes /\ Reads)'
<1> SUFFICES ASSUME Writes, Reads, [Next]_vars PROVE (Writes /\ Reads)'
  OBVIOUS
<1>1. Writes'
  BY NextWrites
<1>2. Reads'
  BY <1>1, StutterReads, OpusdecReads, OpenRawReads, IdentifyReads, SkipChunkReads, NoChunkReads,
     ReadFormatReads, FindDataReads, ReadCommonReads, FindSoundReads, ReadSamplesReads
     DEF Next, Opusenc
<1> QED
  BY <1>1, <1>2

\* Through a file or a pipe, with a header or without, whether or not the lengths fitted or
\* could be updated, and wherever opusdec stopped: opusenc reads no more than was counted,
\* and every sample of it if no byte was lost, whatever the size of a sample, of a read
\* and of the length fields.
THEOREM EverySample == Spec => []RoundTrip
<1>1. Init => Writes /\ Reads
  BY InitWrites, InitReads
<1>2. Writes /\ Reads => RoundTrip
  <2> SUFFICES ASSUME Writes, Reads, Settled, wav_format # NoFormat \/ form = "raw",
                      rawmode <=> form = "raw"
               PROVE  /\ samplesread * Frame <= audio_size
                      /\ ~lost => rpc = "done" /\ samplesread * Frame = audio_size
    BY DEF RoundTrip
  <2>1. Follows /\ rpc \in {"done", "refused"}
    BY DEF Reads, Settled, Proper, Ours
  <2>2. CASE rpc = "done"
    BY <2>1, <2>2 DEF Follows
  <2>3. CASE rpc = "refused"
    <3>1. lost
      BY <2>1, <2>3 DEF Follows
    <3>2. samplesread = 0 /\ audio_size \in Nat /\ samplesread * Frame = 0
      BY <2>3 DEF Writes, Limited, TypeOK
    <3> QED
      BY <3>1, <3>2
  <2> QED
    BY <2>1, <2>2, <2>3
<1> QED
  BY <1>1, <1>2, NextReads, PTL DEF Spec

-----------------------------------------------------------------------------
(* What opusenc finds in any file, also of another program.                *)

\* Where the file comes from.
Origin ==
  \/ form = "raw" /\ chunks = {} /\ wpc # "header"
  \/ form = "WAVE" /\ chunks = {} /\ wpc = "header" /\ size = 0
  \/ /\ form = "WAVE" /\ wpc # "header"
     /\ \E format \in {16, 40}, length \in 0 .. Unknown :
          /\ chunks = HeaderOf(format, length)
          /\ length # Unknown => wpc = "closed"
  \/ wpc = "closed" /\ \E o \in Others : form = o.form /\ chunks = o.chunks /\ size = o.size

FormatType == IF form = "WAVE" THEN "fmt" ELSE "COMM"
SoundType  == IF form = "WAVE" THEN "data" ELSE "SSND"

\* f is the format or common chunk that counts, and c the data or sound chunk that counts
\* when f does.
FirstFormat(f) ==
  /\ f.type = FormatType /\ size >= f.at + 8
  /\ \A g \in chunks : g.type = FormatType => g.at >= f.at

GoodFormat(f) ==
  /\ f.ok /\ f.len >= (IF form = "WAVE" THEN 16 ELSE 18)
  /\ form = "AIFF" => size >= f.at + 8 + Min(f.len, 22)

FirstSound(f, c) ==
  /\ c.type = SoundType /\ size >= c.at + 8
  /\ \/ c.at > f.at /\ \A d \in chunks : d.type = SoundType /\ d.at > f.at => d.at >= c.at
     \/ /\ form = "AIFF" /\ ~pipe
        /\ \A d \in chunks : d.type = SoundType /\ size >= d.at + 8 => d.at >= c.at /\ d.at <= f.at

GoodSound(c) == form = "AIFF" => c.ok /\ c.len >= 8 /\ size >= c.at + 16

\* Nothing that counts has been passed in the search for the sound.
SoundsAhead(f) ==
  \/ /\ pos > f.at /\ (form = "AIFF" => ~restarted)
     /\ \A d \in chunks : d.type = SoundType /\ d.at > f.at => d.at >= pos
  \/ /\ form = "AIFF" /\ ~pipe /\ restarted
     /\ \A d \in chunks : d.type = SoundType /\ size >= d.at + 8 => d.at >= pos /\ d.at <= f.at

OnHeader == pos = 12 \/ \E c \in chunks : Reliable(form, chunks, c) /\ pos = End(c)

Heading(f) ==
  FirstFormat(f) /\ GoodFormat(f) /\ SoundsAhead(f) /\ (form = "AIFF" => totalsamples = f.says)

Seeks ==
  Searching =>
    /\ form # "raw" /\ ~rawmode /\ wpc # "header" /\ OnHeader /\ rpc \in {FormatType, SoundType}
    /\ rpc = FormatType => \A c \in chunks : c.type = FormatType => c.at >= pos
    /\ rpc = SoundType => \E f \in chunks : Heading(f)

\* How many samples there are from byte `start` on, and how many opusenc should read.
Stock(start)  == IF size > start THEN (size - start) \div Frame ELSE 0
Sought(start) == IF totalsamples > 0 THEN Min(totalsamples, Stock(start)) ELSE Stock(start)

\* How far opusenc is in the audio that begins at byte `start`.
Placed(start) ==
  /\ pos >= start \/ (wpc = "closed" /\ pos >= size)
  /\ totalsamples > 0 => /\ pos <= start + totalsamples * Frame
                         /\ ~early => wpc = "closed"
  /\ rpc = "read" =>
       \/ pos = start + samplesread * Frame /\ (samplesread = 0 \/ pos <= size)
       \/ wpc = "closed" /\ pos = size /\ size < start /\ samplesread = 0
  /\ rpc = "done" /\ ~early => wpc = "closed" /\ samplesread = Sought(start)

SoundStart(c) == c.at + (IF form = "WAVE" THEN 8 ELSE 16 + c.says)
LimitKnown(f, c) ==
  IF form = "WAVE"
  THEN /\ totalsamples = IF ~ignorelength /\ Trusted(len) THEN len \div Frame ELSE 0
       /\ ~early => c.len = len
  ELSE totalsamples = f.says

Found(f, c) ==
  /\ FirstFormat(f) /\ GoodFormat(f) /\ FirstSound(f, c) /\ GoodSound(c)
  /\ LimitKnown(f, c) /\ Placed(SoundStart(c))

Hears ==
  rpc \in {"read", "done"} =>
    IF rawmode THEN totalsamples = 0 /\ Placed(0)
    ELSE form # "raw" /\ wpc # "header" /\ \E f, c \in chunks : Found(f, c)

Gives == rpc = "refused" /\ ~early => ~rawmode /\ (form = "raw" \/ (wpc = "closed" /\ ~Opens))

Waits ==
  ~early /\ ~pipe /\ rpc # "id" =>
    wpc = "closed" \/ (rawmode /\ rpc = "read" /\ samplesread = 0) \/ (form = "raw" /\ rpc = "refused")

Finds == Origin /\ Seeks /\ Hears /\ Gives /\ Waits

-----------------------------------------------------------------------------
LEMMA InitOrigin == Init => Origin
<1> SUFFICES ASSUME Init PROVE Origin
  OBVIOUS
<1>1. \/ form = "WAVE" /\ chunks = {} /\ size = 0 /\ wpc = "header"
      \/ form = "raw" /\ chunks = {} /\ size = 0 /\ wpc = "audio"
      \/ \E o \in Others : form = o.form /\ chunks = o.chunks /\ size = o.size /\ wpc = "closed"
  BY DEF Init
<1> QED
  BY <1>1 DEF Origin

\* At most the length in the header of opusdec's file is renewed.
Renewed ==
  /\ form = "WAVE"
  /\ \E format \in {16, 40}, l \in 0 .. Unknown, m \in 0 .. Unknown :
       /\ chunks = HeaderOf(format, l) /\ chunks' = HeaderOf(format, m)
       /\ m = l \/ ~pipe
       /\ m # Unknown => wpc' = "closed"

LEMMA OpusdecOrigin ==
  ASSUME Writes, Origin, Opusdec
  PROVE  /\ Origin'
         /\ form = "raw" => chunks = {} /\ chunks' = {}
         /\ wpc # "header" /\ form # "raw" => Renewed
<1>1. form' = form /\ wpc # "closed" /\ wpc' # "header"
  BY WriterSteps DEF options
<1>2. CASE wpc = "header"
  <2>1. form = "WAVE" /\ (WriteHeader \/ HeaderFails)
    BY <1>2 DEF Writes, Heads, Opusdec, WriteAudio, AudioFails, EndOfStream, CloseRaw, UpdateRiff,
                UpdateData, Kill
  <2>2. PICK format \in {16, 40} : chunks' = HeaderOf(format, Unknown)
    BY <2>1 DEF WriteHeader, HeaderFails, WavHeader, HeaderOf
  <2>3. Unknown \in 0 .. Unknown
    OBVIOUS
  <2> QED
    BY <1>1, <1>2, <2>1, <2>2, <2>3 DEF Origin
<1>3. CASE wpc # "header" /\ form = "raw"
  <2>1. chunks = {} /\ wav_format = NoFormat /\ wpc # "data"
    BY <1>3 DEF Writes, Heads
  <2>2. chunks' = chunks
    BY <1>3, <2>1 DEF header, Opusdec, WriteHeader, HeaderFails, WriteAudio, AudioFails, EndOfStream,
                      CloseRaw, UpdateRiff, UpdateData, Kill
  <2> QED
    BY <1>1, <1>3, <2>1, <2>2 DEF Origin
<1>4. CASE wpc # "header" /\ form # "raw"
  <2>1. PICK format \in {16, 40} : form = "WAVE" /\ chunks = HeaderOf(format, Unknown)
    BY <1>1, <1>4 DEF Origin
  <2>2. Unknown \in 0 .. Unknown
    OBVIOUS
  <2>3. CASE chunks' = chunks
    <3>1. Renewed
      BY <2>1, <2>2, <2>3 DEF Renewed
    <3> QED
      BY <1>1, <1>4, <2>1, <2>2, <2>3, <3>1 DEF Origin
  <2>4. CASE chunks' # chunks
    <3>1. UpdateData
      BY <1>4, <2>4 DEF header, Opusdec, WriteHeader, HeaderFails, WriteAudio, AudioFails,
                        EndOfStream, CloseRaw, UpdateRiff, Kill
    <3>2. /\ DataFits /\ ~pipe /\ wpc = "data" /\ wpc' = "closed"
          /\ chunks' = {IF c.at + 4 = 24 + wav_format THEN [c EXCEPT !.len = Field(audio_size)] ELSE c
                          : c \in chunks}
      BY <2>4, <3>1 DEF UpdateData
    <3>3. chunks = HeaderOf(wav_format, Unknown) /\ wav_format \in {16, 40}
      BY <3>2, NotKnown DEF Writes, Heads, TypeOK, Header
    <3>4. Field(audio_size) \in 0 .. Unknown
      BY <3>2, FieldOf DEF DataFits, Writes, TypeOK
    <3>5. chunks' = HeaderOf(wav_format, Field(audio_size))
      BY <3>2, <3>3, <3>4, LengthPut
    <3>6. Renewed
      BY <2>1, <2>2, <3>2, <3>3, <3>4, <3>5 DEF Renewed
    <3>7. PICK length \in 0 .. Unknown : chunks' = HeaderOf(wav_format, length)
      BY <3>4, <3>5
    <3>8. form' = "WAVE" /\ wpc' = "closed"
      BY <1>1, <2>1, <3>2
    <3>9. Origin'
      BY <3>3, <3>7, <3>8 DEF Origin
    <3> QED
      BY <1>4, <3>6, <3>9
  <2> QED
    BY <2>3, <2>4
<1> QED
  BY <1>2, <1>3, <1>4

LEMMA OriginKept ==
  ASSUME Origin, UNCHANGED <<header, options, stdio, writer>>
  PROVE  Origin'
BY DEF Origin, header, options, stdio, writer

\* In every file that is not raw, chunk follows chunk.
LEMMA HeaderLaidOut ==
  ASSUME NEW format \in {16, 40}, NEW length \in 0 .. Unknown, NEW n \in Nat
  PROVE  LaidOut("WAVE", HeaderOf(format, length), n)
<1> DEFINE f == Chunk("fmt", 12, format, TRUE)
           d == Chunk("data", 20 + format, length, TRUE)
<1>1. /\ f.type = "fmt" /\ f.at = 12 /\ f.len = format
      /\ d.type = "data" /\ d.at = 20 + format
  BY DEF Chunk
<1>2. HeaderOf(format, length) = {f, d}
  BY DEF HeaderOf
<1> HIDE DEF f, d
<1>3. Padded(format) = format
  BY PaddedBounds
<1>4. End(f) = d.at /\ d.at > f.at
  BY <1>1, <1>3 DEF End
<1>5. ~Reliable("WAVE", {f, d}, d)
  BY <1>1, <1>4 DEF Reliable
<1>6. \A c \in {f, d} : c.at >= 12 /\ \A b \in {f, d} : c.at = b.at => c = b
  BY <1>1, <1>4
<1>7. \A b \in {f, d} : b.at > f.at => b.at >= End(f)
  BY <1>1, <1>4
<1>8. LaidOut("WAVE", {f, d}, n)
  BY <1>1, <1>4, <1>5, <1>6, <1>7 DEF LaidOut
<1> QED
  BY <1>2, <1>8

LEMMA Laid ==
  ASSUME Writes, Origin, form # "raw"
  PROVE  LaidOut(form, chunks, size)
<1>1. CASE chunks = {} /\ size = 0
  BY <1>1 DEF LaidOut
<1>2. CASE form = "WAVE" /\ \E format \in {16, 40}, length \in 0 .. Unknown :
                               chunks = HeaderOf(format, length)
  BY <1>2, HeaderLaidOut DEF Writes, TypeOK
<1>3. CASE \E o \in Others : form = o.form /\ chunks = o.chunks /\ size = o.size
  BY <1>3, LayoutAssumption
<1> QED
  BY <1>1, <1>2, <1>3 DEF Origin

\* Only a file that is closed tells its length.
LEMMA LengthTold ==
  ASSUME Origin, NEW c \in chunks, c.type = "data", c.len # Unknown
  PROVE  wpc = "closed"
<1> SUFFICES ASSUME NEW format \in {16, 40}, NEW length \in 0 .. Unknown,
                    chunks = HeaderOf(format, length), length # Unknown => wpc = "closed"
             PROVE  wpc = "closed"
  BY DEF Origin
<1>1. c = Chunk("fmt", 12, format, TRUE) \/ c = Chunk("data", 20 + format, length, TRUE)
  BY DEF HeaderOf
<1>2. c.len = length
  BY <1>1 DEF Chunk
<1> QED
  BY <1>2

-----------------------------------------------------------------------------
(* What opusdec does does not mislead opusenc.                             *)

\* One format chunk, and the audio's before and after its length is updated.
Headed(format, l, m, f, d, e) ==
  /\ HeaderOf(format, l) = {f, d} /\ HeaderOf(format, m) = {f, e}
  /\ f.type = "fmt" /\ f.at = 12 /\ f.len = format /\ f.ok
  /\ d.type = "data" /\ d.at = 20 + format /\ d.len = l
  /\ e.type = "data" /\ e.at = 20 + format /\ e.len = m

LEMMA HeaderHas ==
  ASSUME NEW format \in {16, 40}, NEW l \in 0 .. Unknown, NEW m \in 0 .. Unknown
  PROVE  \E f, d, e : Headed(format, l, m, f, d, e)
<1> DEFINE f == Chunk("fmt", 12, format, TRUE)
           d == Chunk("data", 20 + format, l, TRUE)
           e == Chunk("data", 20 + format, m, TRUE)
<1>1. /\ f.type = "fmt" /\ f.at = 12 /\ f.len = format /\ f.ok
      /\ d.type = "data" /\ d.at = 20 + format /\ d.len = l
      /\ e.type = "data" /\ e.at = 20 + format /\ e.len = m
  BY DEF Chunk
<1>2. HeaderOf(format, l) = {f, d} /\ HeaderOf(format, m) = {f, e}
  BY DEF HeaderOf
<1> HIDE DEF f, d, e
<1> QED
  BY <1>1, <1>2 DEF Headed

LEMMA PlacedKept ==
  ASSUME Writes, Writes', NEW start \in Nat, Placed(start), wpc # "closed", size' >= size,
         UNCHANGED reader
  PROVE  Placed(start)'
<1>1. /\ rpc' = rpc /\ pos' = pos /\ totalsamples' = totalsamples /\ samplesread' = samplesread
      /\ early' = early
  BY DEF reader
<1>2. pos \in Nat /\ size \in Nat /\ size' \in Nat
  BY DEF Writes, TypeOK
<1>3. pos' >= start
  BY <1>1 DEF Placed
<1>4. totalsamples' > 0 => pos' <= start + totalsamples' * Frame /\ early'
  BY <1>1 DEF Placed
<1>5. rpc' = "read" => pos' = start + samplesread' * Frame /\ (samplesread' = 0 \/ pos' <= size')
  BY <1>1, <1>2 DEF Placed
<1>6. rpc' = "done" => early'
  BY <1>1 DEF Placed
<1> QED
  BY <1>3, <1>4, <1>5, <1>6 DEF Placed

LEMMA OpusdecSeeks ==
  ASSUME Writes, Writes', Finds, Opusdec
  PROVE  Seeks'
<1>1. /\ UNCHANGED <<options, reader>> /\ wpc # "closed" /\ wpc' # "header"
      /\ wpc # "header" => size' >= size
  BY WriterSteps
<1>2. /\ rpc' = rpc /\ pos' = pos /\ form' = form /\ pipe' = pipe /\ rawmode' = rawmode
      /\ restarted' = restarted
  BY <1>1 DEF options, reader
<1> SUFFICES ASSUME Searching
             PROVE  /\ form # "raw" /\ ~rawmode /\ OnHeader' /\ rpc \in {FormatType, SoundType}
                    /\ rpc = FormatType => \A c \in chunks' : c.type = FormatType => c.at >= pos
                    /\ rpc = SoundType => \E f \in chunks' : Heading(f)'
  BY <1>1, <1>2 DEF Seeks, Searching, FormatType, SoundType
<1>3. /\ form # "raw" /\ ~rawmode /\ wpc # "header" /\ OnHeader /\ rpc \in {FormatType, SoundType}
      /\ rpc = FormatType => \A c \in chunks : c.type = FormatType => c.at >= pos
      /\ rpc = SoundType => \E f \in chunks : Heading(f)
  BY DEF Finds, Seeks
<1>4. Renewed
  BY <1>3, OpusdecOrigin DEF Finds
<1>5. PICK format \in {16, 40}, l \in 0 .. Unknown, m \in 0 .. Unknown :
        chunks = HeaderOf(format, l) /\ chunks' = HeaderOf(format, m)
  BY <1>4 DEF Renewed
<1>6. PICK f, d, e : Headed(format, l, m, f, d, e)
  BY HeaderHas
<1>7. /\ chunks = {f, d} /\ chunks' = {f, e}
      /\ f.type = "fmt" /\ f.at = 12 /\ f.len = format /\ f.ok
      /\ d.type = "data" /\ d.at = 20 + format /\ e.type = "data" /\ e.at = 20 + format
  BY <1>5, <1>6 DEF Headed
<1>8. FormatType = "fmt" /\ SoundType = "data" /\ form = "WAVE"
  BY <1>4 DEF Renewed, FormatType, SoundType
<1>9. OnHeader'
  <2>1. ~Reliable(form, chunks, d)
    BY <1>7, <1>8 DEF Reliable
  <2>2. Reliable(form, chunks, f)'
    BY <1>7 DEF Reliable
  <2> QED
    BY <1>2, <1>3, <1>7, <2>1, <2>2 DEF OnHeader
<1>10. rpc = "fmt" => \A c \in chunks' : c.type = "fmt" => c.at >= pos
  BY <1>3, <1>7, <1>8
<1>11. ASSUME rpc = "data" PROVE Heading(f)'
  <2>1. Heading(f)
    <3>1. PICK g \in chunks : Heading(g)
      BY <1>3, <1>8, <1>11
    <3>2. g = f
      BY <1>7, <1>8, <3>1 DEF Heading, FirstFormat
    <3> QED
      BY <3>1, <3>2
  <2>2. size \in Nat /\ size' \in Nat /\ size' >= size /\ size >= f.at + 8
    BY <1>1, <1>3, <2>1 DEF Heading, FirstFormat, Writes, TypeOK
  <2>3. FirstFormat(f)' /\ GoodFormat(f)'
    BY <1>2, <1>7, <1>8, <2>1, <2>2 DEF FirstFormat, GoodFormat, FormatType
  <2>4. pos > f.at /\ d.at >= pos
    BY <1>7, <1>8, <2>1 DEF Heading, SoundsAhead
  <2>5. SoundsAhead(f)'
    BY <1>2, <1>7, <1>8, <2>4 DEF SoundsAhead, SoundType
  <2> QED
    BY <1>2, <1>8, <2>3, <2>5 DEF Heading
<1> QED
  BY <1>3, <1>7, <1>8, <1>9, <1>10, <1>11

LEMMA OpusdecHears ==
  ASSUME Writes, Writes', Finds, Opusdec
  PROVE  Hears'
<1>1. /\ UNCHANGED <<options, reader>> /\ wpc # "closed" /\ wpc' # "header"
      /\ wpc # "header" => size' >= size
  BY WriterSteps
<1>2. /\ rpc' = rpc /\ form' = form /\ pipe' = pipe /\ rawmode' = rawmode /\ len' = len
      /\ early' = early /\ totalsamples' = totalsamples /\ ignorelength' = ignorelength
  BY <1>1 DEF options, reader
<1>3. size' >= size
  BY <1>1 DEF Writes, Heads, TypeOK
<1> SUFFICES ASSUME rpc \in {"read", "done"}
             PROVE  IF rawmode THEN totalsamples = 0 /\ Placed(0)'
                    ELSE form # "raw" /\ \E f, c \in chunks' : Found(f, c)'
  BY <1>1, <1>2 DEF Hears
<1>4. CASE rawmode
  BY <1>1, <1>3, <1>4, PlacedKept DEF Finds, Hears
<1>5. CASE ~rawmode
  <2>1. form # "raw" /\ wpc # "header" /\ \E f, c \in chunks : Found(f, c)
    BY <1>5 DEF Finds, Hears
  <2>2. Renewed
    BY <2>1, OpusdecOrigin DEF Finds
  <2>3. PICK format \in {16, 40}, l \in 0 .. Unknown, m \in 0 .. Unknown :
          chunks = HeaderOf(format, l) /\ chunks' = HeaderOf(format, m) /\ (m = l \/ ~pipe)
    BY <2>2 DEF Renewed
  <2>4. PICK f, d, e : Headed(format, l, m, f, d, e)
    BY HeaderHas
  <2>5. /\ chunks = {f, d} /\ chunks' = {f, e}
        /\ f.type = "fmt" /\ f.at = 12 /\ f.len = format /\ f.ok
        /\ d.type = "data" /\ d.at = 20 + format /\ d.len = l
        /\ e.type = "data" /\ e.at = 20 + format /\ e.len = m
    BY <2>3, <2>4 DEF Headed
  <2>6. form = "WAVE" /\ FormatType = "fmt" /\ SoundType = "data"
    BY <2>2 DEF Renewed, FormatType, SoundType
  <2>7. Found(f, d)
    <3>1. PICK g, c \in chunks : Found(g, c)
      BY <2>1
    <3>2. g = f /\ c = d
      BY <2>5, <2>6, <3>1 DEF Found, FirstFormat, FirstSound
    <3> QED
      BY <3>1, <3>2
  <2>8. size \in Nat /\ size' \in Nat /\ size >= f.at + 8 /\ size >= d.at + 8
    BY <2>7 DEF Found, FirstFormat, FirstSound, Writes, TypeOK
  <2>9. FirstFormat(f)' /\ GoodFormat(f)'
    BY <1>2, <1>3, <2>5, <2>6, <2>7, <2>8 DEF Found, FirstFormat, GoodFormat, FormatType
  <2>10. FirstSound(f, e)' /\ GoodSound(e)'
    <3>1. e.at > f.at /\ \A x \in chunks' : x.type = "data" /\ x.at > f.at => x.at >= e.at
      BY <2>5
    <3> QED
      BY <1>2, <1>3, <2>5, <2>6, <2>8, <3>1 DEF FirstSound, GoodSound, SoundType
  <2>11. LimitKnown(f, e)'
    <3>1. ~early => pipe
      BY <1>1, <1>5 DEF Finds, Waits
    <3> QED
      BY <1>2, <2>3, <2>5, <2>6, <2>7, <3>1 DEF Found, LimitKnown, Trusted
  <2>12. Placed(28 + format)'
    <3>1. SoundStart(d) = 28 + format
      BY <2>5, <2>6 DEF SoundStart
    <3>2. Placed(28 + format)
      BY <2>7, <3>1 DEF Found
    <3>3. 28 + format \in Nat
      OBVIOUS
    <3> QED
      BY <1>1, <1>3, <3>2, <3>3, PlacedKept
  <2>13. SoundStart(e)' = 28 + format
    BY <1>2, <2>5, <2>6 DEF SoundStart
  <2>14. Found(f, e)'
    BY <2>9, <2>10, <2>11, <2>12, <2>13 DEF Found
  <2> QED
    BY <1>5, <2>1, <2>5, <2>14
<1> QED
  BY <1>4, <1>5

LEMMA OpusdecFinds ==
  ASSUME Writes, Writes', Finds, Opusdec
  PROVE  Finds'
<1>1. UNCHANGED <<options, reader>> /\ wpc # "closed"
  BY WriterSteps
<1>2. /\ rpc' = rpc /\ form' = form /\ pipe' = pipe /\ rawmode' = rawmode /\ early' = early
      /\ samplesread' = samplesread
  BY <1>1 DEF options, reader
<1>3. Gives'
  BY <1>1, <1>2 DEF Finds, Gives
<1>4. Waits'
  BY <1>1, <1>2 DEF Finds, Waits
<1> QED
  BY <1>3, <1>4, OpusdecOrigin, OpusdecSeeks, OpusdecHears DEF Finds

-----------------------------------------------------------------------------
(* What counts in a file, by the definitions and by where its chunks are.  *)

LEMMA FirstIs ==
  ASSUME Writes, Origin, form # "raw", NEW S \in SUBSET chunks, NEW f \in S, \A d \in S : d.at >= f.at
  PROVE  First(S) = f
<1>1. First(S) \in S /\ \A d \in S : d.at >= First(S).at
  BY DEF First
<1>2. \A c \in chunks : c.at \in Nat
  BY DEF Writes, TypeOK
<1>3. First(S).at = f.at
  BY <1>1, <1>2
<1>4. \A c, d \in chunks : c.at = d.at => c = d
  BY Laid DEF LaidOut
<1> QED
  BY <1>1, <1>3, <1>4

LEMMA ThereIs ==
  ASSUME form # "raw"
  PROVE  /\ Formats = {c \in chunks : c.type = FormatType /\ size >= c.at + 8}
         /\ There(SoundType, 8) = {c \in chunks : c.type = SoundType /\ size >= c.at + 8}
BY DEF Formats, There, FormatType, SoundType

LEMMA FormatIs ==
  ASSUME Writes, Origin, form # "raw", NEW f \in chunks, FirstFormat(f)
  PROVE  Formats # {} /\ First(Formats) = f
<1>1. Formats \in SUBSET chunks /\ f \in Formats
  BY ThereIs DEF FirstFormat
<1>2. \A d \in Formats : d.at >= f.at
  BY ThereIs DEF FirstFormat
<1> QED
  BY <1>1, <1>2, FirstIs

Following(f) == {c \in chunks : c.type = SoundType /\ size >= c.at + 8 /\ c.at > f.at}

LEMMA SoundsAre ==
  ASSUME Writes, Origin, form # "raw", NEW f \in chunks, FirstFormat(f)
  PROVE  Sounds = IF form = "AIFF" /\ Following(f) = {} /\ ~pipe
                  THEN {c \in chunks : c.type = SoundType /\ size >= c.at + 8} ELSE Following(f)
<1>1. First(Formats) = f
  BY FormatIs
<1>2. There(IF form = "WAVE" THEN "data" ELSE "SSND", 8) = There(SoundType, 8)
  BY DEF SoundType
<1>3. Behind(f, There(SoundType, 8)) = Following(f)
  BY ThereIs DEF Behind, Following
<1> QED
  BY <1>1, <1>2, <1>3, ThereIs DEF Sounds

LEMMA SoundIs ==
  ASSUME Writes, Origin, form # "raw", NEW f \in chunks, FirstFormat(f),
         NEW c \in chunks, FirstSound(f, c)
  PROVE  Sounds # {} /\ First(Sounds) = c
<1>1. \A d \in chunks : d.at \in Nat
  BY DEF Writes, TypeOK
<1>2. Sounds \in SUBSET chunks
  BY SoundsAre DEF Following
<1>3. c \in Sounds /\ \A d \in Sounds : d.at >= c.at
  <2>1. CASE c.at > f.at /\ \A d \in chunks : d.type = SoundType /\ d.at > f.at => d.at >= c.at
    <3>1. c \in Following(f)
      BY <2>1 DEF Following, FirstSound
    <3>2. Sounds = Following(f)
      BY <3>1, SoundsAre
    <3> QED
      BY <2>1, <3>1, <3>2 DEF Following
  <2>2. CASE /\ form = "AIFF" /\ ~pipe
             /\ \A d \in chunks :
                  d.type = SoundType /\ size >= d.at + 8 => d.at >= c.at /\ d.at <= f.at
    <3>1. Following(f) = {}
      BY <1>1, <2>2 DEF Following
    <3> QED
      BY <2>2, <3>1, SoundsAre DEF FirstSound
  <2> QED
    BY <2>1, <2>2 DEF FirstSound
<1> QED
  BY <1>2, <1>3, FirstIs

\* No format or a bad one, no sound or a bad one.
LEMMA NoFormatOpens ==
  ASSUME form # "raw", \A c \in chunks : c.type = FormatType => ~(size >= c.at + 8)
  PROVE  ~Opens
BY ThereIs DEF Opens

LEMMA BadFormatOpens ==
  ASSUME Writes, Origin, form # "raw", NEW f \in chunks, FirstFormat(f), ~GoodFormat(f)
  PROVE  ~Opens
<1>1. First(Formats) = f
  BY FormatIs
<1> QED
  BY <1>1 DEF Opens, GoodFormat

LEMMA NoSoundOpens ==
  ASSUME Writes, Origin, form # "raw", NEW f \in chunks, FirstFormat(f), Following(f) = {},
         form = "AIFF" /\ ~pipe => \A c \in chunks : c.type = SoundType => ~(size >= c.at + 8)
  PROVE  ~Opens
<1>1. Sounds = {}
  BY SoundsAre
<1> QED
  BY <1>1 DEF Opens

LEMMA SoundOpens ==
  ASSUME Writes, Origin, form # "raw", NEW f \in chunks, FirstFormat(f), GoodFormat(f),
         NEW c \in chunks, FirstSound(f, c)
  PROVE  /\ Opens <=> GoodSound(c)
         /\ First(Formats) = f /\ First(Sounds) = c
<1>1. Formats # {} /\ First(Formats) = f
  BY FormatIs
<1>2. Sounds # {} /\ First(Sounds) = c
  BY SoundIs
<1> QED
  BY <1>1, <1>2 DEF Opens, GoodFormat, GoodSound

-----------------------------------------------------------------------------
(* What opusenc does.                                                      *)

Still == UNCHANGED <<header, options, stdio, writer>>

LEMMA StillIs ==
  ASSUME Still
  PROVE  /\ chunks' = chunks /\ size' = size /\ form' = form /\ pipe' = pipe /\ rawmode' = rawmode
         /\ ignorelength' = ignorelength /\ wpc' = wpc
         /\ FormatType' = FormatType /\ SoundType' = SoundType /\ Opens' = Opens
<1>1. /\ chunks' = chunks /\ size' = size /\ form' = form /\ pipe' = pipe /\ rawmode' = rawmode
      /\ ignorelength' = ignorelength /\ wpc' = wpc
  BY DEF Still, header, options, stdio, writer
<1>2. FormatType' = FormatType /\ SoundType' = SoundType
  BY <1>1 DEF FormatType, SoundType
<1>3. There(SoundType, 8)' = There(SoundType, 8) /\ Formats' = Formats
  BY <1>1, <1>2 DEF There, Formats
<1>4. Sounds' = Sounds
  BY <1>1 DEF Sounds, There, Formats, First, Behind
<1> QED
  BY <1>1, <1>2, <1>3, <1>4 DEF Opens, First

\* When opusenc has not been early, nobody writes the file any more, or it is a pipe.
LEMMA NotEarly ==
  ASSUME Early, ~early'
  PROVE  ~early /\ (pipe \/ wpc = "closed")
BY DEF Early

LEMMA GivesUp ==
  ASSUME Writes, Finds, Still, Early, rpc' = "refused",
         ~early' => ~rawmode /\ (form = "raw" \/ (wpc = "closed" /\ ~Opens))
  PROVE  Finds'
<1>1. Origin'
  BY OriginKept DEF Finds, Still
<1>2. Seeks' /\ Hears'
  BY DEF Seeks, Searching, Hears
<1>3. Gives'
  BY StillIs DEF Gives
<1>4. Waits'
  BY StillIs, NotEarly DEF Waits
<1> QED
  BY <1>1, <1>2, <1>3, <1>4 DEF Finds

LEMMA GoesOn ==
  ASSUME Writes, Finds, Still, Early, rpc' # "refused", Seeks', Hears'
  PROVE  Finds'
<1>1. Origin'
  BY OriginKept DEF Finds, Still
<1>2. Gives'
  BY DEF Gives
<1>3. Waits'
  BY StillIs, NotEarly DEF Waits
<1> QED
  BY <1>1, <1>2, <1>3 DEF Finds

LEMMA OpenRawFinds ==
  ASSUME Writes, Finds, OpenRaw
  PROVE  Finds'
<1>1. /\ rawmode /\ rpc' = "read" /\ totalsamples' = 0 /\ samplesread' = 0 /\ pos' = 0 /\ Still
      /\ early' = early
  BY DEF OpenRaw, Writes, Limited, Still
<1>2. Origin' /\ rawmode'
  BY <1>1, OriginKept, StillIs DEF Finds, Still
<1>3. Seeks' /\ Gives' /\ Waits'
  BY <1>1, <1>2 DEF Seeks, Searching, Gives, Waits
<1>4. Placed(0)'
  <2>1. pos' = 0 + samplesread' * Frame
    BY <1>1
  <2> QED
    BY <1>1, <2>1 DEF Placed
<1>5. Hears'
  BY <1>1, <1>2, <1>4 DEF Hears
<1> QED
  BY <1>2, <1>3, <1>5 DEF Finds

LEMMA IdentifyFinds ==
  ASSUME Writes, Finds, Identify
  PROVE  Finds'
<1>1. rpc = "id" /\ ~rawmode /\ Ready(12) /\ Early /\ Still /\ pos = 0
  BY DEF Identify, Still, Writes, Limited
<1>2. size \in Nat /\ form \in {"WAVE", "AIFF", "raw"}
  BY DEF Writes, TypeOK
<1>3. form # "raw" => \A c \in chunks : c.at >= 12
  BY Laid DEF Finds, LaidOut
<1>4. \A c \in chunks : c.at \in Nat
  BY DEF Writes, TypeOK
<1>5. CASE form # "raw" /\ Present(12)
  <2>1. rpc' = FormatType /\ pos' = 12
    BY <1>5 DEF Identify, FormatType
  <2>2. FormatType \in {"fmt", "COMM"} /\ SoundType \in {"data", "SSND"}
    BY DEF FormatType, SoundType
  <2>3. wpc # "header"
    BY <1>1, <1>2, <1>5 DEF Writes, Heads, Present
  <2>4. OnHeader'
    BY <2>1 DEF OnHeader
  <2>5. Seeks'
    BY <1>1, <1>3, <1>5, <2>1, <2>2, <2>3, <2>4, StillIs DEF Seeks
  <2>6. Hears' /\ rpc' # "refused"
    BY <2>1, <2>2 DEF Hears
  <2> QED
    BY <1>1, <2>5, <2>6, GoesOn
<1>6. CASE ~(form # "raw" /\ Present(12))
  <2>1. rpc' = "refused"
    BY <1>6 DEF Identify, Refuse
  <2>2. ASSUME ~early', form # "raw" PROVE wpc = "closed" /\ ~Opens
    <3>1. size < 12
      BY <1>1, <1>2, <1>6, <2>2 DEF Present
    <3>2. wpc = "closed"
      BY <1>1, <1>2, <2>2, <3>1, NotEarly DEF Ready
    <3>3. \A c \in chunks : ~(size >= c.at + 8)
      BY <1>2, <1>3, <1>4, <2>2, <3>1
    <3> QED
      BY <2>2, <3>2, <3>3, NoFormatOpens
  <2> QED
    BY <1>1, <2>1, <2>2, GivesUp
<1> QED
  BY <1>5, <1>6

\* What is known of the place where a chunk is looked for.
LEMMA InSearch ==
  ASSUME Writes, Finds, Searching
  PROVE  /\ form \in {"WAVE", "AIFF"} /\ ~rawmode /\ wpc # "header" /\ OnHeader
         /\ \/ rpc = FormatType /\ rpc # SoundType /\ \A c \in chunks : c.type = FormatType => c.at >= pos
            \/ rpc = SoundType /\ rpc # FormatType /\ \E f \in chunks : Heading(f)
         /\ pos \in Nat /\ size \in Nat
         /\ \A c \in chunks : c.at \in Nat /\ c.len \in Nat /\ c.at >= 12
         /\ \A c, d \in chunks : c.at = d.at => c = d
         /\ \A c \in chunks : Reliable(form, chunks, c) => \A d \in chunks : d.at > c.at => d.at >= End(c)
<1>1. /\ form # "raw" /\ ~rawmode /\ wpc # "header" /\ OnHeader /\ rpc \in {FormatType, SoundType}
      /\ rpc = FormatType => \A c \in chunks : c.type = FormatType => c.at >= pos
      /\ rpc = SoundType => \E f \in chunks : Heading(f)
  BY DEF Finds, Seeks
<1>2. form \in {"WAVE", "AIFF"} /\ pos \in Nat /\ size \in Nat
      /\ \A c \in chunks : c.at \in Nat /\ c.len \in Nat
  BY <1>1 DEF Writes, TypeOK
<1>3. FormatType # SoundType
  BY DEF FormatType, SoundType
<1>4. LaidOut(form, chunks, size)
  BY <1>1, Laid DEF Finds
<1> QED
  BY <1>1, <1>2, <1>3, <1>4 DEF LaidOut

LEMMA EndIs ==
  ASSUME Writes, NEW c \in chunks
  PROVE  /\ Padded(c.len) \in Nat /\ Padded(c.len) >= c.len
         /\ End(c) \in Nat /\ End(c) >= c.at + 8 + c.len /\ End(c) = c.at + 8 + Padded(c.len)
<1>1. c.at \in Nat /\ c.len \in Nat
  BY DEF Writes, TypeOK
<1> QED
  BY <1>1, PaddedBounds DEF End

\* A chunk that cannot be passed is the last one.
LEMMA Passes ==
  ASSUME Writes, NEW c \in chunks, c.at = pos, SeekReady(pos + 8, Padded(c.len))
  PROVE  ~CanSeek(pos + 8, Padded(c.len)) => pipe /\ size < End(c) /\ wpc = "closed"
<1>1. pos \in Nat /\ size \in Nat
  BY DEF Writes, TypeOK
<1> QED
  BY <1>1, EndIs DEF CanSeek, SeekReady

LEMMA SkipChunkFinds ==
  ASSUME Writes, Finds, SkipChunk
  PROVE  Finds'
<1>1. Searching /\ Early /\ Still
  BY DEF SkipChunk, Still
<1>2. PICK c \in chunks :
        /\ c.at = pos /\ c.type # rpc /\ SeekReady(pos + 8, Padded(c.len))
        /\ IF CanSeek(pos + 8, Padded(c.len))
           THEN pos' = pos + 8 + Padded(c.len)
                /\ UNCHANGED <<rpc, len, totalsamples, samplesread, restarted>>
           ELSE Refuse
  BY DEF SkipChunk
<1>3. /\ form \in {"WAVE", "AIFF"} /\ ~rawmode /\ wpc # "header"
      /\ \/ rpc = FormatType /\ rpc # SoundType /\ \A d \in chunks : d.type = FormatType => d.at >= pos
         \/ rpc = SoundType /\ rpc # FormatType /\ \E f \in chunks : Heading(f)
      /\ pos \in Nat /\ size \in Nat
      /\ \A d \in chunks : d.at \in Nat
      /\ \A b, d \in chunks : b.at = d.at => b = d
  BY <1>1, InSearch
<1>4. Reliable(form, chunks, c)
  BY <1>2, <1>3 DEF Reliable, FormatType, SoundType
<1>5. \A d \in chunks : d.at > c.at => d.at >= End(c)
  BY <1>1, <1>4, InSearch
<1>6. \A d \in chunks : d.type = rpc /\ d.at >= pos => d.at >= End(c)
  BY <1>2, <1>3, <1>5
<1>7. CASE CanSeek(pos + 8, Padded(c.len))
  <2>1. pos' = End(c) /\ End(c) > pos /\ rpc' = rpc /\ restarted' = restarted
        /\ totalsamples' = totalsamples
    BY <1>2, <1>3, <1>7, EndIs
  <2>2. OnHeader'
    BY <1>1, <1>4, <2>1, StillIs DEF OnHeader, Reliable, End
  <2>3. rpc = FormatType => \A d \in chunks : d.type = FormatType => d.at >= End(c)
    BY <1>3, <1>6
  <2>4. ASSUME rpc = SoundType, NEW f \in chunks, Heading(f) PROVE Heading(f)'
    <3>1. FirstFormat(f)' /\ GoodFormat(f)'
      BY <1>1, <2>4, StillIs DEF Heading, FirstFormat, GoodFormat
    <3>2. SoundsAhead(f)'
      <4>1. CASE /\ pos > f.at /\ (form = "AIFF" => ~restarted)
                 /\ \A d \in chunks : d.type = SoundType /\ d.at > f.at => d.at >= pos
        <5>1. End(c) > f.at /\ End(c) \in Nat
          BY <1>3, <2>1, <4>1, EndIs
        <5>2. \A d \in chunks : d.type = SoundType /\ d.at > f.at => d.at >= End(c)
          BY <1>6, <2>4, <4>1
        <5> QED
          BY <1>1, <2>1, <4>1, <5>1, <5>2, StillIs DEF SoundsAhead
      <4>2. CASE /\ form = "AIFF" /\ ~pipe /\ restarted
                 /\ \A d \in chunks :
                      d.type = SoundType /\ size >= d.at + 8 => d.at >= pos /\ d.at <= f.at
        <5>1. \A d \in chunks :
                d.type = SoundType /\ size >= d.at + 8 => d.at >= End(c) /\ d.at <= f.at
          BY <1>6, <2>4, <4>2
        <5> QED
          BY <1>1, <2>1, <4>2, <5>1, StillIs DEF SoundsAhead
      <4> QED
        BY <2>4, <4>1, <4>2 DEF Heading, SoundsAhead
    <3> QED
      BY <1>1, <2>1, <2>4, <3>1, <3>2, StillIs DEF Heading
  <2>5. Seeks'
    BY <1>1, <1>3, <2>1, <2>2, <2>3, <2>4, StillIs DEF Seeks
  <2>6. Hears' /\ rpc' # "refused"
    BY <1>1, <2>1 DEF Hears, Searching
  <2> QED
    BY <1>1, <2>5, <2>6, GoesOn
<1>8. CASE ~CanSeek(pos + 8, Padded(c.len))
  <2>1. rpc' = "refused" /\ pipe /\ size < End(c) /\ wpc = "closed" /\ End(c) \in Nat
    BY <1>2, <1>8, Passes, EndIs DEF Refuse
  <2>2. ~Opens
    <3>1. CASE rpc = FormatType
      <4>1. \A d \in chunks : d.type = FormatType => d.at >= End(c)
        BY <1>3, <1>6, <3>1
      <4>2. \A d \in chunks : d.type = FormatType => ~(size >= d.at + 8)
        BY <1>3, <2>1, <4>1
      <4> QED
        BY <1>3, <4>2, NoFormatOpens
    <3>2. CASE rpc = SoundType
      <4>1. PICK f \in chunks : Heading(f)
        BY <1>3, <3>2
      <4>2. \A d \in chunks : d.type = SoundType /\ d.at > f.at => d.at >= End(c)
        BY <1>6, <2>1, <3>2, <4>1 DEF Heading, SoundsAhead
      <4>3. Following(f) = {}
        BY <1>3, <2>1, <4>2 DEF Following
      <4> QED
        BY <1>3, <2>1, <4>1, <4>3, NoSoundOpens DEF Heading, Finds
    <3> QED
      BY <1>3, <3>1, <3>2
  <2> QED
    BY <1>1, <1>3, <2>1, <2>2, GivesUp
<1> QED
  BY <1>7, <1>8

LEMMA NoChunkFinds ==
  ASSUME Writes, Finds, NoChunk
  PROVE  Finds'
<1>1. Searching /\ Early /\ Still /\ Ready(8) /\ ~Present(8)
      /\ IF StartsOver
         THEN pos' = 12 /\ restarted' = TRUE /\ UNCHANGED <<rpc, len, totalsamples, samplesread>>
         ELSE Refuse
  BY DEF NoChunk, Still
<1>2. /\ form \in {"WAVE", "AIFF"} /\ ~rawmode /\ wpc # "header"
      /\ \/ rpc = FormatType /\ rpc # SoundType /\ \A d \in chunks : d.type = FormatType => d.at >= pos
         \/ rpc = SoundType /\ rpc # FormatType /\ \E f \in chunks : Heading(f)
      /\ pos \in Nat /\ size \in Nat
      /\ \A d \in chunks : d.at \in Nat /\ d.at >= 12
  BY <1>1, InSearch
<1>3. \A d \in chunks : d.at >= pos => ~(size >= d.at + 8)
  BY <1>1, <1>2 DEF Present
<1>4. CASE StartsOver
  <2>1. pos' = 12 /\ restarted' = TRUE /\ rpc' = rpc /\ totalsamples' = totalsamples
        /\ form = "AIFF" /\ ~restarted /\ ~pipe
    BY <1>1, <1>4 DEF StartsOver
  <2>2. OnHeader'
    BY <2>1 DEF OnHeader
  <2>3. ASSUME rpc = SoundType, NEW f \in chunks, Heading(f) PROVE Heading(f)'
    <3>1. FirstFormat(f)' /\ GoodFormat(f)'
      BY <1>1, <2>3, StillIs DEF Heading, FirstFormat, GoodFormat
    <3>2. \A d \in chunks : d.type = SoundType /\ d.at > f.at => d.at >= pos
      BY <2>1, <2>3 DEF Heading, SoundsAhead
    <3>3. \A d \in chunks : d.type = SoundType /\ size >= d.at + 8 => d.at >= 12 /\ d.at <= f.at
      BY <1>2, <1>3, <3>2
    <3>4. SoundsAhead(f)'
      BY <1>1, <2>1, <3>3, StillIs DEF SoundsAhead
    <3> QED
      BY <1>1, <2>1, <2>3, <3>1, <3>4, StillIs DEF Heading
  <2>4. Seeks'
    BY <1>1, <1>2, <2>1, <2>2, <2>3, StillIs DEF Seeks
  <2>5. Hears' /\ rpc' # "refused"
    BY <1>1, <2>1 DEF Hears, Searching
  <2> QED
    BY <1>1, <2>4, <2>5, GoesOn
<1>5. CASE ~StartsOver
  <2>1. rpc' = "refused"
    BY <1>1, <1>5 DEF Refuse
  <2>2. ~early' => wpc = "closed"
    BY <1>1, NotEarly DEF Ready, Present
  <2>3. ~Opens
    <3>1. CASE rpc = FormatType
      BY <1>2, <1>3, <3>1, NoFormatOpens
    <3>2. CASE rpc = SoundType
      <4>1. PICK f \in chunks : Heading(f)
        BY <1>2, <3>2
      <4>2. Following(f) = {} /\ (form = "AIFF" /\ ~pipe =>
              \A d \in chunks : d.type = SoundType => ~(size >= d.at + 8))
        <5>1. CASE /\ pos > f.at /\ (form = "AIFF" => ~restarted)
                   /\ \A d \in chunks : d.type = SoundType /\ d.at > f.at => d.at >= pos
          BY <1>3, <1>5, <5>1 DEF Following, StartsOver
        <5>2. CASE /\ form = "AIFF" /\ ~pipe /\ restarted
                   /\ \A d \in chunks :
                        d.type = SoundType /\ size >= d.at + 8 => d.at >= pos /\ d.at <= f.at
          BY <1>3, <5>2 DEF Following
        <5> QED
          BY <4>1, <5>1, <5>2 DEF Heading, SoundsAhead
      <4> QED
        BY <1>2, <4>1, <4>2, NoSoundOpens DEF Heading, Finds
    <3> QED
      BY <1>2, <3>1, <3>2
  <2> QED
    BY <1>1, <1>2, <2>1, <2>2, <2>3, GivesUp
<1> QED
  BY <1>4, <1>5

\* opusdec's own format chunk is good.
LEMMA OwnFormat ==
  ASSUME Writes, Origin, wpc # "closed", NEW c \in chunks, c.type = "fmt"
  PROVE  c.ok /\ c.len >= 16
<1>1. PICK format \in {16, 40}, length \in 0 .. Unknown : chunks = HeaderOf(format, length)
  BY DEF Origin
<1>2. c = Chunk("fmt", 12, format, TRUE)
  BY <1>1 DEF HeaderOf, Chunk
<1> QED
  BY <1>2 DEF Chunk

\* read_chunk fails where bytes are missing, of those wanted or up to the next chunk.
LEMMA ReadChunkIs ==
  ASSUME Writes, NEW c \in chunks, c.at = pos, NEW most \in Nat
  PROVE  /\ Min(c.len, most) \in Nat
         /\ ReadChunk(c, most) => size >= c.at + 8 + Min(c.len, most)
         /\ ~ReadChunk(c, most) => size < End(c)
         /\ ~ReadChunk(c, most) => size < c.at + 8 + Min(c.len, most) \/ pipe
<1>1. pos \in Nat /\ size \in Nat /\ c.len \in Nat
  BY DEF Writes, TypeOK
<1>2. PICK n \in Nat : n = Min(c.len, most) /\ n <= c.len
  BY <1>1 DEF Min
<1>3. PICK p \in Nat : p = Padded(c.len) /\ p >= c.len /\ End(c) = pos + 8 + p
  BY EndIs
<1>4. ReadChunk(c, most) <=> size >= pos + 8 + n /\ (pipe /\ p - n > 0 => size >= pos + 8 + n + (p - n))
  BY <1>2, <1>3 DEF ReadChunk, CanSeek
<1>5. pos + 8 + n + (p - n) = End(c) /\ pos + 8 + n <= End(c)
  BY <1>1, <1>2, <1>3
<1>6. p - n > 0 \/ End(c) = pos + 8 + n
  BY <1>1, <1>2, <1>3
<1> QED
  BY <1>1, <1>2, <1>3, <1>4, <1>5, <1>6

\* The chunk of the format is the first of its kind, and the search goes on behind it.
LEMMA FormatHere ==
  ASSUME Writes, Finds, Searching, rpc = FormatType, Present(8),
         NEW c \in chunks, c.at = pos, c.type = FormatType
  PROVE  /\ FirstFormat(c) /\ Reliable(form, chunks, c)
         /\ \A d \in chunks : d.at > c.at => d.at >= End(c)
         /\ size < End(c) => Following(c) = {}
<1>1. /\ \A d \in chunks : d.type = FormatType => d.at >= pos
      /\ pos \in Nat /\ size \in Nat
      /\ \A d \in chunks : d.at \in Nat
  BY InSearch
<1>2. FirstFormat(c)
  BY <1>1 DEF FirstFormat, Present
<1>3. Reliable(form, chunks, c)
  BY DEF Reliable, FormatType
<1>4. \A d \in chunks : d.at > c.at => d.at >= End(c)
  BY <1>3, InSearch
<1>5. size < End(c) => Following(c) = {}
  BY <1>1, <1>4, EndIs DEF Following
<1> QED
  BY <1>2, <1>3, <1>4, <1>5

LEMMA FormatDone ==
  ASSUME Writes, Finds, Searching, Early, Still, rpc = FormatType, Present(8),
         NEW c \in chunks, c.at = pos, c.type = FormatType, GoodFormat(c),
         pos' = pos + 8 + Padded(c.len), rpc' = SoundType,
         form = "AIFF" => totalsamples' = c.says /\ restarted' = FALSE
  PROVE  Finds'
<1>1. /\ FirstFormat(c) /\ Reliable(form, chunks, c)
      /\ \A d \in chunks : d.at > c.at => d.at >= End(c)
  BY FormatHere
<1>2. form \in {"WAVE", "AIFF"} /\ ~rawmode /\ wpc # "header" /\ c.at \in Nat /\ c.len \in Nat
  BY InSearch
<1>3. pos' = End(c) /\ End(c) > c.at
  BY <1>2, EndIs
<1>4. OnHeader'
  BY <1>1, <1>3, StillIs DEF OnHeader, Reliable, End
<1>5. SoundsAhead(c)'
  BY <1>1, <1>3, StillIs DEF SoundsAhead
<1>6. FirstFormat(c)' /\ GoodFormat(c)'
  BY <1>1, StillIs DEF FirstFormat, GoodFormat
<1>7. Heading(c)'
  BY <1>5, <1>6, StillIs DEF Heading
<1>8. FormatType # SoundType /\ SoundType \in {"data", "SSND"}
  BY DEF FormatType, SoundType
<1>9. Seeks'
  BY <1>2, <1>4, <1>7, <1>8, StillIs DEF Seeks
<1>10. Hears' /\ rpc' # "refused"
  BY <1>8 DEF Hears
<1> QED
  BY <1>9, <1>10, GoesOn

LEMMA ReadFormatFinds ==
  ASSUME Writes, Finds, ReadFormat
  PROVE  Finds'
<1>1. rpc = "fmt" /\ Present(8) /\ Early /\ Still /\ Searching
  BY DEF ReadFormat, Still, Searching
<1>2. PICK c \in chunks :
        /\ c.at = pos /\ c.type = "fmt" /\ SeekReady(pos + 8, Padded(c.len))
        /\ IF c.len >= 16 /\ c.ok /\ ReadChunk(c, 40)
           THEN /\ pos' = pos + 8 + Padded(c.len) /\ rpc' = "data"
                /\ UNCHANGED <<len, totalsamples, samplesread, restarted>>
           ELSE Refuse
  BY DEF ReadFormat
<1>3. form = "WAVE" /\ ~rawmode /\ FormatType = "fmt" /\ SoundType = "data"
  BY <1>1, InSearch DEF FormatType, SoundType
<1>4. FirstFormat(c) /\ (size < End(c) => Following(c) = {})
  BY <1>1, <1>2, <1>3, FormatHere
<1>5. CASE c.len >= 16 /\ c.ok /\ ReadChunk(c, 40)
  <2>1. GoodFormat(c)
    BY <1>3, <1>5 DEF GoodFormat
  <2>2. pos' = pos + 8 + Padded(c.len) /\ rpc' = SoundType
    BY <1>2, <1>3, <1>5
  <2> QED
    BY <1>1, <1>2, <1>3, <2>1, <2>2, FormatDone
<1>6. CASE ~(c.len >= 16 /\ c.ok /\ ReadChunk(c, 40))
  <2>1. rpc' = "refused"
    BY <1>2, <1>6 DEF Refuse
  <2>2. ~ReadChunk(c, 40) => size < End(c)
    BY <1>2, ReadChunkIs
  <2>3. ~Opens
    <3>1. CASE c.len >= 16 /\ c.ok
      BY <1>3, <1>4, <1>6, <2>2, <3>1, NoSoundOpens DEF Finds
    <3>2. CASE ~(c.len >= 16 /\ c.ok)
      BY <1>3, <1>4, <3>2, BadFormatOpens DEF GoodFormat, Finds
    <3> QED
      BY <3>1, <3>2
  <2>4. ~early' => wpc = "closed"
    <3> SUFFICES ASSUME ~early', wpc # "closed" PROVE FALSE
      OBVIOUS
    <3>1. c.ok /\ c.len >= 16
      BY <1>2, OwnFormat DEF Finds
    <3>2. pipe
      BY <1>1, NotEarly
    <3>3. size >= End(c)
      BY <1>2, <3>2, EndIs DEF SeekReady
    <3>4. size < End(c) /\ size \in Nat /\ End(c) \in Nat
      BY <1>6, <2>2, <3>1, EndIs DEF Writes, TypeOK
    <3> QED
      BY <3>3, <3>4
  <2> QED
    BY <1>1, <1>3, <2>1, <2>3, <2>4, GivesUp
<1> QED
  BY <1>5, <1>6

LEMMA AiffClosed ==
  ASSUME Origin, form = "AIFF"
  PROVE  wpc = "closed"
BY DEF Origin

LEMMA ReadCommonFinds ==
  ASSUME Writes, Finds, ReadCommon
  PROVE  Finds'
<1>1. rpc = "COMM" /\ Present(8) /\ Early /\ Still /\ Searching
  BY DEF ReadCommon, Still, Searching
<1>2. PICK c \in chunks :
        /\ c.at = pos /\ c.type = "COMM" /\ SeekReady(pos + 8, Padded(c.len))
        /\ IF c.len >= 18 /\ c.ok /\ ReadChunk(c, 22)
           THEN /\ pos' = pos + 8 + Padded(c.len) /\ rpc' = "SSND"
                /\ totalsamples' = c.says /\ restarted' = FALSE
                /\ UNCHANGED <<len, samplesread>>
           ELSE Refuse
  BY DEF ReadCommon
<1>3. form = "AIFF" /\ ~rawmode /\ FormatType = "COMM" /\ SoundType = "SSND"
  BY <1>1, InSearch DEF FormatType, SoundType
<1>4. FirstFormat(c) /\ (size < End(c) => Following(c) = {})
  BY <1>1, <1>2, <1>3, FormatHere
<1>5. /\ ReadChunk(c, 22) => size >= c.at + 8 + Min(c.len, 22)
      /\ ~ReadChunk(c, 22) => size < End(c)
      /\ ~ReadChunk(c, 22) => size < c.at + 8 + Min(c.len, 22) \/ pipe
      /\ Min(c.len, 22) \in Nat
  BY <1>2, ReadChunkIs
<1>6. CASE c.len >= 18 /\ c.ok /\ ReadChunk(c, 22)
  <2>1. GoodFormat(c)
    BY <1>3, <1>5, <1>6 DEF GoodFormat
  <2>2. /\ pos' = pos + 8 + Padded(c.len) /\ rpc' = SoundType
        /\ totalsamples' = c.says /\ restarted' = FALSE
    BY <1>2, <1>3, <1>6
  <2> QED
    BY <1>1, <1>2, <1>3, <2>1, <2>2, FormatDone
<1>7. CASE ~(c.len >= 18 /\ c.ok /\ ReadChunk(c, 22))
  <2>1. rpc' = "refused"
    BY <1>2, <1>7 DEF Refuse
  <2>2. ~Opens
    <3>1. CASE GoodFormat(c)
      <4>1. c.len >= 18 /\ c.ok /\ size >= c.at + 8 + Min(c.len, 22)
        BY <1>3, <3>1 DEF GoodFormat
      <4>2. size \in Nat /\ c.at \in Nat
        BY DEF Writes, TypeOK
      <4>3. size < End(c) /\ pipe
        BY <1>5, <1>7, <4>1, <4>2
      <4> QED
        BY <1>3, <1>4, <4>3, NoSoundOpens DEF Finds
    <3>2. CASE ~GoodFormat(c)
      BY <1>3, <1>4, <3>2, BadFormatOpens DEF Finds
    <3> QED
      BY <3>1, <3>2
  <2> QED
    BY <1>1, <1>3, <2>1, <2>2, AiffClosed, GivesUp DEF Finds
<1> QED
  BY <1>6, <1>7

\* The sound or data chunk is the one that counts.
LEMMA SoundHere ==
  ASSUME Writes, Finds, Searching, rpc = SoundType, Present(8),
         NEW c \in chunks, c.at = pos, c.type = SoundType
  PROVE  \E f \in chunks : FirstFormat(f) /\ GoodFormat(f) /\ FirstSound(f, c)
                           /\ (form = "AIFF" => totalsamples = f.says)
<1>1. PICK f \in chunks : Heading(f)
  BY InSearch
<1>2. FirstSound(f, c)
  BY <1>1 DEF Heading, SoundsAhead, FirstSound, Present
<1> QED
  BY <1>1, <1>2 DEF Heading

LEMMA SoundDone ==
  ASSUME Writes, Finds, Early, Still, form # "raw", ~rawmode, wpc # "header", rpc' = "read",
         NEW f \in chunks, NEW c \in chunks, FirstFormat(f), GoodFormat(f), FirstSound(f, c),
         GoodSound(c), LimitKnown(f, c)', Placed(SoundStart(c))'
  PROVE  Finds'
<1>1. FirstFormat(f)' /\ GoodFormat(f)'
  BY StillIs DEF FirstFormat, GoodFormat
<1>2. FirstSound(f, c)' /\ GoodSound(c)'
  BY StillIs DEF FirstSound, GoodSound
<1>3. Found(f, c)'
  BY <1>1, <1>2 DEF Found
<1>4. Hears'
  BY <1>3, StillIs DEF Hears
<1>5. Seeks'
  BY DEF Seeks, Searching
<1> QED
  BY <1>4, <1>5, GoesOn

LEMMA FindDataFinds ==
  ASSUME Writes, Finds, FindData
  PROVE  Finds'
<1>1. /\ rpc = "data" /\ Present(8) /\ Early /\ Still /\ Searching
      /\ pos' = pos + 8 /\ samplesread' = 0 /\ rpc' = "read"
  BY DEF FindData, Still, Searching
<1>2. PICK c \in chunks :
        /\ c.at = pos /\ c.type = "data" /\ len' = c.len
        /\ totalsamples' = IF ~ignorelength /\ Trusted(c.len) THEN c.len \div Frame ELSE 0
  BY DEF FindData
<1>3. form = "WAVE" /\ ~rawmode /\ wpc # "header" /\ SoundType = "data"
  BY <1>1, InSearch DEF FormatType, SoundType
<1>4. PICK f \in chunks : FirstFormat(f) /\ GoodFormat(f) /\ FirstSound(f, c)
  BY <1>1, <1>2, <1>3, SoundHere
<1>5. GoodSound(c)
  BY <1>3 DEF GoodSound
<1>6. LimitKnown(f, c)'
  BY <1>1, <1>2, <1>3, StillIs DEF LimitKnown, Trusted
<1>7. totalsamples' > 0 => wpc = "closed"
  <2>1. totalsamples' > 0 => c.len # Unknown
    BY <1>2 DEF Trusted
  <2> QED
    BY <1>2, <2>1, LengthTold DEF Finds
<1>8. PICK start \in Nat : start = pos + 8
  BY DEF Writes, TypeOK
<1>9. Placed(start)'
  <2>1. pos \in Nat /\ size \in Nat /\ c.len \in Nat
    BY DEF Writes, TypeOK
  <2>2. totalsamples' \in Nat
    BY <1>2, <2>1, Floor
  <2>3. PICK t \in Nat : t = totalsamples'
    BY <2>2
  <2>4. PICK n \in Nat : n = t * Frame
    OBVIOUS
  <2>5. n = totalsamples' * Frame
    BY <2>3, <2>4
  <2>6. 0 * Frame = 0
    OBVIOUS
  <2>7. pos' = start + samplesread' * Frame
    BY <1>1, <1>8, <2>1, <2>6
  <2>8. pos' >= start /\ pos' <= start + totalsamples' * Frame
    BY <1>1, <1>8, <2>1, <2>5
  <2> QED
    BY <1>1, <1>7, <2>7, <2>8, StillIs DEF Placed
<1>10. SoundStart(c)' = start
  BY <1>1, <1>2, <1>3, <1>8, StillIs DEF SoundStart
<1>11. Placed(SoundStart(c))'
  BY <1>9, <1>10 DEF Placed, Sought, Stock
<1>12. form # "raw"
  BY <1>3
<1> QED
  BY <1>1, <1>3, <1>4, <1>5, <1>6, <1>11, <1>12, SoundDone

LEMMA FindSoundFinds ==
  ASSUME Writes, Finds, FindSound
  PROVE  Finds'
<1>1. rpc = "SSND" /\ Present(8) /\ Early /\ Still /\ Searching
  BY DEF FindSound, Still, Searching
<1>2. PICK c \in chunks :
        /\ c.at = pos /\ c.type = "SSND"
        /\ SeekReady(pos + 16, c.says)
        /\ IF c.len >= 8 /\ c.ok /\ Present(16)
           THEN /\ pos' = IF CanSeek(pos + 16, c.says) THEN pos + 16 + c.says ELSE size
                /\ len' = c.len /\ samplesread' = 0 /\ rpc' = "read"
                /\ UNCHANGED <<totalsamples, restarted>>
           ELSE Refuse
  BY DEF FindSound
<1>3. form = "AIFF" /\ ~rawmode /\ wpc # "header" /\ SoundType = "SSND"
  BY <1>1, InSearch DEF FormatType, SoundType
<1>4. PICK f \in chunks : FirstFormat(f) /\ GoodFormat(f) /\ FirstSound(f, c) /\ totalsamples = f.says
  BY <1>1, <1>2, <1>3, SoundHere
<1>5. GoodSound(c) <=> c.len >= 8 /\ c.ok /\ Present(16)
  BY <1>2, <1>3 DEF GoodSound, Present
<1>6. wpc = "closed"
  BY <1>3, AiffClosed DEF Finds
<1>7. CASE GoodSound(c)
  <2>1. /\ pos' = IF CanSeek(pos + 16, c.says) THEN pos + 16 + c.says ELSE size
        /\ samplesread' = 0 /\ rpc' = "read" /\ totalsamples' = totalsamples
    BY <1>2, <1>5, <1>7
  <2>2. LimitKnown(f, c)'
    BY <1>1, <1>3, <1>4, <2>1, StillIs DEF LimitKnown
  <2>3. PICK start \in Nat : start = c.at + 16 + c.says
    BY DEF Writes, TypeOK
  <2>4. Placed(start)'
    <3>1. pos \in Nat /\ size \in Nat /\ c.says \in Nat /\ totalsamples \in Nat
      BY DEF Writes, TypeOK
    <3>2. PICK n \in Nat : n = totalsamples * Frame
      BY <3>1
    <3>3. 0 * Frame = 0
      OBVIOUS
    <3>4. pos' = start \/ (pos' = size /\ size < start)
      BY <1>2, <2>1, <2>3, <3>1 DEF CanSeek
    <3>5. /\ pos' >= start \/ pos' >= size
          /\ pos' <= start + totalsamples * Frame
      BY <3>1, <3>2, <3>4
    <3>6. pos' = start => pos' = start + samplesread' * Frame
      BY <2>1, <3>3
    <3> QED
      BY <1>1, <1>6, <2>1, <3>4, <3>5, <3>6, StillIs DEF Placed
  <2>5. SoundStart(c)' = start
    <3>1. c.at \in Nat /\ c.says \in Nat
      BY DEF Writes, TypeOK
    <3> QED
      BY <1>1, <1>3, <2>3, <3>1, StillIs DEF SoundStart
  <2>6. Placed(SoundStart(c))'
    BY <2>4, <2>5 DEF Placed, Sought, Stock
  <2>7. form # "raw"
    BY <1>3
  <2> QED
    BY <1>1, <1>3, <1>4, <1>7, <2>1, <2>2, <2>6, <2>7, SoundDone
<1>8. CASE ~GoodSound(c)
  <2>1. rpc' = "refused"
    BY <1>2, <1>5, <1>8 DEF Refuse
  <2>2. ~Opens
    BY <1>3, <1>4, <1>8, SoundOpens DEF Finds
  <2> QED
    BY <1>1, <1>3, <1>6, <2>1, <2>2, GivesUp
<1> QED
  BY <1>7, <1>8

-----------------------------------------------------------------------------
(* Reading.                                                                *)

LEMMA StockIs ==
  ASSUME NEW start \in Nat, NEW k \in Nat, size \in Nat,
         start + k * Frame <= size, size < start + k * Frame + Frame
  PROVE  Stock(start) = k
<1>1. PICK z \in Nat : z = k * Frame
  OBVIOUS
<1>2. CASE size > start
  <2>1. PICK n \in Nat : n = size - start
    BY <1>2
  <2>2. PICK q \in Nat : q = n \div Frame /\ q * Frame <= n /\ n < q * Frame + Frame
    BY Floor
  <2>3. PICK y \in Nat : y = q * Frame
    OBVIOUS
  <2>4. (q + 1) * Frame = y + Frame /\ (k + 1) * Frame = z + Frame
    BY <1>1, <2>3
  <2>5. y < z + Frame /\ z < y + Frame
    BY <1>1, <2>1, <2>2, <2>3
  <2>6. q < k + 1 /\ k < q + 1
    BY <1>1, <2>3, <2>4, <2>5, Cancel
  <2>7. q = k
    BY <2>6
  <2> QED
    BY <1>2, <2>1, <2>2, <2>7 DEF Stock
<1>3. CASE ~(size > start)
  <2>1. z < 1 * Frame
    BY <1>1, <1>3
  <2>2. k < 1
    BY <1>1, <2>1, Cancel
  <2> QED
    BY <1>3, <2>2 DEF Stock
<1> QED
  BY <1>2, <1>3

LEMMA Longer ==
  ASSUME NEW a \in Nat, NEW b \in Nat, a <= b
  PROVE  a * Frame \in Nat /\ b * Frame \in Nat /\ a * Frame <= b * Frame
<1>1. PICK d \in Nat : b = a + d
  <2>1. b - a \in Nat /\ b = a + (b - a)
    OBVIOUS
  <2> QED
    BY <2>1
<1>2. b * Frame = a * Frame + d * Frame /\ d * Frame \in Nat /\ a * Frame \in Nat /\ b * Frame \in Nat
  BY <1>1
<1> QED
  BY <1>2

\* What is there behind what was read.
LEMMA StockLeft ==
  ASSUME Writes, NEW start \in Nat, pos = start + samplesread * Frame,
         samplesread = 0 \/ pos <= size
  PROVE  Stock(start) = samplesread + Available
<1>1. pos \in Nat /\ size \in Nat /\ samplesread \in Nat
  BY DEF Writes, TypeOK
<1>2. Available \in Nat /\ (size > pos => Available = (size - pos) \div Frame)
      /\ (~(size > pos) => Available = 0)
  <2>1. CASE size > pos
    <3>1. PICK n \in Nat : n = size - pos
      BY <1>1, <2>1
    <3>2. n \div Frame \in Nat
      BY Floor
    <3> QED
      BY <2>1, <3>1, <3>2 DEF Available
  <2> QED
    BY <2>1 DEF Available
<1>3. PICK x \in Nat : x = samplesread * Frame
  BY <1>1
<1>4. CASE pos <= size
  <2>1. /\ Available > 0 => pos + Available * Frame <= size
        /\ size < pos + Available * Frame + Frame
    BY AvailableBounds DEF Writes
  <2>2. PICK y \in Nat : y = Available * Frame
    BY <1>2
  <2>3. 0 * Frame = 0
    OBVIOUS
  <2>4. pos + y <= size
    BY <1>1, <1>2, <1>4, <2>1, <2>2, <2>3
  <2>5. PICK k \in Nat : k = samplesread + Available
    BY <1>1, <1>2
  <2>6. k * Frame = x + y
    BY <1>1, <1>2, <1>3, <2>2, <2>5
  <2>7. start + k * Frame <= size /\ size < start + k * Frame + Frame
    BY <1>1, <1>3, <2>1, <2>2, <2>4, <2>6
  <2> QED
    BY <1>1, <2>5, <2>7, StockIs
<1>5. CASE ~(pos <= size)
  <2>1. samplesread = 0 /\ 0 * Frame = 0
    BY <1>5
  <2>2. pos = start
    BY <1>1, <2>1
  <2> QED
    BY <1>1, <1>2, <1>5, <2>1, <2>2 DEF Stock
<1> QED
  BY <1>4, <1>5

\* A short read ends at the end of a file that nobody writes any more, unless it is early.
LEMMA ShortRead ==
  ASSUME Writes, rpc = "read", Ready(Wanted * Frame), Early, ~early', Available < Wanted
  PROVE  wpc = "closed"
<1> SUFFICES ASSUME wpc # "closed" PROVE FALSE
  OBVIOUS
<1>1. size >= pos + Wanted * Frame
  BY NotEarly DEF Ready
<1>2. Available \in Nat /\ Wanted \in Nat
  BY Brought DEF Writes
<1>3. PICK a \in Nat : a = Available + 1
  BY <1>2
<1>4. a * Frame \in Nat /\ Wanted * Frame \in Nat /\ a * Frame <= Wanted * Frame
  BY <1>2, <1>3, Longer
<1>5. PICK x \in Nat : x = Available * Frame
  BY <1>2
<1>6. a * Frame = x + Frame
  BY <1>2, <1>3, <1>5
<1>7. size < pos + x + Frame /\ pos \in Nat /\ size \in Nat
  BY <1>5, AvailableBounds DEF Writes, TypeOK
<1> QED
  BY <1>1, <1>4, <1>6, <1>7

LEMMA ReadPlaced ==
  ASSUME Writes, ReadSamples, NEW start \in Nat, Placed(start)
  PROVE  Placed(start)'
<1> DEFINE got == Min(Wanted, Available)
<1>1. /\ rpc = "read" /\ Ready(Wanted * Frame) /\ Early /\ Still
      /\ samplesread' = samplesread + got
      /\ pos' = IF got = Wanted THEN pos + got * Frame ELSE IF size > pos THEN size ELSE pos
      /\ rpc' = IF got < FrameSize THEN "done" ELSE "read"
      /\ totalsamples' = totalsamples
  BY Reading DEF Still
<1>2. /\ Available \in Nat /\ Wanted \in Nat /\ Wanted <= FrameSize /\ got \in Nat
      /\ got <= Wanted /\ got <= Available /\ got \in {Wanted, Available}
      /\ totalsamples > 0 => samplesread + Wanted <= totalsamples
      /\ totalsamples = 0 => Wanted = FrameSize
      /\ Wanted # FrameSize => samplesread + Wanted = totalsamples
  BY <1>1, Brought DEF Writes
<1>3. /\ samplesread \in Nat /\ size \in Nat /\ pos \in Nat /\ totalsamples \in Nat
      /\ early \in BOOLEAN
  BY DEF Writes, TypeOK
<1> HIDE DEF got
<1>4. got < Wanted => got = Available /\ Available < Wanted
  BY <1>2
<1>5. got < Wanted /\ ~early' => wpc = "closed"
  BY <1>1, <1>4, ShortRead
<1>6. PICK w \in Nat : w = got * Frame
  BY <1>2
<1>7. PICK t \in Nat : t = totalsamples * Frame
  BY <1>3
<1>8. pos' >= pos /\ pos' \in Nat
  BY <1>1, <1>3, <1>6
<1>9. pos' >= start \/ (wpc' = "closed" /\ pos' >= size')
  BY <1>1, <1>3, <1>8, StillIs DEF Placed
<1>10. totalsamples' > 0 /\ ~early' => wpc' = "closed"
  BY <1>1, NotEarly, StillIs DEF Placed
<1>11. CASE wpc = "closed" /\ pos = size /\ size < start /\ samplesread = 0
  <2>1. Available = 0 /\ Stock(start) = 0
    BY <1>3, <1>11 DEF Available, Stock
  <2>2. got = 0 /\ 0 * Frame = 0
    BY <1>2, <2>1
  <2>3. samplesread' = 0 /\ rpc' = "done" /\ pos' = pos
    BY <1>1, <1>3, <1>11, <2>2
  <2>4. pos' <= start + totalsamples' * Frame
    BY <1>1, <1>3, <1>7, <1>11, <2>3
  <2>5. Sought(start)' = 0
    BY <1>1, <1>3, <2>1, StillIs DEF Sought, Stock, Min
  <2> QED
    BY <1>1, <1>9, <1>10, <1>11, <2>3, <2>4, <2>5, StillIs DEF Placed
<1>12. CASE pos = start + samplesread * Frame /\ (samplesread = 0 \/ pos <= size)
  <2>1. PICK x \in Nat : x = samplesread * Frame
    BY <1>3
  <2>2. Stock(start) = samplesread + Available
    BY <1>12, StockLeft
  <2>3. ASSUME got = Wanted
        PROVE  /\ pos' = start + samplesread' * Frame
               /\ totalsamples > 0 => pos' <= start + totalsamples * Frame
    <3>1. (samplesread + got) * Frame = x + w
      BY <1>2, <1>3, <1>6, <2>1
    <3>2. pos' = start + samplesread' * Frame
      BY <1>1, <1>3, <1>6, <1>12, <2>1, <2>3, <3>1
    <3>3. totalsamples > 0 => samplesread + got <= totalsamples /\ samplesread + got \in Nat
      BY <1>2, <1>3, <2>3
    <3>4. totalsamples > 0 => x + w <= t
      BY <1>3, <1>7, <3>1, <3>3, Longer
    <3> QED
      BY <1>1, <1>7, <3>1, <3>2, <3>4
  <2>4. ASSUME got < Wanted, totalsamples > 0 PROVE pos' <= start + totalsamples * Frame
    <3>1. PICK a \in Nat : a = samplesread + Available + 1
      BY <1>2, <1>3
    <3>2. a <= totalsamples
      BY <1>2, <1>3, <1>4, <2>4, <3>1
    <3>3. PICK y \in Nat : y = Available * Frame
      BY <1>2
    <3>4. a * Frame = x + y + Frame
      BY <1>2, <1>3, <2>1, <3>1, <3>3
    <3>5. x + y + Frame <= t
      BY <1>3, <1>7, <3>1, <3>2, <3>4, Longer
    <3>6. size < pos + y + Frame
      BY <3>3, AvailableBounds DEF Writes
    <3>7. pos' = size \/ pos' = pos
      BY <1>1, <1>2, <2>4
    <3> QED
      BY <1>3, <1>7, <1>12, <2>1, <3>5, <3>6, <3>7
  <2>5. rpc' = "read" => pos' = start + samplesread' * Frame /\ pos' <= size
    <3> SUFFICES ASSUME rpc' = "read"
                 PROVE  pos' = start + samplesread' * Frame /\ pos' <= size
      OBVIOUS
    <3>1. got = Wanted /\ got > 0
      BY <1>1, <1>2
    <3>2. pos' = pos + w
      BY <1>1, <1>6, <3>1
    <3>3. got * Frame \in Nat /\ Available * Frame \in Nat /\ got * Frame <= Available * Frame
      BY <1>2, Longer
    <3>4. Available > 0 /\ pos + Available * Frame <= size
      BY <1>2, <3>1, AvailableBounds DEF Writes
    <3>5. PICK y \in Nat : y = Available * Frame
      BY <3>3
    <3> QED
      BY <1>3, <1>6, <2>3, <3>1, <3>2, <3>3, <3>4, <3>5
  <2>6. rpc' = "done" => samplesread' = Sought(start)
    <3> SUFFICES ASSUME rpc' = "done" PROVE samplesread' = Sought(start)
      OBVIOUS
    <3>1. CASE got < Wanted
      <4>1. samplesread' = Stock(start)
        BY <1>1, <1>4, <2>2, <3>1
      <4>2. totalsamples > 0 => Stock(start) < totalsamples
        BY <1>2, <1>3, <1>4, <2>2, <3>1
      <4> QED
        BY <1>2, <1>3, <2>2, <4>1, <4>2 DEF Sought, Min
    <3>2. CASE got = Wanted
      <4>1. Wanted # FrameSize
        BY <1>1, <1>2, <3>2
      <4>2. samplesread' = totalsamples /\ totalsamples > 0
        BY <1>1, <1>2, <1>3, <3>2, <4>1
      <4>3. totalsamples <= Stock(start)
        BY <1>1, <1>2, <1>3, <2>2, <3>2, <4>2
      <4> QED
        BY <1>2, <1>3, <2>2, <4>2, <4>3 DEF Sought, Min
    <3> QED
      BY <1>2, <3>1, <3>2
  <2>7. rpc' = "done" /\ ~early' => wpc = "closed"
    <3> SUFFICES ASSUME rpc' = "done", ~early', got = Wanted PROVE wpc = "closed"
      BY <1>2, <1>5
    <3>1. totalsamples > 0
      BY <1>1, <1>2, <1>3
    <3> QED
      BY <1>1, <1>10, <3>1, StillIs
  <2>8. Sought(start)' = Sought(start)
    BY <1>1, StillIs DEF Sought, Stock
  <2>9. totalsamples' > 0 => pos' <= start + totalsamples' * Frame
    BY <1>1, <1>2, <2>3, <2>4
  <2>10. rpc' \in {"read", "done"} /\ wpc' = wpc /\ size' = size
    BY <1>1, StillIs
  <2> QED
    BY <1>9, <1>10, <2>5, <2>6, <2>7, <2>8, <2>9, <2>10 DEF Placed
<1> QED
  BY <1>1, <1>11, <1>12 DEF Placed

LEMMA ReadSamplesFinds ==
  ASSUME Writes, Finds, ReadSamples
  PROVE  Finds'
<1>1. /\ rpc = "read" /\ rpc' \in {"read", "done"} /\ Early /\ Still
      /\ len' = len /\ totalsamples' = totalsamples
  BY Reading DEF Still
<1>2. Seeks'
  BY <1>1 DEF Seeks, Searching
<1>3. CASE rawmode
  <2>1. Placed(0) /\ totalsamples = 0
    BY <1>1, <1>3 DEF Finds, Hears
  <2>2. Placed(0)'
    BY <2>1, ReadPlaced
  <2>3. Hears'
    BY <1>1, <1>3, <2>1, <2>2, StillIs DEF Hears
  <2> QED
    BY <1>1, <1>2, <2>3, GoesOn
<1>4. CASE ~rawmode
  <2>1. PICK f \in chunks, c \in chunks : Found(f, c) /\ form # "raw" /\ wpc # "header"
    BY <1>1, <1>4 DEF Finds, Hears
  <2>2. PICK start \in Nat : start = SoundStart(c)
    BY DEF SoundStart, Writes, TypeOK
  <2>3. Placed(start)'
    BY <2>1, <2>2, ReadPlaced DEF Found
  <2>4. SoundStart(c)' = start
    BY <1>1, <2>2, StillIs DEF SoundStart
  <2>5. Placed(SoundStart(c))'
    BY <2>3, <2>4 DEF Placed, Sought, Stock
  <2>6. LimitKnown(f, c)'
    BY <1>1, <2>1, NotEarly, StillIs DEF Found, LimitKnown, Trusted
  <2>7. FirstFormat(f)' /\ GoodFormat(f)' /\ FirstSound(f, c)' /\ GoodSound(c)'
    BY <1>1, <2>1, StillIs DEF Found, FirstFormat, GoodFormat, FirstSound, GoodSound
  <2>8. Found(f, c)'
    BY <2>5, <2>6, <2>7 DEF Found
  <2>9. Hears'
    BY <1>1, <1>4, <2>1, <2>8, StillIs DEF Hears
  <2> QED
    BY <1>1, <1>2, <2>9, GoesOn
<1> QED
  BY <1>3, <1>4

-----------------------------------------------------------------------------
LEMMA InitFinds == Init => Finds
<1> SUFFICES ASSUME Init PROVE Finds
  OBVIOUS
<1>1. rpc = "id"
  BY DEF Init
<1>2. Seeks /\ Hears /\ Gives /\ Waits
  BY <1>1 DEF Seeks, Searching, Hears, Gives, Waits
<1> QED
  BY <1>2, InitOrigin DEF Finds

LEMMA StutterFinds ==
  ASSUME Finds, UNCHANGED vars
  PROVE  Finds'
<1>1. Still /\ UNCHANGED reader
  BY DEF Still, vars
<1>2. /\ rpc' = rpc /\ pos' = pos /\ len' = len /\ totalsamples' = totalsamples
      /\ samplesread' = samplesread /\ restarted' = restarted /\ early' = early
  BY <1>1 DEF reader
<1>3. /\ chunks' = chunks /\ size' = size /\ form' = form /\ pipe' = pipe /\ rawmode' = rawmode
      /\ ignorelength' = ignorelength /\ wpc' = wpc /\ Opens' = Opens
      /\ FormatType' = FormatType /\ SoundType' = SoundType
  BY <1>1, StillIs
<1>4. Origin'
  BY <1>1, OriginKept DEF Finds, Still
<1>5. \A f \in chunks : Heading(f)' <=> Heading(f)
  BY <1>2, <1>3 DEF Heading, FirstFormat, GoodFormat, SoundsAhead
<1>6. Seeks'
  BY <1>2, <1>3, <1>5 DEF Finds, Seeks, Searching, OnHeader, Reliable, End
<1>7. \A f, c \in chunks : Found(f, c)' <=> Found(f, c)
  BY <1>2, <1>3 DEF Found, FirstFormat, GoodFormat, FirstSound, GoodSound, LimitKnown, Trusted,
                    Placed, SoundStart, Sought, Stock
<1>8. Placed(0)' <=> Placed(0)
  BY <1>2, <1>3 DEF Placed, Sought, Stock
<1>9. Hears'
  BY <1>2, <1>3, <1>7, <1>8 DEF Finds, Hears
<1>10. Gives' /\ Waits'
  BY <1>2, <1>3 DEF Finds, Gives, Waits
<1> QED
  BY <1>4, <1>6, <1>9, <1>10 DEF Finds

LEMMA NextFinds == Writes /\ Finds /\ [Next]_vars => (Writes /\ Finds)'
<1> SUFFICES ASSUME Writes, Finds, [Next]_vars PROVE (Writes /\ Finds)'
  OBVIOUS
<1>1. Writes'
  BY NextWrites
<1>2. Finds'
  BY <1>1, StutterFinds, OpusdecFinds, OpenRawFinds, IdentifyFinds, SkipChunkFinds, NoChunkFinds,
     ReadFormatFinds, FindDataFinds, ReadCommonFinds, FindSoundFinds, ReadSamplesFinds
     DEF Next, Opusenc
<1> QED
  BY <1>1, <1>2

\* Samples between two places, counted by the place where the audio ends and by the number
\* that fits in between.
LEMMA Fewer ==
  ASSUME NEW a \in Nat, NEW b \in Nat, a <= b
  PROVE  a \div Frame <= b \div Frame
<1>1. PICK j \in Nat, k \in Nat : j = a \div Frame /\ k = b \div Frame
  BY Floor
<1>2. j * Frame <= a /\ b < k * Frame + Frame
  BY <1>1, Floor
<1>3. PICK x \in Nat, y \in Nat : x = j * Frame /\ y = k * Frame
  OBVIOUS
<1>4. (k + 1) * Frame = y + Frame
  BY <1>3
<1>5. j < k + 1
  BY <1>2, <1>3, <1>4, Cancel
<1> QED
  BY <1>1, <1>5

LEMMA WholeIs ==
  ASSUME NEW start \in Nat, NEW n \in Nat, size \in Nat
  PROVE  Whole(start, start + n) = Min(n \div Frame, Stock(start))
<1>1. n \div Frame \in Nat /\ 0 \div Frame = 0
  BY Floor
<1>2. CASE size <= start
  <2>1. Stock(start) = 0 /\ ~(Min(start + n, size) > start)
    BY <1>2 DEF Stock, Min
  <2> QED
    BY <1>1, <2>1 DEF Whole, Min
<1>3. CASE size > start
  <2>1. PICK m \in Nat : m = size - start /\ m > 0
    BY <1>3
  <2>2. Stock(start) = m \div Frame /\ m \div Frame \in Nat
    BY <1>3, <2>1, Floor DEF Stock
  <2>3. CASE m <= n
    <3>1. Min(start + n, size) = size
      BY <2>1, <2>3 DEF Min
    <3>2. m \div Frame <= n \div Frame
      BY <2>3, Fewer
    <3>3. Whole(start, start + n) = m \div Frame
      BY <1>3, <2>1, <3>1 DEF Whole
    <3> QED
      BY <1>1, <2>2, <3>2, <3>3 DEF Min
  <2>4. CASE n < m
    <3>1. Min(start + n, size) = start + n
      BY <2>1, <2>4 DEF Min
    <3>2. n \div Frame <= m \div Frame
      BY <2>4, Fewer
    <3>3. start + n - start = n /\ (start + n > start <=> n # 0)
      OBVIOUS
    <3>4. Whole(start, start + n) = n \div Frame
      BY <1>1, <3>1, <3>3 DEF Whole
    <3> QED
      BY <1>1, <2>2, <3>2, <3>4 DEF Min
  <2> QED
    BY <2>1, <2>3, <2>4
<1> QED
  BY <1>2, <1>3

LEMMA WholeToEnd ==
  ASSUME NEW start \in Nat, size \in Nat
  PROVE  Whole(start, size) = Stock(start)
BY DEF Whole, Stock, Min

\* Of a data chunk that opusenc keeps to, it knows the length.
LEMMA Kept ==
  ASSUME Writes, NEW f \in chunks, NEW c \in chunks, LimitKnown(f, c), form = "WAVE", ~early
  PROVE  IF Overreads(f, c) THEN totalsamples = 0
         ELSE totalsamples = c.len \div Frame /\ totalsamples > 0
<1>1. c.len \in Nat /\ len = c.len
  BY DEF LimitKnown, Writes, TypeOK
<1>2. Overreads(f, c) <=> ~(~ignorelength /\ Trusted(len))
  <2>1. Overreads(f, c) <=> ignorelength \/ c.len <= 4 * Frame \/ c.len >= Plausible
    BY DEF Overreads
  <2>2. Trusted(len) <=> c.len > Frame * 4 /\ c.len < Plausible
    BY <1>1 DEF Trusted
  <2>3. 4 * Frame = Frame * 4 /\ Frame * 4 \in Nat
    OBVIOUS
  <2>4. Trusted(len) <=> ~(c.len <= 4 * Frame) /\ ~(c.len >= Plausible)
    BY <1>1, <2>2, <2>3
  <2> QED
    BY <2>1, <2>4
<1>3. totalsamples = IF ~ignorelength /\ Trusted(len) THEN len \div Frame ELSE 0
  BY DEF LimitKnown
<1>4. ASSUME Trusted(len) PROVE c.len \div Frame > 0
  <2>1. c.len > Frame * 4
    BY <1>1, <1>4 DEF Trusted
  <2>2. PICK k \in Nat : k = c.len \div Frame
    BY <1>1, Floor
  <2>3. c.len < k * Frame + Frame
    BY <1>1, <2>2, Floor
  <2>4. ASSUME k = 0 PROVE FALSE
    <3>1. k * Frame = 0
      BY <2>4
    <3> QED
      BY <1>1, <2>1, <2>3, <3>1
  <2> QED
    BY <2>2, <2>4
<1> QED
  BY <1>1, <1>2, <1>3, <1>4

\* Between them, these chunks say how many samples opusenc should read.
LEMMA SamplesAre ==
  ASSUME Writes, form # "raw", NEW f \in chunks, NEW c \in chunks, LimitKnown(f, c), ~early,
         First(Formats) = f, First(Sounds) = c
  PROVE  Samples = Sought(SoundStart(c))
<1>1. /\ size \in Nat /\ c.at \in Nat /\ c.says \in Nat /\ c.len \in Nat /\ f.says \in Nat
      /\ totalsamples \in Nat
  BY DEF Writes, TypeOK
<1>2. PICK start \in Nat : start = SoundStart(c)
  BY <1>1 DEF SoundStart
<1>3. AudioFrom(c) = start
  BY <1>2 DEF AudioFrom, SoundStart
<1>4. Samples = Whole(start, AudioEnd(f, c))
  BY <1>3 DEF Samples
<1>5. CASE form = "AIFF"
  <2>1. totalsamples = f.says
    BY <1>5 DEF LimitKnown
  <2>2. CASE f.says > 0
    <3>1. AudioEnd(f, c) = start + f.says * Frame
      BY <1>3, <1>5, <2>2 DEF AudioEnd
    <3>2. PICK n \in Nat : n = f.says * Frame
      BY <1>1
    <3>3. n \div Frame = f.says
      BY <1>1, <3>2
    <3>4. Whole(start, start + n) = Min(f.says, Stock(start))
      BY <1>1, <3>3, WholeIs
    <3> QED
      BY <1>2, <1>4, <2>1, <2>2, <3>1, <3>2, <3>4 DEF Sought
  <2>3. CASE ~(f.says > 0)
    <3>1. AudioEnd(f, c) = size
      BY <1>1, <1>5, <2>3 DEF AudioEnd, Overreads
    <3> QED
      BY <1>1, <1>2, <1>4, <2>1, <2>3, <3>1, WholeToEnd DEF Sought
  <2> QED
    BY <2>2, <2>3
<1>6. CASE form = "WAVE"
  <2>1. CASE Overreads(f, c)
    <3>1. totalsamples = 0 /\ AudioEnd(f, c) = size
      BY <1>6, <2>1, Kept DEF AudioEnd
    <3> QED
      BY <1>1, <1>2, <1>4, <3>1, WholeToEnd DEF Sought
  <2>2. CASE ~Overreads(f, c)
    <3>1. totalsamples = c.len \div Frame /\ totalsamples > 0
      BY <1>6, <2>2, Kept
    <3>2. AudioEnd(f, c) = start + c.len
      BY <1>1, <1>2, <1>6, <2>2 DEF AudioEnd, AudioTo, SoundStart
    <3>3. Whole(start, start + c.len) = Min(totalsamples, Stock(start))
      BY <1>1, <3>1, WholeIs
    <3> QED
      BY <1>2, <1>4, <3>1, <3>2, <3>3 DEF Sought
  <2> QED
    BY <2>1, <2>2
<1> QED
  BY <1>5, <1>6 DEF Writes, TypeOK

\* The search is always at a chunk, and opusenc does not leave a chunk that it keeps to.
LEMMA OnlyAudioHere ==
  ASSUME Writes, Finds
  PROVE  OnlyAudio
<1>1. pos \in Nat /\ size \in Nat /\ totalsamples \in Nat
      /\ \A c \in chunks : c.at \in Nat /\ c.says \in Nat /\ c.len \in Nat
  BY DEF Writes, TypeOK
<1>2. ASSUME rpc \in {"read", "done"}, ~rawmode
      PROVE  /\ pos >= Min(size, AudioFrom(First(Sounds)))
             /\ ~early /\ ~Overreads(First(Formats), First(Sounds)) =>
                  pos <= AudioTo(First(Sounds))
  <2>1. PICK f \in chunks, c \in chunks : Found(f, c) /\ form # "raw"
    BY <1>2 DEF Finds, Hears
  <2>2. First(Formats) = f /\ First(Sounds) = c
    BY <2>1, SoundOpens DEF Found, Finds
  <2>3. PICK start \in Nat : start = SoundStart(c)
    BY <1>1 DEF SoundStart
  <2>4. AudioFrom(c) = start
    BY <2>3 DEF AudioFrom, SoundStart
  <2>5. /\ pos >= start \/ pos >= size
        /\ totalsamples > 0 => pos <= start + totalsamples * Frame
    BY <2>1, <2>3 DEF Found, Placed
  <2>6. pos >= Min(size, start)
    BY <1>1, <2>5 DEF Min
  <2>7. ASSUME ~early, ~Overreads(f, c) PROVE pos <= AudioTo(c)
    <3>1. CASE form = "WAVE"
      <4>1. totalsamples = c.len \div Frame /\ totalsamples > 0
        BY <2>1, <2>7, <3>1, Kept DEF Found
      <4>2. PICK n \in Nat : n = totalsamples * Frame /\ n <= c.len
        BY <1>1, <4>1, Floor
      <4>3. AudioTo(c) = start + c.len
        BY <1>1, <2>3, <3>1 DEF AudioTo, SoundStart
      <4> QED
        BY <1>1, <2>5, <4>1, <4>2, <4>3
    <3>2. CASE form = "AIFF"
      <4>1. totalsamples = f.says
        BY <2>1, <3>2 DEF Found, LimitKnown
      <4>2. f.says > 0 /\ start + f.says * Frame <= AudioTo(c)
        <5>1. f.says # 0 /\ ~(start + f.says * Frame > AudioTo(c))
          BY <2>4, <2>7, <3>2 DEF Overreads
        <5>2. PICK n \in Nat : n = f.says * Frame
          BY <1>1
        <5>3. AudioTo(c) \in Nat
          BY <1>1 DEF AudioTo
        <5> QED
          BY <1>1, <5>1, <5>2, <5>3
      <4>3. PICK n \in Nat : n = f.says * Frame
        BY <1>1
      <4>4. AudioTo(c) \in Nat
        BY <1>1 DEF AudioTo
      <4> QED
        BY <1>1, <2>5, <4>1, <4>2, <4>3, <4>4
    <3> QED
      BY <2>1, <3>1, <3>2 DEF Writes, TypeOK
  <2> QED
    BY <2>2, <2>4, <2>6, <2>7
<1>3. ASSUME Searching, Present(8) PROVE \E c \in chunks : c.at = pos
  <2>1. OnHeader /\ form # "raw" /\ size >= pos + 8
    BY <1>3 DEF Finds, Seeks, Present
  <2>2. LaidOut(form, chunks, size)
    BY <2>1, Laid DEF Finds
  <2> QED
    BY <1>1, <2>1, <2>2 DEF OnHeader, LaidOut
<1> QED
  BY <1>2, <1>3 DEF OnlyAudio

\* Of any file, opusdec's or another program's, whole or cut off, from a pipe or not, and
\* for samples and reads of any size: opusenc reads exactly the samples that lie in the
\* data chunk, or that the common chunk counts, and no byte behind the chunk; unless it is
\* one of those it does not keep to, of which it says what is read.
THEOREM ReadAsDeclared == Spec => []AsDeclared
<1>1. Init => Writes /\ Finds
  BY InitWrites, InitFinds
<1>2. Writes /\ Finds => AsDeclared
  <2> SUFFICES ASSUME Writes, Finds PROVE AsDeclared
    OBVIOUS
  <2>1. ASSUME Settled, rawmode PROVE rpc = "done" /\ samplesread = size \div Frame
    <3>1. rpc \in {"done", "refused"} /\ wpc = "closed" /\ ~early
      BY <2>1 DEF Settled
    <3>2. rpc = "done"
      BY <2>1, <3>1 DEF Finds, Gives
    <3>3. totalsamples = 0 /\ samplesread = Sought(0)
      BY <2>1, <3>1, <3>2 DEF Finds, Hears, Placed
    <3>4. Sought(0) = size \div Frame
      <4>1. size \in Nat
        BY DEF Writes, TypeOK
      <4>2. size - 0 = size /\ 0 \div Frame = 0
        BY <4>1
      <4> QED
        BY <3>3, <4>1, <4>2 DEF Sought, Stock
    <3> QED
      BY <3>2, <3>3, <3>4
  <2>2. ASSUME Settled, ~rawmode
        PROVE  IF Opens THEN rpc = "done" /\ samplesread = Samples ELSE rpc = "refused"
    <3>1. rpc \in {"done", "refused"} /\ wpc = "closed" /\ ~early
      BY <2>2 DEF Settled
    <3>2. CASE rpc = "refused"
      <4>1. ~Opens
        BY <3>1, <3>2 DEF Finds, Gives, Opens
      <4> QED
        BY <3>2, <4>1
    <3>3. CASE rpc = "done"
      <4>1. PICK f \in chunks, c \in chunks : Found(f, c) /\ form # "raw"
        BY <2>2, <3>3 DEF Finds, Hears
      <4>2. Opens /\ First(Formats) = f /\ First(Sounds) = c
        BY <4>1, SoundOpens DEF Found, Finds
      <4>3. samplesread = Sought(SoundStart(c))
        BY <3>1, <3>3, <4>1 DEF Found, Placed
      <4>4. Samples = Sought(SoundStart(c))
        BY <3>1, <4>1, <4>2, SamplesAre DEF Found
      <4> QED
        BY <3>3, <4>2, <4>3, <4>4
    <3> QED
      BY <3>1, <3>2, <3>3
  <2> QED
    BY <2>1, <2>2, OnlyAudioHere DEF AsDeclared
<1> QED
  BY <1>1, <1>2, NextFinds, PTL DEF Spec
=============================================================================
