------------------------------ MODULE WavFile ------------------------------
(***************************************************************************)
(* An audio file between two programs of opus-tools: opusdec writes it     *)
(* (src/wav_io.c), to a file or a pipe, as WAV with sizes it only learns   *)
(* at the end, or as raw samples; opusenc reads it, or a WAV or AIFF file  *)
(* that another program wrote (src/audio-in.c).  Contents are left out: a  *)
(* file is its form, the set of its chunks, each with its place and the    *)
(* length its header claims, and the number of bytes that are there.       *)
(***************************************************************************)
EXTENDS Integers, FiniteSets

CONSTANTS
  Frame,      \* channels * samplesize, the bytes of one sample of all channels
  FrameSize,  \* samples opusenc asks for at a time
  Unknown,    \* 0xffffffff, the greatest value of a size field
  Plausible,  \* 2^31 - 65536, from where on wav_open does not trust a length
  Buffer,     \* samples that stdio may hold back
  MaxAudio,   \* bound: samples opusdec writes
  Others      \* files of other programs: [form, chunks, size]

ASSUME SizeAssumption ==
  /\ \A n \in {Frame, FrameSize, Unknown, Plausible} : n \in Nat \ {0}
  /\ MaxAudio \in Nat /\ Buffer \in Nat /\ Plausible <= Unknown /\ 40 <= Unknown
ASSUME OthersAssumption ==
  \A o \in Others :
    /\ o.form \in {"WAVE", "AIFF"} /\ o.size \in Nat
    /\ \A c \in o.chunks : /\ c.at \in Nat /\ c.len \in 0 .. Unknown
                           /\ c.ok \in BOOLEAN /\ c.says \in Nat

\* Chunks are padded to an even length.
Padded(n) == n + (n % 2)
End(c)    == c.at + 8 + Padded(c.len)

\* In a WAV file the length of a data chunk behind the format may be wrong, as when it was
\* made in a pipe; no other may, or the chunks behind it could not be found.
Reliable(kind, all, c) ==
  kind = "WAVE" /\ c.type = "data" => \A f \in all : f.type = "fmt" => f.at >= c.at

\* From byte 12 on, a chunk begins where the one before it ends, as far as the file goes.
LaidOut(kind, all, n) ==
  /\ n >= 20 => \E c \in all : c.at = 12
  /\ \A c \in all : c.at >= 12 /\ \A d \in all : c.at = d.at => c = d
  /\ \A c \in all : Reliable(kind, all, c) =>
       /\ n >= End(c) + 8 => \E d \in all : d.at = End(c)
       /\ \A d \in all : d.at > c.at => d.at >= End(c)

ASSUME LayoutAssumption == \A o \in Others : LaidOut(o.form, o.chunks, o.size)

VARIABLES
  form,                  \* of the file: "WAVE", "AIFF" or "raw"
  chunks, size,          \* its chunks and the bytes written
  riff,                  \* the length field of the RIFF header
  pipe,                  \* opusdec writes to a pipe and opusenc reads from it
  wpc, wav_format, audio_size,              \* opusdec
  buffered,              \* bytes fwrite has taken and not written yet
  ignorelength, rawmode, \* opusenc --ignorelength, --raw
  rpc, pos, len, totalsamples, samplesread, \* opusenc
  restarted,             \* of the last call of find_aiff_chunk
  early,                 \* history: opusenc read a file opusdec was still writing
  lost                   \* history: bytes fwrite had taken did not get into the file

header  == <<chunks, riff>>
options == <<form, pipe, ignorelength, rawmode>>
stdio   == <<size, buffered, lost>>
writer  == <<wpc, wav_format, audio_size>>
reader  == <<rpc, pos, len, totalsamples, samplesread, restarted, early>>
vars    == <<header, options, stdio, writer, reader>>

Min(a, b) == IF a < b THEN a ELSE b

\* A chunk of opusdec's or another program's: `at` is where its header starts, `says`
\* the number of samples in a COMM chunk, the offset in an SSND chunk.
Chunk(type, at, length, ok) ==
  [type |-> type, at |-> at, len |-> length, ok |-> ok, says |-> 0]

NoFormat == 0

Init ==
  /\ pipe \in BOOLEAN /\ ignorelength \in BOOLEAN /\ rawmode \in BOOLEAN
  /\ \/ form = "WAVE" /\ chunks = {} /\ size = 0 /\ wpc = "header"
     \/ form = "raw" /\ chunks = {} /\ size = 0 /\ wpc = "audio"
     \/ \E o \in Others : form = o.form /\ chunks = o.chunks /\ size = o.size /\ wpc = "closed"
  /\ riff = Unknown /\ wav_format = NoFormat /\ audio_size = 0
  /\ rpc = "id" /\ pos = 0 /\ len = 0 /\ totalsamples = 0 /\ samplesread = 0
  /\ restarted = FALSE /\ early = FALSE /\ buffered = 0 /\ lost = FALSE

-----------------------------------------------------------------------------
(* opusdec.                                                                *)

\* stdio writes out what it holds and `more` bytes that were just passed to it, or,
\* on a full disk or when the program ends there, only a part.
WriteOut(more) ==
  \E b \in 0 .. buffered + more :
    /\ size' = size + b /\ buffered' = 0 /\ lost' = (lost \/ b < buffered)

Flush == size' = size + buffered /\ buffered' = 0 /\ lost' = lost

\* write_wav_header: the lengths are not known yet.
WavHeader(format) ==
  {Chunk("fmt", 12, format, TRUE), Chunk("data", 20 + format, Unknown, TRUE)}

WriteHeader ==
  /\ wpc = "header"
  /\ \E format \in {16, 40} :
       /\ wav_format' = format /\ chunks' = WavHeader(format)
       /\ \/ size' = 28 + format /\ buffered' = 0
          \/ size' = 0 /\ buffered' = 28 + format
  /\ wpc' = "audio"
  /\ UNCHANGED <<riff, options, lost, audio_size, reader>>

\* Some part of it cannot be written: opusdec gives up.
HeaderFails ==
  /\ wpc = "header"
  /\ \E format \in {16, 40} : chunks' = WavHeader(format) /\ size' \in 0 .. 27 + format
  /\ wpc' = "closed"
  /\ UNCHANGED <<riff, options, buffered, lost, wav_format, audio_size, reader>>

\* fwrite in audio_write, one sample at a time.
WriteAudio ==
  /\ wpc = "audio" /\ audio_size < MaxAudio * Frame
  /\ audio_size' = audio_size + Frame
  /\ \/ buffered < Buffer * Frame /\ buffered' = buffered + Frame /\ UNCHANGED <<size, lost>>
     \/ size' = size + buffered + Frame /\ buffered' = 0 /\ lost' = lost
  /\ UNCHANGED <<header, options, wpc, wav_format, reader>>

\* The disk is full, perhaps in the middle of a sample, which what fwrite returns does
\* not count.  opusdec goes on to the end of its input, but the disk stays full.
AudioFails ==
  /\ wpc = "audio"
  /\ WriteOut(Frame - 1)
  /\ wpc' = "riff"
  /\ UNCHANGED <<header, options, wav_format, audio_size, reader>>

EndOfStream ==
  /\ wpc = "audio"
  /\ wpc' = "riff"
  /\ UNCHANGED <<header, options, stdio, wav_format, audio_size, reader>>

\* A conversion to opus_int32 and back to the four bytes of the field.
M_FieldSigned(n) == IF n > Unknown \div 2 THEN n - (Unknown + 1) ELSE n
Field(n) == n % (Unknown + 1)

M_RiffFitsAlways == TRUE
RiffFits == audio_size < Unknown - 20 - wav_format
DataFits == audio_size < Unknown

\* A raw file is only closed, which writes out what stdio holds.
CloseRaw ==
  /\ wpc = "riff" /\ wav_format = NoFormat
  /\ WriteOut(0)
  /\ wpc' = "closed"
  /\ UNCHANGED <<header, options, wav_format, audio_size, reader>>

\* update_wav_header, as far as the length of the RIFF.  fseek first writes out what
\* is buffered.  A pipe cannot seek, and a file may fail to; then the other length is
\* not written either.
UpdateRiff ==
  /\ wpc = "riff" /\ wav_format # NoFormat
  /\ \/ ~RiffFits /\ wpc' = "data" /\ UNCHANGED <<riff, stdio>>
     \/ RiffFits /\ ~pipe /\ Flush /\ riff' = Field(audio_size + 20 + wav_format) /\ wpc' = "data"
     \/ RiffFits /\ WriteOut(0) /\ riff' = riff /\ wpc' = "closed"
  /\ UNCHANGED <<chunks, options, wav_format, audio_size, reader>>

\* The length of the data chunk, four bytes into its header; the file is closed.
UpdateData ==
  /\ wpc = "data"
  /\ \/ /\ DataFits /\ ~pipe /\ Flush
        /\ chunks' = {IF c.at + 4 = 24 + wav_format THEN [c EXCEPT !.len = Field(audio_size)] ELSE c
                        : c \in chunks}
     \/ WriteOut(0) /\ chunks' = chunks
  /\ wpc' = "closed"
  /\ UNCHANGED <<riff, options, wav_format, audio_size, reader>>

\* opusdec is killed, perhaps within a write.
Kill ==
  /\ wpc \in {"audio", "riff", "data"}
  /\ WriteOut(IF wpc = "audio" THEN Frame - 1 ELSE 0)
  /\ wpc' = "closed"
  /\ UNCHANGED <<header, options, wav_format, audio_size, reader>>

-----------------------------------------------------------------------------
(* opusenc.                                                                *)

\* fread of n bytes returns: they are there, or will not come, or the file ends
\* here for now.
Ready(n)   == pipe => (size >= pos + n \/ wpc = "closed")
Present(n) == size >= pos + n
Early      == early' = (early \/ (~pipe /\ wpc # "closed"))

Refuse == rpc' = "refused" /\ UNCHANGED <<pos, len, totalsamples, samplesread, restarted>>

\* raw_open: everything is audio.
OpenRaw ==
  /\ rpc = "id" /\ rawmode
  /\ rpc' = "read" /\ totalsamples' = 0 /\ samplesread' = 0
  /\ UNCHANGED <<header, options, stdio, writer, pos, len, restarted, early>>

\* open_audio_file reads the first 12 bytes; wav_id and aiff_id look at them.
Identify ==
  /\ rpc = "id" /\ ~rawmode /\ Ready(12)
  /\ IF form # "raw" /\ Present(12)
     THEN /\ rpc' = IF form = "WAVE" THEN "fmt" ELSE "COMM"
          /\ pos' = 12 /\ UNCHANGED <<len, totalsamples, samplesread, restarted>>
     ELSE Refuse
  /\ Early /\ UNCHANGED <<header, options, stdio, writer>>

\* seek_forward from p: past the end of a file too, but not of a pipe, whose bytes
\* are read.
CanSeek(p, n) == pipe /\ n > 0 => size >= p + n
SeekReady(p, n) == pipe => (size >= p + n \/ wpc = "closed")

\* The chunk wanted by find_wav_chunk or find_aiff_chunk is rpc.
Searching == rpc \in {"fmt", "data", "COMM", "SSND"}

\* One chunk in find_wav_chunk or find_aiff_chunk that is not the one wanted.
SkipChunk ==
  /\ Searching /\ Ready(8) /\ Present(8)
  /\ \E c \in chunks :
       /\ c.at = pos /\ c.type # rpc
       /\ SeekReady(pos + 8, Padded(c.len))
       /\ IF CanSeek(pos + 8, Padded(c.len))
          THEN pos' = pos + 8 + Padded(c.len)
               /\ UNCHANGED <<rpc, len, totalsamples, samplesread, restarted>>
          ELSE Refuse
  /\ Early /\ UNCHANGED <<header, options, stdio, writer>>

\* No further chunk.  find_aiff_chunk starts over once, since chunks may come in any
\* order, unless it reads from a pipe.
StartsOver == form = "AIFF" /\ ~restarted /\ ~pipe
NoChunk ==
  /\ Searching /\ Ready(8) /\ ~Present(8)
  /\ IF StartsOver
     THEN pos' = 12 /\ restarted' = TRUE /\ UNCHANGED <<rpc, len, totalsamples, samplesread>>
     ELSE Refuse
  /\ Early /\ UNCHANGED <<header, options, stdio, writer>>

\* read_chunk, and the same in wav_open: at most `most` bytes of a chunk, and on to the
\* next one.
ReadChunk(c, most) ==
  LET readlen == Min(c.len, most)
  IN /\ size >= pos + 8 + readlen
     /\ CanSeek(pos + 8 + readlen, Padded(c.len) - readlen)

\* wav_open finds and reads the format chunk.
ReadFormat ==
  /\ rpc = "fmt" /\ Ready(8) /\ Present(8)
  /\ \E c \in chunks :
       /\ c.at = pos /\ c.type = "fmt"
       /\ SeekReady(pos + 8, Padded(c.len))
       /\ IF c.len >= 16 /\ c.ok /\ ReadChunk(c, 40)
          THEN /\ pos' = pos + 8 + Padded(c.len) /\ rpc' = "data"
               /\ UNCHANGED <<len, totalsamples, samplesread, restarted>>
          ELSE Refuse
  /\ Early /\ UNCHANGED <<header, options, stdio, writer>>

\* aiff_open finds and reads the common chunk.  Of a search that starts over, the next
\* one knows nothing.
ReadCommon ==
  /\ rpc = "COMM" /\ Ready(8) /\ Present(8)
  /\ \E c \in chunks :
       /\ c.at = pos /\ c.type = "COMM"
       /\ SeekReady(pos + 8, Padded(c.len))
       /\ IF c.len >= 18 /\ c.ok /\ ReadChunk(c, 22)
          THEN /\ pos' = pos + 8 + Padded(c.len) /\ rpc' = "SSND"
               /\ totalsamples' = c.says /\ restarted' = FALSE
               /\ UNCHANGED <<len, samplesread>>
          ELSE Refuse
  /\ Early /\ UNCHANGED <<header, options, stdio, writer>>

\* aiff_open finds the sound chunk, reads its own header of 8 bytes and goes on to the
\* audio, as far as it gets.
FindSound ==
  /\ rpc = "SSND" /\ Ready(16) /\ Present(8)
  /\ \E c \in chunks :
       /\ c.at = pos /\ c.type = "SSND"
       /\ SeekReady(pos + 16, c.says)
       /\ IF c.len >= 8 /\ c.ok /\ Present(16)
          THEN /\ pos' = IF CanSeek(pos + 16, c.says) THEN pos + 16 + c.says ELSE size
               /\ len' = c.len /\ samplesread' = 0 /\ rpc' = "read"
               /\ UNCHANGED <<totalsamples, restarted>>
          ELSE Refuse
  /\ Early /\ UNCHANGED <<header, options, stdio, writer>>

\* "Chunk length is plausible."
M_TrustedAlways(n) == TRUE
M_TrustedFromFour(n) == n >= Frame * 4 /\ n < Plausible
Trusted(n) == n > Frame * 4 /\ n < Plausible

\* wav_open finds the data chunk.
FindData ==
  /\ rpc = "data" /\ Ready(8) /\ Present(8)
  /\ \E c \in chunks :
       /\ c.at = pos /\ c.type = "data"
       /\ len' = c.len
       /\ totalsamples' = IF ~ignorelength /\ Trusted(c.len) THEN c.len \div Frame ELSE 0
  /\ pos' = pos + 8 /\ samplesread' = 0 /\ rpc' = "read"
  /\ Early /\ UNCHANGED <<header, options, stdio, writer, restarted>>

\* How many samples wav_read and wav_ieee_read ask for.
Wanted ==
  IF totalsamples > 0 /\ FrameSize > totalsamples - samplesread
  THEN totalsamples - samplesread ELSE FrameSize

\* A read by the encoding loop, which ends after a short one.  fread also takes the
\* bytes of an incomplete sample.
ReadSamples ==
  /\ rpc = "read" /\ Ready(Wanted * Frame)
  /\ LET there == IF size > pos THEN (size - pos) \div Frame ELSE 0
         got   == Min(Wanted, there)
     IN /\ samplesread' = samplesread + got
        /\ pos' = IF got = Wanted THEN pos + got * Frame ELSE IF size > pos THEN size ELSE pos
        /\ rpc' = IF got < FrameSize THEN "done" ELSE "read"
  /\ Early /\ UNCHANGED <<header, options, stdio, writer, len, totalsamples, restarted>>

-----------------------------------------------------------------------------
Opusdec == WriteHeader \/ HeaderFails \/ WriteAudio \/ AudioFails \/ EndOfStream
           \/ CloseRaw \/ UpdateRiff \/ UpdateData \/ Kill
Opusenc == OpenRaw \/ Identify \/ SkipChunk \/ NoChunk \/ ReadFormat \/ FindData
           \/ ReadCommon \/ FindSound \/ ReadSamples

Next == Opusdec \/ Opusenc

Spec == Init /\ [][Next]_vars

-----------------------------------------------------------------------------
(* Correctness.                                                            *)

TypeOK ==
  /\ \A c \in chunks : c.at \in Nat /\ c.len \in 0 .. Unknown /\ c.ok \in BOOLEAN /\ c.says \in Nat
  /\ form \in {"WAVE", "AIFF", "raw"} /\ rawmode \in BOOLEAN /\ restarted \in BOOLEAN
  /\ size \in Nat /\ riff \in 0 .. Unknown /\ pipe \in BOOLEAN /\ early \in BOOLEAN
  /\ ignorelength \in BOOLEAN /\ buffered \in Nat /\ lost \in BOOLEAN
  /\ wpc \in {"header", "audio", "riff", "data", "closed"}
  /\ wav_format \in {NoFormat, 16, 40} /\ audio_size \in Nat
  /\ rpc \in {"id", "fmt", "data", "COMM", "SSND", "read", "done", "refused"}
  /\ pos \in Nat /\ len \in 0 .. Unknown /\ totalsamples \in Nat /\ samplesread \in Nat

\* opusenc is through, with a file that nobody writes any more.
Settled == rpc \in {"done", "refused"} /\ wpc = "closed" /\ ~early

\* What opusdec wrote, opusenc reads back, whether through a file or a pipe, with a
\* header or without, whether or not the sizes fitted or could be updated, on a full
\* disk, and when opusdec was killed: nothing but samples that were counted, and all of
\* them if no byte was lost.
RoundTrip ==
  Settled /\ (wav_format # NoFormat \/ form = "raw") /\ (rawmode <=> form = "raw") =>
    /\ samplesread * Frame <= audio_size
    /\ ~lost => rpc = "done" /\ samplesread * Frame = audio_size

\* The sizes in the header are right or say "unknown", at every moment, also where
\* they do not fit into 32 bits; and they do not claim more than there is.
SizesHonest ==
  wav_format # NoFormat =>
    \A c \in chunks :
      /\ riff \in {Unknown, audio_size + 20 + wav_format}
      /\ c.type = "data" => c.len \in {Unknown, audio_size}
      /\ c.type = "data" /\ c.len # Unknown /\ ~lost => size >= c.at + 8 + c.len

\* What the sequence of chunks says.  In a WAV file the data chunk that counts is the
\* first one behind the first format chunk.  In an AIFF file the sound may also come
\* before the common chunk; but one behind it goes first, and from a pipe no other can
\* be read.
First(S) == CHOOSE c \in S : \A d \in S : d.at >= c.at
There(type, n) == {c \in chunks : c.type = type /\ size >= c.at + n}
Behind(c, S) == {d \in S : d.at > c.at}

Formats == There(IF form = "WAVE" THEN "fmt" ELSE "COMM", 8)

Sounds ==
  LET all    == There(IF form = "WAVE" THEN "data" ELSE "SSND", 8)
      behind == Behind(First(Formats), all)
  IN IF form = "AIFF" /\ behind = {} /\ ~pipe THEN all ELSE behind

Opens ==
  /\ form # "raw" /\ Formats # {} /\ First(Formats).ok
  /\ First(Formats).len >= IF form = "WAVE" THEN 16 ELSE 18
  /\ Sounds # {}
  /\ form = "AIFF" =>
       /\ size >= First(Formats).at + 8 + Min(First(Formats).len, 22)
       /\ First(Sounds).ok /\ First(Sounds).len >= 8 /\ size >= First(Sounds).at + 16

\* The bytes of the audio, by where the chunk is and how long: behind its header, and in
\* an SSND chunk behind two more fields and the offset that the first one says.
AudioFrom(c) == c.at + (IF form = "WAVE" THEN 8 ELSE 16 + c.says)
AudioTo(c)   == c.at + 8 + c.len

\* Whole samples in the bytes of the file between two places.
Whole(from, to) ==
  IF Min(to, size) > from THEN (Min(to, size) - from) \div Frame ELSE 0

\* Where opusenc does not keep to the chunk: the data chunk has no more than four samples
\* or 2^31 - 65536 bytes or more, or --ignorelength was given; the common chunk counts no
\* samples, or more than the sound chunk holds.
Overreads(f, c) ==
  IF form = "WAVE" THEN ignorelength \/ c.len <= 4 * Frame \/ c.len >= Plausible
  ELSE f.says = 0 \/ AudioFrom(c) + f.says * Frame > AudioTo(c)

\* In an AIFF file it is the common chunk that says how long the audio is.
AudioEnd(f, c) ==
  IF form = "AIFF" /\ f.says > 0 THEN AudioFrom(c) + f.says * Frame
  ELSE IF Overreads(f, c) THEN size ELSE AudioTo(c)

Samples ==
  LET c == First(Sounds) IN Whole(AudioFrom(c), AudioEnd(First(Formats), c))

\* "Limit the audio data read to this length so that we do not misinterpret any
\* additional chunks after this as audio": of a chunk that opusenc keeps to, it never
\* reads a byte in front of the audio or behind the chunk.  Nor is anything but the header
\* of a chunk taken for one.
OnlyAudio ==
  /\ rpc \in {"read", "done"} /\ ~rawmode =>
       LET c == First(Sounds)
       IN /\ pos >= Min(size, AudioFrom(c))
          /\ ~early /\ ~Overreads(First(Formats), c) => pos <= AudioTo(c)
  /\ Searching /\ Present(8) => \E c \in chunks : c.at = pos

\* opusenc reads exactly the samples that lie in the data chunk, or those of the sound
\* chunk that the common chunk counts, the same from a pipe as from a file that it can
\* seek in, also from a file that was cut off anywhere; of a file it is told to be raw,
\* all of it.  Where Overreads says that it does not keep to the chunk, it reads to the end
\* of the file, whatever chunks are there, or as many samples as the common chunk counts.
AsDeclared ==
  /\ OnlyAudio
  /\ Settled =>
       IF rawmode THEN rpc = "done" /\ samplesread = size \div Frame
       ELSE IF Opens THEN rpc = "done" /\ samplesread = Samples ELSE rpc = "refused"
=============================================================================
