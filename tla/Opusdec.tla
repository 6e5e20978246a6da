------------------------------ MODULE Opusdec ------------------------------
(***************************************************************************)
(* Sample accounting of opusdec: the main decoding loop, audio_write and   *)
(* drain_resampler (src/opusdec.c) together with the resampler they feed   *)
(* (src/resample.c).  Sample values are left out.  What is kept is how     *)
(* many samples each loop consumes and produces, so that the length of the *)
(* output can be compared with the length of every link of the input.      *)
(***************************************************************************)
EXTENDS Integers

CONSTANTS
  InRate,      \* 48000, the rate of decoded audio
  Ratios,      \* num/den as speex_resampler_set_rate_frac reduced it; the
               \* output rate is g * den and InRate is g * num
  BaseLen,     \* quality_map[5].base_length
  LenStep,     \* filter lengths are rounded up to a multiple of this (8)
  BufferSize,  \* st->buffer_size, the input one pass of the filter takes (160)
  OutChunk,    \* most output samples audio_write asks for at a time (1024)
  DrainChunk,  \* zeros drain_resampler feeds at a time (100)
  Channels,    \* channel_count
  MaxFrame,    \* bound: most samples one op_read_float returns
  MaxRead,     \* bound: most samples of one link
  MaxLinks     \* bound: links of the chained stream

\* The filter length update_filter chooses: longer for down-sampling.
FiltLen(q) ==
  IF q.num > q.den
  THEN (((BaseLen * q.num) \div q.den - 1) \div LenStep) * LenStep + LenStep
  ELSE BaseLen

\* speex_resampler_get_input_latency
Latency(q) == FiltLen(q) \div 2

ASSUME RatioAssumption ==
  /\ InRate \in Nat \ {0}
  /\ \A q \in Ratios : /\ q.num \in Nat \ {0} /\ q.den \in Nat \ {0} /\ q.g \in Nat \ {0}
                       /\ q.num * q.g = InRate
                       /\ Latency(q) \in Nat
                       /\ Latency(q) * q.den >= 2 * q.num
ASSUME BoundAssumption ==
  /\ \A n \in {BufferSize, OutChunk, DrainChunk, Channels, MaxFrame} : n \in Nat \ {0}
  /\ MaxRead \in Nat /\ MaxLinks \in Nat

VARIABLES
  ratio,                 \* the ratio of this run of the program
  file_output,           \* to a file, or to the sound card
  pc,
  links,                 \* links opened so far
  link_read, link_out, audio_size,
  resampler,             \* resampler # NULL
  phase,                 \* per channel: last_sample * den_rate + samp_frac_num
  pending,               \* nb_read, while the previous link is drained
  drain,                 \* zeros drain_resampler still has to feed; -1 outside it
  frame_size, maxout,    \* of the running audio_write
  out_len,               \* samples audio_write is about to write
  ch, ilen, olen,        \* of the running speex_resampler_process_float
  consumed, made,        \* history: samples through the filter, per channel
  dropped,               \* history: samples of this link never fed to the filter
  expected,              \* history: lengths of the finished links, resampled
  failed                 \* history: a write was short or failed

fixed   == <<ratio, file_output>>
filter  == <<phase, consumed, made>>
cursor  == <<ch, ilen, olen, out_len>>
history == <<dropped, expected, failed>>
vars == <<fixed, pc, links, link_read, link_out, audio_size, resampler, filter,
          pending, drain, frame_size, maxout, cursor, history>>

Chan == 1 .. Channels
Min(a, b) == IF a < b THEN a ELSE b
Rate == ratio.den * ratio.g

\* The target length of audio_write, in the split form it is computed.
Target(n) == (n \div InRate) * Rate + ((n % InRate) * Rate) \div InRate
MaxOut(read, out) == IF Target(read) < out THEN 0 ELSE Target(read) - out

\* A new resampler after speex_resampler_skip_zeros.
M_FreshWithZeros == phase' = [c \in Chan |-> 0] /\ consumed' = phase' /\ made' = phase'
FreshFilter ==
  /\ phase' = [c \in Chan |-> Latency(ratio) * ratio.den]
  /\ consumed' = [c \in Chan |-> 0] /\ made' = [c \in Chan |-> 0]

Init ==
  /\ ratio \in Ratios /\ file_output \in BOOLEAN
  /\ pc = "read" /\ links = 1
  /\ link_read = 0 /\ link_out = 0 /\ audio_size = 0
  /\ resampler = FALSE
  /\ phase = [c \in Chan |-> 0] /\ consumed = phase /\ made = phase
  /\ pending = 0 /\ drain = -1 /\ frame_size = 0 /\ maxout = 0
  /\ ch = 1 /\ ilen = 0 /\ olen = 0 /\ out_len = 0
  /\ dropped = 0 /\ expected = 0 /\ failed = FALSE

-----------------------------------------------------------------------------
(* The main loop.                                                          *)

\* n decoded samples go to audio_write; at a rate other than 48 kHz through a
\* resampler made when there is none, with its leading zeros skipped.
Decode(n, read, out) ==
  /\ link_read' = read + n
  /\ link_out' = out
  /\ frame_size' = n
  /\ maxout' = MaxOut(read + n, out)
  /\ IF Rate # InRate /\ ~resampler
     THEN resampler' = TRUE /\ FreshFilter
     ELSE UNCHANGED <<resampler, filter>>
  /\ pc' = "iterate"

\* op_read_float returns samples of the current link.
ReadFrame ==
  /\ pc = "read"
  /\ \E n \in 1 .. MaxFrame : link_read + n <= MaxRead /\ Decode(n, link_read, link_out)
  /\ UNCHANGED <<fixed, links, audio_size, pending, drain, cursor, history>>

\* drain_resampler hands the next block of zeros, of the n left, to audio_write.
M_ZerosLeftNone(n) == 0
ZerosLeft(n) == n - Min(n, DrainChunk)
FeedZeros(n) == frame_size' = Min(n, DrainChunk) /\ drain' = ZerosLeft(n)

\* The latency of the filter is how many zeros push out what it holds.
StartDrain ==
  /\ FeedZeros(Latency(ratio))
  /\ maxout' = MaxOut(link_read, link_out)
  /\ pc' = "iterate"

M_MustDrainLast == resampler /\ pending' = 0
MustDrain == resampler

\* It returns samples of another link, or none (end of input, decoding error):
\* what the resampler still holds belongs to the link that ends here.
EndLink ==
  /\ pc = "read"
  /\ \/ pending' = 0
     \/ links < MaxLinks /\ pending' \in 1 .. Min(MaxFrame, MaxRead)
  /\ IF MustDrain
     THEN StartDrain
     ELSE pc' = "linkend" /\ UNCHANGED <<frame_size, maxout, drain>>
  /\ UNCHANGED <<fixed, links, link_read, link_out, audio_size, resampler, filter,
                 cursor, history>>

\* The resampler is destroyed and the counters restart with the pending samples,
\* unless the input is at its end.
NextLink ==
  /\ pc = "linkend" /\ pending > 0
  /\ links' = links + 1 /\ pending' = 0
  /\ link_read' = pending /\ link_out' = 0
  /\ frame_size' = pending /\ maxout' = MaxOut(pending, 0)
  /\ resampler' = (Rate # InRate)
  /\ FreshFilter
  /\ expected' = expected + Target(link_read) /\ dropped' = 0
  /\ pc' = "iterate"
  /\ UNCHANGED <<fixed, audio_size, drain, cursor, failed>>

\* The next link has another channel count (and stereo was not forced): the
\* program stops after the samples of the finished links.
ChannelsChange ==
  /\ pc = "linkend" /\ pending > 0
  /\ link_read' = 0 /\ link_out' = 0 /\ resampler' = FALSE /\ pending' = 0
  /\ expected' = expected + Target(link_read) /\ dropped' = 0
  /\ pc' = "done"
  /\ UNCHANGED <<fixed, links, audio_size, filter, drain, frame_size, maxout,
                 cursor, failed>>

\* update_wav_header and the end of main.
Finish ==
  /\ pc = "linkend" /\ pending = 0
  /\ expected' = expected + Target(link_read)
  /\ resampler' = FALSE
  /\ pc' = "done"
  /\ UNCHANGED <<fixed, links, link_read, link_out, audio_size, filter, pending, drain,
                 frame_size, maxout, cursor, dropped, failed>>

-----------------------------------------------------------------------------
(* audio_write.                                                            *)

OutLen == Min(OutChunk, maxout)

M_RestartInputOnly ==
  ilen' = frame_size /\ olen' = IF pc = "iterate" THEN OutLen ELSE olen
RestartLengths == ilen' = frame_size /\ olen' = OutLen

\* Top of the loop: speex_resampler_process_interleaved_float starts with the
\* first channel.
Resample ==
  /\ pc = "iterate" /\ resampler
  /\ ch' = 1 /\ RestartLengths
  /\ pc' = "channel"
  /\ UNCHANGED <<fixed, links, link_read, link_out, audio_size, resampler, filter,
                 pending, drain, frame_size, maxout, out_len, history>>

\* Top of the loop without a resampler.
PassThrough ==
  /\ pc = "iterate" /\ ~resampler
  /\ out_len' = Min(frame_size, maxout)
  /\ frame_size' = 0
  /\ pc' = "write"
  /\ UNCHANGED <<fixed, links, link_read, link_out, audio_size, resampler, filter,
                 pending, drain, maxout, ch, ilen, olen, history>>

M_OutputsNone(p, in, out, n) == n = 0

\* The loop of resampler_basic_*: n is how many outputs it makes from `in` input
\* samples when there is room for `out`.
Outputs(p, in, out, n) ==
  /\ n = out \/ p + n * ratio.num >= in * ratio.den
  /\ n = 0 \/ p + (n - 1) * ratio.num < in * ratio.den

\* Input speex_resampler_process_native takes out of the filter memory.
M_UsedUnclamped(p, in) == p \div ratio.den
Used(p, in) == Min(p \div ratio.den, in)

\* What is left of the phase p after `used` input samples.
M_PhaseLeftWhole(p, used) == (p \div ratio.den - used) * ratio.den
PhaseLeft(p, used) == p - used * ratio.den

\* One pass of the loop of speex_resampler_process_float on channel ch, with
\* speex_resampler_process_native: the input used leaves the filter memory.
ProcessFloat ==
  /\ pc = "channel" /\ ilen > 0 /\ olen > 0
  /\ LET in == Min(ilen, BufferSize) IN
     \E n \in 0 .. olen :
       LET p    == phase[ch] + n * ratio.num
           used == Used(p, in)
       IN /\ Outputs(phase[ch], in, olen, n)
          /\ phase' = [phase EXCEPT ![ch] = PhaseLeft(p, used)]
          /\ consumed' = [consumed EXCEPT ![ch] = @ + used]
          /\ made' = [made EXCEPT ![ch] = @ + n]
          /\ ilen' = ilen - used /\ olen' = olen - n
  /\ UNCHANGED <<fixed, pc, links, link_read, link_out, audio_size, resampler, pending,
                 drain, frame_size, maxout, ch, out_len, history>>

\* speex_resampler_process_interleaved_float: the next channel gets the lengths of
\* the call again; the lengths of the last channel are the ones returned.
ChannelDone ==
  /\ pc = "channel" /\ (ilen = 0 \/ olen = 0)
  /\ IF ch < Channels
     THEN /\ ch' = ch + 1 /\ RestartLengths
          /\ UNCHANGED <<pc, frame_size, out_len>>
     ELSE /\ frame_size' = ilen /\ out_len' = OutLen - olen
          /\ pc' = "write"
          /\ UNCHANGED <<ch, ilen, olen>>
  /\ UNCHANGED <<fixed, links, link_read, link_out, audio_size, resampler, filter,
                 pending, drain, maxout, history>>

\* What the write of `len` samples may return: less on a full disk, and -1 from
\* WIN_Play_Samples or sio_write.
WriteResults(len) == IF file_output THEN 0 .. len ELSE {len, -1}

\* The write, and the end of the loop: again, back to drain_resampler, which feeds
\* more zeros or returns, or back to the main loop.
Write ==
  /\ pc = "write"
  /\ \E ret \in IF maxout > 0 THEN WriteResults(out_len) ELSE {0} :
       /\ link_out' = link_out + ret
       /\ audio_size' = audio_size + ret
       /\ failed' = (failed \/ (maxout > 0 /\ ret # out_len))
       /\ \/ /\ frame_size > 0 /\ maxout - ret > 0
             /\ maxout' = maxout - ret
             /\ pc' = "iterate"
             /\ UNCHANGED <<frame_size, drain, dropped>>
          \/ /\ ~(frame_size > 0 /\ maxout - ret > 0)
             /\ \/ /\ drain = -1
                   /\ dropped' = dropped + frame_size
                   /\ maxout' = maxout - ret
                   /\ pc' = "read"
                   /\ UNCHANGED <<frame_size, drain>>
                \/ /\ drain > 0
                   /\ FeedZeros(drain)
                   /\ maxout' = MaxOut(link_read, link_out')
                   /\ pc' = "iterate"
                   /\ UNCHANGED dropped
                \/ /\ drain = 0
                   /\ drain' = -1 /\ maxout' = maxout - ret
                   /\ pc' = "linkend"
                   /\ UNCHANGED <<frame_size, dropped>>
  /\ UNCHANGED <<fixed, links, link_read, resampler, filter, pending, cursor, expected>>

-----------------------------------------------------------------------------
Loop == ReadFrame \/ EndLink \/ NextLink \/ ChannelsChange \/ Finish
        \/ Resample \/ PassThrough \/ ProcessFloat \/ ChannelDone \/ Write

Terminated == pc = "done" /\ UNCHANGED vars

Next == Loop \/ Terminated

Spec == Init /\ [][Next]_vars

\* The program runs: op_read_float returns, and a hole in the data, which the loop
\* only skips, is not reported for ever.
FairSpec == Spec /\ WF_vars(Loop)

-----------------------------------------------------------------------------
(* Correctness.                                                            *)

TypeOK ==
  /\ ratio \in Ratios /\ file_output \in BOOLEAN
  /\ pc \in {"read", "iterate", "channel", "write", "linkend", "done"}
  /\ links \in Nat /\ link_read \in Nat /\ link_out \in Int /\ audio_size \in Int
  /\ resampler \in BOOLEAN
  /\ phase \in [Chan -> Nat] /\ consumed \in [Chan -> Nat] /\ made \in [Chan -> Nat]
  /\ pending \in Nat /\ drain \in Nat \cup {-1}
  /\ frame_size \in Nat /\ maxout \in Nat
  /\ ch \in Chan /\ ilen \in Nat /\ olen \in Nat /\ out_len \in Nat
  /\ dropped \in Nat /\ expected \in Nat /\ failed \in BOOLEAN

\* However the decoder cuts the input into frames and audio_write cuts it into
\* passes, output sample k of every channel is taken at input position
\* k * num / den: nothing of the phase is lost where one pass ends.
PhaseExact ==
  resampler => \A c \in Chan :
    phase[c] + consumed[c] * ratio.den = Latency(ratio) * ratio.den + made[c] * ratio.num

\* audio_write advances its pointers by what the last channel consumed and made;
\* every other channel consumed and made the same.
LockStep ==
  pc \notin {"channel"} => \A c \in Chan : phase[c] = phase[1] /\ consumed[c] = consumed[1]

\* The output of a link never gets ahead of its input at the output rate.
NeverAhead == link_out <= Target(link_read)

\* audio_write leaves its loop with input unread when maxout is used up.  That
\* input never reaches the filter; it is always less than one output sample.
DropsLessThanOneOutput == ~failed => dropped * ratio.den < ratio.num

\* "to be sure we get an accurate number of output samples": when a link ends,
\* after drain_resampler, its output is exactly as long as its input at the
\* output rate, rounded down.
LinkExact == pc = "linkend" /\ ~failed => link_out = Target(link_read)

\* The size update_wav_header is given is the sum of the lengths of the links.
FileSizeExact == pc = "done" /\ ~failed => audio_size = expected

\* Neither loop of audio_write, nor drain_resampler, spins without progress.
Terminates == <>(pc = "done")
=============================================================================
