------------------------------ MODULE Resampler ------------------------------
(***************************************************************************)
(* The Speex resampler (src/resample.c) as a library: its filter memory,   *)
(* which all channels share one array for, across calls that cut the input *)
(* anywhere, and across changes of rate and quality, which may fail.       *)
(* Samples are left out but for who they are: <<c, k>> is input k of       *)
(* channel c.  The channels, and the cells of the array, count from 0.     *)
(***************************************************************************)
EXTENDS Integers, FiniteSets, Functions

CONSTANTS
  Qualities,   \* the levels of quality_map
  BaseLen,     \* their base_length
  Oversample,  \* their oversample
  LenStep,     \* down-sampling filters are rounded up to a multiple of it (8)
  Ratios,      \* input and output rates a program asks for, <<ratio_num, ratio_den>>
  BufferSize,  \* st->buffer_size (160)
  Channels,    \* st->nb_channels
  WordMax,     \* UINT32_MAX
  TableMax,    \* INT_MAX / sizeof(spx_word16_t)
  TablePad,    \* entries on top of an oversampled table (8)
  Lengths,     \* bound: what callers pass as in_len and out_len
  MaxFed,      \* bound: input samples of all channels
  MaxChanges   \* bound: calls that are not process calls

Chan == 0 .. Channels - 1
IntMax == WordMax \div 2    \* INT_MAX

Larger(a, b) == IF a > b THEN a ELSE b
Smaller(a, b) == IF a < b THEN a ELSE b

\* compute_gcd
Gcd[a \in Nat, b \in Nat] == IF b = 0 THEN a ELSE Gcd[b, a % b]
Reduced(r) == LET g == Gcd[r[1], r[2]] IN <<r[1] \div g, r[2] \div g>>

ASSUME SizeAssumption ==
  /\ \A n \in {LenStep, BufferSize, Channels, WordMax, TableMax, TablePad} : n \in Nat \ {0}
  /\ LenStep % 2 = 0
  /\ TableMax + BufferSize <= IntMax
  /\ MaxFed \in Nat /\ MaxChanges \in Nat
  /\ Lengths \subseteq (0 .. IntMax) \X (0 .. IntMax)
ASSUME QualityAssumption ==
  \A q \in Qualities : /\ BaseLen[q] \in 1 .. WordMax /\ BaseLen[q] % LenStep = 0
                       /\ Oversample[q] \in Nat \ {0}
\* Rates are ints, as all in these programs are; the library takes them as words.
ASSUME RatioAssumption ==
  \A r \in Ratios : r[1] \in 1 .. IntMax /\ r[2] \in 1 .. IntMax
                     /\ Reduced(r)[1] \in 1 .. IntMax /\ Reduced(r)[2] \in 1 .. IntMax
\* And their quotient is such that a place stays an int, and no length of a filter
\* is among the last of a word, which rounded up would be 0.  The largest quotient
\* opusdec asks for is 6, and the longest filter 1536.
ASSUME QuotientAssumption ==
  \A r \in Ratios : LET n == Reduced(r)[1]  d == Reduced(r)[2] IN
    /\ n \div d + TableMax <= IntMax
    /\ n > d => \A q \in Qualities :
                  (BaseLen[q] * n) \div d \notin WordMax + 2 - LenStep .. WordMax

VARIABLES
  up,                  \* "new", "live", "failed" (out of its rates) or "gone"
  quality, asked,      \* st->quality; st->in_rate and out_rate
  num, den,            \* num_rate and den_rate
  filt_len,
  table,               \* sinc_table_length
  kernel,              \* filt_len and den_rate the table was computed for
  silenced,            \* resampler_ptr is resampler_basic_zero
  started,
  alloc, mem,          \* mem_alloc_size, and the cells of all channels
  last, frac, magic,   \* last_sample, samp_frac_num and magic_samples, per channel
  pc, ch, ilen, olen,  \* the running process call
  fed,                 \* history: samples taken, per channel
  since,               \* history: fed when the stream began
  known,               \* history: samples of the stream there was always room for
  stale,               \* history: channels with remains of another stream
  changes              \* history: calls that are not process calls

setup   == <<quality, asked, num, den, filt_len, table, kernel, silenced>>
memory  == <<alloc, mem>>
place   == <<last, frac, magic>>
call    == <<pc, ch, ilen, olen>>
history == <<fed, since, known, stale>>
vars == <<up, setup, started, memory, place, call, history, changes>>

-----------------------------------------------------------------------------
(* Arithmetic in 32-bit words.                                             *)

Word(x) == x % (WordMax + 1)

M_NoOverflowInSumOnly(value, n, d) ==
  Word((value \div d) * n) <= WordMax - Word((value % d) * n) \div d

\* The test of multiply_frac: no product and not the sum exceeds a word.
NoOverflow(value, n, d) ==
  /\ value % d <= WordMax \div n
  /\ value \div d <= WordMax \div n
  /\ (value \div d) * n <= WordMax - ((value % d) * n) \div d

\* Its result, computed in words.
MultiplyFrac(value, n, d) ==
  Word(Word((value % d) * n) \div d + Word((value \div d) * n))

-----------------------------------------------------------------------------
(* update_filter: length of the filter and of its table.                   *)

RoundUp(len) == Word(((len - 1) \div LenStep) * LenStep + LenStep)

LengthFits(q, n, d) == n > d => NoOverflow(BaseLen[q], n, d)
NewLength(q, n, d) ==
  IF n > d THEN RoundUp(MultiplyFrac(BaseLen[q], n, d)) ELSE BaseLen[q]

\* Oversampling is halved for each power of two, up to 16, the rate goes down.
Sampling(q, n, d) ==
  LET halved(over, k) == IF Word(k * d) < n THEN over \div 2 ELSE over
  IN IF n > d THEN Larger(halved(halved(halved(halved(Oversample[q], 2), 4), 8), 16), 1)
     ELSE Oversample[q]

\* A table with a row for each phase is chosen when it is the smaller one.
Direct(len, over, d) ==
  Word(len * d) <= Word(len * over + TablePad) /\ TableMax \div d >= len
TableFits(len, over, d) == Direct(len, over, d) \/ (TableMax - TablePad) \div over >= len
TableLength(len, over, d) == IF Direct(len, over, d) THEN len * d ELSE len * over + TablePad

-----------------------------------------------------------------------------
(* Loops over cells of the array: n cells from `from` on go to `to` on, the  *)
(* first one first (Up) or the last one first (Down).                      *)

Zero == <<0, 0>>
Junk == <<-1, -1>>    \* what a cell holds that nothing was put into

CopyUp(cells, from, to, n) ==
  LET after[j \in 0 .. n] ==
        IF j = 0 THEN cells
        ELSE LET was == after[j - 1] IN [was EXCEPT ![to + j - 1] = was[from + j - 1]]
  IN after[n]

M_CopyDownAscends(cells, from, to, n) == CopyUp(cells, from, to, n)
CopyDown(cells, from, to, n) ==
  LET after[j \in 0 .. n] ==
        IF j = 0 THEN cells
        ELSE LET was == after[j - 1] IN [was EXCEPT ![to + n - j] = was[from + n - j]]
  IN after[n]

Clear(cells, from, n) == [k \in DOMAIN cells |-> IF k \in from .. from + n - 1 THEN Zero ELSE cells[k]]

\* speex_realloc; new cells hold anything.
Realloc(cells, n) == [k \in 0 .. n - 1 |-> IF k \in DOMAIN cells THEN cells[k] ELSE Junk]

-----------------------------------------------------------------------------
(* update_filter: the memory after a change of length.                     *)

\* What a channel keeps of its input: the past of the filter, and the samples
\* that a shorter filter has left to be used as input again.
Held(c) == filt_len - 1 + magic[c]
OldLength(c) == filt_len + 2 * magic[c]    \* olen

\* A longer filter takes the magic samples back in, and they are part of its past;
\* what it lacks is zeros.  When it still is too short, some remain magic.
Stretched(cells, c, len, size) ==
  LET m    == magic[c]
      old  == OldLength(c)
      base == c * size
      back == Clear(CopyDown(cells, c * alloc, base + m, Held(c)), base, m)
  IN IF len > old
     THEN Clear(CopyDown(back, base, base + len - old, old - 1), base, len - old)
     ELSE CopyUp(back, base + (old - len) \div 2, base, len - 1 + (old - len) \div 2)

\* The last channel first, as the array grows.
Lengthened(len, size) ==
  LET after[i \in 0 .. Channels] ==
        IF i = 0 THEN Realloc(mem, Channels * size)
        ELSE Stretched(after[i - 1], Channels - i, len, size)
  IN after[Channels]

\* A shorter filter leaves half of what it loses as magic samples.
Shortened(len) ==
  LET m == (filt_len - len) \div 2
      after[c \in 0 .. Channels] ==
        IF c = 0 THEN mem
        ELSE CopyUp(after[c - 1], (c - 1) * alloc + m, (c - 1) * alloc,
                    len - 1 + m + magic[c - 1])
  IN after[Channels]

MagicAfter(c, len) ==
  IF len > OldLength(c) THEN 0
  ELSE IF len > filt_len THEN (OldLength(c) - len) \div 2
  ELSE magic[c] + (filt_len - len) \div 2

LastAfter(c, len) ==
  IF len > OldLength(c) THEN last[c] + (len - OldLength(c)) \div 2 ELSE last[c]

\* The new length takes effect.
ChangeLength(len, size) ==
  /\ filt_len' = len /\ alloc' = size
  /\ IF ~started
     THEN mem' = [k \in 0 .. Channels * size - 1 |-> Zero] /\ UNCHANGED <<last, magic>>
     ELSE /\ mem' = IF len > filt_len THEN Lengthened(len, size)
                    ELSE IF len < filt_len THEN Shortened(len) ELSE mem
          /\ magic' = [c \in Chan |-> IF len = filt_len THEN magic[c] ELSE MagicAfter(c, len)]
          /\ last' = [c \in Chan |-> IF len > filt_len THEN LastAfter(c, len) ELSE last[c]]

\* update_filter: arithmetic or memory fails, before or after the table is made;
\* the filter only puts out zeros then, and keeps its length, as the memory does.
\* Or it all works.
UpdateFilter(q, n, d) ==
  LET len   == NewLength(q, n, d)
      over  == Sampling(q, n, d)
      fits  == LengthFits(q, n, d) /\ TableFits(len, over, d)
      rows  == TableLength(len, over, d)
      size  == Word(len - 1 + BufferSize)
      tabled == table' = Larger(table, rows) /\ kernel' = <<len, d>>
  IN \/ /\ ~fits \/ rows > table
        /\ silenced' = TRUE
        /\ UNCHANGED <<table, kernel, filt_len, memory, last, magic>>
     \/ /\ fits /\ size > alloc /\ tabled
        /\ silenced' = TRUE
        /\ UNCHANGED <<filt_len, memory, last, magic>>
     \/ /\ fits /\ tabled
        /\ size > alloc => TableMax \div Channels >= size
        /\ silenced' = FALSE
        /\ ChangeLength(len, Larger(alloc, size))

-----------------------------------------------------------------------------
(* The calls that set it up.                                               *)

Changes == up = "live" /\ pc = "idle" /\ changes < MaxChanges /\ changes' = changes + 1

\* Of the stream that goes on, what fits is still there.
Remember ==
  known' = [c \in Chan |-> Smaller(known[c] + fed'[c] - fed[c], filt_len' - 1 + magic'[c])]

Init ==
  /\ up = "new" /\ quality \in Qualities /\ asked \in Ratios
  /\ num = 0 /\ den = 0 /\ filt_len = 0 /\ table = 0 /\ kernel = <<0, 0>>
  /\ silenced = FALSE /\ started = FALSE
  /\ alloc = 0 /\ mem = [k \in {} |-> Zero]
  /\ last = [c \in Chan |-> 0] /\ frac = last /\ magic = last
  /\ pc = "idle" /\ ch = 0 /\ ilen = 0 /\ olen = 0
  /\ fed = last /\ since = last /\ known = last /\ stale = {}
  /\ changes = 0

\* speex_resampler_init; when update_filter fails, it is destroyed.
Create ==
  /\ up = "new"
  /\ num' = Reduced(asked)[1] /\ den' = Reduced(asked)[2]
  /\ UpdateFilter(quality, num', den')
  /\ up' = IF silenced' THEN "failed" ELSE "live"
  /\ UNCHANGED <<quality, asked, started, frac, call, history, changes>>

\* speex_resampler_skip_zeros, "only useful before starting to use" it.
SkipZeros ==
  /\ Changes /\ ~started
  /\ last' = [c \in Chan |-> filt_len \div 2]
  /\ UNCHANGED <<up, setup, started, memory, frac, magic, call, history>>

\* The fraction of the next output's place, in units of the new rate.
Rescaled(f, d) == LET r == MultiplyFrac(f, d, den) IN IF r >= d THEN d - 1 ELSE r

\* speex_resampler_set_rate.
SetRate ==
  /\ Changes
  /\ \E r \in Ratios :
       LET n == Reduced(r)[1]
           d == Reduced(r)[2]
           over == {c \in Chan : ~NoOverflow(frac[c], d, den)}
       IN /\ ~(asked = r /\ <<num, den>> = r)
          /\ asked' = r /\ num' = n /\ den' = d
          /\ \/ /\ over = {}
                /\ frac' = [c \in Chan |-> Rescaled(frac[c], d)]
                /\ UpdateFilter(quality, n, d)
                /\ UNCHANGED up
             \/ /\ over # {}
                /\ frac' = [c \in Chan |-> IF \A o \in over : c < o
                                           THEN Rescaled(frac[c], d) ELSE frac[c]]
                /\ up' = "failed"
                /\ UNCHANGED <<filt_len, table, kernel, silenced, memory, last, magic>>
  /\ UNCHANGED <<quality, started, call, fed, since, stale>> /\ Remember

\* speex_resampler_set_quality.
SetQuality ==
  /\ Changes
  /\ quality' \in Qualities \ {quality}
  /\ UpdateFilter(quality', num, den)
  /\ UNCHANGED <<up, asked, num, den, started, frac, call, fed, since, stale>> /\ Remember

\* speex_resampler_reset_mem: a new stream.  It clears as many cells as the filters of all channels
\* have, but from the start of the array, where only the first channel's are.
Reset ==
  /\ Changes
  /\ last' = [c \in Chan |-> 0] /\ magic' = last' /\ frac' = last'
  /\ mem' = Clear(mem, 0, Channels * (filt_len - 1))
  /\ since' = fed /\ known' = last' /\ stale' = Chan \ {0}
  /\ UNCHANGED <<up, setup, started, alloc, call, fed>>

-----------------------------------------------------------------------------
(* The process calls.                                                      *)

\* speex_resampler_process_float
Call ==
  /\ up = "live" /\ pc = "idle"
  /\ \E c \in Chan, n \in Lengths :
       /\ FoldFunction(+, 0, fed) + n[1] <= MaxFed
       /\ ch' = c /\ ilen' = n[1] /\ olen' = n[2]
       /\ pc' = IF magic[c] > 0 THEN "magic" ELSE "input"
  /\ UNCHANGED <<up, setup, started, memory, place, history, changes>>

\* The loop of resampler_basic_*: where the next output is after n turns, in samples,
\* an int, and the fraction, a word.
Loop(c, n) ==
  LET at[k \in 0 .. n] ==
        IF k = 0 THEN <<last[c], frac[c]>>
        ELSE LET was == at[k - 1]
                 sum == Word(was[2] + (num % den))
             IN IF sum >= den THEN <<was[1] + num \div den + 1, sum - den>>
                ELSE <<was[1] + num \div den, sum>>
  IN at[n]

\* n is how many outputs it makes from `in` input samples when there is room for `out`.
Outputs(c, in, out, n) ==
  /\ n = out \/ Loop(c, n)[1] >= in
  /\ \A k \in 0 .. n - 1 : Loop(c, k)[1] < in

\* The input they use up.
Used(c, in, n) == Smaller(Loop(c, n)[1], in)

\* speex_resampler_process_native on the channel of the call: n outputs, after which
\* the used samples leave the memory.
Native(in, n) ==
  /\ Outputs(ch, in, olen, n)
  /\ started' = TRUE
  /\ frac' = [frac EXCEPT ![ch] = Loop(ch, n)[2]]
  /\ last' = [last EXCEPT ![ch] = Loop(ch, n)[1] - Used(ch, in, n)]
  /\ olen' = olen - n

\* speex_resampler_magic: the magic samples are the first input, and what is left
\* of them stays behind the filter.
UseMagic ==
  /\ pc = "magic"
  /\ \E n \in 0 .. olen :
       LET m    == magic[ch]
           used == Used(ch, m, n)
           base == ch * alloc
           past == CopyUp(mem, base + used, base, filt_len - 1)
       IN /\ Native(m, n)
          /\ mem' = CopyUp(past, base + filt_len - 1 + used, base + filt_len - 1, m - used)
          /\ magic' = [magic EXCEPT ![ch] = m - used]
          /\ pc' = IF used = m THEN "input" ELSE "return"
  /\ UNCHANGED <<up, setup, alloc, ch, ilen, fed, since, stale, changes>> /\ Remember

\* One pass of the loop: input is put behind the filter, as much as there is room.
Pass ==
  /\ pc = "input" /\ ilen > 0 /\ olen > 0
  /\ LET room == alloc - (filt_len - 1)
         in   == Smaller(ilen, room)
         base == ch * alloc
         read == [k \in DOMAIN mem |->
                   IF k - base \in filt_len - 1 .. filt_len - 2 + in
                   THEN <<ch, fed[ch] + k - base - filt_len + 2>> ELSE mem[k]]
     IN \E n \in 0 .. olen :
          LET used == Used(ch, in, n) IN
          /\ Native(in, n)
          /\ mem' = CopyUp(read, base + used, base, filt_len - 1)
          /\ fed' = [fed EXCEPT ![ch] = @ + used]
          /\ ilen' = ilen - used
  /\ UNCHANGED <<up, setup, alloc, magic, pc, ch, since, stale, changes>> /\ Remember

Return ==
  /\ pc = "return" \/ (pc = "input" /\ (ilen = 0 \/ olen = 0))
  /\ pc' = "idle" /\ ch' = 0 /\ ilen' = 0 /\ olen' = 0
  /\ UNCHANGED <<up, setup, started, memory, place, history, changes>>

\* speex_resampler_destroy
Destroy ==
  /\ up \in {"live", "failed"} /\ pc = "idle"
  /\ up' = "gone"
  /\ num' = 0 /\ den' = 0 /\ filt_len' = 0 /\ table' = 0 /\ kernel' = <<0, 0>>
  /\ silenced' = FALSE /\ started' = FALSE
  /\ alloc' = 0 /\ mem' = [k \in {} |-> Zero]
  /\ last' = [c \in Chan |-> 0] /\ frac' = last' /\ magic' = last'
  /\ fed' = last' /\ since' = last' /\ known' = last' /\ stale' = {} /\ changes' = 0
  /\ UNCHANGED <<quality, asked, call>>

Next == \/ Create \/ SkipZeros \/ SetRate \/ SetQuality \/ Reset \/ Destroy
        \/ Call \/ UseMagic \/ Pass \/ Return

Spec == Init /\ [][Next]_vars

-----------------------------------------------------------------------------
(* Correctness.                                                            *)

TypeOK ==
  /\ up \in {"new", "live", "failed", "gone"} /\ pc \in {"idle", "magic", "input", "return"}
  /\ quality \in Qualities /\ asked \in Ratios
  /\ \A n \in {num, den, filt_len, table, alloc, ilen, olen, changes} : n \in Nat
  /\ kernel \in Nat \X Nat /\ silenced \in BOOLEAN /\ started \in BOOLEAN
  /\ \A f \in {last, frac, magic, fed, since, known} : f \in [Chan -> Nat]
  /\ ch \in Chan /\ stale \subseteq Chan

\* Every lookup stays inside the table, which was made for the present filter,
\* and inside the memory of its channel, with room for input behind the filter;
\* and the loop, over no more input than there is memory, counts no further than
\* an int does.
LookupsFit ==
  up = "live" =>
    /\ ~silenced => kernel = <<filt_len, den>>
    /\ alloc >= filt_len - 1 + BufferSize
    /\ alloc + num \div den <= IntMax
    /\ \A c \in Chan : frac[c] < den /\ Held(c) <= alloc /\ last[c] <= IntMax

\* A channel holds its last input samples in order, as many as there was always
\* room for, behind zeros (or behind what Reset forgot).
Holds(c) ==
  \A j \in 0 .. Held(c) - 1 :
    LET cell == mem[c * alloc + j]
    IN IF j >= Held(c) - known[c] THEN cell = <<c, fed[c] - Held(c) + 1 + j>>
       ELSE cell = Zero \/ c \in stale

\* However the input is cut, and whatever changes of rate and quality are made,
\* or fail, between two calls or amid the magic samples of an earlier change, the
\* memory all channels share is neither mixed up nor left nor read beyond its end.
MemorySound ==
  /\ TypeOK
  /\ LookupsFit
  /\ up = "live" => \A c \in Chan : Holds(c)

\* The middle of the filter of the next output, in units of 1/den of an input
\* sample of the stream.
Whole(c) == fed[c] - since[c] - filt_len \div 2 - magic[c] + last[c]
Place(c) == Whole(c) * den + frac[c]

\* What a step puts out for a channel.
Put(c) == IF c = ch /\ "idle" \notin {pc, pc'} THEN olen - olen' ELSE 0

\* Outputs are num/den input samples apart, and only they advance the place.
\* Nothing jumps when rate or quality change amid a stream, or fail to; a new
\* rate only rounds the place down to a unit of its own.
SteadyStep ==
  started /\ up' = "live" =>
    \/ Reset
    \/ \A c \in Chan :
         IF den' = den THEN Place(c)' = Place(c) + Put(c) * num
         ELSE Place(c) * den' - Place(c)' * den \in 0 .. den - 1
Steady == [][SteadyStep]_vars
=============================================================================
