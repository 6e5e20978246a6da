--------------------------- MODULE OpusdecProofs ---------------------------
(***************************************************************************)
(* Exactness of the sample accounting of opusdec, for every set of         *)
(* conversion ratios, filter length, chunk size, number of channels, and   *)
(* however the input is cut into frames and links.                         *)
(***************************************************************************)
EXTENDS Opusdec, TLAPS


Writing == {"iterate", "channel", "write"}
Last    == Channels

\* While the last channel is filtered, its own cursor counts; otherwise what
\* audio_write has left to read, and what it is about to write.
LastRuns  == pc = "channel" /\ ch = Last
Unread    == IF LastRuns THEN ilen ELSE IF pc \in Writing THEN frame_size ELSE 0
Unwritten == IF LastRuns THEN OutLen - olen ELSE IF pc = "write" THEN out_len ELSE 0

\* The lengths of the running audio_write, whatever became of earlier writes.
Lengths ==
  /\ pc \in Writing => link_out + maxout = Target(link_read)
  /\ NeverAhead
  /\ pc = "channel" => olen <= OutLen
  /\ pc = "write" => out_len <= maxout

\* Where a resampler exists, and where zeros are fed to it.
Modes ==
  /\ resampler => Rate # InRate
  /\ pc \in Writing => (resampler <=> Rate # InRate)
  /\ pc = "channel" => resampler
  /\ drain # -1 => pc \in Writing /\ resampler
  /\ pc \in {"read", "linkend"} => resampler \/ Rate = InRate \/ link_read = 0
  /\ pc = "done" => ~resampler

\* Without a resampler the output follows the input sample by sample.
Copied ==
  ~resampler =>
    /\ pc # "done" => dropped = 0
    /\ pc \in {"read", "linkend"} => link_out = link_read
    /\ pc = "iterate" => link_out + frame_size = link_read
    /\ pc = "write" => link_out + out_len = link_read /\ frame_size = 0

\* What came out of the filter was written, what goes in was read: before the
\* drain all of it but `dropped`, during the drain also the zeros fed so far.
Filtered ==
  resampler =>
    /\ made[Last] = link_out + Unwritten
    /\ drain = -1 /\ pc # "linkend" => consumed[Last] + dropped + Unread = link_read
    /\ drain = -1 /\ pc # "linkend" /\ made[Last] > 0 =>
         Latency(ratio) * ratio.den + (made[Last] - 1) * ratio.num < link_read * ratio.den
    /\ drain # -1 =>
         maxout = 0 \/ consumed[Last] + dropped + Unread + drain = link_read + Latency(ratio)
    /\ pc = "linkend" =>
         \/ link_out = Target(link_read)
         \/ consumed[Last] + dropped = link_read + Latency(ratio)

Sizes == audio_size = expected + (IF pc = "done" THEN 0 ELSE link_out)

Exact == Copied /\ Filtered /\ DropsLessThanOneOutput /\ Sizes

IInv == TypeOK /\ PhaseExact /\ Lengths /\ Modes /\ (~failed => Exact)
-----------------------------------------------------------------------------
(* Arithmetic.                                                             *)

LEMMA Division ==
  ASSUME NEW a \in Nat, NEW d \in Nat \ {0}
  PROVE  /\ a \div d \in Nat /\ a % d \in Nat
         /\ a = d * (a \div d) + (a % d) /\ a % d < d
         /\ d * (a \div d) \in Nat /\ d * (a \div d) <= a
OBVIOUS

LEMMA LessByFactor ==
  ASSUME NEW a \in Int, NEW b \in Int, NEW c \in Nat \ {0}
  PROVE  a * c <= b * c <=> a <= b
OBVIOUS

LEMMA Typing ==
  ASSUME ratio \in Ratios
  PROVE  /\ ratio.num \in Nat \ {0} /\ ratio.den \in Nat \ {0} /\ ratio.g \in Nat \ {0}
         /\ InRate = ratio.num * ratio.g /\ InRate \in Nat \ {0}
         /\ Rate \in Nat \ {0} /\ Rate = ratio.den * ratio.g
         /\ Latency(ratio) \in Nat /\ Latency(ratio) * ratio.den >= 2 * ratio.num
BY RatioAssumption DEF Rate

\* Target is the floor of the exact length, although it is computed in two parts.
LEMMA TargetIsFloor ==
  ASSUME ratio \in Ratios, NEW n \in Nat
  PROVE  /\ Target(n) \in Nat
         /\ Target(n) * ratio.num <= n * ratio.den
         /\ n * ratio.den < (Target(n) + 1) * ratio.num
<1> DEFINE num == ratio.num  den == ratio.den  g == ratio.g
           a == n \div InRate  b == n % InRate
           c == (b * Rate) \div InRate  r == (b * Rate) % InRate
<1>1. /\ num \in Nat \ {0} /\ den \in Nat \ {0} /\ g \in Nat \ {0}
      /\ InRate = num * g /\ InRate \in Nat \ {0} /\ Rate = den * g /\ Rate \in Nat \ {0}
  BY Typing
<1>2. a \in Nat /\ b \in Nat /\ n = InRate * a + b
  BY <1>1, Division
<1>3. b * Rate \in Nat
  BY <1>1, <1>2
<1>4. c \in Nat /\ r \in Nat /\ b * Rate = InRate * c + r /\ r < InRate
  <2> DEFINE product == b * Rate
  <2>1. product \in Nat /\ InRate \in Nat \ {0}
    BY <1>1, <1>3
  <2> HIDE DEF product
  <2>2. /\ product \div InRate \in Nat /\ product % InRate \in Nat
        /\ product = InRate * (product \div InRate) + (product % InRate)
        /\ product % InRate < InRate
    BY <2>1, Division
  <2> QED
    BY <2>2 DEF product
<1>5. Target(n) = a * Rate + c
  BY DEF Target
<1> HIDE DEF num, den, g, a, b, c, r
<1>6. a * Rate \in Nat
  BY <1>1, <1>2
<1>7. n * Rate = (a * Rate + c) * InRate + r
  <2>1. n * Rate = (InRate * a) * Rate + b * Rate
    BY <1>1, <1>2
  <2>2. (InRate * a) * Rate = (a * Rate) * InRate
    BY <1>1, <1>2
  <2> QED
    BY <2>1, <2>2, <1>4, <1>6, <1>1, <1>2
<1>8. /\ n * Rate = (n * den) * g
      /\ (a * Rate + c) * InRate = ((a * Rate + c) * num) * g
      /\ InRate = num * g
  BY <1>1, <1>4, <1>6
<1>9. PICK t \in Nat : t = Target(n) /\ t = a * Rate + c
  BY <1>4, <1>5, <1>6
<1>10. t * num \in Nat /\ n * den \in Nat
  BY <1>1, <1>9
<1>11. (n * den) * g = (t * num) * g + r /\ r \in Nat /\ r < num * g
  BY <1>7, <1>8, <1>9, <1>4
<1>12. (t * num) * g <= (n * den) * g
  BY <1>11, <1>10, <1>1
<1>13. (n * den) * g < (t * num + num) * g
  BY <1>11, <1>10, <1>1
<1>14. t * num <= n * den
  BY <1>12, <1>10, <1>1
<1>15. n * den < t * num + num
  BY <1>13, <1>10, <1>1
<1> QED
  BY <1>14, <1>15, <1>9, <1>1 DEF num, den

LEMMA TargetGrows ==
  ASSUME ratio \in Ratios, NEW a \in Nat, NEW b \in Nat, a <= b
  PROVE  Target(a) <= Target(b)
<1> DEFINE num == ratio.num  den == ratio.den
<1>1. num \in Nat \ {0} /\ den \in Nat \ {0}
  BY Typing
<1>2. PICK s \in Nat, t \in Nat : s = Target(a) /\ t = Target(b)
  BY TargetIsFloor
<1>3. s * num <= a * den /\ b * den < (t + 1) * num
  BY <1>2, TargetIsFloor
<1> HIDE DEF num, den
<1>4. a * den <= b * den
  BY <1>1
<1>5. s * num < (t + 1) * num
  BY <1>1, <1>3, <1>4
<1>6. s < t + 1
  BY <1>1, <1>5
<1> QED
  BY <1>2, <1>6

LEMMA TargetOfNothing ==
  ASSUME ratio \in Ratios
  PROVE  Target(0) = 0
<1> DEFINE num == ratio.num
<1>1. num \in Nat \ {0}
  BY Typing
<1>2. PICK t \in Nat : t = Target(0) /\ t * num <= 0 * ratio.den
  BY TargetIsFloor
<1> HIDE DEF num
<1> QED
  BY <1>1, <1>2, Typing

LEMMA TargetWithoutResampler ==
  ASSUME ratio \in Ratios, Rate = InRate, NEW n \in Nat
  PROVE  Target(n) = n
<1>1. /\ ratio.num \in Nat \ {0} /\ ratio.den \in Nat \ {0} /\ ratio.g \in Nat \ {0}
      /\ ratio.num * ratio.g = ratio.den * ratio.g
  BY Typing
<1> DEFINE num == ratio.num  den == ratio.den  g == ratio.g
<1>2. PICK t \in Nat : /\ t = Target(n) /\ t * num <= n * den
                       /\ n * den < (t + 1) * num
  BY TargetIsFloor
<1> HIDE DEF num, den, g
<1>3. num = den
  <2>1. num * g = den * g /\ num \in Nat /\ den \in Nat /\ g \in Nat \ {0}
    BY <1>1 DEF num, den, g
  <2> QED
    BY <2>1, LessByFactor
<1>4. t <= n /\ n < t + 1
  BY <1>1, <1>2, <1>3 DEF num
<1> QED
  BY <1>2, <1>4

LEMMA MaxOutExact ==
  ASSUME ratio \in Ratios, NEW n \in Nat, NEW out \in Int, out <= Target(n)
  PROVE  MaxOut(n, out) \in Nat /\ out + MaxOut(n, out) = Target(n)
BY TargetIsFloor DEF MaxOut

\* A pass takes no more input than it is given, and none that is not there.
LEMMA UsedBounds ==
  ASSUME ratio \in Ratios, NEW p \in Nat, NEW in \in Nat
  PROVE  /\ Used(p, in) \in Nat /\ Used(p, in) <= in
         /\ PhaseLeft(p, Used(p, in)) \in Nat
         /\ p = PhaseLeft(p, Used(p, in)) + Used(p, in) * ratio.den
<1> DEFINE den == ratio.den  q == p \div den  u == Used(p, in)
<1>1. den \in Nat \ {0}
  BY Typing
<1>2. q \in Nat /\ den * q <= p
  BY <1>1, Division
<1>3. u \in Nat /\ u <= in /\ u <= q
  BY <1>2 DEF Used, Min
<1> HIDE DEF den, q, u
<1>4. u * den <= den * q
  BY <1>1, <1>2, <1>3
<1>5. u * den \in Nat /\ u * den <= p
  BY <1>1, <1>2, <1>3, <1>4
<1> QED
  BY <1>3, <1>5 DEF PhaseLeft, u, den

\* A block of zeros is cut off what is left to feed.
LEMMA ZerosCut ==
  ASSUME NEW n \in Nat
  PROVE  /\ Min(n, DrainChunk) \in Nat /\ ZerosLeft(n) \in Nat
         /\ Min(n, DrainChunk) + ZerosLeft(n) = n
BY BoundAssumption DEF Min, ZerosLeft

LEMMA OutLenBounds ==
  ASSUME maxout \in Nat
  PROVE  OutLen \in Nat /\ OutLen <= maxout
BY BoundAssumption DEF OutLen, Min

-----------------------------------------------------------------------------
(* The initial states, and the steps of each part of the invariant.        *)

Control == TypeOK /\ Lengths /\ Modes

LEMMA InitIInv == Init => IInv
<1> SUFFICES ASSUME Init PROVE IInv
  OBVIOUS
<1>1. Channels \in Nat \ {0} /\ ratio \in Ratios
  BY BoundAssumption DEF Init
<1>2. Target(0) = 0
  BY <1>1, TargetOfNothing
<1>3. TypeOK
  <2>1. phase \in [Chan -> Nat] /\ consumed \in [Chan -> Nat] /\ made \in [Chan -> Nat]
    BY DEF Init
  <2>2. ch \in Chan
    BY <1>1 DEF Init, Chan
  <2>3. drain \in Nat \cup {-1}
    BY DEF Init
  <2>4. file_output \in BOOLEAN /\ resampler \in BOOLEAN /\ failed \in BOOLEAN
    BY DEF Init
  <2>5. /\ ratio \in Ratios /\ pc = "read"
        /\ links \in Nat /\ link_read \in Nat /\ link_out \in Int /\ audio_size \in Int
        /\ pending \in Nat /\ frame_size \in Nat /\ maxout \in Nat
        /\ ilen \in Nat /\ olen \in Nat /\ out_len \in Nat
        /\ dropped \in Nat /\ expected \in Nat
    BY DEF Init
  <2> QED
    BY <2>1, <2>2, <2>3, <2>4, <2>5 DEF TypeOK
<1>4. Lengths /\ Modes /\ PhaseExact
  BY <1>2 DEF Init, Lengths, Modes, PhaseExact, NeverAhead, Writing
<1>5. Exact
  BY <1>1, Typing DEF Init, Exact, Copied, Filtered, Sizes, DropsLessThanOneOutput, Writing
<1> QED
  BY <1>3, <1>4, <1>5 DEF IInv

LEMMA FreshFilterTypes ==
  ASSUME ratio \in Ratios, FreshFilter
  PROVE  /\ phase' \in [Chan -> Nat] /\ consumed' \in [Chan -> Nat] /\ made' \in [Chan -> Nat]
         /\ \A c \in Chan : /\ phase'[c] = Latency(ratio) * ratio.den
                             /\ consumed'[c] = 0 /\ made'[c] = 0
<1>1. Latency(ratio) * ratio.den \in Nat
  BY Typing
<1> QED
  BY <1>1 DEF FreshFilter

\* What one pass of the filter does to its channel.
LEMMA Pass ==
  ASSUME TypeOK, ProcessFloat
  PROVE  \E n \in Nat, used \in Nat, left \in Nat :
           /\ n <= olen /\ olen' = olen - n
           /\ used <= ilen /\ ilen' = ilen - used
           /\ consumed' = [consumed EXCEPT ![ch] = @ + used]
           /\ made' = [made EXCEPT ![ch] = @ + n]
           /\ phase' = [phase EXCEPT ![ch] = left]
           /\ phase[ch] + n * ratio.num = left + used * ratio.den
           /\ n = 0 \/ phase[ch] + (n - 1) * ratio.num < ilen * ratio.den
<1>1. ratio \in Ratios /\ ratio.den \in Nat \ {0} /\ ratio.num \in Nat \ {0}
  BY Typing DEF TypeOK
<1>2. ilen \in Nat /\ olen \in Nat /\ phase[ch] \in Nat
  BY DEF TypeOK
<1> DEFINE in == Min(ilen, BufferSize)
<1>3. PICK n \in 0 .. olen :
        LET p == phase[ch] + n * ratio.num
            used == Used(p, in)
        IN /\ Outputs(phase[ch], in, olen, n)
           /\ phase' = [phase EXCEPT ![ch] = PhaseLeft(p, used)]
           /\ consumed' = [consumed EXCEPT ![ch] = @ + used]
           /\ made' = [made EXCEPT ![ch] = @ + n]
           /\ ilen' = ilen - used /\ olen' = olen - n
  BY DEF ProcessFloat
<1> DEFINE p == phase[ch] + n * ratio.num  used == Used(p, in)
<1>4. in \in Nat /\ in <= ilen
  BY <1>2, BoundAssumption DEF Min
<1>5. n \in Nat /\ n <= olen /\ p \in Nat
  BY <1>1, <1>2
<1> HIDE DEF in
<1>6. /\ used \in Nat /\ used <= ilen /\ PhaseLeft(p, used) \in Nat
      /\ p = PhaseLeft(p, used) + used * ratio.den
  <2> HIDE DEF p
  <2>1. /\ Used(p, in) \in Nat /\ Used(p, in) <= in /\ PhaseLeft(p, Used(p, in)) \in Nat
        /\ p = PhaseLeft(p, Used(p, in)) + Used(p, in) * ratio.den
    BY <1>1, <1>4, <1>5, UsedBounds
  <2> QED
    BY <1>2, <1>4, <2>1
<1>7. n = 0 \/ phase[ch] + (n - 1) * ratio.num < ilen * ratio.den
  <2>1. in * ratio.den <= ilen * ratio.den
    BY <1>1, <1>2, <1>4
  <2>2. n = 0 \/ phase[ch] + (n - 1) * ratio.num < in * ratio.den
    BY <1>3 DEF Outputs
  <2>3. in * ratio.den \in Int /\ ilen * ratio.den \in Int /\ phase[ch] + (n - 1) * ratio.num \in Int
    BY <1>1, <1>2, <1>4, <1>5
  <2> QED
    BY <2>1, <2>2, <2>3
<1>8. /\ phase' = [phase EXCEPT ![ch] = PhaseLeft(p, used)]
      /\ consumed' = [consumed EXCEPT ![ch] = @ + used]
      /\ made' = [made EXCEPT ![ch] = @ + n]
      /\ ilen' = ilen - used /\ olen' = olen - n
  BY <1>3
<1>9. phase[ch] + n * ratio.num = PhaseLeft(p, used) + used * ratio.den
  BY <1>6
<1> HIDE DEF p, used
<1> n \in Nat /\ used \in Nat /\ PhaseLeft(p, used) \in Nat
  BY <1>5, <1>6
<1> WITNESS n \in Nat, used \in Nat, PhaseLeft(p, used) \in Nat
<1> QED
  BY <1>5, <1>6, <1>7, <1>8, <1>9

LEMMA ControlStep == Control /\ [Next]_vars => Control'
<1> SUFFICES ASSUME Control, [Next]_vars PROVE Control'
  OBVIOUS
<1> USE DEF Control, Modes, Writing, fixed, filter, cursor, history
<1>1. ratio \in Ratios /\ ratio.den \in Nat /\ Latency(ratio) \in Nat /\ InRate \in Nat
  BY Typing DEF TypeOK
<1>2. /\ BufferSize \in Nat \ {0} /\ OutChunk \in Nat \ {0} /\ DrainChunk \in Nat \ {0}
      /\ Channels \in Nat \ {0} /\ MaxFrame \in Nat \ {0} /\ MaxRead \in Nat
  BY BoundAssumption
<1>3. link_read \in Nat /\ link_out \in Int /\ Target(link_read) \in Nat
  BY <1>1, TargetIsFloor DEF TypeOK
<1>4. ratio' = ratio => /\ Target(link_read)' = Target(link_read')
                        /\ (Rate # InRate)' = (Rate # InRate)
  BY DEF Target, Rate
<1>5. OutLen \in Nat /\ OutLen <= maxout
  BY OutLenBounds DEF TypeOK
<1>6. CASE ReadFrame
  <2>1. PICK n \in 1 .. MaxFrame : Decode(n, link_read, link_out)
    BY <1>6 DEF ReadFrame
  <2>2. link_read + n \in Nat /\ n \in Nat
    BY <1>2, <1>3, <2>1
  <2>3. link_out <= Target(link_read + n)
    BY <1>1, <1>3, <2>2, TargetGrows, TargetIsFloor DEF Lengths, NeverAhead
  <2>4. maxout' \in Nat /\ link_out' + maxout' = Target(link_read + n)
    BY <1>1, <1>3, <2>1, <2>2, <2>3, MaxOutExact DEF Decode
  <2>5. TypeOK'
    <3>1. resampler' \in BOOLEAN /\ phase' \in [Chan -> Nat]
          /\ consumed' \in [Chan -> Nat] /\ made' \in [Chan -> Nat]
      BY <1>1, <2>1, FreshFilterTypes DEF Decode, TypeOK
    <3> QED
      BY <1>6, <2>1, <2>2, <2>4, <3>1 DEF ReadFrame, Decode, TypeOK
  <2>6. Lengths'
    BY <1>3, <1>4, <1>6, <2>1, <2>4 DEF ReadFrame, Decode, Lengths, NeverAhead, TypeOK
  <2>7. Modes'
    BY <1>6, <2>1 DEF ReadFrame, Decode, TypeOK, Rate
  <2> QED
    BY <2>5, <2>6, <2>7
<1>7. CASE EndLink
  <2>1. pending' \in Nat
    BY <1>2, <1>7 DEF EndLink, Min
  <2>2. CASE resampler
    <3>1. frame_size' \in Nat /\ drain' \in Nat
      BY <1>1, <1>7, <2>2, ZerosCut DEF EndLink, MustDrain, StartDrain, FeedZeros
    <3>2. maxout' \in Nat /\ link_out + maxout' = Target(link_read)
      BY <1>1, <1>3, <1>7, <2>2, MaxOutExact
      DEF EndLink, MustDrain, StartDrain, Lengths, NeverAhead, TypeOK
    <3>3. TypeOK'
      BY <1>7, <2>1, <2>2, <3>1, <3>2 DEF EndLink, MustDrain, StartDrain, TypeOK
    <3>4. Lengths'
      BY <1>4, <1>7, <2>2, <3>2 DEF EndLink, MustDrain, StartDrain, Lengths, NeverAhead
    <3>5. Modes'
      BY <1>4, <1>7, <2>2 DEF EndLink, MustDrain, StartDrain
    <3> QED
      BY <3>3, <3>4, <3>5
  <2>3. CASE ~resampler
    BY <1>4, <1>7, <2>1, <2>3 DEF EndLink, MustDrain, Lengths, NeverAhead, TypeOK
  <2> QED
    BY <2>2, <2>3
<1>8. CASE NextLink
  <2>1. maxout' \in Nat /\ 0 + maxout' = Target(pending)
    BY <1>1, <1>8, MaxOutExact, TargetIsFloor DEF NextLink, TypeOK
  <2>2. TypeOK'
    BY <1>1, <1>3, <1>8, <2>1, FreshFilterTypes DEF NextLink, TypeOK
  <2>3. Lengths'
    BY <1>4, <1>8, <2>1 DEF NextLink, Lengths, NeverAhead, TypeOK
  <2>4. Modes'
    BY <1>4, <1>8 DEF NextLink
  <2> QED
    BY <2>2, <2>3, <2>4
<1>9. CASE ChannelsChange
  <2>1. TypeOK'
    <3>1. expected' \in Nat
      BY <1>3, <1>9 DEF ChannelsChange, TypeOK
    <3>2. resampler' \in BOOLEAN
      BY <1>9 DEF ChannelsChange
    <3> QED
      BY <1>3, <1>9, <3>1, <3>2 DEF ChannelsChange, TypeOK
  <2>2. Lengths'
    BY <1>1, <1>4, <1>9, TargetOfNothing DEF ChannelsChange, Lengths, NeverAhead
  <2>3. Modes'
    BY <1>9 DEF ChannelsChange
  <2> QED
    BY <2>1, <2>2, <2>3
<1>10. CASE Finish
  <2>1. TypeOK'
    <3>1. expected' \in Nat
      BY <1>3, <1>10 DEF Finish, TypeOK
    <3>2. resampler' \in BOOLEAN
      BY <1>10 DEF Finish
    <3> QED
      BY <1>3, <1>10, <3>1, <3>2 DEF Finish, TypeOK
  <2>2. Lengths'
    BY <1>4, <1>10 DEF Finish, Lengths, NeverAhead
  <2>3. Modes'
    BY <1>10 DEF Finish
  <2> QED
    BY <2>1, <2>2, <2>3
<1>11. CASE Resample
  <2>1. ch' \in Chan
    BY <1>2, <1>11 DEF Resample, Chan
  <2>2. TypeOK'
    BY <1>5, <1>11, <2>1 DEF Resample, RestartLengths, TypeOK
  <2>3. Lengths'
    BY <1>4, <1>5, <1>11 DEF Resample, RestartLengths, Lengths, NeverAhead, OutLen
  <2>4. Modes'
    BY <1>4, <1>11 DEF Resample
  <2> QED
    BY <2>2, <2>3, <2>4
<1>12. CASE PassThrough
  <2>1. TypeOK'
    BY <1>12 DEF PassThrough, TypeOK, Min
  <2>2. Lengths'
    BY <1>4, <1>12 DEF PassThrough, Lengths, NeverAhead, TypeOK, Min
  <2>3. Modes'
    BY <1>4, <1>12 DEF PassThrough
  <2> QED
    BY <2>1, <2>2, <2>3
<1>13. CASE ProcessFloat
  <2>1. PICK n \in Nat, used \in Nat, left \in Nat :
          /\ n <= olen /\ olen' = olen - n
          /\ used <= ilen /\ ilen' = ilen - used
          /\ consumed' = [consumed EXCEPT ![ch] = @ + used]
          /\ made' = [made EXCEPT ![ch] = @ + n]
          /\ phase' = [phase EXCEPT ![ch] = left]
    BY <1>13, Pass
  <2>2. phase' \in [Chan -> Nat] /\ consumed' \in [Chan -> Nat] /\ made' \in [Chan -> Nat]
    BY <2>1 DEF TypeOK
  <2>3. ilen' \in Nat /\ olen' \in Nat /\ olen' <= olen
    BY <2>1 DEF TypeOK
  <2>4. TypeOK'
    BY <1>13, <2>2, <2>3 DEF ProcessFloat, TypeOK
  <2>5. Lengths'
    BY <1>4, <1>5, <1>13, <2>3 DEF ProcessFloat, Lengths, NeverAhead, OutLen, TypeOK
  <2>6. Modes'
    BY <1>4, <1>13 DEF ProcessFloat
  <2> QED
    BY <2>4, <2>5, <2>6
<1>14. CASE ChannelDone
  <2>1. CASE ch < Channels
    <3>1. ch' \in Chan
      BY <1>2, <1>14, <2>1 DEF ChannelDone, TypeOK, Chan
    <3>2. TypeOK'
      BY <1>5, <1>14, <2>1, <3>1 DEF ChannelDone, RestartLengths, TypeOK
    <3>3. Lengths'
      BY <1>4, <1>5, <1>14, <2>1 DEF ChannelDone, RestartLengths, Lengths, NeverAhead, OutLen
    <3>4. Modes'
      BY <1>4, <1>14, <2>1 DEF ChannelDone
    <3> QED
      BY <3>2, <3>3, <3>4
  <2>2. CASE ~(ch < Channels)
    <3>1. out_len' \in Nat /\ out_len' <= maxout
      BY <1>5, <1>14, <2>2 DEF ChannelDone, Lengths, TypeOK
    <3>2. TypeOK'
      BY <1>14, <2>2, <3>1 DEF ChannelDone, TypeOK
    <3>3. Lengths'
      BY <1>4, <1>14, <2>2, <3>1 DEF ChannelDone, Lengths, NeverAhead
    <3>4. Modes'
      BY <1>4, <1>14, <2>2 DEF ChannelDone
    <3> QED
      BY <3>2, <3>3, <3>4
  <2> QED
    BY <2>1, <2>2
<1>15. CASE Write
  <2>1. PICK ret \in IF maxout > 0 THEN WriteResults(out_len) ELSE {0} :
          /\ link_out' = link_out + ret
          /\ audio_size' = audio_size + ret
          /\ failed' = (failed \/ (maxout > 0 /\ ret # out_len))
          /\ \/ /\ frame_size > 0 /\ maxout - ret > 0
                /\ maxout' = maxout - ret
                /\ pc' = "iterate"
                /\ UNCHANGED <<frame_size, drain, dropped>>
             \/ /\ ~(frame_size > 0 /\ maxout - ret > 0)
                /\ \/ /\ drain = -1
                      /\ dropped' = dropped + frame_size
                      /\ maxout' = maxout - ret
                      /\ pc' = "read"
                      /\ UNCHANGED <<frame_size, drain>>
                   \/ /\ drain > 0
                      /\ FeedZeros(drain)
                      /\ maxout' = MaxOut(link_read, link_out')
                      /\ pc' = "iterate"
                      /\ UNCHANGED dropped
                   \/ /\ drain = 0
                      /\ drain' = -1 /\ maxout' = maxout - ret
                      /\ pc' = "linkend"
                      /\ UNCHANGED <<frame_size, dropped>>
    BY <1>15 DEF Write
  <2>2. ret \in Int /\ ret <= maxout
    BY <1>15, <2>1 DEF Write, WriteResults, Lengths, TypeOK
  <2>3. link_out' + (maxout - ret) = Target(link_read) /\ maxout - ret \in Nat
    BY <1>3, <1>15, <2>1, <2>2 DEF Write, Lengths, TypeOK
  <2>4. MaxOut(link_read, link_out') = maxout - ret
    <3>1. link_out' \in Int /\ link_out' <= Target(link_read)
      BY <1>3, <2>1, <2>2, <2>3
    <3>2. /\ MaxOut(link_read, link_out') \in Nat
          /\ link_out' + MaxOut(link_read, link_out') = Target(link_read)
      BY <1>1, <1>3, <3>1, MaxOutExact
    <3> QED
      BY <2>2, <2>3, <3>1, <3>2
  <2>5. maxout' = maxout - ret
    BY <2>1, <2>4
  <2>6. frame_size' \in Nat /\ drain' \in Nat \cup {-1} /\ dropped' \in Nat
    <3>1. drain > 0 => Min(drain, DrainChunk) \in Nat /\ ZerosLeft(drain) \in Nat
      <4>1. drain > 0 => drain \in Nat
        BY DEF TypeOK
      <4> QED
        BY <4>1, ZerosCut
    <3>2. frame_size \in Nat /\ drain \in Nat \cup {-1} /\ dropped \in Nat
      BY DEF TypeOK
    <3>3. \/ UNCHANGED <<frame_size, drain, dropped>>
          \/ dropped' = dropped + frame_size /\ UNCHANGED <<frame_size, drain>>
          \/ drain > 0 /\ FeedZeros(drain) /\ UNCHANGED dropped
          \/ drain' = -1 /\ UNCHANGED <<frame_size, dropped>>
      BY <2>1
    <3> QED
      BY <3>1, <3>2, <3>3 DEF FeedZeros
  <2>7. TypeOK'
    BY <1>15, <2>1, <2>2, <2>3, <2>5, <2>6 DEF Write, TypeOK
  <2>8. Lengths'
    BY <1>3, <1>4, <1>15, <2>1, <2>2, <2>3, <2>5 DEF Write, Lengths, NeverAhead, TypeOK
  <2>9. Modes'
    <3>1. /\ UNCHANGED <<fixed, link_read, resampler>>
          /\ pc = "write"
      BY <1>15 DEF Write
    <3>2. (Rate # InRate)' = (Rate # InRate)
      BY <1>4, <3>1
    <3>3. CASE pc' = "iterate"
      BY <2>1, <3>1, <3>2, <3>3
    <3>4. CASE drain' = -1 /\ pc' \in {"read", "linkend"}
      BY <3>1, <3>2, <3>4
    <3> QED
      BY <2>1, <3>3, <3>4
  <2> QED
    BY <2>7, <2>8, <2>9
<1>16. CASE UNCHANGED vars
  BY <1>4, <1>5, <1>16 DEF vars, TypeOK, Lengths, NeverAhead, OutLen
<1> QED
  BY <1>6, <1>7, <1>8, <1>9, <1>10, <1>11, <1>12, <1>13, <1>14, <1>15, <1>16
  DEF Next, Loop, Terminated

LEMMA PhaseStep == TypeOK /\ PhaseExact /\ [Next]_vars => PhaseExact'
<1> SUFFICES ASSUME TypeOK, PhaseExact, [Next]_vars, resampler', NEW c \in Chan
    PROVE (phase[c] + consumed[c] * ratio.den
             = Latency(ratio) * ratio.den + made[c] * ratio.num)'
  BY DEF PhaseExact, Next, Loop, Terminated, vars, fixed, Chan
<1>1. /\ ratio \in Ratios /\ ratio.den \in Nat /\ ratio.num \in Nat
      /\ Latency(ratio) * ratio.den \in Nat
  BY Typing DEF TypeOK
<1>2. ratio' = ratio
  BY DEF Next, Loop, Terminated, ReadFrame, EndLink, NextLink, ChannelsChange, Finish, Resample,
         PassThrough, ProcessFloat, ChannelDone, Write, vars, fixed
<1>3. CASE FreshFilter
  <2>1. phase'[c] = Latency(ratio) * ratio.den /\ consumed'[c] = 0 /\ made'[c] = 0
    BY <1>1, <1>3, FreshFilterTypes
  <2> QED
    BY <1>1, <1>2, <2>1
<1>4. CASE resampler /\ UNCHANGED filter
  BY <1>2, <1>4 DEF PhaseExact, filter
<1>5. CASE resampler /\ ProcessFloat
  <2>1. PICK n \in Nat, used \in Nat, left \in Nat :
          /\ consumed' = [consumed EXCEPT ![ch] = @ + used]
          /\ made' = [made EXCEPT ![ch] = @ + n]
          /\ phase' = [phase EXCEPT ![ch] = left]
          /\ phase[ch] + n * ratio.num = left + used * ratio.den
    BY <1>5, Pass
  <2>2. ch \in Chan /\ phase[c] \in Nat /\ consumed[c] \in Nat /\ made[c] \in Nat
    BY DEF TypeOK
  <2>3. phase[c] + consumed[c] * ratio.den = Latency(ratio) * ratio.den + made[c] * ratio.num
    BY <1>5 DEF PhaseExact
  <2>4. CASE c # ch
    <3>1. phase'[c] = phase[c] /\ consumed'[c] = consumed[c] /\ made'[c] = made[c]
      BY <2>1, <2>2, <2>4 DEF TypeOK
    <3> QED
      BY <1>2, <2>3, <3>1
  <2>5. CASE c = ch
    <3>1. phase'[c] = left /\ consumed'[c] = consumed[c] + used /\ made'[c] = made[c] + n
      BY <2>1, <2>2, <2>5 DEF TypeOK
    <3>2. /\ (consumed[c] + used) * ratio.den = consumed[c] * ratio.den + used * ratio.den
          /\ (made[c] + n) * ratio.num = made[c] * ratio.num + n * ratio.num
      BY <1>1, <2>1, <2>2
    <3>3. /\ consumed[c] * ratio.den \in Nat /\ used * ratio.den \in Nat
          /\ made[c] * ratio.num \in Nat /\ n * ratio.num \in Nat
      BY <1>1, <2>1, <2>2
    <3>4. left + (consumed[c] * ratio.den + used * ratio.den)
            = Latency(ratio) * ratio.den + (made[c] * ratio.num + n * ratio.num)
      BY <1>1, <2>1, <2>2, <2>3, <2>5, <3>3
    <3> QED
      BY <1>2, <3>1, <3>2, <3>4
  <2> QED
    BY <2>4, <2>5
<1>6. FreshFilter \/ (resampler /\ (UNCHANGED filter \/ ProcessFloat))
  BY DEF Next, Loop, Terminated, ReadFrame, Decode, EndLink, MustDrain, NextLink, ChannelsChange, Finish, Resample,
         PassThrough, ChannelDone, Write, vars, ProcessFloat
<1> QED
  BY <1>3, <1>4, <1>5, <1>6

-----------------------------------------------------------------------------
(* Exactness.                                                              *)

\* Before the drain the filter lags behind by more than one output sample.
LEMMA OutputLags ==
  ASSUME ratio \in Ratios, NEW n \in Nat, NEW m \in Nat \ {0},
         Latency(ratio) * ratio.den + (m - 1) * ratio.num < n * ratio.den
  PROVE  m < Target(n)
<1> DEFINE num == ratio.num
<1>1. /\ num \in Nat \ {0} /\ ratio.den \in Nat /\ Latency(ratio) * ratio.den \in Nat
      /\ Latency(ratio) * ratio.den >= 2 * num
  BY Typing
<1>2. PICK t \in Nat : t = Target(n) /\ n * ratio.den < (t + 1) * num
  BY TargetIsFloor
<1>3. Latency(ratio) * ratio.den + (m - 1) * num < n * ratio.den
  OBVIOUS
<1> HIDE DEF num
<1>4. n * ratio.den \in Nat /\ (m - 1) * num \in Nat /\ (t + 1) * num \in Nat
  BY <1>1, <1>2
<1>5. 2 * num + (m - 1) * num < (t + 1) * num
  BY <1>1, <1>2, <1>3, <1>4
<1>6. (m + 1) * num < (t + 1) * num
  BY <1>1, <1>5
<1>7. m + 1 < t + 1
  BY <1>1, <1>2, <1>6
<1> QED
  BY <1>2, <1>7

\* After the drain it has given all there is.
LEMMA LinkEndExact ==
  ASSUME IInv, pc = "linkend", ~failed
  PROVE  link_out = Target(link_read)
<1>1. /\ ratio \in Ratios /\ link_read \in Nat /\ dropped \in Nat /\ link_out \in Int
      /\ Last \in Chan /\ phase[Last] \in Nat /\ made[Last] \in Nat /\ consumed[Last] \in Nat
  BY BoundAssumption DEF IInv, TypeOK, Last, Chan
<1>2. CASE ~resampler
  BY <1>1, <1>2, TargetOfNothing, TargetWithoutResampler DEF IInv, Modes, Exact, Copied
<1>3. CASE resampler /\ link_out # Target(link_read)
  <2> DEFINE num == ratio.num  den == ratio.den  H == Latency(ratio)
             C == consumed[Last]  M == made[Last]
  <2>1. num \in Nat \ {0} /\ den \in Nat \ {0} /\ H \in Nat /\ C \in Nat /\ M \in Nat
    BY <1>1, Typing
  <2>2. M = link_out /\ C + dropped = link_read + H
    BY <1>1, <1>3 DEF IInv, Exact, Filtered, Unwritten, LastRuns
  <2>3. phase[Last] + C * den = H * den + M * num
    BY <1>1, <1>3 DEF IInv, PhaseExact
  <2>4. dropped * den < num
    BY DEF IInv, Exact, DropsLessThanOneOutput
  <2>5. PICK t \in Nat : t = Target(link_read) /\ t * num <= link_read * den
    BY <1>1, TargetIsFloor
  <2>6. M <= t
    BY <2>2, <2>5 DEF IInv, Lengths, NeverAhead
  <2> HIDE DEF num, den, H, C, M
  <2>7. C * den + dropped * den = link_read * den + H * den
    BY <1>1, <2>1, <2>2
  <2>8. /\ C * den \in Nat /\ dropped * den \in Nat /\ link_read * den \in Nat
        /\ H * den \in Nat /\ M * num \in Nat /\ t * num \in Nat
    BY <1>1, <2>1, <2>5
  <2>9. t * num < M * num + num
    BY <1>1, <2>1, <2>3, <2>4, <2>5, <2>7, <2>8
  <2>10. t * num < (M + 1) * num
    BY <2>1, <2>8, <2>9
  <2>11. t < M + 1
    BY <2>1, <2>5, <2>10
  <2> QED
    BY <1>3, <2>1, <2>2, <2>5, <2>6, <2>11
<1> QED
  BY <1>2, <1>3

LEMMA ExactStep == IInv /\ Control' /\ [Next]_vars /\ ~failed' => Exact'
<1> SUFFICES ASSUME IInv, Control', [Next]_vars, ~failed' PROVE Exact'
  OBVIOUS
<1> USE DEF Writing
<1>1. ~failed /\ Copied /\ Filtered /\ DropsLessThanOneOutput /\ Sizes
  <2>1. CASE Write
    <3>1. \E r : failed' = (failed \/ r)
      BY <2>1 DEF Write
    <3> QED
      BY <3>1 DEF IInv, Exact
  <2>2. CASE UNCHANGED failed
    BY <2>2 DEF IInv, Exact
  <2> QED
    BY <2>1, <2>2 DEF Next, Loop, Terminated, ReadFrame, EndLink, NextLink, ChannelsChange, Finish,
       Resample, PassThrough, ProcessFloat, ChannelDone, vars, history
<1>2. TypeOK /\ PhaseExact /\ Lengths /\ Modes
  BY DEF IInv
<1>3. /\ ratio \in Ratios /\ ratio.num \in Nat \ {0} /\ ratio.den \in Nat \ {0}
      /\ Latency(ratio) \in Nat
  BY <1>2, Typing DEF TypeOK
<1>4. /\ Last \in Chan /\ made[Last] \in Nat /\ consumed[Last] \in Nat /\ phase[Last] \in Nat
  BY <1>2, BoundAssumption DEF TypeOK, Last, Chan
<1>5. CASE ReadFrame
  <2>1. PICK n \in 1 .. MaxFrame : Decode(n, link_read, link_out)
    BY <1>5 DEF ReadFrame
  <2>2. n \in Nat /\ link_read \in Nat
    BY <1>2, <2>1, BoundAssumption DEF TypeOK
  <2>3. /\ pc = "read" /\ pc' = "iterate" /\ drain = -1 /\ drain' = -1
        /\ link_read' = link_read + n /\ link_out' = link_out /\ frame_size' = n
        /\ UNCHANGED <<fixed, history, audio_size>>
    BY <1>2, <1>5, <2>1 DEF ReadFrame, Decode, Modes
  <2>4. Copied'
    BY <1>1, <2>1, <2>2, <2>3 DEF Copied, Decode, history
  <2>5. Filtered'
    <3>1. CASE ~resampler /\ resampler'
      <4>1. FreshFilter /\ Rate # InRate
        BY <2>1, <3>1 DEF Decode
      <4>2. made'[Last] = 0 /\ consumed'[Last] = 0
        BY <1>3, <1>4, <4>1, FreshFilterTypes
      <4>3. link_read = 0 /\ link_out = 0 /\ dropped = 0
        BY <1>1, <1>2, <2>3, <3>1, <4>1 DEF Copied, Modes
      <4> QED
        BY <2>2, <2>3, <4>2, <4>3 DEF Filtered, Unread, Unwritten, LastRuns, history, Last
    <3>2. CASE resampler /\ resampler'
      <4>1. UNCHANGED filter
        BY <2>1, <3>2 DEF Decode
      <4>2. link_read * ratio.den <= (link_read + n) * ratio.den
        BY <1>3, <2>2
      <4>3. made[Last] > 0 =>
              Latency(ratio) * ratio.den + (made[Last] - 1) * ratio.num
                < (link_read + n) * ratio.den
        BY <1>1, <1>3, <1>4, <2>2, <2>3, <3>2, <4>2 DEF Filtered
      <4>4. /\ made'[Last] = link_out' /\ consumed'[Last] + dropped' + frame_size' = link_read'
            /\ Unread' = frame_size' /\ Unwritten' = 0
        BY <1>1, <1>2, <1>4, <2>2, <2>3, <3>2, <4>1
        DEF Filtered, Unread, Unwritten, LastRuns, filter, history, Last, TypeOK
      <4> QED
        BY <1>4, <2>3, <4>1, <4>3, <4>4 DEF Filtered, fixed, filter, history, Last
    <3> QED
      BY <3>1, <3>2, <2>1 DEF Decode, Filtered
  <2>6. DropsLessThanOneOutput' /\ Sizes'
    BY <1>1, <2>3 DEF DropsLessThanOneOutput, Sizes, fixed, history
  <2> QED
    BY <2>4, <2>5, <2>6 DEF Exact
<1>6. CASE EndLink
  <2>1. /\ pc = "read" /\ drain = -1 /\ Unread = 0 /\ Unwritten = 0
        /\ UNCHANGED <<fixed, history, audio_size, link_read, link_out, resampler, filter>>
    BY <1>2, <1>6 DEF EndLink, Modes, Unread, Unwritten, LastRuns
  <2>2. CASE resampler
    <3>1. /\ frame_size' + drain' = Latency(ratio) /\ frame_size' \in Nat /\ drain' \in Nat
          /\ pc' = "iterate"
      BY <1>3, <1>6, <2>2, ZerosCut DEF EndLink, MustDrain, StartDrain, FeedZeros
    <3>2. Unread' = frame_size' /\ Unwritten' = 0
      BY <3>1 DEF Unread, Unwritten, LastRuns
    <3>3. made[Last] = link_out /\ consumed[Last] + dropped = link_read
      BY <1>1, <1>2, <1>4, <2>1, <2>2 DEF Filtered, TypeOK
    <3>4. Filtered'
      BY <1>2, <1>3, <1>4, <2>1, <3>1, <3>2, <3>3
      DEF Filtered, filter, history, fixed, Last, TypeOK
    <3> QED
      BY <1>1, <2>1, <2>2, <3>1, <3>4
      DEF Exact, Copied, DropsLessThanOneOutput, Sizes, fixed, history
  <2>3. CASE ~resampler
    <3>1. pc' = "linkend"
      BY <1>6, <2>3 DEF EndLink, MustDrain
    <3> QED
      BY <1>1, <2>1, <2>3, <3>1
      DEF Exact, Copied, Filtered, DropsLessThanOneOutput, Sizes, fixed, history
  <2> QED
    BY <2>2, <2>3
<1>7. pc = "linkend" => link_out = Target(link_read)
  BY <1>1, LinkEndExact
<1>8. 0 * ratio.den < ratio.num
  BY <1>3
<1>9. CASE NextLink
  <2>1. made'[Last] = 0 /\ consumed'[Last] = 0
    BY <1>3, <1>4, <1>9, FreshFilterTypes DEF NextLink
  <2>2. /\ drain' = -1 /\ pc' = "iterate" /\ ratio' = ratio
        /\ link_read' = pending /\ link_out' = 0 /\ frame_size' = pending /\ dropped' = 0
    BY <1>2, <1>9 DEF NextLink, Modes, fixed
  <2>3. Copied' /\ Filtered'
    BY <1>2, <2>1, <2>2 DEF Copied, Filtered, Unread, Unwritten, LastRuns, Last, TypeOK
  <2>4. Sizes'
    BY <1>1, <1>2, <1>7, <1>9 DEF NextLink, Sizes, TypeOK
  <2> QED
    BY <1>8, <2>2, <2>3, <2>4 DEF Exact, DropsLessThanOneOutput
<1>10. CASE ChannelsChange
  <2>1. pc' = "done" /\ ~resampler' /\ dropped' = 0 /\ ratio' = ratio
    BY <1>10 DEF ChannelsChange, fixed
  <2>2. Sizes'
    BY <1>1, <1>2, <1>7, <1>10 DEF ChannelsChange, Sizes, TypeOK
  <2> QED
    BY <1>8, <2>1, <2>2 DEF Exact, DropsLessThanOneOutput, Copied, Filtered
<1>11. CASE Finish
  <2>1. pc' = "done" /\ ~resampler' /\ dropped' = dropped /\ ratio' = ratio
    BY <1>11 DEF Finish, fixed
  <2>2. Sizes'
    BY <1>1, <1>2, <1>7, <1>11 DEF Finish, Sizes, TypeOK
  <2> QED
    BY <1>1, <2>1, <2>2 DEF Exact, DropsLessThanOneOutput, Copied, Filtered
<1>12. CASE Resample
  <2>1. /\ pc = "iterate" /\ pc' = "channel" /\ resampler
        /\ ilen' = frame_size /\ frame_size' = frame_size
        /\ OutLen' = OutLen /\ olen' = OutLen
        /\ UNCHANGED <<fixed, history, audio_size, link_read, link_out, resampler, filter,
                       drain, maxout>>
    BY <1>12 DEF Resample, RestartLengths, OutLen
  <2>2. Unread' = Unread /\ Unwritten' = 0 /\ Unwritten = 0
    BY <1>2, <2>1, OutLenBounds DEF Unread, Unwritten, LastRuns, TypeOK
  <2>3. Filtered'
    BY <1>1, <2>1, <2>2 DEF Filtered, filter, history, fixed, Last
  <2> QED
    BY <1>1, <2>1, <2>3 DEF Exact, Copied, DropsLessThanOneOutput, Sizes, fixed, history
<1>13. CASE PassThrough
  <2>1. /\ pc = "iterate" /\ pc' = "write" /\ ~resampler /\ ~resampler'
        /\ out_len' = Min(frame_size, maxout) /\ frame_size' = 0
        /\ UNCHANGED <<fixed, history, audio_size, link_read, link_out>>
    BY <1>13 DEF PassThrough
  <2>2. link_out + frame_size = link_read /\ Rate = InRate
    BY <1>1, <1>2, <2>1 DEF Copied, Modes
  <2>3. link_out + maxout = link_read
    BY <1>2, <1>3, <2>1, <2>2, TargetWithoutResampler DEF Lengths, TypeOK
  <2>4. out_len' = frame_size
    BY <1>2, <2>1, <2>2, <2>3 DEF Min, TypeOK
  <2> QED
    BY <1>1, <2>1, <2>2, <2>4
    DEF Exact, Copied, Filtered, DropsLessThanOneOutput, Sizes, fixed, history
<1>14. CASE ProcessFloat
  <2>1. PICK n \in Nat, used \in Nat, left \in Nat :
          /\ n <= olen /\ olen' = olen - n
          /\ used <= ilen /\ ilen' = ilen - used
          /\ consumed' = [consumed EXCEPT ![ch] = @ + used]
          /\ made' = [made EXCEPT ![ch] = @ + n]
          /\ n = 0 \/ phase[ch] + (n - 1) * ratio.num < ilen * ratio.den
    BY <1>2, <1>14, Pass
  <2>2. /\ pc = "channel" /\ pc' = "channel" /\ ch' = ch /\ resampler /\ OutLen' = OutLen
        /\ UNCHANGED <<fixed, history, audio_size, link_read, link_out, resampler,
                       drain, maxout, frame_size>>
    BY <1>2, <1>14 DEF ProcessFloat, Modes, OutLen
  <2>3. /\ OutLen \in Nat /\ ilen \in Nat /\ olen \in Nat /\ link_out \in Int /\ ch \in Chan
        /\ frame_size \in Nat /\ dropped \in Nat /\ link_read \in Nat
    BY <1>2, OutLenBounds DEF TypeOK
  <2>4. Filtered'
    <3>1. CASE ch # Last
      <4>1. made'[Last] = made[Last] /\ consumed'[Last] = consumed[Last]
        BY <1>2, <1>4, <2>1, <2>3, <3>1 DEF TypeOK
      <4>2. Unread' = Unread /\ Unwritten' = Unwritten
        BY <2>2, <3>1 DEF Unread, Unwritten, LastRuns, Last
      <4> QED
        BY <1>1, <2>2, <4>1, <4>2 DEF Filtered, fixed, history, Last
    <3>2. CASE ch = Last
      <4>1. made'[Last] = made[Last] + n /\ consumed'[Last] = consumed[Last] + used
        BY <1>2, <1>4, <2>1, <2>3, <3>2 DEF TypeOK
      <4>2. /\ Unread = ilen /\ Unread' = ilen - used
            /\ Unwritten = OutLen - olen /\ Unwritten' = OutLen - (olen - n)
        BY <2>1, <2>2, <3>2 DEF Unread, Unwritten, LastRuns, Last
      <4>3. made'[Last] = link_out + Unwritten'
        BY <1>1, <1>4, <2>1, <2>2, <2>3, <4>1, <4>2 DEF Filtered
      <4>4. consumed'[Last] + dropped + Unread' = consumed[Last] + dropped + Unread
        BY <1>4, <2>1, <2>3, <4>1, <4>2
      <4>5. drain = -1 /\ made'[Last] > 0 =>
              Latency(ratio) * ratio.den + (made'[Last] - 1) * ratio.num < link_read * ratio.den
        <5>1. CASE n = 0
          BY <1>1, <1>4, <2>2, <4>1, <5>1 DEF Filtered
        <5>2. CASE n # 0 /\ drain = -1
          <6> DEFINE num == ratio.num  den == ratio.den  H == Latency(ratio)
                     C == consumed[Last]  M == made[Last]
          <6>1. num \in Nat /\ den \in Nat /\ H \in Nat /\ C \in Nat /\ M \in Nat
            BY <1>3, <1>4
          <6>2. phase[Last] + (n - 1) * num < ilen * den
            BY <2>1, <3>2, <5>2
          <6>3. phase[Last] + C * den = H * den + M * num
            BY <1>2, <1>4, <2>2 DEF PhaseExact
          <6>4. C + dropped + ilen = link_read
            BY <1>1, <2>2, <4>2, <5>2 DEF Filtered
          <6>5. made'[Last] = M + n
            BY <4>1
          <6> HIDE DEF num, den, H, C, M
          <6>6. M * num + (n - 1) * num = ((M + n) - 1) * num
            BY <2>1, <6>1
          <6>7. (C + ilen) * den <= link_read * den
            BY <2>3, <6>1, <6>4
          <6>8. (C + ilen) * den = C * den + ilen * den
            BY <2>3, <6>1
          <6>9. /\ M * num \in Nat /\ (n - 1) * num \in Int /\ C * den \in Nat
                /\ ilen * den \in Nat /\ H * den \in Nat /\ link_read * den \in Nat
            BY <2>1, <2>3, <6>1
          <6>10. H * den + ((M + n) - 1) * num < link_read * den
            BY <1>4, <6>2, <6>3, <6>6, <6>7, <6>8, <6>9
          <6> QED
            BY <6>5, <6>10 DEF num, den, H
        <5> QED
          BY <5>1, <5>2
      <4> QED
        <5>1. \/ drain = -1 \/ maxout = 0
              \/ consumed'[Last] + dropped + Unread' + drain = link_read + Latency(ratio)
          BY <1>1, <2>2, <4>4 DEF Filtered
        <5> QED
          BY <1>1, <2>2, <4>3, <4>4, <4>5, <5>1 DEF Filtered, fixed, history, Last
    <3> QED
      BY <3>1, <3>2
  <2> QED
    BY <1>1, <2>2, <2>4 DEF Exact, Copied, DropsLessThanOneOutput, Sizes, fixed, history
<1>15. CASE ChannelDone
  <2>1. /\ pc = "channel" /\ resampler /\ ch \in 1 .. Channels /\ OutLen' = OutLen
        /\ OutLen \in Nat /\ Channels \in Nat
        /\ UNCHANGED <<fixed, history, audio_size, link_read, link_out, resampler, filter,
                       drain, maxout>>
    BY <1>2, <1>15, OutLenBounds, BoundAssumption DEF ChannelDone, Modes, OutLen, TypeOK, Chan
  <2>2. pc' \in {"channel", "write"} /\ Unread' = Unread /\ Unwritten' = Unwritten
    <3>1. CASE ch < Channels
      BY <1>15, <2>1, <3>1 DEF ChannelDone, RestartLengths, Unread, Unwritten, LastRuns, Last
    <3>2. CASE ~(ch < Channels)
      BY <1>15, <2>1, <3>2 DEF ChannelDone, Unread, Unwritten, LastRuns, Last
    <3> QED
      BY <3>1, <3>2
  <2>3. Filtered'
    BY <1>1, <2>1, <2>2 DEF Filtered, filter, fixed, history, Last
  <2> QED
    BY <1>1, <2>1, <2>2, <2>3 DEF Exact, Copied, DropsLessThanOneOutput, Sizes, fixed, history
<1>16. CASE Write
  <2>1. PICK ret \in IF maxout > 0 THEN WriteResults(out_len) ELSE {0} :
          /\ link_out' = link_out + ret
          /\ audio_size' = audio_size + ret
          /\ failed' = (failed \/ (maxout > 0 /\ ret # out_len))
          /\ \/ /\ frame_size > 0 /\ maxout - ret > 0
                /\ maxout' = maxout - ret
                /\ pc' = "iterate"
                /\ UNCHANGED <<frame_size, drain, dropped>>
             \/ /\ ~(frame_size > 0 /\ maxout - ret > 0)
                /\ \/ /\ drain = -1
                      /\ dropped' = dropped + frame_size
                      /\ maxout' = maxout - ret
                      /\ pc' = "read"
                      /\ UNCHANGED <<frame_size, drain>>
                   \/ /\ drain > 0
                      /\ FeedZeros(drain)
                      /\ maxout' = MaxOut(link_read, link_out')
                      /\ pc' = "iterate"
                      /\ UNCHANGED dropped
                   \/ /\ drain = 0
                      /\ drain' = -1 /\ maxout' = maxout - ret
                      /\ pc' = "linkend"
                      /\ UNCHANGED <<frame_size, dropped>>
    BY <1>16 DEF Write
  <2>2. /\ pc = "write" /\ UNCHANGED <<fixed, link_read, resampler, filter, expected>>
        /\ link_out \in Int /\ audio_size \in Int /\ out_len \in Nat /\ maxout \in Nat
        /\ out_len <= maxout /\ link_read \in Nat /\ frame_size \in Nat /\ dropped \in Nat
        /\ expected \in Nat
    BY <1>2, <1>16 DEF Write, TypeOK, Lengths
  <2>3. ret = out_len
    <3>1. CASE maxout > 0
      BY <2>1, <3>1
    <3>2. CASE ~(maxout > 0)
      BY <2>1, <2>2, <3>2
    <3> QED
      BY <3>1, <3>2
  <2>4. Target(link_read)' = Target(link_read) /\ Target(link_read) \in Nat
    BY <1>3, <2>2, TargetIsFloor DEF fixed, Target, Rate
  <2>5. link_out' + (maxout - ret) = Target(link_read) /\ maxout - ret \in Nat
    BY <1>2, <2>1, <2>2, <2>3, <2>4 DEF Lengths
  <2>6. maxout' = maxout - ret
    <3>1. MaxOut(link_read, link_out') = maxout - ret
      BY <1>3, <2>1, <2>2, <2>3, <2>4, <2>5, MaxOutExact
    <3> QED
      BY <2>1, <3>1
  <2>7. Sizes'
    BY <1>1, <2>1, <2>2, <2>3 DEF Sizes
  <2>8. CASE ~resampler
    <3>1. frame_size = 0 /\ link_out' = link_read /\ dropped = 0
      BY <1>1, <2>1, <2>2, <2>3, <2>8 DEF Copied
    <3>2. drain = -1
      BY <1>2, <2>8 DEF Modes
    <3>3. pc' = "read" /\ dropped' = 0
      BY <2>1, <3>1, <3>2
    <3>4. Copied' /\ Filtered'
      BY <2>2, <2>8, <3>1, <3>3 DEF Copied, Filtered
    <3> QED
      BY <1>8, <2>2, <2>7, <3>3, <3>4 DEF Exact, DropsLessThanOneOutput, fixed
  <2>9. CASE resampler
    <3>1. /\ made[Last] = link_out' /\ Unread = frame_size
          /\ Unwritten' = 0 /\ Unread' = (IF pc' = "iterate" THEN frame_size' ELSE 0)
      BY <1>1, <2>1, <2>2, <2>3, <2>9 DEF Filtered, Unread, Unwritten, LastRuns
    <3>2. drain = -1 =>
            /\ consumed[Last] + dropped + frame_size = link_read
            /\ made[Last] > 0 =>
                 Latency(ratio) * ratio.den + (made[Last] - 1) * ratio.num < link_read * ratio.den
      BY <1>1, <2>2, <2>9, <3>1 DEF Filtered
    <3>3. drain # -1 =>
            maxout' = 0 \/ consumed[Last] + dropped + frame_size + drain
                             = link_read + Latency(ratio)
      <4>1. maxout = 0 => maxout' = 0
        <5> SUFFICES ASSUME maxout = 0 PROVE maxout - ret = 0
          BY <2>6
        <5>1. out_len = 0
          BY <2>2
        <5>2. ret = 0
          BY <2>3, <5>1
        <5> QED
          BY <5>2
      <4> QED
        BY <1>1, <2>9, <3>1, <4>1 DEF Filtered
    <3>4. drain = -1 \/ drain \in Nat
      BY <1>2 DEF TypeOK
    <3>5. CASE frame_size > 0 /\ maxout - ret > 0
      <4>1. pc' = "iterate" /\ UNCHANGED <<frame_size, drain, dropped>>
        BY <2>1, <3>5
      <4>2. Filtered'
        BY <1>4, <2>2, <3>1, <3>2, <3>3, <4>1 DEF Filtered, fixed, filter, Last
      <4> QED
        BY <1>1, <2>2, <2>7, <2>9, <4>1, <4>2 DEF Exact, Copied, DropsLessThanOneOutput, fixed
    <3>6. CASE drain = -1 /\ ~(frame_size > 0 /\ maxout - ret > 0)
      <4>1. pc' = "read" /\ dropped' = dropped + frame_size /\ drain' = -1
        BY <2>1, <3>6
      <4>2. consumed[Last] + dropped' + 0 = link_read
        BY <1>4, <2>2, <3>2, <3>6, <4>1
      <4>3. Filtered'
        BY <1>4, <2>2, <3>1, <3>2, <3>6, <4>1, <4>2 DEF Filtered, fixed, filter, Last
      <4>4. DropsLessThanOneOutput'
        <5>1. CASE frame_size = 0
          BY <1>1, <2>2, <4>1, <5>1 DEF DropsLessThanOneOutput, fixed
        <5>2. CASE frame_size > 0
          <6>1. made[Last] = Target(link_read)
            <7>1. maxout - ret = 0
              BY <2>5, <3>6, <5>2
            <7> QED
              BY <1>4, <2>4, <2>5, <3>1, <7>1
          <6>2. Target(link_read) = 0
            BY <1>3, <1>4, <2>2, <3>2, <3>6, <6>1, OutputLags
          <6>3. link_read * ratio.den < ratio.num
            BY <1>3, <2>2, <6>2, TargetIsFloor
          <6>4. dropped' \in Nat /\ dropped' <= link_read
            BY <1>4, <2>2, <4>1, <4>2
          <6>5. dropped' * ratio.den <= link_read * ratio.den
            BY <1>3, <2>2, <6>4
          <6>6. dropped' * ratio.den \in Nat /\ link_read * ratio.den \in Nat
            BY <1>3, <2>2, <6>4
          <6> QED
            BY <1>3, <2>2, <6>3, <6>5, <6>6 DEF DropsLessThanOneOutput, fixed
        <5> QED
          BY <2>2, <5>1, <5>2
      <4> QED
        BY <2>2, <2>7, <2>9, <4>3, <4>4 DEF Exact, Copied
    <3>7. CASE drain # -1 /\ ~(frame_size > 0 /\ maxout - ret > 0)
      <4>1. maxout' = 0 \/ consumed[Last] + dropped + drain = link_read + Latency(ratio)
        BY <1>4, <2>2, <2>5, <2>6, <3>3, <3>4, <3>7
      <4>2. CASE drain > 0
        <5>1. /\ pc' = "iterate" /\ dropped' = dropped /\ frame_size' + drain' = drain
              /\ frame_size' \in Nat /\ drain' \in Nat
          <6>1. drain \in Nat
            BY <3>4, <4>2
          <6>2. pc' = "iterate" /\ dropped' = dropped /\ FeedZeros(drain)
            BY <2>1, <3>7, <4>2
          <6>3. /\ Min(drain, DrainChunk) \in Nat /\ ZerosLeft(drain) \in Nat
                /\ Min(drain, DrainChunk) + ZerosLeft(drain) = drain
            BY <6>1, ZerosCut
          <6> QED
            BY <6>2, <6>3 DEF FeedZeros
        <5>2. Filtered'
          BY <1>3, <1>4, <2>2, <3>1, <4>1, <5>1 DEF Filtered, fixed, filter, Last
        <5> QED
          BY <1>1, <2>2, <2>7, <2>9, <5>1, <5>2 DEF Exact, Copied, DropsLessThanOneOutput, fixed
      <4>3. CASE drain = 0
        <5>1. pc' = "linkend" /\ dropped' = dropped /\ drain' = -1
          BY <2>1, <3>7, <4>3
        <5>2. link_out' = Target(link_read) \/ consumed[Last] + dropped = link_read + Latency(ratio)
          BY <1>4, <2>1, <2>2, <2>3, <2>4, <2>5, <2>6, <4>1, <4>3
        <5>3. Filtered'
          BY <1>4, <2>2, <2>4, <3>1, <5>1, <5>2 DEF Filtered, fixed, filter, Last
        <5> QED
          BY <1>1, <2>2, <2>7, <2>9, <5>1, <5>3 DEF Exact, Copied, DropsLessThanOneOutput, fixed
      <4> QED
        BY <3>4, <3>7, <4>2, <4>3
    <3> QED
      BY <3>5, <3>6, <3>7
  <2> QED
    BY <2>8, <2>9
<1>17. CASE UNCHANGED vars
  <2>1. Unread' = Unread /\ Unwritten' = Unwritten
    BY <1>17 DEF vars, cursor, Unread, Unwritten, LastRuns, OutLen
  <2>2. Copied'
    BY <1>1, <1>17 DEF vars, fixed, filter, cursor, history, Copied
  <2>3. Filtered'
    BY <1>1, <1>17, <2>1 DEF vars, fixed, filter, history, Filtered, Last, Target, Rate
  <2>4. DropsLessThanOneOutput' /\ Sizes'
    BY <1>1, <1>17 DEF vars, fixed, history, DropsLessThanOneOutput, Sizes
  <2> QED
    BY <2>2, <2>3, <2>4 DEF Exact
<1> QED
  BY <1>5, <1>6, <1>9, <1>10, <1>11, <1>12, <1>13, <1>14, <1>15, <1>16, <1>17
  DEF Next, Loop, Terminated

LEMMA InductiveStep == IInv /\ [Next]_vars => IInv'
<1> SUFFICES ASSUME IInv, [Next]_vars PROVE IInv'
  OBVIOUS
<1>1. Control'
  BY ControlStep DEF IInv, Control
<1>2. PhaseExact'
  BY PhaseStep DEF IInv
<1>3. ~failed' => Exact'
  BY <1>1, ExactStep
<1> QED
  BY <1>1, <1>2, <1>3 DEF IInv, Control

LEMMA Inductive == Spec => []IInv
BY InitIInv, InductiveStep, PTL DEF Spec

-----------------------------------------------------------------------------
(* The channels of one call.  Where the filter stops depends on the phase   *)
(* it starts with alone: the channels already filtered stopped there, the   *)
(* ones still to come start like them, and the running one is on its way.   *)

\* Input sample x and output sample m, in units of 1/den of an input sample, for a
\* channel that starts with phase p.
In(x)     == x * ratio.den
Out(p, m) == p + m * ratio.num

\* Pass k of the filter reads input up to ChunkEnd(k); an output at o is made by pass
\* k; the input behind o that pass gives up stops at x.
ChunkEnd(k)    == Min(k * BufferSize + BufferSize, frame_size)
MadeBy(o, k)   == In(k * BufferSize) <= o /\ o < In(ChunkEnd(k))
Stops(o, e, x) == x <= e /\ In(x) <= o /\ (x = e \/ o < In(x + 1))

\* The call ends with m outputs of x inputs: the input, or the room, is used up.
EndsShort(p, m, x) ==
  /\ m < OutLen /\ x = frame_size
  /\ In(frame_size) <= Out(p, m) /\ (m = 0 \/ Out(p, m - 1) < In(frame_size))
EndsFull(p, m, x) ==
  /\ m = OutLen
  /\ OutLen = 0 => x = 0
  /\ OutLen > 0 => \E k \in Nat : MadeBy(Out(p, m - 1), k) /\ Stops(Out(p, m), ChunkEnd(k), x)
Ends(p, m, x) == EndsShort(p, m, x) \/ EndsFull(p, m, x)

\* It goes on: every pass so far took all the input it was given.
GoesOn(p, m, x) ==
  /\ m < OutLen \/ (OutLen = 0 /\ x = 0)
  /\ x = frame_size \/ \E k \in Nat : x = k * BufferSize
  /\ In(x) <= Out(p, m) /\ (m = 0 \/ Out(p, m - 1) < In(x))

\* Channel c has made m outputs of x inputs of this call.
At(c, p, x0, m, x) == consumed[c] = x0 + x /\ phase[c] + In(x) = Out(p, m)

Behind(c, p, x0) == \E m \in Nat, x \in Nat : At(c, p, x0, m, x) /\ Ends(p, m, x)
Running(c, p, x0) ==
  \E m \in Nat, x \in Nat :
    /\ At(c, p, x0, m, x) /\ x + ilen = frame_size /\ m + olen = OutLen
    /\ Ends(p, m, x) \/ GoesOn(p, m, x)
Ahead(c, p, x0) == phase[c] = p /\ consumed[c] = x0

Alike  == \A c \in Chan : phase[c] = phase[1] /\ consumed[c] = consumed[1]
InTurn ==
  \E p \in Nat, x0 \in Nat :
    /\ \A c \in Chan : c < ch => Behind(c, p, x0)
    /\ Running(ch, p, x0)
    /\ \A c \in Chan : c > ch => Ahead(c, p, x0)
Together == IF pc = "channel" THEN InTurn ELSE Alike

LEMMA Scales ==
  ASSUME ratio \in Ratios
  PROVE  /\ \A x \in Nat : In(x) \in Nat
         /\ \A x, y \in Nat : x <= y => In(x) <= In(y)
         /\ \A x, y \in Nat : In(x + y) = In(x) + In(y)
         /\ In(0) = 0
         /\ \A p, m \in Nat : Out(p, m) \in Nat
         /\ \A p, m, n \in Nat : m <= n => Out(p, m) <= Out(p, n)
         /\ \A p, m, n \in Nat : Out(p, m + n) = Out(p, m) + n * ratio.num
         /\ \A p \in Nat : Out(p, 0) = p
<1>1. PICK num \in Nat, den \in Nat : num = ratio.num /\ den = ratio.den
  BY Typing
<1>2. \A x \in Nat : x * den \in Nat
  BY <1>1
<1>3. \A x, y \in Nat : x <= y => x * den <= y * den
  BY <1>1
<1>4. \A x, y \in Nat : (x + y) * den = x * den + y * den
  BY <1>1
<1>5. \A m \in Nat : m * num \in Nat
  BY <1>1
<1>6. \A m, n \in Nat : m <= n => m * num <= n * num
  BY <1>1
<1>7. \A m, n \in Nat : (m + n) * num = m * num + n * num
  BY <1>1
<1>8. 0 * num = 0 /\ 0 * den = 0
  BY <1>1
<1>9. \A p, m, n \in Nat : Out(p, m + n) = Out(p, m) + n * ratio.num
  BY <1>1, <1>5, <1>7 DEF Out
<1>10. \A p, m, n \in Nat : m <= n => Out(p, m) <= Out(p, n)
  BY <1>1, <1>5, <1>6 DEF Out
<1>11. \A p, m \in Nat : Out(p, m) \in Nat
  BY <1>1, <1>5 DEF Out
<1>12. \A p \in Nat : Out(p, 0) = p
  BY <1>1, <1>8 DEF Out
<1>13. /\ \A x \in Nat : In(x) \in Nat
       /\ \A x, y \in Nat : x <= y => In(x) <= In(y)
       /\ \A x, y \in Nat : In(x + y) = In(x) + In(y)
       /\ In(0) = 0
  BY <1>1, <1>2, <1>3, <1>4, <1>8 DEF In
<1> QED
  BY <1>9, <1>10, <1>11, <1>12, <1>13

LEMMA InSum ==
  ASSUME ratio \in Ratios
  PROVE  \A x, y, z \in Nat : z = x + y => In(z) = In(x) + In(y)
<1>1. \A x, y \in Nat : In(x + y) = In(x) + In(y)
  BY Scales
<1> QED
  BY <1>1

LEMMA OutSum ==
  ASSUME ratio \in Ratios, NEW p \in Nat, NEW m \in Nat, NEW n \in Nat, NEW s, s = m + n,
         NEW y, y = n * ratio.num
  PROVE  Out(p, s) = Out(p, m) + y
<1>1. Out(p, m + n) = Out(p, m) + n * ratio.num
  BY Scales
<1> QED
  BY <1>1

LEMMA ChunkBounds ==
  ASSUME frame_size \in Nat, NEW k \in Nat
  PROVE  /\ k * BufferSize \in Nat /\ ChunkEnd(k) \in Nat /\ ChunkEnd(k) <= frame_size
         /\ ChunkEnd(k) <= k * BufferSize + BufferSize
         /\ (k + 1) * BufferSize = k * BufferSize + BufferSize
<1>1. PICK b \in Nat : b = BufferSize
  BY BoundAssumption
<1>2. k * b \in Nat /\ (k + 1) * b = k * b + b
  BY <1>1
<1> QED
  BY <1>1, <1>2 DEF ChunkEnd, Min

\* No two passes make the same output.
LEMMA OnePass ==
  ASSUME ratio \in Ratios, frame_size \in Nat, NEW o \in Nat, NEW k \in Nat, NEW l \in Nat,
         MadeBy(o, k), MadeBy(o, l)
  PROVE  ~(k < l)
<1> SUFFICES ASSUME k < l PROVE FALSE
  OBVIOUS
<1>1. PICK b \in Nat : b = BufferSize
  BY BoundAssumption
<1>2. k * b + b <= l * b
  <2>1. PICK d \in Nat : l = (k + 1) + d
    <3>1. l - (k + 1) \in Nat
      OBVIOUS
    <3> QED
      BY <3>1
  <2>2. l * b = (k + 1) * b + d * b /\ (k + 1) * b = k * b + b /\ d * b \in Nat /\ k * b \in Nat
    BY <1>1, <2>1
  <2> QED
    BY <1>1, <2>2
<1>3. /\ ChunkEnd(k) \in Nat /\ ChunkEnd(k) <= k * b + b /\ k * b \in Nat
      /\ l * b \in Nat
  BY <1>1, ChunkBounds
<1>4. ChunkEnd(k) <= l * BufferSize /\ l * BufferSize \in Nat /\ ChunkEnd(k) \in Nat
  BY <1>1, <1>2, <1>3
<1>5. In(ChunkEnd(k)) <= In(l * BufferSize)
  BY <1>4, Scales
<1>6. In(ChunkEnd(k)) \in Nat /\ In(l * BufferSize) \in Nat
  BY <1>4, Scales
<1> QED
  BY <1>5, <1>6 DEF MadeBy

LEMMA OneStop ==
  ASSUME ratio \in Ratios, NEW o \in Nat, NEW e \in Nat, NEW x \in Nat, NEW y \in Nat,
         Stops(o, e, x), Stops(o, e, y)
  PROVE  ~(x < y)
<1> SUFFICES ASSUME x < y PROVE FALSE
  OBVIOUS
<1>1. o < In(x + 1) /\ In(y) <= o
  BY DEF Stops
<1>2. PICK z \in Nat : z = x + 1 /\ z <= y
  OBVIOUS
<1>3. In(z) <= In(y) /\ In(z) \in Nat /\ In(y) \in Nat
  BY <1>2, Scales
<1> QED
  BY <1>1, <1>2, <1>3

LEMMA SameCount ==
  ASSUME ratio \in Ratios, frame_size \in Nat, OutLen \in Nat, NEW p \in Nat,
         NEW m \in Nat, NEW x \in Nat, NEW n \in Nat, NEW y \in Nat, Ends(p, m, x), Ends(p, n, y)
  PROVE  ~(m < n)
<1> SUFFICES ASSUME m < n PROVE FALSE
  OBVIOUS
<1>1. n <= OutLen
  BY DEF Ends, EndsShort, EndsFull
<1>2. In(frame_size) <= Out(p, m)
  BY <1>1 DEF Ends, EndsShort, EndsFull
<1>3. PICK l \in Nat : l = n - 1 /\ m <= l
  OBVIOUS
<1>4. Out(p, m) <= Out(p, l) /\ Out(p, m) \in Nat /\ Out(p, l) \in Nat /\ In(frame_size) \in Nat
  BY <1>3, Scales
<1>5. CASE EndsShort(p, n, y)
  <2>1. Out(p, l) < In(frame_size)
    BY <1>3, <1>5 DEF EndsShort
  <2> QED
    BY <1>2, <1>4, <2>1
<1>6. CASE EndsFull(p, n, y)
  <2>1. PICK k \in Nat : MadeBy(Out(p, l), k)
    BY <1>3, <1>6 DEF EndsFull
  <2>2. Out(p, l) < In(ChunkEnd(k))
    BY <2>1 DEF MadeBy
  <2>3. In(ChunkEnd(k)) <= In(frame_size) /\ In(ChunkEnd(k)) \in Nat
    BY ChunkBounds, Scales
  <2> QED
    BY <1>2, <1>4, <2>2, <2>3
<1> QED
  BY <1>5, <1>6 DEF Ends

\* A call has one end.
LEMMA OneEnd ==
  ASSUME ratio \in Ratios, frame_size \in Nat, OutLen \in Nat, NEW p \in Nat,
         NEW m \in Nat, NEW x \in Nat, NEW n \in Nat, NEW y \in Nat, Ends(p, m, x), Ends(p, n, y)
  PROVE  m = n /\ x = y
<1>1. m = n
  <2>1. ~(m < n) /\ ~(n < m)
    BY SameCount
  <2> QED
    BY <2>1
<1>2. CASE EndsShort(p, m, x)
  BY <1>1, <1>2 DEF Ends, EndsShort, EndsFull
<1>3. CASE EndsFull(p, m, x) /\ EndsFull(p, n, y)
  <2>1. CASE OutLen = 0
    BY <1>3, <2>1 DEF EndsFull
  <2>2. CASE OutLen > 0
    <3>1. PICK k \in Nat : MadeBy(Out(p, m - 1), k) /\ Stops(Out(p, m), ChunkEnd(k), x)
      BY <1>3, <2>2 DEF EndsFull
    <3>2. PICK l \in Nat : MadeBy(Out(p, m - 1), l) /\ Stops(Out(p, m), ChunkEnd(l), y)
      BY <1>1, <1>3, <2>2 DEF EndsFull
    <3>3. PICK j \in Nat : j = m - 1
      BY <1>3, <2>2 DEF EndsFull
    <3>4. Out(p, j) \in Nat /\ Out(p, m) \in Nat
      BY Scales
    <3>5. ~(k < l) /\ ~(l < k)
      BY <3>1, <3>2, <3>3, <3>4, OnePass
    <3>6. k = l /\ ChunkEnd(k) \in Nat
      BY <3>5, ChunkBounds
    <3>7. ~(x < y) /\ ~(y < x)
      BY <3>1, <3>2, <3>4, <3>6, OneStop
    <3> QED
      BY <1>1, <3>7
  <2> QED
    BY <2>1, <2>2
<1> QED
  BY <1>1, <1>2, <1>3 DEF Ends, EndsShort, EndsFull

\* A pass with all the input it may take, and what its loop leaves of it.
LEMMA UsedExact ==
  ASSUME ratio \in Ratios, NEW q \in Nat, NEW in \in Nat
  PROVE  Used(q, in) = in \/ q < In(Used(q, in) + 1)
<1>1. PICK den \in Nat \ {0} : den = ratio.den
  BY Typing
<1>2. PICK d \in Nat : d = q \div den /\ q < (d + 1) * den
  <2>1. /\ q \div den \in Nat /\ q % den \in Nat /\ q = den * (q \div den) + (q % den) /\ q % den < den
    BY Division
  <2>2. PICK d \in Nat : d = q \div den
    BY <2>1
  <2>3. q = den * d + (q % den) /\ den * d \in Nat /\ (d + 1) * den = den * d + den
    BY <2>1, <2>2
  <2>4. q < (d + 1) * den
    BY <2>1, <2>3
  <2> QED
    BY <2>2, <2>4
<1>3. Used(q, in) = in \/ Used(q, in) = d
  BY <1>1, <1>2 DEF Used, Min
<1> QED
  BY <1>1, <1>2, <1>3 DEF In

LEMMA PassExact ==
  ASSUME TypeOK, ProcessFloat
  PROVE  \E n \in Nat, used \in Nat, left \in Nat, in \in Nat :
           /\ in = Min(ilen, BufferSize)
           /\ n <= olen /\ olen' = olen - n
           /\ used <= in /\ ilen' = ilen - used
           /\ consumed' = [consumed EXCEPT ![ch] = @ + used]
           /\ phase' = [phase EXCEPT ![ch] = left]
           /\ phase[ch] + n * ratio.num = left + In(used)
           /\ n = olen \/ phase[ch] + n * ratio.num >= In(in)
           /\ n = 0 \/ phase[ch] + (n - 1) * ratio.num < In(in)
           /\ used = in \/ phase[ch] + n * ratio.num < In(used + 1)
<1>1. ratio \in Ratios /\ ratio.den \in Nat \ {0} /\ ratio.num \in Nat \ {0}
  BY Typing DEF TypeOK
<1>2. ilen \in Nat /\ olen \in Nat /\ phase[ch] \in Nat
  BY DEF TypeOK
<1>3. PICK in \in Nat : in = Min(ilen, BufferSize)
  BY <1>2, BoundAssumption DEF Min
<1>4. PICK n \in 0 .. olen :
        LET p == phase[ch] + n * ratio.num
            used == Used(p, in)
        IN /\ Outputs(phase[ch], in, olen, n)
           /\ phase' = [phase EXCEPT ![ch] = PhaseLeft(p, used)]
           /\ consumed' = [consumed EXCEPT ![ch] = @ + used]
           /\ made' = [made EXCEPT ![ch] = @ + n]
           /\ ilen' = ilen - used /\ olen' = olen - n
  BY <1>3 DEF ProcessFloat
<1>5. PICK q \in Nat : q = phase[ch] + n * ratio.num
  BY <1>1, <1>2
<1>6. /\ Used(q, in) \in Nat /\ Used(q, in) <= in /\ PhaseLeft(q, Used(q, in)) \in Nat
      /\ q = PhaseLeft(q, Used(q, in)) + Used(q, in) * ratio.den
  BY <1>1, UsedBounds
<1>7. PICK used \in Nat, left \in Nat : used = Used(q, in) /\ left = PhaseLeft(q, Used(q, in))
  BY <1>6
<1>8. /\ phase' = [phase EXCEPT ![ch] = left]
      /\ consumed' = [consumed EXCEPT ![ch] = @ + used]
      /\ ilen' = ilen - used /\ olen' = olen - n
  BY <1>4, <1>5, <1>7
<1>9. /\ used <= in /\ q = left + In(used)
      /\ used = in \/ q < In(used + 1)
  BY <1>1, <1>6, <1>7, UsedExact DEF In
<1>10. /\ n = olen \/ q >= In(in)
       /\ n = 0 \/ phase[ch] + (n - 1) * ratio.num < In(in)
  BY <1>4, <1>5 DEF Outputs, In
<1>11. n \in Nat /\ n <= olen
  BY <1>2
<1> WITNESS n \in Nat, used \in Nat, left \in Nat, in \in Nat
<1> QED
  BY <1>3, <1>5, <1>8, <1>9, <1>10, <1>11

\* n outputs of one more pass, which starts at x with phase f and takes `used` of its
\* `in` inputs.
LEMMA PassOn ==
  ASSUME ratio \in Ratios, frame_size \in Nat, OutLen \in Nat,
         NEW p \in Nat, NEW m \in Nat, NEW x \in Nat, GoesOn(p, m, x), m < OutLen, x < frame_size,
         NEW f \in Nat, f + In(x) = Out(p, m),
         NEW in \in Nat, in = Min(frame_size - x, BufferSize),
         NEW n \in Nat, n <= OutLen - m, NEW used \in Nat, used <= in,
         In(used) <= f + n * ratio.num,
         n = OutLen - m \/ f + n * ratio.num >= In(in),
         n = 0 \/ f + (n - 1) * ratio.num < In(in),
         used = in \/ f + n * ratio.num < In(used + 1)
  PROVE  Ends(p, m + n, x + used) \/ GoesOn(p, m + n, x + used)
<1>1. PICK k \in Nat : x = k * BufferSize
  BY DEF GoesOn
<1>2. PICK b \in Nat \ {0} : b = BufferSize
  BY BoundAssumption
<1>3. PICK e \in Nat : e = x + in /\ e = ChunkEnd(k) /\ (e = frame_size \/ e = (k + 1) * BufferSize)
  <2>1. x + in = ChunkEnd(k)
    BY <1>1, <1>2 DEF ChunkEnd, Min
  <2>2. x + in = frame_size \/ x + in = (k + 1) * BufferSize
    BY <1>1, <1>2, ChunkBounds DEF Min
  <2> QED
    BY <2>1, <2>2
<1>4. PICK s \in Nat, t \in Nat : s = m + n /\ t = x + used
  OBVIOUS
<1>5. PICK g \in Nat : g = f + n * ratio.num
  <2>1. PICK num \in Nat : num = ratio.num
    BY Typing
  <2>2. n * num \in Nat
    BY <2>1
  <2> QED
    BY <2>1, <2>2
<1>6. /\ In(e) = In(x) + In(in) /\ In(t) = In(x) + In(used)
      /\ In(x) \in Nat /\ In(in) \in Nat /\ In(used) \in Nat
  <2>1. In(x) \in Nat /\ In(in) \in Nat /\ In(used) \in Nat
    BY Scales
  <2>2. In(e) = In(x) + In(in)
    BY <1>3, InSum
  <2>3. In(t) = In(x) + In(used)
    BY <1>4, InSum
  <2> QED
    BY <2>1, <2>2, <2>3
<1>7. In(t + 1) = In(x) + In(used + 1) /\ In(used + 1) \in Nat
  <2>1. PICK v \in Nat : v = used + 1
    OBVIOUS
  <2>2. PICK w \in Nat : w = t + 1
    BY <1>4
  <2>3. w = x + v
    BY <1>4, <2>1, <2>2
  <2>4. In(w) = In(x) + In(v)
    <3>1. \A y, z \in Nat : z = x + y => In(z) = In(x) + In(y)
      BY InSum
    <3> QED
      BY <2>3, <3>1
  <2>5. In(v) \in Nat
    BY Scales
  <2> QED
    BY <2>1, <2>2, <2>4, <2>5
<1>8. Out(p, s) = g + In(x) /\ Out(p, s) \in Nat
  <2>1. PICK y : y = n * ratio.num
    OBVIOUS
  <2>2. y \in Nat
    <3>1. PICK num \in Nat : num = ratio.num
      BY Typing
    <3> QED
      BY <2>1, <3>1
  <2>3. Out(p, s) = Out(p, m) + y
    BY <1>4, <2>1, OutSum
  <2>4. g = f + y
    BY <1>5, <2>1
  <2> QED
    BY <1>6, <2>2, <2>3, <2>4
<1>9. In(t) <= Out(p, s)
  BY <1>5, <1>6, <1>8
<1>10. n > 0 => In(x) <= Out(p, s - 1) /\ Out(p, s - 1) < In(e)
  <2> SUFFICES ASSUME n > 0 PROVE In(x) <= Out(p, s - 1) /\ Out(p, s - 1) < In(e)
    OBVIOUS
  <2>1. PICK j \in Nat : j = n - 1 /\ s - 1 = m + j
    BY <1>4
  <2>2. PICK y \in Nat : y = j * ratio.num
    <3>1. PICK num \in Nat : num = ratio.num
      BY Typing
    <3>2. j * num \in Nat
      BY <3>1
    <3> QED
      BY <3>1, <3>2
  <2>3. Out(p, m + j) = Out(p, m) + y
    BY <2>2, OutSum
  <2>4. f + y < In(in)
    BY <2>1, <2>2
  <2>5. Out(p, s - 1) = f + In(x) + y
    BY <1>6, <2>1, <2>3
  <2> QED
    BY <1>6, <2>4, <2>5
<1>11. CASE n = OutLen - m
  <2>1. s = OutLen /\ n > 0 /\ OutLen > 0
    BY <1>4, <1>11
  <2>2. MadeBy(Out(p, s - 1), k)
    BY <1>1, <1>3, <1>10, <2>1 DEF MadeBy
  <2>3. t <= e /\ (t = e \/ Out(p, s) < In(t + 1))
    <3>1. t <= e /\ (used = in => t = e)
      BY <1>3, <1>4
    <3>2. used = in \/ g < In(used + 1)
      BY <1>5
    <3>3. g < In(used + 1) => Out(p, s) < In(t + 1)
      BY <1>6, <1>7, <1>8
    <3> QED
      BY <3>1, <3>2, <3>3
  <2>4. Stops(Out(p, s), ChunkEnd(k), t)
    BY <1>3, <1>9, <2>3 DEF Stops
  <2>5. EndsFull(p, s, t)
    BY <2>1, <2>2, <2>4 DEF EndsFull
  <2> QED
    BY <1>4, <2>5 DEF Ends
<1>12. CASE n # OutLen - m
  <2>1. s < OutLen
    BY <1>4, <1>12
  <2>2. used = in
    <3> SUFFICES ASSUME used # in PROVE FALSE
      OBVIOUS
    <3>1. PICK v \in Nat : v = used + 1 /\ v <= in
      OBVIOUS
    <3>2. In(v) <= In(in) /\ In(v) \in Nat
      BY <3>1, Scales
    <3>3. g < In(v) /\ g >= In(in)
      BY <1>5, <1>12, <3>1
    <3> QED
      BY <1>6, <3>2, <3>3
  <2>3. t = e
    BY <1>3, <1>4, <2>2
  <2>4. t = frame_size \/ \E l \in Nat : t = l * BufferSize
    BY <1>3, <2>3
  <2>5. s = 0 \/ Out(p, s - 1) < In(t)
    <3>1. CASE n > 0
      BY <1>10, <2>3, <3>1
    <3>2. CASE n = 0 /\ m # 0
      <4>1. s = m /\ Out(p, m - 1) < In(x)
        BY <1>4, <3>2 DEF GoesOn
      <4>2. PICK j \in Nat : j = m - 1
        BY <3>2
      <4>3. Out(p, j) \in Nat /\ In(x) <= In(t)
        <5>1. Out(p, j) \in Nat
          BY Scales
        <5> QED
          BY <1>6, <5>1
      <4> QED
        BY <1>6, <4>1, <4>2, <4>3
    <3> QED
      BY <1>4, <3>1, <3>2
  <2>6. GoesOn(p, s, t)
    BY <1>9, <2>1, <2>4, <2>5 DEF GoesOn
  <2> QED
    BY <1>4, <2>6
<1> QED
  BY <1>11, <1>12

LEMMA EndsKept ==
  ASSUME ratio' = ratio, frame_size' = frame_size, maxout' = maxout,
         NEW p, NEW m, NEW x
  PROVE  (Ends(p, m, x)' <=> Ends(p, m, x)) /\ (GoesOn(p, m, x)' <=> GoesOn(p, m, x))
BY DEF Ends, EndsShort, EndsFull, GoesOn, MadeBy, Stops, ChunkEnd, In, Out, OutLen

\* A channel that is not filtered stays where it is.
LEMMA AtKept ==
  ASSUME ratio' = ratio, frame_size' = frame_size, maxout' = maxout,
         NEW c, phase'[c] = phase[c], consumed'[c] = consumed[c], NEW p, NEW x0
  PROVE  (Behind(c, p, x0) => Behind(c, p, x0)') /\ (Ahead(c, p, x0) => Ahead(c, p, x0)')
<1>1. ASSUME Behind(c, p, x0) PROVE Behind(c, p, x0)'
  <2>1. PICK m \in Nat, x \in Nat : At(c, p, x0, m, x) /\ Ends(p, m, x)
    BY <1>1 DEF Behind
  <2>2. At(c, p, x0, m, x)'
    BY <2>1 DEF At, In, Out
  <2>3. Ends(p, m, x)'
    BY <2>1, EndsKept
  <2> QED
    BY <2>2, <2>3 DEF Behind
<1> QED
  BY <1>1 DEF Ahead

LEMMA Lens ==
  ASSUME TypeOK
  PROVE  /\ ratio \in Ratios /\ frame_size \in Nat /\ OutLen \in Nat /\ ilen \in Nat /\ olen \in Nat
         /\ Channels \in Nat \ {0} /\ Chan = 1 .. Channels /\ ch \in Chan
         /\ \A c \in Chan : phase[c] \in Nat /\ consumed[c] \in Nat
BY OutLenBounds, BoundAssumption DEF TypeOK, Chan

\* Where the input or the room is used up, the call ends.
LEMMA Stopped ==
  ASSUME TypeOK, NEW c \in Chan, NEW p \in Nat, NEW x0 \in Nat, Running(c, p, x0),
         ilen = 0 \/ olen = 0
  PROVE  Behind(c, p, x0)
<1>1. PICK m \in Nat, x \in Nat :
        /\ At(c, p, x0, m, x) /\ x + ilen = frame_size /\ m + olen = OutLen
        /\ Ends(p, m, x) \/ GoesOn(p, m, x)
  BY DEF Running
<1>2. ASSUME GoesOn(p, m, x) PROVE Ends(p, m, x)
  <2>1. CASE m < OutLen
    <3>1. x = frame_size
      BY <1>1, <2>1, Lens
    <3> QED
      BY <1>2, <2>1, <3>1 DEF GoesOn, Ends, EndsShort
  <2>2. CASE OutLen = 0 /\ x = 0
    <3>1. m = OutLen
      BY <1>1, <2>2, Lens
    <3> QED
      BY <2>2, <3>1 DEF Ends, EndsFull
  <2> QED
    BY <1>2, <2>1, <2>2 DEF GoesOn
<1> QED
  BY <1>1, <1>2 DEF Behind

LEMMA RunningPass ==
  ASSUME TypeOK, ProcessFloat, NEW p \in Nat, NEW x0 \in Nat, Running(ch, p, x0),
         NEW c \in Chan, c = ch
  PROVE  Running(c, p, x0)'
<1>1. PICK m \in Nat, x \in Nat :
        /\ At(c, p, x0, m, x) /\ x + ilen = frame_size /\ m + olen = OutLen
        /\ Ends(p, m, x) \/ GoesOn(p, m, x)
  BY DEF Running
<1>2. ilen > 0 /\ olen > 0 /\ ratio' = ratio /\ frame_size' = frame_size /\ maxout' = maxout
  BY DEF ProcessFloat, fixed
<1>3. ~Ends(p, m, x) /\ m < OutLen /\ x < frame_size
  <2>1. m < OutLen /\ x < frame_size
    BY <1>1, <1>2, Lens
  <2> QED
    BY <2>1, Lens DEF Ends, EndsShort, EndsFull
<1>4. PICK n \in Nat, used \in Nat, left \in Nat, in \in Nat :
        /\ in = Min(ilen, BufferSize)
        /\ n <= olen /\ olen' = olen - n
        /\ used <= in /\ ilen' = ilen - used
        /\ consumed' = [consumed EXCEPT ![ch] = @ + used]
        /\ phase' = [phase EXCEPT ![ch] = left]
        /\ phase[ch] + n * ratio.num = left + In(used)
        /\ n = olen \/ phase[ch] + n * ratio.num >= In(in)
        /\ n = 0 \/ phase[ch] + (n - 1) * ratio.num < In(in)
        /\ used = in \/ phase[ch] + n * ratio.num < In(used + 1)
  BY PassExact
<1>5. PICK f \in Nat : f = phase[c] /\ f + In(x) = Out(p, m)
  BY <1>1, Lens DEF At
<1>6. ilen = frame_size - x /\ olen = OutLen - m
  BY <1>1, Lens
<1>7. PICK s \in Nat, t \in Nat : s = m + n /\ t = x + used
  OBVIOUS
<1>8. PICK y \in Nat : y = n * ratio.num
  <2>1. PICK num \in Nat : num = ratio.num
    BY Typing, Lens
  <2>2. n * num \in Nat
    BY <2>1
  <2> QED
    BY <2>1, <2>2
<1>9. In(used) \in Nat /\ In(used) <= f + n * ratio.num
  <2>1. In(used) \in Nat
    BY Scales, Lens
  <2>2. f + y = left + In(used)
    BY <1>4, <1>5, <1>8
  <2> QED
    BY <1>8, <2>1, <2>2
<1>10. Ends(p, m + n, x + used) \/ GoesOn(p, m + n, x + used)
  <2>1. ratio \in Ratios /\ frame_size \in Nat /\ OutLen \in Nat /\ GoesOn(p, m, x)
    BY <1>1, <1>3, Lens
  <2>2. /\ in = Min(frame_size - x, BufferSize) /\ n <= OutLen - m
        /\ n = OutLen - m \/ f + n * ratio.num >= In(in)
        /\ n = 0 \/ f + (n - 1) * ratio.num < In(in)
        /\ used = in \/ f + n * ratio.num < In(used + 1)
    BY <1>4, <1>5, <1>6
  <2> QED
    BY <1>3, <1>4, <1>5, <1>9, <2>1, <2>2, PassOn
<1>11. Ends(p, s, t)' \/ GoesOn(p, s, t)'
  BY <1>2, <1>7, <1>10, EndsKept
<1>12. t + ilen' = frame_size' /\ s + olen' = OutLen'
  <2>1. OutLen' = OutLen
    BY <1>2 DEF OutLen
  <2>2. /\ ilen \in Nat /\ olen \in Nat /\ ilen' = ilen - used /\ olen' = olen - n
        /\ x + ilen = frame_size /\ m + olen = OutLen
    BY <1>1, <1>4, Lens
  <2> QED
    BY <1>2, <1>7, <2>1, <2>2
<1>13. At(c, p, x0, s, t)'
  <2>1. consumed'[c] = consumed[c] + used /\ phase'[c] = left
    BY <1>4 DEF TypeOK
  <2>2. consumed'[c] = x0 + t
    BY <1>1, <1>7, <2>1 DEF At
  <2>3. In(t) = In(x) + In(used) /\ Out(p, s) = Out(p, m) + y
    <3>1. ratio \in Ratios
      BY Lens
    <3>2. In(t) = In(x) + In(used)
      BY <1>7, <3>1, InSum
    <3>3. Out(p, s) = Out(p, m) + y
      BY <1>7, <1>8, <3>1, OutSum
    <3> QED
      BY <3>2, <3>3
  <2>4. f + y = left + In(used)
    BY <1>4, <1>5, <1>8
  <2>5. In(x) \in Nat
    BY Scales, Lens
  <2>6. left + In(t) = Out(p, s)
    BY <1>5, <1>9, <2>3, <2>4, <2>5
  <2>7. phase'[c] + In(t) = Out(p, s)
    BY <2>1, <2>6
  <2> QED
    BY <1>2, <2>2, <2>7 DEF At, In, Out
<1> QED
  BY <1>11, <1>12, <1>13 DEF Running

\* The first channel of a call, or the next one, begins.
LEMMA Begins ==
  ASSUME TypeOK, NEW c \in Chan, NEW p \in Nat, NEW x0 \in Nat,
         phase'[c] = p, consumed'[c] = x0, RestartLengths,
         ratio' = ratio, frame_size' = frame_size, maxout' = maxout
  PROVE  Running(c, p, x0)'
<1>1. In(0) = 0 /\ Out(p, 0) = p
  BY Scales, Lens
<1>2. OutLen' = OutLen /\ frame_size \in Nat /\ OutLen \in Nat
  BY Lens DEF OutLen
<1>3. At(c, p, x0, 0, 0)'
  BY <1>1 DEF At, In, Out
<1>4. 0 * BufferSize = 0
  BY BoundAssumption
<1>5. GoesOn(p, 0, 0)
  BY <1>1, <1>2, <1>4 DEF GoesOn
<1>6. GoesOn(p, 0, 0)'
  BY <1>5, EndsKept
<1>7. PICK zero \in Nat : zero = 0
  OBVIOUS
<1>8. zero + ilen' = frame_size' /\ zero + olen' = OutLen'
  BY <1>2, <1>7 DEF RestartLengths
<1>9. At(c, p, x0, zero, zero)' /\ GoesOn(p, zero, zero)'
  BY <1>3, <1>6, <1>7
<1> QED
  BY <1>8, <1>9 DEF Running

LEMMA TogetherStep == TypeOK /\ Together /\ [Next]_vars => Together'
<1> SUFFICES ASSUME TypeOK, Together, [Next]_vars PROVE Together'
  OBVIOUS
<1>1. Channels \in Nat \ {0} /\ Chan = 1 .. Channels /\ ch \in Chan /\ 1 \in Chan /\ Chan' = Chan
  BY Lens DEF Chan
<1>2. CASE Resample
  <2>1. /\ pc = "iterate" /\ pc' = "channel" /\ ch' = 1 /\ RestartLengths /\ phase' = phase
        /\ consumed' = consumed /\ ratio' = ratio /\ frame_size' = frame_size /\ maxout' = maxout
    BY <1>2 DEF Resample, fixed, filter
  <2>2. PICK p \in Nat, x0 \in Nat : p = phase[1] /\ x0 = consumed[1]
    BY <1>1, Lens
  <2>3. PICK c \in Chan : c = 1 /\ c = ch'
    BY <1>1, <2>1
  <2>4. Running(c, p, x0)'
    BY <2>1, <2>2, <2>3, Begins
  <2>5. ASSUME NEW d \in Chan PROVE Ahead(d, p, x0)'
    BY <2>1, <2>2 DEF Together, Alike, Ahead
  <2>6. InTurn'
    BY <1>1, <2>3, <2>4, <2>5 DEF InTurn
  <2> QED
    BY <2>1, <2>6 DEF Together
<1>3. CASE ProcessFloat
  <2>1. /\ pc = "channel" /\ pc' = pc /\ ch' = ch /\ ratio' = ratio /\ frame_size' = frame_size
        /\ maxout' = maxout
    BY <1>3 DEF ProcessFloat, fixed
  <2>2. PICK p \in Nat, x0 \in Nat :
          /\ \A c \in Chan : c < ch => Behind(c, p, x0)
          /\ Running(ch, p, x0)
          /\ \A c \in Chan : c > ch => Ahead(c, p, x0)
    BY <2>1 DEF Together, InTurn
  <2>3. ASSUME NEW c \in Chan, c # ch PROVE phase'[c] = phase[c] /\ consumed'[c] = consumed[c]
    <3>1. PICK used \in Nat, left \in Nat : /\ consumed' = [consumed EXCEPT ![ch] = @ + used]
                                            /\ phase' = [phase EXCEPT ![ch] = left]
      BY <1>3, PassExact
    <3> QED
      BY <2>3, <3>1 DEF TypeOK
  <2>4. ASSUME NEW c \in Chan, c < ch PROVE Behind(c, p, x0)'
    <3>1. c # ch /\ Behind(c, p, x0)
      BY <1>1, <2>2, <2>4
    <3> QED
      BY <2>1, <2>3, <3>1, AtKept
  <2>5. ASSUME NEW c \in Chan, c > ch PROVE Ahead(c, p, x0)'
    <3>1. c # ch /\ Ahead(c, p, x0)
      BY <1>1, <2>2, <2>5
    <3> QED
      BY <2>1, <2>3, <3>1, AtKept
  <2>6. ASSUME NEW c \in Chan, c = ch PROVE Running(c, p, x0)'
    BY <1>3, <2>2, <2>6, RunningPass
  <2>7. PICK c \in Chan : c = ch /\ c = ch'
    BY <1>1, <2>1
  <2>8. Running(c, p, x0)'
    BY <2>6, <2>7
  <2>9. InTurn'
    BY <1>1, <2>1, <2>4, <2>5, <2>7, <2>8 DEF InTurn
  <2> QED
    BY <2>1, <2>9 DEF Together
<1>4. CASE ChannelDone
  <2>1. /\ pc = "channel" /\ (ilen = 0 \/ olen = 0) /\ ratio' = ratio /\ maxout' = maxout
        /\ phase' = phase /\ consumed' = consumed
    BY <1>4 DEF ChannelDone, fixed, filter
  <2>2. PICK p \in Nat, x0 \in Nat :
          /\ \A c \in Chan : c < ch => Behind(c, p, x0)
          /\ Running(ch, p, x0)
          /\ \A c \in Chan : c > ch => Ahead(c, p, x0)
    BY <2>1 DEF Together, InTurn
  <2>3. Behind(ch, p, x0)
    BY <1>1, <2>1, <2>2, Stopped
  <2>4. \A c \in Chan : c <= ch => Behind(c, p, x0)
    BY <1>1, <2>2, <2>3
  <2>5. CASE ch < Channels
    <3>1. ch' = ch + 1 /\ RestartLengths /\ pc' = pc /\ frame_size' = frame_size
      BY <1>4, <2>5 DEF ChannelDone
    <3>2. PICK d \in Chan : d = ch + 1 /\ d = ch' /\ d > ch
      BY <1>1, <2>5, <3>1
    <3>3. phase'[d] = p /\ consumed'[d] = x0
      BY <2>1, <2>2, <3>2 DEF Ahead
    <3>4. Running(d, p, x0)'
      BY <2>1, <3>1, <3>3, Begins
    <3>5. ASSUME NEW c \in Chan, c < d PROVE Behind(c, p, x0)'
      <4>1. Behind(c, p, x0)
        BY <1>1, <2>4, <3>2, <3>5
      <4> QED
        BY <2>1, <3>1, <4>1, AtKept
    <3>6. ASSUME NEW c \in Chan, c > d PROVE Ahead(c, p, x0)'
      <4>1. Ahead(c, p, x0)
        BY <1>1, <2>2, <3>2, <3>6
      <4> QED
        BY <2>1, <3>1, <4>1, AtKept
    <3>7. InTurn'
      BY <1>1, <3>2, <3>4, <3>5, <3>6 DEF InTurn
    <3> QED
      BY <2>1, <3>1, <3>7 DEF Together
  <2>6. CASE ~(ch < Channels)
    <3>1. pc' = "write" /\ \A c \in Chan : c <= ch
      BY <1>1, <1>4, <2>6 DEF ChannelDone
    <3>2. ASSUME NEW c \in Chan PROVE phase[c] = phase[1] /\ consumed[c] = consumed[1]
      <4>1. PICK m \in Nat, x \in Nat : At(c, p, x0, m, x) /\ Ends(p, m, x)
        BY <2>4, <3>1 DEF Behind
      <4>2. PICK n \in Nat, y \in Nat : At(1, p, x0, n, y) /\ Ends(p, n, y)
        BY <1>1, <2>4, <3>1 DEF Behind
      <4>3. m = n /\ x = y
        BY <4>1, <4>2, OneEnd, Lens
      <4>4. consumed[c] = consumed[1] /\ phase[c] + In(x) = phase[1] + In(x)
        BY <4>1, <4>2, <4>3 DEF At
      <4>5. In(x) \in Nat /\ phase[c] \in Nat /\ phase[1] \in Nat
        BY <1>1, Scales, Lens
      <4> QED
        BY <4>4, <4>5
    <3>3. Alike'
      BY <1>1, <2>1, <3>2 DEF Alike
    <3> QED
      BY <3>1, <3>3 DEF Together
  <2> QED
    BY <2>5, <2>6
<1>5. CASE pc # "channel" /\ pc' # "channel" /\ UNCHANGED filter
  BY <1>1, <1>5 DEF Together, Alike, filter
<1>6. CASE pc' # "channel" /\ FreshFilter
  <2>1. \A c \in Chan : phase'[c] = Latency(ratio) * ratio.den /\ consumed'[c] = 0
    BY <1>6, FreshFilterTypes, Lens
  <2> QED
    BY <1>1, <1>6, <2>1 DEF Together, Alike
<1>7. CASE UNCHANGED vars
  <2>1. /\ ratio' = ratio /\ frame_size' = frame_size /\ maxout' = maxout /\ phase' = phase
        /\ consumed' = consumed /\ pc' = pc /\ ch' = ch /\ ilen' = ilen /\ olen' = olen
    BY <1>7 DEF vars, fixed, filter, cursor
  <2> QED
    BY <1>1, <2>1 DEF Together, Alike, InTurn, Behind, Running, Ahead, At, Ends, EndsShort, EndsFull,
                     GoesOn, MadeBy, Stops, ChunkEnd, In, Out, OutLen
<1>8. ReadFrame \/ EndLink \/ NextLink \/ ChannelsChange \/ Finish \/ PassThrough \/ Write =>
        pc # "channel" /\ pc' # "channel" /\ (UNCHANGED filter \/ FreshFilter)
  BY DEF ReadFrame, Decode, EndLink, StartDrain, NextLink, ChannelsChange, Finish, PassThrough, Write
<1> QED
  BY <1>2, <1>3, <1>4, <1>5, <1>6, <1>7, <1>8 DEF Next, Loop, Terminated

-----------------------------------------------------------------------------
(* The theorems.                                                           *)

\* The counters of the main loop, audio_write and the resampler keep their types;
\* in particular no length or phase of src/resample.c becomes negative.
THEOREM TypeCorrect == Spec => []TypeOK
<1>1. IInv => TypeOK
  BY DEF IInv
<1> QED
  BY <1>1, Inductive, PTL

\* Output sample k of every channel is taken at input position k * num / den,
\* wherever frames, passes, chunks and blocks of zeros end.
THEOREM ResamplingExact == Spec => []PhaseExact
<1>1. IInv => PhaseExact
  BY DEF IInv
<1> QED
  BY <1>1, Inductive, PTL

\* audio_write never writes more of a link than its input is long, whatever the
\* writes return.
THEOREM OutputNeverAhead == Spec => []NeverAhead
<1>1. IInv => NeverAhead
  BY DEF IInv, Lengths
<1> QED
  BY <1>1, Inductive, PTL

\* The input that audio_write leaves behind is less than one output sample.
THEOREM LittleDropped == Spec => []DropsLessThanOneOutput
<1>1. IInv => DropsLessThanOneOutput
  BY DEF IInv, Exact, DropsLessThanOneOutput
<1> QED
  BY <1>1, Inductive, PTL

\* After drain_resampler the output of a link is exactly as long as its input at
\* the output rate, rounded down.
THEOREM LinksExact == Spec => []LinkExact
<1>1. IInv => LinkExact
  BY LinkEndExact DEF LinkExact
<1> QED
  BY <1>1, Inductive, PTL

\* update_wav_header is given the sum of these lengths.
THEOREM SizesExact == Spec => []FileSizeExact
<1>1. IInv => FileSizeExact
  <2> SUFFICES ASSUME IInv, pc = "done", ~failed PROVE audio_size = expected
    BY DEF FileSizeExact
  <2>1. Sizes /\ expected \in Nat
    BY DEF IInv, Exact, TypeOK
  <2> QED
    BY <2>1 DEF Sizes
<1> QED
  BY <1>1, Inductive, PTL

\* audio_write advances its pointers by what the last channel consumed and made: all
\* the channels consumed and made the same, wherever their passes ended.
THEOREM ChannelsInStep == Spec => []LockStep
<1>1. Init => Together
  BY BoundAssumption DEF Init, Together, Alike, Chan
<1>2. IInv => TypeOK
  BY DEF IInv
<1>3. TypeOK /\ Together /\ [Next]_vars => Together'
  BY TogetherStep
<1>4. Together => LockStep
  BY DEF Together, Alike, LockStep
<1> QED
  BY <1>1, <1>2, <1>3, <1>4, Inductive, PTL DEF Spec
=============================================================================
