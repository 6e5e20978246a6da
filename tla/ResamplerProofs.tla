--------------------------- MODULE ResamplerProofs ---------------------------
(***************************************************************************)
(* That multiply_frac is exact, that lookups stay inside table and memory, *)
(* that changes of rate and quality do not move the signal, and that the   *)
(* memory the channels share stays sound: for all sizes, any number of     *)
(* channels, every set of filters, and all rates that are ints and whose   *)
(* quotient neither leads a place beyond an int nor a length to the last   *)
(* few numbers of a word (RatioAssumption and QuotientAssumption).  That   *)
(* the loop and the lengths, which are computed in words, then never wrap  *)
(* is proved here (LoopPlaces, LengthEven, SizeExact), not assumed.        *)
(***************************************************************************)
EXTENDS Resampler, TLAPS, WellFoundedInduction

\* What the assumptions say of a reduced ratio.
Suited(n, d) ==
  /\ d <= IntMax /\ n \div d + TableMax <= IntMax
  /\ n > d => \A q \in Qualities :
                (BaseLen[q] * n) \div d \notin WordMax + 2 - LenStep .. WordMax

\* How far beyond the filter and its magic samples the next output may be: as far as
\* the loop goes in a turn, or as far as skip_zeros skips.
Slack == Larger(IntMax - TableMax, TableMax \div 2)
Near(c) ==
  /\ last[c] <= magic[c] + filt_len \div 2 + Slack
  /\ ~started => last[c] <= TableMax \div 2

Types ==
  /\ num \in Nat /\ den \in Nat /\ alloc \in Nat /\ alloc <= TableMax
  /\ filt_len \in Nat /\ filt_len % 2 = 0
  /\ ilen \in Nat /\ olen \in Nat /\ ch \in Chan
  /\ pc \in {"idle", "magic", "input", "return"}
  /\ quality \in Qualities /\ asked \in Ratios
  /\ \A f \in {last, frac, magic, fed, since} : f \in [Chan -> Nat]

\* Before it is made it holds nothing, and only a live one is called.
Unused ==
  /\ up = "new" => ~started /\ \A c \in Chan : frac[c] = 0 /\ last[c] = 0
  /\ ~started => \A c \in Chan : magic[c] = 0
  /\ up # "live" => pc = "idle"

\* A filter made shorter leaves half of what it lost as magic samples, so that what
\* bounds the memory is not the length of the filter but that of the longest
\* filter the magic samples come from.
Live ==
  up = "live" =>
    /\ num # 0 /\ den # 0 /\ Suited(num, den)
    /\ ~silenced => kernel = <<filt_len, den>>
    /\ \A c \in Chan : frac[c] < den /\ OldLength(c) - 1 + BufferSize <= alloc /\ Near(c)

IInv == Types /\ Unused /\ Live

LEMMA Division ==
  ASSUME NEW a \in Nat, NEW d \in Nat \ {0}
  PROVE  /\ a \div d \in Nat /\ a % d \in Nat /\ a % d < d
         /\ a = d * (a \div d) + (a % d)
         /\ a = (a \div d) * d + (a % d)
OBVIOUS

\* A quotient is known by where its multiple of the divisor lies.
LEMMA Quotient ==
  ASSUME NEW a \in Nat, NEW d \in Nat \ {0}, NEW q \in Nat, NEW r \in Nat,
         a = q * d + r, r < d
  PROVE  a \div d = q /\ a % d = r
OBVIOUS

LEMMA Sizes ==
  /\ WordMax \in Nat \ {0} /\ TableMax \in Nat \ {0} /\ BufferSize \in Nat \ {0}
  /\ LenStep \in Nat \ {0}
  /\ IntMax \in Nat /\ 2 * IntMax <= WordMax /\ TableMax + BufferSize <= IntMax
  /\ Slack \in Nat /\ Slack >= IntMax - TableMax /\ Slack >= TableMax \div 2
  /\ TableMax \div 2 + Slack <= IntMax
<1>1. PICK w \in Nat \ {0}, t \in Nat \ {0} : w = WordMax /\ t = TableMax
  BY SizeAssumption
<1>2. w \div 2 \in Nat /\ 2 * (w \div 2) <= w /\ t \div 2 \in Nat /\ 2 * (t \div 2) <= t
  OBVIOUS
<1> QED
  BY <1>1, <1>2, SizeAssumption DEF IntMax, Slack, Larger

LEMMA SlackStays == Slack' = Slack
BY DEF Slack, IntMax, Larger

LEMMA SuitedRatio ==
  ASSUME NEW r \in Ratios
  PROVE  /\ Reduced(r)[1] \in Nat \ {0} /\ Reduced(r)[2] \in Nat \ {0}
         /\ Suited(Reduced(r)[1], Reduced(r)[2])
<1>1. PICK n, d : n = Reduced(r)[1] /\ d = Reduced(r)[2]
  OBVIOUS
<1>2. n \in 1 .. IntMax /\ d \in 1 .. IntMax
  BY <1>1, RatioAssumption
<1>3. /\ n \div d + TableMax <= IntMax
      /\ n > d => \A q \in Qualities :
                    (BaseLen[q] * n) \div d \notin WordMax + 2 - LenStep .. WordMax
  BY <1>1, QuotientAssumption
<1>4. n \in Nat \ {0} /\ d \in Nat \ {0} /\ d <= IntMax
  BY <1>2, Sizes
<1> QED
  BY <1>1, <1>3, <1>4 DEF Suited

\* A set of numbers has a least one.
LEMMA Least ==
  ASSUME NEW T \in SUBSET Nat, T # {}
  PROVE  \E m \in T : \A k \in T : m <= k
<1> DEFINE R == OpToRel(<, Nat)
<1>1. IsWellFoundedOn(R, Nat)
  BY NatLessThanWellFounded
<1> HIDE DEF R
<1>2. PICK m \in T : \A k \in T : ~(<<k, m>> \in R)
  BY <1>1, WFMin
<1>3. \A k, l \in Nat : k < l => <<k, l>> \in R
  BY DEF R, OpToRel
<1>4. \A k \in T : ~(k < m)
  BY <1>2, <1>3
<1> QED
  BY <1>4

\* Induction, on a set.
LEMMA Induction ==
  ASSUME NEW S, 0 \in S, \A i \in Nat : i \in S => i + 1 \in S
  PROVE  Nat \subseteq S
<1> SUFFICES ASSUME NEW bad \in Nat, bad \notin S PROVE FALSE
  OBVIOUS
<1>1. PICK m \in Nat \ S : \A k \in Nat \ S : m <= k
  BY Least
<1> QED
  BY <1>1

LEMMA WithinWord ==
  ASSUME NEW x \in Nat, x <= WordMax
  PROVE  Word(x) = x
BY SizeAssumption DEF Word

LEMMA WordNat ==
  ASSUME NEW x \in Int
  PROVE  Word(x) \in Nat
BY SizeAssumption DEF Word

LEMMA BoundedProduct ==
  ASSUME NEW a \in Nat, NEW n \in Nat \ {0}, NEW m \in Nat, a <= m \div n
  PROVE  a * n \in Nat /\ a * n <= m
<1>1. a * n <= (m \div n) * n
  OBVIOUS
<1>2. (m \div n) * n <= m
  BY Division
<1> QED
  BY <1>1, <1>2

\* When multiply_frac succeeds, no product and no sum has left the word, and the
\* result is the value times num over den, rounded down.
THEOREM MultiplyFracExact ==
  ASSUME NEW value \in Nat, NEW n \in Nat \ {0}, NEW d \in Nat \ {0},
         NoOverflow(value, n, d)
  PROVE  /\ MultiplyFrac(value, n, d) = (value * n) \div d
         /\ MultiplyFrac(value, n, d) <= WordMax
<1> DEFINE major  == value \div d
           remain == value % d
           part   == (remain * n) \div d
           rest   == (remain * n) % d
<1>1. major \in Nat /\ remain \in Nat /\ value = major * d + remain
  BY Division
<1>2. WordMax \in Nat
  BY SizeAssumption
<1>3. remain * n \in Nat /\ remain * n <= WordMax
  BY <1>1, <1>2, BoundedProduct DEF NoOverflow
<1>4. major * n \in Nat /\ major * n <= WordMax
  BY <1>1, <1>2, BoundedProduct DEF NoOverflow
<1>5. part \in Nat /\ rest \in Nat /\ rest < d /\ remain * n = part * d + rest
  BY <1>3, Division
<1>6. major * n <= WordMax - part
  BY DEF NoOverflow
<1>7. MultiplyFrac(value, n, d) = Word(part + major * n)
  BY <1>3, <1>4, WithinWord DEF MultiplyFrac
<1> HIDE DEF major, remain, part, rest
<1>8. part + major * n \in Nat /\ part + major * n <= WordMax
  BY <1>2, <1>4, <1>5, <1>6
<1>9. MultiplyFrac(value, n, d) = part + major * n
  BY <1>7, <1>8, WithinWord
<1>10. value * n = (part + major * n) * d + rest
  <2>1. value * n = (major * d) * n + remain * n
    BY <1>1
  <2>2. (major * d) * n = (major * n) * d
    BY <1>1
  <2>3. (part + major * n) * d = part * d + (major * n) * d
    BY <1>4, <1>5
  <2> QED
    BY <2>1, <2>2, <2>3, <1>4, <1>5
<1>11. value * n \in Nat
  BY <1>1
<1>12. (value * n) \div d = part + major * n
  BY <1>5, <1>8, <1>10, <1>11, Quotient
<1> QED
  BY <1>8, <1>9, <1>12

LEMMA DoubleIsEven ==
  ASSUME NEW k \in Int
  PROVE  (2 * k) % 2 = 0
OBVIOUS

LEMMA EvenHalves ==
  ASSUME NEW a \in Int, a % 2 = 0
  PROVE  a \div 2 \in Int /\ a = 2 * (a \div 2)
OBVIOUS

LEMMA MultipleOfStep ==
  ASSUME NEW k \in Int
  PROVE  (k * LenStep) % 2 = 0
<1>1. LenStep \in Nat /\ LenStep = 2 * (LenStep \div 2) /\ LenStep \div 2 \in Nat
  BY SizeAssumption, EvenHalves
<1>2. PICK h \in Nat : LenStep = 2 * h
  BY <1>1
<1>3. k * LenStep = 2 * (k * h) /\ k * h \in Int
  BY <1>2
<1> QED
  BY <1>3, DoubleIsEven

\* Every length update_filter chooses is even, so that halves of differences are exact.
LEMMA LengthNat ==
  ASSUME NEW q \in Qualities, NEW n \in Nat \ {0}, NEW d \in Nat \ {0}
  PROVE  NewLength(q, n, d) \in Nat
<1>1. LenStep \in Nat \ {0} /\ BaseLen[q] \in Nat
  BY Sizes, QualityAssumption
<1>2. PICK b \in Nat : b = BaseLen[q]
  BY <1>1
<1>3. (b % d) * n \in Int /\ (b \div d) * n \in Int
  BY Division
<1>4. Word((b % d) * n) \div d \in Nat /\ Word((b \div d) * n) \in Nat
  BY <1>3, WordNat, Division
<1>5. MultiplyFrac(b, n, d) \in Nat
  BY <1>4, WordNat DEF MultiplyFrac
<1>6. PICK x \in Nat : x = MultiplyFrac(b, n, d)
  BY <1>5
<1>7. PICK k \in Int : k = (x - 1) \div LenStep
  BY <1>1
<1>8. k * LenStep + LenStep \in Int
  BY <1>1
<1>9. RoundUp(x) \in Nat
  BY <1>7, <1>8, WordNat DEF RoundUp
<1> QED
  BY <1>2, <1>6, <1>9 DEF NewLength

\* A filter whose length is computed without overflow has one, and an even one, so
\* that halves of differences are exact.
LEMMA LengthEven ==
  ASSUME NEW q \in Qualities, NEW n \in Nat \ {0}, NEW d \in Nat \ {0},
         Suited(n, d), LengthFits(q, n, d)
  PROVE  NewLength(q, n, d) \in Nat \ {0} /\ NewLength(q, n, d) % 2 = 0
<1>1. BaseLen[q] \in Nat \ {0} /\ BaseLen[q] % LenStep = 0 /\ LenStep \in Nat \ {0}
      /\ WordMax \in Nat
  BY QualityAssumption, Sizes
<1>2. PICK b \in Nat \ {0} : b = BaseLen[q]
  BY <1>1
<1>3. CASE n > d
  <2>1. b * n \in Nat /\ b * n >= d
    <3>1. PICK a \in Nat, e \in Nat : b = a + 1 /\ n = d + e
      BY <1>3
    <3>2. b * n = a * n + n /\ a * n \in Nat
      BY <3>1
    <3> QED
      BY <1>3, <3>2
  <2>2. PICK x \in Nat, r \in Nat : x = (b * n) \div d /\ b * n = d * x + r /\ r < d
    BY <2>1, Division
  <2>3. x # 0
    BY <2>1, <2>2
  <2>4. MultiplyFrac(b, n, d) = x /\ x <= WordMax
    BY <1>2, <1>3, <2>2, MultiplyFracExact DEF LengthFits
  <2>5. x \notin WordMax + 2 - LenStep .. WordMax
    BY <1>2, <1>3, <2>2 DEF Suited
  <2>6. PICK k \in Nat, e \in Nat : k = (x - 1) \div LenStep /\ x - 1 = k * LenStep + e
    <3>1. x - 1 \in Nat
      BY <2>3
    <3> QED
      BY <1>1, <3>1, Division
  <2>7. PICK m \in Nat : m = k * LenStep /\ m <= x - 1
    <3>1. k * LenStep \in Nat
      BY <1>1
    <3> QED
      BY <2>6, <3>1
  <2>8. m + LenStep \in Nat \ {0} /\ m + LenStep <= WordMax
    BY <1>1, <2>4, <2>5, <2>7
  <2>9. RoundUp(x) = m + LenStep
    BY <2>6, <2>7, <2>8, WithinWord DEF RoundUp
  <2>10. m + LenStep = (k + 1) * LenStep
    BY <1>1, <2>7
  <2>11. (m + LenStep) % 2 = 0
    BY <2>10, MultipleOfStep
  <2> QED
    BY <1>2, <1>3, <2>4, <2>8, <2>9, <2>11 DEF NewLength
<1>4. CASE ~(n > d)
  <2> DEFINE k == b \div LenStep
  <2>1. k \in Nat /\ b = k * LenStep + 0
    BY <1>1, <1>2, Division
  <2> HIDE DEF k
  <2>2. b = k * LenStep
    BY <1>1, <1>2, <2>1
  <2>3. b % 2 = 0
    BY <2>1, <2>2, MultipleOfStep
  <2> QED
    BY <1>2, <1>4, <2>3 DEF NewLength
<1> QED
  BY <1>3, <1>4

\* A filter whose table fits leaves a word room for the memory, as the comment
\* in update_filter says.
LEMMA SizeExact ==
  ASSUME NEW len \in Nat \ {0}, NEW over \in Nat \ {0}, NEW d \in Nat \ {0},
         TableFits(len, over, d)
  PROVE  Word(len - 1 + BufferSize) = len - 1 + BufferSize
<1>1. TableMax \in Nat /\ BufferSize \in Nat /\ WordMax \in Nat /\ TableMax + BufferSize <= WordMax
  BY Sizes
<1>2. \A a \in Int, x \in Nat \ {0} : a \div x >= len => a >= len
  <2> SUFFICES ASSUME NEW a \in Int, NEW x \in Nat \ {0}, a \div x >= len PROVE a >= len
    OBVIOUS
  <2>1. PICK t \in Int, r \in Nat : t = a \div x /\ a = x * t + r
    OBVIOUS
  <2>2. PICK y \in Nat, e \in Nat : x = y + 1 /\ t = len + e
    BY <2>1
  <2>3. x * t = y * t + t /\ y * t \in Nat
    BY <2>2
  <2> QED
    BY <2>1, <2>2, <2>3
<1>3. TablePad \in Nat
  BY SizeAssumption
<1>4. len <= TableMax
  BY <1>1, <1>2, <1>3 DEF TableFits, Direct
<1>5. len - 1 + BufferSize \in Nat /\ len - 1 + BufferSize <= WordMax
  BY <1>1, <1>4
<1> QED
  BY <1>5, WithinWord

LEMMA SamplingNat ==
  ASSUME NEW q \in Qualities, NEW n \in Nat \ {0}, NEW d \in Nat \ {0}
  PROVE  Sampling(q, n, d) \in Nat \ {0}
<1>1. Oversample[q] \in Nat \ {0}
  BY QualityAssumption
<1>2. \A x \in Nat : x \div 2 \in Nat
  OBVIOUS
<1> QED
  BY <1>1, <1>2 DEF Sampling, Larger

-----------------------------------------------------------------------------
\* The fraction in units of a new rate: rounded down, and below the new rate, so
\* that the "safety net" of speex_resampler_set_rate_frac never catches anything.
LEMMA FractionRounds ==
  ASSUME NEW f \in Nat, NEW d \in Nat \ {0}, den \in Nat \ {0}, f < den,
         NoOverflow(f, d, den)
  PROVE  /\ Rescaled(f, d) \in Nat /\ Rescaled(f, d) < d
         /\ f * d - Rescaled(f, d) * den \in 0 .. den - 1
<1> DEFINE r == (f * d) \div den
           s == (f * d) % den
<1>1. f * d \in Nat
  OBVIOUS
<1>2. r \in Nat /\ s \in Nat /\ s < den /\ f * d = r * den + s
  BY <1>1, Division
<1>3. MultiplyFrac(f, d, den) = r
  BY MultiplyFracExact
<1> HIDE DEF r, s
<1>4. r < d
  <2>1. f * d < den * d
    OBVIOUS
  <2>2. SUFFICES ASSUME r >= d PROVE FALSE
    BY <1>2
  <2>3. r * den >= d * den
    BY <1>2, <2>2
  <2>4. d * den = den * d
    OBVIOUS
  <2> QED
    BY <1>1, <1>2, <2>1, <2>3, <2>4
<1>5. Rescaled(f, d) = r
  BY <1>2, <1>3, <1>4 DEF Rescaled
<1>6. f * d - r * den = s
  BY <1>1, <1>2
<1> QED
  BY <1>2, <1>4, <1>5, <1>6

\* A change of length keeps the middle of the filter, with what it leaves as magic
\* samples or takes back, and stays within the memory.
LEMMA LengthChanges ==
  ASSUME IInv, NEW len \in Nat, len % 2 = 0,
         started => up = "live",
         ChangeLength(len, Larger(alloc, len - 1 + BufferSize))
  PROVE  /\ filt_len' = len /\ alloc' \in Nat
         /\ last' \in [Chan -> Nat] /\ magic' \in [Chan -> Nat]
         /\ ~started => magic' = magic /\ last' = last
         /\ started => \A c \in Chan :
              last'[c] - magic'[c] - len \div 2 = last[c] - magic[c] - filt_len \div 2
         /\ \A c \in Chan : len + 2 * magic'[c] - 1 + BufferSize <= alloc'
<1> DEFINE size == Larger(alloc, len - 1 + BufferSize)
<1>1. /\ BufferSize \in Nat \ {0} /\ alloc \in Nat /\ filt_len \in Nat /\ filt_len % 2 = 0
      /\ last \in [Chan -> Nat] /\ magic \in [Chan -> Nat]
  BY SizeAssumption DEF IInv, Types
<1>2. size \in Nat /\ size >= alloc /\ size >= len - 1 + BufferSize
  BY <1>1 DEF Larger
<1>3. filt_len' = len /\ alloc' = size
  BY DEF ChangeLength
<1> HIDE DEF size
<1>4. CASE ~started
  <2>1. last' = last /\ magic' = magic
    BY <1>4 DEF ChangeLength
  <2>2. \A c \in Chan : magic[c] = 0
    BY <1>4 DEF IInv, Unused
  <2> QED
    BY <1>1, <1>2, <1>3, <1>4, <2>1, <2>2
<1>5. CASE started
  <2>1. \A c \in Chan : OldLength(c) - 1 + BufferSize <= alloc
    BY <1>5 DEF IInv, Live
  <2>2. CASE len = filt_len
    <3>1. /\ magic' = [c \in Chan |-> magic[c]] /\ last' = [c \in Chan |-> last[c]]
      BY <1>5, <2>2 DEF ChangeLength
    <3> QED
      BY <1>1, <1>2, <1>3, <1>5, <2>1, <2>2, <3>1 DEF OldLength
  <2>3. CASE len > filt_len
    <3>1. /\ magic' = [c \in Chan |-> MagicAfter(c, len)]
          /\ last' = [c \in Chan |-> LastAfter(c, len)]
      BY <1>1, <1>5, <2>3 DEF ChangeLength
    <3>2. ASSUME NEW c \in Chan
          PROVE  /\ MagicAfter(c, len) \in Nat /\ LastAfter(c, len) \in Nat
                 /\ LastAfter(c, len) - MagicAfter(c, len) - len \div 2
                      = last[c] - magic[c] - filt_len \div 2
                 /\ len + 2 * MagicAfter(c, len) - 1 + BufferSize <= size
      <4>1. magic[c] \in Nat /\ last[c] \in Nat /\ OldLength(c) = filt_len + 2 * magic[c]
        BY <1>1 DEF OldLength
      <4>2. CASE len > OldLength(c)
        BY <1>1, <1>2, <4>1, <4>2 DEF MagicAfter, LastAfter
      <4>3. CASE ~(len > OldLength(c))
        BY <1>1, <1>2, <2>1, <2>3, <4>1, <4>3 DEF MagicAfter, LastAfter
      <4> QED
        BY <4>2, <4>3
    <3> QED
      BY <1>2, <1>3, <1>5, <3>1, <3>2
  <2>4. CASE len < filt_len
    <3>1. /\ magic' = [c \in Chan |-> MagicAfter(c, len)] /\ last' = [c \in Chan |-> last[c]]
      BY <1>1, <1>5, <2>4 DEF ChangeLength
    <3>2. ASSUME NEW c \in Chan
          PROVE  /\ MagicAfter(c, len) \in Nat
                 /\ last[c] - MagicAfter(c, len) - len \div 2
                      = last[c] - magic[c] - filt_len \div 2
                 /\ len + 2 * MagicAfter(c, len) - 1 + BufferSize <= size
      <4>1. magic[c] \in Nat /\ last[c] \in Nat /\ OldLength(c) = filt_len + 2 * magic[c]
        BY <1>1 DEF OldLength
      <4>2. MagicAfter(c, len) = magic[c] + (filt_len - len) \div 2
        BY <1>1, <2>4, <4>1 DEF MagicAfter
      <4> QED
        BY <1>1, <1>2, <2>1, <2>4, <4>1, <4>2
    <3> QED
      BY <1>1, <1>2, <1>3, <1>5, <3>1, <3>2
  <2> QED
    BY <1>1, <2>2, <2>3, <2>4
<1> QED
  BY <1>4, <1>5

\* update_filter fails, or makes a filter of its length with memory for it.
LEMMA FilterEnds ==
  ASSUME alloc \in Nat,
         NEW q \in Qualities, NEW n \in Nat \ {0}, NEW d \in Nat \ {0}, Suited(n, d),
         UpdateFilter(q, n, d)
  PROVE  LET len  == NewLength(q, n, d)
             rows == TableLength(len, Sampling(q, n, d), d)
             size == Larger(alloc, len - 1 + BufferSize) IN
         \/ /\ silenced' = TRUE
            /\ UNCHANGED <<filt_len, memory, last, magic>>
            /\ \/ UNCHANGED <<table, kernel>>
               \/ table' = Larger(table, rows) /\ kernel' = <<len, d>>
         \/ /\ silenced' = FALSE /\ len \in Nat \ {0} /\ len % 2 = 0
            /\ table' = Larger(table, rows) /\ kernel' = <<len, d>>
            /\ size = alloc \/ size <= TableMax
            /\ ChangeLength(len, size)
<1> DEFINE len  == NewLength(q, n, d)
           over == Sampling(q, n, d)
           rows == TableLength(len, over, d)
           fits == LengthFits(q, n, d) /\ TableFits(len, over, d)
           word == Word(len - 1 + BufferSize)
           size == len - 1 + BufferSize
<1>1. over \in Nat \ {0}
  BY SamplingNat
<1>2. fits => len \in Nat \ {0} /\ len % 2 = 0
  BY LengthEven
<1>3. \/ silenced' = TRUE /\ UNCHANGED <<table, kernel, filt_len, memory, last, magic>>
      \/ /\ table' = Larger(table, rows) /\ kernel' = <<len, d>>
         /\ silenced' = TRUE /\ UNCHANGED <<filt_len, memory, last, magic>>
      \/ /\ fits /\ table' = Larger(table, rows) /\ kernel' = <<len, d>>
         /\ word > alloc => TableMax \div Channels >= word
         /\ silenced' = FALSE
         /\ ChangeLength(len, Larger(alloc, word))
  BY Zenon DEF UpdateFilter
<1> HIDE DEF len, over, rows
<1>4. fits => word = size /\ size \in Nat
  <2>1. ASSUME fits PROVE word = size
    BY <1>1, <1>2, <2>1, SizeExact
  <2>2. ASSUME fits PROVE size \in Nat
    BY <1>2, <2>2, Sizes
  <2> QED
    BY <2>1, <2>2
<1> HIDE DEF fits, word
<1>5. ASSUME fits, word > alloc => TableMax \div Channels >= word
      PROVE  Larger(alloc, size) = alloc \/ Larger(alloc, size) <= TableMax
  <2>1. PICK t \in Nat, k \in Nat \ {0} : t = TableMax /\ k = Channels
    BY SizeAssumption
  <2>2. t \div k <= t
    <3>1. PICK u \in Nat, r \in Nat : u = t \div k /\ t = k * u + r
      BY Division
    <3>2. PICK j \in Nat : k = j + 1
      OBVIOUS
    <3>3. k * u = j * u + u /\ j * u \in Nat
      BY <3>2
    <3> QED
      BY <3>1, <3>3
  <2>3. t \div k \in Nat
    BY Division
  <2> QED
    BY <1>4, <1>5, <2>1, <2>2, <2>3 DEF Larger
<1> QED
  BY <1>2, <1>3, <1>4, <1>5 DEF len, over, rows

LEMMA FilterUpdated ==
  ASSUME IInv, up \in {"live", "new"},
         NEW q \in Qualities, NEW n \in Nat \ {0}, NEW d \in Nat \ {0}, Suited(n, d),
         UpdateFilter(q, n, d)
  PROVE  /\ filt_len' \in Nat /\ filt_len' % 2 = 0 /\ alloc' \in Nat /\ alloc' <= TableMax
         /\ last' \in [Chan -> Nat] /\ magic' \in [Chan -> Nat]
         /\ ~silenced' => kernel' = <<filt_len', d>>
         /\ ~started => \A c \in Chan : magic'[c] = 0
         /\ started => \A c \in Chan :
              last'[c] - magic'[c] - filt_len' \div 2 = last[c] - magic[c] - filt_len \div 2
         /\ up = "live" \/ ~silenced' =>
              \A c \in Chan : filt_len' + 2 * magic'[c] - 1 + BufferSize <= alloc'
         /\ \A c \in Chan : /\ last'[c] <= magic'[c] + filt_len' \div 2 + Slack
                            /\ ~started => last'[c] <= TableMax \div 2
<1> DEFINE len == NewLength(q, n, d)
           size == Larger(alloc, len - 1 + BufferSize)
<1> SUFFICES
      /\ filt_len' \in Nat /\ filt_len' % 2 = 0 /\ alloc' \in Nat /\ alloc' <= TableMax
      /\ last' \in [Chan -> Nat] /\ magic' \in [Chan -> Nat]
      /\ ~silenced' => kernel' = <<filt_len', d>>
      /\ ~started => last' = last /\ magic' = magic
      /\ started => \A c \in Chan :
           last'[c] - magic'[c] - filt_len' \div 2 = last[c] - magic[c] - filt_len \div 2
      /\ up = "live" \/ ~silenced' =>
           \A c \in Chan : filt_len' + 2 * magic'[c] - 1 + BufferSize <= alloc'
  <2>1. /\ filt_len \in Nat /\ last \in [Chan -> Nat] /\ magic \in [Chan -> Nat]
        /\ Slack \in Nat /\ TableMax \div 2 \in Nat /\ TableMax \div 2 <= Slack
    BY Sizes DEF IInv, Types
  <2>2. ~started => \A c \in Chan : magic[c] = 0 /\ last[c] <= TableMax \div 2
    BY <2>1 DEF IInv, Unused, Live, Near
  <2>3. started => \A c \in Chan : last[c] <= magic[c] + filt_len \div 2 + Slack
    BY DEF IInv, Unused, Live, Near
  <2>4. ASSUME NEW c \in Chan
        PROVE  /\ last'[c] <= magic'[c] + filt_len' \div 2 + Slack
               /\ ~started => last'[c] <= TableMax \div 2 /\ magic'[c] = 0
    <3>1. PICK l \in Nat, m \in Nat, f \in Nat, l1 \in Nat, m1 \in Nat, f1 \in Nat :
            /\ l = last[c] /\ m = magic[c] /\ f = filt_len \div 2
            /\ l1 = last'[c] /\ m1 = magic'[c] /\ f1 = filt_len' \div 2
      <4>1. last'[c] \in Nat /\ magic'[c] \in Nat /\ filt_len' \in Nat
        OBVIOUS
      <4>2. last[c] \in Nat /\ magic[c] \in Nat /\ filt_len \in Nat
        BY <2>1
      <4>3. \A x \in Nat : x \div 2 \in Nat
        OBVIOUS
      <4>4. filt_len \div 2 \in Nat /\ filt_len' \div 2 \in Nat
        BY <4>1, <4>2, <4>3
      <4> QED
        BY <4>1, <4>2, <4>4
    <3>2. CASE started
      BY <2>1, <2>3, <3>1, <3>2
    <3>3. CASE ~started
      BY <2>1, <2>2, <3>1, <3>3
    <3> QED
      BY <3>2, <3>3
  <2> QED
    BY <2>4
<1>1. alloc \in Nat /\ alloc <= TableMax
  BY DEF IInv, Types
<1>2. CASE /\ silenced'
           /\ UNCHANGED <<filt_len, memory, last, magic>>
  <2>1. filt_len' = filt_len /\ alloc' = alloc /\ last' = last /\ magic' = magic
    BY <1>2 DEF memory
  <2>2. up = "live" => \A c \in Chan : OldLength(c) - 1 + BufferSize <= alloc
    BY DEF IInv, Live
  <2> QED
    BY <1>2, <2>1, <2>2 DEF IInv, Types, OldLength
<1>3. CASE /\ ~silenced' /\ kernel' = <<len, d>> /\ len \in Nat \ {0} /\ len % 2 = 0
           /\ size = alloc \/ size <= TableMax
           /\ ChangeLength(len, size)
  <2>1. started => up = "live"
    BY DEF IInv, Unused
  <2>2. len \in Nat /\ len % 2 = 0 /\ ChangeLength(len, Larger(alloc, len - 1 + BufferSize))
    BY <1>3
  <2> HIDE DEF len
  <2>3. /\ filt_len' = len /\ alloc' \in Nat
        /\ last' \in [Chan -> Nat] /\ magic' \in [Chan -> Nat]
        /\ ~started => magic' = magic /\ last' = last
        /\ started => \A c \in Chan :
             last'[c] - magic'[c] - len \div 2 = last[c] - magic[c] - filt_len \div 2
        /\ \A c \in Chan : len + 2 * magic'[c] - 1 + BufferSize <= alloc'
    BY <2>1, <2>2, LengthChanges
  <2>4. alloc' = size
    BY <1>3 DEF ChangeLength
  <2> QED
    BY <1>1, <1>3, <2>2, <2>3, <2>4
<1>4. \/ silenced' = TRUE /\ UNCHANGED <<filt_len, memory, last, magic>>
      \/ /\ silenced' = FALSE /\ kernel' = <<len, d>> /\ len \in Nat \ {0} /\ len % 2 = 0
         /\ size = alloc \/ size <= TableMax
         /\ ChangeLength(len, size)
  BY <1>1, FilterEnds
<1> QED
  BY <1>2, <1>3, <1>4

-----------------------------------------------------------------------------
\* One turn of the loop, with the fraction in a word.
LEMMA Turn ==
  ASSUME NEW a \in Nat, NEW n \in Nat, NEW d \in Nat \ {0}, d <= IntMax
  PROVE  LET sum == Word((a % d) + (n % d)) IN
         IF sum >= d THEN a \div d + n \div d + 1 = (a + n) \div d /\ sum - d = (a + n) % d
         ELSE a \div d + n \div d = (a + n) \div d /\ sum = (a + n) % d
<1>1. PICK q \in Nat, f \in Nat : q = a \div d /\ f = a % d /\ f < d /\ a = q * d + f
  BY Division
<1>2. PICK i \in Nat, g \in Nat : i = n \div d /\ g = n % d /\ g < d /\ n = i * d + g
  BY Division
<1>3. Word(f + g) = f + g
  BY <1>1, <1>2, Sizes, WithinWord
<1>4. PICK s \in Nat : s = a + n
  OBVIOUS
<1>5. CASE f + g >= d
  <2>1. PICK x \in Nat, y \in Nat : x = q * d /\ y = i * d
    OBVIOUS
  <2>2. (q + i + 1) * d = x + y + d
    BY <2>1
  <2>3. s = x + y + d + (f + g - d) /\ f + g - d \in Nat /\ f + g - d < d
    BY <1>1, <1>2, <1>4, <1>5, <2>1
  <2>4. PICK t \in Nat, r \in Nat : t = q + i + 1 /\ r = f + g - d /\ s = t * d + r /\ r < d
    BY <2>2, <2>3
  <2>5. s \div d = t /\ s % d = r
    BY ONLY <2>4, s \in Nat, d \in Nat \ {0}, t \in Nat, r \in Nat, Quotient
  <2>6. (a + n) \div d = q + i + 1 /\ (a + n) % d = f + g - d
    BY <1>4, <2>4, <2>5
  <2> QED
    BY <1>1, <1>2, <1>3, <1>5, <2>6
<1>6. CASE ~(f + g >= d)
  <2>1. PICK x \in Nat, y \in Nat : x = q * d /\ y = i * d
    OBVIOUS
  <2>2. (q + i) * d = x + y
    BY <2>1
  <2>3. s = x + y + (f + g) /\ f + g \in Nat /\ f + g < d
    <3>1. a = x + f /\ n = y + g
      BY <1>1, <1>2, <2>1
    <3>2. f + g < d
      BY <1>6
    <3> QED
      BY <1>4, <2>1, <3>1, <3>2
  <2>4. PICK t \in Nat, r \in Nat : t = q + i /\ r = f + g /\ s = t * d + r /\ r < d
    BY <2>2, <2>3
  <2>5. s \div d = t /\ s % d = r
    BY ONLY <2>4, s \in Nat, d \in Nat \ {0}, t \in Nat, r \in Nat, Quotient
  <2>6. (a + n) \div d = q + i /\ (a + n) % d = f + g
    BY <1>4, <2>4, <2>5
  <2> QED
    BY <1>1, <1>2, <1>3, <1>6, <2>6
<1> QED
  BY <1>5, <1>6

\* Where the next output is, in units of 1/den.
Phase(c) == last[c] * den + frac[c]

\* Turn by turn, the loop divides.
LEMMA LoopPlaces ==
  ASSUME IInv, up = "live", NEW c \in Chan, NEW n \in Nat
  PROVE  Loop(c, n) = <<(Phase(c) + n * num) \div den, (Phase(c) + n * num) % den>>
<1>1. /\ num \in Nat /\ den \in Nat \ {0} /\ den <= IntMax
      /\ last[c] \in Nat /\ frac[c] \in Nat /\ frac[c] < den
  BY DEF IInv, Types, Live, Suited
<1>2. PICK p \in Nat : p = Phase(c)
  <2>1. last[c] * den \in Nat
    BY <1>1
  <2> QED
    BY <1>1, <2>1 DEF Phase
<1> DEFINE spot(j) == <<(p + j * num) \div den, (p + j * num) % den>>
           body(f, j) ==
             IF j = 0 THEN <<last[c], frac[c]>>
             ELSE LET was == f[j - 1]
                      sum == Word(was[2] + (num % den))
                  IN IF sum >= den THEN <<was[1] + num \div den + 1, sum - den>>
                     ELSE <<was[1] + num \div den, sum>>
           turned(x) == LET sum == Word(x[2] + (num % den))
                      IN IF sum >= den THEN <<x[1] + num \div den + 1, sum - den>>
                         ELSE <<x[1] + num \div den, sum>>
           w == [j \in 0 .. n |-> spot(j)]
<1>3. spot(0) = <<last[c], frac[c]>>
  <2>1. p \div den = last[c] /\ p % den = frac[c]
    BY <1>1, <1>2, Quotient DEF Phase
  <2>2. p + 0 * num = p
    BY <1>1
  <2> QED
    BY <2>1, <2>2
<1>4. ASSUME NEW j \in Nat PROVE spot(j + 1) = turned(spot(j))
  <2>1. PICK a \in Nat : a = p + j * num /\ a + num = p + (j + 1) * num
    <3>1. PICK x \in Nat : x = j * num /\ x + num = (j + 1) * num
      BY <1>1
    <3> QED
      BY <1>1, <3>1
  <2>2. spot(j) = <<a \div den, a % den>> /\ spot(j + 1) = <<(a + num) \div den, (a + num) % den>>
    BY <2>1
  <2> HIDE DEF spot
  <2>3. LET sum == Word((a % den) + (num % den)) IN
        IF sum >= den
        THEN a \div den + num \div den + 1 = (a + num) \div den /\ sum - den = (a + num) % den
        ELSE a \div den + num \div den = (a + num) \div den /\ sum = (a + num) % den
    BY <1>1, Turn
  <2>4. turned(<<a \div den, a % den>>) =
          LET sum == Word((a % den) + (num % den))
          IN IF sum >= den THEN <<a \div den + num \div den + 1, sum - den>>
             ELSE <<a \div den + num \div den, sum>>
    OBVIOUS
  <2>5. turned(<<a \div den, a % den>>) = <<(a + num) \div den, (a + num) % den>>
    BY <2>3, <2>4
  <2> QED
    BY <2>2, <2>5
<1> HIDE DEF spot
<1>5. ASSUME NEW j \in 0 .. n PROVE w[j] = body(w, j)
  <2>1. CASE j = 0
    BY <1>3, <2>1
  <2>2. CASE j # 0
    <3>1. j - 1 \in Nat /\ j - 1 \in 0 .. n /\ (j - 1) + 1 = j
      BY <2>2
    <3>2. w[j] = spot(j) /\ w[j - 1] = spot(j - 1)
      BY <3>1
    <3>3. spot(j) = turned(spot(j - 1))
      BY <1>4, <3>1
    <3>4. body(w, j) = turned(w[j - 1])
      BY <2>2
    <3> HIDE DEF w, body, turned
    <3> QED
      BY <3>2, <3>3, <3>4
  <2> QED
    BY <2>1, <2>2
<1> HIDE DEF body
<1>6. w = [j \in 0 .. n |-> body(w, j)]
  BY <1>5
<1> HIDE DEF w
<1>7. PICK at : at = [j \in 0 .. n |-> body(at, j)] /\ Loop(c, n) = at[n]
  BY <1>6 DEF Loop, body
<1> DEFINE S == {j \in Nat : j <= n => at[j] = spot(j)}
<1>8. 0 \in S
  <2>1. 0 \in 0 .. n
    OBVIOUS
  <2>2. at[0] = body(at, 0)
    BY <1>7, <2>1
  <2> QED
    BY <1>3, <2>2 DEF body
<1>9. ASSUME NEW j \in Nat, j \in S PROVE j + 1 \in S
  <2> SUFFICES ASSUME j + 1 <= n PROVE at[j + 1] = spot(j + 1)
    OBVIOUS
  <2>1. at[j] = spot(j) /\ j + 1 \in 0 .. n /\ j + 1 # 0 /\ (j + 1) - 1 = j
    BY <1>9
  <2>2. at[j + 1] = body(at, j + 1)
    BY <1>7, <2>1
  <2>3. body(at, j + 1) = turned(at[j])
    BY <2>1 DEF body
  <2> HIDE DEF turned
  <2> QED
    BY <1>4, <2>1, <2>2, <2>3
<1> HIDE DEF S
<1>10. n \in S
  BY <1>8, <1>9, Induction
<1>11. at[n] = spot(n)
  BY <1>10 DEF S
<1> QED
  BY <1>2, <1>7, <1>11 DEF spot

\* n outputs take the place of the next one n * num further on, and no further from
\* the input than one turn goes.
LEMMA NativeMoves ==
  ASSUME IInv, up = "live", NEW in \in Nat, NEW n \in 0 .. olen,
         Native(in, n)
  PROVE  LET used == Used(ch, in, n) IN
         /\ used \in Nat /\ used <= in
         /\ last' \in [Chan -> Nat] /\ frac' \in [Chan -> Nat] /\ olen' \in Nat
         /\ olen - olen' = n /\ started'
         /\ \A c \in Chan : frac'[c] < den
         /\ \A c \in Chan \ {ch} : last'[c] = last[c] /\ frac'[c] = frac[c]
         /\ (last'[ch] + used) * den + frac'[ch] = last[ch] * den + frac[ch] + n * num
         /\ last'[ch] <= num \div den \/ last'[ch] + used = last[ch]
<1> DEFINE used == Used(ch, in, n)
           p    == Phase(ch) + n * num
<1>1. /\ den \in Nat \ {0} /\ num \in Nat /\ olen \in Nat /\ ch \in Chan
      /\ last \in [Chan -> Nat] /\ frac \in [Chan -> Nat]
      /\ \A c \in Chan : frac[c] < den
  BY DEF IInv, Types, Live
<1>2. p \in Nat /\ p = last[ch] * den + frac[ch] + n * num
  <2>1. last[ch] \in Nat /\ frac[ch] \in Nat /\ n \in Nat
    BY <1>1
  <2>2. last[ch] * den \in Nat /\ n * num \in Nat
    BY <1>1, <2>1
  <2> QED
    BY <1>1, <2>1, <2>2 DEF Phase
<1>3. p \div den \in Nat /\ p % den \in Nat /\ p % den < den
      /\ p = (p \div den) * den + (p % den)
  BY <1>1, <1>2, Division
<1>4. Loop(ch, n) = <<p \div den, p % den>>
  BY <1>1, LoopPlaces
<1>5. /\ used = Smaller(p \div den, in)
      /\ frac' = [frac EXCEPT ![ch] = p % den]
      /\ last' = [last EXCEPT ![ch] = p \div den - used]
      /\ olen' = olen - n /\ started'
  BY <1>4 DEF Used, Native
<1>6. p \div den = last[ch] \/ p \div den <= in + num \div den
  <2>1. CASE n = 0
    <3>1. p = last[ch] * den + frac[ch] /\ frac[ch] < den /\ last[ch] \in Nat /\ frac[ch] \in Nat
      <4>1. n * num = 0 /\ last[ch] \in Nat /\ frac[ch] \in Nat
        BY <1>1, <2>1
      <4>2. last[ch] * den \in Nat
        BY <1>1, <4>1
      <4> QED
        BY <1>1, <1>2, <4>1, <4>2
    <3> QED
      BY <1>1, <1>2, <3>1, Quotient
  <2>2. CASE n # 0
    <3>1. n - 1 \in Nat /\ n - 1 \in 0 .. n - 1
      BY <2>2
    <3>2. PICK a \in Nat : a = Phase(ch) + (n - 1) * num /\ p = a + num
      <4>1. PICK x \in Nat : x = (n - 1) * num /\ n * num = x + num
        BY <1>1, <3>1
      <4>2. last[ch] * den \in Nat /\ frac[ch] \in Nat
        BY <1>1
      <4> QED
        BY <1>1, <4>1, <4>2 DEF Phase
    <3>3. Loop(ch, n - 1) = <<a \div den, a % den>>
      BY <1>1, <3>1, <3>2, LoopPlaces
    <3>4. a \div den < in
      BY <3>1, <3>3 DEF Native, Outputs
    <3> HIDE DEF p
    <3>5. LET sum == Word((a % den) + (num % den)) IN
          IF sum >= den
          THEN a \div den + num \div den + 1 = (a + num) \div den /\ sum - den = (a + num) % den
          ELSE a \div den + num \div den = (a + num) \div den /\ sum = (a + num) % den
      <4>1. den <= IntMax
        BY DEF IInv, Live, Suited
      <4> QED
        BY <1>1, <4>1, Turn
    <3>6. p \div den <= a \div den + num \div den + 1
      <4>1. a \div den \in Nat /\ num \div den \in Nat
        BY <1>1, Division
      <4>2. \/ p \div den = a \div den + num \div den + 1
            \/ p \div den = a \div den + num \div den
        BY <3>2, <3>5
      <4> QED
        BY <4>1, <4>2
    <3> QED
      BY <1>1, <1>3, <3>4, <3>6, Division
  <2> QED
    BY <2>1, <2>2
<1> HIDE DEF used, p
<1>7. used \in Nat /\ used <= in /\ used <= p \div den
  BY <1>3, <1>5 DEF Smaller
<1>8. PICK u \in Nat : u = p \div den /\ p = u * den + (p % den)
  BY <1>3
<1>9. (u - used) + used = u
  BY <1>7
<1>10. last'[ch] = u - used /\ frac'[ch] = p % den
  BY <1>1, <1>5, <1>8
<1>11. (last'[ch] + used) * den + frac'[ch] = p
  BY <1>8, <1>9, <1>10
<1>12. /\ last' \in [Chan -> Nat] /\ frac' \in [Chan -> Nat] /\ olen' \in Nat
       /\ olen - olen' = n
  BY <1>1, <1>3, <1>5, <1>7
<1>13. \A c \in Chan : frac'[c] < den
  BY <1>1, <1>3, <1>5
<1>14. \A c \in Chan \ {ch} : last'[c] = last[c] /\ frac'[c] = frac[c]
  BY <1>1, <1>5
<1>15. last'[ch] <= num \div den \/ last'[ch] + used = last[ch]
  <2>1. u = last[ch] \/ u <= in + num \div den
    BY <1>6, <1>8
  <2>2. num \div den \in Nat /\ last[ch] \in Nat
    BY <1>1, Division
  <2>3. used = u \/ used = in
    BY <1>5, <1>8 DEF Smaller
  <2> QED
    BY <1>7, <1>8, <1>10, <2>1, <2>2, <2>3
<1>16. /\ used \in Nat /\ used <= in
       /\ last' \in [Chan -> Nat] /\ frac' \in [Chan -> Nat] /\ olen' \in Nat
       /\ olen - olen' = n /\ started'
       /\ \A c \in Chan : frac'[c] < den
       /\ \A c \in Chan \ {ch} : last'[c] = last[c] /\ frac'[c] = frac[c]
       /\ (last'[ch] + used) * den + frac'[ch] = last[ch] * den + frac[ch] + n * num
       /\ last'[ch] <= num \div den \/ last'[ch] + used = last[ch]
  BY <1>2, <1>5, <1>7, <1>11, <1>12, <1>13, <1>14, <1>15
<1> QED
  BY <1>16 DEF used

\* The same for its place, when the samples it used are taken from the magic ones
\* or are new.
LEMMA PlaceMoves ==
  ASSUME NEW w \in Int, NEW l \in Int, NEW used \in Int, NEW f \in Int,
         NEW l1 \in Int, NEW f1 \in Int, NEW d \in Int, NEW n \in Int, NEW m \in Int,
         (l1 + used) * d + f1 = l * d + f + n * m
  PROVE  (w + used + l1) * d + f1 = (w + l) * d + f + n * m
<1>1. w * d \in Int /\ l * d \in Int /\ n * m \in Int
  OBVIOUS
<1>2. (w + used + l1) * d = w * d + (l1 + used) * d
  OBVIOUS
<1>3. (w + l) * d = w * d + l * d
  OBVIOUS
<1>4. (l1 + used) * d \in Int
  OBVIOUS
<1> QED
  BY <1>1, <1>2, <1>3, <1>4

\* A new rate that only rounds the fraction.
LEMMA PlaceRounds ==
  ASSUME NEW w \in Int, NEW f \in Nat, NEW r \in Nat, NEW d \in Nat \ {0},
         NEW e \in Nat \ {0}, f * e - r * d \in 0 .. d - 1
  PROVE  /\ (w * d + f) * e - (w * e + r) * d \in 0 .. d - 1
         /\ e = d => f = r
<1>1. (w * d + f) * e = (w * d) * e + f * e /\ (w * e + r) * d = (w * e) * d + r * d
  OBVIOUS
<1>2. (w * d) * e = (w * e) * d
  OBVIOUS
<1>3. (w * d) * e \in Int /\ f * e \in Nat /\ r * d \in Nat
  OBVIOUS
<1>4. (w * d + f) * e - (w * e + r) * d = f * e - r * d
  BY <1>1, <1>2, <1>3
<1>5. ASSUME e = d PROVE f = r
  <2>1. (f - r) * d \in 0 .. d - 1
    BY <1>5
  <2>2. f - r < 1
    <3>1. SUFFICES ASSUME f - r >= 1 PROVE FALSE
      OBVIOUS
    <3>2. (f - r) * d >= 1 * d
      BY <3>1
    <3> QED
      BY <2>1, <3>2
  <2>3. f - r > -1
    <3>1. SUFFICES ASSUME f - r <= -1 PROVE FALSE
      OBVIOUS
    <3>2. (f - r) * d <= (-1) * d
      BY <3>1
    <3> QED
      BY <2>1, <3>2
  <2> QED
    BY <2>2, <2>3
<1> QED
  BY <1>4, <1>5

-----------------------------------------------------------------------------
LEMMA Initially == Init => IInv
<1> SUFFICES ASSUME Init PROVE IInv
  OBVIOUS
<1>1. 0 \in Chan
  BY SizeAssumption DEF Chan
<1>2. [c \in Chan |-> 0] \in [Chan -> Nat]
  OBVIOUS
<1> QED
  BY <1>1, <1>2, Sizes DEF Init, IInv, Types, Unused, Live

LEMMA CreateKeeps == IInv /\ Create => IInv' /\ SteadyStep
<1> SUFFICES ASSUME IInv, Create PROVE IInv' /\ SteadyStep
  OBVIOUS
<1>1. /\ up = "new" /\ ~started /\ pc = "idle" /\ asked \in Ratios /\ quality \in Qualities
      /\ \A c \in Chan : frac[c] = 0
  BY DEF Create, IInv, Unused, Types
<1>2. num' \in Nat \ {0} /\ den' \in Nat \ {0} /\ Suited(num', den')
  BY <1>1, SuitedRatio DEF Create
<1>3. UpdateFilter(quality, num', den')
  BY DEF Create
<1>4. PICK n \in Nat \ {0}, d \in Nat \ {0} : n = num' /\ d = den' /\ Suited(n, d)
  BY <1>2
<1>5. UpdateFilter(quality, n, d)
  BY <1>3, <1>4
<1>6. /\ filt_len' \in Nat /\ filt_len' % 2 = 0 /\ alloc' \in Nat /\ alloc' <= TableMax
      /\ last' \in [Chan -> Nat] /\ magic' \in [Chan -> Nat]
      /\ ~silenced' => kernel' = <<filt_len', d>>
      /\ \A c \in Chan : magic'[c] = 0
      /\ ~silenced' => \A c \in Chan : filt_len' + 2 * magic'[c] - 1 + BufferSize <= alloc'
      /\ \A c \in Chan : /\ last'[c] <= magic'[c] + filt_len' \div 2 + Slack
                         /\ last'[c] <= TableMax \div 2
  <2>1. up \in {"live", "new"} /\ quality \in Qualities
    BY <1>1
  <2>2. Suited(n, d)
    BY <1>4
  <2>3. /\ filt_len' \in Nat /\ filt_len' % 2 = 0 /\ alloc' \in Nat /\ alloc' <= TableMax
        /\ last' \in [Chan -> Nat] /\ magic' \in [Chan -> Nat]
        /\ ~silenced' => kernel' = <<filt_len', d>>
        /\ ~started => \A c \in Chan : magic'[c] = 0
        /\ up = "live" \/ ~silenced' =>
             \A c \in Chan : filt_len' + 2 * magic'[c] - 1 + BufferSize <= alloc'
        /\ \A c \in Chan : /\ last'[c] <= magic'[c] + filt_len' \div 2 + Slack
                           /\ ~started => last'[c] <= TableMax \div 2
    BY <1>5, <2>1, <2>2, FilterUpdated
  <2>4. \A c \in Chan : magic'[c] = 0 /\ last'[c] <= TableMax \div 2
    BY <1>1, <2>3
  <2>5. ~silenced' => \A c \in Chan : filt_len' + 2 * magic'[c] - 1 + BufferSize <= alloc'
    BY <2>3
  <2>6. \A c \in Chan : last'[c] <= magic'[c] + filt_len' \div 2 + Slack
    BY <2>3
  <2> QED
    BY <2>3, <2>4, <2>5, <2>6
<1>7. /\ up' = IF silenced' THEN "failed" ELSE "live"
      /\ UNCHANGED <<quality, asked, started, frac, pc, ch, ilen, olen, fed, since>>
  BY DEF Create, call, history
<1>8. Types'
  BY <1>2, <1>6, <1>7 DEF IInv, Types
<1>9. Unused' /\ Live'
  BY <1>1, <1>2, <1>4, <1>6, <1>7 DEF Unused, Live, OldLength, Near
<1> QED
  BY <1>1, <1>8, <1>9 DEF IInv, SteadyStep

\* What every change of a live resampler has in common.
LEMMA ChangePlace ==
  ASSUME IInv, up = "live", NEW c \in Chan,
         filt_len' % 2 = 0, filt_len' \in Nat, last' \in [Chan -> Nat], magic' \in [Chan -> Nat],
         fed' = fed, since' = since,
         last'[c] - magic'[c] - filt_len' \div 2 = last[c] - magic[c] - filt_len \div 2
  PROVE  Whole(c) \in Int /\ Whole(c)' = Whole(c)
<1>1. /\ filt_len \in Nat /\ last[c] \in Nat /\ magic[c] \in Nat
      /\ fed[c] \in Nat /\ since[c] \in Nat
  BY DEF IInv, Types
<1>2. last'[c] \in Nat /\ magic'[c] \in Nat /\ filt_len' \div 2 \in Nat /\ filt_len \div 2 \in Nat
  BY <1>1
<1> QED
  BY <1>1, <1>2 DEF Whole

LEMMA SkipZerosKeeps == IInv /\ SkipZeros => IInv' /\ SteadyStep
<1> SUFFICES ASSUME IInv, SkipZeros PROVE IInv' /\ SteadyStep
  OBVIOUS
<1>1. /\ ~started /\ last' = [c \in Chan |-> filt_len \div 2]
      /\ UNCHANGED <<up, num, den, quality, asked, filt_len, kernel, silenced, started, alloc,
                     frac, magic, pc, ch, ilen, olen, fed, since>>
  BY DEF SkipZeros, setup, memory, call, history
<1>2. last' \in [Chan -> Nat] /\ up = "live"
  BY <1>1 DEF IInv, Types, SkipZeros, Changes
<1>3. ASSUME NEW c \in Chan
      PROVE  last'[c] <= magic[c] + filt_len \div 2 + Slack /\ last'[c] <= TableMax \div 2
  <2>1. /\ filt_len \in Nat /\ magic[c] \in Nat /\ alloc \in Nat /\ alloc <= TableMax
        /\ filt_len + 2 * magic[c] - 1 + BufferSize <= alloc
    BY <1>2 DEF IInv, Types, Live, OldLength
  <2>2. PICK t \in Nat : t = TableMax /\ filt_len <= t
    BY <2>1, Sizes
  <2>3. filt_len \div 2 <= t \div 2
    BY <2>1, <2>2
  <2> QED
    BY <1>1, <2>1, <2>2, <2>3, Sizes
<1> QED
  BY <1>1, <1>2, <1>3 DEF IInv, Types, Unused, Live, OldLength, Near, SteadyStep

LEMMA SetQualityKeeps == IInv /\ SetQuality => IInv' /\ SteadyStep
<1> SUFFICES ASSUME IInv, SetQuality PROVE IInv' /\ SteadyStep
  OBVIOUS
<1>1. /\ up = "live" /\ pc = "idle" /\ num \in Nat \ {0} /\ den \in Nat \ {0}
      /\ quality' \in Qualities /\ Suited(num, den)
      /\ UNCHANGED <<up, asked, num, den, started, frac, pc, ch, ilen, olen, fed, since>>
  BY DEF SetQuality, Changes, IInv, Types, Live, call
<1>2. PICK q \in Qualities : q = quality' /\ UpdateFilter(q, num, den)
  BY <1>1 DEF SetQuality
<1>3. /\ filt_len' \in Nat /\ filt_len' % 2 = 0 /\ alloc' \in Nat /\ alloc' <= TableMax
      /\ last' \in [Chan -> Nat] /\ magic' \in [Chan -> Nat]
      /\ ~silenced' => kernel' = <<filt_len', den>>
      /\ ~started => \A c \in Chan : magic'[c] = 0
      /\ started => \A c \in Chan :
           last'[c] - magic'[c] - filt_len' \div 2 = last[c] - magic[c] - filt_len \div 2
      /\ \A c \in Chan : filt_len' + 2 * magic'[c] - 1 + BufferSize <= alloc'
      /\ \A c \in Chan : /\ last'[c] <= magic'[c] + filt_len' \div 2 + Slack
                         /\ ~started => last'[c] <= TableMax \div 2
  BY <1>1, <1>2, FilterUpdated
<1>4. Types'
  BY <1>1, <1>3 DEF IInv, Types
<1>5. Unused' /\ Live'
  <2>1. ASSUME NEW c \in Chan PROVE Near(c)'
    <3>1. last'[c] <= magic'[c] + filt_len' \div 2 + Slack
      BY <1>3
    <3>2. ~started' => last'[c] <= TableMax \div 2
      BY <1>1, <1>3
    <3> QED
      BY <3>1, <3>2, SlackStays DEF Near
  <2>2. /\ num' # 0 /\ den' # 0 /\ Suited(num', den')
        /\ ~silenced' => kernel' = <<filt_len', den'>>
        /\ \A c \in Chan : frac'[c] < den' /\ OldLength(c)' - 1 + BufferSize <= alloc'
    BY <1>1, <1>3 DEF IInv, Live, OldLength
  <2>3. Live'
    BY <2>1, <2>2 DEF Live
  <2> QED
    BY <1>1, <1>3, <2>3 DEF IInv, Unused
<1>6. ASSUME started, NEW c \in Chan
      PROVE  den' = den /\ Place(c)' = Place(c) + Put(c) * num
  <2>1. Whole(c) \in Int /\ Whole(c)' = Whole(c)
    BY <1>1, <1>3, <1>6, ChangePlace
  <2>2. Put(c) = 0 /\ frac[c] \in Nat
    BY <1>1 DEF Put, IInv, Types
  <2>3. Place(c)' = Place(c) /\ Place(c) \in Int
    BY <1>1, <2>1, <2>2 DEF Place
  <2> QED
    BY <1>1, <2>2, <2>3
<1> QED
  BY <1>4, <1>5, <1>6 DEF IInv, SteadyStep

LEMMA SetRateKeeps == IInv /\ SetRate => IInv' /\ SteadyStep
<1> SUFFICES ASSUME IInv, SetRate PROVE IInv' /\ SteadyStep
  OBVIOUS
<1>1. /\ up = "live" /\ pc = "idle" /\ num \in Nat \ {0} /\ den \in Nat \ {0}
      /\ UNCHANGED <<quality, started, pc, ch, ilen, olen, fed, since>>
      /\ quality \in Qualities
  BY DEF SetRate, Changes, IInv, Types, Live, call
<1>2. PICK r \in Ratios :
        LET n == Reduced(r)[1]
            d == Reduced(r)[2]
            over == {c \in Chan : ~NoOverflow(frac[c], d, den)}
        IN /\ asked' = r /\ num' = n /\ den' = d
           /\ \/ /\ over = {}
                 /\ frac' = [c \in Chan |-> Rescaled(frac[c], d)]
                 /\ UpdateFilter(quality, n, d)
                 /\ UNCHANGED up
              \/ /\ over # {}
                 /\ frac' = [c \in Chan |-> IF \A o \in over : c < o
                                            THEN Rescaled(frac[c], d) ELSE frac[c]]
                 /\ up' = "failed"
                 /\ UNCHANGED <<filt_len, table, kernel, silenced, memory, last, magic>>
  BY DEF SetRate
<1>3. PICK n \in Nat \ {0}, d \in Nat \ {0} :
        n = Reduced(r)[1] /\ d = Reduced(r)[2] /\ Suited(n, d)
  BY SuitedRatio
<1>4. asked' \in Ratios /\ num' = n /\ den' = d
  BY <1>2, <1>3
<1>5. \A c \in Chan : frac[c] \in Nat /\ frac[c] < den
  BY <1>1 DEF IInv, Types, Live
<1>6. ASSUME NEW c \in Chan, NoOverflow(frac[c], d, den)
      PROVE  /\ Rescaled(frac[c], d) \in Nat /\ Rescaled(frac[c], d) < d
             /\ frac[c] * d - Rescaled(frac[c], d) * den \in 0 .. den - 1
  BY <1>1, <1>5, <1>6, FractionRounds
<1>7. CASE /\ \A c \in Chan : NoOverflow(frac[c], d, den)
           /\ frac' = [c \in Chan |-> Rescaled(frac[c], d)]
           /\ UpdateFilter(quality, n, d) /\ up' = up
  <2>1. /\ filt_len' \in Nat /\ filt_len' % 2 = 0 /\ alloc' \in Nat /\ alloc' <= TableMax
        /\ last' \in [Chan -> Nat] /\ magic' \in [Chan -> Nat]
        /\ ~silenced' => kernel' = <<filt_len', d>>
        /\ ~started => \A c \in Chan : magic'[c] = 0
        /\ started => \A c \in Chan :
             last'[c] - magic'[c] - filt_len' \div 2 = last[c] - magic[c] - filt_len \div 2
        /\ \A c \in Chan : filt_len' + 2 * magic'[c] - 1 + BufferSize <= alloc'
        /\ \A c \in Chan : /\ last'[c] <= magic'[c] + filt_len' \div 2 + Slack
                           /\ ~started => last'[c] <= TableMax \div 2
    BY <1>1, <1>3, <1>7, FilterUpdated
  <2>2. frac' \in [Chan -> Nat] /\ \A c \in Chan : frac'[c] < d
    BY <1>6, <1>7
  <2>3. Types'
    BY <1>1, <1>4, <2>1, <2>2 DEF IInv, Types
  <2>4. Unused' /\ Live'
    <3>1. ASSUME NEW c \in Chan PROVE Near(c)'
      <4>1. last'[c] <= magic'[c] + filt_len' \div 2 + Slack
        BY <2>1
      <4>2. ~started' => last'[c] <= TableMax \div 2
        BY <1>1, <2>1
      <4> QED
        BY <4>1, <4>2, SlackStays DEF Near
    <3>2. /\ num' # 0 /\ den' # 0 /\ Suited(num', den')
          /\ ~silenced' => kernel' = <<filt_len', den'>>
          /\ \A c \in Chan : frac'[c] < den' /\ OldLength(c)' - 1 + BufferSize <= alloc'
      BY <1>1, <1>3, <1>4, <2>1, <2>2 DEF OldLength
    <3>3. Live'
      BY <3>1, <3>2 DEF Live
    <3> QED
      BY <1>1, <1>7, <2>1, <3>3 DEF IInv, Unused
  <2>5. ASSUME started, NEW c \in Chan
        PROVE  IF den' = den THEN Place(c)' = Place(c) + Put(c) * num
               ELSE Place(c) * den' - Place(c)' * den \in 0 .. den - 1
    <3>1. Whole(c) \in Int /\ Whole(c)' = Whole(c)
      BY <1>1, <2>1, <2>5, ChangePlace
    <3>2. PICK w \in Int : w = Whole(c) /\ w = Whole(c)'
      BY <3>1
    <3>3. PICK f \in Nat, e \in Nat : /\ f = frac[c] /\ e = frac'[c]
                                     /\ f * d - e * den \in 0 .. den - 1
      BY <1>5, <1>6, <1>7
    <3>4. Place(c) = w * den + f /\ Place(c)' = w * d + e
      BY <1>4, <3>2, <3>3 DEF Place
    <3>5. /\ (w * den + f) * d - (w * d + e) * den \in 0 .. den - 1
          /\ d = den => f = e
      <4>1. w \in Int /\ f \in Nat /\ e \in Nat /\ den \in Nat \ {0} /\ d \in Nat \ {0}
        BY <1>1
      <4>2. f * d - e * den \in 0 .. den - 1
        BY <3>3
      <4> QED
        BY ONLY <4>1, <4>2, PlaceRounds
    <3>6. Put(c) * num = 0
      BY <1>1 DEF Put
    <3>7. w * den + f \in Int
      BY <1>1
    <3> QED
      BY <1>4, <3>4, <3>5, <3>6, <3>7
  <2> QED
    BY <2>3, <2>4, <2>5 DEF IInv, SteadyStep
<1>8. CASE /\ frac' = [c \in Chan |->
                        IF \A o \in {c1 \in Chan : ~NoOverflow(frac[c1], d, den)} : c < o
                        THEN Rescaled(frac[c], d) ELSE frac[c]]
           /\ up' = "failed"
           /\ UNCHANGED <<filt_len, table, kernel, silenced, memory, last, magic>>
  <2>1. ASSUME NEW c \in Chan PROVE frac'[c] \in Nat
    <3>1. CASE NoOverflow(frac[c], d, den)
      BY <1>5, <1>6, <1>8, <3>1
    <3>2. CASE ~NoOverflow(frac[c], d, den)
      <4>1. ~(c < c)
        BY DEF Chan
      <4> QED
        BY <1>5, <1>8, <3>2, <4>1
    <3> QED
      BY <3>1, <3>2
  <2>2. frac' \in [Chan -> Nat]
    BY <1>8, <2>1
  <2> QED
    BY <1>1, <1>4, <1>8, <2>2 DEF IInv, Types, Unused, Live, SteadyStep, memory
<1> QED
  BY <1>2, <1>3, <1>7, <1>8

LEMMA ResetKeeps == IInv /\ Reset => IInv' /\ SteadyStep
<1> SUFFICES ASSUME IInv, Reset PROVE IInv' /\ SteadyStep
  OBVIOUS
<1>1. /\ last' = [c \in Chan |-> 0] /\ magic' = last' /\ frac' = last' /\ since' = fed
      /\ up = "live" /\ den # 0
      /\ UNCHANGED <<up, num, den, quality, asked, filt_len, kernel, silenced, started, alloc,
                     pc, ch, ilen, olen, fed>>
  BY DEF Reset, Changes, setup, call, IInv, Live
<1>2. last' \in [Chan -> Nat] /\ magic' \in [Chan -> Nat] /\ frac' \in [Chan -> Nat]
  BY <1>1
<1>3. \A c \in Chan : filt_len + 2 * magic'[c] - 1 + BufferSize <= alloc /\ frac'[c] < den
  BY <1>1, SizeAssumption DEF IInv, Types, Live, OldLength
<1>4. \A c \in Chan : /\ last'[c] <= magic'[c] + filt_len \div 2 + Slack
                     /\ last'[c] <= TableMax \div 2
  BY <1>1, Sizes DEF IInv, Types
<1> QED
  BY <1>1, <1>2, <1>3, <1>4 DEF IInv, Types, Unused, Live, OldLength, Near, SteadyStep

LEMMA DestroyKeeps == IInv /\ Destroy => IInv' /\ SteadyStep
<1> SUFFICES ASSUME IInv, Destroy PROVE IInv' /\ SteadyStep
  OBVIOUS
<1>1. [c \in Chan |-> 0] \in [Chan -> Nat]
  OBVIOUS
<1>2. /\ up' = "gone" /\ num' = 0 /\ den' = 0 /\ filt_len' = 0 /\ alloc' = 0
      /\ last' = [c \in Chan |-> 0] /\ frac' = last' /\ magic' = last'
      /\ fed' = last' /\ since' = last'
      /\ UNCHANGED <<quality, asked, pc, ch, ilen, olen>> /\ pc = "idle"
  BY DEF Destroy, call
<1> QED
  BY <1>1, <1>2, Sizes DEF IInv, Types, Unused, Live, SteadyStep

\* Steps that leave the filter and its place alone.
LEMMA StillKeeps ==
  ASSUME IInv,
         UNCHANGED <<up, num, den, quality, asked, filt_len, kernel, silenced, started, alloc,
                     last, frac, magic, fed, since>>,
         pc' \in {"idle", "magic", "input", "return"}, ch' \in Chan,
         ilen' \in Nat, olen' \in Nat,
         up = "live" \/ pc' = "idle",
         "idle" \in {pc, pc'} \/ olen' = olen
  PROVE  IInv' /\ SteadyStep
<1>1. IInv'
  BY DEF IInv, Types, Unused, Live, OldLength, Near
<1>2. ASSUME up' = "live", NEW c \in Chan
      PROVE  den' = den /\ Place(c)' = Place(c) + Put(c) * num
  <2>1. Place(c)' = Place(c) /\ Place(c) \in Int
    <3>1. /\ fed[c] \in Nat /\ since[c] \in Nat /\ filt_len \in Nat /\ magic[c] \in Nat
          /\ last[c] \in Nat /\ den \in Nat /\ frac[c] \in Nat
      BY DEF IInv, Types
    <3>2. Whole(c) \in Int
      BY <3>1 DEF Whole
    <3> QED
      BY <3>1, <3>2 DEF Place, Whole
  <2>2. olen \in Nat /\ num \in Nat
    BY DEF IInv, Types
  <2>3. Put(c) = 0
    <3>1. CASE "idle" \in {pc, pc'}
      BY <3>1 DEF Put
    <3>2. CASE olen' = olen
      BY <2>2, <3>2 DEF Put
    <3> QED
      BY <3>1, <3>2
  <2> QED
    BY <2>1, <2>2, <2>3
<1> QED
  BY <1>1, <1>2 DEF SteadyStep

LEMMA CallKeeps == IInv /\ (Call \/ Return \/ UNCHANGED vars) => IInv' /\ SteadyStep
<1>1. ASSUME IInv, Call PROVE IInv' /\ SteadyStep
  <2>1. PICK c \in Chan, n \in Lengths :
          /\ ch' = c /\ ilen' = n[1] /\ olen' = n[2]
          /\ pc' = IF magic[c] > 0 THEN "magic" ELSE "input"
    BY <1>1 DEF Call
  <2>2. n[1] \in Nat /\ n[2] \in Nat
    BY SizeAssumption
  <2>3. /\ up = "live" /\ pc = "idle"
        /\ UNCHANGED <<up, num, den, quality, asked, filt_len, kernel, silenced, started, alloc,
                       last, frac, magic, fed, since>>
    BY <1>1 DEF Call, setup, memory, place, history
  <2>4. /\ pc' \in {"idle", "magic", "input", "return"} /\ ch' \in Chan
        /\ ilen' \in Nat /\ olen' \in Nat /\ "idle" \in {pc, pc'}
    BY <2>1, <2>2, <2>3
  <2> QED
    BY <1>1, <2>3, <2>4, StillKeeps
<1>2. ASSUME IInv, Return PROVE IInv' /\ SteadyStep
  <2>1. /\ pc' = "idle" /\ ch' = 0 /\ ilen' = 0 /\ olen' = 0 /\ 0 \in Chan
        /\ UNCHANGED <<up, num, den, quality, asked, filt_len, kernel, silenced, started, alloc,
                       last, frac, magic, fed, since>>
    BY <1>2, SizeAssumption DEF Return, setup, memory, place, history, Chan
  <2>2. /\ pc' \in {"idle", "magic", "input", "return"} /\ ch' \in Chan
        /\ ilen' \in Nat /\ olen' \in Nat /\ "idle" \in {pc, pc'}
    BY <2>1
  <2> QED
    BY <1>2, <2>1, <2>2, StillKeeps
<1>3. ASSUME IInv, UNCHANGED vars PROVE IInv' /\ SteadyStep
  <2>1. UNCHANGED <<up, num, den, quality, asked, filt_len, kernel, silenced, started, alloc,
                    last, frac, magic, fed, since, pc, ch, ilen, olen>>
    BY <1>3 DEF vars, setup, memory, place, call, history
  <2>2. /\ pc' \in {"idle", "magic", "input", "return"} /\ ch' \in Chan
        /\ ilen' \in Nat /\ olen' \in Nat /\ olen' = olen
        /\ up = "live" \/ pc' = "idle"
    BY <1>3, <2>1 DEF IInv, Types, Unused
  <2> QED
    BY <1>3, <2>1, <2>2, StillKeeps
<1> QED
  BY <1>1, <1>2, <1>3

\* Steps of the filter: the samples it uses are magic ones or new ones.
LEMMA FilterKeeps ==
  ASSUME IInv, up = "live", NEW in \in Nat, NEW n \in 0 .. olen,
         Native(in, n),
         pc \in {"magic", "input"}, pc' \in {"input", "return"}, ilen' \in Nat,
         UNCHANGED <<up, num, den, quality, asked, filt_len, kernel, silenced, alloc, ch, since>>,
         \/ /\ in = magic[ch] /\ fed' = fed
            /\ magic' = [magic EXCEPT ![ch] = in - Used(ch, in, n)]
         \/ /\ magic' = magic /\ fed' = [fed EXCEPT ![ch] = @ + Used(ch, in, n)]
  PROVE  IInv' /\ SteadyStep
<1> DEFINE used == Used(ch, in, n)
<1>1. /\ used \in Nat /\ used <= in
      /\ last' \in [Chan -> Nat] /\ frac' \in [Chan -> Nat] /\ olen' \in Nat
      /\ olen - olen' = n /\ started'
      /\ \A c \in Chan : frac'[c] < den
      /\ \A c \in Chan \ {ch} : last'[c] = last[c] /\ frac'[c] = frac[c]
      /\ (last'[ch] + used) * den + frac'[ch] = last[ch] * den + frac[ch] + n * num
      /\ last'[ch] <= num \div den \/ last'[ch] + used = last[ch]
  BY NativeMoves
<1>2. /\ ch \in Chan /\ den \in Nat \ {0} /\ num \in Nat /\ filt_len \in Nat
      /\ last \in [Chan -> Nat] /\ frac \in [Chan -> Nat] /\ magic \in [Chan -> Nat]
      /\ fed \in [Chan -> Nat] /\ since \in [Chan -> Nat]
      /\ \A c \in Chan : filt_len + 2 * magic[c] - 1 + BufferSize <= alloc
  BY DEF IInv, Types, Live, OldLength
<1> HIDE DEF used
<1>3. \/ /\ in = magic[ch] /\ fed' = fed /\ magic' = [magic EXCEPT ![ch] = in - used]
      \/ /\ magic' = magic /\ fed' = [fed EXCEPT ![ch] = @ + used]
  BY DEF used
<1>4. /\ magic' \in [Chan -> Nat] /\ fed' \in [Chan -> Nat]
      /\ \A c \in Chan : magic'[c] <= magic[c]
      /\ \A c \in Chan \ {ch} : magic'[c] = magic[c] /\ fed'[c] = fed[c]
      /\ fed'[ch] - magic'[ch] = fed[ch] - magic[ch] + used
  <2>1. CASE in = magic[ch] /\ fed' = fed /\ magic' = [magic EXCEPT ![ch] = in - used]
    <3>1. in - used \in Nat /\ in - used <= magic[ch] /\ magic'[ch] = in - used
      BY <1>1, <1>2, <2>1
    <3> QED
      BY <1>1, <1>2, <2>1, <3>1
  <2>2. CASE magic' = magic /\ fed' = [fed EXCEPT ![ch] = @ + used]
    <3>1. fed'[ch] = fed[ch] + used /\ fed[ch] + used \in Nat
      BY <1>1, <1>2, <2>2
    <3> QED
      BY <1>1, <1>2, <2>2, <3>1
  <2> QED
    BY <1>3, <2>1, <2>2
<1>5. \A c \in Chan : filt_len + 2 * magic'[c] - 1 + BufferSize <= alloc
  BY <1>2, <1>4, SizeAssumption DEF IInv, Types
<1>6. ASSUME NEW c \in Chan PROVE last'[c] <= magic'[c] + filt_len \div 2 + Slack
  <2>1. last[c] <= magic[c] + filt_len \div 2 + Slack /\ num \div den + TableMax <= IntMax
    BY DEF IInv, Live, Near, Suited
  <2>2. /\ last[c] \in Nat /\ magic[c] \in Nat /\ last'[c] \in Nat /\ magic'[c] \in Nat
        /\ filt_len \div 2 \in Nat /\ num \div den \in Nat /\ num \div den <= Slack
        /\ fed[c] \in Nat /\ fed'[c] \in Nat /\ Slack \in Nat
    <3>1. filt_len \div 2 \in Nat /\ num \div den \in Nat
      <4>1. filt_len \in Nat /\ num \in Nat /\ den \in Nat \ {0}
        BY <1>2
      <4>2. filt_len \div 2 \in Nat
        BY <4>1
      <4>3. num \div den \in Nat
        BY <4>1, Division
      <4> QED
        BY <4>2, <4>3
    <3>2. num \div den <= Slack
      BY <2>1, <3>1, Sizes
    <3> QED
      BY <1>1, <1>2, <1>4, <3>1, <3>2, Sizes
  <2>3. CASE c # ch
    BY <1>1, <1>4, <2>1, <2>3
  <2>4. CASE c = ch
    <3>1. magic'[c] + used >= magic[c]
      BY <1>1, <1>2, <1>3, <2>2, <2>4
    <3> QED
      BY <1>1, <2>1, <2>2, <2>4, <3>1
  <2> QED
    BY <2>3, <2>4
<1>7. IInv'
  BY <1>1, <1>2, <1>4, <1>5, <1>6 DEF IInv, Types, Unused, Live, OldLength, Near
<1>8. ASSUME NEW c \in Chan
      PROVE  den' = den /\ Place(c)' = Place(c) + Put(c) * num
  <2>1. /\ Put(c) = IF c = ch THEN n ELSE 0
    BY <1>1 DEF Put
  <2>2. /\ fed[c] \in Nat /\ since[c] \in Nat /\ magic[c] \in Nat /\ last[c] \in Nat
        /\ frac[c] \in Nat /\ fed'[c] \in Nat /\ magic'[c] \in Nat /\ last'[c] \in Nat
        /\ frac'[c] \in Nat /\ filt_len \div 2 \in Nat
    BY <1>1, <1>2, <1>4
  <2>3. CASE c # ch
    <3>1. Whole(c)' = Whole(c) /\ Whole(c) \in Int
      BY <1>1, <1>4, <2>2, <2>3 DEF Whole
    <3>2. Place(c)' = Place(c) /\ Place(c) \in Int
      BY <1>1, <1>2, <2>2, <2>3, <3>1 DEF Place
    <3> QED
      BY <1>2, <2>1, <2>3, <3>2
  <2>4. CASE c = ch
    <3>1. PICK w \in Int : w = fed[c] - since[c] - filt_len \div 2 - magic[c]
      BY <2>2
    <3>2. Whole(c) = w + last[c] /\ Whole(c)' = w + used + last'[c]
      BY <1>1, <1>4, <2>2, <2>4, <3>1 DEF Whole
    <3>3. PICK l \in Nat, f \in Nat, l1 \in Nat, f1 \in Nat :
            l = last[c] /\ f = frac[c] /\ l1 = last'[c] /\ f1 = frac'[c]
      BY <2>2
    <3>4. (l1 + used) * den + f1 = l * den + f + n * num
      BY <1>1, <2>4, <3>3
    <3>5. (w + used + l1) * den + f1 = (w + l) * den + f + n * num
      <4>1. /\ w \in Int /\ l \in Int /\ used \in Int /\ f \in Int /\ l1 \in Int
            /\ f1 \in Int /\ den \in Int /\ n \in Int /\ num \in Int
        BY <1>1, <1>2
      <4> QED
        BY ONLY <4>1, <3>4, PlaceMoves
    <3> QED
      BY <2>1, <2>4, <3>2, <3>3, <3>5 DEF Place
  <2> QED
    BY <2>3, <2>4
<1> QED
  BY <1>7, <1>8 DEF SteadyStep

LEMMA UseMagicKeeps == IInv /\ UseMagic => IInv' /\ SteadyStep
<1> SUFFICES ASSUME IInv, UseMagic PROVE IInv' /\ SteadyStep
  OBVIOUS
<1>1. PICK n \in 0 .. olen :
        /\ Native(magic[ch], n)
        /\ magic' = [magic EXCEPT ![ch] = magic[ch] - Used(ch, magic[ch], n)]
        /\ pc' = IF Used(ch, magic[ch], n) = magic[ch] THEN "input" ELSE "return"
  BY DEF UseMagic
<1>2. /\ pc = "magic" /\ up = "live" /\ magic[ch] \in Nat /\ ilen \in Nat
      /\ UNCHANGED <<up, num, den, quality, asked, filt_len, kernel, silenced, alloc, ch, since,
                     fed, ilen>>
  BY DEF UseMagic, IInv, Types, Unused, setup
<1>3. pc' \in {"input", "return"} /\ pc \in {"magic", "input"} /\ ilen' \in Nat
  BY <1>1, <1>2
<1> QED
  BY <1>1, <1>2, <1>3, FilterKeeps

LEMMA PassKeeps == IInv /\ Pass => IInv' /\ SteadyStep
<1> SUFFICES ASSUME IInv, Pass PROVE IInv' /\ SteadyStep
  OBVIOUS
<1> DEFINE in == Smaller(ilen, alloc - (filt_len - 1))
<1>1. PICK n \in 0 .. olen :
        /\ Native(in, n)
        /\ fed' = [fed EXCEPT ![ch] = @ + Used(ch, in, n)]
        /\ ilen' = ilen - Used(ch, in, n)
  BY DEF Pass
<1>2. /\ pc = "input" /\ up = "live" /\ ilen \in Nat /\ magic[ch] \in Nat
      /\ UNCHANGED <<up, num, den, quality, asked, filt_len, kernel, silenced, alloc, ch, since,
                     magic, pc>>
  BY DEF Pass, IInv, Types, Unused, setup
<1>3. alloc - (filt_len - 1) \in Nat
  <2>1. filt_len \in Nat /\ alloc \in Nat /\ ch \in Chan
    BY DEF IInv, Types
  <2>2. OldLength(ch) - 1 + BufferSize <= alloc
    BY <1>2, <2>1 DEF IInv, Live
  <2>3. BufferSize \in Nat
    BY SizeAssumption
  <2> QED
    BY <1>2, <2>1, <2>2, <2>3 DEF OldLength
<1>4. in \in Nat /\ in <= ilen
  BY <1>2, <1>3 DEF Smaller
<1> HIDE DEF in
<1>5. Used(ch, in, n) \in Nat /\ Used(ch, in, n) <= in
  BY <1>1, <1>2, <1>4, NativeMoves
<1>6. ilen' \in Nat
  BY <1>1, <1>2, <1>4, <1>5
<1>7. pc \in {"magic", "input"} /\ pc' \in {"input", "return"}
  BY <1>2
<1> QED
  BY <1>1, <1>2, <1>4, <1>6, <1>7, FilterKeeps

-----------------------------------------------------------------------------
LEMMA Step == IInv /\ [Next]_vars => IInv' /\ SteadyStep
BY CreateKeeps, SkipZerosKeeps, SetRateKeeps, SetQualityKeeps, ResetKeeps, DestroyKeeps,
   CallKeeps, UseMagicKeeps, PassKeeps DEF Next

LEMMA Inductive == Spec => []IInv
<1>1. IInv /\ [Next]_vars => IInv'
  BY Step
<1> QED
  BY <1>1, Initially, PTL DEF Spec

\* Lookups stay inside the table, which is the one of the present filter unless only
\* zeros are put out, and inside the memory of the channel, with room for input; and
\* the loop counts no further than an int does.
THEOREM LookupsStayInside == Spec => []LookupsFit
<1>1. IInv => LookupsFit
  <2> SUFFICES ASSUME IInv, up = "live" PROVE LookupsFit
    BY DEF LookupsFit
  <2>1. 0 \in Chan
    BY SizeAssumption DEF Chan
  <2>2. /\ BufferSize \in Nat \ {0} /\ filt_len \in Nat /\ alloc \in Nat
        /\ \A c \in Chan : magic[c] \in Nat /\ last[c] \in Nat
        /\ alloc <= TableMax
    BY SizeAssumption DEF IInv, Types
  <2>3. alloc + num \div den <= IntMax
    <3>1. num \div den + TableMax <= IntMax /\ num \in Nat /\ den \in Nat \ {0}
      BY DEF IInv, Types, Live, Suited
    <3> QED
      BY <2>2, <3>1, Sizes, Division
  <2>4. ASSUME NEW c \in Chan PROVE last[c] <= IntMax
    <3>0. Near(c) /\ OldLength(c) - 1 + BufferSize <= alloc
      BY DEF IInv, Live
    <3>1. /\ last[c] <= magic[c] + filt_len \div 2 + Slack
          /\ filt_len + 2 * magic[c] - 1 + BufferSize <= alloc
      <4>1. last[c] <= magic[c] + filt_len \div 2 + Slack
        BY <3>0 DEF Near
      <4>2. OldLength(c) = filt_len + 2 * magic[c]
        BY DEF OldLength
      <4> QED
        BY <2>2, <3>0, <4>1, <4>2
    <3>2. filt_len + 2 * magic[c] <= TableMax
      <4>1. PICK m \in Nat : m = magic[c]
        BY <2>2
      <4>2. TableMax \in Nat
        BY Sizes
      <4> QED
        BY <2>2, <3>1, <4>1, <4>2
    <3>3. PICK m \in Nat, f \in Nat, t \in Nat : m = magic[c] /\ f = filt_len /\ t = TableMax
      BY <2>2, Sizes
    <3>4. m + f \div 2 <= t \div 2
      BY <3>2, <3>3
    <3> QED
      BY <2>2, <3>1, <3>3, <3>4, Sizes
  <2> QED
    BY <2>1, <2>2, <2>3, <2>4 DEF IInv, Live, LookupsFit, OldLength, Held
<1> QED
  BY <1>1, Inductive, PTL

\* However the input is cut and whatever changes of rate and quality are made, or
\* fail, the place outputs are taken at moves by num/den for each of them, and by
\* nothing else but the rounding of a new rate.
THEOREM Steadiness == Spec => Steady
<1>1. IInv /\ [Next]_vars => SteadyStep
  BY Step
<1>2. IInv /\ [Next]_vars => [SteadyStep]_vars
  BY <1>1
<1> QED
  BY <1>2, Inductive, PTL DEF Spec, Steady

-----------------------------------------------------------------------------
(* The memory the channels share.  The loops that move it are functions    *)
(* defined by recursion: what they compute is shown by induction, from the *)
(* least element a set of numbers has.                                     *)

\* What a loop of n rounds over a set of states goes through.
Iterates(f, n, X, x, F) ==
  f \in [0 .. n -> X] /\ f[0] = x /\ \A i \in 1 .. n : f[i] = F[<<f[i - 1], i>>]

\* Every such loop goes through something.
LEMMA Iteration ==
  ASSUME NEW n \in Nat, NEW X, NEW x \in X, NEW F \in [X \X (1 .. n) -> X]
  PROVE  \E f : Iterates(f, n, X, x, F)
<1> DEFINE Reached(m) == \E f : Iterates(f, m, X, x, F)
           S == {m \in Nat : m <= n => Reached(m)}
<1>1. 0 \in S
  <2> DEFINE f == [i \in 0 .. 0 |-> x]
  <2>1. f \in [0 .. 0 -> X] /\ f[0] = x /\ \A i \in 1 .. 0 : f[i] = F[<<f[i - 1], i>>]
    OBVIOUS
  <2> QED
    BY <2>1 DEF Iterates
<1>2. ASSUME NEW m \in Nat, m \in S PROVE m + 1 \in S
  <2> SUFFICES ASSUME m + 1 <= n PROVE Reached(m + 1)
    OBVIOUS
  <2>1. PICK f \in [0 .. m -> X] : f[0] = x /\ \A i \in 1 .. m : f[i] = F[<<f[i - 1], i>>]
    BY <1>2 DEF Iterates
  <2> DEFINE g == [i \in 0 .. m + 1 |-> IF i <= m THEN f[i] ELSE F[<<f[m], m + 1>>]]
  <2>2. F[<<f[m], m + 1>>] \in X
    OBVIOUS
  <2>3. g \in [0 .. m + 1 -> X]
    BY <2>2
  <2>4. g[0] = x
    BY <2>1
  <2>5. ASSUME NEW i \in 1 .. m + 1 PROVE g[i] = F[<<g[i - 1], i>>]
    <3>1. CASE i \in 1 .. m
      <4>1. g[i] = f[i] /\ g[i - 1] = f[i - 1]
        BY <3>1
      <4> QED
        BY <2>1, <3>1, <4>1
    <3>2. CASE i = m + 1
      <4>1. g[i] = F[<<f[m], m + 1>>] /\ g[i - 1] = f[m]
        BY <3>2
      <4> QED
        BY <3>2, <4>1
    <3> QED
      BY <3>1, <3>2
  <2> HIDE DEF g
  <2> QED
    BY <2>3, <2>4, <2>5 DEF Iterates
<1> HIDE DEF S
<1>3. n \in S
  BY <1>1, <1>2, Induction
<1> QED
  BY <1>3 DEF S

\* What a cell may hold, and N cells of the array.
Cell == Int \X Int
Cells(N) == [0 .. N - 1 -> Cell]

\* What the loop that copies the first cell first leaves, when it copies downwards.
LEMMA CopyUpCells ==
  ASSUME NEW D, NEW cells \in [D -> Cell], NEW from \in Int, NEW to \in Int, NEW n \in Nat,
         to <= from, from .. from + n - 1 \subseteq D, to .. to + n - 1 \subseteq D
  PROVE  /\ CopyUp(cells, from, to, n) \in [D -> Cell]
         /\ \A k \in D : CopyUp(cells, from, to, n)[k] =
              IF k \in to .. to + n - 1 THEN cells[k - to + from] ELSE cells[k]
<1> DEFINE moved(j) ==
             [k \in D |-> IF k \in to .. to + j - 1 THEN cells[k - to + from] ELSE cells[k]]
           body(f, j) ==
             IF j = 0 THEN cells
             ELSE LET was == f[j - 1] IN [was EXCEPT ![to + j - 1] = was[from + j - 1]]
           w == [j \in 0 .. n |-> moved(j)]
<1>1. moved(0) = cells
  OBVIOUS
<1>2. ASSUME NEW j \in 1 .. n
      PROVE  moved(j) = [moved(j - 1) EXCEPT ![to + j - 1] = moved(j - 1)[from + j - 1]]
  <2>1. to + j - 1 \in D /\ from + j - 1 \in D /\ from + j - 1 \notin to .. to + (j - 1) - 1
    OBVIOUS
  <2>2. moved(j - 1)[from + j - 1] = cells[from + j - 1]
    BY <2>1
  <2>3. ASSUME NEW k \in D
        PROVE  moved(j)[k] = IF k = to + j - 1 THEN cells[from + j - 1] ELSE moved(j - 1)[k]
    <3>1. CASE k = to + j - 1
      BY <3>1
    <3>2. CASE k # to + j - 1
      BY <3>2
    <3> QED
      BY <3>1, <3>2
  <2> HIDE DEF moved
  <2>4. moved(j) = [k \in D |-> IF k = to + j - 1 THEN cells[from + j - 1] ELSE moved(j - 1)[k]]
    BY <2>3 DEF moved
  <2>5. moved(j - 1) = [k \in D |-> moved(j - 1)[k]]
    BY DEF moved
  <2> QED
    BY <2>2, <2>4, <2>5
<1> HIDE DEF moved
<1>3. ASSUME NEW j \in 0 .. n PROVE w[j] = body(w, j)
  BY <1>1, <1>2
<1> HIDE DEF body
<1>4. w = [j \in 0 .. n |-> body(w, j)]
  BY <1>3
<1> HIDE DEF w
<1>5. PICK after : after = [j \in 0 .. n |-> body(after, j)] /\ CopyUp(cells, from, to, n) = after[n]
  BY <1>4 DEF CopyUp, body
<1> DEFINE S == {j \in Nat : j <= n => after[j] = moved(j)}
<1>6. 0 \in S
  <2>0. 0 \in 0 .. n
    OBVIOUS
  <2>1. after[0] = body(after, 0)
    BY <1>5, <2>0
  <2> QED
    BY <2>1, <1>1 DEF body
<1>7. ASSUME NEW j \in Nat, j \in S PROVE j + 1 \in S
  <2> SUFFICES ASSUME j + 1 <= n PROVE after[j + 1] = moved(j + 1)
    OBVIOUS
  <2>1. after[j + 1] = body(after, j + 1) /\ after[j] = moved(j)
    BY <1>5, <1>7
  <2>2. body(after, j + 1) = [moved(j) EXCEPT ![to + j] = moved(j)[from + j]]
    BY <2>1 DEF body
  <2> QED
    BY <1>2, <2>1, <2>2
<1> HIDE DEF S
<1>8. n \in S
  BY <1>6, <1>7, Induction
<1>9. CopyUp(cells, from, to, n) = moved(n)
  BY <1>5, <1>8 DEF S
<1>10. ASSUME NEW k \in D PROVE moved(n)[k] \in Cell
  <2>1. CASE k \in to .. to + n - 1
    <3>1. k - to + from \in D
      BY <2>1
    <3> QED
      BY <2>1, <3>1 DEF moved
  <2>2. CASE k \notin to .. to + n - 1
    BY <2>2 DEF moved
  <2> QED
    BY <2>1, <2>2
<1>11. moved(n) \in [D -> Cell]
  BY <1>10 DEF moved
<1> QED
  BY <1>9, <1>11 DEF moved

LEMMA CopyUpMoves ==
  ASSUME NEW N \in Nat, NEW cells \in Cells(N),
         NEW from \in Nat, NEW to \in Nat, NEW n \in Nat, to <= from, from + n <= N
  PROVE  /\ CopyUp(cells, from, to, n) \in Cells(N)
         /\ \A k \in 0 .. N - 1 : CopyUp(cells, from, to, n)[k] =
              IF k \in to .. to + n - 1 THEN cells[k - to + from] ELSE cells[k]
<1> DEFINE D == 0 .. N - 1
<1>1. from .. from + n - 1 \subseteq D /\ to .. to + n - 1 \subseteq D
  OBVIOUS
<1> HIDE DEF D
<1>2. cells \in [D -> Cell]
  BY DEF D, Cells
<1>3. /\ CopyUp(cells, from, to, n) \in [D -> Cell]
      /\ \A k \in D : CopyUp(cells, from, to, n)[k] =
           IF k \in to .. to + n - 1 THEN cells[k - to + from] ELSE cells[k]
  BY <1>1, <1>2, CopyUpCells
<1> QED
  BY <1>3 DEF D, Cells

\* The loop that copies the last cell first, when it copies upwards.
LEMMA CopyDownCells ==
  ASSUME NEW D, NEW cells \in [D -> Cell], NEW from \in Int, NEW to \in Int, NEW n \in Nat,
         from <= to, from .. from + n - 1 \subseteq D, to .. to + n - 1 \subseteq D
  PROVE  /\ CopyDown(cells, from, to, n) \in [D -> Cell]
         /\ \A k \in D : CopyDown(cells, from, to, n)[k] =
              IF k \in to .. to + n - 1 THEN cells[k - to + from] ELSE cells[k]
<1> DEFINE moved(j) ==
             [k \in D |-> IF k \in to + n - j .. to + n - 1 THEN cells[k - to + from] ELSE cells[k]]
           body(f, j) ==
             IF j = 0 THEN cells
             ELSE LET was == f[j - 1] IN [was EXCEPT ![to + n - j] = was[from + n - j]]
           w == [j \in 0 .. n |-> moved(j)]
<1>1. moved(0) = cells
  OBVIOUS
<1>2. ASSUME NEW j \in 1 .. n
      PROVE  moved(j) = [moved(j - 1) EXCEPT ![to + n - j] = moved(j - 1)[from + n - j]]
  <2>1. to + n - j \in D /\ from + n - j \in D /\ from + n - j \notin to + n - (j - 1) .. to + n - 1
    OBVIOUS
  <2>2. moved(j - 1)[from + n - j] = cells[from + n - j]
    BY <2>1
  <2>3. ASSUME NEW k \in D
        PROVE  moved(j)[k] = IF k = to + n - j THEN cells[from + n - j] ELSE moved(j - 1)[k]
    <3>1. CASE k = to + n - j
      BY <3>1
    <3>2. CASE k # to + n - j
      BY <3>2
    <3> QED
      BY <3>1, <3>2
  <2> HIDE DEF moved
  <2>4. moved(j) = [k \in D |-> IF k = to + n - j THEN cells[from + n - j] ELSE moved(j - 1)[k]]
    BY <2>3 DEF moved
  <2>5. moved(j - 1) = [k \in D |-> moved(j - 1)[k]]
    BY DEF moved
  <2> QED
    BY <2>2, <2>4, <2>5
<1> HIDE DEF moved
<1>3. ASSUME NEW j \in 0 .. n PROVE w[j] = body(w, j)
  BY <1>1, <1>2
<1> HIDE DEF body
<1>4. w = [j \in 0 .. n |-> body(w, j)]
  BY <1>3
<1> HIDE DEF w
<1>5. PICK after : after = [j \in 0 .. n |-> body(after, j)] /\ CopyDown(cells, from, to, n) = after[n]
  BY <1>4 DEF CopyDown, body
<1> DEFINE S == {j \in Nat : j <= n => after[j] = moved(j)}
<1>6. 0 \in S
  <2>0. 0 \in 0 .. n
    OBVIOUS
  <2>1. after[0] = body(after, 0)
    BY <1>5, <2>0
  <2> QED
    BY <2>1, <1>1 DEF body
<1>7. ASSUME NEW j \in Nat, j \in S PROVE j + 1 \in S
  <2> SUFFICES ASSUME j + 1 <= n PROVE after[j + 1] = moved(j + 1)
    OBVIOUS
  <2>1. after[j + 1] = body(after, j + 1) /\ after[j] = moved(j)
    BY <1>5, <1>7
  <2>2. body(after, j + 1) = [moved(j) EXCEPT ![to + n - (j + 1)] = moved(j)[from + n - (j + 1)]]
    BY <2>1 DEF body
  <2> QED
    BY <1>2, <2>1, <2>2
<1> HIDE DEF S
<1>8. n \in S
  BY <1>6, <1>7, Induction
<1>9. CopyDown(cells, from, to, n) = moved(n)
  BY <1>5, <1>8 DEF S
<1>10. ASSUME NEW k \in D PROVE moved(n)[k] \in Cell
  <2>1. CASE k \in to .. to + n - 1
    <3>1. k - to + from \in D
      BY <2>1
    <3> QED
      BY <2>1, <3>1 DEF moved
  <2>2. CASE k \notin to .. to + n - 1
    BY <2>2 DEF moved
  <2> QED
    BY <2>1, <2>2
<1>11. moved(n) \in [D -> Cell]
  BY <1>10 DEF moved
<1> QED
  BY <1>9, <1>11 DEF moved

LEMMA CopyDownMoves ==
  ASSUME NEW N \in Nat, NEW cells \in Cells(N),
         NEW from \in Nat, NEW to \in Nat, NEW n \in Nat, from <= to, to + n <= N
  PROVE  /\ CopyDown(cells, from, to, n) \in Cells(N)
         /\ \A k \in 0 .. N - 1 : CopyDown(cells, from, to, n)[k] =
              IF k \in to .. to + n - 1 THEN cells[k - to + from] ELSE cells[k]
<1> DEFINE D == 0 .. N - 1
<1>1. from .. from + n - 1 \subseteq D /\ to .. to + n - 1 \subseteq D
  OBVIOUS
<1> HIDE DEF D
<1>2. cells \in [D -> Cell]
  BY DEF D, Cells
<1>3. /\ CopyDown(cells, from, to, n) \in [D -> Cell]
      /\ \A k \in D : CopyDown(cells, from, to, n)[k] =
           IF k \in to .. to + n - 1 THEN cells[k - to + from] ELSE cells[k]
  BY <1>1, <1>2, CopyDownCells
<1> QED
  BY <1>3 DEF D, Cells

-----------------------------------------------------------------------------
\* The cells of different channels are different ones.
LEMMA Rows ==
  ASSUME NEW a \in Nat, NEW x \in Nat, NEW y \in Nat, x < y
  PROVE  x * a \in Nat /\ y * a \in Nat /\ x * a + a <= y * a
<1>1. PICK z \in Nat : y = x + 1 + z
  OBVIOUS
<1>2. y * a = x * a + a + z * a
  BY <1>1
<1>3. z * a \in Nat /\ x * a \in Nat
  BY <1>1
<1> QED
  BY <1>2, <1>3

LEMMA Grows ==
  ASSUME NEW c \in Chan, NEW a \in Nat, NEW b \in Nat, a <= b
  PROVE  c * a \in Nat /\ c * b \in Nat /\ c * a <= c * b
<1>1. c \in Nat
  BY DEF Chan
<1>2. PICK z \in Nat : b = a + z
  OBVIOUS
<1>3. c * b = c * a + c * z /\ c * a \in Nat /\ c * z \in Nat
  BY <1>1, <1>2
<1> QED
  BY <1>3

LEMMA ChannelCells ==
  ASSUME NEW a \in Nat, NEW c \in Chan
  PROVE  c * a \in Nat /\ Channels * a \in Nat /\ c * a + a <= Channels * a
<1>1. c \in Nat /\ Channels \in Nat /\ c < Channels
  BY SizeAssumption DEF Chan
<1> QED
  BY <1>1, Rows

LEMMA ChannelsApart ==
  ASSUME NEW a \in Nat, NEW c \in Chan, NEW d \in Chan, c < d
  PROVE  c * a \in Nat /\ d * a \in Nat /\ c * a + a <= d * a
<1>1. c \in Nat /\ d \in Nat
  BY DEF Chan
<1> QED
  BY <1>1, Rows

\* What a channel holds when the length of its filter has changed to len.
HeldAfter(c, len) == len - 1 + MagicAfter(c, len)

\* Cells moved up by the loop, and the gap before them cleared.
Opened(cells, from, base, gap, n) == Clear(CopyDown(cells, from, base + gap, n), base, gap)

\* Cells moved down by the loop, over a gap before them.
Closed(cells, base, gap, n) == CopyUp(cells, base + gap, base, n)

\* What they leave.
AreOpened(new, N, cells, from, base, gap, n) ==
  /\ new \in Cells(N)
  /\ \A k \in 0 .. N - 1 : k \notin base .. base + gap + n - 1 => new[k] = cells[k]
  /\ \A k \in base .. base + gap - 1 : new[k] = Zero
  /\ \A k \in base + gap .. base + gap + n - 1 : new[k] = cells[k - base - gap + from]

AreClosed(new, N, cells, base, gap, n) ==
  /\ new \in Cells(N)
  /\ \A k \in 0 .. N - 1 : k \notin base .. base + n - 1 => new[k] = cells[k]
  /\ \A k \in base .. base + n - 1 : new[k] = cells[k + gap]

LEMMA OpenedCells ==
  ASSUME NEW N \in Nat, NEW cells \in Cells(N),
         NEW from \in Nat, NEW base \in Nat, NEW gap \in Nat, NEW n \in Nat, NEW new,
         from <= base + gap, base + gap + n <= N,
         new = Opened(cells, from, base, gap, n)
  PROVE  AreOpened(new, N, cells, from, base, gap, n)
<1>1. PICK to \in Nat : to = base + gap
  OBVIOUS
<1> DEFINE D == 0 .. N - 1
           down == CopyDown(cells, from, to, n)
<1>2. from .. from + n - 1 \subseteq D /\ to .. to + n - 1 \subseteq D
  BY <1>1
<1>3. /\ down \in Cells(N)
      /\ \A k \in D : down[k] = IF k \in to .. to + n - 1 THEN cells[k - to + from] ELSE cells[k]
  BY <1>1, CopyDownMoves
<1>4. Zero \in Cell
  BY DEF Zero, Cell
<1>5. new = [k \in D |-> IF k \in base .. base + gap - 1 THEN Zero ELSE down[k]]
  BY <1>1, <1>3 DEF Opened, Clear, Cells
<1> HIDE DEF down
<1>6. ASSUME NEW k \in D PROVE new[k] \in Cell
  BY <1>3, <1>4, <1>5 DEF Cells
<1>7. new \in Cells(N)
  BY <1>5, <1>6 DEF Cells
<1>8. ASSUME NEW k \in D, k \notin base .. base + gap + n - 1 PROVE new[k] = cells[k]
  <2>1. k \notin base .. base + gap - 1 /\ k \notin to .. to + n - 1
    BY <1>1, <1>8
  <2> QED
    BY <1>3, <1>5, <2>1
<1>9. ASSUME NEW k \in base .. base + gap - 1 PROVE new[k] = Zero
  <2>1. k \in D
    OBVIOUS
  <2> QED
    BY <1>5, <2>1
<1>10. ASSUME NEW k \in base + gap .. base + gap + n - 1
       PROVE  new[k] = cells[k - base - gap + from]
  <2>1. k \in D /\ k \notin base .. base + gap - 1 /\ k \in to .. to + n - 1
    BY <1>1
  <2>2. k - to + from = k - base - gap + from
    BY <1>1
  <2>3. new[k] = cells[k - to + from]
    BY <1>3, <1>5, <2>1
  <2> QED
    BY <2>2, <2>3
<1> QED
  BY <1>7, <1>8, <1>9, <1>10 DEF AreOpened

LEMMA ClosedCells ==
  ASSUME NEW N \in Nat, NEW cells \in Cells(N),
         NEW base \in Nat, NEW gap \in Nat, NEW n \in Nat, NEW new,
         base + gap + n <= N,
         new = Closed(cells, base, gap, n)
  PROVE  AreClosed(new, N, cells, base, gap, n)
<1>1. PICK from \in Nat : from = base + gap
  OBVIOUS
<1> DEFINE D == 0 .. N - 1
<1>2. from .. from + n - 1 \subseteq D /\ base .. base + n - 1 \subseteq D
  BY <1>1
<1>3. /\ new \in Cells(N)
      /\ \A k \in D : new[k] = IF k \in base .. base + n - 1
                                THEN cells[k - base + from] ELSE cells[k]
  BY <1>1, CopyUpMoves DEF Closed
<1>4. ASSUME NEW k \in base .. base + n - 1 PROVE new[k] = cells[k + gap]
  <2>1. k \in D /\ k - base + from = k + gap
    BY <1>1
  <2> QED
    BY <1>3, <2>1
<1> QED
  BY <1>3, <1>4 DEF AreClosed

-----------------------------------------------------------------------------
\* What was held now ends at another place: a front of zeros was added, or the
\* front is gone.
Carried(new, base, held, cells, from, was) ==
  /\ \A k \in base .. base + (held - was) - 1 : new[k] = Zero
  /\ \A k \in base .. base + held - 1 :
       k >= base + (held - was) => new[k] = cells[k - base - (held - was) + from]

\* The same n cells.
Same(cells, mem0, from, n) == \A k \in from .. from + n - 1 : cells[k] = mem0[k]

LEMMA SamePart ==
  ASSUME NEW cells, NEW mem0, NEW from \in Nat, NEW n \in Nat, NEW part \in Nat, part <= n,
         Same(cells, mem0, from, n)
  PROVE  Same(cells, mem0, from, part)
BY DEF Same

LEMMA CarriedSame ==
  ASSUME NEW new, NEW base \in Nat, NEW held, NEW cells, NEW from \in Nat, NEW was \in Nat,
         NEW n \in Nat, NEW mem0,
         held \in Int, was <= n,
         Carried(new, base, held, cells, from, was), Same(cells, mem0, from, n)
  PROVE  Carried(new, base, held, mem0, from, was)
<1> SUFFICES ASSUME NEW k \in base .. base + held - 1, k >= base + (held - was)
             PROVE  new[k] = mem0[k - base - (held - was) + from]
  BY DEF Carried
<1>1. PICK i \in Int : i = k - base - (held - was) + from /\ i \in from .. from + n - 1
  OBVIOUS
<1>2. new[k] = cells[i]
  BY <1>1 DEF Carried
<1> QED
  BY <1>1, <1>2 DEF Same

LEMMA CarriedSelf ==
  ASSUME NEW cells, NEW base \in Nat, NEW held \in Nat
  PROVE  Carried(cells, base, held, cells, base, held)
<1>1. held - held = 0 /\ \A k \in base .. base + 0 - 1 : FALSE
  OBVIOUS
<1>2. \A k \in base .. base + held - 1 : k - base - 0 + base = k
  OBVIOUS
<1> QED
  BY <1>1, <1>2 DEF Carried

LEMMA CarriedKept ==
  ASSUME NEW new, NEW base \in Nat, NEW held \in Nat, NEW cells, NEW from, NEW was \in Nat,
         NEW mem0,
         Carried(cells, base, held, mem0, from, was), Same(new, cells, base, held)
  PROVE  Carried(new, base, held, mem0, from, was)
<1>1. \A k \in base .. base + (held - was) - 1 : k \in base .. base + held - 1
  OBVIOUS
<1> QED
  BY <1>1 DEF Carried, Same

\* Only cells from base on have changed.
Within(new, N, cells, base, size) ==
  /\ new \in Cells(N)
  /\ \A k \in 0 .. N - 1 : k \notin base .. base + size - 1 => new[k] = cells[k]

\* What happens within a channel leaves the others as they were.
LEMMA OthersKept ==
  ASSUME NEW a \in Nat, NEW i \in Chan, NEW c \in Chan, c # i, NEW new, NEW cells,
         Within(new, Channels * a, cells, i * a, a)
  PROVE  Same(new, cells, c * a, a)
<1>1. PICK base \in Nat, next \in Nat, N \in Nat :
        /\ base = c * a /\ next = i * a /\ N = Channels * a /\ base + a <= N
        /\ base + a <= next \/ next + a <= base
  <2>1. CASE c < i
    BY <2>1, ChannelsApart, ChannelCells
  <2>2. CASE i < c
    BY <2>2, ChannelsApart, ChannelCells
  <2> QED
    BY <2>1, <2>2 DEF Chan
<1>2. \A k \in base .. base + a - 1 : k \in 0 .. N - 1 /\ k \notin next .. next + a - 1
  <2>1. N \in Nat /\ base \in Nat /\ next \in Nat /\ a \in Nat
    OBVIOUS
  <2> QED
    BY ONLY <1>1, <2>1
<1> QED
  BY <1>1, <1>2 DEF Within, Same

\* One channel of a filter so much longer that no magic samples remain.
LEMMA StretchLong ==
  ASSUME NEW N \in Nat, NEW cells \in Cells(N), NEW from \in Nat, NEW base \in Nat,
         NEW m \in Nat, NEW held \in Nat, NEW s \in Nat, NEW back, NEW new,
         from <= base, base + s + m + held <= N,
         back = Opened(cells, from, base, m, held),
         new = Opened(back, base, base, s, m + held)
  PROVE  /\ Within(new, N, cells, base, s + m + held)
         /\ Carried(new, base, held + s + m, cells, from, held)
<1>1. /\ back \in Cells(N)
      /\ \A k \in 0 .. N - 1 : k \notin base .. base + m + held - 1 => back[k] = cells[k]
      /\ \A k \in base .. base + m - 1 : back[k] = Zero
      /\ \A k \in base + m .. base + m + held - 1 : back[k] = cells[k - base - m + from]
  <2>1. AreOpened(back, N, cells, from, base, m, held)
    BY OpenedCells
  <2> QED
    BY <2>1 DEF AreOpened
<1>2. PICK n \in Nat : n = m + held
  OBVIOUS
<1>3. /\ new \in Cells(N)
      /\ \A k \in 0 .. N - 1 : k \notin base .. base + s + n - 1 => new[k] = back[k]
      /\ \A k \in base .. base + s - 1 : new[k] = Zero
      /\ \A k \in base + s .. base + s + n - 1 : new[k] = back[k - base - s + base]
  <2>1. AreOpened(new, N, back, base, base, s, n)
    BY <1>1, <1>2, OpenedCells
  <2> QED
    BY <2>1 DEF AreOpened
<1>4. ASSUME NEW k \in 0 .. N - 1, k \notin base .. base + s + m + held - 1
      PROVE  new[k] = cells[k]
  <2>1. k \notin base .. base + s + n - 1 /\ k \notin base .. base + m + held - 1
    BY <1>2, <1>4
  <2> QED
    BY <1>1, <1>3, <2>1
<1>5. ASSUME NEW k \in base .. base + s + m - 1 PROVE new[k] = Zero
  <2>1. CASE k < base + s
    BY <1>3, <2>1
  <2>2. CASE k >= base + s
    <3>1. PICK i \in Int : i = k - base - s + base /\ i \in base .. base + m - 1
      BY <2>2
    <3>2. new[k] = back[i]
      BY <1>2, <1>3, <2>2, <3>1
    <3> QED
      BY <1>1, <3>1, <3>2
  <2> QED
    BY <2>1, <2>2
<1>6. ASSUME NEW k \in base + s + m .. base + s + m + held - 1
      PROVE  new[k] = cells[k - base - (s + m) + from]
  <2>1. PICK i \in Int : i = k - base - s + base /\ i \in base + m .. base + m + held - 1
    OBVIOUS
  <2>2. new[k] = back[i]
    BY <1>2, <1>3, <2>1
  <2>3. i - base - m + from = k - base - (s + m) + from
    BY <2>1
  <2> QED
    BY <1>1, <2>1, <2>2, <2>3
<1>7. Carried(new, base, held + s + m, cells, from, held)
  <2>1. held + s + m - held = s + m
    OBVIOUS
  <2> QED
    BY <1>5, <1>6, <2>1 DEF Carried
<1> QED
  BY <1>3, <1>4, <1>7 DEF Within

\* One channel of a longer filter that leaves some of the magic samples.
LEMMA StretchShort ==
  ASSUME NEW N \in Nat, NEW cells \in Cells(N), NEW from \in Nat, NEW base \in Nat,
         NEW m \in Nat, NEW held \in Nat, NEW h \in Nat, NEW back, NEW new,
         from <= base, base + m + held <= N, h <= m,
         back = Opened(cells, from, base, m, held),
         new = Closed(back, base, h, held + (m - h))
  PROVE  /\ Within(new, N, cells, base, m + held)
         /\ Carried(new, base, held + (m - h), cells, from, held)
<1>1. /\ back \in Cells(N)
      /\ \A k \in 0 .. N - 1 : k \notin base .. base + m + held - 1 => back[k] = cells[k]
      /\ \A k \in base .. base + m - 1 : back[k] = Zero
      /\ \A k \in base + m .. base + m + held - 1 : back[k] = cells[k - base - m + from]
  <2>1. AreOpened(back, N, cells, from, base, m, held)
    BY OpenedCells
  <2> QED
    BY <2>1 DEF AreOpened
<1>2. PICK n \in Nat : n = held + (m - h)
  OBVIOUS
<1>3. /\ new \in Cells(N)
      /\ \A k \in 0 .. N - 1 : k \notin base .. base + n - 1 => new[k] = back[k]
      /\ \A k \in base .. base + n - 1 : new[k] = back[k + h]
  <2>1. AreClosed(new, N, back, base, h, n)
    BY <1>1, <1>2, ClosedCells
  <2> QED
    BY <2>1 DEF AreClosed
<1>4. ASSUME NEW k \in 0 .. N - 1, k \notin base .. base + m + held - 1
      PROVE  new[k] = cells[k]
  <2>1. k \notin base .. base + n - 1
    BY <1>2, <1>4
  <2> QED
    BY <1>1, <1>3, <1>4, <2>1
<1>5. ASSUME NEW k \in base .. base + (m - h) - 1 PROVE new[k] = Zero
  <2>1. PICK i \in Int : i = k + h /\ i \in base .. base + m - 1
    OBVIOUS
  <2>2. new[k] = back[i]
    BY <1>2, <1>3, <2>1
  <2> QED
    BY <1>1, <2>1, <2>2
<1>6. ASSUME NEW k \in base + (m - h) .. base + (m - h) + held - 1
      PROVE  new[k] = cells[k - base - (m - h) + from]
  <2>1. PICK i \in Int : i = k + h /\ i \in base + m .. base + m + held - 1
    OBVIOUS
  <2>2. new[k] = back[i]
    BY <1>2, <1>3, <2>1
  <2>3. i - base - m + from = k - base - (m - h) + from
    BY <2>1
  <2> QED
    BY <1>1, <2>1, <2>2, <2>3
<1>7. Carried(new, base, held + (m - h), cells, from, held)
  <2>1. held + (m - h) - held = m - h
    OBVIOUS
  <2> QED
    BY <1>5, <1>6, <2>1 DEF Carried
<1> QED
  BY <1>3, <1>4, <1>7 DEF Within


\* Either way the channel holds what it held, and no other cell changes.
LEMMA StretchedMoves ==
  ASSUME NEW c \in Chan, NEW len \in Nat, NEW size \in Nat, NEW N \in Nat,
         NEW cells \in Cells(N),
         filt_len \in Nat \ {0}, filt_len % 2 = 0, alloc \in Nat, magic[c] \in Nat,
         OldLength(c) - 1 <= alloc, len % 2 = 0, len > filt_len,
         alloc <= size, len - 1 <= size, c * size + size <= N
  PROVE  /\ Within(Stretched(cells, c, len, size), N, cells, c * size, size)
         /\ Carried(Stretched(cells, c, len, size), c * size, HeldAfter(c, len),
                    cells, c * alloc, Held(c))
<1>1. PICK m \in Nat, old \in Nat, held \in Nat :
        /\ m = magic[c] /\ old = OldLength(c) /\ held = Held(c)
        /\ old = filt_len + 2 * m /\ held = filt_len - 1 + m
  BY DEF OldLength, Held
<1>2. PICK base \in Nat, from \in Nat : base = c * size /\ from = c * alloc /\ from <= base
  <2>1. c \in Nat
    BY DEF Chan
  <2>2. PICK z \in Nat : size = alloc + z
    OBVIOUS
  <2>3. c * size = c * alloc + c * z /\ c * alloc \in Nat /\ c * z \in Nat
    BY <2>1, <2>2
  <2> QED
    BY <2>3
<1>3. base + size <= N
  BY <1>2
<1>4. PICK back, new :
        /\ back = Opened(cells, from, base, m, held)
        /\ new = Stretched(cells, c, len, size)
        /\ new = IF len > old THEN Opened(back, base, base, len - old, old - 1)
                 ELSE Closed(back, base, (old - len) \div 2, len - 1 + (old - len) \div 2)
  <2>1. Stretched(cells, c, len, size) =
          LET b == Clear(CopyDown(cells, from, base + m, held), base, m)
          IN IF len > old
             THEN Clear(CopyDown(b, base, base + len - old, old - 1), base, len - old)
             ELSE CopyUp(b, base + (old - len) \div 2, base, len - 1 + (old - len) \div 2)
    BY <1>1, <1>2 DEF Stretched
  <2>2. base + len - old = base + (len - old)
    BY <1>1, <1>2
  <2> QED
    BY <2>1, <2>2 DEF Opened, Closed
<1>5. PICK held1 : held1 = HeldAfter(c, len)
  OBVIOUS
<1>6. CASE len > old
  <2>1. PICK s \in Nat : s = len - old /\ old - 1 = m + held
    BY <1>1, <1>6
  <2>2. held1 = held + s + m
    <3>1. MagicAfter(c, len) = 0
      BY <1>1, <1>6 DEF MagicAfter
    <3>2. held1 = len - 1
      BY <1>5, <3>1 DEF HeldAfter
    <3> QED
      BY <1>1, <2>1, <3>2
  <2>3. s + m + held <= size
    BY <1>1, <2>1
  <2>4. base + s + m + held <= N
    BY <1>1, <1>3, <2>1, <2>3
  <2>5. new = Opened(back, base, base, s, m + held)
    BY <1>4, <1>6, <2>1
  <2>6. /\ Within(new, N, cells, base, s + m + held)
        /\ Carried(new, base, held + s + m, cells, from, held)
    BY <1>2, <1>4, <2>4, <2>5, StretchLong
  <2>7. Within(new, N, cells, base, size)
    BY <2>3, <2>6 DEF Within
  <2> QED
    BY <1>1, <1>2, <1>4, <1>5, <2>2, <2>6, <2>7
<1>7. CASE ~(len > old)
  <2>1. PICK h \in Nat : h = (old - len) \div 2 /\ old - len = 2 * h
    BY <1>1, <1>7
  <2>2. h <= m /\ len - 1 + h = held + (m - h) /\ m + held <= size
    <3>1. /\ m \in Nat /\ old \in Nat /\ held \in Nat /\ h \in Nat /\ len \in Nat
          /\ filt_len \in Nat /\ size \in Nat /\ alloc \in Nat
          /\ len > filt_len /\ old - 1 <= alloc /\ alloc <= size
          /\ old = filt_len + 2 * m /\ held = filt_len - 1 + m /\ old - len = 2 * h
      BY <1>1, <2>1
    <3> QED
      BY ONLY <3>1
  <2>3. held1 = held + (m - h)
    BY <1>1, <1>5, <1>7, <2>1, <2>2 DEF HeldAfter, MagicAfter
  <2>4. base + m + held <= N
    BY <1>1, <1>3, <2>2
  <2>5. new = Closed(back, base, h, held + (m - h))
    BY <1>4, <1>7, <2>1, <2>2
  <2>6. /\ Within(new, N, cells, base, m + held)
        /\ Carried(new, base, held + (m - h), cells, from, held)
    BY <1>2, <1>4, <2>2, <2>4, <2>5, StretchShort
  <2>7. Within(new, N, cells, base, size)
    BY <2>2, <2>6 DEF Within
  <2> QED
    BY <1>1, <1>2, <1>4, <1>5, <2>3, <2>6, <2>7
<1> QED
  BY <1>6, <1>7

\* Each channel of a longer filter ends with what it held.
LEMMA LengthenedMoves ==
  ASSUME NEW len \in Nat, NEW size \in Nat,
         filt_len \in Nat \ {0}, filt_len % 2 = 0, alloc \in Nat, magic \in [Chan -> Nat],
         \A c \in Chan : OldLength(c) - 1 <= alloc,
         mem \in Cells(Channels * alloc),
         len % 2 = 0, len > filt_len, alloc <= size, len - 1 <= size
  PROVE  /\ Lengthened(len, size) \in Cells(Channels * size)
         /\ \A c \in Chan : Carried(Lengthened(len, size), c * size, HeldAfter(c, len),
                                    mem, c * alloc, Held(c))
<1> DEFINE N == Channels * size
           X == Cells(N)
           grown == Realloc(mem, N)
           F == [p \in X \X (1 .. Channels) |-> Stretched(p[1], Channels - p[2], len, size)]
           body(f, i) == IF i = 0 THEN grown ELSE Stretched(f[i - 1], Channels - i, len, size)
<1>1. Channels \in Nat \ {0} /\ N \in Nat /\ Channels * alloc \in Nat /\ Channels * alloc <= N
  <2>1. Channels \in Nat \ {0}
    BY SizeAssumption
  <2>2. PICK z \in Nat : size = alloc + z
    OBVIOUS
  <2>3. N = Channels * alloc + Channels * z /\ Channels * z \in Nat /\ Channels * alloc \in Nat
    BY <2>1, <2>2
  <2> QED
    BY <2>1, <2>3
<1> HIDE DEF N
<1>2. ASSUME NEW i \in 1 .. Channels PROVE Channels - i \in Chan
  BY <1>1 DEF Chan
<1>3. ASSUME NEW cells \in X, NEW c \in Chan
      PROVE  /\ Within(Stretched(cells, c, len, size), N, cells, c * size, size)
             /\ Carried(Stretched(cells, c, len, size), c * size, HeldAfter(c, len),
                        cells, c * alloc, Held(c))
  <2>1. magic[c] \in Nat /\ OldLength(c) - 1 <= alloc /\ c * size + size <= N
    BY ChannelCells DEF N
  <2> QED
    BY <1>1, <2>1, StretchedMoves
<1>4. ASSUME NEW cells \in X, NEW i \in 1 .. Channels
      PROVE  Stretched(cells, Channels - i, len, size) \in X
  BY <1>2, <1>3 DEF Within
<1>5. grown = [k \in 0 .. N - 1 |-> IF k \in 0 .. Channels * alloc - 1 THEN mem[k] ELSE Junk]
  BY DEF Realloc, Cells
<1>6. grown \in X
  <2>1. Junk \in Cell
    BY DEF Junk, Cell
  <2>2. ASSUME NEW k \in 0 .. Channels * alloc - 1 PROVE mem[k] \in Cell
    BY DEF Cells
  <2> QED
    BY <1>5, <2>1, <2>2 DEF Cells
<1> HIDE DEF X, grown
<1>7. PICK after : after = [i \in 0 .. Channels |-> body(after, i)]
                   /\ Lengthened(len, size) = after[Channels]
  <2>1. F \in [X \X (1 .. Channels) -> X]
    BY <1>4
  <2> HIDE DEF F
  <2>2. PICK f : Iterates(f, Channels, X, grown, F)
    BY <1>1, <1>6, <2>1, Iteration
  <2>3. ASSUME NEW i \in 1 .. Channels
        PROVE  F[<<f[i - 1], i>>] = Stretched(f[i - 1], Channels - i, len, size)
    <3>1. f[i - 1] \in X /\ <<f[i - 1], i>> \in X \X (1 .. Channels)
      BY <1>1, <2>2 DEF Iterates
    <3> QED
      BY <3>1 DEF F
  <2>4. ASSUME NEW i \in 0 .. Channels PROVE f[i] = body(f, i)
    <3>1. CASE i = 0
      BY <2>2, <3>1 DEF Iterates
    <3>2. CASE i \in 1 .. Channels
      BY <2>2, <2>3, <3>2 DEF Iterates
    <3> QED
      BY <3>1, <3>2
  <2> HIDE DEF body
  <2>5. f = [i \in 0 .. Channels |-> body(f, i)]
    BY <2>2, <2>4 DEF Iterates
  <2> QED
    BY <2>5 DEF Lengthened, grown, N, body
<1> DEFINE Done(cells, i) ==
             /\ cells \in X
             /\ \A c \in Chan :
                  IF c < Channels - i
                  THEN \A k \in c * alloc .. c * alloc + alloc - 1 : cells[k] = mem[k]
                  ELSE Carried(cells, c * size, HeldAfter(c, len), mem, c * alloc, Held(c))
           S == {i \in Nat : i <= Channels => Done(after[i], i)}
<1>8. 0 \in S
  <2>1. after[0] = grown
    BY <1>1, <1>7
  <2>2. ASSUME NEW c \in Chan
        PROVE  /\ c < Channels - 0
               /\ \A k \in c * alloc .. c * alloc + alloc - 1 : grown[k] = mem[k]
    <3>1. c < Channels - 0
      BY <1>1 DEF Chan
    <3>2. PICK base \in Nat : base = c * alloc /\ base + alloc <= Channels * alloc
      BY ChannelCells
    <3>3. \A k \in base .. base + alloc - 1 : k \in 0 .. N - 1 /\ k \in 0 .. Channels * alloc - 1
      BY <1>1, <3>2
    <3> QED
      BY <1>5, <3>1, <3>2, <3>3
  <2> QED
    BY <1>6, <2>1, <2>2
<1>9. ASSUME NEW i \in Nat, i \in S PROVE i + 1 \in S
  <2> SUFFICES ASSUME i + 1 <= Channels PROVE Done(after[i + 1], i + 1)
    OBVIOUS
  <2>1. Done(after[i], i)
    BY <1>1, <1>9
  <2>2. PICK d \in Chan : d = Channels - (i + 1)
    BY <1>1, <1>2
  <2>3. after[i + 1] = Stretched(after[i], d, len, size)
    BY <1>1, <1>7, <2>2
  <2>4. /\ Within(after[i + 1], N, after[i], d * size, size)
        /\ Carried(after[i + 1], d * size, HeldAfter(d, len), after[i], d * alloc, Held(d))
    BY <1>3, <2>1, <2>3
  <2>5. after[i + 1] \in X
    BY <2>4 DEF Within, X
  <2>6. ASSUME NEW c \in Chan
        PROVE  IF c < d
               THEN \A k \in c * alloc .. c * alloc + alloc - 1 : after[i + 1][k] = mem[k]
               ELSE Carried(after[i + 1], c * size, HeldAfter(c, len), mem, c * alloc, Held(c))
    <3>1. CASE c < d
      <4>1. PICK base \in Nat, next \in Nat :
              base = c * alloc /\ next = d * size /\ base + alloc <= next /\ base + alloc <= N
        <5>1. PICK mid \in Nat : c * alloc + alloc <= mid /\ mid = d * alloc
          BY <3>1, ChannelsApart
        <5>2. d * alloc <= d * size /\ d * size \in Nat
          BY Grows
        <5>3. c * alloc + alloc <= N /\ c * alloc \in Nat
          BY <1>1, ChannelCells
        <5> QED
          BY <5>1, <5>2, <5>3
      <4>2. c < Channels - i
        BY <1>1, <2>2, <3>1 DEF Chan
      <4>3. \A k \in base .. base + alloc - 1 : after[i][k] = mem[k]
        BY <2>1, <4>1, <4>2
      <4>4. \A k \in base .. base + alloc - 1 :
              k \in 0 .. N - 1 /\ k \notin next .. next + size - 1
        <5>1. N \in Nat /\ base \in Nat /\ next \in Nat /\ alloc \in Nat /\ size \in Nat
          BY <1>1
        <5> QED
          BY ONLY <4>1, <5>1
      <4> QED
        BY <2>4, <3>1, <4>1, <4>3, <4>4 DEF Within
    <3>2. CASE c = d
      <4>1. Same(after[i], mem, d * alloc, alloc)
        BY <1>1, <2>1, <2>2 DEF Same
      <4>2. Held(d) \in Nat /\ Held(d) <= alloc /\ d * alloc \in Nat /\ d * size \in Nat
        BY ChannelCells DEF Held, OldLength
      <4>3. HeldAfter(d, len) \in Nat
        BY DEF HeldAfter, MagicAfter, OldLength
      <4>4. Carried(after[i + 1], d * size, HeldAfter(d, len), mem, d * alloc, Held(d))
        BY <2>4, <4>1, <4>2, <4>3, CarriedSame
      <4> QED
        BY <3>2, <4>4 DEF Chan
    <3>3. CASE c > d
      <4>1. Carried(after[i], c * size, HeldAfter(c, len), mem, c * alloc, Held(c))
        BY <1>1, <2>1, <2>2, <3>3 DEF Chan
      <4>2. PICK base \in Nat : base = c * size
        BY ChannelCells
      <4>3. HeldAfter(c, len) \in Nat /\ HeldAfter(c, len) <= size
        BY DEF HeldAfter, MagicAfter, OldLength
      <4>4. Same(after[i + 1], after[i], base, HeldAfter(c, len))
        <5>1. c # d /\ Within(after[i + 1], Channels * size, after[i], d * size, size)
          BY <2>4, <3>3 DEF N, Chan
        <5>2. Same(after[i + 1], after[i], base, size)
          BY <4>2, <5>1, OthersKept
        <5> QED
          BY <4>3, <5>2, SamePart
      <4>5. Held(c) \in Nat
        BY DEF Held
      <4>6. Carried(after[i + 1], base, HeldAfter(c, len), mem, c * alloc, Held(c))
        BY <4>1, <4>2, <4>3, <4>4, <4>5, CarriedKept
      <4> QED
        BY <3>3, <4>2, <4>6 DEF Chan
    <3> QED
      BY <3>1, <3>2, <3>3 DEF Chan
  <2> QED
    BY <2>2, <2>5, <2>6
<1> HIDE DEF S
<1>10. Channels \in S
  BY <1>1, <1>8, <1>9, Induction
<1>11. Done(after[Channels], Channels)
  BY <1>1, <1>10 DEF S
<1>12. ASSUME NEW c \in Chan PROVE ~(c < Channels - Channels)
  BY <1>1 DEF Chan
<1> QED
  BY <1>7, <1>11, <1>12 DEF X, N

\* And each channel of a shorter one, but for the front.
LEMMA ShortenedMoves ==
  ASSUME NEW len \in Nat \ {0},
         filt_len \in Nat, filt_len % 2 = 0, alloc \in Nat, magic \in [Chan -> Nat],
         \A c \in Chan : Held(c) <= alloc,
         mem \in Cells(Channels * alloc), len % 2 = 0, len < filt_len
  PROVE  /\ Shortened(len) \in Cells(Channels * alloc)
         /\ \A c \in Chan : Carried(Shortened(len), c * alloc, HeldAfter(c, len),
                                    mem, c * alloc, Held(c))
<1> DEFINE N == Channels * alloc
           X == Cells(N)
           m == (filt_len - len) \div 2
           move(cells, c) == Closed(cells, c * alloc, m, len - 1 + m + magic[c])
           F == [p \in X \X (1 .. Channels) |-> move(p[1], p[2] - 1)]
           body(f, i) == IF i = 0 THEN mem ELSE move(f[i - 1], i - 1)
<1>1. /\ Channels \in Nat \ {0} /\ N \in Nat
      /\ m \in Nat /\ filt_len = len + 2 * m
  BY SizeAssumption
<1>2. ASSUME NEW i \in 1 .. Channels PROVE i - 1 \in Chan
  BY <1>1 DEF Chan
<1> HIDE DEF N, m
<1>3. ASSUME NEW cells \in X, NEW c \in Chan
      PROVE  /\ Within(move(cells, c), N, cells, c * alloc, alloc)
             /\ Carried(move(cells, c), c * alloc, HeldAfter(c, len),
                        cells, c * alloc, Held(c))
  <2>1. PICK base, n, new :
          /\ base \in Nat /\ n \in Nat
          /\ base = c * alloc /\ n = len - 1 + m + magic[c] /\ new = move(cells, c)
          /\ new = Closed(cells, base, m, n)
          /\ base + alloc <= N
    BY <1>1, ChannelCells DEF N
  <2>2. /\ m + n = Held(c) /\ n <= alloc /\ m + n <= alloc /\ HeldAfter(c, len) = n
        /\ Held(c) \in Nat /\ n \in Nat
    <3>1. Held(c) = filt_len - 1 + magic[c] /\ Held(c) <= alloc /\ magic[c] \in Nat
      BY DEF Held
    <3>2. MagicAfter(c, len) = magic[c] + m
      BY <1>1, <3>1 DEF MagicAfter, OldLength, m
    <3>3. n = len - 1 + m + magic[c] /\ HeldAfter(c, len) = len - 1 + (magic[c] + m)
      BY <2>1, <3>2 DEF HeldAfter
    <3> QED
      BY <1>1, <3>1, <3>3
  <2>3. base + m + n <= N
    BY <1>1, <2>1, <2>2
  <2>4. AreClosed(new, N, cells, base, m, n)
    BY <1>1, <2>1, <2>3, ClosedCells
  <2>5. Within(new, N, cells, base, alloc)
    BY <1>1, <2>1, <2>2, <2>4 DEF AreClosed, Within
  <2>6. Carried(new, base, n, cells, base, m + n)
    <3>1. \A k \in base .. base + n - 1 : new[k] = cells[k + m]
      BY <2>4 DEF AreClosed
    <3>2. n - (m + n) = 0 - m
      BY <1>1, <2>2
    <3>3. \A k \in base .. base + (0 - m) - 1 : FALSE
      BY <1>1, <2>1
    <3>4. ASSUME NEW k \in base .. base + n - 1 PROVE k - base - (0 - m) + base = k + m
      BY <1>1, <2>1
    <3> QED
      BY <3>1, <3>2, <3>3, <3>4 DEF Carried
  <2> QED
    BY <2>1, <2>2, <2>5, <2>6
<1>4. ASSUME NEW cells \in X, NEW i \in 1 .. Channels PROVE move(cells, i - 1) \in X
  BY <1>2, <1>3 DEF Within
<1> HIDE DEF X, move
<1>5. mem \in X
  BY DEF X, N
<1>6. PICK after : after = [i \in 0 .. Channels |-> body(after, i)]
                   /\ Shortened(len) = after[Channels]
  <2>1. F \in [X \X (1 .. Channels) -> X]
    BY <1>4
  <2> HIDE DEF F
  <2>2. PICK f : Iterates(f, Channels, X, mem, F)
    BY <1>1, <1>5, <2>1, Iteration
  <2>3. ASSUME NEW i \in 1 .. Channels
        PROVE  F[<<f[i - 1], i>>] = move(f[i - 1], i - 1)
    <3>1. f[i - 1] \in X /\ <<f[i - 1], i>> \in X \X (1 .. Channels)
      BY <1>1, <2>2 DEF Iterates
    <3> QED
      BY <3>1 DEF F
  <2>4. ASSUME NEW i \in 0 .. Channels PROVE f[i] = body(f, i)
    <3>1. CASE i = 0
      BY <2>2, <3>1 DEF Iterates
    <3>2. CASE i \in 1 .. Channels
      BY <2>2, <2>3, <3>2 DEF Iterates
    <3> QED
      BY <3>1, <3>2
  <2> HIDE DEF body
  <2>5. f = [i \in 0 .. Channels |-> body(f, i)]
    BY <2>2, <2>4 DEF Iterates
  <2>6. \E g : g = [i \in 0 .. Channels |-> body(g, i)]
    BY <2>5
  <2> QED
    BY <2>6 DEF Shortened, body, move, m, Closed
<1> DEFINE Done(cells, i) ==
             /\ cells \in X
             /\ \A c \in Chan :
                  IF c < i
                  THEN Carried(cells, c * alloc, HeldAfter(c, len), mem, c * alloc, Held(c))
                  ELSE Same(cells, mem, c * alloc, alloc)
           S == {i \in Nat : i <= Channels => Done(after[i], i)}
<1>7. 0 \in S
  <2>1. after[0] = mem
    BY <1>1, <1>6
  <2>2. \A c \in Chan : ~(c < 0)
    BY DEF Chan
  <2> QED
    BY <1>5, <2>1, <2>2 DEF Same
<1>8. ASSUME NEW i \in Nat, i \in S PROVE i + 1 \in S
  <2> SUFFICES ASSUME i + 1 <= Channels PROVE Done(after[i + 1], i + 1)
    OBVIOUS
  <2>1. Done(after[i], i)
    BY <1>1, <1>8
  <2>2. i \in Chan /\ i + 1 \in 1 .. Channels
    BY <1>1 DEF Chan
  <2>3. after[i + 1] = move(after[i], i)
    BY <1>1, <1>6, <2>2
  <2>4. /\ Within(after[i + 1], N, after[i], i * alloc, alloc)
        /\ Carried(after[i + 1], i * alloc, HeldAfter(i, len), after[i], i * alloc, Held(i))
    BY <1>3, <2>1, <2>2, <2>3 DEF move
  <2>5. after[i + 1] \in X
    BY <2>4 DEF Within, X
  <2>6. ASSUME NEW c \in Chan, c # i
        PROVE  Same(after[i + 1], after[i], c * alloc, alloc)
    <3>1. Within(after[i + 1], Channels * alloc, after[i], i * alloc, alloc)
      BY <2>4 DEF N
    <3> QED
      BY <2>2, <2>6, <3>1, OthersKept
  <2>7. ASSUME NEW c \in Chan
        PROVE  /\ Held(c) \in Nat /\ HeldAfter(c, len) \in Nat /\ HeldAfter(c, len) <= alloc
               /\ c * alloc \in Nat
    <3>1. Held(c) = filt_len - 1 + magic[c] /\ Held(c) <= alloc /\ magic[c] \in Nat
      BY DEF Held
    <3>2. MagicAfter(c, len) = magic[c] + m
      BY <1>1, <3>1 DEF MagicAfter, OldLength, m
    <3>3. HeldAfter(c, len) = len - 1 + (magic[c] + m)
      BY <3>2 DEF HeldAfter
    <3> QED
      BY <1>1, <3>1, <3>3, ChannelCells
  <2>8. ASSUME NEW c \in Chan
        PROVE  IF c < i + 1
               THEN Carried(after[i + 1], c * alloc, HeldAfter(c, len), mem, c * alloc, Held(c))
               ELSE Same(after[i + 1], mem, c * alloc, alloc)
    <3>1. CASE c < i
      <4>1. Carried(after[i], c * alloc, HeldAfter(c, len), mem, c * alloc, Held(c))
        BY <2>1, <3>1
      <4>2. Same(after[i + 1], after[i], c * alloc, HeldAfter(c, len))
        BY <2>6, <2>7, <3>1, SamePart DEF Chan
      <4>3. Carried(after[i + 1], c * alloc, HeldAfter(c, len), mem, c * alloc, Held(c))
        BY <2>7, <4>1, <4>2, CarriedKept
      <4> QED
        BY <3>1, <4>3 DEF Chan
    <3>2. CASE c = i
      <4>1. Same(after[i], mem, i * alloc, alloc)
        BY <2>1, <2>2
      <4>2. Carried(after[i + 1], i * alloc, HeldAfter(i, len), mem, i * alloc, Held(i))
        BY <2>2, <2>4, <2>7, <4>1, CarriedSame
      <4> QED
        BY <3>2, <4>2
    <3>3. CASE c > i
      <4>1. Same(after[i], mem, c * alloc, alloc)
        BY <2>1, <3>3 DEF Chan
      <4>2. Same(after[i + 1], after[i], c * alloc, alloc)
        BY <2>6, <3>3 DEF Chan
      <4>3. Same(after[i + 1], mem, c * alloc, alloc)
        BY <4>1, <4>2 DEF Same
      <4> QED
        BY <3>3, <4>3 DEF Chan
    <3> QED
      BY <3>1, <3>2, <3>3 DEF Chan
  <2> QED
    BY <2>5, <2>8
<1> HIDE DEF S
<1>9. Channels \in S
  BY <1>1, <1>7, <1>8, Induction
<1>10. Done(after[Channels], Channels)
  BY <1>1, <1>9 DEF S
<1>11. ASSUME NEW c \in Chan PROVE c < Channels
  BY <1>1 DEF Chan
<1> QED
  BY <1>6, <1>10, <1>11 DEF X, N

-----------------------------------------------------------------------------
\* The memory, and what else MemorySound says.
Memory ==
  /\ mem \in Cells(Channels * alloc)
  /\ up = "live" => filt_len # 0 /\ \A c \in Chan : known[c] <= Held(c) /\ Holds(c)
  /\ ~started => \A c \in Chan : known[c] = 0
  /\ pc = "input" => magic[ch] = 0

Rest ==
  /\ up \in {"new", "live", "failed", "gone"}
  /\ table \in Nat /\ kernel \in Nat \X Nat /\ silenced \in BOOLEAN /\ started \in BOOLEAN
  /\ changes \in Nat /\ known \in [Chan -> Nat] /\ stale \subseteq Chan

MInv == IInv /\ Memory /\ Rest

\* A channel whose cells are carried along still holds its input.
LEMMA HoldsCarried ==
  ASSUME NEW c \in Chan, known[c] \in Nat, fed[c] \in Nat, Held(c) \in Nat, Held(c)' \in Nat,
         alloc \in Nat, alloc' \in Nat,
         Holds(c), known[c] <= Held(c), fed'[c] = fed[c], stale' = stale,
         known'[c] = Smaller(known[c], Held(c)'),
         Carried(mem', c * alloc', Held(c)', mem, c * alloc, Held(c))
  PROVE  Holds(c)' /\ known'[c] <= Held(c)'
<1>1. PICK base \in Nat, from \in Nat, h \in Nat, h1 \in Nat, f \in Nat, g \in Nat :
        /\ base = c * alloc' /\ from = c * alloc /\ h = Held(c) /\ h1 = Held(c)'
        /\ f = fed[c] /\ g = known[c]
  BY ChannelCells
<1>2. /\ \A k \in base .. base + (h1 - h) - 1 : mem'[k] = Zero
      /\ \A k \in base .. base + h1 - 1 :
           k >= base + (h1 - h) => mem'[k] = mem[k - base - (h1 - h) + from]
  BY <1>1 DEF Carried
<1>3. \A j \in 0 .. h - 1 : IF j >= h - g THEN mem[from + j] = <<c, f - h + 1 + j>>
                            ELSE mem[from + j] = Zero \/ c \in stale
  BY <1>1 DEF Holds
<1>4. PICK g1 \in Nat : g1 = known'[c] /\ (g1 = g \/ g1 = h1) /\ g1 <= h1 /\ g1 <= g
  BY <1>1 DEF Smaller
<1>5. ASSUME NEW j \in 0 .. h1 - 1
      PROVE  IF j >= h1 - g1 THEN mem'[base + j] = <<c, f - h1 + 1 + j>>
             ELSE mem'[base + j] = Zero \/ c \in stale
  <2>1. CASE j < h1 - h
    <3>1. mem'[base + j] = Zero
      BY <1>2, <2>1
    <3>2. ~(j >= h1 - g1)
      BY <1>1, <1>4, <2>1
    <3> QED
      BY <3>1, <3>2
  <2>2. CASE ~(j < h1 - h)
    <3>1. PICK i \in Int : i = j - (h1 - h) /\ i \in 0 .. h - 1
      BY <2>2
    <3>2. mem'[base + j] = mem[base + j - base - (h1 - h) + from]
      BY <1>2, <2>2
    <3>3. base + j - base - (h1 - h) + from = from + i
      BY <3>1
    <3>4. mem'[base + j] = mem[from + i] /\ f - h + 1 + i = f - h1 + 1 + j
      BY <3>1, <3>2, <3>3
    <3>5. CASE j >= h1 - g1
      <4>1. i >= h - g
        BY <1>4, <3>1, <3>5
      <4> QED
        BY <1>3, <3>1, <3>4, <3>5, <4>1
    <3>6. CASE ~(j >= h1 - g1)
      <4>1. g1 = g /\ ~(i >= h - g)
        BY <1>4, <3>1, <3>6
      <4> QED
        BY <1>3, <3>1, <3>4, <3>6, <4>1
    <3> QED
      BY <3>5, <3>6
  <2> QED
    BY <2>1, <2>2
<1> QED
  BY <1>1, <1>4, <1>5 DEF Holds

\* A change of length carries what the channels of a started resampler hold along.
LEMMA ChangeCarries ==
  ASSUME IInv, up = "live", started, mem \in Cells(Channels * alloc),
         filt_len # 0, NEW len \in Nat \ {0}, len % 2 = 0,
         ChangeLength(len, Larger(alloc, len - 1 + BufferSize))
  PROVE  /\ mem' \in Cells(Channels * alloc')
         /\ \A c \in Chan : Carried(mem', c * alloc', Held(c)', mem, c * alloc, Held(c))
<1>1. /\ filt_len \in Nat \ {0} /\ filt_len % 2 = 0 /\ alloc \in Nat /\ magic \in [Chan -> Nat]
      /\ BufferSize \in Nat \ {0} /\ \A c \in Chan : OldLength(c) - 1 + BufferSize <= alloc
  BY SizeAssumption DEF IInv, Types, Live
<1>2. PICK size \in Nat : /\ size = Larger(alloc, len - 1 + BufferSize)
                          /\ alloc <= size /\ len - 1 <= size /\ len - 1 + BufferSize <= size
                          /\ size = alloc \/ size = len - 1 + BufferSize
  BY <1>1 DEF Larger
<1>3. \A c \in Chan : OldLength(c) - 1 <= alloc /\ Held(c) <= alloc /\ Held(c) \in Nat
  BY <1>1 DEF OldLength, Held
<1>4. filt_len' = len /\ alloc' = size
  BY <1>2 DEF ChangeLength
<1>5. CASE len > filt_len
  <2>1. mem' = Lengthened(len, size) /\ magic' = [c \in Chan |-> MagicAfter(c, len)]
    BY <1>1, <1>2, <1>5 DEF ChangeLength
  <2>2. \A c \in Chan : Held(c)' = HeldAfter(c, len)
    BY <1>4, <2>1 DEF Held, HeldAfter
  <2>3. /\ Lengthened(len, size) \in Cells(Channels * size)
        /\ \A c \in Chan : Carried(Lengthened(len, size), c * size, HeldAfter(c, len),
                                   mem, c * alloc, Held(c))
    BY <1>1, <1>2, <1>3, <1>5, LengthenedMoves
  <2> QED
    BY <1>4, <2>1, <2>2, <2>3
<1>6. CASE len < filt_len
  <2>1. mem' = Shortened(len) /\ magic' = [c \in Chan |-> MagicAfter(c, len)]
    BY <1>1, <1>2, <1>6 DEF ChangeLength
  <2>2. \A c \in Chan : Held(c)' = HeldAfter(c, len)
    BY <1>4, <2>1 DEF Held, HeldAfter
  <2>3. alloc' = alloc
    <3>1. 0 \in Chan
      BY SizeAssumption DEF Chan
    <3>2. filt_len - 1 + BufferSize <= alloc
      BY <1>1, <3>1 DEF OldLength
    <3> QED
      BY <1>1, <1>2, <1>4, <1>6, <3>2
  <2>4. /\ Shortened(len) \in Cells(Channels * alloc)
        /\ \A c \in Chan : Carried(Shortened(len), c * alloc, HeldAfter(c, len),
                                   mem, c * alloc, Held(c))
    BY <1>1, <1>3, <1>6, ShortenedMoves
  <2> QED
    BY <2>1, <2>2, <2>3, <2>4
<1>7. CASE len = filt_len
  <2>1. mem' = mem /\ magic' = [c \in Chan |-> magic[c]]
    BY <1>1, <1>2, <1>7 DEF ChangeLength
  <2>2. \A c \in Chan : Held(c)' = Held(c)
    BY <1>4, <1>7, <2>1 DEF Held
  <2>3. alloc' = alloc
    <3>1. 0 \in Chan
      BY SizeAssumption DEF Chan
    <3>2. filt_len - 1 + BufferSize <= alloc
      BY <1>1, <3>1 DEF OldLength
    <3> QED
      BY <1>1, <1>2, <1>4, <1>7, <3>2
  <2> QED
    BY <1>1, <1>3, <2>1, <2>2, <2>3, CarriedSelf, ChannelCells
<1> QED
  BY <1>1, <1>5, <1>6, <1>7

\* What update_filter does to the memory, and what it types.
LEMMA MemoryUpdated ==
  ASSUME MInv, up = "live" \/ (up = "new" /\ ~started),
         NEW q \in Qualities, NEW n \in Nat \ {0}, NEW d \in Nat \ {0}, Suited(n, d),
         UpdateFilter(q, n, d)
  PROVE  /\ table' \in Nat /\ kernel' \in Nat \X Nat /\ silenced' \in BOOLEAN
         /\ mem' \in Cells(Channels * alloc')
         /\ up = "live" \/ ~silenced' => filt_len' # 0
         /\ IF started
            THEN \A c \in Chan : Carried(mem', c * alloc', Held(c)', mem, c * alloc, Held(c))
            ELSE \/ mem' = mem /\ alloc' = alloc /\ filt_len' = filt_len /\ magic' = magic
                                /\ silenced'
                 \/ mem' = [k \in 0 .. Channels * alloc' - 1 |-> Zero]
<1> DEFINE len == NewLength(q, n, d)
           over == Sampling(q, n, d)
           rows == TableLength(len, over, d)
<1>1. len \in Nat
  BY LengthNat
<1>2. over \in Nat \ {0}
  BY SamplingNat
<1> HIDE DEF len, over
<1>3. rows \in Nat
  BY <1>1, <1>2, SizeAssumption DEF TableLength
<1> HIDE DEF rows
<1>4. /\ alloc \in Nat /\ filt_len \in Nat /\ magic \in [Chan -> Nat] /\ table \in Nat
      /\ kernel \in Nat \X Nat /\ mem \in Cells(Channels * alloc)
      /\ up = "live" => filt_len # 0
  BY DEF MInv, IInv, Types, Memory, Rest
<1>5. CASE /\ silenced' = TRUE
           /\ UNCHANGED <<filt_len, memory, last, magic>>
           /\ UNCHANGED <<table, kernel>> \/ (table' = Larger(table, rows) /\ kernel' = <<len, d>>)
  <2>1. filt_len' = filt_len /\ alloc' = alloc /\ mem' = mem /\ magic' = magic
    BY <1>5 DEF memory
  <2>2. table' \in Nat /\ kernel' \in Nat \X Nat
    BY <1>1, <1>3, <1>4, <1>5 DEF Larger
  <2>3. ASSUME started, NEW c \in Chan
        PROVE  Carried(mem', c * alloc', Held(c)', mem, c * alloc, Held(c))
    <3>1. Held(c)' = Held(c)
      BY <2>1 DEF Held
    <3>2. Held(c) \in Nat /\ c * alloc \in Nat
      BY <1>4, <2>3, ChannelCells DEF Held
    <3> QED
      BY <2>1, <3>1, <3>2, CarriedSelf
  <2> QED
    BY <1>4, <1>5, <2>1, <2>2, <2>3
<1>6. CASE /\ silenced' = FALSE /\ len \in Nat \ {0} /\ len % 2 = 0
           /\ table' = Larger(table, rows) /\ kernel' = <<len, d>>
           /\ ChangeLength(len, Larger(alloc, len - 1 + BufferSize))
  <2>1. len \in Nat \ {0} /\ len % 2 = 0
    BY <1>6
  <2>2. table' \in Nat /\ kernel' \in Nat \X Nat /\ filt_len' = len
    BY <1>1, <1>3, <1>4, <1>6 DEF Larger, ChangeLength
  <2>3. CASE started
    <3>1. /\ mem' \in Cells(Channels * alloc')
          /\ \A c \in Chan : Carried(mem', c * alloc', Held(c)', mem, c * alloc, Held(c))
      BY <1>1, <1>4, <1>6, <2>1, <2>3, ChangeCarries DEF MInv
    <3> QED
      BY <1>6, <2>1, <2>2, <2>3, <3>1
  <2>4. CASE ~started
    <3>1. mem' = [k \in 0 .. Channels * alloc' - 1 |-> Zero]
      BY <1>6, <2>4 DEF ChangeLength
    <3>2. mem' \in Cells(Channels * alloc')
      BY <3>1 DEF Cells, Cell, Zero
    <3> QED
      BY <1>6, <2>1, <2>2, <2>4, <3>1, <3>2
  <2> QED
    BY <2>3, <2>4
<1>7. LET size == Larger(alloc, len - 1 + BufferSize) IN
      \/ /\ silenced' = TRUE
         /\ UNCHANGED <<filt_len, memory, last, magic>>
         /\ \/ UNCHANGED <<table, kernel>>
            \/ table' = Larger(table, rows) /\ kernel' = <<len, d>>
      \/ /\ silenced' = FALSE /\ len \in Nat \ {0} /\ len % 2 = 0
         /\ table' = Larger(table, rows) /\ kernel' = <<len, d>>
         /\ size = alloc \/ size <= TableMax
         /\ ChangeLength(len, size)
  BY <1>4, FilterEnds DEF len, over, rows
<1> QED
  BY <1>5, <1>6, <1>7

LEMMA MemoryInitially == Init => MInv
<1> SUFFICES ASSUME Init PROVE MInv
  OBVIOUS
<1>1. [c \in Chan |-> 0] \in [Chan -> Nat] /\ 0 \in Chan
  BY SizeAssumption DEF Chan
<1>2. mem \in Cells(Channels * alloc)
  <2>1. Channels * alloc = 0 /\ 0 .. 0 - 1 = {}
    BY SizeAssumption DEF Init
  <2> QED
    BY <2>1 DEF Init, Cells
<1> QED
  BY <1>1, <1>2, Initially DEF Init, MInv, Memory, Rest

\* What a started live resampler holds goes along; an unstarted one holds zeros.
LEMMA ChangeHolds ==
  ASSUME MInv, up = "live", filt_len' \in Nat, magic' \in [Chan -> Nat], alloc' \in Nat,
         fed' = fed, stale' = stale, Remember,
         filt_len' # 0,
         IF started
         THEN \A c \in Chan : Carried(mem', c * alloc', Held(c)', mem, c * alloc, Held(c))
         ELSE \/ mem' = mem /\ alloc' = alloc /\ filt_len' = filt_len /\ magic' = magic
              \/ mem' = [k \in 0 .. Channels * alloc' - 1 |-> Zero],
         \A c \in Chan : Held(c)' <= alloc'
  PROVE  /\ known' \in [Chan -> Nat]
         /\ \A c \in Chan : known'[c] <= Held(c)' /\ Holds(c)'
         /\ ~started => \A c \in Chan : known'[c] = 0
<1>1. /\ fed \in [Chan -> Nat] /\ known \in [Chan -> Nat] /\ alloc \in Nat /\ filt_len \in Nat \ {0}
      /\ magic \in [Chan -> Nat]
      /\ \A c \in Chan : known[c] <= Held(c) /\ Holds(c)
      /\ ~started => \A c \in Chan : known[c] = 0
  BY DEF MInv, IInv, Types, Memory, Rest
<1>2. ASSUME NEW c \in Chan
      PROVE  /\ Held(c) \in Nat /\ Held(c)' \in Nat
             /\ known'[c] = Smaller(known[c], Held(c)')
  <2>1. Held(c) \in Nat /\ Held(c)' \in Nat
    <3>1. filt_len' \in Nat \ {0} /\ magic'[c] \in Nat /\ magic[c] \in Nat
      BY <1>1
    <3>2. filt_len \in Nat \ {0} /\ Held(c) = filt_len - 1 + magic[c]
      BY <1>1 DEF Held
    <3>3. Held(c)' = filt_len' - 1 + magic'[c]
      BY DEF Held
    <3> QED
      BY ONLY <3>1, <3>2, <3>3
  <2>2. known'[c] = Smaller(known[c] + fed[c] - fed[c], Held(c)')
    BY DEF Remember, Held
  <2>3. known[c] + fed[c] - fed[c] = known[c]
    BY <1>1
  <2> QED
    BY <2>1, <2>2, <2>3
<1>3. known' \in [Chan -> Nat] /\ \A c \in Chan : known'[c] <= known[c] /\ known'[c] <= Held(c)'
  <2>1. \A c \in Chan : known'[c] \in Nat /\ known'[c] <= known[c] /\ known'[c] <= Held(c)'
    BY <1>1, <1>2 DEF Smaller
  <2>2. known' = [c \in Chan |-> known'[c]]
    BY DEF Remember
  <2> QED
    BY <2>1, <2>2
<1>4. CASE started
  <2>1. \A c \in Chan : Holds(c)'
    BY <1>1, <1>2, <1>4, HoldsCarried
  <2> QED
    BY <1>3, <1>4, <2>1
<1>5. CASE ~started
  <2>1. \A c \in Chan : known[c] = 0 /\ known'[c] = 0
    BY <1>1, <1>3, <1>5
  <2>2. CASE mem' = mem /\ alloc' = alloc /\ filt_len' = filt_len /\ magic' = magic
    <3>1. \A c \in Chan : Holds(c)'
      BY <1>1, <2>1, <2>2 DEF Holds, Held
    <3> QED
      BY <1>3, <2>1, <3>1
  <2>3. CASE mem' = [k \in 0 .. Channels * alloc' - 1 |-> Zero]
    <3>1. ASSUME NEW c \in Chan PROVE Holds(c)'
      <4>1. PICK a \in Nat, h \in Nat : a = alloc' /\ h = Held(c)' /\ h <= a
        BY <1>2
      <4>2. PICK base \in Nat, N \in Nat : base = c * a /\ N = Channels * a /\ base + a <= N
        BY ChannelCells, SizeAssumption
      <4>4. \A j \in 0 .. h - 1 : base + j \in 0 .. N - 1 /\ ~(j >= h - 0)
        <5>1. h \in Nat /\ a \in Nat /\ base \in Nat /\ N \in Nat /\ h <= a /\ base + a <= N
          BY <4>1, <4>2
        <5> QED
          BY ONLY <5>1
      <4>3. \A j \in 0 .. h - 1 : mem'[base + j] = Zero
        BY <2>3, <4>1, <4>2, <4>4
      <4>5. \A j \in 0 .. h - 1 : ~(j >= h - known'[c])
        BY <2>1, <4>4
      <4> QED
        BY <4>1, <4>2, <4>3, <4>5 DEF Holds
    <3> QED
      BY <1>3, <2>1, <3>1
  <2> QED
    BY <1>5, <2>2, <2>3
<1> QED
  BY <1>4, <1>5

-----------------------------------------------------------------------------
\* Steps that leave the memory and what is known of it alone.
LEMMA MemoryLeft ==
  ASSUME MInv,
         UNCHANGED <<up, filt_len, table, kernel, silenced, started, alloc, mem, magic,
                     fed, known, stale>>,
         changes' \in Nat, pc' = "input" => magic[ch'] = 0
  PROVE  Memory' /\ Rest'
<1>1. Memory'
  BY DEF MInv, Memory, Holds, Held
<1> QED
  BY <1>1 DEF MInv, Rest

LEMMA CallMemory == MInv /\ (Call \/ Return \/ SkipZeros \/ UNCHANGED vars) => Memory' /\ Rest'
<1>1. ASSUME MInv, Call PROVE Memory' /\ Rest'
  <2>1. PICK c \in Chan : ch' = c /\ pc' = IF magic[c] > 0 THEN "magic" ELSE "input"
    BY <1>1 DEF Call
  <2>2. magic[c] \in Nat
    BY <1>1 DEF MInv, IInv, Types
  <2>3. pc' = "input" => magic[ch'] = 0
    BY <2>1, <2>2
  <2>4. changes' \in Nat
    BY <1>1 DEF Call, MInv, Rest
  <2> QED
    BY <1>1, <2>3, <2>4, MemoryLeft DEF Call, setup, memory, place, history
<1>2. ASSUME MInv, Return PROVE Memory' /\ Rest'
  <2>1. changes' \in Nat
    BY <1>2 DEF Return, MInv, Rest
  <2> QED
    BY <1>2, <2>1, MemoryLeft DEF Return, setup, memory, place, history
<1>3. ASSUME MInv, SkipZeros PROVE Memory' /\ Rest'
  <2>1. changes' \in Nat /\ pc' = "idle"
    BY <1>3 DEF SkipZeros, Changes, MInv, Rest, call
  <2> QED
    BY <1>3, <2>1, MemoryLeft DEF SkipZeros, setup, memory, history
<1>4. ASSUME MInv, UNCHANGED vars PROVE Memory' /\ Rest'
  <2>1. changes' \in Nat /\ (pc' = "input" => magic[ch'] = 0)
    BY <1>4 DEF vars, call, place, MInv, Memory, Rest
  <2> QED
    BY <1>4, <2>1, MemoryLeft DEF vars, setup, memory, place, history
<1> QED
  BY <1>1, <1>2, <1>3, <1>4

\* The room behind the filters that a step has left.
LEMMA RoomBehind ==
  ASSUME IInv', up' = "live", NEW c \in Chan
  PROVE  filt_len' + 2 * magic'[c] - 1 + BufferSize <= alloc' /\ BufferSize \in Nat
<1>1. /\ filt_len' \in Nat /\ magic'[c] \in Nat /\ alloc' \in Nat
      /\ BufferSize \in Nat
  BY SizeAssumption DEF IInv, Types
<1>2. ASSUME NEW l, l = OldLength(c)' PROVE l = filt_len' + 2 * magic'[c]
  BY <1>2 DEF OldLength
<1>3. PICK l : l = OldLength(c)'
  OBVIOUS
<1>4. l - 1 + BufferSize <= alloc'
  BY <1>3 DEF IInv, Live
<1> QED
  BY <1>1, <1>2, <1>3, <1>4

LEMMA CreateMemory == MInv /\ Create => Memory' /\ Rest'
<1> SUFFICES ASSUME MInv, Create PROVE Memory' /\ Rest'
  OBVIOUS
<1>1. /\ up = "new" /\ ~started /\ quality \in Qualities /\ asked \in Ratios /\ pc = "idle"
      /\ fed \in [Chan -> Nat]
  BY DEF Create, MInv, IInv, Unused, Types
<1>2. PICK n \in Nat \ {0}, d \in Nat \ {0} :
        n = num' /\ d = den' /\ Suited(n, d) /\ UpdateFilter(quality, n, d)
  BY <1>1, SuitedRatio DEF Create
<1>3. /\ table' \in Nat /\ kernel' \in Nat \X Nat /\ silenced' \in BOOLEAN
      /\ mem' \in Cells(Channels * alloc')
      /\ ~silenced' => filt_len' # 0
      /\ silenced' \/ mem' = [k \in 0 .. Channels * alloc' - 1 |-> Zero]
  BY <1>1, <1>2, MemoryUpdated
<1>4. /\ up' = IF silenced' THEN "failed" ELSE "live"
      /\ UNCHANGED <<started, pc, ch, fed, known, stale, changes>>
  BY DEF Create, call, history
<1>5. IInv'
  BY CreateKeeps DEF MInv
<1>6. known \in [Chan -> Nat] /\ \A c \in Chan : known[c] = 0
  BY <1>1 DEF MInv, Memory, Rest
<1>7. ASSUME up' = "live", NEW c \in Chan PROVE known'[c] <= Held(c)' /\ Holds(c)'
  <2>1. filt_len' \in Nat \ {0} /\ magic'[c] \in Nat /\ alloc' \in Nat
    BY <1>3, <1>4, <1>5, <1>7 DEF IInv, Types
  <2>2. filt_len' + 2 * magic'[c] - 1 + BufferSize <= alloc' /\ BufferSize \in Nat
    BY <1>5, <1>7, RoomBehind
  <2>3. PICK a \in Nat, h \in Nat : a = alloc' /\ h = Held(c)' /\ h <= a
    BY <2>1, <2>2 DEF Held
  <2>4. PICK base \in Nat, N \in Nat : base = c * a /\ N = Channels * a /\ base + a <= N
    BY ChannelCells, SizeAssumption
  <2>5. \A j \in 0 .. h - 1 : base + j \in 0 .. N - 1 /\ ~(j >= h - 0)
    <3>1. h \in Nat /\ a \in Nat /\ base \in Nat /\ N \in Nat /\ h <= a /\ base + a <= N
      BY <2>3, <2>4
    <3> QED
      BY ONLY <3>1
  <2>6. known'[c] = 0
    BY <1>4, <1>6
  <2>7. \A j \in 0 .. h - 1 : mem'[base + j] = Zero /\ ~(j >= h - known'[c])
    BY <1>3, <1>4, <1>7, <2>3, <2>4, <2>5, <2>6
  <2> QED
    BY <2>3, <2>4, <2>6, <2>7 DEF Holds
<1>8. Memory'
  BY <1>1, <1>3, <1>4, <1>6, <1>7 DEF Memory
<1> QED
  BY <1>3, <1>4, <1>6, <1>8 DEF Rest, MInv

\* A change of rate or quality that is made, with the filter that comes of it.
LEMMA ChangeMemory ==
  ASSUME MInv, up = "live", NEW q \in Qualities, NEW n \in Nat \ {0}, NEW d \in Nat \ {0},
         Suited(n, d), UpdateFilter(q, n, d), Remember, IInv',
         UNCHANGED <<up, started, fed, stale>>, pc' = "idle", changes' \in Nat
  PROVE  Memory' /\ Rest'
<1>1. /\ table' \in Nat /\ kernel' \in Nat \X Nat /\ silenced' \in BOOLEAN
      /\ mem' \in Cells(Channels * alloc')
      /\ filt_len' # 0
      /\ IF started
         THEN \A c \in Chan : Carried(mem', c * alloc', Held(c)', mem, c * alloc, Held(c))
         ELSE \/ mem' = mem /\ alloc' = alloc /\ filt_len' = filt_len /\ magic' = magic
              \/ mem' = [k \in 0 .. Channels * alloc' - 1 |-> Zero]
  BY MemoryUpdated
<1>2. filt_len' \in Nat /\ magic' \in [Chan -> Nat] /\ alloc' \in Nat
  BY DEF IInv, Types
<1>3. ASSUME NEW c \in Chan PROVE Held(c)' <= alloc'
  <2>1. filt_len' + 2 * magic'[c] - 1 + BufferSize <= alloc' /\ BufferSize \in Nat
    BY RoomBehind
  <2>2. Held(c)' = filt_len' - 1 + magic'[c] /\ magic'[c] \in Nat
    BY <1>2 DEF Held
  <2> QED
    BY <1>2, <2>1, <2>2
<1>4. /\ known' \in [Chan -> Nat]
      /\ \A c \in Chan : known'[c] <= Held(c)' /\ Holds(c)'
      /\ ~started => \A c \in Chan : known'[c] = 0
  BY <1>1, <1>2, <1>3, ChangeHolds
<1>5. Memory'
  BY <1>1, <1>4 DEF Memory
<1> QED
  BY <1>1, <1>4, <1>5 DEF Rest, MInv

LEMMA SetQualityMemory == MInv /\ SetQuality => Memory' /\ Rest'
<1> SUFFICES ASSUME MInv, SetQuality PROVE Memory' /\ Rest'
  OBVIOUS
<1>1. /\ up = "live" /\ num \in Nat \ {0} /\ den \in Nat \ {0} /\ pc' = "idle"
      /\ Suited(num, den)
      /\ UNCHANGED <<up, started, fed, stale>> /\ Remember /\ changes' \in Nat
  BY DEF SetQuality, Changes, MInv, IInv, Types, Live, call, Rest
<1>2. PICK q \in Qualities : UpdateFilter(q, num, den)
  BY DEF SetQuality
<1>3. IInv'
  BY SetQualityKeeps DEF MInv
<1> QED
  BY <1>1, <1>2, <1>3, ChangeMemory

LEMMA SetRateMemory == MInv /\ SetRate => Memory' /\ Rest'
<1> SUFFICES ASSUME MInv, SetRate PROVE Memory' /\ Rest'
  OBVIOUS
<1>1. /\ up = "live" /\ quality \in Qualities /\ pc' = "idle"
      /\ UNCHANGED <<started, fed, stale>> /\ Remember /\ changes' \in Nat
  BY DEF SetRate, Changes, MInv, IInv, Types, call, Rest
<1>2. PICK r \in Ratios :
        \/ UpdateFilter(quality, Reduced(r)[1], Reduced(r)[2]) /\ up' = up
        \/ up' = "failed" /\ UNCHANGED <<filt_len, table, kernel, silenced, memory, magic>>
  BY DEF SetRate
<1>3. PICK n \in Nat \ {0}, d \in Nat \ {0} :
        n = Reduced(r)[1] /\ d = Reduced(r)[2] /\ Suited(n, d)
  BY SuitedRatio
<1>4. IInv'
  BY SetRateKeeps DEF MInv
<1>5. CASE UpdateFilter(quality, n, d) /\ up' = up
  BY <1>1, <1>3, <1>4, <1>5, ChangeMemory
<1>6. CASE up' = "failed" /\ UNCHANGED <<filt_len, table, kernel, silenced, memory, magic>>
  <2>1. ASSUME NEW c \in Chan
        PROVE  known'[c] \in Nat /\ (~started => known'[c] = 0)
    <3>1. /\ known[c] \in Nat /\ Held(c) \in Nat /\ fed[c] \in Nat
          /\ ~started => known[c] = 0
      <4>1. filt_len \in Nat \ {0} /\ magic[c] \in Nat
        BY <1>1 DEF MInv, IInv, Types, Memory
      <4> QED
        BY <4>1 DEF MInv, IInv, Types, Memory, Rest, Held
    <3>2. known'[c] = Smaller(known[c] + fed[c] - fed[c], Held(c))
      BY <1>1, <1>6 DEF Remember, Held
    <3> QED
      BY <3>1, <3>2 DEF Smaller
  <2>2. known' \in [Chan -> Nat]
    BY <1>1, <2>1 DEF Remember
  <2>3. Memory'
    BY <1>1, <1>6, <2>1 DEF MInv, Memory, memory
  <2> QED
    BY <1>1, <1>6, <2>2, <2>3 DEF MInv, Rest
<1> QED
  BY <1>2, <1>3, <1>5, <1>6

LEMMA ResetMemory == MInv /\ Reset => Memory' /\ Rest'
<1> SUFFICES ASSUME MInv, Reset PROVE Memory' /\ Rest'
  OBVIOUS
<1>1. /\ last' = [c \in Chan |-> 0] /\ magic' = last' /\ known' = last'
      /\ mem' = Clear(mem, 0, Channels * (filt_len - 1)) /\ stale' = Chan \ {0}
      /\ up = "live" /\ pc' = "idle" /\ changes' \in Nat
      /\ UNCHANGED <<up, filt_len, table, kernel, silenced, started, alloc, fed>>
  BY DEF Reset, Changes, setup, call, MInv, Rest
<1>2. /\ filt_len \in Nat \ {0} /\ mem \in Cells(Channels * alloc) /\ alloc \in Nat
      /\ magic \in [Chan -> Nat]
  BY <1>1 DEF MInv, Memory, IInv, Types
<1>3. mem' \in Cells(Channels * alloc)
  BY <1>1, <1>2 DEF Clear, Cells, Cell, Zero
<1>4. known' \in [Chan -> Nat] /\ \A c \in Chan : known'[c] = 0 /\ magic'[c] = 0
  BY <1>1
<1>5. PICK a \in Nat, h \in Nat : a = alloc /\ h = filt_len - 1 /\ h <= a
  <2>1. 0 \in Chan
    BY SizeAssumption DEF Chan
  <2>2. filt_len + 2 * magic[0] - 1 + BufferSize <= alloc /\ magic[0] \in Nat
    BY <1>1, <1>2, <2>1 DEF MInv, IInv, Live, OldLength
  <2> QED
    BY <1>2, <2>2, SizeAssumption
<1>6. ASSUME NEW c \in Chan PROVE Held(c)' = h /\ Holds(c)'
  <2>1. Held(c)' = h
    BY <1>1, <1>2, <1>4, <1>5 DEF Held
  <2>2. \A j \in 0 .. h - 1 : ~(j >= h - known'[c])
    BY <1>4, <1>5
  <2>3. CASE c = 0
    <3>1. PICK N \in Nat, H \in Nat : N = Channels * a /\ H = Channels * h /\ a <= N /\ h <= H
      <4>1. PICK d \in Chan : d = 0
        BY SizeAssumption DEF Chan
      <4>2. PICK N \in Nat : N = Channels * a /\ d * a + a <= N
        BY ChannelCells
      <4>3. PICK H \in Nat : H = Channels * h /\ d * h + h <= H
        BY ChannelCells
      <4> QED
        BY <4>1, <4>2, <4>3
    <3>2. \A j \in 0 .. h - 1 : j \in 0 .. N - 1 /\ j \in 0 .. 0 + H - 1
      BY <1>5, <3>1
    <3>3. DOMAIN mem = 0 .. N - 1
      BY <1>2, <1>5, <3>1 DEF Cells
    <3>4. \A j \in 0 .. h - 1 : mem'[j] = Zero
      BY <1>1, <1>5, <3>1, <3>2, <3>3 DEF Clear
    <3>5. \A j \in 0 .. h - 1 : c * alloc' + j = j
      BY <1>1, <1>2, <2>3
    <3> QED
      BY <2>1, <2>2, <3>4, <3>5 DEF Holds
  <2>4. CASE c # 0
    <3>1. c \in stale'
      BY <1>1, <2>4
    <3> QED
      BY <2>1, <2>2, <3>1 DEF Holds
  <2> QED
    BY <2>1, <2>3, <2>4
<1>7. Memory'
  BY <1>1, <1>2, <1>3, <1>4, <1>5, <1>6 DEF Memory
<1> QED
  BY <1>1, <1>4, <1>7 DEF MInv, Rest

LEMMA DestroyMemory == MInv /\ Destroy => Memory' /\ Rest'
<1> SUFFICES ASSUME MInv, Destroy PROVE Memory' /\ Rest'
  OBVIOUS
<1>1. /\ up' = "gone" /\ table' = 0 /\ kernel' = <<0, 0>> /\ silenced' = FALSE
      /\ started' = FALSE /\ alloc' = 0 /\ mem' = [k \in {} |-> Zero]
      /\ last' = [c \in Chan |-> 0] /\ known' = last' /\ stale' = {} /\ changes' = 0
      /\ pc' = "idle"
  BY DEF Destroy, call
<1>2. mem' \in Cells(Channels * alloc')
  <2>1. Channels * 0 = 0 /\ 0 .. 0 - 1 = {}
    BY SizeAssumption
  <2> QED
    BY <1>1, <2>1 DEF Cells
<1>3. known' \in [Chan -> Nat] /\ \A c \in Chan : known'[c] = 0
  BY <1>1
<1> QED
  BY <1>1, <1>2, <1>3 DEF Memory, Rest

\* Two copies, of the past of the filter and of what is behind it, are one move.
LEMMA TwoCopies ==
  ASSUME NEW N \in Nat, NEW cells \in Cells(N), NEW base \in Nat, NEW u \in Nat,
         NEW l \in Nat, NEW r \in Nat, NEW past, NEW new,
         base + l + u + r <= N,
         past = CopyUp(cells, base + u, base, l),
         new = CopyUp(past, base + l + u, base + l, r)
  PROVE  AreClosed(new, N, cells, base, u, l + r)
<1>1. PICK from \in Nat, to \in Nat, from2 \in Nat :
        from = base + u /\ to = base + l /\ from2 = base + l + u
  OBVIOUS
<1>2. past \in Cells(N) /\ \A k \in 0 .. N - 1 :
        past[k] = IF k \in base .. base + l - 1 THEN cells[k - base + from] ELSE cells[k]
  <2>1. base <= from /\ from + l <= N
    BY <1>1
  <2> QED
    BY <1>1, <2>1, CopyUpMoves
<1>3. new \in Cells(N) /\ \A k \in 0 .. N - 1 :
        new[k] = IF k \in to .. to + r - 1 THEN past[k - to + from2] ELSE past[k]
  <2>1. to <= from2 /\ from2 + r <= N
    BY <1>1
  <2> QED
    BY <1>1, <1>2, <2>1, CopyUpMoves
<1>4. ASSUME NEW k \in 0 .. N - 1
      PROVE  new[k] = IF k \in base .. base + (l + r) - 1 THEN cells[k + u] ELSE cells[k]
  <2>1. CASE k \in to .. to + r - 1
    <3>1. PICK i \in Int : i = k - to + from2 /\ i = k + u
      BY <1>1
    <3>2. i \in 0 .. N - 1 /\ i \notin base .. base + l - 1
      BY <1>1, <2>1, <3>1
    <3>3. new[k] = cells[i]
      BY <1>2, <1>3, <2>1, <3>1, <3>2
    <3>4. k \in base .. base + (l + r) - 1
      BY <1>1, <2>1
    <3> QED
      BY <3>1, <3>3, <3>4
  <2>2. CASE k \in base .. base + l - 1
    <3>1. k \notin to .. to + r - 1 /\ k \in base .. base + (l + r) - 1
      BY <1>1, <2>2
    <3>2. k - base + from = k + u
      BY <1>1
    <3> QED
      BY <1>2, <1>3, <2>2, <3>1, <3>2
  <2>3. CASE k \notin to .. to + r - 1 /\ k \notin base .. base + l - 1
    <3>1. k \notin base .. base + (l + r) - 1
      BY <1>1, <2>3
    <3> QED
      BY <1>2, <1>3, <2>3, <3>1
  <2> QED
    BY <2>1, <2>2, <2>3
<1>5. \A k \in base .. base + (l + r) - 1 : k \in 0 .. N - 1
  OBVIOUS
<1> QED
  BY <1>3, <1>4, <1>5 DEF AreClosed

\* A step of a process call leaves what the other channels hold as it was.
LEMMA OthersHold ==
  ASSUME MInv, up = "live", NEW i \in Chan, NEW c \in Chan, c # i,
         UNCHANGED <<filt_len, alloc, stale>>, Remember,
         magic'[c] = magic[c], fed'[c] = fed[c], Held(c) <= alloc,
         Within(mem', Channels * alloc, mem, i * alloc, alloc)
  PROVE  Holds(c)' /\ known'[c] \in Nat /\ known'[c] <= Held(c)'
<1>1. /\ fed[c] \in Nat /\ known[c] \in Nat /\ alloc \in Nat /\ filt_len \in Nat \ {0}
      /\ magic[c] \in Nat /\ known[c] <= Held(c) /\ Holds(c)
  BY DEF MInv, IInv, Types, Memory, Rest
<1>2. Held(c)' = Held(c) /\ Held(c) \in Nat
  BY <1>1 DEF Held
<1>3. known'[c] = Smaller(known[c], Held(c)')
  <2>1. known'[c] = Smaller(known[c] + fed'[c] - fed[c], Held(c)')
    BY DEF Remember, Held
  <2>2. known[c] + fed'[c] - fed[c] = known[c]
    BY <1>1
  <2> QED
    BY <2>1, <2>2
<1>4. known'[c] \in Nat
  BY <1>1, <1>2, <1>3 DEF Smaller
<1>5. PICK base \in Nat : base = c * alloc
  BY <1>1, ChannelCells
<1>6. Same(mem', mem, base, Held(c))
  <2>1. Same(mem', mem, base, alloc)
    BY <1>1, <1>5, OthersKept
  <2> QED
    BY <1>1, <1>2, <2>1, SamePart
<1>7. Carried(mem', base, Held(c), mem, base, Held(c))
  <2>1. Carried(mem, base, Held(c), mem, base, Held(c))
    BY <1>2, CarriedSelf
  <2> QED
    BY <1>2, <1>6, <2>1, CarriedKept
<1>8. Carried(mem', c * alloc', Held(c)', mem, c * alloc, Held(c))
  BY <1>2, <1>5, <1>7
<1> QED
  BY <1>1, <1>2, <1>3, <1>4, <1>8, HoldsCarried

LEMMA UseMagicMemory == MInv /\ UseMagic => Memory' /\ Rest'
<1> SUFFICES ASSUME MInv, UseMagic PROVE Memory' /\ Rest'
  OBVIOUS
<1>1. /\ up = "live" /\ ch \in Chan /\ alloc \in Nat /\ filt_len \in Nat \ {0} /\ olen \in Nat
      /\ magic \in [Chan -> Nat] /\ fed \in [Chan -> Nat] /\ known \in [Chan -> Nat]
      /\ mem \in Cells(Channels * alloc) /\ \A c \in Chan : known[c] <= Held(c) /\ Holds(c)
      /\ UNCHANGED <<up, filt_len, table, kernel, silenced, alloc, ch, fed, stale, changes>>
      /\ Remember
  BY DEF UseMagic, MInv, IInv, Types, Unused, Memory, Rest, setup
<1>2. PICK n \in 0 .. olen :
        LET m    == magic[ch]
            u    == Used(ch, m, n)
            base == ch * alloc
            past == CopyUp(mem, base + u, base, filt_len - 1)
        IN /\ Native(m, n)
           /\ mem' = CopyUp(past, base + filt_len - 1 + u, base + filt_len - 1, m - u)
           /\ magic' = [magic EXCEPT ![ch] = m - u]
           /\ pc' = IF u = m THEN "input" ELSE "return"
  BY DEF UseMagic
<1> DEFINE used == Used(ch, magic[ch], n)
<1>3. magic[ch] \in Nat /\ ch * alloc \in Nat
  BY <1>1, ChannelCells
<1>4. used \in Nat /\ used <= magic[ch] /\ started'
  BY <1>1, <1>2, <1>3, NativeMoves DEF MInv
<1>5. PICK i \in Chan, m \in Nat, u \in Nat, base \in Nat :
        i = ch /\ m = magic[i] /\ u = used /\ u <= m /\ base = i * alloc
  BY <1>1, <1>3, <1>4
<1>6. PICK past : past = CopyUp(mem, base + u, base, filt_len - 1)
  OBVIOUS
<1>7. /\ i = ch /\ m = magic[i] /\ u <= m /\ base = i * alloc /\ started'
      /\ past = CopyUp(mem, base + u, base, filt_len - 1)
      /\ mem' = CopyUp(past, base + filt_len - 1 + u, base + filt_len - 1, m - u)
      /\ magic' = [magic EXCEPT ![i] = m - u]
      /\ pc' = IF u = m THEN "input" ELSE "return"
  BY <1>2, <1>4, <1>5, <1>6
<1> HIDE DEF used
<1>8. PICK l \in Nat, N \in Nat, r \in Nat :
        /\ l = filt_len - 1 /\ N = Channels * alloc /\ r = m - u
        /\ base + alloc <= N /\ l + m <= alloc
  <2>1. Channels * alloc \in Nat /\ base + alloc <= Channels * alloc
    BY <1>1, <1>7, ChannelCells
  <2>2. filt_len + 2 * m - 1 + BufferSize <= alloc /\ BufferSize \in Nat
    BY <1>1, <1>7, SizeAssumption DEF MInv, IInv, Live, OldLength
  <2> QED
    BY <1>1, <1>7, <2>1, <2>2
<1>9. AreClosed(mem', N, mem, base, u, l + r)
  <2>1. /\ past = CopyUp(mem, base + u, base, l) /\ base + l + u + r <= N
        /\ mem' = CopyUp(past, base + l + u, base + l, r)
    <3>1. base + filt_len - 1 + u = base + l + u /\ base + filt_len - 1 = base + l
      BY <1>1, <1>8
    <3> QED
      BY <1>1, <1>7, <1>8, <3>1
  <2> QED
    BY <1>1, <1>8, <2>1, TwoCopies
<1>10. Within(mem', N, mem, base, alloc) /\ mem' \in Cells(N)
  BY <1>1, <1>8, <1>9 DEF AreClosed, Within
<1>11. /\ magic' \in [Chan -> Nat] /\ magic'[i] = r /\ \A c \in Chan \ {i} : magic'[c] = magic[c]
  BY <1>1, <1>7, <1>8
<1>12. Held(i) = l + m /\ Held(i)' = l + r
  BY <1>1, <1>7, <1>8, <1>11 DEF Held
<1>13. Carried(mem', base, l + r, mem, base, l + m)
  <2>1. \A k \in base .. base + (l + r) - 1 : mem'[k] = mem[k + u]
    BY <1>9 DEF AreClosed
  <2>2. (l + r) - (l + m) = 0 - u
    BY <1>1, <1>7, <1>8
  <2>3. \A k \in base .. base + (0 - u) - 1 : FALSE
    BY <1>1
  <2>4. ASSUME NEW k \in base .. base + (l + r) - 1 PROVE k - base - (0 - u) + base = k + u
    BY <1>1
  <2> QED
    BY <2>1, <2>2, <2>3, <2>4 DEF Carried
<1>14. Holds(i)' /\ known'[i] \in Nat /\ known'[i] <= Held(i)'
  <2>1. known'[i] = Smaller(known[i], Held(i)')
    <3>1. known'[i] = Smaller(known[i] + fed[i] - fed[i], Held(i)')
      BY <1>1 DEF Remember, Held
    <3>2. known[i] + fed[i] - fed[i] = known[i]
      BY <1>1
    <3> QED
      BY <3>1, <3>2
  <2>2. Carried(mem', i * alloc', Held(i)', mem, i * alloc, Held(i))
    BY <1>1, <1>7, <1>12, <1>13
  <2>3. Held(i) \in Nat /\ Held(i)' \in Nat /\ known[i] \in Nat /\ fed[i] \in Nat
    BY <1>1, <1>12
  <2>4. Holds(i)' /\ known'[i] <= Held(i)'
    BY <1>1, <2>1, <2>2, <2>3, HoldsCarried
  <2>5. known'[i] \in Nat
    BY <2>1, <2>3 DEF Smaller
  <2> QED
    BY <2>4, <2>5
<1>15. ASSUME NEW c \in Chan PROVE Holds(c)' /\ known'[c] \in Nat /\ known'[c] <= Held(c)'
  <2>1. CASE c = i
    BY <1>14, <2>1
  <2>2. CASE c # i
    <3>1. Held(c) <= alloc
      <4>1. filt_len + 2 * magic[c] - 1 + BufferSize <= alloc /\ BufferSize \in Nat
        BY <1>1, SizeAssumption DEF MInv, IInv, Live, OldLength
      <4>2. Held(c) = filt_len - 1 + magic[c] /\ magic[c] \in Nat
        BY <1>1 DEF Held
      <4> QED
        BY <1>1, <4>1, <4>2
    <3> QED
      BY <1>1, <1>7, <1>8, <1>10, <1>11, <2>2, <3>1, OthersHold
  <2> QED
    BY <2>1, <2>2
<1>16. known' \in [Chan -> Nat]
  BY <1>1, <1>15 DEF Remember
<1>17. pc' = "input" => magic'[ch'] = 0
  BY <1>1, <1>7, <1>8, <1>11
<1>18. Memory'
  BY <1>1, <1>7, <1>8, <1>10, <1>15, <1>17 DEF Memory
<1> QED
  BY <1>1, <1>7, <1>16, <1>18 DEF MInv, Rest

\* Input of a channel put behind its filter, from the sample after f on.
WithInput(cells, N, base, l, in, c, f) ==
  [k \in 0 .. N - 1 |-> IF k - base \in l .. l - 1 + in
                        THEN <<c, f + (k - base) - l + 1>> ELSE cells[k]]

\* When u samples of it are used, the last l samples stay.
Passed(new, cells, base, u, l, c, f) ==
  \A j \in 0 .. l - 1 :
    new[base + j] = IF u + j < l THEN cells[base + (u + j)] ELSE <<c, f + u - l + 1 + j>>

LEMMA PassMoves ==
  ASSUME NEW N \in Nat, NEW cells \in Cells(N), NEW base \in Nat, NEW u \in Nat,
         NEW l \in Nat, NEW in \in Nat, NEW c \in Nat, NEW f \in Nat, NEW size \in Nat,
         NEW read, NEW new,
         u <= in, l + in <= size, base + size <= N,
         read = WithInput(cells, N, base, l, in, c, f),
         new = CopyUp(read, base + u, base, l)
  PROVE  Within(new, N, cells, base, size) /\ Passed(new, cells, base, u, l, c, f)
<1>1. read \in Cells(N)
  <2>1. ASSUME NEW k \in 0 .. N - 1 PROVE read[k] \in Cell
    <3>1. cells[k] \in Cell
      BY DEF Cells
    <3>2. <<c, f + (k - base) - l + 1>> \in Cell
      BY DEF Cell
    <3> QED
      BY <3>1, <3>2 DEF WithInput
  <2> QED
    BY <2>1 DEF Cells, WithInput
<1>2. PICK from \in Nat : from = base + u /\ base <= from /\ from + l <= N
  OBVIOUS
<1>3. new \in Cells(N) /\ \A k \in 0 .. N - 1 :
        new[k] = IF k \in base .. base + l - 1 THEN read[k - base + from] ELSE read[k]
  <2>1. new = CopyUp(read, from, base, l)
    BY <1>2
  <2>2. N \in Nat /\ from \in Nat /\ base \in Nat /\ l \in Nat
    OBVIOUS
  <2> QED
    BY ONLY <1>1, <1>2, <2>1, <2>2, CopyUpMoves
<1>4. ASSUME NEW k \in 0 .. N - 1, k \notin base .. base + size - 1 PROVE new[k] = cells[k]
  <2>1. k \notin base .. base + l - 1 /\ k - base \notin l .. l - 1 + in
    BY <1>4
  <2> QED
    BY <1>3, <2>1 DEF WithInput
<1>5. ASSUME NEW j \in 0 .. l - 1
      PROVE  new[base + j] = IF u + j < l THEN cells[base + (u + j)]
                             ELSE <<c, f + u - l + 1 + j>>
  <2>1. PICK k \in 0 .. N - 1 : k = base + j /\ k \in base .. base + l - 1
    OBVIOUS
  <2>2. PICK s \in 0 .. N - 1 : s = k - base + from /\ s = base + (u + j)
    BY <1>2, <2>1
  <2>3. new[base + j] = read[s]
    BY <1>3, <2>1, <2>2
  <2>4. CASE u + j < l
    <3>1. s - base \notin l .. l - 1 + in
      BY <2>2, <2>4
    <3> QED
      BY <2>2, <2>3, <2>4, <3>1 DEF WithInput
  <2>5. CASE ~(u + j < l)
    <3>1. s - base \in l .. l - 1 + in /\ f + (s - base) - l + 1 = f + u - l + 1 + j
      BY <2>2, <2>5
    <3> QED
      BY <2>3, <2>5, <3>1 DEF WithInput
  <2> QED
    BY <2>4, <2>5
<1> QED
  BY <1>3, <1>4, <1>5 DEF Within, Passed

LEMMA PassMemory == MInv /\ Pass => Memory' /\ Rest'
<1> SUFFICES ASSUME MInv, Pass PROVE Memory' /\ Rest'
  OBVIOUS
<1>1. /\ up = "live" /\ ch \in Chan /\ alloc \in Nat /\ filt_len \in Nat \ {0} /\ olen \in Nat
      /\ magic \in [Chan -> Nat] /\ fed \in [Chan -> Nat] /\ known \in [Chan -> Nat]
      /\ mem \in Cells(Channels * alloc) /\ \A c \in Chan : known[c] <= Held(c) /\ Holds(c)
      /\ UNCHANGED <<up, filt_len, table, kernel, silenced, alloc, magic, ch, stale, changes>>
      /\ Remember /\ pc = "input" /\ magic[ch] = 0 /\ ilen \in Nat
  BY DEF Pass, MInv, IInv, Types, Unused, Memory, Rest, setup
<1>2. \A c \in Chan : filt_len + 2 * magic[c] - 1 + BufferSize <= alloc /\ BufferSize \in Nat
  BY <1>1, SizeAssumption DEF MInv, IInv, Live, OldLength
<1>3. PICK i \in Chan, l \in Nat, N \in Nat, base \in Nat, f \in Nat, g \in Nat :
        /\ i = ch /\ l = filt_len - 1 /\ N = Channels * alloc /\ base = i * alloc
        /\ f = fed[i] /\ g = known[i] /\ base + alloc <= N /\ l <= alloc
  <2>1. magic[ch] \in Nat
    BY <1>1
  <2>2. /\ Channels * alloc \in Nat /\ ch * alloc \in Nat
        /\ ch * alloc + alloc <= Channels * alloc
    BY <1>1, ChannelCells
  <2>3. filt_len - 1 <= alloc
    BY <1>1, <1>2, <2>1
  <2>4. PICK i \in Chan : i = ch
    BY <1>1
  <2>5. filt_len - 1 \in Nat /\ fed[i] \in Nat /\ known[i] \in Nat
    BY <1>1
  <2> QED
    BY <2>2, <2>3, <2>4, <2>5
<1> DEFINE in == Smaller(ilen, alloc - (filt_len - 1))
           read == [k \in DOMAIN mem |->
                     IF k - ch * alloc \in filt_len - 1 .. filt_len - 2 + in
                     THEN <<ch, fed[ch] + k - ch * alloc - filt_len + 2>> ELSE mem[k]]
<1>4. PICK n \in 0 .. olen :
        /\ Native(in, n)
        /\ mem' = CopyUp(read, ch * alloc + Used(ch, in, n), ch * alloc, filt_len - 1)
        /\ fed' = [fed EXCEPT ![ch] = @ + Used(ch, in, n)]
  BY DEF Pass
<1>5. in \in Nat /\ l + in <= alloc
  BY <1>1, <1>3 DEF Smaller
<1>6. read = WithInput(mem, N, base, l, in, i, f)
  <2>1. DOMAIN mem = 0 .. N - 1
    BY <1>1, <1>3 DEF Cells
  <2>2. filt_len - 1 = l /\ filt_len - 2 + in = l - 1 + in
    BY <1>1, <1>3, <1>5
  <2>3. ASSUME NEW k \in 0 .. N - 1
        PROVE  fed[ch] + k - ch * alloc - filt_len + 2 = f + (k - base) - l + 1
    BY <1>1, <1>3
  <2> QED
    BY <1>3, <2>1, <2>2, <2>3 DEF WithInput
<1> HIDE DEF in, read
<1>7. PICK u \in Nat : u = Used(ch, in, n) /\ u <= in /\ started'
  BY <1>1, <1>4, <1>5, NativeMoves DEF MInv
<1>8. Within(mem', N, mem, base, alloc) /\ Passed(mem', mem, base, u, l, i, f)
  <2>1. mem' = CopyUp(read, base + u, base, l) /\ i \in Nat
    BY <1>3, <1>4, <1>7 DEF Chan
  <2>2. /\ N \in Nat /\ mem \in Cells(N) /\ base \in Nat /\ u \in Nat /\ l \in Nat
        /\ in \in Nat /\ f \in Nat /\ alloc \in Nat /\ u <= in /\ l + in <= alloc
        /\ base + alloc <= N
    BY <1>1, <1>3, <1>5, <1>7
  <2> QED
    BY ONLY <1>6, <2>1, <2>2, PassMoves
<1>9. fed' \in [Chan -> Nat] /\ fed'[i] = f + u /\ \A c \in Chan \ {i} : fed'[c] = fed[c]
  BY <1>1, <1>3, <1>4, <1>7
<1>10. Held(i) = l /\ Held(i)' = l
  BY <1>1, <1>3 DEF Held
<1>11. PICK g1 \in Nat : g1 = known'[i] /\ g1 <= l /\ g <= l
                         /\ (g1 = g + u \/ (g1 = l /\ g + u >= l))
  <2>1. known'[i] = Smaller(known[i] + fed'[i] - fed[i], Held(i)')
    BY <1>1 DEF Remember, Held
  <2>2. known'[i] = Smaller(g + (f + u) - f, l) /\ g <= l
    BY <1>1, <1>3, <1>9, <1>10, <2>1
  <2>3. g + (f + u) - f = g + u
    OBVIOUS
  <2> QED
    BY <2>2, <2>3 DEF Smaller
<1>12. ASSUME NEW j \in 0 .. l - 1
       PROVE  IF j >= l - g1 THEN mem'[base + j] = <<i, f + u - l + 1 + j>>
              ELSE mem'[base + j] = Zero \/ i \in stale
  <2>1. CASE u + j < l
    <3>1. PICK s \in 0 .. l - 1 : s = u + j
      BY <2>1
    <3>2. mem'[base + j] = mem[base + s]
      BY <1>8, <2>1, <3>1 DEF Passed
    <3>3. IF s >= l - g THEN mem[base + s] = <<i, f - l + 1 + s>>
          ELSE mem[base + s] = Zero \/ i \in stale
      <4>1. \A j1 \in 0 .. Held(i) - 1 :
              IF j1 >= Held(i) - known[i] THEN mem[i * alloc + j1] = <<i, fed[i] - Held(i) + 1 + j1>>
              ELSE mem[i * alloc + j1] = Zero \/ i \in stale
        BY <1>1 DEF Holds
      <4> QED
        BY <1>3, <1>10, <4>1
    <3>4. CASE j >= l - g1
      <4>1. s >= l - g
        BY <1>11, <3>1, <3>4
      <4>2. f - l + 1 + s = f + u - l + 1 + j
        BY <3>1
      <4> QED
        BY <3>2, <3>3, <3>4, <4>1, <4>2
    <3>5. CASE ~(j >= l - g1)
      <4>1. ~(s >= l - g)
        BY <1>11, <3>1, <3>5
      <4> QED
        BY <3>2, <3>3, <3>5, <4>1
    <3> QED
      BY <3>4, <3>5
  <2>2. CASE ~(u + j < l)
    <3>1. j >= l - g1
      BY <1>11, <2>2
    <3> QED
      BY <1>8, <2>2, <3>1 DEF Passed
  <2> QED
    BY <2>1, <2>2
<1>13. Holds(i)' /\ known'[i] <= Held(i)' /\ known'[i] \in Nat
  <2>1. \A j \in 0 .. l - 1 :
          IF j >= l - known'[i] THEN mem'[i * alloc' + j] = <<i, fed'[i] - l + 1 + j>>
          ELSE mem'[i * alloc' + j] = Zero \/ i \in stale'
    BY <1>1, <1>3, <1>9, <1>11, <1>12
  <2> QED
    BY <1>10, <1>11, <2>1 DEF Holds
<1>14. ASSUME NEW c \in Chan PROVE Holds(c)' /\ known'[c] \in Nat /\ known'[c] <= Held(c)'
  <2>1. CASE c = i
    BY <1>13, <2>1
  <2>2. CASE c # i
    <3>1. Held(c) <= alloc
      <4>1. Held(c) = filt_len - 1 + magic[c] /\ magic[c] \in Nat
        BY <1>1 DEF Held
      <4> QED
        BY <1>1, <1>2, <4>1
    <3>2. Within(mem', Channels * alloc, mem, i * alloc, alloc)
      BY <1>3, <1>8
    <3> QED
      BY <1>1, <1>9, <2>2, <3>1, <3>2, OthersHold
  <2> QED
    BY <2>1, <2>2
<1>15. known' \in [Chan -> Nat]
  BY <1>1, <1>14 DEF Remember
<1>16. mem' \in Cells(Channels * alloc')
  BY <1>1, <1>3, <1>8 DEF Within
<1>17. Memory'
  BY <1>1, <1>7, <1>14, <1>16 DEF Memory
<1> QED
  BY <1>1, <1>7, <1>15, <1>17 DEF MInv, Rest

-----------------------------------------------------------------------------
LEMMA MemoryStep == MInv /\ [Next]_vars => MInv'
<1>1. MInv => IInv
  BY DEF MInv
<1>2. MInv /\ [Next]_vars => Memory' /\ Rest'
  BY CallMemory, CreateMemory, SetQualityMemory, SetRateMemory, ResetMemory, DestroyMemory,
     UseMagicMemory, PassMemory DEF Next
<1>3. IInv /\ [Next]_vars => IInv'
  BY Step
<1> QED
  BY <1>1, <1>2, <1>3 DEF MInv

LEMMA MemoryTyped == MInv => TypeOK
BY DEF MInv, IInv, Types, Rest, TypeOK

\* However the input is cut, and whatever changes of rate and quality are made, or fail,
\* each channel holds its own last input samples in order behind zeros, in its part of
\* the memory, with room for what is read next.
THEOREM MemoryIsSound == Spec => []MemorySound
<1>1. Spec => []MInv
  BY MemoryInitially, MemoryStep, PTL DEF Spec
<1>2. MInv /\ LookupsFit => MemorySound
  BY MemoryTyped DEF MInv, Memory, MemorySound
<1> QED
  BY <1>1, <1>2, LookupsStayInside, PTL
====
