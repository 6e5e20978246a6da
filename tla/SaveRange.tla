----------------------------- MODULE SaveRange -----------------------------
(* What --save-range records: opusenc's packet_callback and opusdec's        *)
(* decode_cb hand every packet to save_range (src/diag_range.c), which cuts  *)
(* it into the packets of its streams and prints the frame sizes of each.    *)
(* The two programs run one after the other on one file; the two logs are    *)
(* compared line by line to find out where a decoder diverges.               *)
(*                                                                           *)
(* libopus lays out packets as RFC 6716, section 3 and appendix B, have it.  *)
(* A stream of a packet is                                                   *)
(*   [config, stereo, code, vbr, padded, pad, sizes]                         *)
(* where vbr and padded matter for code 3 only, and pad is the number of     *)
(* bytes at the end that the padding length announces.                       *)
EXTENDS Integers, Sequences, SequencesExt

CONSTANTS
  Files,   \* sequences of packets, each a sequence of streams, all of one number
  Header   \* the bytes of OpusHead and OpusTags that matter: the first two

VARIABLES
  pc,       \* "headers", "encode", "decode"
  file,     \* the packets that will be encoded
  data,     \* EncData: the counters of opusenc
  enclog,   \* frange of opusenc, a record per packet
  decoded,  \* packets seen by decode_cb
  declog    \* frange of opusdec; packet and lost are history

vars == <<pc, file, data, enclog, decoded, declog>>

-----------------------------------------------------------------------------
(* libopus.                                                                *)

Sum(s) == FoldLeft(+, 0, s)
Copies(n, x) == [i \in 1 .. n |-> x]

\* opus_packet_get_samples_per_frame, at 48 kHz.
SamplesPerFrame(toc) ==
  LET size == (toc \div 8) % 4
  IN CASE toc >= 128              -> 120 * 2 ^ size
       [] toc >= 96 /\ toc < 128  -> 480 * (1 + (size % 2))
       [] toc < 96                -> IF size = 3 THEN 2880 ELSE 480 * 2 ^ size

\* opus_packet_get_nb_samples; negative for what cannot be audio.
NbSamples(d) ==
  LET count == CASE d[1] % 4 = 0 -> 1
                 [] d[1] % 4 = 3 -> d[2] % 64
                 [] OTHER        -> 2
      n == count * SamplesPerFrame(d[1])
  IN IF n > 5760 THEN -4 ELSE n

SizeBytes(n) == IF n < 252 THEN <<n>> ELSE <<252 + (n % 4), (n - 252) \div 4>>
PadBytes(n)  == Copies(n \div 254, 255) \o <<n % 254>>

\* What comes before the frames of stream s; all streams but the last of a packet
\* are self-delimited.
Framing(s, delimited) ==
  LET n    == Len(s.sizes)
      each == IF s.code = 2 \/ (s.code = 3 /\ s.vbr) THEN SubSeq(s.sizes, 1, n - 1) ELSE <<>>
      toc  == 8 * s.config + (IF s.stereo THEN 4 ELSE 0) + s.code
  IN <<toc>>
     \o (IF s.code # 3 THEN <<>>
         ELSE <<n + (IF s.vbr THEN 128 ELSE 0) + (IF s.padded THEN 64 ELSE 0)>>
              \o (IF s.padded THEN PadBytes(s.pad) ELSE <<>>))
     \o FlattenSeq([i \in 1 .. Len(each) |-> SizeBytes(each[i])])
     \o (IF delimited THEN SizeBytes(s.sizes[n]) ELSE <<>>)

\* The bytes of packet p; frames and padding are filled with 3s and 0s.
Bytes(p) ==
  FlattenSeq([i \in 1 .. Len(p) |->
    Framing(p[i], i # Len(p)) \o Copies(Sum(p[i].sizes), 3)
      \o (IF p[i].code = 3 /\ p[i].padded THEN Copies(p[i].pad, 0) ELSE <<>>)])

\* The final state of the range coder after stream i of packet k; 0 after a loss.
FinalRange(k, i) == <<k, i>>
NoRange == <<0, 0>>

-----------------------------------------------------------------------------
(* opus_packet_parse_impl, on the bytes d that are left of the packet: how   *)
(* it is framed, and how far the sizes of its frames have been read.         *)

Byte    == 0 .. 255
Opened  == [ok : BOOLEAN, count : 0 .. 63, cbr : BOOLEAN, data : Nat, len : Int, pad : Nat]
Reading == [ok : BOOLEAN, data : Nat, len : Int, last : Int, size : Seq(Int)]

\* parse_size, when k bytes have been used and len may be.
ParseSize(d, k, len) ==
  CASE len >= 1 /\ d[k + 1] < 252  -> [bytes |-> 1, size |-> d[k + 1]]
    [] len >= 2 /\ d[k + 1] >= 252 -> [bytes |-> 2, size |-> 4 * d[k + 2] + d[k + 1]]
    [] OTHER                       -> [bytes |-> -1, size |-> -1]

\* The number of padding-length bytes of 255 in d, of those in sight; each stands for
\* 254 bytes of padding and another byte to read.
PaddingRuns(d) == {j \in 0 .. (Len(d) - 3) \div 255 : d[3 + j] # 255}

\* The number of frames, and what a TOC byte, a frame count and a padding length use
\* up.
Opening[d \in Seq(Byte)] ==
  LET Open(ok, count, cbr, used, padding) ==
        [ok |-> ok /\ Len(d) - used - padding >= 0, count |-> count, cbr |-> cbr,
         data |-> used, len |-> Len(d) - used - padding, pad |-> padding]
      Many(used, padding) ==
        LET count == d[2] % 64
        IN Open(count > 0 /\ SamplesPerFrame(d[1]) * count <= 5760, count, d[2] < 128, used, padding)
      code == d[1] % 4
      None == Open(FALSE, 0, FALSE, 1, 0)
  IN CASE code = 0 -> Open(TRUE, 1, FALSE, 1, 0)
       [] code = 1 -> Open(TRUE, 2, TRUE, 1, 0)
       [] code = 2 -> Open(TRUE, 2, FALSE, 1, 0)
       [] code = 3 /\ Len(d) < 2 -> None
       [] code = 3 /\ Len(d) >= 2 ->
            IF (d[2] \div 64) % 2 = 0 THEN Many(2, 0)
            ELSE IF PaddingRuns(d) = {} THEN None
            ELSE LET k == Min(PaddingRuns(d)) IN Many(3 + k, 254 * k + d[3 + k])

\* One more size read in state s; last is what remains for the last frame.
NextSize[d \in Seq(Byte), s \in Reading] ==
  LET z == ParseSize(d, s.data, s.len)
  IN IF ~s.ok THEN s
     ELSE IF z.size < 0 \/ z.size > s.len - z.bytes THEN [s EXCEPT !.ok = FALSE]
     ELSE [s EXCEPT !.data = @ + z.bytes, !.len = @ - z.bytes,
                    !.last = @ - z.bytes - z.size, !.size = Append(@, z.size)]

NextSizes[d \in Seq(Byte), s \in Reading, n \in 0 .. 47] ==
  IF n = 0 THEN s ELSE NextSize[d, NextSizes[d, s, n - 1]]

\* The sizes of all frames but the last, which one size stands for if they are equal.
LeadingSizes[d \in Seq(Byte), o \in Opened, delimited \in BOOLEAN] ==
  LET s    == [ok |-> o.ok, data |-> o.data, len |-> o.len, last |-> o.len, size |-> <<>>]
      each == o.len \div o.count
  IN CASE ~o.ok \/ (o.cbr /\ delimited) -> s
       [] o.ok /\ ~o.cbr -> NextSizes[d, s, o.count - 1]
       [] o.ok /\ o.cbr /\ ~delimited ->
            [s EXCEPT !.ok = each * o.count = o.len, !.last = each,
                      !.size = Copies(o.count - 1, each)]

\* And of the last one, which is explicit only in a self-delimited packet.
LastSize[d \in Seq(Byte), o \in Opened, s \in Reading, delimited \in BOOLEAN] ==
  LET z == NextSize[d, s]
  IN CASE ~s.ok \/ s.last < 0 \/ (delimited /\ ~z.ok) -> [s EXCEPT !.ok = FALSE]
       [] OTHER ->
            IF ~delimited THEN [s EXCEPT !.ok = s.last <= 1275, !.size = Append(@, s.last)]
            ELSE IF ~o.cbr THEN [z EXCEPT !.ok = z.last >= 0]
            ELSE [z EXCEPT !.ok = z.size[1] * o.count <= z.len, !.size = Copies(o.count, z.size[1])]

M_PacketOffset(pad, used, size) == used + Sum(size)
PacketOffset(pad, used, size) == pad + used + Sum(size)

\* The sizes, where the frames begin and where the next packet does; nothing when the
\* packet is no good.
Parse[d \in Seq(Byte), delimited \in BOOLEAN] ==
  LET o == Opening[d]
      s == LastSize[d, o, LeadingSizes[d, o, delimited], delimited]
  IN IF d = <<>> \/ ~s.ok THEN [nf |-> -4, size |-> <<>>, payload |-> 0, offset |-> 0]
     ELSE [nf |-> o.count, size |-> s.size, payload |-> s.data,
           offset |-> PacketOffset(o.pad, s.data, s.size)]

-----------------------------------------------------------------------------
(* save_range.                                                             *)

\* The index into mode_strings: (((toc >> 3) + 48) & 92) + 4 >> 5.
ModeIndex(toc) ==
  LET x == (toc \div 8) + 48
  IN (64 * ((x \div 64) % 2) + 4 * ((x \div 4) % 8) + 4) \div 32

\* What is left of packet d before each of its n streams.
Subpackets(d, n) ==
  LET subpkt[i \in 1 .. n] ==
        IF i = 1 THEN d
        ELSE SubSeq(subpkt[i - 1], Parse[subpkt[i - 1], TRUE].offset + 1, Len(subpkt[i - 1]))
  IN subpkt

\* The line for packet d with the final ranges of its streams.
SaveRangeLine(frame_size, d, rngs) ==
  LET n == Len(rngs)
      Part(subpkt, parsed, range) ==
        [payload |-> parsed.payload, size |-> parsed.size, mode |-> ModeIndex(subpkt[1]),
         stereo |-> (subpkt[1] \div 4) % 2 = 1, frame |-> SamplesPerFrame(subpkt[1]),
         range |-> range]
  IN [frame_size |-> frame_size, nbBytes |-> Len(d),
      streams |-> [i \in 1 .. n |->
        Part(Subpackets(d, n)[i], Parse[Subpackets(d, n)[i], i # n], rngs[i])]]

-----------------------------------------------------------------------------
(* The two programs.                                                       *)

Larger(a, b)  == IF a > b THEN a ELSE b
Smaller(a, b) == IF a < b THEN a ELSE b

Init ==
  /\ pc = "headers" /\ file \in Files
  /\ data = [total_bytes |-> 0, nb_encoded |-> 0, packets_out |-> 0,
             peak_bytes |-> 0, min_bytes |-> 256 * 1275 * 6, last_length |-> 0]
  /\ enclog = <<>> /\ decoded = 0 /\ declog = <<>>

\* packet_callback for packet d; k is the number of the packet among those of audio.
PacketCallback(d, k) ==
  LET n == NbSamples(d)
      streams == Len(file[1])
  IN IF n <= 0 THEN UNCHANGED <<data, enclog>>
     ELSE /\ data' = [total_bytes |-> data.total_bytes + Len(d),
                      nb_encoded  |-> data.nb_encoded + n,
                      packets_out |-> data.packets_out + 1,
                      peak_bytes  |-> Larger(Len(d), data.peak_bytes),
                      min_bytes   |-> Smaller(Len(d), data.min_bytes),
                      last_length |-> Len(d)]
          /\ enclog' = Append(enclog, SaveRangeLine(n, d, [i \in 1 .. streams |-> FinalRange(k, i)]))

\* libopusenc passes the two header packets, which begin alike, to the callback as well.
EncodeHeaders ==
  /\ pc = "headers" /\ pc' = "encode"
  /\ PacketCallback(Header, 0)
  /\ UNCHANGED <<file, decoded, declog>>

EncodePacket ==
  /\ pc = "encode" /\ Len(enclog) < Len(file)
  /\ LET k == Len(enclog) + 1 IN \E d \in {Bytes(file[k])} : PacketCallback(d, k)
  /\ UNCHANGED <<pc, file, decoded, declog>>

EncodeEnds ==
  /\ pc = "encode" /\ Len(enclog) = Len(file) /\ pc' = "decode"
  /\ UNCHANGED <<file, data, enclog, decoded, declog>>

\* decode_cb: the packet may be withheld from the decoder (--packet-loss), which
\* conceals it, or turns out the whole frame, a part of it, or an error.
DecodePacket ==
  /\ pc = "decode" /\ decoded < Len(file) /\ decoded' = decoded + 1
  /\ LET k == decoded + 1
     IN \E d \in {Bytes(file[k])}, lost \in BOOLEAN, whole \in BOOLEAN :
          IF ~whole THEN UNCHANGED declog
          ELSE declog' = Append(declog,
                 [packet |-> k, lost |-> lost,
                  line |-> SaveRangeLine(NbSamples(d), d,
                             [i \in 1 .. Len(file[k]) |-> IF lost THEN NoRange ELSE FinalRange(k, i)])])
  /\ UNCHANGED <<pc, file, data, enclog>>

Next == EncodeHeaders \/ EncodePacket \/ EncodeEnds \/ DecodePacket

Spec == Init /\ [][Next]_vars

-----------------------------------------------------------------------------
(* Properties.                                                             *)

ModeOf(config) == CASE config < 12 -> 0 [] config \in 12 .. 15 -> 1 [] config >= 16 -> 2

\* Line says of packet p what went into it, with the ranges rngs.
Describes(line, p, rngs) ==
  /\ line.nbBytes = Len(Bytes(p))
  /\ line.frame_size = Len(p[1].sizes) * SamplesPerFrame(8 * p[1].config)
  /\ Len(line.streams) = Len(p)
  /\ \A i \in 1 .. Len(p) :
       LET s == line.streams[i]
       IN /\ s.payload = Len(Framing(p[i], i # Len(p))) /\ s.size = p[i].sizes
          /\ s.mode = ModeOf(p[i].config) /\ s.stereo = p[i].stereo
          /\ s.range = rngs[i]

CountersExact ==
  LET lengths == [i \in 1 .. Len(enclog) |-> Len(Bytes(file[i]))]
  IN /\ data.packets_out = Len(enclog) /\ data.total_bytes = Sum(lengths)
     /\ data.packets_out > 0 =>
          /\ \A i \in DOMAIN lengths : data.min_bytes <= lengths[i] /\ lengths[i] <= data.peak_bytes
          /\ {data.min_bytes, data.peak_bytes} \subseteq {lengths[i] : i \in DOMAIN lengths}
          /\ data.last_length = lengths[Len(lengths)]

EncoderLogExact ==
  \A k \in 1 .. Len(enclog) :
    Describes(enclog[k], file[k], [i \in 1 .. Len(file[k]) |-> FinalRange(k, i)])

DecoderLogExact ==
  \A j \in 1 .. Len(declog) :
    LET e == declog[j]
    IN Describes(e.line, file[e.packet],
         [i \in 1 .. Len(file[e.packet]) |-> IF e.lost THEN NoRange ELSE FinalRange(e.packet, i)])

\* What opusenc counts and what both programs log is what libopus put into the
\* packets: headers are not counted, every stream is found where the one before it
\* ends, whatever its framing and padding, each frame with its size, and the log of
\* a decoder differs from that of the encoder only where a packet was lost.
\* (src/diag_range.c save_range, src/opusenc.c packet_callback, src/opusdec.c decode_cb)
ReportsExact == CountersExact /\ EncoderLogExact /\ DecoderLogExact
=============================================================================
