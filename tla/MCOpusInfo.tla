----------------------------- MODULE MCOpusInfo -----------------------------
(* OpusInfo on three families of files, told apart by their first page:      *)
(*   mux     up to four pages of three streams, with any flags and gaps;     *)
(*   times   one Opus stream of up to five pages, with every combination of  *)
(*           packets and granule positions;                                  *)
(*   heads   one Opus stream of three pages, with every kind of defect in    *)
(*           the two headers, of the comments and pictures among them.       *)
EXTENDS OpusInfo, TLC

CONSTANTS s1, s2, s3, times, heads

MCSerials  == {s1, s2, s3, times, heads}
Muxed      == {s1, s2, s3}
MCSymmetry == Permutations(Muxed)

Page(serial, jumps, bos, eos, granules, bodies) ==
  [serial : serial, jump : jumps, bos : bos, eos : eos, granulepos : granules, packets : bodies]

-----------------------------------------------------------------------------
(* Comments.                                                               *)

Edges == {65, 127, 128, 143, 144, 159, 160, 191, 192, 255}
Few   == {127, 128, 191, 192}
Texts ==
  {<<>>, <<65, 195, 164>>, <<248, 128, 128, 128, 128>>, <<252, 128, 128, 128, 128, 128>>}
    \cup {<<a>> : a \in Byte}
    \cup {<<a, b>> : a \in 192 .. 225, b \in Edges}
    \cup {<<a, b, c>> : a \in {65} \cup 223 .. 240, b \in Edges, c \in Few}
    \cup {<<a, b, c, d>> : a \in 239 .. 248, b \in Edges, c, d \in Few}

Text(tag, value) == [sep |-> TRUE, len |-> 6 + Len(value), value |-> value,
                     tag |-> [name |-> tag, capitals |-> TRUE]]

IHDR(w, type, cut) == [name |-> "IHDR", len |-> 13, cut |-> cut, width |-> w, height |-> 32,
                       color_type |-> type, sample_depth |-> 8]
Chunk(name, len, cut) == [name |-> name, len |-> len, cut |-> cut]
Marker(m, len, cut) == [marker |-> m, len |-> len, cut |-> cut, width |-> 32, height |-> 32,
                        precision |-> 8, components |-> 3]
Gif(cut) == [cut |-> cut, width |-> 32, height |-> 32, table_bits |-> 1]
Image(magic, parts) == [magic |-> magic, parts |-> parts]

Pngs ==
  {<<>>, <<IHDR(32, 2, TRUE)>>, <<Chunk("IHDR", 12, FALSE)>>,
   <<Chunk("tEXt", 5, FALSE), IHDR(32, 2, FALSE)>>, <<Chunk("tEXt", 5, TRUE), IHDR(32, 2, FALSE)>>}
    \cup {<<IHDR(w, type, FALSE)>> : w \in {32, 2}, type \in {0, 1, 2, 3, 4, 6}}
    \cup {<<IHDR(32, 3, FALSE), Chunk("PLTE", 12, cut)>> : cut \in BOOLEAN}
Jpegs ==
  {<<Marker(224, 16, FALSE), Marker(m, len, FALSE)>> : m \in 192 .. 208, len \in {7, 8, 17}}
    \cup {<<Marker(m, len, cut), Marker(194, 17, FALSE)>>
            : m \in {196, 208, 215, 216, 217, 218, 219}, len \in {1, 2}, cut \in BOOLEAN}
Images == {Image("none", <<>>)} \cup {Image("png", parts) : parts \in Pngs}
            \cup {Image("gif", <<Gif(cut)>>) : cut \in BOOLEAN}
            \cup {Image("jpeg", <<Marker(192, 17, FALSE)>>)}

Medias == {"image/jpeg", "image/png", "image/gif", "-->", "", "image/", "text/html", "control"}
LengthOf == [media \in Medias |-> CASE media = "image/jpeg" -> 10 [] media = "-->" -> 3
                                    [] media = "" -> 0 [] media = "image/" -> 6 [] OTHER -> 9]

\* A block in Base64, as it should be.
Coded(p) ==
  LET size  == 32 + p.media_len + p.desc_len + p.image_len
      chars == 4 * ((size + 2) \div 3)
  IN [p EXCEPT !.chars = chars,
               !.eq = CASE size % 3 = 0 -> {} [] size % 3 = 1 -> {chars - 1, chars}
                        [] size % 3 = 2 -> {chars}]
Block(type, media, image, w, h, depth, colors) ==
  Coded([chars |-> 0, eq |-> {}, bad |-> {}, type |-> type, media |-> media,
         media_len |-> LengthOf[media], desc_len |-> 1, image_len |-> 60, image |-> image,
         width |-> w, height |-> h, depth |-> depth, colors |-> colors])

Good == Block(3, "image/png", Image("png", <<IHDR(32, 2, FALSE)>>), 32, 32, 24, 0)
Blocks ==
  {Block(type, media, image, d[1], d[2], d[3], d[4]) :
     type \in {0, 1, 2, 21}, media \in Medias, image \in Images,
     d \in {<<0, 0, 0, 0>>, <<32, 32, 24, 0>>, <<32, 32, 24, 4>>}}
    \cup {Block(3, "image/jpeg", Image("jpeg", parts), 32, 32, 24, 0) : parts \in Jpegs}
    \cup {Block(type, "image/png", Image("png", <<IHDR(w, 2, FALSE)>>), w1, h1, depth, colors) :
            type \in {1, 20}, w \in {32, 2}, w1 \in {0, 2, 32}, h1 \in {0, 2, 32},
            depth \in {0, 8, 24}, colors \in {0, 4}}
Miscoded ==
  LET n == Good.chars IN
  {[Good EXCEPT !.media_len = m, !.desc_len = d, !.image_len = i] :
     m \in {9, 70, 71, 100}, d \in {0, 1, 2, 61, 62, 100}, i \in {0, 59, 60, 61}}
    \cup {[Good EXCEPT !.chars = n + k, !.eq = eq \cap 1 .. n + k, !.bad = bad \cap 1 .. n + k] :
            k \in -4 .. 4, eq \in SUBSET (n - 3 .. n), bad \in {{}, {n}, {2}, {n + 2}}}
    \cup {[p EXCEPT !.eq = p.chars - k .. p.chars] :
            p \in {Coded([Good EXCEPT !.desc_len = d]) : d \in 1 .. 3}, k \in 0 .. 4}
    \cup {[Good EXCEPT !.chars = k, !.eq = eq \cap 1 .. k] : k \in {0, 3, 4, 40}, eq \in {{}, {3, 4}, {4}}}
PictureOf(p, capitals) == [sep |-> TRUE, len |-> 23 + p.chars, value |-> p,
                           tag |-> [name |-> "METADATA_BLOCK_PICTURE", capitals |-> capitals]]

Comments ==
  {Text("TITLE", value) : value \in Texts} \cup {Text("unprintable", <<>>)}
    \cup {[Text("TITLE", <<>>) EXCEPT !.sep = FALSE]}
    \cup {PictureOf(p, p.type # 2) : p \in Blocks \cup Miscoded}

TagsLength(cs) == FoldLeft(LAMBDA n, c : n + 4 + c.len, 0, cs)
Tagged(cs, spare) == [vendor |-> TRUE, room |-> TagsLength(cs) + spare, comments |-> cs]
Icon(type) == PictureOf([Good EXCEPT !.type = type], TRUE)
Pairs == {<<Text("TITLE", <<65>>), Text("TITLE", <<66>>)>>}
           \cup {<<Icon(type1), Icon(type2)>> : type1, type2 \in 1 .. 3}
AllTags ==
  {Tagged(<<c>>, 0) : c \in Comments}
    \cup {Tagged(cs, spare) : cs \in Pairs \cup {<<>>}, spare \in 0 .. 3}
    \cup {Tagged(cs, -spare) : cs \in Pairs, spare \in {1, 4, 7, 11, 14}}
    \cup {[Tagged(<<>>, 0) EXCEPT !.vendor = FALSE]}

TagsPacket(tags) == [kind |-> "tags", n |-> 1, tags |-> tags]
GoodTags == TagsPacket(Tagged(<<>>, 0))

-----------------------------------------------------------------------------
(* Headers.                                                                *)

HeaderPacketOf(header) == [kind |-> "head", n |-> 1, header |-> header]
GoodHeader == [cut |-> FALSE, version |-> 1, channels |-> 2, preskip |-> 1, mapping |-> 0,
               tail |-> <<>>]
Zeros(n) == [i \in 1 .. n |-> 0]
Tails ==
  {<<>>, <<1>>, <<1, 0>>, <<1, 0, 0, 0, 0>>, <<0, 0, 0, 0>>, <<1, 2, 0, 1>>,
   <<128, 128, 0, 1>>, <<128, 127, 254, 255>>, <<2, 1, 0, 1, 3>>}
    \cup {<<1, 1, a, b>> : a, b \in {0, 2, 3, 255}}
    \cup {<<1, m>> \o Zeros(n) : m \in {0, 1}, n \in {2, 3, 4, 7, 8, 9}}
AllHeaders ==
  [cut : {FALSE}, version : {0, 2, 15, 16}, channels : 0 .. 4 \cup {9}, preskip : {1},
   mapping : {0, 1, 3}, tail : Tails]
    \cup {[GoodHeader EXCEPT !.cut = TRUE], [GoodHeader EXCEPT !.preskip = 0]}

-----------------------------------------------------------------------------
(* The three families.                                                     *)

A(n) == [kind |-> "audio", n |-> n]
Bad  == [kind |-> "bad", n |-> 1]
Head1 == HeaderPacketOf(GoodHeader)

Plain == {<<Bad>>}
Odd   == {<<>>, <<Bad, Bad>>, <<Head1>>}
MuxBodies == <<Plain \cup Odd, Plain \cup {<<Head1>>}, Plain, Plain>>
MuxPages(n, jumps) ==
  IF n > 4 THEN {}
  ELSE Page(Muxed, jumps, BOOLEAN, BOOLEAN, {0}, MuxBodies[n])

TimePages(n) ==
  CASE n = 1 -> Page({times}, {0}, {TRUE}, {FALSE}, {0}, {<<Head1>>})
    [] n = 2 -> Page({times}, {0}, {FALSE}, {FALSE}, {0},
                     {<<GoodTags>>, <<>>, <<GoodTags, A(1)>>})
    [] n = 3 -> Page({times}, {0}, {FALSE}, BOOLEAN, -1 .. 4,
                     {<<>>, <<A(2), A(1)>>, <<GoodTags>>, <<Bad>>})
    [] n = 4 -> Page({times}, {0}, {FALSE}, BOOLEAN, -1 .. 7,
                     {<<>>, <<A(1)>>, <<A(1), A(2)>>, <<A(1), A(3)>>})
    [] n = 5 -> Page({times}, {0}, {FALSE}, BOOLEAN, {-1} \cup 3 .. 8, {<<>>, <<A(1), A(1)>>})
    [] OTHER -> {}

HeadPages(ps) ==
  CASE ps = <<>> -> Page({heads}, {0}, {TRUE}, {FALSE}, {0},
                         {<<HeaderPacketOf(h)>> : h \in AllHeaders \cup {GoodHeader}})
    [] Len(ps) = 1 -> Page({heads}, {0}, {FALSE}, {FALSE}, {0},
                           IF ps[1].packets = <<Head1>> THEN {<<TagsPacket(t)>> : t \in AllTags}
                                                        ELSE {<<GoodTags>>})
    [] Len(ps) = 2 -> Page({heads}, {0}, {FALSE}, {TRUE}, {2}, {<<A(2)>>})
    [] OTHER -> {}

MCNextPages(ps) ==
  IF ps = <<>> THEN MuxPages(1, {0, 1}) \cup TimePages(1) \cup HeadPages(ps)
  ELSE CASE ps[1].serial \in Muxed -> MuxPages(Len(ps) + 1, IF Len(ps) < 3 THEN {0, 1} ELSE {0})
         [] ps[1].serial = times   -> TimePages(Len(ps) + 1)
         [] ps[1].serial = heads   -> HeadPages(ps)
MCMuxPages(ps) == MuxPages(Len(ps) + 1, {0, 1})

MCMayHole(ps) == ps # <<>> /\ ps[1].serial \in Muxed
NoHole(ps) == FALSE
=============================================================================
