---------------------------- MODULE CommentRules ----------------------------
(***************************************************************************)
(* What well-formed Opus headers are, said without reference to how        *)
(* opusinfo goes through them: RFC 7845 for the packets, RFC 3629 for      *)
(* UTF-8, RFC 4648 for Base64, RFC 8486 for the channels of ambisonics and *)
(* the FLAC format for pictures.  The records are those of OpusHeader and  *)
(* XiphComment.  The rules take a set `but` of deviations: {} for what the *)
(* formats say, Deviations for what opusinfo tells from it.  The text of a *)
(* picture's description and the address of a link are not in the records: *)
(* opusinfo does not look at them (opusinfo.c:405, 481).                   *)
(***************************************************************************)
EXTENDS Integers, Sequences, FiniteSets, SequencesExt

\* Where opusinfo departs from the formats.  Overlooked:
\*   table      a channel mapped to one more than the last decoded channel
\*              (opus_header.c:182 has > for >=)
\*   channels   more channels than the mapping family knows
\*   padding    three '=' at the end of a Base64 text
\* and false alarms:
\*   link       a linked picture whose size is declared: nothing is shown of a link,
\*              so that what is declared never matches (opusinfo.c:535-562), the
\*              32x32 of an icon that 563-566 let pass among them
\*   media      a picture that is no JPEG, PNG or GIF and does not say it is one
Deviations == {"table", "channels", "padding", "link", "media"}

\* RFC 7845, 5.1, and RFC 8486 for families 2 and 3.
Tables(h, but) ==
  LET decoded == h.tail[1] + h.tail[2]
  IN [1 .. h.channels -> 0 .. (IF "table" \in but THEN decoded ELSE decoded - 1) \cup {255}]
ChannelsOf(mapping) ==
  CASE mapping = 0        -> {1, 2}
    [] mapping = 1        -> 1 .. 8
    [] mapping \in {2, 3} -> {((n + 1) ^ 2) + (2 * j) : n \in 0 .. 14, j \in {0, 1}}
    [] OTHER              -> 1 .. 255
HeadGood(h, but) ==
  LET known == h.version \in {0, 1}   \* later ones may append what they like
      table == SubSeq(h.tail, 3, Len(h.tail))
  IN /\ ~h.cut /\ h.version \in 0 .. 15 /\ h.channels > 0
     /\ h.channels \in ChannelsOf(h.mapping) \/ ("channels" \in but /\ h.mapping # 0)
     /\ CASE h.mapping = 0 -> known => h.tail = <<>>
          [] h.mapping # 0 ->
               /\ Len(h.tail) >= 2
               /\ 0 < h.tail[1] /\ h.tail[2] <= h.tail[1] /\ h.tail[1] + h.tail[2] < 256
               /\ IF h.mapping = 3
                  THEN LET matrix == 2 * h.channels * (h.tail[1] + h.tail[2])
                       IN Len(table) = matrix \/ (~known /\ Len(table) > matrix)
                  ELSE /\ Len(table) = h.channels \/ (~known /\ Len(table) > h.channels)
                       /\ SubSeq(table, 1, h.channels) \in Tables(h, but)

\* RFC 3629: a text is a sequence of code points, each in its one shortest encoding.
Scalar(cp) == cp \in 0 .. 1114111 /\ cp \notin 55296 .. 57343
Encode(cp) ==
  LET tail(k) == 128 + ((cp \div (64 ^ k)) % 64)
  IN CASE cp \in 0 .. 127        -> <<cp>>
       [] cp \in 128 .. 2047     -> <<192 + (cp \div 64), tail(0)>>
       [] cp \in 2048 .. 65535   -> <<224 + (cp \div (64 ^ 2)), tail(1), tail(0)>>
       [] OTHER -> <<240 + (cp \div (64 ^ 3)), tail(2), tail(1), tail(0)>>
Bits(s) ==
  LET first == s[1] % (IF Len(s) = 1 THEN 256 ELSE 2 ^ (7 - Len(s)))
  IN FoldLeft(LAMBDA cp, b : (64 * cp) + (b % 64), first, Tail(s))
Utf8[v \in Seq(0 .. 255)] ==
  v = <<>> \/ \E n \in 1 .. 4 :
    /\ n <= Len(v)
    /\ LET s == SubSeq(v, 1, n) IN Scalar(Bits(s)) /\ Encode(Bits(s)) = s
    /\ Utf8[SubSeq(v, n + 1, Len(v))]

\* At most two characters of padding, at the very end and nowhere else.
Base64Good(p, but) ==
  /\ p.chars % 4 = 0 /\ p.bad = {}
  /\ \E n \in 0 .. (IF "padding" \in but THEN 3 ELSE 2) : p.eq = p.chars - n + 1 .. p.chars
Bytes(p) == (3 * (p.chars \div 4)) - (IF Cardinality(p.eq) > 2 THEN 2 ELSE Cardinality(p.eq))

\* The parameters a picture shows, {} when it is damaged before they are reached.
FirstOfKind(parts, Is(_), Ends(_)) ==
  {i \in DOMAIN parts : Is(parts[i]) /\ \A j \in 1 .. i - 1 : ~Is(parts[j]) /\ ~Ends(parts[j])}
PngShows(parts) ==
  LET cut(c) == c.cut
      head   == FirstOfKind(parts, LAMBDA c : c.name = "IHDR" /\ c.len = 13 /\ ~c.cut, cut)
      plte   == FirstOfKind(parts, LAMBDA c : c.name = "PLTE" /\ ~c.cut, cut)
      late   == \A i \in head, k \in plte : i < k
      planes(t) == CASE t = 0 -> 1 [] t = 2 -> 3 [] t = 4 -> 2 [] t = 6 -> 4 [] OTHER -> 0
  IN {LET c == parts[i] IN
      [width |-> c.width, height |-> c.height,
       depth |-> IF c.color_type = 3 THEN 24 ELSE c.sample_depth * planes(c.color_type),
       colors |-> IF c.color_type = 3 /\ plte # {} /\ late
                  THEN parts[CHOOSE k \in plte : TRUE].len \div 3 ELSE 0] : i \in head}
JpegShows(parts) ==
  LET sof(c)  == c.marker \in {192, 193, 194, 195, 197, 198, 199, 201, 202, 203, 205, 206, 207}
      ends(c) == c.marker \in 216 .. 218 \/ (c.marker \notin 208 .. 215 /\ (c.cut \/ c.len < 2))
  IN {[width |-> parts[i].width, height |-> parts[i].height,
       depth |-> parts[i].precision * parts[i].components, colors |-> 0]
        : i \in {i \in FirstOfKind(parts, sof, ends) : ~ends(parts[i]) /\ parts[i].len >= 8}}
GifShows(c) ==
  {[width |-> c.width, height |-> c.height, depth |-> 24, colors |-> 2 ^ (c.table_bits + 1)]
     : x \in {c} \ {y \in {c} : y.cut}}
Shows(image) ==
  CASE image.magic = "png"  -> PngShows(image.parts)
    [] image.magic = "jpeg" -> JpegShows(image.parts)
    [] image.magic = "gif"  -> GifShows(image.parts[1])
    [] image.magic = "none" -> {}

\* The FLAC picture block: either all parameters are declared, and then truly, or
\* none is; an icon of type 1 is a PNG of 32x32.  Of a link, or of an image in a
\* format that is none of the three, nothing is known but what is declared.
Blank(p) == {p.width, p.height, p.depth, p.colors} = {0}
Declared(p) == [width |-> p.width, height |-> p.height, depth |-> p.depth, colors |-> p.colors]
Kinds == ("image/jpeg" :> {"jpeg"}) @@ ("image/png" :> {"png"}) @@ ("image/gif" :> {"gif"})
           @@ ("" :> {"jpeg", "png", "gif"}) @@ ("image/" :> {"jpeg", "png", "gif"})
Complete(p) == Blank(p) \/ 0 \notin {p.width, p.height, p.depth}
Foreign(p) == p.media = "text/html" \/ (p.media \in {"", "image/"} /\ p.image.magic = "none")
LinkGood(p, but) ==
  IF "link" \in but THEN Blank(p)
  ELSE Complete(p) /\ (p.type = 1 /\ ~Blank(p) => <<p.width, p.height>> = <<32, 32>>)
ForeignGood(p, but) == "media" \notin but /\ Complete(p) /\ p.type # 1
ShownGood(p) ==
  /\ p.media \in DOMAIN Kinds /\ p.image.magic \in Kinds[p.media]
  /\ \E s \in Shows(p.image) :
       /\ Blank(p) \/ (Complete(p) /\ Declared(p) = s)
       /\ p.type = 1 => p.image.magic = "png" /\ <<s.width, s.height>> = <<32, 32>>
PictureGood(p, but) ==
  /\ Base64Good(p, but)
  /\ p.type \in 0 .. 20
  /\ Bytes(p) = 32 + p.media_len + p.desc_len + p.image_len
  /\ CASE p.media = "-->" -> LinkGood(p, but)
       [] Foreign(p)       -> ForeignGood(p, but)
       [] OTHER            -> ShownGood(p)

PictureNames == {"METADATA_BLOCK_PICTURE"}
IsPicture(c) == c.tag.name \in PictureNames
CommentGood(c, but) ==
  /\ c.sep /\ c.tag.name # "unprintable"
  /\ IF IsPicture(c) THEN PictureGood(c.value, but) ELSE Utf8[c.value]

\* RFC 7845, 5.2: the comments lie inside the packet, and each kind of icon is there
\* at most once.
TagsGood(t, but) ==
  /\ t.vendor
  /\ FoldLeft(LAMBDA n, c : n + 4 + c.len, 0, t.comments) <= t.room
  /\ \A c \in Range(t.comments) : CommentGood(c, but)
  /\ \A i, j \in DOMAIN t.comments :
       LET icon(k) == IsPicture(t.comments[k]) /\ t.comments[k].value.type \in {1, 2}
       IN i # j /\ icon(i) /\ icon(j) => t.comments[i].value.type # t.comments[j].value.type
=============================================================================
