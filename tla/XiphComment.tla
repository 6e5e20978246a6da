---------------------------- MODULE XiphComment ----------------------------
(***************************************************************************)
(* check_xiph_comment (src/opusinfo.c) with the image parsers of           *)
(* src/picture.c: what opusinfo says of one comment.  A comment is a       *)
(* record with sep (it has a '='), tag (a name and whether it is in        *)
(* capitals, or "unprintable"), and value, the bytes behind the '='.  The  *)
(* value of a METADATA_BLOCK_PICTURE is a record instead:                  *)
(*   chars, eq, bad   its length in characters, and which of them are '='  *)
(*                    and which are no Base64 characters (all are ASCII)   *)
(*   type, media, media_len, desc_len, width, height, depth, colors,       *)
(*   image_len        the fields it declares once decoded                  *)
(*   image            the image itself, by its magic and its parts         *)
(***************************************************************************)
EXTENDS Integers, Sequences, SequencesExt

Byte == 0 .. 255

-----------------------------------------------------------------------------
(* UTF-8.                                                                  *)

\* The length the first byte of a sequence announces, 0 for a wrong marker.
Announced(b) ==
  CASE b \in 0 .. 127   -> 1
    [] b \in 192 .. 223 -> 2
    [] b \in 224 .. 239 -> 3
    [] b \in 240 .. 247 -> 4
    [] b \in 248 .. 251 -> 5
    [] b \in 252 .. 253 -> 6
    [] OTHER -> 0

Continues(b) == b \in 128 .. 191

\* Which second bytes a first byte of three or four allows, as the ranges of the code.
Second(b) ==
  CASE b = 224 -> 160 .. 191
    [] b = 237 -> 128 .. 159
    [] b = 240 -> 144 .. 191
    [] b = 244 -> 128 .. 143
    [] b > 244 -> {}
    [] OTHER   -> 128 .. 191

Legal(v, n) ==
  CASE n = 1 -> TRUE
    [] n = 2 -> v[1] \notin {192, 193} /\ Continues(v[2])
    [] n = 3 -> v[2] \in Second(v[1]) /\ Continues(v[3])
    [] n = 4 -> v[2] \in Second(v[1]) /\ Continues(v[3]) /\ Continues(v[4])
    [] n \in {5, 6} -> FALSE

\* What is said of the first sequence that is not legal.
TextSays[v \in Seq(Byte)] ==
  IF v = <<>> THEN {}
  ELSE LET n == Announced(v[1])
       IN IF n = 0 THEN {"length marker wrong"}
          ELSE IF n > Len(v) THEN {"too few bytes"}
          ELSE IF ~Legal(v, n) THEN {"invalid sequence"}
          ELSE TextSays[SubSeq(v, n + 1, Len(v))]

-----------------------------------------------------------------------------
(* Images: width, height, depth, number of colors and whether there is a    *)
(* palette (-1: not known).                                                 *)

NoParams == [width |-> 0, height |-> 0, depth |-> 0, colors |-> 0, palette |-> -1,
             over |-> FALSE]

SamplesPerPixel == (0 :> 1) @@ (2 :> 3) @@ (4 :> 2) @@ (6 :> 4)

ImageHeader(s, c) ==
  LET sized == [s EXCEPT !.width = c.width, !.height = c.height]
  IN IF c.color_type = 3 THEN [sized EXCEPT !.depth = 24, !.palette = 1]
     ELSE [sized EXCEPT !.colors = 0, !.palette = 0, !.over = TRUE,
             !.depth = IF c.color_type \in DOMAIN SamplesPerPixel
                       THEN c.sample_depth * SamplesPerPixel[c.color_type] ELSE @]

\* One chunk of a PNG; cut: it is longer than the image.
PngChunk(s, c) ==
  IF s.over THEN s
  ELSE IF c.cut THEN [s EXCEPT !.over = TRUE]
  ELSE IF c.name = "IHDR" /\ c.len = 13 THEN ImageHeader(s, c)
  ELSE IF s.palette > 0 /\ c.name = "PLTE"
       THEN [s EXCEPT !.colors = c.len \div 3, !.over = TRUE]
  ELSE s

StartOfFrame(marker) == marker = 192 \/ (marker \in 193 .. 207 /\ marker % 4 # 0)

\* One segment of a JPEG, from its marker on.
JpegSegment(s, c) ==
  IF s.over \/ c.marker \in 208 .. 215 THEN s
  ELSE IF c.marker \in 216 .. 218 \/ c.cut \/ c.len < 2 THEN [s EXCEPT !.over = TRUE]
  ELSE IF ~StartOfFrame(c.marker) THEN s
  ELSE IF c.len < 8 THEN [s EXCEPT !.over = TRUE]
  ELSE [s EXCEPT !.height = c.height, !.width = c.width, !.over = TRUE,
                 !.depth = c.precision * c.components, !.colors = 0, !.palette = 0]

GifParams(c) ==
  IF c.cut THEN NoParams
  ELSE [NoParams EXCEPT !.width = c.width, !.height = c.height, !.depth = 24,
                        !.colors = 2 ^ (c.table_bits + 1), !.palette = 1]

\* The switch over the format: a linked or unknown image has no parameters.
ParamsOf(format, image) ==
  CASE format = "jpeg" -> FoldLeft(JpegSegment, NoParams, image.parts)
    [] format = "png"  -> FoldLeft(PngChunk, NoParams, image.parts)
    [] format = "gif"  -> GifParams(image.parts[1])
    [] OTHER           -> NoParams

-----------------------------------------------------------------------------
(* METADATA_BLOCK_PICTURE.                                                 *)

\* The number of bytes the Base64 text stands for.
DataSize(p) ==
  LET whole == 3 * (p.chars \div 4)
  IN IF whole <= 2 \/ p.chars \notin p.eq THEN whole
     ELSE IF p.chars - 1 \in p.eq THEN whole - 2 ELSE whole - 1

\* A '=' is out of place where data are still to come.
DataBefore(i) == (3 * ((i - 1) \div 4)) + ((i - 1) % 4)
Misplaced(p, i) == i \in p.eq /\ DataBefore(i) < DataSize(p)
Undecodable(p) == \E i \in 1 .. 4 * (p.chars \div 4) : i \in p.bad \/ Misplaced(p, i)

Room(p) == DataSize(p) - 32

\* Icons may be there once each; seen is stream->seen_file_icons.
SeenAfter(seen, p) ==
  IF ~Undecodable(p) /\ Room(p) >= 0 THEN seen \cup ({p.type} \cap {1, 2}) ELSE seen
TypeSays(seen, p) ==
  (IF p.type > 20 THEN {"unknown picture type"} ELSE {})
    \cup (IF p.type \in seen THEN {"duplicate picture type"} ELSE {})

ColorsSet(p) == p.width # 0 \/ p.height # 0 \/ p.depth # 0 \/ p.colors # 0
DimensionSays(p) ==
  IF ColorsSet(p) /\ 0 \in {p.width, p.height, p.depth} THEN {"invalid parameters"} ELSE {}

Named == [media \in {"image/jpeg", "image/png", "image/gif"} |->
            CASE media = "image/jpeg" -> "jpeg"
              [] media = "image/png"  -> "png"
              [] media = "image/gif"  -> "gif"]
Unnamed == {"", "image/"}

\* The image is not what its media type says.
NotAsNamed(p) == p.media \in DOMAIN Named /\ p.image.magic # Named[p.media]
FormatOf(p) == IF p.media \in DOMAIN Named \cup Unnamed THEN p.image.magic ELSE "none"
FormatSays(p) ==
  IF p.media \in Unnamed /\ p.image.magic = "none" THEN {"unknown image format"}
  ELSE IF p.media \notin DOMAIN Named \cup Unnamed \cup {"-->"}
       THEN {"unknown media type"} ELSE {}

\* What is declared against what the image shows.
Mismatches(p, shows) ==
  \/ p.width # 0 /\ p.width # shows.width
  \/ p.height # 0 /\ p.height # shows.height
  \/ p.depth # 0 /\ p.depth # shows.depth
  \/ shows.palette >= 0 /\ ColorsSet(p) /\ p.colors # shows.colors

\* Type 1 is a PNG of 32x32, or a link to one.
BadIcon(p, shows) ==
  IF p.media = "-->"
  THEN (p.width # 0 \/ p.height # 0) /\ <<p.width, p.height>> # <<32, 32>>
  ELSE <<shows.width, shows.height>> # <<32, 32>> \/ FormatOf(p) # "png"

ImageSays(p) ==
  LET shows == ParamsOf(FormatOf(p), p.image)
  IN FormatSays(p)
       \cup (IF FormatOf(p) # "none" /\ shows.palette < 0 THEN {"no parameters"} ELSE {})
       \cup (IF Mismatches(p, shows) THEN {"mismatch"} ELSE {})
       \cup (IF p.type = 1 /\ BadIcon(p, shows) THEN {"invalid icon"} ELSE {})

\* The checks in their order; one that stops is the last to say something.
Note(says) == [stops |-> FALSE, says |-> says]
Stop(when, what) == [stops |-> when, says |-> IF when THEN {what} ELSE {}]
Checks(seen, p) ==
  << Note(IF p.chars % 4 # 0 THEN {"Base64 length"} ELSE {}),
     Stop(Undecodable(p), "illegal Base64"),
     Stop(Room(p) < 0, "not enough data"),
     Note(TypeSays(seen, p)),
     Stop(p.media_len > Room(p), "media type length"),
     Note(IF p.media = "control" THEN {"media type character"} ELSE {}),
     Stop(p.desc_len > Room(p) - p.media_len, "description length"),
     Note(DimensionSays(p)),
     Stop(p.image_len # Room(p) - p.media_len - p.desc_len, "image size"),
     Stop(NotAsNamed(p), "not the image it says"),
     Note(ImageSays(p)) >>

PictureSays(seen, p) ==
  LET checks == Checks(seen, p)
  IN UNION {checks[i].says : i \in {i \in DOMAIN checks : \A j \in 1 .. i - 1 : ~checks[j].stops}}

-----------------------------------------------------------------------------
SameTag(a, b) == a.name = b.name   \* tagcompare: whatever the case

Picture == [name |-> "METADATA_BLOCK_PICTURE", capitals |-> TRUE]

\* A comment without separator or with a bad tag is not looked at any further.
Refused(c) == ~c.sep \/ c.tag.name = "unprintable"

CommentSays(seen, c) ==
  IF ~c.sep THEN {"no separator"}
  ELSE IF Refused(c) THEN {"invalid tag"}
  ELSE IF SameTag(c.tag, Picture) THEN PictureSays(seen, c.value)
  ELSE TextSays[c.value]

IconsAfter(seen, c) ==
  IF ~Refused(c) /\ SameTag(c.tag, Picture) THEN SeenAfter(seen, c.value) ELSE seen
=============================================================================
