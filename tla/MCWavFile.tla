----------------------------- MODULE MCWavFile -----------------------------
(* WavFile with samples of 4 bytes.  Lengths above 16 and below 44 are       *)
(* trusted, and 72 does not fit any more.  Files of other programs have a    *)
(* chunk of odd length before the format, behind it, or neither, and another *)
(* one at the end; they are complete or cut off.  In AIFF files the sound    *)
(* comes behind the common chunk, before it, or both.                        *)
EXTENDS WavFile, Sequences

LOCAL FE == INSTANCE FiniteSetsExt

\* Chunk c behind chunk b in a file.
After(b, type, length, ok) == Chunk(type, b.at + 8 + b.len + (b.len % 2), length, ok)

MCWaves ==
  {LET a == Chunk("LIST", 12, 3, TRUE)
       f == IF before THEN After(a, "fmt", fmt, fmt # 18) ELSE Chunk("fmt", 12, fmt, fmt # 18)
       m == After(f, "LIST", 5, TRUE)
       d == IF between THEN After(m, "data", n, TRUE) ELSE After(f, "data", n, TRUE)
       e == After(d, "LIST", 6, TRUE)
   IN [form |-> "WAVE",
       chunks |-> (IF before THEN {a} ELSE {}) \cup (IF between THEN {m} ELSE {})
                    \cup {f, e, [d EXCEPT !.len = IF known THEN n ELSE Unknown]},
       size |-> e.at + 14]
   : before \in BOOLEAN, between \in BOOLEAN, fmt \in {14, 16, 17, 18, 45},
     n \in {16, 25, 40, 44}, known \in BOOLEAN}

\* The chunks of an AIFF file, in order, with the 8 bytes that SSND begins with.
Common(comm, ok, samples) == [type |-> "COMM", len |-> comm, ok |-> ok, says |-> samples]
Sound(n, ok, offset)      == [type |-> "SSND", len |-> n, ok |-> ok, says |-> offset]
Other                     == [type |-> "NAME", len |-> 3, ok |-> TRUE, says |-> 0]

At(list, i) ==
  12 + FE!MapThenSumSet(LAMBDA j : 8 + list[j].len + (list[j].len % 2), 1 .. i - 1)

Aiff(list) ==
  [form |-> "AIFF",
   chunks |-> {[Chunk(list[i].type, At(list, i), list[i].len, list[i].ok)
                  EXCEPT !.says = list[i].says] : i \in DOMAIN list},
   size |-> At(list, Len(list) + 1)]

MCAiffs ==
  LET commons == {Common(18, TRUE, 4), Common(23, TRUE, 0), Common(18, TRUE, 9),
                  Common(18, FALSE, 4), Common(16, TRUE, 4)}
      sounds  == {Sound(24, TRUE, 0), Sound(29, TRUE, 4), Sound(24, TRUE, 40),
                  Sound(24, FALSE, 0), Sound(6, TRUE, 0)}
  IN UNION {{Aiff(<<c, s, Other>>), Aiff(<<s, c, Other>>), Aiff(<<Other, s, c, s>>),
             Aiff(<<s, Other, c>>), Aiff(<<c>>), Aiff(<<s>>)} : c \in commons, s \in sounds}

MCWhole == MCWaves \cup MCAiffs

MCOthers ==
  MCWhole \cup UNION {{[w EXCEPT !.size = @ - cut] : cut \in {7, 14, 20, 37, 60} \cap 0 .. w.size}
                      : w \in MCWhole}
=============================================================================
