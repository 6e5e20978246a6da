---------------------------- MODULE MCFlacInput ----------------------------
(* FlacInput on files of up to two metadata blocks, the second of which may  *)
(* declare something else, and three frames: longer than, as long as and     *)
(* shorter than what opusenc asks for, longer than declared, with another    *)
(* number of channels, or damaged.  Files are whole, cut off inside an item, *)
(* or unreadable from some byte on.                                          *)
EXTENDS FlacInput

MCMetas == {<<>>, <<Tags>>, <<Info(2, 5), Tags>>, <<Info(2, 2)>>, <<Info(1, 2), Info(2, 5)>>}
MCFrames == {Frame(2, 1), Frame(2, 2), Frame(2, 5), Frame(1, 2), Damaged}

MCAudio == {<<>>} \cup UNION {[1 .. n -> MCFrames] : n \in 1 .. 3}

MCFiles ==
  UNION {{[items |-> m \o a, metas |-> Len(m), bytes |-> 2 * Len(m \o a) - cut, errorat |-> at]
            : cut \in {0, 1} \cap 0 .. Len(m \o a), at \in {8, 100}}
          : m \in MCMetas, a \in MCAudio}
=============================================================================
