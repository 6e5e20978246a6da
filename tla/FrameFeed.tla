----------------------------- MODULE FrameFeed -----------------------------
(***************************************************************************)
(* What the encoding loop of opusenc promises for any input: the samples   *)
(* of the source reach the encoder in order, in frames of which only the   *)
(* last one may be short, and the loop is complete only when all of them   *)
(* have; or it fails.                                                      *)
(***************************************************************************)
EXTENDS Naturals, Sequences

CONSTANT FrameSize     \* samples in a full frame

VARIABLES source,      \* samples still to come
          encoded,     \* samples the encoder was given
          outcome

vars == <<source, encoded, outcome>>

Init == encoded = <<>> /\ outcome = "running"

FullFrame ==
  /\ outcome = "running" /\ Len(source) >= FrameSize
  /\ encoded' = encoded \o SubSeq(source, 1, FrameSize)
  /\ source' = SubSeq(source, FrameSize + 1, Len(source))
  /\ UNCHANGED outcome

LastFrame ==
  /\ outcome = "running" /\ Len(source) < FrameSize
  /\ encoded' = encoded \o source /\ source' = <<>>
  /\ outcome' = "complete"

Fail == outcome = "running" /\ outcome' = "failed" /\ UNCHANGED <<source, encoded>>

Next == FullFrame \/ LastFrame \/ Fail

Spec == Init /\ [][Next]_vars
=============================================================================
