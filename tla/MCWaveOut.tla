----------------------------- MODULE MCWaveOut -----------------------------
(* WaveOut with an array of MCSlots headers: one more block than slots, so  *)
(* that the bound is met with a block in hand, and one that may leak.       *)
EXTENDS WaveOut

CONSTANTS b1, b2, b3, b4

MCSlots  == 2
MCBlocks == {b1, b2, b3, b4}
=============================================================================
