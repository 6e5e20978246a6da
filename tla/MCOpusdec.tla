----------------------------- MODULE MCOpusdec -----------------------------
(* Opusdec with 48 kHz scaled down to 12: output rates 4 (down-sampling by  *)
(* 3), 8 (by 3/2), 18 (up-sampling by 3/2) and 12 (no resampler).  Frames   *)
(* are longer than one pass of the filter and than one chunk of output.     *)
EXTENDS Opusdec

MCRatios == {[num |-> 3, den |-> 1, g |-> 4], [num |-> 3, den |-> 2, g |-> 4],
             [num |-> 2, den |-> 3, g |-> 6], [num |-> 1, den |-> 1, g |-> 12]}
=============================================================================
