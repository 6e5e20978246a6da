---------------------------- MODULE MCResampler ----------------------------
(* Small instance of Resampler: lengths are multiples of 2 instead of 8.   *)
EXTENDS Resampler

MCQualities  == {0, 1}
MCBaseLen    == [q \in MCQualities |-> <<2, 4>>[q + 1]]
MCOversample == [q \in MCQualities |-> <<2, 4>>[q + 1]]
MCRatios     == {<<4, 2>>, <<3, 2>>, <<2, 5>>, <<11, 12>>}
MCLengths    == {<<1, 1>>, <<4, 2>>}
=============================================================================
