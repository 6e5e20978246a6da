--------------------------- MODULE PlaybackQueue ---------------------------
(***************************************************************************)
(* What opusdec expects of the Win32 playback queue of wave_out.c: blocks  *)
(* are accepted while there is room, heard in the order they were accepted,*)
(* reclaimed only after they were heard, and the device is closed only when*)
(* nothing is left to hear or to reclaim.                                  *)
(***************************************************************************)
EXTENDS Naturals, Sequences, FiniteSets

CONSTANTS Slots,     \* how many blocks may be outstanding
          Blocks     \* identities of the sample buffers

VARIABLES queued,    \* accepted blocks the device has not finished, in order
          heard,     \* finished blocks whose memory is still held
          open       \* the device accepts blocks

vars == <<queued, heard, open>>

Outstanding == {queued[i] : i \in DOMAIN queued} \cup heard

Init == queued = <<>> /\ heard = {} /\ open = TRUE

Accept(b) ==
  /\ open /\ b \notin Outstanding
  /\ Cardinality(Outstanding) < Slots
  /\ queued' = Append(queued, b)
  /\ UNCHANGED <<heard, open>>

Hear ==
  /\ queued # <<>>
  /\ queued' = Tail(queued)
  /\ heard' = heard \cup {Head(queued)}
  /\ UNCHANGED open

Reclaim(b) ==
  /\ b \in heard
  /\ heard' = heard \ {b}
  /\ UNCHANGED <<queued, open>>

Close ==
  /\ open /\ Outstanding = {}
  /\ open' = FALSE
  /\ UNCHANGED <<queued, heard>>

Next ==
  \/ \E b \in Blocks : Accept(b) \/ Reclaim(b)
  \/ Hear
  \/ Close

Spec == Init /\ [][Next]_vars
=============================================================================
