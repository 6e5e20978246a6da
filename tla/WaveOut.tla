------------------------------ MODULE WaveOut ------------------------------
(***************************************************************************)
(* Win32 playback of opusdec (src/wave_out.c).  Two threads share an array *)
(* of finished wave headers and two counters:                              *)
(*   - the program's thread runs WIN_Play_Samples and WIN_Audio_close, and *)
(*     inside both of them free_memory;                                    *)
(*   - the driver's thread runs wave_callback for every finished block.    *)
(* The counter PlayedWaveHeadersCount is read outside the critical section *)
(* by the program, and ScheduledBlocks is raised only after waveOutWrite   *)
(* has already handed the block to the driver.                             *)
(***************************************************************************)
EXTENDS Integers, Sequences

CONSTANTS Slots,       \* MAX_WAVEBLOCKS, the length of PlayedWaveHeaders
          Blocks,      \* identities of the allocated blocks (header and data)
          None         \* no block, no lock owner

ASSUME SlotsAssumption  == Slots \in Nat \ {0}
ASSUME NoneAssumption  == None \notin Blocks \cup {"program", "driver"}

VARIABLES
  pc,                      \* where the program's thread is
  wh,                      \* its local WAVEHDR pointer
  closing,                 \* free_memory is run for WIN_Audio_close
  cb,                      \* where the driver's thread is
  done,                    \* the header the running wave_callback was given
  cs,                      \* owner of the critical section
  playing,                 \* blocks written to the device and not finished
  PlayedWaveHeaders, PlayedWaveHeadersCount, ScheduledBlocks,
  memory                   \* "free", "held" or "leaked", per block

shared  == <<PlayedWaveHeaders, PlayedWaveHeadersCount, ScheduledBlocks>>
program == <<pc, wh, closing>>
driver  == <<cb, done>>
vars    == <<program, driver, cs, playing, shared, memory>>

Index == 0 .. Slots - 1

Init ==
  /\ pc = "init" /\ wh = None /\ closing = FALSE
  /\ cb = "idle" /\ done = None
  /\ cs = None
  /\ playing = <<>>
  /\ PlayedWaveHeaders = [i \in Index |-> None]
  /\ PlayedWaveHeadersCount = 0
  /\ ScheduledBlocks = 0
  /\ memory = [b \in Blocks |-> "free"]

-----------------------------------------------------------------------------
(* The critical section and what is done inside it.                        *)

M_EnterUnlocked(who) == cs' = who
M_LeaveLocked == UNCHANGED cs
EnterCriticalSection(who) == cs = None /\ cs' = who
LeaveCriticalSection == cs' = None

M_ScheduleNothing == UNCHANGED ScheduledBlocks
M_UnscheduleNothing == UNCHANGED ScheduledBlocks
Schedule == ScheduledBlocks' = ScheduledBlocks + 1
Unschedule == ScheduledBlocks' = ScheduledBlocks - 1

\* PlayedWaveHeaders[--PlayedWaveHeadersCount]
M_TopPlayedPost == PlayedWaveHeaders[PlayedWaveHeadersCount % Slots]
TopPlayed == PlayedWaveHeaders[PlayedWaveHeadersCount - 1]

M_StillPlayed == PlayedWaveHeadersCount > 0
StillScheduled == ScheduledBlocks > 0

-----------------------------------------------------------------------------
(* The program's thread.                                                   *)

\* Set_WIN_Params: when the device cannot be opened opusdec leaves through
\* "done:" and never calls WIN_Audio_close.
SetWinParams ==
  /\ pc = "init"
  /\ pc' \in {"idle", "exit"}
  /\ UNCHANGED <<wh, closing, driver, cs, playing, shared, memory>>

\* The two calls opusdec makes while the device is open.
CallPlay ==
  /\ pc = "idle" /\ pc' = "reap"
  /\ UNCHANGED <<wh, closing, driver, cs, playing, shared, memory>>

CallClose ==
  /\ pc = "idle" /\ pc' = "drain" /\ closing' = TRUE
  /\ UNCHANGED <<wh, driver, cs, playing, shared, memory>>

\* while (PlayedWaveHeadersCount > 0), read without the lock: call free_memory.
SeePlayed ==
  /\ pc = "reap" /\ PlayedWaveHeadersCount > 0
  /\ pc' = "enter"
  /\ UNCHANGED <<wh, closing, driver, cs, playing, shared, memory>>

M_HasFreeSlot == ScheduledBlocks <= Slots
HasFreeSlot == ScheduledBlocks < Slots

\* No finished block left.  WIN_Play_Samples goes on when a block may be
\* scheduled and otherwise sleeps and looks again; WIN_Audio_close goes back to
\* the test of its outer loop.
SeeNonePlayed ==
  /\ pc = "reap" /\ PlayedWaveHeadersCount = 0
  /\ \/ ~closing /\ HasFreeSlot /\ pc' = "fill"
     \/ closing /\ pc' = "drain"
  /\ UNCHANGED <<wh, closing, driver, cs, playing, shared, memory>>

\* free_memory: EnterCriticalSection.
EnterFree ==
  /\ pc = "enter" /\ pc' = "pop"
  /\ EnterCriticalSection("program")
  /\ UNCHANGED <<wh, closing, driver, playing, shared, memory>>

\* free_memory: take the last header, lower both counters and leave.
PopPlayed ==
  /\ pc = "pop"
  /\ wh' = TopPlayed
  /\ PlayedWaveHeadersCount' = PlayedWaveHeadersCount - 1
  /\ Unschedule
  /\ LeaveCriticalSection /\ pc' = "release"
  /\ UNCHANGED <<closing, driver, playing, PlayedWaveHeaders, memory>>

\* free_memory: unprepare the header, free data and header.
Release ==
  /\ pc = "release"
  /\ memory' = [memory EXCEPT ![wh] = "free"]
  /\ wh' = None /\ pc' = "reap"
  /\ UNCHANGED <<closing, driver, cs, playing, shared>>

\* Allocate and fill the data buffer, allocate and prepare the header.
Fill ==
  /\ pc = "fill"
  /\ \E b \in Blocks :
       /\ memory[b] = "free"
       /\ memory' = [memory EXCEPT ![b] = "held"]
       /\ wh' = b
  /\ pc' = "write"
  /\ UNCHANGED <<closing, driver, cs, playing, shared>>

\* The first GlobalAlloc fails: nothing was allocated, return.
FillFails ==
  /\ pc = "fill" /\ pc' = "idle"
  /\ UNCHANGED <<wh, closing, driver, cs, playing, shared, memory>>

\* The header cannot be allocated, prepared or written: the header is freed,
\* the data buffer it would have pointed to is not.
WriteFails ==
  /\ pc = "write"
  /\ memory' = [memory EXCEPT ![wh] = "leaked"]
  /\ wh' = None /\ pc' = "idle"
  /\ UNCHANGED <<closing, driver, cs, playing, shared>>

\* waveOutWrite: from here on the driver may call back at any time.
Write ==
  /\ pc = "write"
  /\ playing' = Append(playing, wh)
  /\ wh' = None /\ pc' = "count"
  /\ UNCHANGED <<closing, driver, cs, shared, memory>>

\* ScheduledBlocks++ inside the critical section, and return len.
CountBlock ==
  /\ pc = "count" /\ cs = None
  /\ Schedule
  /\ pc' = "idle"
  /\ UNCHANGED <<wh, closing, driver, cs, playing,
                 PlayedWaveHeaders, PlayedWaveHeadersCount, memory>>

\* WIN_Audio_close: while (ScheduledBlocks > 0) { Sleep; free used blocks }.
Drain ==
  /\ pc = "drain"
  /\ pc' = IF StillScheduled THEN "reap" ELSE "reset"
  /\ UNCHANGED <<wh, closing, driver, cs, playing, shared, memory>>

\* waveOutReset, waveOutClose, DeleteCriticalSection, ScheduledBlocks = 0.
CloseDevice ==
  /\ pc = "reset" /\ pc' = "exit"
  /\ ScheduledBlocks' = 0
  /\ UNCHANGED <<wh, closing, driver, cs, playing,
                 PlayedWaveHeaders, PlayedWaveHeadersCount, memory>>

ProgramNext ==
  \/ SetWinParams \/ CallPlay \/ CallClose
  \/ SeePlayed \/ SeeNonePlayed \/ EnterFree \/ PopPlayed \/ Release
  \/ Fill \/ FillFails \/ Write \/ WriteFails \/ CountBlock
  \/ Drain \/ CloseDevice

-----------------------------------------------------------------------------
(* The driver's thread.                                                    *)

\* The device finishes its oldest block and calls wave_callback(WOM_DONE).
Finish ==
  /\ cb = "idle" /\ playing # <<>>
  /\ done' = Head(playing)
  /\ playing' = Tail(playing)
  /\ cb' = "enter"
  /\ UNCHANGED <<program, cs, shared, memory>>

CallbackEnter ==
  /\ cb = "enter" /\ cb' = "store"
  /\ EnterCriticalSection("driver")
  /\ UNCHANGED <<program, done, playing, shared, memory>>

CallbackStore ==
  /\ cb = "store"
  /\ PlayedWaveHeaders' = [PlayedWaveHeaders EXCEPT ![PlayedWaveHeadersCount] = done]
  /\ cb' = "bump"
  /\ UNCHANGED <<program, done, cs, playing,
                 PlayedWaveHeadersCount, ScheduledBlocks, memory>>

CallbackLeave ==
  /\ cb = "bump"
  /\ PlayedWaveHeadersCount' = PlayedWaveHeadersCount + 1
  /\ LeaveCriticalSection /\ cb' = "idle"
  /\ done' = None
  /\ UNCHANGED <<program, playing, PlayedWaveHeaders, ScheduledBlocks, memory>>

DriverNext == Finish \/ CallbackEnter \/ CallbackStore \/ CallbackLeave

-----------------------------------------------------------------------------
\* After its return from main nothing happens any more.
Terminated == pc = "exit" /\ cb = "idle" /\ playing = <<>> /\ UNCHANGED vars

Next == ProgramNext \/ DriverNext \/ Terminated

Spec == Init /\ [][Next]_vars

\* The device plays what it was given and calls back; opusdec keeps decoding
\* and, at the end of its input or on an error, closes the device.
FairSpec == Spec /\ WF_vars(DriverNext) /\ WF_vars(ProgramNext)
-----------------------------------------------------------------------------
(* Correctness.                                                            *)

InCallback == IF cb = "idle" THEN {} ELSE {done}
Playing    == {playing[i] : i \in DOMAIN playing}
Finished   == {PlayedWaveHeaders[i] : i \in 0 .. PlayedWaveHeadersCount - 1}
InHand     == IF wh = None THEN {} ELSE {wh}
Held       == {b \in Blocks : memory[b] = "held"}

TypeOK ==
  /\ pc \in {"init", "idle", "reap", "enter", "pop", "release", "fill", "write",
             "count", "drain", "reset", "exit"}
  /\ wh \in Blocks \cup {None}
  /\ closing \in BOOLEAN
  /\ cb \in {"idle", "enter", "store", "bump"}
  /\ done \in Blocks \cup {None}
  /\ cs \in {None, "program", "driver"}
  /\ playing \in Seq(Blocks)
  /\ PlayedWaveHeaders \in [Index -> Blocks \cup {None}]
  /\ PlayedWaveHeadersCount \in 0 .. Slots
  /\ ScheduledBlocks \in 0 .. Slots
  /\ memory \in [Blocks -> {"free", "held", "leaked"}]

\* wave_callback never writes past PlayedWaveHeaders[MAX_WAVEBLOCKS - 1], although
\* nothing in it looks at the length: WIN_Play_Samples must not let more blocks
\* out than the array holds, with a counter it raises after the fact.
HeadersInBounds == cb = "store" => PlayedWaveHeadersCount < Slots

\* ScheduledBlocks counts exactly the blocks the device has or has finished,
\* except for the one between waveOutWrite and ScheduledBlocks++; so neither
\* decrement of free_memory can wrap around, whatever the callback does between.
Accounting ==
  ScheduledBlocks + (IF pc = "count" THEN 1 ELSE 0) =
    Len(playing) + (IF cb = "idle" THEN 0 ELSE 1) + PlayedWaveHeadersCount

\* Every block whose memory is held has one owner: the device queue, the running
\* callback, one slot of PlayedWaveHeaders or the program's own pointer.  So
\* free_memory never frees a block twice, or one the device still plays.
OneOwner ==
  /\ Playing \cup InCallback \cup Finished \cup InHand = Held
  /\ Playing \cap (InCallback \cup Finished \cup InHand) = {}
  /\ InCallback \cap (Finished \cup InHand) = {}
  /\ Finished \cap InHand = {}
  /\ \A i, j \in DOMAIN playing : playing[i] = playing[j] => i = j
  /\ \A i, j \in 0 .. PlayedWaveHeadersCount - 1 :
       PlayedWaveHeaders[i] = PlayedWaveHeaders[j] => i = j

\* WIN_Audio_close resets the device and deletes the critical section only when
\* no block is playing, no callback is running and nothing remains to be freed.
CloseQuiesces ==
  pc \in {"reset", "exit"} => /\ playing = <<>> /\ cb = "idle"
                              /\ PlayedWaveHeadersCount = 0 /\ Held = {}

\* WIN_Audio_close returns: its polling loop cannot wait for a block that was
\* never counted down or never called back.
CloseReturns == closing ~> pc = "exit"

\* A block given to the device is not kept for ever.
BlocksComeBack == \A b \in Blocks : memory[b] = "held" ~> memory[b] # "held"

\* The two threads together behave as the bounded first-in first-out queue that
\* opusdec relies on; the pointer of free_memory still counts as heard.
Queue == INSTANCE PlaybackQueue WITH
  queued <- playing,
  heard  <- InCallback \cup Finished \cup (IF pc = "release" THEN InHand ELSE {}),
  open   <- pc # "exit"

ImplementsQueue == Queue!Spec
=============================================================================
