--------------------------- MODULE WaveOutProofs ---------------------------
(***************************************************************************)
(* Safety of the playback queue of wave_out.c for every array length and   *)
(* every set of blocks.                                                    *)
(***************************************************************************)
EXTENDS WaveOut, FiniteSetTheorems, TLAPS

\* Who is inside the critical section.
LockOwner ==
  /\ cs = "driver"  <=> cb \in {"store", "bump"}
  /\ cs = "program" <=> pc = "pop"

\* Which local pointers are set, and what the callback has stored so far.
Pointers ==
  /\ wh # None <=> pc \in {"release", "write"}
  /\ done # None <=> cb # "idle"
  /\ cb = "bump" => PlayedWaveHeaders[PlayedWaveHeadersCount] = done
  /\ \A i \in 0 .. PlayedWaveHeadersCount - 1 : PlayedWaveHeaders[i] # None

\* What the program's thread learnt from the counters it read without the lock,
\* and what the other thread cannot undo before the value is used.
Learnt ==
  /\ pc \in {"fill", "write", "count"} => ScheduledBlocks < Slots
  /\ pc \in {"enter", "pop"} => PlayedWaveHeadersCount > 0
  /\ pc \in {"init", "reset", "exit"} => ScheduledBlocks = 0
  /\ pc \in {"drain", "reset"} => closing
  /\ closing => pc \in {"drain", "reap", "enter", "pop", "release", "reset", "exit"}

Control == TypeOK /\ Accounting /\ LockOwner /\ Pointers /\ Learnt

IInv == Control /\ OneOwner

USE SlotsAssumption, NoneAssumption

LEMMA InitIInv == Init => IInv
<1> SUFFICES ASSUME Init PROVE IInv
  OBVIOUS
<1>1. Control
  BY DEF Init, Control, TypeOK, Accounting, LockOwner, Pointers, Learnt, Index
<1>2. Playing = {} /\ InCallback = {} /\ Finished = {} /\ InHand = {} /\ Held = {}
  BY DEF Init, Playing, InCallback, Finished, InHand, Held
<1>3. OneOwner
  BY <1>2 DEF Init, OneOwner
<1> QED
  BY <1>1, <1>3 DEF IInv

-----------------------------------------------------------------------------
(* Control is inductive by itself.                                         *)

LEMMA ControlStep == Control /\ [Next]_vars => Control'
<1> SUFFICES ASSUME Control, [Next]_vars PROVE Control'
  OBVIOUS
<1> USE DEF Control, TypeOK, Accounting, LockOwner, Pointers, Learnt, Index,
            program, driver, shared, EnterCriticalSection, LeaveCriticalSection, Schedule, Unschedule,
            TopPlayed, StillScheduled
<1>1. CASE SetWinParams
  BY <1>1 DEF SetWinParams
<1>2. CASE CallPlay
  BY <1>2 DEF CallPlay
<1>3. CASE CallClose
  BY <1>3 DEF CallClose
<1>4. CASE SeePlayed
  BY <1>4 DEF SeePlayed
<1>5. CASE SeeNonePlayed
  BY <1>5 DEF SeeNonePlayed, HasFreeSlot
<1>6. CASE EnterFree
  BY <1>6 DEF EnterFree
<1>7. CASE PopPlayed
  <2>1. PlayedWaveHeadersCount - 1 \in Index
    BY <1>7 DEF PopPlayed
  <2>2. PlayedWaveHeaders[PlayedWaveHeadersCount - 1] \in Blocks
    BY <1>7, <2>1 DEF PopPlayed
  <2> QED
    BY <1>7, <2>1, <2>2 DEF PopPlayed
<1>8. CASE Release
  BY <1>8 DEF Release
<1>9. CASE Fill
  BY <1>9 DEF Fill
<1>10. CASE FillFails
  BY <1>10 DEF FillFails
<1>11. CASE Write
  <2>1. wh \in Blocks
    BY <1>11 DEF Write
  <2>2. playing' \in Seq(Blocks) /\ Len(playing') = Len(playing) + 1
    BY <1>11, <2>1 DEF Write
  <2>3. /\ pc = "write" /\ pc' = "count" /\ wh' = None
        /\ UNCHANGED <<closing, cb, done, cs, memory, PlayedWaveHeaders,
                       PlayedWaveHeadersCount, ScheduledBlocks>>
    BY <1>11 DEF Write
  <2>4. Accounting'
    <3>1. /\ ScheduledBlocks \in Nat /\ PlayedWaveHeadersCount \in Nat
          /\ Len(playing) \in Nat
      OBVIOUS
    <3>2. ScheduledBlocks = Len(playing) + (IF cb = "idle" THEN 0 ELSE 1) + PlayedWaveHeadersCount
      BY <2>3, <3>1
    <3> HIDE DEF TypeOK, Control, LockOwner, Pointers, Learnt, Accounting
    <3>3. ScheduledBlocks + 1 =
            Len(playing) + 1 + (IF cb = "idle" THEN 0 ELSE 1) + PlayedWaveHeadersCount
      BY <3>1, <3>2
    <3> QED
      BY <2>2, <2>3, <3>3 DEF Accounting
  <2> QED
    BY <2>2, <2>3, <2>4
<1>12. CASE WriteFails
  BY <1>12 DEF WriteFails
<1>13. CASE CountBlock
  BY <1>13 DEF CountBlock
<1>14. CASE Drain
  BY <1>14 DEF Drain
<1>15. CASE CloseDevice
  BY <1>15 DEF CloseDevice
<1>16. CASE Finish
  BY <1>16 DEF Finish
<1>17. CASE CallbackEnter
  BY <1>17 DEF CallbackEnter
<1>18. CASE CallbackStore
  BY <1>18 DEF CallbackStore
<1>19. CASE CallbackLeave
  BY <1>19 DEF CallbackLeave
<1>20. CASE Terminated
  BY <1>20 DEF Terminated, vars
<1>21. CASE UNCHANGED vars
  BY <1>21 DEF vars
<1> QED
  BY <1>1, <1>2, <1>3, <1>4, <1>5, <1>6, <1>7, <1>8, <1>9, <1>10, <1>11, <1>12, <1>13, <1>14, <1>15, <1>16, <1>17, <1>18, <1>19, <1>20, <1>21
     DEF Next, ProgramNext, DriverNext

-----------------------------------------------------------------------------
(* Ownership of the blocks.                                                *)

\* A step that touches neither a pointer, a queue nor a block keeps the owners.
LEMMA SameOwners ==
  ASSUME OneOwner, UNCHANGED <<wh, done, playing, PlayedWaveHeaders,
                               PlayedWaveHeadersCount, memory>>,
         cb' = cb \/ (cb # "idle" /\ cb' # "idle")
  PROVE  OneOwner'
<1>1. /\ UNCHANGED <<Playing, Finished, InHand, Held, InCallback>>
  BY DEF Playing, Finished, InHand, Held, InCallback
<1> QED
  BY <1>1 DEF OneOwner

LEMMA PopOwner == ASSUME Control, OneOwner, PopPlayed PROVE OneOwner'
<1> USE DEF Control, TypeOK, Pointers, Learnt, PopPlayed, TopPlayed, Unschedule, driver, Index
<1> DEFINE c == PlayedWaveHeadersCount
<1>1. c \in 1 .. Slots /\ wh' = PlayedWaveHeaders[c - 1] /\ wh' # None
  OBVIOUS
<1>2. Finished = Finished' \cup {wh'} /\ wh' \notin Finished'
  <2>1. \A i, j \in 0 .. c - 1 : PlayedWaveHeaders[i] = PlayedWaveHeaders[j] => i = j
    BY DEF OneOwner
  <2>2. Finished' = {PlayedWaveHeaders[i] : i \in 0 .. c - 2}
    <3>1. PlayedWaveHeaders' = PlayedWaveHeaders /\ c' = c - 1 /\ c' - 1 = c - 2
      BY <1>1
    <3> QED
      BY <3>1 DEF Finished
  <2>3. \A i \in 0 .. c - 1 : i = c - 1 \/ i \in 0 .. c - 2
    BY <1>1
  <2>4. 0 .. c - 2 \subseteq 0 .. c - 1 /\ c - 1 \in 0 .. c - 1 /\ c - 1 \notin 0 .. c - 2
    BY <1>1
  <2>5. Finished = Finished' \cup {wh'}
    <3>1. ASSUME NEW x \in Finished PROVE x \in Finished' \cup {wh'}
      <4>1. PICK i \in 0 .. c - 1 : x = PlayedWaveHeaders[i]
        BY DEF Finished
      <4>2. CASE i = c - 1
        BY <4>1, <4>2, <1>1
      <4>3. CASE i \in 0 .. c - 2
        BY <4>1, <4>3, <2>2
      <4> QED
        BY <4>2, <4>3, <2>3
    <3>2. wh' \in Finished /\ Finished' \subseteq Finished
      BY <1>1, <2>2, <2>4 DEF Finished
    <3> QED
      BY <3>1, <3>2
  <2>6. wh' \notin Finished'
    <3> SUFFICES ASSUME NEW i \in 0 .. c - 2, PlayedWaveHeaders[i] = PlayedWaveHeaders[c - 1]
                 PROVE  FALSE
      BY <1>1, <2>2
    <3> QED
      BY <2>1, <2>4
  <2> QED
    BY <2>5, <2>6
<1>3. InHand = {} /\ InHand' = {wh'}
  BY <1>1 DEF InHand
<1>4. UNCHANGED <<Playing, InCallback, Held>>
  BY DEF Playing, InCallback, Held
<1>5. \A i, j \in 0 .. c' - 1 : PlayedWaveHeaders'[i] = PlayedWaveHeaders'[j] => i = j
  BY <1>1 DEF OneOwner
<1> QED
  BY <1>2, <1>3, <1>4, <1>5 DEF OneOwner

LEMMA ReleaseOwner == ASSUME Control, OneOwner, Release PROVE OneOwner'
<1> USE DEF Control, TypeOK, Pointers, Release, driver, shared
<1>1. wh \in Blocks /\ InHand = {wh} /\ InHand' = {}
  BY DEF InHand
<1>2. UNCHANGED <<Playing, InCallback, Finished>>
  BY DEF Playing, InCallback, Finished
<1>3. Held' = Held \ {wh}
  BY <1>1 DEF Held
<1> QED
  BY <1>1, <1>2, <1>3 DEF OneOwner

LEMMA WriteFailsOwner == ASSUME Control, OneOwner, WriteFails PROVE OneOwner'
<1> USE DEF Control, TypeOK, Pointers, WriteFails, driver, shared
<1>1. wh \in Blocks /\ InHand = {wh} /\ InHand' = {}
  BY DEF InHand
<1>2. UNCHANGED <<Playing, InCallback, Finished>>
  BY DEF Playing, InCallback, Finished
<1>3. Held' = Held \ {wh}
  BY <1>1 DEF Held
<1> QED
  BY <1>1, <1>2, <1>3 DEF OneOwner

LEMMA FillOwner == ASSUME Control, OneOwner, Fill PROVE OneOwner'
<1> USE DEF Control, TypeOK, Pointers, Fill, driver, shared
<1>1. wh' \in Blocks /\ memory[wh'] = "free" /\ memory' = [memory EXCEPT ![wh'] = "held"]
  OBVIOUS
<1>2. InHand = {} /\ InHand' = {wh'}
  BY <1>1 DEF InHand
<1>3. UNCHANGED <<Playing, InCallback, Finished>>
  BY DEF Playing, InCallback, Finished
<1>4. Held' = Held \cup {wh'} /\ wh' \notin Held
  BY <1>1 DEF Held
<1> QED
  BY <1>2, <1>3, <1>4 DEF OneOwner

LEMMA WriteOwner == ASSUME Control, OneOwner, Write PROVE OneOwner'
<1> USE DEF Control, TypeOK, Pointers, Write, driver, shared
<1>1. wh \in Blocks /\ InHand = {wh} /\ InHand' = {}
  BY DEF InHand
<1>2. UNCHANGED <<InCallback, Finished, Held>>
  BY DEF InCallback, Finished, Held
<1>3. /\ DOMAIN playing = 1 .. Len(playing)
      /\ DOMAIN playing' = 1 .. Len(playing) + 1
      /\ playing'[Len(playing) + 1] = wh
      /\ \A i \in 1 .. Len(playing) : playing'[i] = playing[i]
  BY <1>1
<1>4. Playing' = Playing \cup {wh}
  BY <1>3 DEF Playing
<1>5. wh \notin Playing
  BY <1>1 DEF OneOwner
<1>6. \A i, j \in DOMAIN playing' : playing'[i] = playing'[j] => i = j
  BY <1>3, <1>5 DEF OneOwner, Playing
<1>7. \A i, j \in 0 .. PlayedWaveHeadersCount' - 1 :
        PlayedWaveHeaders'[i] = PlayedWaveHeaders'[j] => i = j
  BY DEF OneOwner
<1> QED
  BY <1>1, <1>2, <1>4, <1>6, <1>7 DEF OneOwner

LEMMA FinishOwner == ASSUME Control, OneOwner, Finish PROVE OneOwner'
<1> USE DEF Control, TypeOK, Pointers, Finish, program, shared
<1>1. InCallback = {} /\ InCallback' = {done'}
  BY DEF InCallback
<1>2. UNCHANGED <<InHand, Finished, Held>>
  BY DEF InHand, Finished, Held
<1>3. /\ Len(playing) > 0
      /\ DOMAIN playing = 1 .. Len(playing)
      /\ DOMAIN playing' = 1 .. Len(playing) - 1
      /\ done' = playing[1]
      /\ \A i \in 1 .. Len(playing) - 1 : playing'[i] = playing[i + 1]
  OBVIOUS
<1>4. Playing = Playing' \cup {done'}
  <2>1. ASSUME NEW i \in 1 .. Len(playing)
        PROVE  playing[i] \in Playing' \cup {done'}
    <3>1. CASE i = 1
      BY <3>1, <1>3
    <3>2. CASE i # 1
      <4>1. i - 1 \in 1 .. Len(playing) - 1 /\ (i - 1) + 1 = i
        BY <3>2, <1>3
      <4>2. playing'[i - 1] = playing[i]
        BY <4>1, <1>3
      <4> QED
        BY <4>1, <4>2, <1>3 DEF Playing
    <3> QED
      BY <3>1, <3>2
  <2>2. ASSUME NEW i \in 1 .. Len(playing) - 1
        PROVE  playing'[i] \in Playing
    <3>1. i + 1 \in 1 .. Len(playing) /\ playing'[i] = playing[i + 1]
      BY <1>3
    <3> QED
      BY <3>1, <1>3 DEF Playing
  <2>3. done' \in Playing
    BY <1>3 DEF Playing
  <2>4. Playing = {playing[i] : i \in 1 .. Len(playing)}
    BY <1>3 DEF Playing
  <2>5. Playing' = {playing'[i] : i \in 1 .. Len(playing) - 1}
    BY <1>3 DEF Playing
  <2> HIDE DEF Control, TypeOK, Pointers, Finish, program, shared
  <2> QED
    BY <2>1, <2>2, <2>3, <2>4, <2>5
<1>5. \A i, j \in 1 .. Len(playing) : playing[i] = playing[j] => i = j
  BY <1>3 DEF OneOwner
<1>6. done' \notin Playing'
  BY <1>3, <1>5 DEF Playing
<1>7. \A i, j \in DOMAIN playing' : playing'[i] = playing'[j] => i = j
  BY <1>3, <1>5
<1>8. \A i, j \in 0 .. PlayedWaveHeadersCount' - 1 :
        PlayedWaveHeaders'[i] = PlayedWaveHeaders'[j] => i = j
  BY DEF OneOwner
<1> QED
  BY <1>1, <1>2, <1>4, <1>6, <1>7, <1>8 DEF OneOwner

LEMMA StoreOwner == ASSUME Control, OneOwner, CallbackStore PROVE OneOwner'
<1> USE DEF Control, TypeOK, CallbackStore, program, Index
<1>1. \A i \in 0 .. PlayedWaveHeadersCount - 1 : PlayedWaveHeaders'[i] = PlayedWaveHeaders[i]
  OBVIOUS
<1>2. Finished' = Finished
  BY <1>1 DEF Finished
<1>3. UNCHANGED <<Playing, InCallback, InHand, Held>>
  BY DEF Playing, InCallback, InHand, Held
<1> QED
  BY <1>1, <1>2, <1>3 DEF OneOwner

LEMMA LeaveOwner == ASSUME Control, OneOwner, CallbackLeave PROVE OneOwner'
<1> USE DEF Control, TypeOK, Pointers, CallbackLeave, program, Index
<1> DEFINE c == PlayedWaveHeadersCount
<1>1. c' = c + 1 /\ PlayedWaveHeaders[c] = done /\ done # None
  OBVIOUS
<1>2. InCallback = {done} /\ InCallback' = {}
  BY DEF InCallback
<1>3. UNCHANGED <<Playing, InHand, Held>>
  BY DEF Playing, InHand, Held
<1>4. Finished' = Finished \cup {done}
  BY <1>1 DEF Finished
<1>5. done \notin Finished
  BY <1>2 DEF OneOwner
<1>6. \A i, j \in 0 .. c' - 1 : PlayedWaveHeaders'[i] = PlayedWaveHeaders'[j] => i = j
  BY <1>1, <1>5 DEF OneOwner, Finished
<1> QED
  BY <1>2, <1>3, <1>4, <1>6 DEF OneOwner

LEMMA OwnerStep == IInv /\ [Next]_vars => OneOwner'
<1> SUFFICES ASSUME IInv, [Next]_vars PROVE OneOwner'
  OBVIOUS
<1> USE DEF IInv
<1>1. CASE PopPlayed
  BY <1>1, PopOwner
<1>2. CASE Release
  BY <1>2, ReleaseOwner
<1>3. CASE Fill
  BY <1>3, FillOwner
<1>4. CASE Write
  BY <1>4, WriteOwner
<1>5. CASE WriteFails
  BY <1>5, WriteFailsOwner
<1>6. CASE Finish
  BY <1>6, FinishOwner
<1>7. CASE CallbackStore
  BY <1>7, StoreOwner
<1>8. CASE CallbackLeave
  BY <1>8, LeaveOwner
<1>9. CASE \/ SetWinParams \/ CallPlay \/ CallClose \/ SeePlayed \/ SeeNonePlayed
           \/ EnterFree \/ FillFails \/ CountBlock \/ Drain \/ CloseDevice
  BY <1>9, SameOwners DEF SetWinParams, CallPlay, CallClose, SeePlayed, SeeNonePlayed,
     EnterFree, FillFails, CountBlock, Drain, CloseDevice, driver, shared
<1>10. CASE CallbackEnter
  BY <1>10, SameOwners DEF CallbackEnter, program, shared
<1>11. CASE Terminated \/ UNCHANGED vars
  BY <1>11, SameOwners DEF Terminated, vars, program, driver, shared
<1> QED
  BY <1>1, <1>2, <1>3, <1>4, <1>5, <1>6, <1>7, <1>8, <1>9, <1>10, <1>11
     DEF Next, ProgramNext, DriverNext

-----------------------------------------------------------------------------
(* The theorems.                                                           *)

\* The strengthened invariant holds of every behaviour, for every number of slots
\* and every set of blocks.
THEOREM Invariance == Spec => []IInv
<1>1. Init => IInv
  BY InitIInv
<1>2. IInv /\ [Next]_vars => IInv'
  BY ControlStep, OwnerStep DEF IInv
<1> QED
  BY <1>1, <1>2, PTL DEF Spec

\* PlayedWaveHeadersCount and ScheduledBlocks stay within the array and the
\* program counters within their ranges (free_memory, WIN_Play_Samples).
THEOREM TypeCorrect == Spec => []TypeOK
<1>1. IInv => TypeOK
  BY DEF IInv, Control
<1> QED
  BY <1>1, Invariance, PTL

\* wave_callback never stores past the end of PlayedWaveHeaders.
THEOREM InBounds == Spec => []HeadersInBounds
<1>1. IInv => HeadersInBounds
  BY DEF IInv, Control, TypeOK, Accounting, Learnt, HeadersInBounds
<1> QED
  BY <1>1, Invariance, PTL

\* ScheduledBlocks is exact up to the block waveOutWrite was just given.
THEOREM Counted == Spec => []Accounting
<1>1. IInv => Accounting
  BY DEF IInv, Control
<1> QED
  BY <1>1, Invariance, PTL

\* No block is freed twice, freed while it plays, or forgotten by everybody.
THEOREM Ownership == Spec => []OneOwner
<1>1. IInv => OneOwner
  BY DEF IInv
<1> QED
  BY <1>1, Invariance, PTL

\* When WIN_Audio_close resets the device, no block is anywhere.
THEOREM Quiescence == Spec => []CloseQuiesces
<1>1. ASSUME IInv PROVE CloseQuiesces
  <2> SUFFICES ASSUME pc \in {"reset", "exit"}
               PROVE  playing = <<>> /\ cb = "idle" /\ PlayedWaveHeadersCount = 0 /\ Held = {}
    BY DEF CloseQuiesces
  <2> USE <1>1 DEF IInv, Control, TypeOK
  <2>1. ScheduledBlocks = 0 /\ wh = None
    BY DEF Learnt, Pointers
  <2>2. Len(playing) = 0 /\ cb = "idle" /\ PlayedWaveHeadersCount = 0
    BY <2>1 DEF Accounting
  <2>3. playing = <<>>
    BY <2>2
  <2>4. Playing = {} /\ InCallback = {} /\ Finished = {} /\ InHand = {}
    BY <2>1, <2>2, <2>3 DEF Playing, InCallback, Finished, InHand
  <2>5. Held = {}
    BY <2>4 DEF OneOwner
  <2> QED
    BY <2>2, <2>3, <2>5
<1> QED
  BY <1>1, Invariance, PTL
-----------------------------------------------------------------------------
(* Refinement: the two threads implement the queue of PlaybackQueue.       *)

\* The elements of an array are no more than its indices.
Elements(f, a, b) == {f[i] : i \in a .. b}

LEMMA ElementsCounted ==
  ASSUME NEW f, NEW a \in Int, NEW b \in Int, NEW n \in Nat, b + 1 - a = n
  PROVE  /\ IsFiniteSet(Elements(f, a, b))
         /\ Cardinality(Elements(f, a, b)) \in Nat
         /\ Cardinality(Elements(f, a, b)) <= n
<1> DEFINE T == Elements(f, a, b)
           g == [i \in a .. b |-> f[i]]
<1>1. g \in Surjection(a .. b, T)
  BY DEF Surjection, Elements
<1>2. IsFiniteSet(a .. b) /\ Cardinality(a .. b) = n
  <2>1. IsFiniteSet(a .. b) /\ Cardinality(a .. b) = IF a > b THEN 0 ELSE b - a + 1
    BY FS_Interval
  <2>2. (IF a > b THEN 0 ELSE b - a + 1) = n
    OBVIOUS
  <2> QED
    BY <2>1, <2>2
<1> HIDE DEF T, g
<1>3. IsFiniteSet(T) /\ Cardinality(T) <= n
  BY <1>1, <1>2, FS_Surjection
<1>4. Cardinality(T) \in Nat
  BY <1>3, FS_CardinalityType
<1> QED
  BY <1>3, <1>4 DEF T

\* What the queue calls heard.
Heard == InCallback \cup Finished \cup (IF pc = "release" THEN InHand ELSE {})

\* There are no more blocks out than were counted.
LEMMA Outside ==
  ASSUME Control, pc # "release"
  PROVE  /\ IsFiniteSet(Playing \cup Heard)
         /\ Cardinality(Playing \cup Heard) <=
              Len(playing) + (IF cb = "idle" THEN 0 ELSE 1) + PlayedWaveHeadersCount
<1>1. /\ Len(playing) \in Nat /\ DOMAIN playing = 1 .. Len(playing)
      /\ PlayedWaveHeadersCount \in Nat
  BY DEF Control, TypeOK
<1>2. /\ IsFiniteSet(Playing) /\ Cardinality(Playing) \in Nat
      /\ Cardinality(Playing) <= Len(playing)
  <2>1. PICK n \in Nat : n = Len(playing)
    BY <1>1
  <2>2. PICK one \in Int : one = 1
    OBVIOUS
  <2>3. n \in Int /\ n + 1 - one = n
    BY <2>2
  <2>4. Playing = Elements(playing, one, n)
    BY <1>1, <2>1, <2>2 DEF Playing, Elements
  <2>5. /\ IsFiniteSet(Elements(playing, one, n)) /\ Cardinality(Elements(playing, one, n)) \in Nat
        /\ Cardinality(Elements(playing, one, n)) <= n
    BY <2>3, ElementsCounted
  <2> QED
    BY <2>1, <2>4, <2>5
<1>3. /\ IsFiniteSet(Finished) /\ Cardinality(Finished) \in Nat
      /\ Cardinality(Finished) <= PlayedWaveHeadersCount
  <2>1. PICK b \in Int : b = PlayedWaveHeadersCount - 1 /\ b + 1 - 0 = PlayedWaveHeadersCount
    BY <1>1
  <2>2. Finished = Elements(PlayedWaveHeaders, 0, b)
    BY <2>1 DEF Finished, Elements
  <2> QED
    BY <1>1, <2>1, <2>2, ElementsCounted
<1>4. /\ IsFiniteSet(InCallback) /\ Cardinality(InCallback) \in Nat
      /\ Cardinality(InCallback) <= IF cb = "idle" THEN 0 ELSE 1
  <2>1. CASE cb = "idle"
    BY <2>1, FS_EmptySet DEF InCallback
  <2>2. CASE cb # "idle"
    BY <2>2, FS_Singleton DEF InCallback
  <2> QED
    BY <2>1, <2>2
<1>5. ASSUME NEW S, NEW T, IsFiniteSet(S), IsFiniteSet(T)
      PROVE  /\ IsFiniteSet(S \cup T) /\ Cardinality(S \cup T) \in Nat
             /\ Cardinality(S \cup T) <= Cardinality(S) + Cardinality(T)
  <2>1. IsFiniteSet(S \cap T)
    BY <1>5, FS_Intersection
  <2>2. /\ Cardinality(S) \in Nat /\ Cardinality(T) \in Nat /\ Cardinality(S \cap T) \in Nat
    BY <1>5, <2>1, FS_CardinalityType
  <2>3. /\ IsFiniteSet(S \cup T)
        /\ Cardinality(S \cup T) = Cardinality(S) + Cardinality(T) - Cardinality(S \cap T)
    BY <1>5, FS_Union
  <2>4. Cardinality(S \cup T) \in Nat
    BY <2>3, FS_CardinalityType
  <2> QED
    BY <2>2, <2>3, <2>4
<1>6. Playing \cup Heard = (Playing \cup InCallback) \cup Finished
  BY DEF Heard
<1>7. /\ IsFiniteSet(Playing \cup InCallback) /\ Cardinality(Playing \cup InCallback) \in Nat
      /\ Cardinality(Playing \cup InCallback) <= Cardinality(Playing) + Cardinality(InCallback)
  BY <1>2, <1>4, <1>5
<1>8. /\ IsFiniteSet((Playing \cup InCallback) \cup Finished)
      /\ Cardinality((Playing \cup InCallback) \cup Finished) \in Nat
      /\ Cardinality((Playing \cup InCallback) \cup Finished) <=
           Cardinality(Playing \cup InCallback) + Cardinality(Finished)
  BY <1>3, <1>5, <1>7
<1>9. PICK p \in Nat, f \in Nat, c \in Nat, pc1 \in Nat, all \in Nat :
        /\ p = Cardinality(Playing) /\ f = Cardinality(Finished) /\ c = Cardinality(InCallback)
        /\ pc1 = Cardinality(Playing \cup InCallback)
        /\ all = Cardinality((Playing \cup InCallback) \cup Finished)
  BY <1>2, <1>3, <1>4, <1>7, <1>8
<1>10. all <= Len(playing) + (IF cb = "idle" THEN 0 ELSE 1) + PlayedWaveHeadersCount
  <2>1. p <= Len(playing) /\ f <= PlayedWaveHeadersCount /\ pc1 <= p + c /\ all <= pc1 + f
    BY <1>2, <1>3, <1>7, <1>8, <1>9
  <2>2. c <= IF cb = "idle" THEN 0 ELSE 1
    BY <1>4, <1>9
  <2> QED
    BY <1>1, <2>1, <2>2
<1> QED
  BY <1>6, <1>8, <1>9, <1>10

\* Nothing is out when the counters say so and no block is being counted.
LEMMA NothingOut ==
  ASSUME Control, pc \in {"init", "reset"}
  PROVE  Playing = {} /\ Heard = {}
<1>1. ScheduledBlocks = 0 /\ wh = None
  BY DEF Control, Learnt, Pointers
<1>2. Len(playing) = 0 /\ cb = "idle" /\ PlayedWaveHeadersCount = 0
  BY <1>1 DEF Control, TypeOK, Accounting
<1> QED
  BY <1>2 DEF Control, TypeOK, Playing, Heard, InCallback, Finished, InHand

LEMMA QueueVars ==
  UNCHANGED <<playing, Heard>> /\ (pc' = "exit" <=> pc = "exit") => UNCHANGED Queue!vars
BY DEF Queue!vars, Heard

\* waveOutWrite is the queue accepting the block.
LEMMA WriteAccepts == IInv /\ Write => \E b \in Blocks : Queue!Accept(b)
<1> SUFFICES ASSUME IInv, Write PROVE Queue!Accept(wh) /\ wh \in Blocks
  OBVIOUS
<1>1. /\ pc = "write" /\ pc' = "count" /\ wh \in Blocks /\ playing' = Append(playing, wh)
      /\ UNCHANGED <<cb, done, PlayedWaveHeaders, PlayedWaveHeadersCount>>
  BY DEF Write, IInv, Control, Pointers, TypeOK, driver, shared
<1>2. wh \notin Playing \cup Heard
  BY <1>1 DEF IInv, OneOwner, InHand, Heard
<1>3. Cardinality(Playing \cup Heard) < Slots
  <2>1. /\ IsFiniteSet(Playing \cup Heard)
        /\ Cardinality(Playing \cup Heard) <=
             Len(playing) + (IF cb = "idle" THEN 0 ELSE 1) + PlayedWaveHeadersCount
    BY <1>1, Outside DEF IInv
  <2>2. Cardinality(Playing \cup Heard) \in Nat
    BY <2>1, FS_CardinalityType
  <2>3. /\ ScheduledBlocks = Len(playing) + (IF cb = "idle" THEN 0 ELSE 1) + PlayedWaveHeadersCount
        /\ ScheduledBlocks < Slots
    BY <1>1 DEF IInv, Control, Accounting, Learnt, TypeOK
  <2> QED
    BY <2>1, <2>2, <2>3 DEF IInv, Control, TypeOK
<1>4. Queue!Outstanding = Playing \cup Heard
  BY DEF Queue!Outstanding, Playing, Heard
<1>5. UNCHANGED InCallback /\ UNCHANGED Finished /\ pc # "release" /\ pc' # "release"
      /\ pc # "exit" /\ pc' # "exit"
  BY <1>1 DEF InCallback, Finished
<1>6. Queue!Cardinality(Queue!Outstanding) = Cardinality(Queue!Outstanding)
  BY DEF Queue!Cardinality, Cardinality
<1> QED
  BY <1>1, <1>2, <1>3, <1>4, <1>5, <1>6 DEF Queue!Accept

\* The end of a block is the queue hearing it.
LEMMA FinishHears == IInv /\ Finish => Queue!Hear
<1> SUFFICES ASSUME IInv, Finish PROVE Queue!Hear
  OBVIOUS
<1>1. /\ cb = "idle" /\ cb' # "idle" /\ playing # <<>> /\ done' = Head(playing)
      /\ playing' = Tail(playing)
      /\ UNCHANGED <<pc, wh, PlayedWaveHeaders, PlayedWaveHeadersCount>>
  BY DEF Finish, program, shared
<1>2. Heard' = Heard \cup {Head(playing)}
  BY <1>1 DEF Heard, InCallback, Finished, InHand
<1> QED
  BY <1>1, <1>2 DEF Queue!Hear, Heard

\* free_memory gives the block back that it has just taken.
LEMMA ReleaseReclaims == IInv /\ Release => \E b \in Blocks : Queue!Reclaim(b)
<1> SUFFICES ASSUME IInv, Release PROVE Queue!Reclaim(wh) /\ wh \in Blocks
  OBVIOUS
<1>1. /\ pc = "release" /\ pc' = "reap" /\ wh \in Blocks /\ wh # None
      /\ UNCHANGED <<cb, done, playing, PlayedWaveHeaders, PlayedWaveHeadersCount>>
  BY DEF Release, IInv, Control, Pointers, TypeOK, driver, shared
<1>2. InHand = {wh} /\ InHand \cap (InCallback \cup Finished) = {}
  BY <1>1 DEF InHand, IInv, OneOwner
<1>3. wh \in Heard /\ Heard' = Heard \ {wh}
  BY <1>1, <1>2 DEF Heard, InCallback, Finished
<1> QED
  BY <1>1, <1>3 DEF Queue!Reclaim, Heard

\* The device is closed, or was never opened.
LEMMA ExitCloses == IInv /\ (CloseDevice \/ (SetWinParams /\ pc' = "exit")) => Queue!Close
<1> SUFFICES ASSUME IInv, CloseDevice \/ (SetWinParams /\ pc' = "exit") PROVE Queue!Close
  OBVIOUS
<1>1. /\ pc \in {"init", "reset"} /\ pc' = "exit"
      /\ UNCHANGED <<wh, cb, done, playing, PlayedWaveHeaders, PlayedWaveHeadersCount>>
  BY DEF CloseDevice, SetWinParams, driver, shared
<1>2. Playing = {} /\ Heard = {}
  BY <1>1, NothingOut DEF IInv
<1>3. UNCHANGED Heard
  BY <1>1 DEF Heard, InCallback, Finished
<1> QED
  BY <1>1, <1>2, <1>3 DEF Queue!Close, Queue!Outstanding, Playing, Heard

\* Taking the last header only moves it from the array to the pointer.
LEMMA PopStutters == IInv /\ PopPlayed => UNCHANGED Queue!vars
<1> SUFFICES ASSUME IInv, PopPlayed PROVE UNCHANGED <<playing, Heard>> /\ pc # "exit" /\ pc' # "exit"
  BY QueueVars
<1>1. /\ pc = "pop" /\ pc' = "release" /\ wh = None
      /\ UNCHANGED <<cb, done, playing, memory>>
  BY DEF PopPlayed, driver, IInv, Control, Pointers
<1>2. OneOwner'
  BY PopOwner DEF IInv
<1>3. /\ UNCHANGED <<Playing, InCallback, Held>> /\ InHand = {}
  BY <1>1 DEF Playing, InCallback, Held, InHand
<1>4. Playing \cup InCallback \cup Finished = Playing \cup InCallback \cup Finished' \cup InHand'
  BY <1>2, <1>3 DEF IInv, OneOwner
<1>5. /\ (Playing \cup InCallback) \cap Finished = {}
      /\ (Playing \cup InCallback) \cap (Finished' \cup InHand') = {}
  BY <1>2, <1>3 DEF IInv, OneOwner
<1>6. Finished = Finished' \cup InHand'
  BY <1>4, <1>5
<1> QED
  BY <1>1, <1>3, <1>6 DEF Heard

\* The end of the callback moves the block from it to the array.
LEMMA LeaveStutters == IInv /\ CallbackLeave => UNCHANGED Queue!vars
<1> SUFFICES ASSUME IInv, CallbackLeave PROVE UNCHANGED <<playing, Heard>> /\ pc' = pc
  BY QueueVars
<1>1. /\ cb = "bump" /\ cb' = "idle" /\ UNCHANGED <<pc, wh, playing, PlayedWaveHeaders>>
      /\ PlayedWaveHeadersCount' = PlayedWaveHeadersCount + 1
      /\ PlayedWaveHeaders[PlayedWaveHeadersCount] = done /\ PlayedWaveHeadersCount \in Nat
  BY DEF CallbackLeave, program, IInv, Control, TypeOK, Pointers
<1>2. Finished' = Finished \cup {done}
  BY <1>1 DEF Finished
<1>3. InCallback = {done} /\ InCallback' = {} /\ InHand' = InHand
  BY <1>1 DEF InCallback, InHand
<1> QED
  BY <1>1, <1>2, <1>3 DEF Heard

LEMMA StoreStutters == IInv /\ CallbackStore => UNCHANGED Queue!vars
<1> SUFFICES ASSUME IInv, CallbackStore PROVE UNCHANGED <<playing, Heard>> /\ pc' = pc
  BY QueueVars
<1>1. /\ UNCHANGED <<pc, wh, playing, done, PlayedWaveHeadersCount>> /\ cb = "store" /\ cb' = "bump"
      /\ \A i \in 0 .. PlayedWaveHeadersCount - 1 : PlayedWaveHeaders'[i] = PlayedWaveHeaders[i]
  BY DEF CallbackStore, program, IInv, Control, TypeOK, Index
<1>2. Finished' = Finished
  BY <1>1 DEF Finished
<1> QED
  BY <1>1, <1>2 DEF Heard, InCallback, InHand

LEMMA RefinementStep == IInv /\ [Next]_vars => [Queue!Next]_(Queue!vars)
<1> SUFFICES ASSUME IInv, [Next]_vars PROVE Queue!Next \/ UNCHANGED Queue!vars
  OBVIOUS
<1>1. CASE Write
  BY <1>1, WriteAccepts DEF Queue!Next
<1>2. CASE Finish
  BY <1>2, FinishHears DEF Queue!Next
<1>3. CASE Release
  BY <1>3, ReleaseReclaims DEF Queue!Next
<1>4. CASE CloseDevice \/ (SetWinParams /\ pc' = "exit")
  BY <1>4, ExitCloses DEF Queue!Next
<1>5. CASE PopPlayed
  BY <1>5, PopStutters
<1>6. CASE CallbackLeave
  BY <1>6, LeaveStutters
<1>7. CASE CallbackStore
  BY <1>7, StoreStutters
<1>8. CASE \/ (SetWinParams /\ pc' # "exit") \/ CallPlay \/ CallClose \/ SeePlayed
           \/ SeeNonePlayed \/ EnterFree \/ Fill \/ FillFails \/ WriteFails \/ CountBlock \/ Drain
  <2>1. /\ UNCHANGED <<cb, done, playing, PlayedWaveHeaders, PlayedWaveHeadersCount>>
        /\ pc \notin {"release", "exit"} /\ pc' \notin {"release", "exit"}
    BY <1>8 DEF SetWinParams, CallPlay, CallClose, SeePlayed, SeeNonePlayed, EnterFree,
       Fill, FillFails, WriteFails, CountBlock, Drain, driver, shared
  <2>2. UNCHANGED Heard
    BY <2>1 DEF Heard, InCallback, Finished
  <2> QED
    BY <2>1, <2>2, QueueVars
<1>9. CASE CallbackEnter \/ Terminated \/ UNCHANGED vars
  <2>1. /\ UNCHANGED <<pc, wh, done, playing, PlayedWaveHeaders, PlayedWaveHeadersCount>>
        /\ cb' = "idle" <=> cb = "idle"
    BY <1>9 DEF CallbackEnter, Terminated, vars, program, driver, shared
  <2>2. UNCHANGED Heard
    BY <2>1 DEF Heard, InCallback, Finished, InHand
  <2> QED
    BY <2>1, <2>2, QueueVars
<1> QED
  BY <1>1, <1>2, <1>3, <1>4, <1>5, <1>6, <1>7, <1>8, <1>9 DEF Next, ProgramNext, DriverNext

\* However the two threads interleave, blocks are accepted while there is room, heard
\* in the order they were written, reclaimed only when heard, and the device is closed
\* only when none is left.
THEOREM Refinement == Spec => ImplementsQueue
<1>1. Init => Queue!Init
  BY DEF Init, Queue!Init, InCallback, Finished
<1>2. IInv /\ [Next]_vars => [Queue!Next]_(Queue!vars)
  BY RefinementStep
<1> QED
  BY <1>1, <1>2, Invariance, PTL DEF Spec, ImplementsQueue, Queue!Spec
=============================================================================
