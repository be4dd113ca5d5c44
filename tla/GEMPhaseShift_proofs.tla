---------------------------- MODULE GEMPhaseShift_proofs ----------------------------
(***************************************************************************)
(* Proofs about the search for the clock phase: wherever it starts and however *)
(* wide the lock is, it rests as far inside the lock it reports as its          *)
(* thresholds say, less one round of the card's count for each failed access.    *)
(***************************************************************************)
EXTENDS GEMPhaseShift, TLAPS

(* The width of the lock.                                                         *)
Width == Cardinality(Good)

(* What the accesses that failed may have cost.                                     *)
Spent == GthSteps * faults

(* The search looks for a run of locks, and turns round in it.                        *)
SeeksRun ==
  \/ signal = "BC0" /\ ~shiftOutOfLockFirst
  \/ signal = "PLL" /\ shiftOutOfLockFirst /\ ~firstUnlockFound

(* The search leaves the lock, and looks for the next one.                            *)
SeeksNext == signal = "BC0" /\ shiftOutOfLockFirst

(* The failed accesses have not used up the margin.                                   *)
Intact ==
  IF SeeksNext THEN Spent <= HalfMargin("BC0")
  ELSE IF signal = "BC0" THEN Spent <= RunMargin("BC0")
  ELSE faults = 0

(* By so much the card's count is ahead of the expected one, and behind it.              *)
Ahead  == IF hwGth >= gthShiftCnt THEN hwGth - gthShiftCnt ELSE hwGth - gthShiftCnt + GthSteps
Behind == IF Ahead = 0 THEN 0 ELSE GthSteps - Ahead

(* The search is under way.                                                           *)
Searching == pc \in {"shift", "verify", "look"}

(* The card has not taken the direction: every shift goes back by all but one of a round.  *)
WrongWay == direction = -1 /\ ~reversingForLock

(* The moves since the first of n looks.                                             *)
Moves(n) == IF pc = "shift" THEN n - 1 ELSE n

(* Where the clock is, seen from the first good phase: the bad ones are before it.        *)
Offset == IF phase \in Good THEN phase ELSE phase - Ring

(* Where a search that goes the wrong way is expected next: a count that was misread
   costs a round, which the next shift does not go back.                             *)
Behindhand(at) == at - Ahead + (IF pc # "verify" /\ Ahead >= 2 THEN GthSteps ELSE 0)

(* Nothing has happened.                                                             *)
EntryInv ==
  pc = "entry" =>
    /\ ~firstUnlockFound /\ ~nextLockFound /\ ~bestLockFound /\ ~reversingForLock
    /\ nGoodLocks = 0 /\ nBadLocks = 0 /\ faults = 0

(* The counts differ, and the direction is not that of the search, only after a failure.    *)
CountInv ==
  Searching =>
    /\ Ahead # 0 => faults >= 1 \/ (WrongWay /\ pc = "verify")
    /\ WrongWay => faults >= 1 /\ (pc # "verify" /\ Ahead # 0 => faults >= 2)
    /\ WrongWay \/ direction = Turned(reversingForLock)
    /\ ~bestLockFound

(* The thresholds that are still ahead.                                              *)
FlagInv ==
  Searching =>
    /\ signal = "PLL" /\ ~shiftOutOfLockFirst =>
         ~firstUnlockFound /\ ~reversingForLock
    /\ SeeksRun => /\ ~firstUnlockFound
                   /\ IF reversingForLock THEN nGoodLocks \in GoodRun[signal]..(BestRun[signal] - 1)
                                          ELSE nGoodLocks < GoodRun[signal]
    /\ SeeksNext =>
         /\ ~reversingForLock
         /\ ~firstUnlockFound => ~nextLockFound /\ nBadLocks <= BadRun[signal]
         /\ firstUnlockFound => nGoodLocks < Half[signal]
         /\ firstUnlockFound /\ ~nextLockFound => nGoodLocks = 0
         /\ nextLockFound => nGoodLocks > 0

(* Forwards, along a run of good phases.                                              *)
RunForwards ==
  SeeksRun /\ ~reversingForLock /\ direction = 1 /\ nGoodLocks > 0 =>
    /\ pc = "shift" => phase \in Good
    /\ phase - Ahead >= Moves(nGoodLocks) - Spent
    /\ pc # "shift" => phase + Behind <= Width + Spent

(* Back, from where the run had turned the search.                                     *)
RunBack ==
  SeeksRun /\ reversingForLock =>
    LET back == Moves(nGoodLocks + 1) - GoodRun[signal]
    IN  /\ phase - Ahead >= GoodRun[signal] - 1 - back - Spent
        /\ phase + Behind <= Width - 1 - back + Spent

(* Out of lock, waiting for the next one.                                              *)
NextAwaited ==
  SeeksNext /\ firstUnlockFound /\ ~nextLockFound =>
    IF pc = "shift" THEN phase \notin Good ELSE Offset + Behind <= Spent

(* In the next lock.                                                                *)
NextCounted ==
  SeeksNext /\ nextLockFound =>
    /\ phase - Ahead >= Moves(nGoodLocks) - Spent
    /\ phase + Behind <= Moves(nGoodLocks) + Spent

(* The wrong way along a run of good phases.                                           *)
WrongRun ==
  SeeksRun /\ WrongWay /\ nGoodLocks > 0 =>
    /\ IF pc = "shift" THEN phase \in Good
                       ELSE Offset < Width /\ Offset - Ahead >= -Spent
    /\ Behindhand(Offset) <=
         Width - 1 - Moves(nGoodLocks) * (GthSteps - 1) + Spent - GthSteps

(* The wrong way out of lock: not to the end of it.                                     *)
WrongOut ==
  SeeksNext /\ WrongWay =>
    /\ ~firstUnlockFound
    /\ nBadLocks > 0 =>
         /\ IF pc = "shift" THEN phase \notin Good ELSE phase - Ahead >= Width - Spent
         /\ Behindhand(phase) <=
              Ring - 1 - Moves(nBadLocks) * (GthSteps - 1) + Spent - GthSteps

(* Where the clock is while the margin is not used up.                                 *)
PlaceInv ==
  Searching /\ Intact =>
    RunForwards /\ RunBack /\ NextAwaited /\ NextCounted /\ WrongRun /\ WrongOut

(* The inductive invariant.                                                          *)
SearchInv == EntryInv /\ CountInv /\ FlagInv /\ PlaceInv /\ RestsInsideLock

-----------------------------------------------------------------------------
(* The constants and the operators.                                                *)

(* The smaller of two numbers.                                                       *)
LEMMA MinOfTwo ==
  ASSUME NEW a \in Int, NEW b \in Int
  PROVE  /\ Min({a, b}) \in {a, b}
         /\ Min({a, b}) <= a /\ Min({a, b}) <= b
<1>1. \E x \in {a, b} : \A y \in {a, b} : x <= y
  OBVIOUS
<1>2. Min({a, b}) \in {a, b} /\ \A y \in {a, b} : Min({a, b}) <= y
  BY <1>1 DEF Min
<1> QED
  BY <1>2

(* The ring, its parts, and the round of the count.                                   *)
LEMMA RingFacts ==
  /\ Ring \in Nat /\ GthSteps \in Nat /\ MaxShift \in Nat /\ MaxFaults \in Nat
  /\ GthSteps > 2 /\ Ring > 3
  /\ Width \in Nat /\ 0 < Width /\ Width + GthSteps < Ring
  /\ \A p \in Int : p \in Good <=> 0 <= p /\ p < Width
<1>1. /\ {Ring, GthSteps, MaxShift} \subseteq Nat \ {0} /\ GthSteps > 2 /\ MaxFaults \in Nat
      /\ Good = 0..(Width - 1) /\ Width \in 1..(Ring - 1)
  BY PhaseAssumption DEF Width
<1>2. BadRun \in [Signals -> Nat \ {0}] /\ "BC0" \in Signals
  BY PhaseAssumption DEF Signals
<1>3. BadRun["BC0"] + GthSteps < Ring - Width
  BY <1>2, PhaseAssumption DEF Width
<1>4. BadRun["BC0"] \in Nat \ {0}
  BY <1>2
<1> QED
  BY <1>1, <1>3, <1>4

(* The thresholds of a signal.                                                        *)
LEMMA Thresholds ==
  ASSUME NEW s \in Signals
  PROVE  /\ BadRun[s] \in Nat /\ GoodRun[s] \in Nat /\ BestRun[s] \in Nat /\ Half[s] \in Nat
         /\ 0 < BadRun[s] /\ 0 < GoodRun[s] /\ 0 < Half[s]
         /\ GoodRun[s] < BestRun[s] /\ BestRun[s] < 2 * GoodRun[s]
         /\ GoodRun[s] < Width /\ Half[s] < Width
<1>1. {BadRun, GoodRun, BestRun, Half} \subseteq [Signals -> Nat \ {0}]
  BY PhaseAssumption
<1>2. /\ BadRun[s] \in Nat \ {0} /\ GoodRun[s] \in Nat \ {0}
      /\ BestRun[s] \in Nat \ {0} /\ Half[s] \in Nat \ {0}
  BY <1>1
<1>3. /\ GoodRun[s] < BestRun[s] /\ BestRun[s] < 2 * GoodRun[s]
      /\ GoodRun[s] < Width /\ Half[s] < Width
  BY PhaseAssumption DEF Width
<1> QED
  BY <1>2, <1>3

(* The margins of a signal.                                                          *)
LEMMA Margins ==
  ASSUME NEW s \in Signals
  PROVE  /\ RunMargin(s) \in Nat /\ HalfMargin(s) \in Nat
         /\ RunMargin(s) <= BestRun[s] - GoodRun[s]
         /\ RunMargin(s) <= 2 * GoodRun[s] - BestRun[s] - 1
         /\ HalfMargin(s) <= Half[s] - 1 /\ HalfMargin(s) <= Width - Half[s]
<1>1. Width \in Nat
  BY RingFacts
<1>2. /\ BestRun[s] - GoodRun[s] \in Nat /\ 2 * GoodRun[s] - BestRun[s] - 1 \in Nat
      /\ Half[s] - 1 \in Nat /\ Width - Half[s] \in Nat
  BY <1>1, Thresholds
<1>3. ASSUME NEW a \in Nat, NEW b \in Nat
      PROVE  Min({a, b}) \in Nat /\ Min({a, b}) <= a /\ Min({a, b}) <= b
  <2>1. a \in Int /\ b \in Int
    OBVIOUS
  <2>2. Min({a, b}) \in {a, b} /\ Min({a, b}) <= a /\ Min({a, b}) <= b
    BY <2>1, MinOfTwo
  <2> QED
    BY <2>2
<1>4. RunMargin(s) \in Nat /\ RunMargin(s) <= BestRun[s] - GoodRun[s]
                          /\ RunMargin(s) <= 2 * GoodRun[s] - BestRun[s] - 1
  <2> DEFINE a == BestRun[s] - GoodRun[s]
             b == 2 * GoodRun[s] - BestRun[s] - 1
  <2>1. a \in Nat /\ b \in Nat
    BY <1>2
  <2>2. RunMargin(s) = Min({a, b})
    BY DEF RunMargin
  <2> HIDE DEF a, b
  <2>3. Min({a, b}) \in Nat /\ Min({a, b}) <= a /\ Min({a, b}) <= b
    BY <2>1, <1>3
  <2> QED
    BY <2>2, <2>3 DEF a, b
<1>5. HalfMargin(s) \in Nat /\ HalfMargin(s) <= Half[s] - 1 /\ HalfMargin(s) <= Width - Half[s]
  <2> DEFINE a == Half[s] - 1
             b == Width - Half[s]
  <2>1. a \in Nat /\ b \in Nat
    BY <1>2
  <2>2. HalfMargin(s) = Min({a, b})
    BY DEF HalfMargin, Width
  <2> HIDE DEF a, b
  <2>3. Min({a, b}) \in Nat /\ Min({a, b}) <= a /\ Min({a, b}) <= b
    BY <2>1, <1>3
  <2> QED
    BY <2>2, <2>3 DEF a, b
<1> QED
  BY <1>4, <1>5

(* A place next to the end of a ring of n.                                            *)
Wrapped(x, n) == IF x < 0 THEN x + n ELSE IF x >= n THEN x - n ELSE x

(* The remainder of a number that is not far out of the ring.                          *)
LEMMA Remainder ==
  ASSUME NEW n \in Nat, n > 2, NEW x \in Int, -2 <= x, x < n + 2
  PROVE  x % n = Wrapped(x, n) /\ Wrapped(x, n) \in 0..(n - 1)
<1>1. \A y \in 0..(n - 1) : y % n = y
  OBVIOUS
<1>2. CASE x < 0
  <2>1. (x + n) % n = x % n
    OBVIOUS
  <2> QED
    BY <1>1, <1>2, <2>1 DEF Wrapped
<1>3. CASE x >= n
  <2>1. (x - n) % n = x % n
    OBVIOUS
  <2> QED
    BY <1>1, <1>3, <2>1 DEF Wrapped
<1> QED
  BY <1>1, <1>2, <1>3 DEF Wrapped

-----------------------------------------------------------------------------
(* Types.                                                                          *)

(* The places in the code.                                                           *)
Places == {"entry", "shift", "verify", "look", "done", "skipped", "raised"}

(* The card.                                                                         *)
CardTypes ==
  /\ phase \in 0..(Ring - 1) /\ hwGth \in 0..(GthSteps - 1) /\ direction \in {1, -1}
  /\ gthShiftCnt \in 0..(GthSteps - 1)

(* The options and flags.                                                             *)
FlagTypes ==
  /\ signal \in Signals /\ shiftOutOfLockFirst \in BOOLEAN
  /\ firstUnlockFound \in BOOLEAN /\ nextLockFound \in BOOLEAN
  /\ bestLockFound \in BOOLEAN /\ reversingForLock \in BOOLEAN

(* The counts.                                                                        *)
CountTypes ==
  /\ pc \in Places
  /\ i \in Nat /\ nGoodLocks \in Nat /\ nBadLocks \in Nat /\ nShiftsSinceLock \in Nat
  /\ faults \in Nat

(* The types of the search.                                                           *)
PhaseTypes == CardTypes /\ FlagTypes /\ CountTypes

(* The card moves by so many phases, and counts them.                                   *)
Moved(m) ==
  /\ phase' = Wrapped(phase + m, Ring)
  /\ hwGth' = Wrapped(hwGth + m, GthSteps)

(* One shift moves the card by at most two phases.                                      *)
LEMMA ShiftMoves ==
  ASSUME CardTypes, NEW n \in 0..2, ShiftsBy(n)
  PROVE  /\ n * direction \in -2..2 /\ Moved(n * direction)
         /\ phase' \in 0..(Ring - 1) /\ hwGth' \in 0..(GthSteps - 1)
<1>1. n * direction \in -2..2
  BY DEF CardTypes
<1> DEFINE m == n * direction
<1>2. /\ phase + m \in Int /\ -2 <= phase + m /\ phase + m < Ring + 2
      /\ hwGth + m \in Int /\ -2 <= hwGth + m /\ hwGth + m < GthSteps + 2
      /\ Ring \in Nat /\ Ring > 2 /\ GthSteps \in Nat /\ GthSteps > 2
  BY <1>1, RingFacts DEF CardTypes
<1>3. /\ (phase + m) % Ring = Wrapped(phase + m, Ring)
      /\ Wrapped(phase + m, Ring) \in 0..(Ring - 1)
  BY <1>2, Remainder
<1>4. /\ (hwGth + m) % GthSteps = Wrapped(hwGth + m, GthSteps)
      /\ Wrapped(hwGth + m, GthSteps) \in 0..(GthSteps - 1)
  BY <1>2, Remainder
<1> QED
  BY <1>1, <1>3, <1>4 DEF ShiftsBy, Moved

(* The count that is expected next.                                                    *)
LEMMA CountMoves ==
  ASSUME CardTypes
  PROVE  /\ NextCount = Wrapped(gthShiftCnt + Turned(reversingForLock), GthSteps)
         /\ NextCount \in 0..(GthSteps - 1)
<1>1. Turned(reversingForLock) \in {1, -1}
  BY DEF Turned
<1>2. /\ gthShiftCnt + Turned(reversingForLock) \in Int
      /\ -2 <= gthShiftCnt + Turned(reversingForLock)
      /\ gthShiftCnt + Turned(reversingForLock) < GthSteps + 2
      /\ GthSteps \in Nat /\ GthSteps > 2
  BY <1>1, RingFacts DEF CardTypes
<1> QED
  BY <1>2, Remainder DEF NextCount

(* A number of shifts, in the direction of the card.                                    *)
Way(n) == IF direction = 1 THEN n ELSE -n

(* The card shifts by n, with e failures, and the expected count by c.                    *)
Shifts(n, e, c) ==
  /\ faults' = faults + e
  /\ phase' = Wrapped(phase + Way(n), Ring) /\ phase' \in 0..(Ring - 1)
  /\ Ahead' = Wrapped(Ahead + Way(n) - c, GthSteps) /\ Ahead' \in 0..(GthSteps - 1)

(* What a shift leaves alone.                                                           *)
NoLook == UNCHANGED <<direction, optionVars, i, flagVars, countVars>>

(* How far the count is ahead follows the card's count and the expected one.               *)
LEMMA AheadMoves ==
  ASSUME CardTypes, NEW m \in -2..2, NEW c \in -1..1,
         hwGth' = Wrapped(hwGth + m, GthSteps),
         gthShiftCnt' = Wrapped(gthShiftCnt + c, GthSteps)
  PROVE  Ahead' = Wrapped(Ahead + m - c, GthSteps) /\ Ahead' \in 0..(GthSteps - 1)
<1>1. /\ hwGth \in Int /\ 0 <= hwGth /\ hwGth < GthSteps
      /\ gthShiftCnt \in Int /\ 0 <= gthShiftCnt /\ gthShiftCnt < GthSteps
      /\ GthSteps \in Int /\ GthSteps > 2
  BY RingFacts DEF CardTypes
<1>2. /\ m \in Int /\ -2 <= m /\ m <= 2 /\ c \in Int /\ -1 <= c /\ c <= 1
  OBVIOUS
<1> QED
  BY <1>1, <1>2 DEF Ahead, Wrapped

(* The ranges of the distances.                                                         *)
LEMMA AheadTypes ==
  ASSUME CardTypes
  PROVE  /\ Ahead \in 0..(GthSteps - 1) /\ Behind \in 0..(GthSteps - 1)
         /\ Ahead = 0 <=> hwGth = gthShiftCnt
  BY RingFacts DEF CardTypes, Ahead, Behind

(* A write that shifts, or fails to.                                                     *)
LEMMA WriteMoves ==
  ASSUME CardTypes, faults \in Nat, WriteShift
  PROVE  \E n \in 0..2, e \in 0..1 :
           /\ e = 0 => n = 1
           /\ faults' = faults + e /\ Moved(Way(n)) /\ Way(n) \in -2..2
           /\ phase' \in 0..(Ring - 1) /\ hwGth' \in 0..(GthSteps - 1)
<1>1. PICK n \in 0..2, e \in 0..1 : /\ e = 0 => n = 1
                                    /\ faults' = faults + e /\ ShiftsBy(n)
  BY DEF WriteShift, Answers, Fails
<1>2. n * direction = Way(n)
  BY DEF Way, CardTypes
<1>3. /\ n * direction \in -2..2 /\ Moved(n * direction)
      /\ phase' \in 0..(Ring - 1) /\ hwGth' \in 0..(GthSteps - 1)
  BY <1>1, ShiftMoves
<1>4. Moved(Way(n)) /\ Way(n) \in -2..2
  BY <1>2, <1>3
<1> QED
  BY <1>1, <1>3, <1>4

(* The shift at the head of the loop.                                                    *)
LEMMA ShiftStep ==
  ASSUME PhaseTypes, Shift
  PROVE  \E n \in 0..2, e \in 0..1 :
           /\ e = 0 => n = 1
           /\ Shifts(n, e, Turned(reversingForLock))
<1>1. CardTypes /\ faults \in Nat
  BY DEF PhaseTypes, CountTypes
<1>2. WriteShift /\ gthShiftCnt' = NextCount
  BY DEF Shift
<1>3. PICK n \in 0..2, e \in 0..1 :
        /\ e = 0 => n = 1
        /\ faults' = faults + e /\ Moved(Way(n)) /\ Way(n) \in -2..2
        /\ phase' \in 0..(Ring - 1) /\ hwGth' \in 0..(GthSteps - 1)
  BY <1>1, <1>2, WriteMoves
<1>4. Turned(reversingForLock) \in -1..1
  BY DEF Turned
<1>5. gthShiftCnt' = Wrapped(gthShiftCnt + Turned(reversingForLock), GthSteps)
  BY <1>1, <1>2, CountMoves
<1>6. hwGth' = Wrapped(hwGth + Way(n), GthSteps) /\ phase' = Wrapped(phase + Way(n), Ring)
  BY <1>3 DEF Moved
<1>7. /\ Ahead' = Wrapped(Ahead + Way(n) - Turned(reversingForLock), GthSteps)
      /\ Ahead' \in 0..(GthSteps - 1)
  BY <1>1, <1>3, <1>4, <1>5, <1>6, AheadMoves
<1> QED
  BY <1>3, <1>6, <1>7 DEF Shifts

(* A shift that is repeated: the counts differ, or were thought to.                        *)
LEMMA RepeatStep ==
  ASSUME PhaseTypes, RepeatShift
  PROVE  \E n \in 0..2, e \in 0..1 :
           /\ e = 0 => n = 1 /\ Ahead # 0
           /\ Shifts(n, e, 0)
<1>1. CardTypes /\ faults \in Nat
  BY DEF PhaseTypes, CountTypes
<1>2. \E n \in 0..2, e \in 0..1 :
        /\ e = 0 => n = 1 /\ hwGth # gthShiftCnt
        /\ faults' = faults + e /\ Moved(Way(n)) /\ Way(n) \in -2..2
        /\ phase' \in 0..(Ring - 1) /\ hwGth' \in 0..(GthSteps - 1)
  <2>1. CASE hwGth # gthShiftCnt /\ WriteShift
    BY <1>1, <2>1, WriteMoves
  <2>2. CASE Fails /\ ShiftsBy(1)
    <3>1. 1 * direction = Way(1)
      BY <1>1 DEF Way, CardTypes
    <3>2. /\ 1 * direction \in -2..2 /\ Moved(1 * direction)
          /\ phase' \in 0..(Ring - 1) /\ hwGth' \in 0..(GthSteps - 1)
      BY <1>1, <2>2, ShiftMoves
    <3>3. Moved(Way(1)) /\ Way(1) \in -2..2
      BY <3>1, <3>2
    <3>4. faults' = faults + 1
      BY <2>2 DEF Fails
    <3> QED
      BY <3>2, <3>3, <3>4
  <2> QED
    BY <2>1, <2>2 DEF RepeatShift
<1>3. PICK n \in 0..2, e \in 0..1 :
        /\ e = 0 => n = 1 /\ hwGth # gthShiftCnt
        /\ faults' = faults + e /\ Moved(Way(n)) /\ Way(n) \in -2..2
        /\ phase' \in 0..(Ring - 1) /\ hwGth' \in 0..(GthSteps - 1)
  BY <1>2
<1>4. gthShiftCnt' = Wrapped(gthShiftCnt + 0, GthSteps)
  BY <1>1, RingFacts DEF RepeatShift, CardTypes, Wrapped
<1>5. hwGth' = Wrapped(hwGth + Way(n), GthSteps) /\ phase' = Wrapped(phase + Way(n), Ring)
  BY <1>3 DEF Moved
<1>6. Ahead' = Wrapped(Ahead + Way(n) - 0, GthSteps) /\ Ahead' \in 0..(GthSteps - 1)
  BY <1>1, <1>3, <1>4, <1>5, AheadMoves
<1>7. Ahead = 0 => hwGth = gthShiftCnt
  BY <1>1, AheadTypes
<1> QED
  BY <1>3, <1>5, <1>6, <1>7 DEF Shifts

(* The types of the card are kept.                                                       *)
LEMMA CardTypesHold ==
  ASSUME PhaseTypes, [PhaseNext]_phaseVars
  PROVE  CardTypes'
<1>1. CardTypes /\ faults \in Nat
  BY DEF PhaseTypes, CountTypes
<1>2. CASE Prepare
  BY <1>1, <1>2, RingFacts DEF Prepare, CardTypes
<1>3. CASE AlignmentIsOff
  BY <1>1, <1>3 DEF AlignmentIsOff, CardTypes
<1>4. CASE Shift
  <2>1. WriteShift /\ gthShiftCnt' = NextCount /\ direction' = direction
    BY <1>4 DEF Shift
  <2>2. phase' \in 0..(Ring - 1) /\ hwGth' \in 0..(GthSteps - 1)
    BY <1>1, <2>1, WriteMoves
  <2>3. NextCount \in 0..(GthSteps - 1)
    BY <1>1, CountMoves
  <2> QED
    BY <1>1, <2>1, <2>2, <2>3 DEF CardTypes
<1>5. CASE RepeatShift
  <2>1. /\ WriteShift \/ ShiftsBy(1)
        /\ gthShiftCnt' = gthShiftCnt /\ direction' = direction
    BY <1>5 DEF RepeatShift
  <2>2. phase' \in 0..(Ring - 1) /\ hwGth' \in 0..(GthSteps - 1)
    BY <1>1, <2>1, WriteMoves, ShiftMoves
  <2> QED
    BY <1>1, <2>1, <2>2 DEF CardTypes
<1>6. CASE Look
  <2>1. UNCHANGED <<phase, hwGth, gthShiftCnt>>
    BY <1>6 DEF Look
  <2>2. direction' \in {direction, 1, -1}
    BY <1>6 DEF Look, FirstBC0, FirstPLL, PLLOnlyCounts, NextBC0, NextPLL, OutOfLock,
                RunOfLocks, CountsGood, TurnForwards, CountsBad
  <2> QED
    BY <1>1, <2>1, <2>2 DEF CardTypes
<1>7. CASE CountIsRight \/ DispatchRaises \/ ShiftsAreUsedUp \/ UNCHANGED phaseVars
  BY <1>1, <1>7 DEF CountIsRight, DispatchRaises, ShiftsAreUsedUp, phaseVars, cardVars, CardTypes
<1> QED
  BY <1>2, <1>3, <1>4, <1>5, <1>6, <1>7 DEF PhaseNext

(* The types of the flags and counts are kept.                                             *)
LEMMA LookTypesHold ==
  ASSUME PhaseTypes, [PhaseNext]_phaseVars
  PROVE  FlagTypes' /\ CountTypes'
<1>1. FlagTypes /\ CountTypes
  BY DEF PhaseTypes
<1>2. faults' \in Nat
  <2>1. faults' \in {faults, faults + 1}
    BY DEF PhaseNext, Prepare, AlignmentIsOff, Shift, CountIsRight, RepeatShift, Look,
           DispatchRaises, ShiftsAreUsedUp, WriteShift, Answers, Fails, phaseVars
  <2> QED
    BY <1>1, <2>1 DEF CountTypes
<1>3. CASE Look
  <2>1. PICK locked \in BOOLEAN :
          FirstBC0(locked) \/ FirstPLL(locked) \/ PLLOnlyCounts(locked)
            \/ NextBC0(locked) \/ NextPLL(locked)
    BY <1>3 DEF Look
  <2>2. UNCHANGED optionVars
    BY <1>3 DEF Look
  <2>3. NextRound \/ LeaveLoop
    BY <2>1 DEF FirstBC0, FirstPLL, PLLOnlyCounts, NextBC0, NextPLL, OutOfLock,
                RunOfLocks, CountsGood, TurnForwards, CountsBad
  <2>4. /\ firstUnlockFound' \in BOOLEAN /\ nextLockFound' \in BOOLEAN
        /\ bestLockFound' \in BOOLEAN /\ reversingForLock' \in BOOLEAN
    <3>1. locked \in BOOLEAN
      BY <2>1
    <3>2. firstUnlockFound' = firstUnlockFound \/ firstUnlockFound' = (nBadLocks' > BadRun[signal])
      BY <2>1
         DEF FirstBC0, FirstPLL, PLLOnlyCounts, NextBC0, NextPLL, OutOfLock,
             RunOfLocks, CountsGood, TurnForwards, CountsBad, flagVars
    <3>3. \/ nextLockFound' = nextLockFound \/ nextLockFound' = (nextLockFound \/ locked)
          \/ nextLockFound' = (nextLockFound \/ ~locked)
      BY <2>1
         DEF FirstBC0, FirstPLL, PLLOnlyCounts, NextBC0, NextPLL, OutOfLock,
             RunOfLocks, CountsGood, TurnForwards, CountsBad, flagVars
    <3>4. \/ reversingForLock' = reversingForLock \/ reversingForLock' = FALSE
          \/ reversingForLock' = (reversingForLock \/ nGoodLocks + 1 = GoodRun[signal])
      BY <2>1
         DEF FirstBC0, FirstPLL, PLLOnlyCounts, NextBC0, NextPLL, OutOfLock,
             RunOfLocks, CountsGood, TurnForwards, CountsBad, flagVars
    <3>5. \/ bestLockFound' = bestLockFound \/ bestLockFound' = FALSE
          \/ bestLockFound' = (reversingForLock' /\ nGoodLocks + 1 = BestRun[signal])
          \/ bestLockFound' = (nGoodLocks' = Half[signal])
          \/ bestLockFound' = (~locked /\ nShiftsSinceLock = Half[signal])
      BY <2>1
         DEF FirstBC0, FirstPLL, PLLOnlyCounts, NextBC0, NextPLL, OutOfLock,
             RunOfLocks, CountsGood, TurnForwards, CountsBad, flagVars
    <3>6. firstUnlockFound' \in BOOLEAN
      <4>1. (nBadLocks' > BadRun[signal]) \in BOOLEAN
        OBVIOUS
      <4>2. firstUnlockFound \in BOOLEAN
        BY <1>1 DEF FlagTypes
      <4> QED
        BY <3>2, <4>1, <4>2, Zenon
    <3>7. nextLockFound' \in BOOLEAN
      BY <1>1, <3>3 DEF FlagTypes
    <3>8. reversingForLock' \in BOOLEAN
      BY <1>1, <3>4 DEF FlagTypes
    <3>9. bestLockFound' \in BOOLEAN
      BY <1>1, <3>5 DEF FlagTypes
    <3> QED
      BY <3>6, <3>7, <3>8, <3>9
  <2>5. /\ nGoodLocks' \in {0, nGoodLocks, nGoodLocks + 1}
        /\ nBadLocks' \in {0, nBadLocks, nBadLocks + 1}
    BY <2>1
       DEF FirstBC0, FirstPLL, PLLOnlyCounts, NextBC0, NextPLL, OutOfLock, CountLook,
           RunOfLocks, CountsGood, TurnForwards, CountsBad
  <2>6. /\ pc' \in Places /\ i' \in {i, i + 1}
        /\ nShiftsSinceLock' \in {nShiftsSinceLock, nShiftsSinceLock + 1}
    BY <2>3 DEF NextRound, LeaveLoop, Places
  <2> QED
    BY <1>1, <1>2, <2>2, <2>4, <2>5, <2>6 DEF FlagTypes, CountTypes, optionVars
<1>4. CASE ~Look
  <2>1. /\ UNCHANGED <<optionVars, flagVars, countVars, i>>
        /\ pc' \in Places
    BY <1>1, <1>4
       DEF PhaseNext, Prepare, AlignmentIsOff, Shift, CountIsRight, RepeatShift,
           DispatchRaises, ShiftsAreUsedUp, phaseVars, Places, CountTypes
  <2> QED
    BY <1>1, <1>2, <2>1 DEF FlagTypes, CountTypes, optionVars, flagVars, countVars
<1> QED
  BY <1>3, <1>4

(* Every state of the search is type-correct, for every ring and all thresholds.              *)
THEOREM PhaseTypesHold == PhaseSpec => []PhaseTypes
<1>1. PhaseInit => PhaseTypes
  <2> SUFFICES ASSUME PhaseInit
               PROVE  PhaseTypes
    OBVIOUS
  <2>1. phase \in 0..(Ring - 1) /\ hwGth \in 0..(GthSteps - 1)
    BY DEF PhaseInit, Phases
  <2>3. CardTypes
    BY <2>1, RingFacts DEF PhaseInit, CardTypes
  <2>4. FlagTypes
    BY DEF PhaseInit, FlagTypes
  <2>5. CountTypes
    BY DEF PhaseInit, CountTypes, Places
  <2> QED
    BY <2>3, <2>4, <2>5 DEF PhaseTypes
<1>2. PhaseTypes /\ [PhaseNext]_phaseVars => PhaseTypes'
  BY CardTypesHold, LookTypesHold DEF PhaseTypes
<1> QED
  BY <1>1, <1>2, PTL DEF PhaseSpec

-----------------------------------------------------------------------------
(* The count and the thresholds.                                                    *)

(* A look does not turn to a new direction of the search without turning the card.             *)
LEMMA LookTurns ==
  ASSUME Look, PhaseTypes
  PROVE  \/ direction' = direction /\ reversingForLock' = reversingForLock
         \/ direction' = Turned(reversingForLock') /\ ~(direction' = -1 /\ ~reversingForLock')
<1>1. PICK locked \in BOOLEAN :
        FirstBC0(locked) \/ FirstPLL(locked) \/ PLLOnlyCounts(locked)
          \/ NextBC0(locked) \/ NextPLL(locked)
  BY DEF Look
<1>2. CASE CountsGood
  BY <1>2 DEF CountsGood, Turned, PhaseTypes, FlagTypes
<1>3. CASE TurnForwards
  BY <1>3 DEF TurnForwards, Turned
<1>4. CASE ~CountsGood /\ ~TurnForwards
  BY <1>1, <1>4 DEF FirstBC0, FirstPLL, PLLOnlyCounts, NextBC0, NextPLL, OutOfLock, CountLook,
           RunOfLocks, CountsBad, flagVars
<1> QED
  BY <1>2, <1>3, <1>4

(* The loop goes on exactly after a look that has not found the best lock.                     *)
LEMMA LookGoesOn ==
  ASSUME Look, PhaseTypes, ~bestLockFound
  PROVE  \/ pc' = "shift" /\ ~bestLockFound'
         \/ pc' = "done" /\ bestLockFound'
<1>1. PICK locked \in BOOLEAN :
        FirstBC0(locked) \/ FirstPLL(locked) \/ PLLOnlyCounts(locked)
          \/ NextBC0(locked) \/ NextPLL(locked)
  BY DEF Look
<1>2. bestLockFound' \in BOOLEAN
  BY LookTypesHold DEF PhaseNext, FlagTypes
<1> QED
  BY <1>1, <1>2 DEF FirstBC0, FirstPLL, PLLOnlyCounts, NextBC0, NextPLL, OutOfLock,
           RunOfLocks, CountsGood, TurnForwards, CountsBad, flagVars, NextRound, LeaveLoop

(* CountInv is kept.                                                                *)
LEMMA CountInvHolds ==
  ASSUME PhaseTypes, EntryInv, CountInv, [PhaseNext]_phaseVars
  PROVE  CountInv'
<1>1. CardTypes /\ faults \in Nat /\ faults' \in Nat
  BY LookTypesHold DEF PhaseTypes, CountTypes
<1>2. CASE Prepare
  <2>1. /\ faults' >= 1 \/ (direction' = 1 /\ gthShiftCnt' = hwGth')
        /\ gthShiftCnt' = hwGth' \/ (direction' = 1 /\ faults' >= 1)
        /\ direction' \in {1, -1} /\ pc' = "shift"
        /\ ~reversingForLock' /\ ~bestLockFound'
    BY <1>1, <1>2 DEF Prepare, Answers, Fails, EntryInv, flagVars, CardTypes
  <2>2. CardTypes'
    BY <1>2, CardTypesHold DEF PhaseNext
  <2>3. Ahead' = 0 <=> hwGth' = gthShiftCnt'
    <3>1. /\ hwGth' \in Int /\ hwGth' < GthSteps /\ gthShiftCnt' \in Int /\ 0 <= gthShiftCnt'
          /\ gthShiftCnt' < GthSteps /\ 0 <= hwGth' /\ GthSteps \in Int
      BY <2>2, RingFacts DEF CardTypes
    <3>2. hwGth' >= gthShiftCnt' => Ahead' = hwGth' - gthShiftCnt'
      BY DEF Ahead
    <3>3. ~(hwGth' >= gthShiftCnt') => Ahead' = hwGth' - gthShiftCnt' + GthSteps
      BY DEF Ahead
    <3> QED
      BY <3>1, <3>2, <3>3
  <2> QED
    BY <1>1, <2>1, <2>3 DEF CountInv, WrongWay, Turned
<1>3. CASE AlignmentIsOff \/ DispatchRaises \/ ShiftsAreUsedUp
  BY <1>3 DEF AlignmentIsOff, DispatchRaises, ShiftsAreUsedUp, CountInv, Searching
<1>4. CASE Shift
  <2>1. PICK n \in 0..2, e \in 0..1 :
          /\ e = 0 => n = 1
          /\ Shifts(n, e, Turned(reversingForLock))
    BY <1>4, ShiftStep
  <2>2. /\ pc = "shift" /\ pc' = "verify"
        /\ UNCHANGED <<direction, bestLockFound, reversingForLock>>
    BY <1>4 DEF Shift, flagVars
  <2>3. Ahead' # 0 => faults' >= 1 \/ WrongWay
    <3>1. CASE e = 1
      BY <1>1, <2>1, <3>1 DEF Shifts
    <3>2. CASE e = 0 /\ ~WrongWay
      <4>1. direction = Turned(reversingForLock) /\ (Ahead # 0 => faults >= 1)
        BY <2>2, <3>2 DEF CountInv, Searching
      <4>2. Ahead' = Wrapped(Ahead, GthSteps) /\ faults' = faults
        BY <1>1, <2>1, <3>2, <4>1, AheadTypes DEF Shifts, Way, Turned
      <4>3. Ahead' = Ahead
        BY <1>1, <4>2, AheadTypes, RingFacts DEF Wrapped
      <4> QED
        BY <4>1, <4>2, <4>3
    <3> QED
      BY <2>1, <3>1, <3>2
  <2>4. faults' >= faults
    BY <1>1, <2>1 DEF Shifts
  <2>5. WrongWay' <=> WrongWay
    BY <2>2 DEF WrongWay
  <2> QED
    BY <1>1, <2>2, <2>3, <2>4, <2>5 DEF CountInv, Searching, Turned, WrongWay
<1>5. CASE CountIsRight
  <2>1. /\ pc = "verify" /\ pc' = "look"
        /\ UNCHANGED <<direction, bestLockFound, reversingForLock, hwGth, gthShiftCnt>>
        /\ faults' \in {faults, faults + 1} /\ (faults' = faults => hwGth = gthShiftCnt)
    BY <1>1, <1>5 DEF CountIsRight, Answers, Fails, flagVars, cardVars
  <2>2. Ahead' = Ahead /\ (WrongWay' <=> WrongWay)
    BY <2>1 DEF Ahead, WrongWay
  <2>3. Ahead # 0 => faults' = faults + 1
    BY <1>1, <2>1, AheadTypes
  <2> QED
    BY <1>1, <2>1, <2>2, <2>3 DEF CountInv, Searching, Turned
<1>6. CASE RepeatShift
  <2>1. PICK n \in 0..2, e \in 0..1 : (e = 0 => n = 1 /\ Ahead # 0) /\ Shifts(n, e, 0)
    BY <1>6, RepeatStep
  <2>2. /\ pc = "verify" /\ pc' = "verify"
        /\ UNCHANGED <<direction, bestLockFound, reversingForLock>>
    BY <1>6 DEF RepeatShift, flagVars
  <2>3. faults' >= faults /\ (e = 1 => faults' >= 1)
    BY <1>1, <2>1 DEF Shifts
  <2>4. WrongWay' <=> WrongWay
    BY <2>2 DEF WrongWay
  <2> QED
    BY <1>1, <2>1, <2>2, <2>3, <2>4 DEF CountInv, Searching, Turned
<1>7. CASE Look
  <2>1. pc = "look" /\ UNCHANGED <<hwGth, gthShiftCnt>> /\ faults' >= faults
    BY <1>1, <1>7 DEF Look, Answers, Fails
  <2>2. Ahead' = Ahead
    BY <2>1 DEF Ahead
  <2>3. ~bestLockFound
    BY <2>1 DEF CountInv, Searching
  <2>4. (pc' = "shift" /\ ~bestLockFound') \/ pc' = "done"
    BY <1>7, <2>3, LookGoesOn
  <2>5. \/ direction' = direction /\ reversingForLock' = reversingForLock
        \/ direction' = Turned(reversingForLock') /\ ~WrongWay'
    BY <1>7, LookTurns DEF WrongWay
  <2>6. CASE direction' = direction /\ reversingForLock' = reversingForLock
    <3>1. WrongWay' <=> WrongWay
      BY <2>6 DEF WrongWay
    <3> QED
      BY <1>1, <2>1, <2>2, <2>4, <2>6, <3>1 DEF CountInv, Searching, Turned
  <2>7. CASE direction' = Turned(reversingForLock') /\ ~WrongWay'
    <3>1. Ahead # 0 => faults' >= 1
      BY <1>1, <2>1 DEF CountInv, Searching
    <3> QED
      BY <2>2, <2>4, <2>7, <3>1 DEF CountInv, Searching
  <2> QED
    BY <2>5, <2>6, <2>7
<1>8. CASE UNCHANGED phaseVars
  BY <1>8 DEF phaseVars, cardVars, optionVars, flagVars, countVars, CountInv, Searching,
              Ahead, WrongWay, Turned
<1> QED
  BY <1>2, <1>3, <1>4, <1>5, <1>6, <1>7, <1>8 DEF PhaseNext

(* What one look can be, by what the search seeks.                                      *)
LookSeen(locked) ==
  /\ (Answers /\ locked = (phase \in Good)) \/ (Fails /\ signal = "PLL" /\ ~locked)
  /\ UNCHANGED <<phase, hwGth, optionVars, gthShiftCnt>>

(* A look of a search for a run of locks.                                                *)
LEMMA LookOfRun ==
  ASSUME Look, FlagTypes, SeeksRun, pc = "look",
         signal = "BC0" => ~firstUnlockFound
  PROVE  \E locked \in BOOLEAN :
           /\ LookSeen(locked)
           /\ \/ locked /\ CountsGood
              \/ ~locked /\ TurnForwards
              \/ ~locked /\ CountsBad
              \/ signal = "PLL" /\ firstUnlockFound' = TRUE
<1>1. PICK locked \in BOOLEAN :
        /\ (Answers /\ locked = (phase \in Good)) \/ (Fails /\ signal = "PLL" /\ ~locked)
        /\ FirstBC0(locked) \/ FirstPLL(locked) \/ PLLOnlyCounts(locked)
             \/ NextBC0(locked) \/ NextPLL(locked)
  BY DEF Look
<1>2. LookSeen(locked)
  BY <1>1 DEF LookSeen, Look
<1>3. FirstBC0(locked) \/ FirstPLL(locked)
  BY <1>1 DEF FirstBC0, FirstPLL, PLLOnlyCounts, NextBC0, NextPLL, SeeksRun
<1>4. CASE FirstBC0(locked)
  <2>1. RunOfLocks(locked)
    BY <1>4 DEF FirstBC0, OutOfLock, SeeksRun
  <2> QED
    BY <1>1, <1>2, <2>1 DEF RunOfLocks
<1>5. CASE FirstPLL(locked)
  <2>1. \/ RunOfLocks(locked)
        \/ signal = "PLL" /\ ~locked /\ nBadLocks + 1 > BadRun[signal] /\ OutOfLock(locked)
    BY <1>5 DEF FirstPLL
  <2>2. CASE RunOfLocks(locked)
    BY <1>1, <1>2, <2>2 DEF RunOfLocks
  <2>3. CASE signal = "PLL" /\ ~locked /\ nBadLocks + 1 > BadRun[signal] /\ OutOfLock(locked)
    <3>1. nBadLocks' = nBadLocks + 1 /\ firstUnlockFound' = (nBadLocks' > BadRun[signal])
      BY <2>3 DEF OutOfLock, CountLook
    <3>2. (nBadLocks' > BadRun[signal]) = TRUE
      BY <2>3, <3>1
    <3>3. firstUnlockFound' = TRUE
      BY <3>1, <3>2, Zenon
    <3> QED
      BY <1>1, <1>2, <2>3, <3>3
  <2> QED
    BY <2>1, <2>2, <2>3
<1> QED
  BY <1>3, <1>4, <1>5

(* A look of a search for the next lock.                                                 *)
LEMMA LookOfNext ==
  ASSUME Look, FlagTypes, SeeksNext, pc = "look"
  PROVE  /\ LookSeen(phase \in Good)
         /\ UNCHANGED faults
         /\ IF firstUnlockFound THEN NextBC0(phase \in Good) ELSE OutOfLock(phase \in Good)
<1>1. PICK locked \in BOOLEAN :
        /\ (Answers /\ locked = (phase \in Good)) \/ (Fails /\ signal = "PLL" /\ ~locked)
        /\ FirstBC0(locked) \/ FirstPLL(locked) \/ PLLOnlyCounts(locked)
             \/ NextBC0(locked) \/ NextPLL(locked)
  BY DEF Look
<1>2. signal = "BC0" /\ shiftOutOfLockFirst
  BY DEF SeeksNext
<1>3. Answers /\ locked = (phase \in Good)
  BY <1>1, <1>2
<1>4. LookSeen(phase \in Good) /\ UNCHANGED faults
  BY <1>3 DEF LookSeen, Look, Answers
<1>5. IF firstUnlockFound THEN NextBC0(locked) ELSE OutOfLock(locked)
  BY <1>1, <1>2 DEF FirstBC0, FirstPLL, PLLOnlyCounts, NextBC0, NextPLL
<1> QED
  BY <1>3, <1>4, <1>5

(* What the search seeks changes only when a PLL has been out of lock.                        *)
LEMMA SeeksSame ==
  ASSUME UNCHANGED optionVars, firstUnlockFound' = firstUnlockFound
  PROVE  (SeeksRun' <=> SeeksRun) /\ (SeeksNext' <=> SeeksNext)
  BY DEF SeeksRun, SeeksNext, optionVars

(* A search seeks at most one of the two.                                                *)
LEMMA SeeksOne == ~(SeeksRun /\ SeeksNext)
  BY DEF SeeksRun, SeeksNext

(* EntryInv is kept.                                                                *)
LEMMA EntryInvHolds ==
  ASSUME EntryInv, [PhaseNext]_phaseVars, PhaseTypes, CountInv
  PROVE  EntryInv'
<1>1. CASE Look
  <2>1. pc = "look"
    BY <1>1 DEF Look
  <2>2. pc' \in {"shift", "done"}
    BY <1>1, <2>1, LookGoesOn DEF CountInv, Searching
  <2> QED
    BY <2>2 DEF EntryInv
<1>2. CASE UNCHANGED phaseVars
  BY <1>2 DEF EntryInv, phaseVars, flagVars, countVars
<1>3. CASE ~Look /\ ~UNCHANGED phaseVars
  <2>1. pc' # "entry"
    BY <1>3 DEF PhaseNext, Prepare, AlignmentIsOff, Shift, CountIsRight, RepeatShift,
           DispatchRaises, ShiftsAreUsedUp
  <2> QED
    BY <2>1 DEF EntryInv
<1> QED
  BY <1>1, <1>2, <1>3

(* FlagInv after a look of a search for a run of locks.                                     *)
LEMMA RunKeepsFlags ==
  ASSUME PhaseTypes, FlagInv, Look, SeeksRun, pc' = "shift"
  PROVE  FlagInv'
<1>1. pc = "look" /\ FlagTypes /\ nGoodLocks \in Nat /\ signal \in Signals
  BY DEF Look, PhaseTypes, CountTypes, FlagTypes
<1>2. /\ ~firstUnlockFound
      /\ reversingForLock => nGoodLocks \in GoodRun[signal]..(BestRun[signal] - 1)
      /\ ~reversingForLock => nGoodLocks < GoodRun[signal]
  BY <1>1 DEF FlagInv, Searching
<1>3. PICK locked \in BOOLEAN :
        /\ LookSeen(locked)
        /\ \/ locked /\ CountsGood
           \/ ~locked /\ TurnForwards
           \/ ~locked /\ CountsBad
           \/ signal = "PLL" /\ firstUnlockFound' = TRUE
  BY <1>1, <1>2, LookOfRun
<1>4. UNCHANGED optionVars
  BY <1>3 DEF LookSeen
<1>5. /\ GoodRun[signal] \in Nat /\ BestRun[signal] \in Nat
      /\ 0 < GoodRun[signal] /\ GoodRun[signal] < BestRun[signal]
  BY <1>1, Thresholds
<1>6. signal' = signal /\ shiftOutOfLockFirst' = shiftOutOfLockFirst
  BY <1>4 DEF optionVars
<1>7. ~SeeksNext' /\ ~(signal = "PLL" /\ ~shiftOutOfLockFirst)
  BY <1>6 DEF SeeksNext, SeeksRun
<1>8. CASE signal = "PLL" /\ firstUnlockFound' = TRUE
  <2>1. ~SeeksRun'
    BY <1>6, <1>8 DEF SeeksRun
  <2> QED
    BY <1>6, <1>7, <2>1 DEF FlagInv
<1>9. ASSUME firstUnlockFound' = firstUnlockFound,
             IF reversingForLock' THEN nGoodLocks' \in GoodRun[signal]..(BestRun[signal] - 1)
                                  ELSE nGoodLocks' < GoodRun[signal]
      PROVE  FlagInv'
  BY <1>2, <1>6, <1>7, <1>9 DEF FlagInv
<1>10. CASE CountsGood
  <2>1. /\ nGoodLocks' = nGoodLocks + 1 /\ firstUnlockFound' = firstUnlockFound
        /\ reversingForLock' = (reversingForLock \/ nGoodLocks + 1 = GoodRun[signal])
        /\ bestLockFound' = (reversingForLock' /\ nGoodLocks + 1 = BestRun[signal])
        /\ IF bestLockFound' THEN LeaveLoop ELSE NextRound
    BY <1>10 DEF CountsGood
  <2>2. ~bestLockFound'
    BY <2>1 DEF LeaveLoop
  <2>3. ~(reversingForLock' /\ nGoodLocks + 1 = BestRun[signal])
    BY <2>1, <2>2
  <2>4. CASE reversingForLock
    <3>1. reversingForLock'
      BY <2>1, <2>4
    <3>2. nGoodLocks + 1 # BestRun[signal]
      BY <2>3, <3>1
    <3>3. nGoodLocks' \in GoodRun[signal]..(BestRun[signal] - 1)
      BY <1>1, <1>2, <1>5, <2>1, <2>4, <3>2
    <3> QED
      BY <1>9, <2>1, <3>1, <3>3
  <2>5. CASE ~reversingForLock /\ nGoodLocks + 1 = GoodRun[signal]
    <3>1. reversingForLock'
      BY <2>1, <2>5
    <3>2. nGoodLocks' \in GoodRun[signal]..(BestRun[signal] - 1)
      BY <1>1, <1>5, <2>1, <2>5
    <3> QED
      BY <1>9, <2>1, <3>1, <3>2
  <2>6. CASE ~reversingForLock /\ nGoodLocks + 1 # GoodRun[signal]
    <3>1. ~reversingForLock'
      BY <2>1, <2>6
    <3>2. nGoodLocks' < GoodRun[signal]
      BY <1>1, <1>2, <1>5, <2>1, <2>6
    <3> QED
      BY <1>9, <2>1, <3>1, <3>2
  <2> QED
    BY <2>4, <2>5, <2>6
<1>11. CASE TurnForwards
  <2>1. nGoodLocks' = 0 /\ ~reversingForLock' /\ firstUnlockFound' = firstUnlockFound
    BY <1>11 DEF TurnForwards
  <2>2. nGoodLocks' < GoodRun[signal]
    BY <1>5, <2>1
  <2> QED
    BY <1>9, <2>1, <2>2
<1>12. CASE CountsBad
  <2>1. nGoodLocks' = 0 /\ ~reversingForLock' /\ firstUnlockFound' = firstUnlockFound
    BY <1>12 DEF CountsBad, CountLook
  <2>2. nGoodLocks' < GoodRun[signal]
    BY <1>5, <2>1
  <2> QED
    BY <1>9, <2>1, <2>2
<1> QED
  BY <1>3, <1>8, <1>10, <1>11, <1>12

(* FlagInv after a look of a search for the next lock.                                      *)
LEMMA NextKeepsFlags ==
  ASSUME PhaseTypes, FlagInv, Look, SeeksNext, pc' = "shift"
  PROVE  FlagInv'
<1>1. /\ pc = "look" /\ FlagTypes /\ nGoodLocks \in Nat /\ nBadLocks \in Nat
      /\ signal = "BC0" /\ shiftOutOfLockFirst
  BY DEF Look, PhaseTypes, CountTypes, FlagTypes, SeeksNext
<1>2. /\ ~reversingForLock
      /\ ~firstUnlockFound => ~nextLockFound /\ nBadLocks <= BadRun[signal]
      /\ firstUnlockFound => nGoodLocks < Half[signal]
      /\ firstUnlockFound /\ ~nextLockFound => nGoodLocks = 0
      /\ nextLockFound => nGoodLocks > 0
  BY <1>1 DEF FlagInv, Searching
<1>3. /\ LookSeen(phase \in Good)
      /\ IF firstUnlockFound THEN NextBC0(phase \in Good) ELSE OutOfLock(phase \in Good)
  BY <1>1, LookOfNext
<1>4. signal' = signal /\ shiftOutOfLockFirst' = shiftOutOfLockFirst
  BY <1>3 DEF LookSeen, optionVars
<1>5. Half[signal] \in Nat /\ 0 < Half[signal] /\ BadRun[signal] \in Nat
  BY <1>1, Thresholds DEF Signals
<1>6. ASSUME ~reversingForLock',
             ~firstUnlockFound' => ~nextLockFound' /\ nBadLocks' <= BadRun[signal],
             firstUnlockFound' => nGoodLocks' < Half[signal],
             firstUnlockFound' /\ ~nextLockFound' => nGoodLocks' = 0,
             nextLockFound' => nGoodLocks' > 0
      PROVE  FlagInv'
  <2>1. ~SeeksRun' /\ signal' # "PLL"
    BY <1>1, <1>4 DEF SeeksRun
  <2> QED
    BY <1>4, <1>6, <2>1 DEF FlagInv
<1>7. CASE ~firstUnlockFound
  <2>1. /\ CountLook(phase \in Good) /\ reversingForLock' = reversingForLock
        /\ nextLockFound' = nextLockFound
        /\ firstUnlockFound' = (nBadLocks' > BadRun[signal])
    BY <1>3, <1>7 DEF OutOfLock
  <2>2. ~firstUnlockFound' => nBadLocks' <= BadRun[signal]
    <3>1. nBadLocks' \in Nat
      BY <1>1, <2>1 DEF CountLook
    <3>2. ASSUME ~firstUnlockFound' PROVE ~(nBadLocks' > BadRun[signal])
      BY <2>1, <3>2, Zenon
    <3> QED
      BY <1>5, <3>1, <3>2
  <2>3. firstUnlockFound' => nGoodLocks' = 0
    <3>1. ASSUME firstUnlockFound' PROVE nBadLocks' > BadRun[signal]
      BY <2>1, <3>1, Zenon
    <3>2. phase \in Good => nBadLocks' = 0
      BY <2>1 DEF CountLook
    <3>3. phase \notin Good => nGoodLocks' = 0
      BY <2>1 DEF CountLook
    <3> QED
      BY <1>5, <3>1, <3>2, <3>3
  <2> QED
    BY <1>2, <1>5, <1>6, <1>7, <2>1, <2>2, <2>3
<1>8. CASE firstUnlockFound
  <2>1. /\ nextLockFound' = (nextLockFound \/ phase \in Good)
        /\ nGoodLocks' = IF phase \in Good THEN nGoodLocks + 1 ELSE nGoodLocks
        /\ bestLockFound' = (nGoodLocks' = Half[signal])
        /\ IF bestLockFound' THEN LeaveLoop ELSE NextRound
        /\ firstUnlockFound' = firstUnlockFound /\ reversingForLock' = reversingForLock
    BY <1>3, <1>8 DEF NextBC0
  <2>2. ~bestLockFound'
    BY <2>1 DEF LeaveLoop
  <2>3. nGoodLocks' # Half[signal]
    BY <2>1, <2>2, Zenon
  <2>4. nGoodLocks' < Half[signal]
    BY <1>1, <1>2, <1>5, <1>8, <2>1, <2>3
  <2>5. nextLockFound' <=> nextLockFound \/ phase \in Good
    BY <2>1, Zenon
  <2> QED
    BY <1>1, <1>2, <1>6, <1>8, <2>1, <2>4, <2>5
<1> QED
  BY <1>7, <1>8

(* FlagInv is kept.                                                                 *)
LEMMA FlagInvHolds ==
  ASSUME PhaseTypes, EntryInv, CountInv, FlagInv, [PhaseNext]_phaseVars
  PROVE  FlagInv'
<1>1. CASE ~Searching'
  BY <1>1 DEF FlagInv
<1>2. CASE Prepare
  <2>1. /\ ~firstUnlockFound' /\ ~nextLockFound' /\ ~reversingForLock'
        /\ nGoodLocks' = 0 /\ nBadLocks' = 0 /\ signal' = signal
    BY <1>2 DEF Prepare, EntryInv, flagVars, countVars, optionVars
  <2>2. signal \in Signals
    BY DEF PhaseTypes, FlagTypes
  <2>3. 0 < GoodRun[signal] /\ 0 <= BadRun[signal]
    BY <2>2, Thresholds
  <2> QED
    BY <2>1, <2>3 DEF FlagInv
<1>3. CASE Look /\ Searching'
  <2>1. pc = "look" /\ ~bestLockFound /\ pc' # "done"
    BY <1>3 DEF Look, CountInv, Searching
  <2>2. pc' = "shift"
    BY <1>3, <2>1, LookGoesOn
  <2>3. CASE ~SeeksRun /\ ~SeeksNext
    <3>1. signal = "PLL"
      BY <2>3 DEF SeeksRun, SeeksNext, PhaseTypes, FlagTypes, Signals
    <3>2. UNCHANGED optionVars
      BY <1>3 DEF Look
    <3>3. PICK locked \in BOOLEAN : PLLOnlyCounts(locked) \/ NextPLL(locked)
      BY <1>3, <2>3, <3>1 DEF Look, SeeksRun, FirstBC0, FirstPLL, NextBC0
    <3>4. firstUnlockFound' = firstUnlockFound /\ reversingForLock' = reversingForLock
      BY <3>3 DEF PLLOnlyCounts, NextPLL, flagVars
    <3>5. ~SeeksRun' /\ ~SeeksNext'
      BY <2>3, <3>2, <3>4, SeeksSame
    <3>6. /\ (signal = "PLL" /\ ~shiftOutOfLockFirst)
               => ~firstUnlockFound /\ ~reversingForLock
      BY <2>1 DEF FlagInv, Searching
    <3> QED
      BY <3>2, <3>4, <3>5, <3>6 DEF FlagInv, optionVars
  <2> QED
    BY <1>3, <2>2, <2>3, RunKeepsFlags, NextKeepsFlags
<1>4. CASE /\ Searching /\ UNCHANGED <<optionVars, flagVars, countVars>>
  <2>1. /\ SeeksRun' <=> SeeksRun
        /\ SeeksNext' <=> SeeksNext
    BY <1>4, SeeksSame DEF flagVars
  <2>2. /\ signal' = signal /\ shiftOutOfLockFirst' = shiftOutOfLockFirst
        /\ firstUnlockFound' = firstUnlockFound /\ nextLockFound' = nextLockFound
        /\ reversingForLock' = reversingForLock
        /\ nGoodLocks' = nGoodLocks /\ nBadLocks' = nBadLocks
    BY <1>4 DEF optionVars, flagVars, countVars
  <2> QED
    BY <1>4, <2>1, <2>2 DEF FlagInv
<1>5. CASE Shift \/ CountIsRight \/ RepeatShift
  <2>1. Searching /\ UNCHANGED <<optionVars, flagVars, countVars>>
    BY <1>5 DEF Shift, CountIsRight, RepeatShift, Searching
  <2> QED
    BY <1>4, <2>1
<1>6. CASE UNCHANGED phaseVars /\ Searching'
  <2>1. Searching /\ UNCHANGED <<optionVars, flagVars, countVars>>
    BY <1>6 DEF phaseVars, Searching
  <2> QED
    BY <1>4, <2>1
<1>7. CASE AlignmentIsOff \/ DispatchRaises \/ ShiftsAreUsedUp
  <2>1. ~Searching'
    BY <1>7 DEF AlignmentIsOff, DispatchRaises, ShiftsAreUsedUp, Searching
  <2> QED
    BY <1>1, <2>1
<1> QED
  BY <1>1, <1>2, <1>3, <1>5, <1>6, <1>7 DEF PhaseNext

-----------------------------------------------------------------------------
(* How a step moves the card.                                                        *)

(* What failures cost.                                                               *)
LEMMA SpentFacts ==
  ASSUME faults \in Nat
  PROVE  /\ Spent \in Nat
         /\ faults = 0 => Spent = 0
         /\ faults >= 1 => Spent >= GthSteps
         /\ faults >= 2 => Spent >= 2 * GthSteps
<1>1. GthSteps \in Nat
  BY RingFacts
<1>2. ASSUME faults >= 1 PROVE faults = 1 + (faults - 1) /\ GthSteps * (faults - 1) \in Nat
  BY <1>1, <1>2
<1>3. ASSUME faults >= 2 PROVE faults = 2 + (faults - 2) /\ GthSteps * (faults - 2) \in Nat
  BY <1>1, <1>3
<1>4. Spent \in Nat /\ (faults = 0 => Spent = 0)
  BY <1>1 DEF Spent
<1>5. ASSUME faults >= 1 PROVE Spent >= GthSteps
  <2>1. Spent = GthSteps + GthSteps * (faults - 1)
    BY <1>1, <1>5, <1>2 DEF Spent
  <2> QED
    BY <1>1, <1>5, <1>2, <2>1
<1>6. ASSUME faults >= 2 PROVE Spent >= 2 * GthSteps
  <2>1. Spent = 2 * GthSteps + GthSteps * (faults - 2)
    BY <1>1, <1>6, <1>3 DEF Spent
  <2> QED
    BY <1>1, <1>6, <1>3, <2>1
<1> QED
  BY <1>4, <1>5, <1>6

(* One more failure.                                                                *)
LEMMA SpentMoves ==
  ASSUME faults \in Nat, NEW e \in 0..1, faults' = faults + e
  PROVE  Spent' = IF e = 0 THEN Spent ELSE Spent + GthSteps
<1>1. GthSteps \in Nat
  BY RingFacts
<1>2. CASE e = 0
  BY <1>2 DEF Spent
<1>3. CASE e = 1
  <2>1. GthSteps * (faults + 1) = GthSteps * faults + GthSteps
    BY <1>1
  <2> QED
    BY <1>3, <2>1 DEF Spent
<1> QED
  BY <1>2, <1>3

(* The margin of a search for a run of locks that is intact.                               *)
LEMMA IntactRun ==
  ASSUME PhaseTypes, SeeksRun, Intact
  PROVE  /\ Spent <= RunMargin(signal) /\ Spent + Width < Ring
         /\ Spent <= BestRun[signal] - GoodRun[signal]
         /\ Spent <= 2 * GoodRun[signal] - BestRun[signal] - 1
         /\ faults = 0 \/ signal = "BC0"
<1>1. signal \in Signals /\ faults \in Nat
  BY DEF PhaseTypes, FlagTypes, CountTypes
<1>2. ~SeeksNext
  BY SeeksOne
<1>3. CASE signal = "BC0"
  <2>1. Spent <= RunMargin("BC0")
    BY <1>2, <1>3 DEF Intact
  <2>2. RunMargin("BC0") < Ring - Width
    BY WrongWayAssumption DEF Width
  <2>3. Spent \in Nat /\ RunMargin("BC0") \in Nat /\ Ring \in Nat /\ Width \in Nat
    BY <1>1, <1>3, SpentFacts, Margins, RingFacts
  <2>4. Spent + Width < Ring
    BY <2>1, <2>2, <2>3
  <2>5. /\ BestRun[signal] \in Nat /\ GoodRun[signal] \in Nat
        /\ RunMargin(signal) <= BestRun[signal] - GoodRun[signal]
        /\ RunMargin(signal) <= 2 * GoodRun[signal] - BestRun[signal] - 1
    BY <1>1, Margins, Thresholds
  <2> QED
    BY <1>3, <2>1, <2>3, <2>4, <2>5
<1>4. CASE signal # "BC0"
  <2>1. faults = 0
    BY <1>2, <1>4 DEF Intact
  <2>2. Spent = 0
    BY <2>1, SpentFacts
  <2>3. /\ BestRun[signal] \in Nat /\ GoodRun[signal] \in Nat /\ RunMargin(signal) \in Nat
        /\ RunMargin(signal) <= BestRun[signal] - GoodRun[signal]
        /\ RunMargin(signal) <= 2 * GoodRun[signal] - BestRun[signal] - 1
        /\ Ring \in Nat /\ Width \in Nat /\ GthSteps \in Nat /\ Width + GthSteps < Ring
    BY <1>1, Margins, Thresholds, RingFacts
  <2> QED
    BY <2>1, <2>2, <2>3
<1> QED
  BY <1>3, <1>4

(* The margin of a search for the next lock that is intact.                               *)
LEMMA IntactNext ==
  ASSUME PhaseTypes, SeeksNext, Intact
  PROVE  /\ Spent <= HalfMargin("BC0")
         /\ Spent <= Half["BC0"] - 1 /\ Spent <= Width - Half["BC0"]
<1>1. Spent <= HalfMargin("BC0")
  BY DEF Intact
<1>2. Spent \in Nat /\ "BC0" \in Signals
  BY SpentFacts DEF PhaseTypes, CountTypes, Signals
<1>3. /\ HalfMargin("BC0") \in Nat /\ Half["BC0"] \in Nat /\ Width \in Nat
      /\ HalfMargin("BC0") <= Half["BC0"] - 1 /\ HalfMargin("BC0") <= Width - Half["BC0"]
  BY <1>2, Margins, Thresholds, RingFacts
<1> QED
  BY <1>1, <1>2, <1>3

(* The margin was intact if it still is.                                                *)
LEMMA IntactBefore ==
  ASSUME PhaseTypes, UNCHANGED optionVars, NEW e \in 0..1, faults' = faults + e, Intact'
  PROVE  Intact
<1>1. faults \in Nat
  BY DEF PhaseTypes, CountTypes
<1>2. Spent \in Nat /\ GthSteps \in Nat /\ "BC0" \in Signals
  BY <1>1, SpentFacts, RingFacts DEF Signals
<1>3. Spent <= Spent'
  BY <1>1, <1>2, SpentMoves
<1>4. HalfMargin("BC0") \in Nat /\ RunMargin("BC0") \in Nat
  BY <1>2, Margins
<1>5. Spent' \in Nat
  BY <1>1, <1>2, SpentMoves
<1>6. (SeeksNext' <=> SeeksNext) /\ signal' = signal
  BY DEF SeeksNext, optionVars
<1>7. CASE SeeksNext
  <2>1. Spent' <= HalfMargin("BC0")
    BY <1>6, <1>7 DEF Intact
  <2>2. Spent <= HalfMargin("BC0")
    BY <1>2, <1>3, <1>4, <1>5, <2>1
  <2> QED
    BY <1>7, <2>2 DEF Intact
<1>8. CASE ~SeeksNext /\ signal = "BC0"
  <2>1. Spent' <= RunMargin("BC0")
    BY <1>6, <1>8 DEF Intact
  <2>2. Spent <= RunMargin("BC0")
    BY <1>2, <1>3, <1>4, <1>5, <2>1
  <2> QED
    BY <1>8, <2>2 DEF Intact
<1>9. CASE ~SeeksNext /\ signal # "BC0"
  <2>1. faults' = 0
    BY <1>6, <1>9 DEF Intact
  <2>2. faults = 0
    BY <1>1, <2>1
  <2> QED
    BY <1>9, <2>2 DEF Intact
<1> QED
  BY <1>7, <1>8, <1>9

(* The moves that are due: one for the shift at the head of the loop.                       *)
Due == IF pc = "shift" THEN 1 ELSE 0

(* A shift, the first of its round or repeated.                                            *)
LEMMA MoveStep ==
  ASSUME PhaseTypes, Shift \/ RepeatShift
  PROVE  /\ pc' = "verify" /\ pc \in {"shift", "verify"} /\ NoLook
         /\ \E n \in 0..2, e \in 0..1 :
              /\ e = 0 => n = 1 /\ (pc = "verify" => Ahead # 0)
              /\ Shifts(n, e, IF pc = "shift" THEN Turned(reversingForLock) ELSE 0)
<1>1. CASE Shift
  <2>1. pc = "shift" /\ pc' = "verify" /\ NoLook
    BY <1>1 DEF Shift, NoLook
  <2>2. PICK n \in 0..2, e \in 0..1 :
          /\ e = 0 => n = 1
          /\ Shifts(n, e, Turned(reversingForLock))
    BY <1>1, ShiftStep
  <2>3. Shifts(n, e, IF pc = "shift" THEN Turned(reversingForLock) ELSE 0)
    BY <2>1, <2>2
  <2> QED
    BY <2>1, <2>2, <2>3
<1>2. CASE RepeatShift
  <2>1. pc = "verify" /\ pc' = "verify" /\ NoLook
    BY <1>2 DEF RepeatShift, NoLook
  <2>2. PICK n \in 0..2, e \in 0..1 :
          /\ e = 0 => n = 1 /\ Ahead # 0
          /\ Shifts(n, e, 0)
    BY <1>2, RepeatStep
  <2>3. Shifts(n, e, IF pc = "shift" THEN Turned(reversingForLock) ELSE 0)
    BY <2>1, <2>2
  <2> QED
    BY <2>1, <2>2, <2>3
<1> QED
  BY <1>1, <1>2

(* A clock that goes forwards: neither does it lag behind the moves that are due, nor does
   it get ahead of them, by more than the failures cost.                              *)
LEMMA ForwardsStep ==
  ASSUME PhaseTypes, Shift \/ RepeatShift, direction = 1, ~reversingForLock
  PROVE  \E n \in 0..2, ahead \in 0..(GthSteps - 1), behind \in 0..(GthSteps - 1), spent \in Nat :
           /\ phase' = Wrapped(phase + n, Ring)
           /\ phase + n - ahead >= phase - Ahead + Due - (spent - Spent)
           /\ phase + n + behind <= phase + Behind + Due + (spent - Spent)
           /\ Ahead' = ahead /\ Behind' = behind /\ Spent' = spent
           /\ Spent <= spent /\ faults' \in Nat
<1>1. CardTypes /\ faults \in Nat
  BY DEF PhaseTypes, CountTypes
<1>2. PICK n \in 0..2, e \in 0..1 :
        /\ e = 0 => n = 1 /\ (pc = "verify" => Ahead # 0)
        /\ Shifts(n, e, IF pc = "shift" THEN Turned(reversingForLock) ELSE 0)
  BY MoveStep
<1>3. pc \in {"shift", "verify"}
  BY MoveStep
<1>4. /\ faults' = faults + e
      /\ phase' = Wrapped(phase + n, Ring)
      /\ Ahead' = Wrapped(Ahead + n - Due, GthSteps)
  BY <1>2 DEF Shifts, Way, Turned, Due
<1>5. Spent' = IF e = 0 THEN Spent ELSE Spent + GthSteps
  BY <1>1, <1>4, SpentMoves
<1>6. Due \in 0..1 /\ (Due = 0 => pc = "verify")
  BY <1>3 DEF Due
<1>7. /\ Ahead \in 0..(GthSteps - 1) /\ Behind \in 0..(GthSteps - 1) /\ Spent \in Nat
      /\ GthSteps \in Nat /\ GthSteps > 2 /\ phase \in Nat
  BY <1>1, AheadTypes, SpentFacts, RingFacts DEF CardTypes
<1>8. PICK ahead \in 0..(GthSteps - 1) : Ahead' = ahead
  BY <1>2 DEF Shifts
<1>9. PICK behind \in 0..(GthSteps - 1) :
        /\ Behind' = behind
        /\ behind = IF ahead = 0 THEN 0 ELSE GthSteps - ahead
  <2>1. Behind' = IF ahead = 0 THEN 0 ELSE GthSteps - ahead
    BY <1>8 DEF Behind
  <2>2. (IF ahead = 0 THEN 0 ELSE GthSteps - ahead) \in 0..(GthSteps - 1)
    BY <1>7
  <2> QED
    BY <2>1, <2>2
<1>10. PICK spent \in Nat : Spent' = spent /\ spent = IF e = 0 THEN Spent ELSE Spent + GthSteps
  BY <1>5, <1>7
<1>11. Behind = IF Ahead = 0 THEN 0 ELSE GthSteps - Ahead
  BY DEF Behind
<1>12. ahead = Wrapped(Ahead + n - Due, GthSteps)
  BY <1>4, <1>8
<1>13. /\ phase + n - ahead >= phase - Ahead + Due - (spent - Spent)
       /\ phase + n + behind <= phase + Behind + Due + (spent - Spent)
       /\ Spent <= spent
  BY <1>2, <1>6, <1>7, <1>9, <1>10, <1>11, <1>12 DEF Wrapped
<1> QED
  BY <1>1, <1>4, <1>8, <1>9, <1>10, <1>13

(* A clock that goes back.                                                             *)
LEMMA BackStep ==
  ASSUME PhaseTypes, Shift \/ RepeatShift, direction = -1, reversingForLock
  PROVE  \E n \in 0..2, ahead \in 0..(GthSteps - 1), behind \in 0..(GthSteps - 1), spent \in Nat :
           /\ phase' = Wrapped(phase - n, Ring)
           /\ phase - n - ahead >= phase - Ahead - Due - (spent - Spent)
           /\ phase - n + behind <= phase + Behind - Due + (spent - Spent)
           /\ Ahead' = ahead /\ Behind' = behind /\ Spent' = spent
           /\ Spent <= spent /\ faults' \in Nat
<1>1. CardTypes /\ faults \in Nat
  BY DEF PhaseTypes, CountTypes
<1>2. PICK n \in 0..2, e \in 0..1 :
        /\ e = 0 => n = 1 /\ (pc = "verify" => Ahead # 0)
        /\ Shifts(n, e, IF pc = "shift" THEN Turned(reversingForLock) ELSE 0)
  BY MoveStep
<1>3. pc \in {"shift", "verify"}
  BY MoveStep
<1>4. /\ faults' = faults + e
      /\ phase' = Wrapped(phase - n, Ring)
      /\ Ahead' = Wrapped(Ahead - n + Due, GthSteps)
  <2>1. /\ Way(n) = -n
        /\ (IF pc = "shift" THEN Turned(reversingForLock) ELSE 0) = -Due
    BY DEF Way, Turned, Due
  <2>2. phase + (-n) = phase - n /\ Ahead + (-n) - (-Due) = Ahead - n + Due
    BY <1>1, AheadTypes DEF CardTypes, Due
  <2> QED
    BY <1>2, <2>1, <2>2 DEF Shifts
<1>5. Spent' = IF e = 0 THEN Spent ELSE Spent + GthSteps
  BY <1>1, <1>4, SpentMoves
<1>6. Due \in 0..1 /\ (Due = 0 => pc = "verify")
  BY <1>3 DEF Due
<1>7. /\ Ahead \in 0..(GthSteps - 1) /\ Behind \in 0..(GthSteps - 1) /\ Spent \in Nat
      /\ GthSteps \in Nat /\ GthSteps > 2 /\ phase \in Nat
  BY <1>1, AheadTypes, SpentFacts, RingFacts DEF CardTypes
<1>8. PICK ahead \in 0..(GthSteps - 1) : Ahead' = ahead
  BY <1>2 DEF Shifts
<1>9. PICK behind \in 0..(GthSteps - 1) :
        /\ Behind' = behind
        /\ behind = IF ahead = 0 THEN 0 ELSE GthSteps - ahead
  <2>1. Behind' = IF ahead = 0 THEN 0 ELSE GthSteps - ahead
    BY <1>8 DEF Behind
  <2>2. (IF ahead = 0 THEN 0 ELSE GthSteps - ahead) \in 0..(GthSteps - 1)
    BY <1>7
  <2> QED
    BY <2>1, <2>2
<1>10. PICK spent \in Nat : Spent' = spent /\ spent = IF e = 0 THEN Spent ELSE Spent + GthSteps
  BY <1>5, <1>7
<1>11. Behind = IF Ahead = 0 THEN 0 ELSE GthSteps - Ahead
  BY DEF Behind
<1>12. ahead = Wrapped(Ahead - n + Due, GthSteps)
  BY <1>4, <1>8
<1>13. /\ phase - n - ahead >= phase - Ahead - Due - (spent - Spent)
       /\ phase - n + behind <= phase + Behind - Due + (spent - Spent)
       /\ Spent <= spent
  BY <1>2, <1>6, <1>7, <1>9, <1>10, <1>11, <1>12 DEF Wrapped
<1> QED
  BY <1>1, <1>4, <1>8, <1>9, <1>10, <1>13

(* A clock that goes the wrong way.                                                     *)
LEMMA WrongStep ==
  ASSUME PhaseTypes, Shift \/ RepeatShift, WrongWay
  PROVE  \E n \in 0..2, ahead \in 0..(GthSteps - 1), spent \in Nat :
           /\ phase' = Wrapped(phase - n, Ring)
           /\ \A at \in Int :
                /\ at - n - ahead >= at - Ahead - Due * GthSteps - (spent - Spent)
                /\ at - n - ahead <= Behindhand(at) - Due * (GthSteps - 1) + (spent - Spent)
           /\ Ahead' = ahead /\ Spent' = spent
           /\ Spent <= spent /\ faults' \in Nat
<1>1. CardTypes /\ faults \in Nat /\ direction = -1 /\ ~reversingForLock
  BY DEF PhaseTypes, CountTypes, WrongWay
<1>2. PICK n \in 0..2, e \in 0..1 :
        /\ e = 0 => n = 1 /\ (pc = "verify" => Ahead # 0)
        /\ Shifts(n, e, IF pc = "shift" THEN Turned(reversingForLock) ELSE 0)
  BY MoveStep
<1>3. pc \in {"shift", "verify"}
  BY MoveStep
<1>4. /\ faults' = faults + e
      /\ phase' = Wrapped(phase - n, Ring)
      /\ Ahead' = Wrapped(Ahead - n - Due, GthSteps)
  <2>1. /\ Way(n) = -n
        /\ (IF pc = "shift" THEN Turned(reversingForLock) ELSE 0) = Due
    BY <1>1 DEF Way, Turned, Due
  <2>2. phase + (-n) = phase - n /\ Ahead + (-n) - Due = Ahead - n - Due
    BY <1>1, AheadTypes DEF CardTypes, Due
  <2> QED
    BY <1>2, <2>1, <2>2 DEF Shifts
<1>5. Spent' = IF e = 0 THEN Spent ELSE Spent + GthSteps
  BY <1>1, <1>4, SpentMoves
<1>6. \/ Due = 1 /\ pc = "shift"
      \/ Due = 0 /\ pc = "verify"
  BY <1>3 DEF Due
<1>7. /\ Ahead \in 0..(GthSteps - 1) /\ Spent \in Nat
      /\ GthSteps \in Nat /\ GthSteps > 2
  BY <1>1, AheadTypes, SpentFacts, RingFacts
<1>8. PICK ahead \in 0..(GthSteps - 1), spent \in Nat :
        /\ Ahead' = ahead
        /\ Spent' = spent /\ spent = IF e = 0 THEN Spent ELSE Spent + GthSteps
  BY <1>2, <1>5, <1>7 DEF Shifts
<1>9. ASSUME NEW at \in Int
      PROVE  /\ at - n - ahead >= at - Ahead - Due * GthSteps - (spent - Spent)
             /\ at - n - ahead <= Behindhand(at) - Due * (GthSteps - 1) + (spent - Spent)
  <2>1. CASE Due = 1 /\ pc = "shift"
    <3>1. Behindhand(at) = at - Ahead + (IF Ahead >= 2 THEN GthSteps ELSE 0)
      BY <2>1 DEF Behindhand
    <3>2. ahead = Wrapped(Ahead - n - 1, GthSteps)
      BY <1>4, <1>8, <2>1
    <3>3. /\ at - n - ahead >= at - Ahead - GthSteps - (spent - Spent)
          /\ at - n - ahead <= Behindhand(at) - (GthSteps - 1) + (spent - Spent)
      BY <1>2, <1>7, <1>8, <3>1, <3>2 DEF Wrapped
    <3> QED
      BY <1>2, <1>7, <1>8, <2>1, <3>3
  <2>2. CASE Due = 0 /\ pc = "verify"
    <3>1. Behindhand(at) = at - Ahead
      BY <1>7, <2>2 DEF Behindhand
    <3>2. ahead = Wrapped(Ahead - n, GthSteps)
      BY <1>4, <1>7, <1>8, <2>2
    <3>3. /\ at - n - ahead >= at - Ahead - (spent - Spent)
          /\ at - n - ahead <= Behindhand(at) + (spent - Spent)
      BY <1>2, <1>7, <1>8, <2>2, <3>1, <3>2 DEF Wrapped
    <3> QED
      BY <1>2, <1>7, <1>8, <2>2, <3>1, <3>3
  <2> QED
    BY <1>6, <2>1, <2>2
<1>10. Spent <= spent
  BY <1>7, <1>8
<1>11. faults' \in Nat
  BY <1>1, <1>2, <1>4
<1> QED
  BY <1>2, <1>4, <1>8, <1>9, <1>10, <1>11, Zenon

-----------------------------------------------------------------------------
(* Where the clock is, shift by shift.                                              *)

(* What the invariant says of the costs of a search that is intact.                         *)
LEMMA Costs ==
  ASSUME PhaseTypes, CountInv, Searching
  PROVE  /\ Ahead \in 0..(GthSteps - 1) /\ Spent \in Nat
         /\ Behind = IF Ahead = 0 THEN 0 ELSE GthSteps - Ahead
         /\ pc # "verify" /\ Ahead # 0 => Spent >= GthSteps
         /\ ~WrongWay /\ Ahead # 0 => Spent >= GthSteps
         /\ WrongWay => Spent >= GthSteps
         /\ WrongWay /\ pc # "verify" /\ Ahead # 0 => Spent >= 2 * GthSteps
<1>1. CardTypes /\ faults \in Nat
  BY DEF PhaseTypes, CountTypes
<1>2. Ahead \in 0..(GthSteps - 1) /\ Spent \in Nat
  BY <1>1, AheadTypes, SpentFacts
<1>3. /\ faults >= 1 => Spent >= GthSteps
      /\ faults >= 2 => Spent >= 2 * GthSteps
  BY <1>1, SpentFacts
<1>4. /\ Ahead # 0 => faults >= 1 \/ (WrongWay /\ pc = "verify")
      /\ WrongWay => faults >= 1 /\ (pc # "verify" /\ Ahead # 0 => faults >= 2)
  BY DEF CountInv
<1> QED
  BY <1>2, <1>3, <1>4 DEF Behind

(* What the shifts leave of the search.                                                  *)
LEMMA ShiftLeaves ==
  ASSUME PhaseTypes, Shift \/ RepeatShift, Intact'
  PROVE  /\ Searching /\ pc \in {"shift", "verify"} /\ pc' = "verify" /\ Intact
         /\ (SeeksRun' <=> SeeksRun) /\ (SeeksNext' <=> SeeksNext) /\ (WrongWay' <=> WrongWay)
         /\ direction' = direction /\ signal' = signal
         /\ firstUnlockFound' = firstUnlockFound /\ nextLockFound' = nextLockFound
         /\ reversingForLock' = reversingForLock
         /\ nGoodLocks' = nGoodLocks /\ nBadLocks' = nBadLocks
<1>1. /\ pc' = "verify" /\ pc \in {"shift", "verify"} /\ NoLook
  BY MoveStep
<1>2. PICK e \in 0..1 : faults' = faults + e
  BY MoveStep DEF Shifts
<1>3. /\ UNCHANGED optionVars /\ direction' = direction /\ signal' = signal
      /\ firstUnlockFound' = firstUnlockFound /\ nextLockFound' = nextLockFound
      /\ reversingForLock' = reversingForLock
      /\ nGoodLocks' = nGoodLocks /\ nBadLocks' = nBadLocks
  BY <1>1 DEF NoLook, optionVars, flagVars, countVars
<1>4. Intact
  BY <1>2, <1>3, IntactBefore
<1>5. (SeeksRun' <=> SeeksRun) /\ (SeeksNext' <=> SeeksNext)
  BY <1>3, SeeksSame
<1>6. WrongWay' <=> WrongWay
  BY <1>3 DEF WrongWay
<1> QED
  BY <1>1, <1>3, <1>4, <1>5, <1>6 DEF Searching

(* The margin is as intact after a step as before it, or more of it is used up.               *)
LEMMA ShiftMargin ==
  ASSUME PhaseTypes, Shift \/ RepeatShift, Intact', NEW spent \in Nat, Spent' = spent
  PROVE  /\ SeeksRun => spent + Width < Ring /\ spent <= 2 * GoodRun[signal] - BestRun[signal] - 1
         /\ SeeksNext => spent <= Half["BC0"] - 1 /\ spent <= Width - Half["BC0"]
<1>1. PhaseTypes'
  <2>1. [PhaseNext]_phaseVars
    BY DEF PhaseNext
  <2> QED
    BY <2>1, CardTypesHold, LookTypesHold DEF PhaseTypes
<1>2. (SeeksRun' <=> SeeksRun) /\ (SeeksNext' <=> SeeksNext) /\ signal' = signal
  BY ShiftLeaves
<1>3. ASSUME SeeksRun
      PROVE  spent + Width < Ring /\ spent <= 2 * GoodRun[signal] - BestRun[signal] - 1
  <2>1. (PhaseTypes /\ SeeksRun /\ Intact =>
          Spent + Width < Ring /\ Spent <= 2 * GoodRun[signal] - BestRun[signal] - 1)'
    BY IntactRun, PTL
  <2>2. Spent' + Width < Ring /\ Spent' <= 2 * GoodRun[signal] - BestRun[signal] - 1
    BY <1>1, <1>2, <1>3, <2>1
  <2> QED
    BY <2>2
<1>4. ASSUME SeeksNext
      PROVE  spent <= Half["BC0"] - 1 /\ spent <= Width - Half["BC0"]
  <2>1. (PhaseTypes /\ SeeksNext /\ Intact =>
          Spent <= Half["BC0"] - 1 /\ Spent <= Width - Half["BC0"])'
    BY IntactNext, PTL
  <2>2. Spent' <= Half["BC0"] - 1 /\ Spent' <= Width - Half["BC0"]
    BY <1>1, <1>2, <1>4, <2>1
  <2> QED
    BY <2>2
<1> QED
  BY <1>3, <1>4

(* The distances, and after a step.                                                      *)
LEMMA PlaceTypes ==
  PhaseTypes => Ahead \in 0..(GthSteps - 1) /\ Behind \in Int /\ Offset \in Int
<1>1. PhaseTypes => Offset \in Int
  BY RingFacts DEF PhaseTypes, CardTypes, Offset
<1>2. PhaseTypes => Ahead \in 0..(GthSteps - 1) /\ Behind \in Int
  BY AheadTypes DEF PhaseTypes
<1> QED
  BY <1>1, <1>2

(* The same after a step.                                                              *)
LEMMA PlacesNext ==
  ASSUME PhaseTypes'
  PROVE  /\ \E ahead \in 0..(GthSteps - 1) : Ahead' = ahead
         /\ \E offset \in Int : Offset' = offset
<1>1. (PhaseTypes => Ahead \in 0..(GthSteps - 1) /\ Behind \in Int /\ Offset \in Int)'
  BY PlaceTypes, PTL
<1>2. Ahead' \in 0..(GthSteps - 1) /\ Offset' \in Int
  BY <1>1
<1> QED
  BY <1>2

(* A run of good phases, forwards.                                                      *)
LEMMA ShiftKeepsRunForwards ==
  ASSUME PhaseTypes, CountInv, FlagInv, RunForwards, Intact', Shift \/ RepeatShift
  PROVE  RunForwards'
<1> SUFFICES ASSUME SeeksRun, ~reversingForLock, direction = 1, nGoodLocks > 0
             PROVE  /\ pc' # "shift"
                    /\ phase' - Ahead' >= nGoodLocks - Spent'
                    /\ phase' + Behind' <= Width + Spent'
  BY ShiftLeaves DEF RunForwards, Moves
<1>1. Searching /\ pc \in {"shift", "verify"} /\ pc' = "verify" /\ Intact
  BY ShiftLeaves
<1>2. /\ pc = "shift" => 0 <= phase /\ phase < Width
      /\ phase - Ahead >= Moves(nGoodLocks) - Spent
      /\ pc # "shift" => phase + Behind <= Width + Spent
  BY RingFacts DEF RunForwards, PhaseTypes, CardTypes
<1>3. PICK n \in 0..2, ahead \in 0..(GthSteps - 1), behind \in 0..(GthSteps - 1), spent \in Nat :
        /\ phase' = Wrapped(phase + n, Ring)
        /\ phase + n - ahead >= phase - Ahead + Due - (spent - Spent)
        /\ phase + n + behind <= phase + Behind + Due + (spent - Spent)
        /\ Ahead' = ahead /\ Behind' = behind /\ Spent' = spent
        /\ Spent <= spent
  BY ForwardsStep
<1>4. spent + Width < Ring
  BY <1>3, ShiftMargin
<1>5. /\ Ahead \in 0..(GthSteps - 1) /\ Spent \in Nat
      /\ Behind = IF Ahead = 0 THEN 0 ELSE GthSteps - Ahead
      /\ Ahead # 0 => Spent >= GthSteps
  <2>1. ~WrongWay
    BY DEF WrongWay
  <2> QED
    BY <1>1, <2>1, Costs
<1>6. /\ phase \in Nat /\ nGoodLocks \in Nat /\ Ring \in Nat /\ Width \in Nat
      /\ GthSteps \in Nat /\ GthSteps > 2 /\ Width + GthSteps < Ring
  BY RingFacts DEF PhaseTypes, CardTypes, CountTypes
<1>7. /\ Moves(nGoodLocks) + Due = nGoodLocks /\ Due \in 0..1
      /\ pc = "shift" => Due = 1
      /\ pc # "shift" => Due = 0
  BY <1>1, <1>6 DEF Moves, Due
<1>8. phase + n + behind <= Width + spent
  <2>1. CASE pc = "shift"
    BY <1>2, <1>3, <1>5, <1>6, <1>7, <2>1
  <2>2. CASE pc # "shift"
    BY <1>2, <1>3, <1>5, <1>6, <1>7, <2>2
  <2> QED
    BY <2>1, <2>2
<1>9. phase + n - ahead >= nGoodLocks - spent
  <2>1. Moves(nGoodLocks) = nGoodLocks - Due
    BY <1>6, <1>7 DEF Moves
  <2> QED
    BY <1>2, <1>3, <1>5, <1>6, <1>7, <2>1
<1>10. phase' = phase + n
  BY <1>3, <1>4, <1>6, <1>8 DEF Wrapped
<1>11. Ahead' = ahead /\ Behind' = behind /\ Spent' = spent
  BY <1>3
<1>12. phase' - Ahead' >= nGoodLocks - Spent'
  <2>1. PICK at \in Int : at = phase + n
    BY <1>3, <1>6
  <2>2. phase' = at /\ at - ahead >= nGoodLocks - spent
    BY <1>3, <1>6, <1>9, <1>10, <2>1
  <2> QED
    BY <1>11, <2>2, Zenon
<1>13. phase' + Behind' <= Width + Spent'
  BY <1>8, <1>10, <1>11, Zenon
<1> QED
  BY <1>1, <1>12, <1>13

(* Back into the run.                                                                  *)
LEMMA ShiftKeepsRunBack ==
  ASSUME PhaseTypes, CountInv, FlagInv, RunBack, Intact', Shift \/ RepeatShift
  PROVE  RunBack'
<1> DEFINE back == nGoodLocks + 1 - GoodRun[signal]
<1> SUFFICES ASSUME SeeksRun, reversingForLock
             PROVE  /\ phase' - Ahead' >= GoodRun[signal] - 1 - back - Spent'
                    /\ phase' + Behind' <= Width - 1 - back + Spent'
  <2>1. pc' = "verify" /\ signal' = signal /\ nGoodLocks' = nGoodLocks
        /\ (SeeksRun' <=> SeeksRun) /\ reversingForLock' = reversingForLock
    BY ShiftLeaves
  <2>2. Moves(nGoodLocks + 1)' = nGoodLocks + 1
    BY <2>1 DEF Moves
  <2>3. PICK moves \in Nat, good \in Nat :
          /\ Moves(nGoodLocks + 1)' = moves /\ moves = nGoodLocks + 1
          /\ GoodRun[signal'] = good /\ good = GoodRun[signal]
    BY <2>1, <2>2, Thresholds DEF PhaseTypes, CountTypes, FlagTypes
  <2>4. Moves(nGoodLocks + 1)' - GoodRun[signal'] = moves - good
    BY <2>3
  <2>5. moves - good = back
    BY <2>3 DEF PhaseTypes, CountTypes
  <2>6. Moves(nGoodLocks + 1)' - GoodRun[signal'] = back
    BY <2>4, <2>5
  <2> HIDE DEF back
  <2> QED
    BY <2>1, <2>6 DEF RunBack
<1>1. Searching /\ pc \in {"shift", "verify"} /\ pc' = "verify" /\ Intact
  BY ShiftLeaves
<1>2. /\ phase - Ahead >= GoodRun[signal] - 1 - (Moves(nGoodLocks + 1) - GoodRun[signal]) - Spent
      /\ phase + Behind <= Width - 1 - (Moves(nGoodLocks + 1) - GoodRun[signal]) + Spent
  BY DEF RunBack
<1>3. direction = -1
  BY <1>1 DEF CountInv, WrongWay, Turned
<1>4. PICK n \in 0..2, ahead \in 0..(GthSteps - 1), behind \in 0..(GthSteps - 1), spent \in Nat :
        /\ phase' = Wrapped(phase - n, Ring)
        /\ phase - n - ahead >= phase - Ahead - Due - (spent - Spent)
        /\ phase - n + behind <= phase + Behind - Due + (spent - Spent)
        /\ Ahead' = ahead /\ Behind' = behind /\ Spent' = spent
        /\ Spent <= spent
  BY <1>3, BackStep
<1>5. spent <= 2 * GoodRun[signal] - BestRun[signal] - 1
  BY <1>4, ShiftMargin
<1>6. /\ Ahead \in 0..(GthSteps - 1) /\ Spent \in Nat
      /\ Behind = IF Ahead = 0 THEN 0 ELSE GthSteps - Ahead
  BY <1>1, Costs
<1>7. nGoodLocks \in GoodRun[signal]..(BestRun[signal] - 1)
  BY <1>1 DEF FlagInv
<1>8. /\ phase \in 0..(Ring - 1) /\ nGoodLocks \in Nat /\ Ring \in Nat /\ Width \in Nat
      /\ GthSteps \in Nat /\ GoodRun[signal] \in Nat /\ BestRun[signal] \in Nat
  BY RingFacts, Thresholds DEF PhaseTypes, CardTypes, CountTypes, FlagTypes
<1>9. /\ Moves(nGoodLocks + 1) = nGoodLocks + 1 - Due /\ Due \in 0..1
  BY <1>1, <1>8 DEF Moves, Due
<1>10. phase - n - ahead >= GoodRun[signal] - 1 - back - spent
  BY <1>2, <1>4, <1>6, <1>8, <1>9
<1>11. phase - n + behind <= Width - 1 - back + spent
  BY <1>2, <1>4, <1>6, <1>8, <1>9
<1>12. phase - n >= 0
  BY <1>4, <1>5, <1>7, <1>8, <1>10
<1>13. phase' = phase - n
  BY <1>4, <1>8, <1>12 DEF Wrapped
<1>14. Ahead' = ahead /\ Behind' = behind /\ Spent' = spent
  BY <1>4
<1> HIDE DEF back
<1>15. phase' - Ahead' >= GoodRun[signal] - 1 - back - Spent'
  BY <1>10, <1>13, <1>14, Zenon
<1>16. phase' + Behind' <= Width - 1 - back + Spent'
  BY <1>11, <1>13, <1>14, Zenon
<1> QED
  BY <1>15, <1>16

(* Out of lock, until the next one.                                                     *)
LEMMA ShiftKeepsNextAwaited ==
  ASSUME PhaseTypes, CountInv, FlagInv, NextAwaited, WrongOut, Intact', Shift \/ RepeatShift
  PROVE  NextAwaited'
<1> SUFFICES ASSUME SeeksNext, firstUnlockFound, ~nextLockFound
             PROVE  Offset' + Behind' <= Spent'
  BY ShiftLeaves DEF NextAwaited
<1>1. Searching /\ pc \in {"shift", "verify"} /\ pc' = "verify" /\ Intact
  BY ShiftLeaves
<1>2. ~reversingForLock /\ direction = 1
  BY <1>1 DEF FlagInv, WrongOut, CountInv, Turned
<1>3. PICK n \in 0..2, ahead \in 0..(GthSteps - 1), behind \in 0..(GthSteps - 1), spent \in Nat :
        /\ phase' = Wrapped(phase + n, Ring)
        /\ phase + n - ahead >= phase - Ahead + Due - (spent - Spent)
        /\ phase + n + behind <= phase + Behind + Due + (spent - Spent)
        /\ Ahead' = ahead /\ Behind' = behind /\ Spent' = spent
        /\ Spent <= spent
  BY <1>2, ForwardsStep
<1>4. spent <= Half["BC0"] - 1 /\ spent <= Width - Half["BC0"]
  BY <1>3, ShiftMargin
<1>5. /\ Ahead \in 0..(GthSteps - 1) /\ Spent \in Nat
      /\ Behind = IF Ahead = 0 THEN 0 ELSE GthSteps - Ahead
      /\ Ahead # 0 => Spent >= GthSteps
  <2>1. ~WrongWay
    BY <1>2 DEF WrongWay
  <2> QED
    BY <1>1, <2>1, Costs
<1>6. /\ phase \in 0..(Ring - 1) /\ Ring \in Nat /\ Width \in Nat /\ 0 < Width
      /\ GthSteps \in Nat /\ GthSteps > 2 /\ Width + GthSteps < Ring
      /\ Half["BC0"] \in Nat /\ 0 < Half["BC0"]
      /\ \A p \in Int : p \in Good <=> 0 <= p /\ p < Width
  BY RingFacts, Thresholds DEF PhaseTypes, CardTypes, Signals
<1>7. Due \in 0..1 /\ (pc = "shift" => Due = 1) /\ (pc # "shift" => Due = 0)
  BY <1>1 DEF Due
<1> DEFINE at == IF phase \in Good THEN phase ELSE phase - Ring
<1>8. at + n + behind <= spent
  <2>1. CASE pc = "shift"
    <3>1. phase \notin Good
      BY <2>1 DEF NextAwaited
    <3>2. at = phase - Ring
      BY <3>1
    <3>3. phase + Behind <= Ring - 1 + Spent
      BY <1>5, <1>6
    <3> QED
      BY <1>3, <1>5, <1>6, <1>7, <2>1, <3>2, <3>3
  <2>2. CASE pc # "shift"
    <3>1. at + Behind <= Spent
      BY <2>2 DEF NextAwaited, Offset
    <3>2. at \in Int
      BY <1>6
    <3> QED
      BY <1>3, <1>5, <1>6, <1>7, <2>2, <3>1, <3>2
  <2> QED
    BY <2>1, <2>2
<1>9. at + n < Width
  BY <1>3, <1>4, <1>6, <1>8
<1>10. Offset' = at + n
  <2>1. Offset' = IF phase' \in Good THEN phase' ELSE phase' - Ring
    BY DEF Offset
  <2>2. CASE at + n >= 0
    <3>1. phase' = at + n
      BY <1>3, <1>6, <1>9, <2>2 DEF Wrapped
    <3>2. phase' \in Good
      BY <1>3, <1>6, <1>9, <2>2, <3>1
    <3> QED
      BY <2>1, <3>1, <3>2
  <2>3. CASE at + n < 0
    <3>1. phase \notin Good /\ at = phase - Ring
      BY <1>6, <2>3
    <3>2. phase' = phase + n /\ phase + n >= Width
      BY <1>3, <1>6, <2>3, <3>1 DEF Wrapped
    <3>3. phase' \notin Good
      BY <1>3, <1>6, <3>2
    <3>4. phase' - Ring = at + n
      BY <1>3, <1>6, <3>1, <3>2
    <3> QED
      BY <2>1, <3>3, <3>4
  <2> QED
    BY <1>3, <1>6, <2>2, <2>3
<1>11. Behind' = behind /\ Spent' = spent
  BY <1>3
<1> HIDE DEF at
<1> QED
  BY <1>8, <1>10, <1>11, Zenon

(* In the next lock.                                                                  *)
LEMMA ShiftKeepsNextCounted ==
  ASSUME PhaseTypes, CountInv, FlagInv, NextCounted, WrongOut, Intact', Shift \/ RepeatShift
  PROVE  NextCounted'
<1> SUFFICES ASSUME SeeksNext, nextLockFound
             PROVE  /\ phase' - Ahead' >= nGoodLocks - Spent'
                    /\ phase' + Behind' <= nGoodLocks + Spent'
  BY ShiftLeaves DEF NextCounted, Moves
<1>1. Searching /\ pc \in {"shift", "verify"} /\ pc' = "verify" /\ Intact
  BY ShiftLeaves
<1>2. ~reversingForLock /\ firstUnlockFound
  BY <1>1 DEF FlagInv
<1>3. direction = 1
  BY <1>1, <1>2 DEF WrongOut, CountInv, Turned
<1>4. PICK n \in 0..2, ahead \in 0..(GthSteps - 1), behind \in 0..(GthSteps - 1), spent \in Nat :
        /\ phase' = Wrapped(phase + n, Ring)
        /\ phase + n - ahead >= phase - Ahead + Due - (spent - Spent)
        /\ phase + n + behind <= phase + Behind + Due + (spent - Spent)
        /\ Ahead' = ahead /\ Behind' = behind /\ Spent' = spent
        /\ Spent <= spent
  BY <1>2, <1>3, ForwardsStep
<1>5. spent <= Half["BC0"] - 1 /\ spent <= Width - Half["BC0"]
  BY <1>4, ShiftMargin
<1>6. /\ Ahead \in 0..(GthSteps - 1) /\ Spent \in Nat
      /\ Behind = IF Ahead = 0 THEN 0 ELSE GthSteps - Ahead
  BY <1>1, Costs
<1>7. nGoodLocks < Half["BC0"]
  BY <1>1, <1>2 DEF FlagInv, SeeksNext
<1>8. /\ phase \in 0..(Ring - 1) /\ nGoodLocks \in Nat /\ Ring \in Nat /\ Width \in Nat
      /\ GthSteps \in Nat /\ GthSteps > 2 /\ Width + GthSteps < Ring /\ Half["BC0"] \in Nat
  BY RingFacts, Thresholds DEF PhaseTypes, CardTypes, CountTypes, Signals
<1>9. /\ phase - Ahead >= Moves(nGoodLocks) - Spent
      /\ phase + Behind <= Moves(nGoodLocks) + Spent
      /\ Moves(nGoodLocks) = nGoodLocks - Due /\ Due \in 0..1
  BY <1>1, <1>8 DEF NextCounted, Moves, Due
<1>10. phase + n - ahead >= nGoodLocks - spent
  BY <1>4, <1>6, <1>8, <1>9
<1>11. phase + n + behind <= nGoodLocks + spent
  BY <1>4, <1>6, <1>8, <1>9
<1>12. phase + n < Ring
  BY <1>4, <1>5, <1>7, <1>8, <1>11
<1>13. phase' = phase + n
  BY <1>4, <1>8, <1>12 DEF Wrapped
<1>14. Ahead' = ahead /\ Behind' = behind /\ Spent' = spent
  BY <1>4
<1>15. phase' - Ahead' >= nGoodLocks - Spent'
  <2>1. PICK at \in Int : at = phase + n
    BY <1>4, <1>8
  <2>2. phase' = at /\ at - ahead >= nGoodLocks - spent
    BY <1>4, <1>8, <1>10, <1>13, <2>1
  <2> QED
    BY <1>14, <2>2, Zenon
<1>16. phase' + Behind' <= nGoodLocks + Spent'
  BY <1>11, <1>13, <1>14, Zenon
<1> QED
  BY <1>15, <1>16

(* The wrong way along a run of good phases.                                              *)
LEMMA ShiftKeepsWrongRun ==
  ASSUME PhaseTypes, CountInv, FlagInv, WrongRun, Intact', Shift \/ RepeatShift
  PROVE  WrongRun'
<1> SUFFICES ASSUME SeeksRun, WrongWay, nGoodLocks > 0
             PROVE  /\ Offset' < Width /\ Offset' - Ahead' >= -Spent'
                    /\ Offset' - Ahead' <=
                         Width - 1 - nGoodLocks * (GthSteps - 1) + Spent' - GthSteps
  <2>1. /\ pc' = "verify" /\ nGoodLocks' = nGoodLocks
        /\ (SeeksRun' <=> SeeksRun) /\ (WrongWay' <=> WrongWay)
    BY ShiftLeaves
  <2>2. Moves(nGoodLocks)' = nGoodLocks
    BY <2>1 DEF Moves
  <2>3. Behindhand(Offset)' = Offset' - Ahead' + 0
    BY <2>1 DEF Behindhand
  <2>4. PhaseTypes'
    <3>1. [PhaseNext]_phaseVars
      BY DEF PhaseNext
    <3> QED
      BY <3>1, CardTypesHold, LookTypesHold DEF PhaseTypes
  <2>5. PICK offset \in Int, ahead \in Int : Offset' = offset /\ Ahead' = ahead
    BY <2>4, PlacesNext
  <2>6. Behindhand(Offset)' = Offset' - Ahead'
    BY <2>3, <2>5
  <2> QED
    BY <2>1, <2>2, <2>6 DEF WrongRun
<1>1. Searching /\ pc \in {"shift", "verify"} /\ pc' = "verify" /\ Intact
  BY ShiftLeaves
<1>2. PICK n \in 0..2, ahead \in 0..(GthSteps - 1), spent \in Nat :
        /\ phase' = Wrapped(phase - n, Ring)
        /\ \A at \in Int :
             /\ at - n - ahead >= at - Ahead - Due * GthSteps - (spent - Spent)
             /\ at - n - ahead <= Behindhand(at) - Due * (GthSteps - 1) + (spent - Spent)
        /\ Ahead' = ahead /\ Spent' = spent /\ Spent <= spent
  BY WrongStep
<1>3. spent + Width < Ring
  BY <1>2, ShiftMargin
<1>4. /\ Ahead \in 0..(GthSteps - 1) /\ Spent \in Nat /\ Spent >= GthSteps
      /\ pc # "verify" /\ Ahead # 0 => Spent >= 2 * GthSteps
  BY <1>1, Costs
<1>5. /\ phase \in 0..(Ring - 1) /\ nGoodLocks \in Nat /\ Ring \in Nat /\ Width \in Nat
      /\ GthSteps \in Nat /\ GthSteps > 2 /\ Width + GthSteps < Ring
      /\ \A p \in Int : p \in Good <=> 0 <= p /\ p < Width
  BY RingFacts DEF PhaseTypes, CardTypes, CountTypes
<1>6. PICK at \in Int : at = Offset /\ at < Width /\ at = IF phase \in Good THEN phase ELSE phase - Ring
  <2>1. Offset = IF phase \in Good THEN phase ELSE phase - Ring
    BY DEF Offset
  <2>2. Offset \in Int
    BY <1>5, <2>1
  <2>3. Offset < Width
    BY <1>5, <2>1
  <2> QED
    BY <2>1, <2>2, <2>3
<1>7. /\ pc = "shift" => at >= 0
      /\ pc # "shift" => at - Ahead >= -Spent
  BY <1>1, <1>5, <1>6 DEF WrongRun
<1>8. PICK q \in Int : /\ q = Moves(nGoodLocks) * (GthSteps - 1)
                       /\ nGoodLocks * (GthSteps - 1) = q + Due * (GthSteps - 1)
                       /\ Due \in 0..1 /\ (pc = "shift" => Due = 1) /\ (pc # "shift" => Due = 0)
  <2>1. CASE pc = "shift"
    <3>1. Moves(nGoodLocks) = nGoodLocks - 1 /\ Due = 1
      BY <2>1 DEF Moves, Due
    <3>2. nGoodLocks * (GthSteps - 1) = (nGoodLocks - 1) * (GthSteps - 1) + (GthSteps - 1)
      BY <1>5
    <3>3. (nGoodLocks - 1) * (GthSteps - 1) \in Int /\ 1 * (GthSteps - 1) = GthSteps - 1
      BY <1>5
    <3> QED
      BY <2>1, <3>1, <3>2, <3>3
  <2>2. CASE pc # "shift"
    <3>1. Moves(nGoodLocks) = nGoodLocks /\ Due = 0
      BY <2>2 DEF Moves, Due
    <3>2. nGoodLocks * (GthSteps - 1) \in Int /\ 0 * (GthSteps - 1) = 0
      BY <1>5
    <3> QED
      BY <2>2, <3>1, <3>2
  <2> QED
    BY <2>1, <2>2
<1>9. PICK d \in Int, e \in Int :
        /\ d = Due * GthSteps /\ e = Due * (GthSteps - 1)
        /\ pc = "shift" => d = GthSteps
        /\ pc # "shift" => d = 0
  BY <1>5, <1>8
<1>10. PICK b \in Int : /\ b = Behindhand(at)
                        /\ b <= Width - 1 - q + Spent - GthSteps
  <2>1. Behindhand(at) <= Width - 1 - q + Spent - GthSteps
    BY <1>6, <1>8 DEF WrongRun
  <2>2. Behindhand(at) \in Int
    BY <1>4, <1>5 DEF Behindhand
  <2> QED
    BY <2>1, <2>2
<1>11. /\ at - n - ahead >= at - Ahead - d - (spent - Spent)
       /\ at - n - ahead <= b - e + (spent - Spent)
  BY <1>2, <1>9, <1>10
<1>12. at - n - ahead >= -spent
  <2>1. CASE pc = "shift"
    BY <1>1, <1>2, <1>4, <1>5, <1>7, <1>9, <1>11, <2>1
  <2>2. CASE pc # "shift"
    BY <1>1, <1>2, <1>4, <1>5, <1>7, <1>9, <1>11, <2>2
  <2> QED
    BY <2>1, <2>2
<1>13. PICK m \in Int : m = nGoodLocks * (GthSteps - 1) /\ m = q + e
  BY <1>5, <1>8, <1>9
<1>14. at - n - ahead <= Width - 1 - m + spent - GthSteps
  BY <1>2, <1>4, <1>5, <1>10, <1>11, <1>13
<1>15. PICK to \in Int : to = at - n /\ Offset' = to
  <2>1. Offset' = IF phase' \in Good THEN phase' ELSE phase' - Ring
    BY DEF Offset
  <2>2. at - n > Width - Ring
    BY <1>2, <1>3, <1>5, <1>12
  <2>3. CASE at - n >= 0
    <3>1. phase \in Good /\ at = phase
      BY <1>2, <1>5, <1>6, <2>3
    <3>2. phase' = at - n
      BY <1>2, <1>5, <2>3, <3>1 DEF Wrapped
    <3>3. phase' \in Good
      BY <1>2, <1>5, <1>6, <2>3, <3>2
    <3> QED
      BY <1>2, <2>1, <3>2, <3>3
  <2>4. CASE at - n < 0
    <3>1. phase' = at - n + Ring
      <4>1. CASE phase \in Good
        BY <1>2, <1>5, <1>6, <2>4, <4>1 DEF Wrapped
      <4>2. CASE phase \notin Good
        <5>1. phase - n >= 0
          BY <1>2, <1>5, <1>6, <2>2, <4>2
        <5> QED
          BY <1>2, <1>5, <1>6, <4>2, <5>1 DEF Wrapped
      <4> QED
        BY <4>1, <4>2
    <3>2. phase' \notin Good
      BY <1>2, <1>5, <2>2, <3>1
    <3>3. phase' - Ring = at - n
      BY <1>2, <1>5, <3>1
    <3> QED
      BY <1>2, <2>1, <3>2, <3>3
  <2> QED
    BY <1>2, <2>3, <2>4
<1>16. Ahead' = ahead /\ Spent' = spent
  BY <1>2
<1>17. to - ahead >= -spent /\ to < Width
  BY <1>2, <1>5, <1>6, <1>12, <1>15
<1>18. to - ahead <= Width - 1 - m + spent - GthSteps
  BY <1>14, <1>15
<1>19. Offset' < Width /\ Offset' - Ahead' >= -Spent'
  BY <1>15, <1>16, <1>17, Zenon
<1>20. Offset' - Ahead' <= Width - 1 - nGoodLocks * (GthSteps - 1) + Spent' - GthSteps
  BY <1>13, <1>15, <1>16, <1>18, Zenon
<1> QED
  BY <1>19, <1>20

(* The wrong way out of lock.                                                           *)
LEMMA ShiftKeepsWrongOut ==
  ASSUME PhaseTypes, CountInv, FlagInv, WrongOut, Intact', Shift \/ RepeatShift
  PROVE  WrongOut'
<1>0. PhaseTypes'
  <2>1. [PhaseNext]_phaseVars
    BY DEF PhaseNext
  <2> QED
    BY <2>1, CardTypesHold, LookTypesHold DEF PhaseTypes
<1> SUFFICES ASSUME SeeksNext, WrongWay, nBadLocks > 0
             PROVE  /\ phase' - Ahead' >= Width - Spent'
                    /\ phase' - Ahead' <=
                         Ring - 1 - nBadLocks * (GthSteps - 1) + Spent' - GthSteps
  <2>1. /\ pc' = "verify" /\ nBadLocks' = nBadLocks /\ firstUnlockFound' = firstUnlockFound
        /\ (SeeksNext' <=> SeeksNext) /\ (WrongWay' <=> WrongWay)
    BY ShiftLeaves
  <2>2. Moves(nBadLocks)' = nBadLocks
    BY <2>1 DEF Moves
  <2>3. Behindhand(phase)' = phase' - Ahead' + 0
    BY <2>1 DEF Behindhand
  <2>4. PICK place \in Int, ahead \in Int : phase' = place /\ Ahead' = ahead
    BY <1>0, PlacesNext DEF PhaseTypes, CardTypes
  <2>5. Behindhand(phase)' = phase' - Ahead'
    BY <2>3, <2>4
  <2> QED
    BY <2>1, <2>2, <2>5 DEF WrongOut
<1>1. Searching /\ pc \in {"shift", "verify"} /\ pc' = "verify" /\ Intact
  BY ShiftLeaves
<1>2. PICK n \in 0..2, ahead \in 0..(GthSteps - 1), spent \in Nat :
        /\ phase' = Wrapped(phase - n, Ring)
        /\ \A at \in Int :
             /\ at - n - ahead >= at - Ahead - Due * GthSteps - (spent - Spent)
             /\ at - n - ahead <= Behindhand(at) - Due * (GthSteps - 1) + (spent - Spent)
        /\ Ahead' = ahead /\ Spent' = spent /\ Spent <= spent
  BY WrongStep
<1>3. spent <= Width - Half["BC0"] /\ Half["BC0"] \in Nat
  BY <1>2, ShiftMargin, Thresholds DEF Signals
<1>4. /\ Ahead \in 0..(GthSteps - 1) /\ Spent \in Nat /\ Spent >= GthSteps
      /\ pc # "verify" /\ Ahead # 0 => Spent >= 2 * GthSteps
  BY <1>1, Costs
<1>5. /\ phase \in 0..(Ring - 1) /\ nBadLocks \in Nat /\ Ring \in Nat /\ Width \in Nat
      /\ GthSteps \in Nat /\ GthSteps > 2 /\ Width + GthSteps < Ring
      /\ \A p \in Int : p \in Good <=> 0 <= p /\ p < Width
  BY RingFacts DEF PhaseTypes, CardTypes, CountTypes
<1>6. phase \in Int
  BY <1>5
<1>7. /\ pc = "shift" => phase >= Width
      /\ pc # "shift" => phase - Ahead >= Width - Spent
  BY <1>1, <1>5 DEF WrongOut
<1>8. PICK q \in Int : /\ q = Moves(nBadLocks) * (GthSteps - 1)
                       /\ nBadLocks * (GthSteps - 1) = q + Due * (GthSteps - 1)
                       /\ Due \in 0..1 /\ (pc = "shift" => Due = 1) /\ (pc # "shift" => Due = 0)
  <2>1. CASE pc = "shift"
    <3>1. Moves(nBadLocks) = nBadLocks - 1 /\ Due = 1
      BY <2>1 DEF Moves, Due
    <3>2. nBadLocks * (GthSteps - 1) = (nBadLocks - 1) * (GthSteps - 1) + (GthSteps - 1)
      BY <1>5
    <3>3. (nBadLocks - 1) * (GthSteps - 1) \in Int /\ 1 * (GthSteps - 1) = GthSteps - 1
      BY <1>5
    <3> QED
      BY <2>1, <3>1, <3>2, <3>3
  <2>2. CASE pc # "shift"
    <3>1. Moves(nBadLocks) = nBadLocks /\ Due = 0
      BY <2>2 DEF Moves, Due
    <3>2. nBadLocks * (GthSteps - 1) \in Int /\ 0 * (GthSteps - 1) = 0
      BY <1>5
    <3> QED
      BY <2>2, <3>1, <3>2
  <2> QED
    BY <2>1, <2>2
<1>9. PICK d \in Int, e \in Int :
        /\ d = Due * GthSteps /\ e = Due * (GthSteps - 1)
        /\ pc = "shift" => d = GthSteps
        /\ pc # "shift" => d = 0
  BY <1>5, <1>8
<1>10. PICK b \in Int : /\ b = Behindhand(phase)
                        /\ b <= Ring - 1 - q + Spent - GthSteps
  <2>1. Behindhand(phase) <= Ring - 1 - q + Spent - GthSteps
    BY <1>8 DEF WrongOut
  <2>2. Behindhand(phase) \in Int
    BY <1>4, <1>5 DEF Behindhand
  <2> QED
    BY <2>1, <2>2
<1>11. /\ phase - n - ahead >= phase - Ahead - d - (spent - Spent)
       /\ phase - n - ahead <= b - e + (spent - Spent)
  BY <1>2, <1>6, <1>9, <1>10
<1>12. phase - n - ahead >= Width - spent
  <2>1. CASE pc = "shift"
    BY <1>1, <1>2, <1>4, <1>5, <1>7, <1>9, <1>11, <2>1
  <2>2. CASE pc # "shift"
    BY <1>1, <1>2, <1>4, <1>5, <1>7, <1>9, <1>11, <2>2
  <2> QED
    BY <2>1, <2>2
<1>13. PICK m \in Int : m = nBadLocks * (GthSteps - 1) /\ m = q + e
  BY <1>5, <1>8, <1>9
<1>14. phase - n - ahead <= Ring - 1 - m + spent - GthSteps
  BY <1>2, <1>4, <1>5, <1>10, <1>11, <1>13
<1>15. PICK to \in Int : to = phase - n /\ phase' = to
  <2>1. phase - n >= 0
    BY <1>2, <1>3, <1>5, <1>12
  <2> QED
    BY <1>2, <1>5, <2>1 DEF Wrapped
<1>16. Ahead' = ahead /\ Spent' = spent
  BY <1>2
<1>17. to - ahead >= Width - spent
  BY <1>12, <1>15
<1>18. to - ahead <= Ring - 1 - m + spent - GthSteps
  BY <1>14, <1>15
<1>19. phase' - Ahead' >= Width - Spent'
  BY <1>15, <1>16, <1>17, Zenon
<1>20. phase' - Ahead' <= Ring - 1 - nBadLocks * (GthSteps - 1) + Spent' - GthSteps
  BY <1>13, <1>15, <1>16, <1>18, Zenon
<1> QED
  BY <1>19, <1>20

-----------------------------------------------------------------------------
(* Where the clock is, when the count is right, and look by look.                          *)

(* A count that is taken for right moves nothing.                                        *)
LEMMA CountKeepsPlace ==
  ASSUME PhaseTypes, CountInv, Intact', CountIsRight,
         RunForwards /\ RunBack /\ NextAwaited /\ NextCounted /\ WrongRun /\ WrongOut
  PROVE  RunForwards' /\ RunBack' /\ NextAwaited' /\ NextCounted' /\ WrongRun' /\ WrongOut'
<1>1. /\ pc = "verify" /\ pc' = "look"
      /\ UNCHANGED <<cardVars, optionVars, i, gthShiftCnt, flagVars, countVars>>
  BY DEF CountIsRight
<1>2. PICK e \in 0..1 : faults' = faults + e /\ (e = 0 => hwGth = gthShiftCnt)
  BY DEF CountIsRight, Answers, Fails, PhaseTypes, CountTypes
<1>3. PICK spent \in Nat : /\ Spent' = spent
                           /\ spent = IF e = 0 THEN Spent ELSE Spent + GthSteps
  <2>1. Spent \in Nat /\ GthSteps \in Nat /\ faults \in Nat
    BY SpentFacts, RingFacts DEF PhaseTypes, CountTypes
  <2> QED
    BY <1>2, <2>1, SpentMoves
<1>4. /\ phase' = phase /\ hwGth' = hwGth /\ direction' = direction /\ gthShiftCnt' = gthShiftCnt
      /\ signal' = signal /\ shiftOutOfLockFirst' = shiftOutOfLockFirst
      /\ firstUnlockFound' = firstUnlockFound /\ nextLockFound' = nextLockFound
      /\ reversingForLock' = reversingForLock
      /\ nGoodLocks' = nGoodLocks /\ nBadLocks' = nBadLocks
  BY <1>1 DEF cardVars, optionVars, flagVars, countVars
<1>5. /\ Ahead' = Ahead /\ Behind' = Behind /\ Offset' = Offset /\ (WrongWay' <=> WrongWay)
      /\ (SeeksRun' <=> SeeksRun) /\ (SeeksNext' <=> SeeksNext)
  <2>1. Ahead' = Ahead /\ Offset' = Offset /\ (WrongWay' <=> WrongWay)
    BY <1>4 DEF Ahead, Offset, WrongWay
  <2>2. Behind' = Behind
    BY <2>1 DEF Behind
  <2> QED
    BY <1>1, <1>4, <2>1, <2>2, SeeksSame
<1>6. PICK ahead \in 0..(GthSteps - 1), behind \in Int, offset \in Int :
        Ahead = ahead /\ Behind = behind /\ Offset = offset
  BY PlaceTypes
<1>7. /\ phase \in Int /\ nGoodLocks \in Nat /\ nBadLocks \in Nat /\ Ring \in Nat /\ Width \in Nat
      /\ GthSteps \in Nat /\ GthSteps > 2 /\ Spent \in Nat
      /\ GoodRun[signal] \in Nat
  BY RingFacts, Thresholds, SpentFacts DEF PhaseTypes, CardTypes, CountTypes, FlagTypes
<1>8. e = 0 => ahead = 0
  BY <1>2, <1>6, AheadTypes DEF PhaseTypes
<1>9. Spent <= spent
  BY <1>3, <1>7
<1>10. \A m : Moves(m) = m /\ Moves(m)' = m'
  BY <1>1 DEF Moves
<1>11. ASSUME NEW at \in Int
       PROVE  /\ Behindhand(at) = at - ahead
              /\ at - ahead + (IF ahead >= 2 THEN GthSteps ELSE 0) <= at - ahead + (spent - Spent)
  BY <1>1, <1>3, <1>6, <1>7, <1>8 DEF Behindhand
<1>12. RunForwards'
  <2> SUFFICES ASSUME SeeksRun, ~reversingForLock, direction = 1, nGoodLocks > 0
               PROVE  /\ phase - ahead >= nGoodLocks - spent
                      /\ phase + behind <= Width + spent
    BY <1>1, <1>3, <1>4, <1>5, <1>6 DEF RunForwards, Moves
  <2>1. /\ phase - ahead >= nGoodLocks - Spent
        /\ phase + behind <= Width + Spent
    BY <1>1, <1>6 DEF RunForwards, Moves
  <2> QED
    BY <1>6, <1>7, <1>9, <1>3, <2>1
<1>13. RunBack'
  <2>0. PICK back \in Int : back = nGoodLocks + 1 - GoodRun[signal]
    BY <1>7
  <2>1. /\ Moves(nGoodLocks + 1) - GoodRun[signal] = back
        /\ Moves(nGoodLocks + 1)' - GoodRun[signal'] = back
    <3>1. Moves(nGoodLocks + 1) - GoodRun[signal] = back
      BY <1>1, <1>7, <2>0 DEF Moves
    <3>2. Moves(nGoodLocks + 1)' = nGoodLocks' + 1
      BY <1>1 DEF Moves
    <3>3. (nGoodLocks' + 1) - GoodRun[signal'] = back
      BY <1>4, <1>7, <2>0
    <3>4. Moves(nGoodLocks + 1)' - GoodRun[signal'] = back
      BY <3>2, <3>3
    <3> QED
      BY <3>1, <3>4
  <2>2. ASSUME SeeksRun, reversingForLock
        PROVE  /\ phase - ahead >= GoodRun[signal] - 1 - back - spent
               /\ phase + behind <= Width - 1 - back + spent
    <3>1. /\ phase - Ahead >= GoodRun[signal] - 1 - (Moves(nGoodLocks + 1) - GoodRun[signal]) - Spent
          /\ phase + Behind <= Width - 1 - (Moves(nGoodLocks + 1) - GoodRun[signal]) + Spent
      BY <2>2, Zenon DEF RunBack
    <3>2. /\ phase - ahead >= GoodRun[signal] - 1 - back - Spent
          /\ phase + behind <= Width - 1 - back + Spent
      BY <1>6, <2>1, <3>1
    <3> QED
      BY <1>3, <1>6, <1>7, <1>9, <2>0, <3>2
  <2>3. ASSUME SeeksRun', reversingForLock'
        PROVE  /\ phase' - Ahead' >= GoodRun[signal'] - 1
                                        - (Moves(nGoodLocks + 1)' - GoodRun[signal']) - Spent'
               /\ phase' + Behind' <= Width - 1 - (Moves(nGoodLocks + 1)' - GoodRun[signal']) + Spent'
    <3>1. SeeksRun /\ reversingForLock
      BY <1>4, <1>5, <2>3
    <3>2. /\ phase - ahead >= GoodRun[signal] - 1 - back - spent
          /\ phase + behind <= Width - 1 - back + spent
      BY <2>2, <3>1
    <3>3. GoodRun[signal'] = GoodRun[signal]
      BY <1>4
    <3>4. phase' = phase /\ Ahead' = ahead /\ Behind' = behind /\ Spent' = spent
      BY <1>3, <1>4, <1>5, <1>6
    <3>5. phase' - Ahead' >= GoodRun[signal'] - 1 - back - Spent'
      BY <3>2, <3>3, <3>4, Zenon
    <3>6. phase' + Behind' <= Width - 1 - back + Spent'
      BY <3>2, <3>4, Zenon
    <3> QED
      BY <2>1, <3>5, <3>6, Zenon
  <2> QED
    BY <2>3, Zenon DEF RunBack
<1>14. NextAwaited'
  <2> SUFFICES ASSUME SeeksNext, firstUnlockFound, ~nextLockFound
               PROVE  offset + behind <= spent
    BY <1>1, <1>3, <1>4, <1>5, <1>6 DEF NextAwaited
  <2>1. offset + behind <= Spent
    BY <1>1, <1>6 DEF NextAwaited
  <2> QED
    BY <1>3, <1>6, <1>7, <1>9, <2>1
<1>15. NextCounted'
  <2> SUFFICES ASSUME SeeksNext, nextLockFound
               PROVE  /\ phase - ahead >= nGoodLocks - spent
                      /\ phase + behind <= nGoodLocks + spent
    BY <1>1, <1>3, <1>4, <1>5, <1>6 DEF NextCounted, Moves
  <2>1. /\ phase - ahead >= nGoodLocks - Spent
        /\ phase + behind <= nGoodLocks + Spent
    BY <1>1, <1>6 DEF NextCounted, Moves
  <2> QED
    BY <1>3, <1>6, <1>7, <1>9, <2>1
<1>16. WrongRun'
  <2>0. PICK m \in Int : m = nGoodLocks * (GthSteps - 1)
    BY <1>7
  <2> SUFFICES ASSUME SeeksRun, WrongWay, nGoodLocks > 0
               PROVE  /\ offset < Width /\ offset - ahead >= -spent
                      /\ offset - ahead + (IF ahead >= 2 THEN GthSteps ELSE 0)
                           <= Width - 1 - m + spent - GthSteps
    <3>1. Moves(nGoodLocks)' = nGoodLocks
      BY <1>1, <1>4 DEF Moves
    <3>2. Behindhand(Offset)' = offset - ahead + (IF ahead >= 2 THEN GthSteps ELSE 0)
      BY <1>1, <1>5, <1>6 DEF Behindhand
    <3>3. /\ SeeksRun' /\ WrongWay' /\ nGoodLocks' > 0
          => /\ Offset' < Width /\ Offset' - Ahead' >= -Spent'
             /\ Behindhand(Offset)' <= Width - 1 - Moves(nGoodLocks)' * (GthSteps - 1) + Spent' - GthSteps
      BY <1>3, <1>4, <1>5, <1>6, <2>0, <3>1, <3>2, Zenon
    <3>4. pc' # "shift"
      BY <1>1
    <3> QED
      BY <3>3, <3>4, Zenon DEF WrongRun
  <2>1. /\ offset < Width /\ offset - ahead >= -Spent
        /\ offset - ahead <= Width - 1 - m + Spent - GthSteps
    <3>1. Behindhand(Offset) = offset - ahead
      BY <1>6, <1>11
    <3> QED
      BY <1>1, <1>6, <2>0, <3>1 DEF WrongRun, Moves
  <2>2. offset - ahead + (IF ahead >= 2 THEN GthSteps ELSE 0) <= offset - ahead + (spent - Spent)
    BY <1>6, <1>11
  <2> QED
    BY <1>3, <1>6, <1>7, <1>9, <2>0, <2>1, <2>2
<1>17. WrongOut'
  <2>0. PICK m \in Int : m = nBadLocks * (GthSteps - 1)
    BY <1>7
  <2>1. SeeksNext /\ WrongWay => ~firstUnlockFound
    BY DEF WrongOut
  <2> SUFFICES ASSUME SeeksNext, WrongWay, nBadLocks > 0
               PROVE  /\ phase - ahead >= Width - spent
                      /\ phase - ahead + (IF ahead >= 2 THEN GthSteps ELSE 0)
                           <= Ring - 1 - m + spent - GthSteps
    <3>1. Moves(nBadLocks)' = nBadLocks
      BY <1>1, <1>4 DEF Moves
    <3>2. Behindhand(phase)' = phase - ahead + (IF ahead >= 2 THEN GthSteps ELSE 0)
      BY <1>1, <1>4, <1>5, <1>6 DEF Behindhand
    <3> QED
      BY <1>1, <1>3, <1>4, <1>5, <1>6, <2>0, <2>1, <3>1, <3>2 DEF WrongOut
  <2>2. /\ phase - ahead >= Width - Spent
        /\ phase - ahead <= Ring - 1 - m + Spent - GthSteps
    <3>1. Behindhand(phase) = phase - ahead
      BY <1>7, <1>11
    <3> QED
      BY <1>1, <1>6, <2>0, <3>1 DEF WrongOut, Moves
  <2>3. phase - ahead + (IF ahead >= 2 THEN GthSteps ELSE 0) <= phase - ahead + (spent - Spent)
    BY <1>7, <1>11
  <2> QED
    BY <1>3, <1>6, <1>7, <1>9, <2>0, <2>2, <2>3
<1> QED
  BY <1>12, <1>13, <1>14, <1>15, <1>16, <1>17

(* A lock that was left stays left.                                                    *)
LEMMA LookKeepsUnlock ==
  ASSUME Look, FlagTypes
  PROVE  firstUnlockFound => firstUnlockFound'
<1>1. PICK locked \in BOOLEAN :
        FirstBC0(locked) \/ FirstPLL(locked) \/ PLLOnlyCounts(locked)
          \/ NextBC0(locked) \/ NextPLL(locked)
  BY DEF Look
<1> QED
  BY <1>1 DEF FirstBC0, FirstPLL, PLLOnlyCounts, NextBC0, NextPLL

(* What a look leaves as it was, in a search that stays intact.                             *)
LEMMA LookLeaves ==
  ASSUME PhaseTypes, FlagInv, Look, Intact', SeeksRun \/ SeeksNext
  PROVE  /\ pc = "look" /\ Searching /\ Intact
         /\ phase' = phase /\ Ahead' = Ahead /\ Behind' = Behind /\ Offset' = Offset
         /\ faults' = faults /\ Spent' = Spent
         /\ signal' = signal /\ shiftOutOfLockFirst' = shiftOutOfLockFirst
         /\ (SeeksNext' <=> SeeksNext)
<1>1. /\ pc = "look" /\ Searching /\ FlagTypes /\ faults \in Nat
      /\ UNCHANGED <<phase, hwGth, optionVars, gthShiftCnt>>
  BY DEF Look, Searching, PhaseTypes, CountTypes
<1>2. signal' = signal /\ shiftOutOfLockFirst' = shiftOutOfLockFirst
  BY <1>1 DEF optionVars
<1>3. SeeksNext' <=> SeeksNext
  BY <1>2 DEF SeeksNext
<1>4. faults' = faults
  <2>1. CASE SeeksNext
    BY <1>1, <2>1, LookOfNext
  <2>2. CASE SeeksRun /\ signal = "BC0"
    BY <1>1, <2>2 DEF Look, Answers
  <2>3. CASE SeeksRun /\ signal # "BC0"
    <3>1. ~SeeksNext' /\ signal' # "BC0"
      BY <1>2, <2>3 DEF SeeksNext
    <3>2. faults' = 0
      BY <3>1 DEF Intact
    <3> QED
      BY <1>1, <3>2 DEF Look, Answers, Fails
  <2> QED
    BY <2>1, <2>2, <2>3
<1>5. Spent' = Spent
  BY <1>4 DEF Spent
<1>6. Intact
  <2>1. 0 \in 0..1 /\ faults' = faults + 0
    BY <1>1, <1>4
  <2> QED
    BY <1>1, <2>1, IntactBefore
<1>7. Ahead' = Ahead /\ Offset' = Offset /\ phase' = phase
  BY <1>1 DEF Ahead, Offset
<1>8. Behind' = Behind
  BY <1>7 DEF Behind
<1> QED
  BY <1>1, <1>2, <1>3, <1>4, <1>5, <1>6, <1>7, <1>8

(* What a look is, in a search for a run of locks that stays intact.                         *)
LEMMA LookOnRun ==
  ASSUME PhaseTypes, FlagInv, Look, Intact', SeeksRun
  PROVE  /\ ~firstUnlockFound
         /\ \/ phase \in Good /\ CountsGood
            \/ phase \notin Good /\ TurnForwards
            \/ phase \notin Good /\ CountsBad
            \/ signal = "PLL" /\ ~SeeksRun'
<1>1. pc = "look" /\ faults' = faults /\ signal' = signal /\ faults \in Nat /\ FlagTypes
  BY LookLeaves DEF PhaseTypes, CountTypes
<1>2. ~firstUnlockFound
  BY <1>1 DEF FlagInv, Searching
<1>3. PICK locked \in BOOLEAN :
        /\ LookSeen(locked)
        /\ \/ locked /\ CountsGood
           \/ ~locked /\ TurnForwards
           \/ ~locked /\ CountsBad
           \/ signal = "PLL" /\ firstUnlockFound' = TRUE
  BY <1>1, <1>2, LookOfRun
<1>4. locked <=> phase \in Good
  BY <1>1, <1>3 DEF LookSeen, Fails
<1>5. signal = "PLL" /\ firstUnlockFound' = TRUE => ~SeeksRun'
  BY <1>1 DEF SeeksRun
<1> QED
  BY <1>2, <1>3, <1>4, <1>5

(* A search for a run of locks has been one before.                                        *)
LEMMA RunBefore ==
  ASSUME PhaseTypes, Look, SeeksRun'
  PROVE  SeeksRun
<1>1. signal' = signal /\ shiftOutOfLockFirst' = shiftOutOfLockFirst
  BY DEF Look, optionVars
<1>2. firstUnlockFound => firstUnlockFound'
  BY LookKeepsUnlock DEF PhaseTypes
<1> QED
  BY <1>1, <1>2 DEF SeeksRun

(* What a good phase makes of a run of locks.                                              *)
LEMMA GoodCounted ==
  ASSUME PhaseTypes, FlagInv, Look, Intact', SeeksRun', nGoodLocks' > 0
  PROVE  /\ SeeksRun /\ phase \in Good /\ CountsGood
         /\ nGoodLocks' = nGoodLocks + 1 /\ nGoodLocks \in Nat
         /\ (reversingForLock' <=> reversingForLock \/ nGoodLocks + 1 = GoodRun[signal])
         /\ nGoodLocks + 1 # GoodRun[signal] => direction' = direction
         /\ reversingForLock => nGoodLocks + 1 # GoodRun[signal]
<1>1. SeeksRun
  BY RunBefore
<1>2. pc = "look" /\ Searching /\ nGoodLocks \in Nat /\ signal \in Signals
  BY <1>1, LookLeaves DEF PhaseTypes, CountTypes, FlagTypes
<1>3. phase \in Good /\ CountsGood
  <2>1. ~TurnForwards /\ ~CountsBad
    <3>1. TurnForwards => nGoodLocks' = 0
      BY DEF TurnForwards
    <3>2. CountsBad => nGoodLocks' = 0
      BY DEF CountsBad, CountLook
    <3> QED
      BY <3>1, <3>2
  <2> QED
    BY <1>1, <2>1, LookOnRun
<1>4. /\ nGoodLocks' = nGoodLocks + 1
      /\ reversingForLock' = (reversingForLock \/ nGoodLocks + 1 = GoodRun[signal])
      /\ nGoodLocks + 1 # GoodRun[signal] => direction' = direction
  BY <1>3 DEF CountsGood
<1>5. reversingForLock' <=> reversingForLock \/ nGoodLocks + 1 = GoodRun[signal]
  BY <1>4, Zenon
<1>6. reversingForLock => nGoodLocks + 1 # GoodRun[signal]
  <2>1. reversingForLock => nGoodLocks \in GoodRun[signal]..(BestRun[signal] - 1)
    BY <1>1, <1>2 DEF FlagInv
  <2>2. GoodRun[signal] \in Nat /\ BestRun[signal] \in Nat
    BY <1>2, Thresholds
  <2> QED
    BY <1>2, <2>1, <2>2
<1> QED
  BY <1>1, <1>2, <1>3, <1>4, <1>5, <1>6

(* The numbers of a look.                                                             *)
LEMMA LookNumbers ==
  ASSUME PhaseTypes, CountInv, pc = "look"
  PROVE  /\ \E ahead \in 0..(GthSteps - 1), behind \in Nat, offset \in Int, spent \in Nat :
              /\ Ahead = ahead /\ Behind = behind /\ Offset = offset /\ Spent = spent
              /\ behind = IF ahead = 0 THEN 0 ELSE GthSteps - ahead
              /\ ahead # 0 => spent >= GthSteps
              /\ WrongWay => spent >= GthSteps
              /\ WrongWay /\ ahead # 0 => spent >= 2 * GthSteps
         /\ phase \in 0..(Ring - 1) /\ nGoodLocks \in Nat /\ nBadLocks \in Nat
         /\ Ring \in Nat /\ Width \in Nat /\ GthSteps \in Nat /\ GthSteps > 2
         /\ phase \in Good <=> phase < Width
         /\ Width + GthSteps < Ring
<1>1. Searching
  BY DEF Searching
<1>2. /\ Ahead \in 0..(GthSteps - 1) /\ Spent \in Nat /\ Offset \in Int
      /\ Behind = IF Ahead = 0 THEN 0 ELSE GthSteps - Ahead
      /\ Ahead # 0 => Spent >= GthSteps
      /\ WrongWay => Spent >= GthSteps
      /\ WrongWay /\ Ahead # 0 => Spent >= 2 * GthSteps
  BY <1>1, Costs, PlaceTypes
<1>3. /\ phase \in 0..(Ring - 1) /\ nGoodLocks \in Nat /\ nBadLocks \in Nat
      /\ Ring \in Nat /\ Width \in Nat /\ GthSteps \in Nat /\ GthSteps > 2
      /\ phase \in Good <=> phase < Width
      /\ Width + GthSteps < Ring
  BY RingFacts DEF PhaseTypes, CardTypes, CountTypes
<1>4. Behind \in Nat
  BY <1>2, <1>3
<1> QED
  BY <1>2, <1>3, <1>4

(* Forwards, along a run of good phases.                                                  *)
LEMMA LookKeepsRunForwards ==
  ASSUME PhaseTypes, CountInv, FlagInv, RunForwards, Intact', Look, pc' = "shift"
  PROVE  RunForwards'
<1> SUFFICES ASSUME SeeksRun', ~reversingForLock', direction' = 1, nGoodLocks' > 0
             PROVE  /\ phase' \in Good
                    /\ phase' - Ahead' >= Moves(nGoodLocks)' - Spent'
  BY DEF RunForwards
<1>1. /\ SeeksRun /\ phase \in Good
      /\ nGoodLocks' = nGoodLocks + 1 /\ ~reversingForLock /\ direction = 1
  BY GoodCounted
<1>2. /\ pc = "look" /\ phase' = phase /\ Ahead' = Ahead /\ Spent' = Spent
  BY <1>1, LookLeaves
<1>3. PICK ahead \in 0..(GthSteps - 1), spent \in Nat :
        Ahead = ahead /\ Spent = spent /\ (ahead # 0 => spent >= GthSteps)
  BY <1>2, LookNumbers
<1>4. phase \in 0..(Ring - 1) /\ nGoodLocks \in Nat /\ GthSteps \in Nat
  BY <1>2, LookNumbers
<1>5. Moves(nGoodLocks)' = nGoodLocks
  BY <1>1, <1>4 DEF Moves
<1>6. phase - ahead >= nGoodLocks - spent
  <2>1. CASE nGoodLocks = 0
    BY <1>3, <1>4, <2>1
  <2>2. CASE nGoodLocks > 0
    BY <1>1, <1>2, <1>3, <2>2 DEF RunForwards, Moves
  <2> QED
    BY <1>4, <2>1, <2>2
<1>7. Ahead' = ahead /\ Spent' = spent
  BY <1>2, <1>3
<1>8. phase' - Ahead' >= Moves(nGoodLocks)' - Spent'
  BY <1>2, <1>5, <1>6, <1>7, Zenon
<1> QED
  BY <1>1, <1>2, <1>8

(* A search that goes the wrong way does not come to turn round.                             *)
LEMMA WrongWayDoesNotTurn ==
  ASSUME PhaseTypes, CountInv, FlagInv, WrongRun, Intact, pc = "look",
         SeeksRun, WrongWay, phase \in Good
  PROVE  nGoodLocks + 1 # GoodRun[signal]
<1> SUFFICES ASSUME nGoodLocks + 1 = GoodRun[signal]
             PROVE  FALSE
  OBVIOUS
<1>1. Searching /\ signal \in Signals
  BY DEF Searching, PhaseTypes, FlagTypes
<1>2. signal = "BC0"
  <2>1. faults >= 1 /\ faults \in Nat
    BY <1>1 DEF CountInv, PhaseTypes, CountTypes
  <2> QED
    BY <2>1, IntactRun
<1>3. /\ GoodRun["BC0"] \in Nat /\ BestRun["BC0"] \in Nat
      /\ GoodRun["BC0"] < BestRun["BC0"] /\ BestRun["BC0"] < 2 * GoodRun["BC0"]
  BY <1>1, <1>2, Thresholds
<1>4. PICK ahead \in 0..(GthSteps - 1), spent \in Nat : Ahead = ahead /\ Spent = spent
  BY LookNumbers
<1>5. /\ phase \in 0..(Ring - 1) /\ nGoodLocks \in Nat /\ Width \in Nat
      /\ Ring \in Nat /\ GthSteps \in Nat /\ GthSteps > 2
  BY LookNumbers
<1>6. nGoodLocks = GoodRun["BC0"] - 1 /\ nGoodLocks > 0
  BY <1>2, <1>3, <1>5
<1>7. PICK m \in Int : m = (GoodRun["BC0"] - 1) * (GthSteps - 1)
  BY <1>3, <1>5
<1>8. Offset = phase
  BY DEF Offset
<1>9. Behindhand(phase) <= Width - 1 - m + Spent - GthSteps
  <2>1. Behindhand(Offset) <= Width - 1 - Moves(nGoodLocks) * (GthSteps - 1) + Spent - GthSteps
    BY <1>6 DEF WrongRun
  <2>2. Moves(nGoodLocks) = GoodRun["BC0"] - 1
    BY <1>6 DEF Moves
  <2> QED
    BY <1>7, <1>8, <2>1, <2>2
<1>10. Behindhand(phase) = phase - ahead + (IF ahead >= 2 THEN GthSteps ELSE 0)
  BY <1>4 DEF Behindhand
<1>11. m <= Width + spent - GthSteps
  <2>1. phase - ahead + (IF ahead >= 2 THEN GthSteps ELSE 0) <= Width - 1 - m + spent - GthSteps
    BY <1>4, <1>9, <1>10
  <2>2. phase - ahead + (IF ahead >= 2 THEN GthSteps ELSE 0) >= -1
    BY <1>4, <1>5
  <2> QED
    BY <1>4, <1>5, <1>7, <2>1, <2>2
<1>12. spent <= RunMargin("BC0") /\ RunMargin("BC0") \in Nat
  BY <1>1, <1>2, <1>4, IntactRun, Margins
<1>13. m > Width + RunMargin("BC0") - GthSteps
  BY <1>7, WrongWayAssumption DEF Width
<1> QED
  BY <1>4, <1>5, <1>7, <1>11, <1>12, <1>13

(* Back, from where the run has turned the search.                                          *)
LEMMA LookKeepsRunBack ==
  ASSUME PhaseTypes, CountInv, FlagInv, RunForwards, RunBack, WrongRun, Intact', Look, pc' = "shift"
  PROVE  RunBack'
<1> SUFFICES ASSUME SeeksRun', reversingForLock'
             PROVE  /\ phase' - Ahead' >= GoodRun[signal'] - 1
                                            - (Moves(nGoodLocks + 1)' - GoodRun[signal']) - Spent'
                    /\ phase' + Behind' <= Width - 1 - (Moves(nGoodLocks + 1)' - GoodRun[signal']) + Spent'
  BY Zenon DEF RunBack
<1>0. SeeksRun
  BY RunBefore
<1>1. /\ pc = "look" /\ Searching /\ phase' = phase /\ Ahead' = Ahead /\ Behind' = Behind
      /\ Spent' = Spent /\ signal' = signal /\ Intact
  BY <1>0, LookLeaves
<1>2. nGoodLocks' > 0
  <2>1. CountsGood
    <3>1. ~TurnForwards
      BY DEF TurnForwards
    <3>2. ~CountsBad
      BY DEF CountsBad
    <3> QED
      BY <1>0, <3>1, <3>2, LookOnRun
  <2> QED
    BY <2>1 DEF CountsGood, PhaseTypes, CountTypes
<1>3. /\ phase \in Good /\ nGoodLocks' = nGoodLocks + 1
      /\ reversingForLock \/ nGoodLocks + 1 = GoodRun[signal]
      /\ reversingForLock => nGoodLocks + 1 # GoodRun[signal]
  BY <1>2, GoodCounted
<1>4. PICK ahead \in 0..(GthSteps - 1), behind \in Nat, spent \in Nat :
        /\ Ahead = ahead /\ Behind = behind /\ Spent = spent
        /\ behind = IF ahead = 0 THEN 0 ELSE GthSteps - ahead
        /\ ahead # 0 => spent >= GthSteps
  BY <1>1, LookNumbers
<1>5. /\ phase \in 0..(Ring - 1) /\ nGoodLocks \in Nat /\ GthSteps \in Nat /\ Width \in Nat
      /\ phase < Width
  BY <1>1, <1>3, LookNumbers
<1>6. GoodRun[signal] \in Nat
  BY Thresholds DEF PhaseTypes, FlagTypes
<1>7. PICK back \in Int : back = nGoodLocks + 1 - GoodRun[signal]
  BY <1>5, <1>6
<1>8. Moves(nGoodLocks + 1)' - GoodRun[signal'] = back
  <2>1. Moves(nGoodLocks + 1)' = (nGoodLocks' + 1) - 1
    BY DEF Moves
  <2>2. (nGoodLocks' + 1) - 1 = nGoodLocks + 1
    BY <1>3, <1>5
  <2>3. GoodRun[signal'] = GoodRun[signal]
    BY <1>1
  <2>4. (nGoodLocks + 1) - GoodRun[signal] = back
    BY <1>5, <1>6, <1>7
  <2> QED
    BY <2>1, <2>2, <2>3, <2>4, Zenon
<1>9. /\ phase - ahead >= GoodRun[signal] - 1 - back - spent
      /\ phase + behind <= Width - 1 - back + spent
  <2>1. CASE reversingForLock
    <3>1. /\ phase - Ahead >= GoodRun[signal] - 1 - (Moves(nGoodLocks + 1) - GoodRun[signal]) - Spent
          /\ phase + Behind <= Width - 1 - (Moves(nGoodLocks + 1) - GoodRun[signal]) + Spent
      BY <1>0, <2>1, Zenon DEF RunBack
    <3>2. Moves(nGoodLocks + 1) - GoodRun[signal] = back
      BY <1>1, <1>5, <1>6, <1>7 DEF Moves
    <3> QED
      BY <1>4, <3>1, <3>2
  <2>2. CASE ~reversingForLock
    <3>1. back = 0 /\ nGoodLocks + 1 = GoodRun[signal]
      BY <1>3, <1>5, <1>6, <1>7, <2>2
    <3>2. ~WrongWay
      BY <1>0, <1>1, <1>3, <3>1, WrongWayDoesNotTurn
    <3>3. direction = 1
      BY <1>1, <2>2, <3>2 DEF CountInv, Turned
    <3>4. phase - ahead >= nGoodLocks - spent
      <4>1. CASE nGoodLocks = 0
        BY <1>4, <1>5, <4>1
      <4>2. CASE nGoodLocks > 0
        BY <1>0, <1>1, <1>4, <2>2, <3>3, <4>2 DEF RunForwards, Moves
      <4> QED
        BY <1>5, <4>1, <4>2
    <3>5. phase + behind <= Width - 1 + spent
      BY <1>4, <1>5
    <3> QED
      BY <1>4, <1>5, <1>6, <3>1, <3>4, <3>5
  <2> QED
    BY <2>1, <2>2
<1>10. GoodRun[signal'] = GoodRun[signal] /\ Ahead' = ahead /\ Behind' = behind /\ Spent' = spent
  BY <1>1, <1>4
<1>11. phase' - Ahead' >= GoodRun[signal'] - 1 - back - Spent'
  BY <1>1, <1>9, <1>10, Zenon
<1>12. phase' + Behind' <= Width - 1 - back + Spent'
  BY <1>1, <1>9, <1>10, Zenon
<1> QED
  BY <1>8, <1>11, <1>12, Zenon

(* The wrong way along a run of good phases.                                               *)
LEMMA LookKeepsWrongRun ==
  ASSUME PhaseTypes, CountInv, FlagInv, WrongRun, Intact', Look, pc' = "shift"
  PROVE  WrongRun'
<1> SUFFICES ASSUME SeeksRun', WrongWay', nGoodLocks' > 0
             PROVE  /\ phase' \in Good
                    /\ Behindhand(Offset)' <=
                         Width - 1 - Moves(nGoodLocks)' * (GthSteps - 1) + Spent' - GthSteps
  BY Zenon DEF WrongRun
<1>1. /\ SeeksRun /\ phase \in Good /\ nGoodLocks' = nGoodLocks + 1 /\ WrongWay
  BY GoodCounted DEF WrongWay
<1>2. /\ pc = "look" /\ phase' = phase /\ Ahead' = Ahead /\ Spent' = Spent /\ Offset' = Offset
  BY <1>1, LookLeaves
<1>3. PICK ahead \in 0..(GthSteps - 1), spent \in Nat :
        /\ Ahead = ahead /\ Spent = spent
        /\ spent >= GthSteps
        /\ ahead # 0 => spent >= 2 * GthSteps
  BY <1>1, <1>2, LookNumbers
<1>4. /\ phase \in 0..(Ring - 1) /\ phase < Width /\ nGoodLocks \in Nat
      /\ GthSteps \in Nat /\ GthSteps > 2 /\ Width \in Nat
  BY <1>1, <1>2, LookNumbers
<1>5. PICK m \in Int : m = nGoodLocks * (GthSteps - 1)
  BY <1>4
<1>6. PICK b \in Int : /\ b = phase - ahead + (IF ahead >= 2 THEN GthSteps ELSE 0)
                       /\ b = Behindhand(Offset)
  <2>1. Offset = phase
    BY <1>1 DEF Offset
  <2>2. Behindhand(Offset) = phase - ahead + (IF ahead >= 2 THEN GthSteps ELSE 0)
    BY <1>2, <1>3, <2>1 DEF Behindhand
  <2>3. phase - ahead + (IF ahead >= 2 THEN GthSteps ELSE 0) \in Int
    BY <1>3, <1>4
  <2> QED
    BY <2>2, <2>3
<1>7. b <= Width - 1 - m + spent - GthSteps
  <2>1. CASE nGoodLocks = 0
    <3>1. m = 0
      BY <1>4, <1>5, <2>1
    <3> QED
      BY <1>3, <1>4, <1>6, <3>1
  <2>2. CASE nGoodLocks > 0
    <3>1. Moves(nGoodLocks) = nGoodLocks
      BY <1>2 DEF Moves
    <3> QED
      BY <1>1, <1>3, <1>5, <1>6, <2>2, <3>1 DEF WrongRun
  <2> QED
    BY <1>4, <2>1, <2>2
<1>8. Moves(nGoodLocks)' = nGoodLocks
  BY <1>1, <1>4 DEF Moves
<1>9. Behindhand(Offset)' = b
  <2>1. Behindhand(Offset)' = Offset' - Ahead' + (IF Ahead' >= 2 THEN GthSteps ELSE 0)
    BY DEF Behindhand
  <2>2. Behindhand(Offset) = Offset - Ahead + (IF Ahead >= 2 THEN GthSteps ELSE 0)
    BY <1>2 DEF Behindhand
  <2> QED
    BY <1>2, <1>6, <2>1, <2>2
<1>10. Spent' = spent
  BY <1>2, <1>3
<1>11. Behindhand(Offset)' <= Width - 1 - Moves(nGoodLocks)' * (GthSteps - 1) + Spent' - GthSteps
  BY <1>5, <1>7, <1>8, <1>9, <1>10, Zenon
<1> QED
  BY <1>1, <1>2, <1>11

(* A look for the next lock, at a place of the clock.                                       *)
LEMMA LookKeepsNextAwaited ==
  ASSUME PhaseTypes, FlagInv, Intact', Look, pc' = "shift"
  PROVE  NextAwaited'
<1> SUFFICES ASSUME SeeksNext', firstUnlockFound', ~nextLockFound'
             PROVE  phase' \notin Good
  BY DEF NextAwaited
<1>1. SeeksNext
  BY DEF SeeksNext, Look, optionVars
<1>2. pc = "look" /\ phase' = phase /\ FlagTypes /\ signal \in Signals
  BY <1>1, LookLeaves DEF PhaseTypes, FlagTypes
<1>3. IF firstUnlockFound THEN NextBC0(phase \in Good) ELSE OutOfLock(phase \in Good)
  BY <1>1, <1>2, LookOfNext
<1>4. CASE firstUnlockFound
  <2>1. nextLockFound' = (nextLockFound \/ phase \in Good)
    BY <1>3, <1>4 DEF NextBC0
  <2>2. phase \notin Good
    BY <2>1, Zenon
  <2> QED
    BY <1>2, <2>2
<1>5. CASE ~firstUnlockFound
  <2>1. CountLook(phase \in Good) /\ firstUnlockFound' = (nBadLocks' > BadRun[signal])
    BY <1>3, <1>5 DEF OutOfLock
  <2>2. nBadLocks' > BadRun[signal]
    BY <2>1, Zenon
  <2>3. BadRun[signal] \in Nat
    BY <1>2, Thresholds
  <2>4. phase \notin Good
    BY <2>1, <2>2, <2>3 DEF CountLook
  <2> QED
    BY <1>2, <2>4
<1> QED
  BY <1>4, <1>5

(* In the next lock, every look is at a good phase.                                          *)
LEMMA NextLockHolds ==
  ASSUME PhaseTypes, CountInv, FlagInv, NextAwaited, NextCounted, Intact, pc = "look",
         SeeksNext, firstUnlockFound, nextLockFound \/ phase \in Good
  PROVE  /\ phase \in Good
         /\ phase - Ahead >= nGoodLocks - Spent
         /\ phase + Behind <= nGoodLocks + Spent
<1>1. PICK ahead \in 0..(GthSteps - 1), behind \in Nat, spent \in Nat :
        /\ Ahead = ahead /\ Behind = behind /\ Spent = spent
        /\ ahead # 0 => spent >= GthSteps
  BY LookNumbers
<1>2. /\ phase \in 0..(Ring - 1) /\ nGoodLocks \in Nat /\ GthSteps \in Nat /\ Width \in Nat
      /\ phase \in Good <=> phase < Width
  BY LookNumbers
<1>3. CASE nextLockFound
  <2>1. /\ phase - Ahead >= nGoodLocks - Spent
        /\ phase + Behind <= nGoodLocks + Spent
    BY <1>3 DEF NextCounted, Moves
  <2>2. nGoodLocks < Half["BC0"]
    BY <1>3 DEF FlagInv, Searching, SeeksNext
  <2>3. spent <= Width - Half["BC0"] /\ Half["BC0"] \in Nat
    BY <1>1, IntactNext, Thresholds DEF Signals
  <2>4. phase + behind <= nGoodLocks + spent
    BY <1>1, <2>1
  <2>5. phase < Width
    BY <1>1, <1>2, <2>2, <2>3, <2>4
  <2> QED
    BY <1>2, <2>1, <2>5
<1>4. CASE ~nextLockFound
  <2>1. phase \in Good /\ nGoodLocks = 0 /\ Offset = phase
    BY <1>4 DEF FlagInv, Searching, Offset
  <2>2. phase + behind <= spent
    BY <1>1, <1>4, <2>1 DEF NextAwaited
  <2>3. /\ phase - ahead >= nGoodLocks - spent
        /\ phase + behind <= nGoodLocks + spent
    BY <1>1, <1>2, <2>1, <2>2
  <2> QED
    BY <1>1, <2>1, <2>3
<1> QED
  BY <1>3, <1>4

(* In the next lock.                                                                 *)
LEMMA LookKeepsNextCounted ==
  ASSUME PhaseTypes, CountInv, FlagInv, NextAwaited, NextCounted, Intact', Look, pc' = "shift"
  PROVE  NextCounted'
<1> SUFFICES ASSUME SeeksNext', nextLockFound'
             PROVE  /\ phase' - Ahead' >= Moves(nGoodLocks)' - Spent'
                    /\ phase' + Behind' <= Moves(nGoodLocks)' + Spent'
  BY DEF NextCounted
<1>1. SeeksNext
  BY DEF SeeksNext, Look, optionVars
<1>2. /\ pc = "look" /\ Searching /\ phase' = phase /\ Ahead' = Ahead /\ Behind' = Behind
      /\ Spent' = Spent /\ Intact /\ FlagTypes
  BY <1>1, LookLeaves DEF PhaseTypes
<1>3. IF firstUnlockFound THEN NextBC0(phase \in Good) ELSE OutOfLock(phase \in Good)
  BY <1>1, <1>2, LookOfNext
<1>4. firstUnlockFound
  <2>1. ASSUME ~firstUnlockFound PROVE FALSE
    <3>1. nextLockFound' = nextLockFound
      BY <1>3, <2>1 DEF OutOfLock
    <3> QED
      BY <1>1, <1>2, <2>1, <3>1 DEF FlagInv
  <2> QED
    BY <2>1
<1>5. /\ nextLockFound' = (nextLockFound \/ phase \in Good)
      /\ nGoodLocks' = IF phase \in Good THEN nGoodLocks + 1 ELSE nGoodLocks
  BY <1>3, <1>4 DEF NextBC0
<1>6. nextLockFound \/ phase \in Good
  BY <1>5, Zenon
<1>7. /\ phase \in Good
      /\ phase - Ahead >= nGoodLocks - Spent
      /\ phase + Behind <= nGoodLocks + Spent
  BY <1>1, <1>2, <1>4, <1>6, NextLockHolds
<1>8. Moves(nGoodLocks)' = nGoodLocks
  BY <1>5, <1>7 DEF Moves, PhaseTypes, CountTypes
<1> QED
  BY <1>2, <1>7, <1>8, Zenon

(* The wrong way out of lock.                                                          *)
LEMMA LookKeepsWrongOut ==
  ASSUME PhaseTypes, CountInv, FlagInv, WrongOut, Intact', Look, pc' = "shift"
  PROVE  WrongOut'
<1> SUFFICES ASSUME SeeksNext', WrongWay'
             PROVE  /\ ~firstUnlockFound'
                    /\ nBadLocks' > 0 =>
                         /\ phase' \notin Good
                         /\ Behindhand(phase)' <=
                              Ring - 1 - Moves(nBadLocks)' * (GthSteps - 1) + Spent' - GthSteps
  BY Zenon DEF WrongOut
<1>1. SeeksNext
  BY DEF SeeksNext, Look, optionVars
<1>2. /\ pc = "look" /\ Searching /\ phase' = phase /\ Ahead' = Ahead
      /\ Spent' = Spent /\ Intact /\ FlagTypes /\ signal = "BC0"
  BY <1>1, LookLeaves DEF PhaseTypes, SeeksNext
<1>3. IF firstUnlockFound THEN NextBC0(phase \in Good) ELSE OutOfLock(phase \in Good)
  BY <1>1, <1>2, LookOfNext
<1>4. WrongWay
  BY <1>3 DEF WrongWay, NextBC0, OutOfLock
<1>5. /\ ~firstUnlockFound
      /\ nBadLocks > 0 => Behindhand(phase) <=
           Ring - 1 - Moves(nBadLocks) * (GthSteps - 1) + Spent - GthSteps
  BY <1>1, <1>4 DEF WrongOut
<1>6. /\ nBadLocks' = IF phase \in Good THEN 0 ELSE nBadLocks + 1
      /\ firstUnlockFound' = (nBadLocks' > BadRun["BC0"])
  BY <1>2, <1>3, <1>5 DEF OutOfLock, CountLook
<1>7. nBadLocks <= BadRun["BC0"]
  BY <1>1, <1>2, <1>5 DEF FlagInv
<1>8. BadRun["BC0"] \in Nat /\ 0 < BadRun["BC0"]
  BY Thresholds DEF Signals
<1>9. PICK ahead \in 0..(GthSteps - 1), spent \in Nat :
        /\ Ahead = ahead /\ Spent = spent
        /\ spent >= GthSteps
        /\ ahead # 0 => spent >= 2 * GthSteps
  BY <1>2, <1>4, LookNumbers
<1>10. /\ phase \in 0..(Ring - 1) /\ nBadLocks \in Nat /\ Ring \in Nat /\ Width \in Nat
       /\ GthSteps \in Nat /\ GthSteps > 2 /\ (phase \in Good <=> phase < Width)
  BY <1>2, LookNumbers
<1>11. PICK b \in Int : /\ b = phase - ahead + (IF ahead >= 2 THEN GthSteps ELSE 0)
                        /\ b = Behindhand(phase)
  <2>1. Behindhand(phase) = phase - ahead + (IF ahead >= 2 THEN GthSteps ELSE 0)
    BY <1>2, <1>9 DEF Behindhand
  <2>2. phase - ahead + (IF ahead >= 2 THEN GthSteps ELSE 0) \in Int
    BY <1>9, <1>10
  <2> QED
    BY <2>1, <2>2
<1>12. PICK m \in Int : m = nBadLocks * (GthSteps - 1)
  BY <1>10
<1>13. b <= Ring - 1 - m + spent - GthSteps
  <2>1. CASE nBadLocks = 0
    <3>1. m = 0
      BY <1>10, <1>12, <2>1
    <3> QED
      BY <1>9, <1>10, <1>11, <3>1
  <2>2. CASE nBadLocks > 0
    <3>1. Moves(nBadLocks) = nBadLocks
      BY <1>2 DEF Moves
    <3> QED
      BY <1>5, <1>9, <1>11, <1>12, <2>2, <3>1
  <2> QED
    BY <1>10, <2>1, <2>2
<1>14. ~firstUnlockFound'
  <2> SUFFICES ASSUME firstUnlockFound'
               PROVE  FALSE
    OBVIOUS
  <2>1. nBadLocks' > BadRun["BC0"]
    BY <1>6, Zenon
  <2>2. nBadLocks = BadRun["BC0"] /\ phase >= Width
    BY <1>6, <1>7, <1>8, <1>10, <2>1
  <2>3. m > Ring - Width + HalfMargin("BC0") - GthSteps
    BY <1>12, <2>2, WrongWayAssumption DEF Width
  <2>4. spent <= HalfMargin("BC0") /\ HalfMargin("BC0") \in Nat
    BY <1>1, <1>2, <1>9, IntactNext, Margins DEF Signals
  <2>5. b >= Width - 1
    BY <1>9, <1>10, <1>11, <2>2
  <2> QED
    BY <1>9, <1>10, <1>11, <1>12, <1>13, <2>3, <2>4, <2>5
<1>15. ASSUME nBadLocks' > 0
       PROVE  /\ phase' \notin Good
              /\ Behindhand(phase)' <=
                   Ring - 1 - Moves(nBadLocks)' * (GthSteps - 1) + Spent' - GthSteps
  <2>1. phase \notin Good /\ nBadLocks' = nBadLocks + 1
    BY <1>6, <1>15
  <2>2. Moves(nBadLocks)' = nBadLocks
    BY <1>10, <2>1 DEF Moves
  <2>3. Behindhand(phase)' = b
    <3>1. Behindhand(phase)' = phase' - Ahead' + (IF Ahead' >= 2 THEN GthSteps ELSE 0)
      BY DEF Behindhand
    <3>2. Behindhand(phase) = phase - Ahead + (IF Ahead >= 2 THEN GthSteps ELSE 0)
      BY <1>2 DEF Behindhand
    <3> QED
      BY <1>2, <1>11, <3>1, <3>2
  <2>4. Spent' = spent
    BY <1>2, <1>9
  <2>5. Behindhand(phase)' <= Ring - 1 - Moves(nBadLocks)' * (GthSteps - 1) + Spent' - GthSteps
    BY <1>12, <1>13, <2>2, <2>3, <2>4, Zenon
  <2> QED
    BY <1>2, <2>1, <2>5
<1> QED
  BY <1>14, <1>15

(* The place is kept by a look.                                                        *)
LEMMA LookKeepsPlace ==
  ASSUME PhaseTypes, CountInv, FlagInv, PlaceInv, Look, pc' = "shift", Intact'
  PROVE  RunForwards' /\ RunBack' /\ NextAwaited' /\ NextCounted' /\ WrongRun' /\ WrongOut'
<1>1. CASE SeeksRun \/ SeeksNext
  <2>1. Searching /\ Intact
    BY <1>1, LookLeaves
  <2>2. RunForwards /\ RunBack /\ NextAwaited /\ NextCounted /\ WrongRun /\ WrongOut
    BY <2>1 DEF PlaceInv
  <2> QED
    BY <2>2, LookKeepsRunForwards, LookKeepsRunBack, LookKeepsNextAwaited,
       LookKeepsNextCounted, LookKeepsWrongRun, LookKeepsWrongOut
<1>2. CASE ~SeeksRun /\ ~SeeksNext
  <2>1. ~SeeksRun'
    BY <1>2, RunBefore
  <2>2. ~SeeksNext'
    BY <1>2 DEF SeeksNext, Look, optionVars
  <2> QED
    BY <2>1, <2>2 DEF RunForwards, RunBack, NextAwaited, NextCounted, WrongRun, WrongOut
<1> QED
  BY <1>1, <1>2

(* PlaceInv is kept.                                                                *)
LEMMA PlaceInvHolds ==
  ASSUME PhaseTypes, EntryInv, CountInv, FlagInv, PlaceInv, [PhaseNext]_phaseVars
  PROVE  PlaceInv'
<1> SUFFICES ASSUME Searching', Intact'
             PROVE  RunForwards' /\ RunBack' /\ NextAwaited' /\ NextCounted' /\ WrongRun' /\ WrongOut'
  BY DEF PlaceInv
<1>1. CASE Prepare
  <2>1. /\ ~firstUnlockFound' /\ ~nextLockFound' /\ ~reversingForLock'
        /\ nGoodLocks' = 0 /\ nBadLocks' = 0
    BY <1>1 DEF Prepare, EntryInv, flagVars, countVars
  <2> QED
    BY <2>1 DEF RunForwards, RunBack, NextAwaited, NextCounted, WrongRun, WrongOut
<1>2. CASE Shift \/ RepeatShift
  <2>1. Searching /\ Intact
    BY <1>2, ShiftLeaves
  <2>2. RunForwards /\ RunBack /\ NextAwaited /\ NextCounted /\ WrongRun /\ WrongOut
    BY <2>1 DEF PlaceInv
  <2> QED
    BY <1>2, <2>2, ShiftKeepsRunForwards, ShiftKeepsRunBack, ShiftKeepsNextAwaited,
       ShiftKeepsNextCounted, ShiftKeepsWrongRun, ShiftKeepsWrongOut
<1>3. CASE CountIsRight
  <2>1. PICK e \in 0..1 : faults' = faults + e
    BY <1>3 DEF CountIsRight, Answers, Fails, PhaseTypes, CountTypes
  <2>2. Searching /\ UNCHANGED optionVars
    BY <1>3 DEF CountIsRight, Searching
  <2>3. Intact
    BY <2>1, <2>2, IntactBefore
  <2>4. RunForwards /\ RunBack /\ NextAwaited /\ NextCounted /\ WrongRun /\ WrongOut
    BY <2>2, <2>3 DEF PlaceInv
  <2> QED
    BY <1>3, <2>4, CountKeepsPlace
<1>4. CASE Look
  <2>1. pc = "look" /\ ~bestLockFound /\ pc' # "done"
    BY <1>4 DEF Look, CountInv, Searching
  <2>2. pc' = "shift"
    BY <1>4, <2>1, LookGoesOn
  <2> QED
    BY <1>4, <2>2, LookKeepsPlace
<1>5. CASE AlignmentIsOff \/ DispatchRaises \/ ShiftsAreUsedUp
  BY <1>5 DEF AlignmentIsOff, DispatchRaises, ShiftsAreUsedUp, Searching
<1>6. CASE UNCHANGED phaseVars
  <2>1. /\ phase' = phase /\ hwGth' = hwGth /\ direction' = direction
        /\ gthShiftCnt' = gthShiftCnt /\ pc' = pc /\ faults' = faults
        /\ signal' = signal /\ shiftOutOfLockFirst' = shiftOutOfLockFirst
        /\ firstUnlockFound' = firstUnlockFound /\ nextLockFound' = nextLockFound
        /\ reversingForLock' = reversingForLock
        /\ nGoodLocks' = nGoodLocks /\ nBadLocks' = nBadLocks
    BY <1>6 DEF phaseVars, cardVars, optionVars, flagVars, countVars
  <2>2. /\ Ahead' = Ahead /\ Offset' = Offset /\ Spent' = Spent
        /\ (SeeksRun' <=> SeeksRun) /\ (SeeksNext' <=> SeeksNext) /\ (WrongWay' <=> WrongWay)
    BY <2>1 DEF Ahead, Offset, Spent, SeeksRun, SeeksNext, WrongWay
  <2>3. Behind' = Behind
    BY <2>2 DEF Behind
  <2>4. Searching /\ Intact
    BY <2>1, <2>2 DEF Searching, Intact
  <2>5. RunForwards /\ RunBack /\ NextAwaited /\ NextCounted /\ WrongRun /\ WrongOut
    BY <2>4 DEF PlaceInv
  <2>6. RunForwards'
    BY <2>1, <2>2, <2>3, <2>5 DEF RunForwards, Moves
  <2>7. RunBack'
    BY <2>1, <2>2, <2>3, <2>5 DEF RunBack, Moves
  <2>8. NextAwaited' /\ NextCounted'
    BY <2>1, <2>2, <2>3, <2>5 DEF NextAwaited, NextCounted, Moves
  <2>9. WrongRun'
    BY <2>1, <2>2, <2>3, <2>5 DEF WrongRun, Moves, Behindhand
  <2>10. WrongOut'
    BY <2>1, <2>2, <2>3, <2>5 DEF WrongOut, Moves, Behindhand
  <2> QED
    BY <2>6, <2>7, <2>8, <2>9, <2>10
<1> QED
  BY <1>1, <1>2, <1>3, <1>4, <1>5, <1>6 DEF PhaseNext

-----------------------------------------------------------------------------
(* Where the search ends.                                                           *)

(* A place is in lock with all around it that is no farther than the edges.                   *)
LEMMA InsideLock ==
  ASSUME NEW p \in Good, NEW m \in Int, m >= 0 => m <= p /\ p + m < Width
  PROVE  {(p + d) % Ring : d \in (-m)..m} \subseteq Good
<1>1. /\ Ring \in Nat /\ Ring > 3 /\ Width \in Nat /\ GthSteps \in Nat /\ Width + GthSteps < Ring
      /\ \A x \in Int : x \in Good <=> 0 <= x /\ x < Width
      /\ p \in Int
  BY RingFacts, PhaseAssumption
<1> SUFFICES ASSUME NEW d \in (-m)..m
             PROVE  (p + d) % Ring \in Good
  OBVIOUS
<1>2. p + d \in Int /\ 0 <= p + d /\ p + d < Width
  BY <1>1
<1>3. (p + d) % Ring = p + d
  BY <1>1, <1>2
<1> QED
  BY <1>1, <1>2, <1>3

(* With a run of locks: as many phases from either edge as were counted on the way back,
   or were left of the way forward.                                                  *)
LEMMA RunEndsInside ==
  ASSUME PhaseTypes, CountInv, FlagInv, PlaceInv, Look, bestLockFound', SeeksRun,
         ~firstUnlockFound', signal = "BC0" \/ faults' = 0
  PROVE  /\ phase \in Good /\ faults' = faults
         /\ LET m == RunMargin(signal) - Spent IN m >= 0 => m <= phase /\ phase + m < Width
<1>1. /\ pc = "look" /\ Searching /\ FlagTypes /\ signal \in Signals
      /\ faults \in Nat /\ nGoodLocks \in Nat
  BY DEF Look, Searching, PhaseTypes, FlagTypes, CountTypes
<1>2. ~firstUnlockFound
  BY <1>1, LookKeepsUnlock
<1>3. PICK locked \in BOOLEAN :
        /\ LookSeen(locked)
        /\ \/ locked /\ CountsGood
           \/ ~locked /\ TurnForwards
           \/ ~locked /\ CountsBad
           \/ signal = "PLL" /\ firstUnlockFound' = TRUE
  BY <1>1, <1>2, LookOfRun
<1>4. locked /\ CountsGood
  BY <1>3 DEF TurnForwards, CountsBad
<1>5. phase \in Good /\ faults' = faults
  BY <1>3, <1>4 DEF LookSeen, Answers
<1>6. /\ reversingForLock' = (reversingForLock \/ nGoodLocks + 1 = GoodRun[signal])
      /\ bestLockFound' = (reversingForLock' /\ nGoodLocks + 1 = BestRun[signal])
  BY <1>4 DEF CountsGood
<1>7. nGoodLocks + 1 = BestRun[signal] /\ (reversingForLock \/ nGoodLocks + 1 = GoodRun[signal])
  BY <1>6, Zenon
<1>8. /\ GoodRun[signal] \in Nat /\ BestRun[signal] \in Nat /\ GoodRun[signal] < BestRun[signal]
      /\ RunMargin(signal) \in Nat
      /\ RunMargin(signal) <= BestRun[signal] - GoodRun[signal]
      /\ RunMargin(signal) <= 2 * GoodRun[signal] - BestRun[signal] - 1
  BY <1>1, Thresholds, Margins
<1>9. reversingForLock
  BY <1>7, <1>8
<1>10. PICK ahead \in 0..(GthSteps - 1), behind \in Nat, spent \in Nat :
         Ahead = ahead /\ Behind = behind /\ Spent = spent
  BY <1>1, LookNumbers
<1>11. phase \in 0..(Ring - 1) /\ Ring \in Nat /\ GthSteps \in Nat /\ Width \in Nat
  BY <1>1, LookNumbers
<1>12. ASSUME RunMargin(signal) - spent >= 0
       PROVE  /\ RunMargin(signal) - spent <= phase
              /\ phase + (RunMargin(signal) - spent) < Width
  <2>1. Intact
    <3>1. ~SeeksNext
      BY SeeksOne
    <3>2. CASE signal = "BC0"
      <4>1. spent <= RunMargin(signal)
        BY <1>8, <1>10, <1>12
      <4> QED
        BY <1>10, <3>1, <3>2, <4>1 DEF Intact
    <3>3. CASE signal # "BC0"
      BY <1>5, <3>1, <3>3 DEF Intact
    <3> QED
      BY <3>2, <3>3
  <2>2. RunBack
    BY <1>1, <2>1 DEF PlaceInv
  <2>3. /\ phase - Ahead >= GoodRun[signal] - 1 - (Moves(nGoodLocks + 1) - GoodRun[signal]) - Spent
        /\ phase + Behind <= Width - 1 - (Moves(nGoodLocks + 1) - GoodRun[signal]) + Spent
    BY <1>9, <2>2, Zenon DEF RunBack
  <2>4. Moves(nGoodLocks + 1) = BestRun[signal]
    BY <1>1, <1>7 DEF Moves
  <2>5. /\ phase - ahead >= GoodRun[signal] - 1 - (BestRun[signal] - GoodRun[signal]) - spent
        /\ phase + behind <= Width - 1 - (BestRun[signal] - GoodRun[signal]) + spent
    BY <1>10, <2>3, <2>4
  <2> QED
    BY <1>8, <1>10, <1>11, <2>5
<1> QED
  BY <1>5, <1>10, <1>12

(* With the next lock: as many phases from its first one as were counted.                     *)
LEMMA NextEndsInside ==
  ASSUME PhaseTypes, CountInv, FlagInv, PlaceInv, Look, bestLockFound', SeeksNext
  PROVE  /\ phase \in Good /\ faults' = faults /\ firstUnlockFound'
         /\ LET m == HalfMargin("BC0") - Spent IN m >= 0 => m <= phase /\ phase + m < Width
<1>1. /\ pc = "look" /\ Searching /\ FlagTypes /\ signal = "BC0"
      /\ faults \in Nat /\ nGoodLocks \in Nat
  BY DEF Look, Searching, PhaseTypes, CountTypes, SeeksNext
<1>2. /\ faults' = faults
      /\ IF firstUnlockFound THEN NextBC0(phase \in Good) ELSE OutOfLock(phase \in Good)
  BY <1>1, LookOfNext
<1>3. firstUnlockFound /\ firstUnlockFound'
  <2>1. ~OutOfLock(phase \in Good)
    BY DEF OutOfLock
  <2>2. firstUnlockFound
    BY <1>2, <2>1
  <2> QED
    BY <1>1, <2>2, LookKeepsUnlock
<1>4. /\ nGoodLocks' = IF phase \in Good THEN nGoodLocks + 1 ELSE nGoodLocks
      /\ bestLockFound' = (nGoodLocks' = Half["BC0"])
  BY <1>1, <1>2, <1>3 DEF NextBC0
<1>5. nGoodLocks' = Half["BC0"]
  BY <1>4, Zenon
<1>6. nGoodLocks < Half["BC0"]
  BY <1>1, <1>3 DEF FlagInv
<1>7. /\ Half["BC0"] \in Nat /\ HalfMargin("BC0") \in Nat
      /\ HalfMargin("BC0") <= Half["BC0"] - 1 /\ HalfMargin("BC0") <= Width - Half["BC0"]
  BY Thresholds, Margins DEF Signals
<1>8. phase \in Good /\ nGoodLocks + 1 = Half["BC0"]
  BY <1>1, <1>4, <1>5, <1>6, <1>7
<1>9. PICK ahead \in 0..(GthSteps - 1), behind \in Nat, spent \in Nat :
        Ahead = ahead /\ Behind = behind /\ Spent = spent
  BY <1>1, LookNumbers
<1>10. phase \in 0..(Ring - 1) /\ Ring \in Nat /\ GthSteps \in Nat /\ Width \in Nat
  BY <1>1, LookNumbers
<1>11. ASSUME HalfMargin("BC0") - spent >= 0
       PROVE  /\ HalfMargin("BC0") - spent <= phase
              /\ phase + (HalfMargin("BC0") - spent) < Width
  <2>1. Intact
    <3>1. spent <= HalfMargin("BC0")
      BY <1>7, <1>9, <1>11
    <3> QED
      BY <1>9, <3>1 DEF Intact
  <2>2. NextAwaited /\ NextCounted
    BY <1>1, <2>1 DEF PlaceInv
  <2>3. /\ phase - Ahead >= nGoodLocks - Spent
        /\ phase + Behind <= nGoodLocks + Spent
    BY <1>1, <1>3, <1>8, <2>1, <2>2, NextLockHolds
  <2>4. /\ phase - ahead >= nGoodLocks - spent
        /\ phase + behind <= nGoodLocks + spent
    BY <1>9, <2>3
  <2> QED
    BY <1>1, <1>7, <1>8, <1>9, <1>10, <2>4
<1> QED
  BY <1>2, <1>3, <1>8, <1>9, <1>11

(* RestsInsideLock is kept.                                                          *)
LEMMA RestsInsideLockHolds ==
  ASSUME PhaseTypes, CountInv, FlagInv, PlaceInv, RestsInsideLock, [PhaseNext]_phaseVars
  PROVE  RestsInsideLock'
<1> SUFFICES ASSUME pc' = "done", bestLockFound',
                    signal' = "BC0" \/ (~firstUnlockFound' /\ faults' = 0)
             PROVE  /\ {(phase' + d) % Ring : d \in (-(Margin - GthSteps * faults)')..(Margin - GthSteps * faults)'}
                         \subseteq Good
                    /\ phase' \in Good
  BY DEF RestsInsideLock, LockIsReported, Around
<1>1. CASE Look
  <2>1. /\ pc = "look" /\ Searching /\ signal' = signal /\ phase' = phase /\ FlagTypes
        /\ signal \in Signals /\ faults \in Nat
    BY <1>1 DEF Look, Searching, optionVars, PhaseTypes, FlagTypes, CountTypes
  <2>2. ASSUME NEW m \in Int, m = (Margin - GthSteps * faults)', phase \in Good,
               m >= 0 => m <= phase /\ phase + m < Width
        PROVE  /\ {(phase' + d) % Ring : d \in (-(Margin - GthSteps * faults)')..(Margin - GthSteps * faults)'}
                    \subseteq Good
               /\ phase' \in Good
    BY <2>1, <2>2, InsideLock
  <2>3. CASE SeeksNext
    <3>1. /\ phase \in Good /\ faults' = faults /\ firstUnlockFound'
          /\ LET m == HalfMargin("BC0") - Spent IN m >= 0 => m <= phase /\ phase + m < Width
      BY <1>1, <2>3, NextEndsInside
    <3>2. PICK m \in Int : m = HalfMargin("BC0") - Spent
      BY <2>1, SpentFacts, Margins DEF Signals
    <3>3. m = (Margin - GthSteps * faults)'
      BY <2>1, <2>3, <3>1, <3>2 DEF Margin, Spent, SeeksNext
    <3> QED
      BY <2>2, <3>1, <3>2, <3>3
  <2>4. CASE SeeksRun
    <3>1. ~firstUnlockFound'
      <4>1. CASE signal = "BC0"
        <5>1. ~firstUnlockFound
          BY <2>1, <2>4 DEF FlagInv
        <5>2. PICK locked \in BOOLEAN : FirstBC0(locked)
          BY <1>1, <4>1, <5>1 DEF Look, FirstPLL, PLLOnlyCounts, NextBC0, NextPLL
        <5>3. RunOfLocks(locked)
          BY <2>4, <4>1, <5>2 DEF FirstBC0, OutOfLock, SeeksRun
        <5> QED
          BY <5>1, <5>3 DEF RunOfLocks, CountsGood, TurnForwards, CountsBad
      <4> QED
        BY <2>1, <4>1
    <3>2. /\ phase \in Good /\ faults' = faults
          /\ LET m == RunMargin(signal) - Spent IN m >= 0 => m <= phase /\ phase + m < Width
      BY <1>1, <2>1, <2>4, <3>1, RunEndsInside
    <3>3. PICK m \in Int : m = RunMargin(signal) - Spent
      BY <2>1, SpentFacts, Margins
    <3>4. m = (Margin - GthSteps * faults)'
      BY <2>1, <3>1, <3>2, <3>3 DEF Margin, Spent
    <3> QED
      BY <2>2, <3>2, <3>3, <3>4
  <2>5. CASE ~SeeksRun /\ ~SeeksNext
    <3>1. signal = "PLL"
      BY <2>1, <2>5 DEF SeeksRun, SeeksNext, Signals
    <3>2. ~firstUnlockFound
      BY <1>1, <2>1, <3>1, LookKeepsUnlock
    <3>3. PICK locked \in BOOLEAN : PLLOnlyCounts(locked)
      BY <1>1, <2>5, <3>1, <3>2 DEF Look, SeeksRun, FirstBC0, FirstPLL, NextBC0, NextPLL
    <3>4. pc' = "shift"
      BY <3>3 DEF PLLOnlyCounts, NextRound
    <3> QED
      BY <3>4
  <2> QED
    BY <2>3, <2>4, <2>5
<1>2. CASE ShiftsAreUsedUp
  <2>1. ~bestLockFound /\ bestLockFound' = bestLockFound
    BY <1>2 DEF ShiftsAreUsedUp, CountInv, Searching, flagVars
  <2> QED
    BY <2>1
<1>3. CASE UNCHANGED phaseVars
  <2>1. /\ phase' = phase /\ pc' = pc /\ signal' = signal /\ faults' = faults
        /\ firstUnlockFound' = firstUnlockFound /\ bestLockFound' = bestLockFound
    BY <1>3 DEF phaseVars, cardVars, optionVars, flagVars
  <2>2. Margin' = Margin
    BY <2>1 DEF Margin
  <2>3. Around(Margin - GthSteps * faults) \subseteq Good /\ phase \in Good
    BY <2>1 DEF RestsInsideLock, LockIsReported
  <2> QED
    BY <2>1, <2>2, <2>3 DEF Around
<1>4. CASE Prepare \/ AlignmentIsOff \/ Shift \/ CountIsRight \/ RepeatShift \/ DispatchRaises
  BY <1>4 DEF Prepare, AlignmentIsOff, Shift, CountIsRight, RepeatShift, DispatchRaises
<1> QED
  BY <1>1, <1>2, <1>3, <1>4 DEF PhaseNext

(* When the search reports a lock it rests inside it, as far from its edges as the thresholds
   say, less a round of the count for each access that has failed: for every ring and lock,
   from every phase, and in every order of failures.                                    *)
THEOREM LockIsRestedIn == PhaseSpec => []RestsInsideLock
<1>1. PhaseInit => SearchInv
  <2> SUFFICES ASSUME PhaseInit
               PROVE  SearchInv
    OBVIOUS
  <2>1. EntryInv
    BY DEF PhaseInit, EntryInv
  <2>2. pc = "entry"
    BY DEF PhaseInit
  <2>3. ~Searching /\ ~LockIsReported
    BY <2>2 DEF Searching, LockIsReported
  <2> QED
    BY <2>1, <2>3 DEF SearchInv, CountInv, FlagInv, PlaceInv, RestsInsideLock
<1>2. PhaseTypes /\ SearchInv /\ [PhaseNext]_phaseVars => SearchInv'
  BY EntryInvHolds, CountInvHolds, FlagInvHolds, PlaceInvHolds, RestsInsideLockHolds DEF SearchInv
<1>3. SearchInv => RestsInsideLock
  BY DEF SearchInv
<1> QED
  BY <1>1, <1>2, <1>3, PhaseTypesHold, PTL DEF PhaseSpec
=============================================================================
