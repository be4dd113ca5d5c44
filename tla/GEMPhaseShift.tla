------------------------------ MODULE GEMPhaseShift ------------------------------
(***************************************************************************)
(* The search for a clock phase, HwGenericAMC::ttcMMCMPhaseShift().             *)
(*                                                                          *)
(* GLIBManager's configureAction() has every card search the phase of its clock: *)
(* shift by shift round a ring of phases, part of which are in lock, to one that *)
(* is well inside that part.  The search looks for lock at BC0_LOCKED or, by      *)
(* default, at the PLL; and it first shifts out of lock (relock, the default) or  *)
(* takes the first run of good phases, turns round and goes back into the middle. *)
(*                                                                          *)
(* The card counts its shifts modulo GthSteps, and a shift whose count is not the *)
(* expected one is repeated until it is.  An access that fails too often ends as   *)
(* GEMHwDevice says: a read gives 0, a write is lost or was carried out more than *)
(* once.  The accesses that go to uHAL directly raise.  The MMCM's count is only   *)
(* compared for a message; no caller asks for the scan of all phases (doScan).     *)
(***************************************************************************)
EXTENDS Integers, FiniteSets, FiniteSetsExt

CONSTANTS
  Ring,            (* 3840: shifts round all phases                              *)
  Good,            (* the phases in lock                                         *)
  GthSteps,        (* 40: the card counts shifts modulo this                       *)
  MaxShift,        (* 11520: after so many shifts the search gives up               *)
  BadRun,          (* [BC0 |-> 100,  PLL |-> 500]: so many are well out of lock      *)
  GoodRun,         (* [BC0 |-> 200,  PLL |-> 50]: so many in lock, then turn         *)
  BestRun,         (* [BC0 |-> 300,  PLL |-> 75]: counting on while going back       *)
  Half,            (* [BC0 |-> 1920, PLL |-> 1000]: so far behind the next lock      *)
  MaxFaults        (* bounds the accesses that fail                                *)

Signals == {"BC0", "PLL"}
Phases  == 0..(Ring - 1)

(* How far from the edges of the lock a search with this signal ends: between the phase
   that turned the search and its first good one, or behind the first good one after
   the bad arc.                                                                     *)
RunMargin(s)  == Min({BestRun[s] - GoodRun[s], 2 * GoodRun[s] - BestRun[s] - 1})
HalfMargin(s) == Min({Half[s] - 1, Cardinality(Good) - Half[s]})

(* Both parts of the ring are arcs, wider than the runs that recognise them and than
   one round of the card's count, which the ring holds an exact number of.           *)
ASSUME PhaseAssumption ==
  /\ {Ring, GthSteps, MaxShift} \subseteq Nat \ {0} /\ Ring % GthSteps = 0
  /\ GthSteps > 2 /\ MaxFaults \in Nat
  /\ Good = 0..(Cardinality(Good) - 1) /\ Cardinality(Good) \in 1..(Ring - 1)
  /\ {BadRun, GoodRun, BestRun, Half} \subseteq [Signals -> Nat \ {0}]
  /\ \A s \in Signals :
       /\ GoodRun[s] < BestRun[s] /\ BestRun[s] < 2 * GoodRun[s]
       /\ GoodRun[s] < Cardinality(Good) /\ Half[s] < Cardinality(Good)
       /\ BadRun[s] + GthSteps < Ring - Cardinality(Good)

(* A search that goes backwards by all but one of a round at a time runs out of either
   arc before it recognises it: 100 * 39 and 199 * 39 shifts are more than the ring has.
   And the margin of a run of locks, 99, is narrower than the arc out of lock.          *)
ASSUME WrongWayAssumption ==
  /\ BadRun["BC0"] * (GthSteps - 1)
       > Ring - Cardinality(Good) + HalfMargin("BC0") - GthSteps
  /\ (GoodRun["BC0"] - 1) * (GthSteps - 1)
       > Cardinality(Good) + RunMargin("BC0") - GthSteps
  /\ RunMargin("BC0") < Ring - Cardinality(Good)

VARIABLES
  phase,           (* where the card's clock is                                   *)
  hwGth,           (* PA_MANUAL_GTH_SHIFT_CNT                                      *)
  direction,       (* PA_MANUAL_SHIFT_DIR and PA_GTH_MANUAL_SHIFT_DIR               *)
  signal,          (* useBC0Locked                                                *)
  shiftOutOfLockFirst,
  pc,
  i,               (* the shifts done                                             *)
  gthShiftCnt,     (* the count that is expected                                  *)
  firstUnlockFound, nextLockFound, bestLockFound, reversingForLock,
  nGoodLocks, nBadLocks, nShiftsSinceLock,
  faults

cardVars   == <<phase, hwGth, direction>>
optionVars == <<signal, shiftOutOfLockFirst>>
flagVars   == <<firstUnlockFound, nextLockFound, bestLockFound, reversingForLock>>
countVars  == <<nGoodLocks, nBadLocks, nShiftsSinceLock>>
phaseVars  == <<cardVars, optionVars, pc, i, gthShiftCnt, flagVars, countVars, faults>>

(* Whatever an earlier search has left.  The count is that of the shifts done since the
   card was last reset, and says nothing of the phase its clock came up with.           *)
PhaseInit ==
  /\ phase \in Phases /\ hwGth \in 0..(GthSteps - 1)
  /\ direction \in {1, -1}
  /\ signal \in Signals /\ shiftOutOfLockFirst \in BOOLEAN
  /\ pc = "entry" /\ i = 0 /\ gthShiftCnt = 0
  /\ firstUnlockFound = FALSE /\ nextLockFound = FALSE
  /\ bestLockFound = FALSE /\ reversingForLock = FALSE
  /\ nGoodLocks = 0 /\ nBadLocks = 0 /\ nShiftsSinceLock = 0
  /\ faults = 0

-----------------------------------------------------------------------------
(* Accesses.                                                                      *)

Fails   == faults < MaxFaults /\ faults' = faults + 1
Answers == UNCHANGED faults

(* A write to PA_GTH_MANUAL_SHIFT_EN, a register that is not read back, shifts once;
   one that fails, not at all or twice.                                           *)
ShiftsBy(n) ==
  /\ phase' = (phase + n * direction) % Ring
  /\ hwGth' = (hwGth + n * direction) % GthSteps

WriteShift == (Answers /\ ShiftsBy(1)) \/ (Fails /\ \E n \in {0, 2} : ShiftsBy(n))

-----------------------------------------------------------------------------
(* The registers are set up, the direction among them, and the count is read.  The two
   registers of the direction, one for the MMCM and one for the transceivers, stand for
   one: what the card does with two that disagree, and what the other registers do to
   its clock, is the firmware's.                                                    *)
Prepare ==
  /\ pc = "entry"
  /\ pc' = "shift"
  /\ \/ Answers /\ direction' = 1         /\ gthShiftCnt' = hwGth
     \/ Fails   /\ direction' = direction /\ gthShiftCnt' = hwGth
     \/ Fails   /\ direction' = 1         /\ gthShiftCnt' = 0
  /\ UNCHANGED <<phase, hwGth, optionVars, i, flagVars, countVars>>

(* DISABLE_PHASE_ALIGNMENT, just set to 1, reads 0.                                  *)
AlignmentIsOff ==
  /\ pc = "entry" /\ Fails
  /\ pc' = "skipped" /\ direction' = 1
  /\ UNCHANGED <<phase, hwGth, optionVars, i, gthShiftCnt, flagVars, countVars>>

Turned(back) == IF back THEN -1 ELSE 1

NextCount == (gthShiftCnt + Turned(reversingForLock)) % GthSteps

(* The head of the loop: one shift, in the direction the card has.                    *)
Shift ==
  /\ pc = "shift" /\ i < MaxShift
  /\ WriteShift
  /\ gthShiftCnt' = NextCount
  /\ pc' = "verify"
  /\ UNCHANGED <<direction, optionVars, i, flagVars, countVars>>

(* The count is read; a read that fails gives 0.  A count that is not the expected
   one has the shift repeated.                                                     *)
CountIsRight ==
  /\ pc = "verify"
  /\ (Answers /\ hwGth = gthShiftCnt) \/ (Fails /\ gthShiftCnt = 0)
  /\ pc' = "look"
  /\ UNCHANGED <<cardVars, optionVars, i, gthShiftCnt, flagVars, countVars>>

RepeatRead ==                  (* fault: reads again, without a shift *)
  /\ pc = "verify" /\ hwGth # gthShiftCnt
  /\ UNCHANGED phaseVars

RepeatShift ==
  /\ pc = "verify"
  /\ \/ hwGth # gthShiftCnt /\ WriteShift
     \/ gthShiftCnt # 0 /\ Fails /\ ShiftsBy(1)
  /\ UNCHANGED <<pc, direction, optionVars, i, gthShiftCnt, flagVars, countVars>>

-----------------------------------------------------------------------------
(* What the search makes of one look.                                              *)

(* Into the next round.  The shifts since the lock count from the round of the lock.  *)
NextRound ==
  /\ pc' = "shift" /\ i' = i + 1
  /\ nShiftsSinceLock' = IF nextLockFound' THEN nShiftsSinceLock + 1 ELSE nShiftsSinceLock

(* break                                                                           *)
LeaveLoop == pc' = "done" /\ UNCHANGED <<i, nShiftsSinceLock>>

CountLookTotal(locked) ==      (* fault: a bad phase does not start the count anew *)
  /\ nGoodLocks' = IF locked THEN nGoodLocks + 1 ELSE nGoodLocks
  /\ nBadLocks'  = IF locked THEN 0 ELSE nBadLocks + 1

CountLook(locked) ==
  /\ nGoodLocks' = IF locked THEN nGoodLocks + 1 ELSE 0
  /\ nBadLocks'  = IF locked THEN 0 ELSE nBadLocks + 1

(* Before the first unlock is found, out of lock for long enough.                    *)
OutOfLock(locked) ==
  /\ shiftOutOfLockFirst
  /\ CountLook(locked)
  /\ firstUnlockFound' = (nBadLocks' > BadRun[signal])
  /\ bestLockFound' = FALSE
  /\ UNCHANGED <<direction, nextLockFound, reversingForLock>>
  /\ NextRound

(* A bad phase on the way back: forwards again, and count anew.                      *)
TurnForwards ==
  /\ reversingForLock
  /\ reversingForLock' = FALSE /\ direction' = 1
  /\ nGoodLocks' = 0 /\ nBadLocks' = nBadLocks + 1
  /\ bestLockFound' = FALSE
  /\ UNCHANGED <<firstUnlockFound, nextLockFound>>
  /\ NextRound

(* A good phase: enough of them turn the search round, and some more end it.          *)
CountsGood ==
  LET n == nGoodLocks + 1
  IN  /\ nGoodLocks' = n /\ nBadLocks' = 0
      /\ reversingForLock' = (reversingForLock \/ n = GoodRun[signal])
      /\ direction' = IF n = GoodRun[signal] THEN -1 ELSE direction
      /\ bestLockFound' = (reversingForLock' /\ n = BestRun[signal])
      /\ UNCHANGED <<firstUnlockFound, nextLockFound>>
      /\ IF bestLockFound' THEN LeaveLoop ELSE NextRound

CountsBad ==
  /\ ~reversingForLock
  /\ CountLook(FALSE)
  /\ bestLockFound' = FALSE
  /\ UNCHANGED <<direction, firstUnlockFound, nextLockFound, reversingForLock>>
  /\ NextRound

RunOfLocks(locked) ==
  \/ locked /\ CountsGood
  \/ ~locked /\ (TurnForwards \/ CountsBad)

(* With BC0 the two are alternatives.                                              *)
FirstBC0(locked) ==
  /\ signal = "BC0" /\ ~firstUnlockFound
  /\ OutOfLock(locked) \/ (~shiftOutOfLockFirst /\ RunOfLocks(locked))

(* With the PLL the run of locks is looked for only while relocking, until the phases
   have been bad for long enough; without relocking nothing is looked for.            *)
FirstPLL(locked) ==
  /\ signal = "PLL" /\ ~firstUnlockFound
  /\ LET isOut == ~locked /\ nBadLocks + 1 > BadRun[signal]
     IN  \/ shiftOutOfLockFirst /\ isOut /\ OutOfLock(locked)
         \/ shiftOutOfLockFirst /\ ~isOut /\ RunOfLocks(locked)

PLLOnlyCounts(locked) ==
  /\ signal = "PLL" /\ ~firstUnlockFound /\ ~shiftOutOfLockFirst
  /\ CountLook(locked)
  /\ UNCHANGED <<direction, flagVars>>
  /\ NextRound

(* After the first unlock: good phases are counted from the next lock on.             *)
NextBC0(locked) ==
  /\ signal = "BC0" /\ firstUnlockFound
  /\ nextLockFound' = (nextLockFound \/ locked)
  /\ nGoodLocks' = IF locked THEN nGoodLocks + 1 ELSE nGoodLocks
  /\ nBadLocks' = IF ~locked THEN nBadLocks + 1 ELSE IF nextLockFound THEN nBadLocks ELSE 0
  /\ bestLockFound' = (nGoodLocks' = Half[signal])
  /\ IF bestLockFound' THEN LeaveLoop ELSE NextRound
  /\ UNCHANGED <<direction, firstUnlockFound, reversingForLock>>

(* With the PLL it is an unlocked phase that marks the next lock, and the shifts since
   are compared at unlocked phases only.                                           *)
NextPLL(locked) ==
  /\ signal = "PLL" /\ firstUnlockFound
  /\ nextLockFound' = (nextLockFound \/ ~locked)
  /\ nGoodLocks' = IF locked \/ nextLockFound THEN nGoodLocks ELSE nGoodLocks + 1
  /\ nBadLocks' = IF locked THEN nBadLocks ELSE IF nextLockFound THEN nBadLocks + 1 ELSE 0
  /\ bestLockFound' = (~locked /\ nShiftsSinceLock = Half[signal])
  /\ IF bestLockFound' THEN LeaveLoop ELSE NextRound
  /\ UNCHANGED <<direction, firstUnlockFound, reversingForLock>>

(* One look at the lock.  A PLL that does not answer ten times counts as unlocked.      *)
Look ==
  /\ pc = "look"
  /\ \E locked \in BOOLEAN :
       /\ (Answers /\ locked = (phase \in Good)) \/ (Fails /\ signal = "PLL" /\ ~locked)
       /\ \/ FirstBC0(locked) \/ FirstPLL(locked) \/ PLLOnlyCounts(locked)
          \/ NextBC0(locked)  \/ NextPLL(locked)
  /\ UNCHANGED <<phase, hwGth, optionVars, gthShiftCnt>>

(* BC0_LOCKED is read, and the direction is turned, by a dispatch outside of
   GEMHwDevice: its exception leaves the search.                                   *)
DispatchRaises ==
  /\ pc = "look" /\ Fails
  /\ pc' = "raised"
  /\ UNCHANGED <<cardVars, optionVars, i, gthShiftCnt, flagVars, countVars>>

(* All shifts done: "Unable to find lock" is logged, and configureAction() goes on.    *)
ShiftsAreUsedUp ==
  /\ pc = "shift" /\ i = MaxShift
  /\ pc' = "done"
  /\ UNCHANGED <<cardVars, optionVars, i, gthShiftCnt, flagVars, countVars, faults>>

PhaseNext ==
  \/ Prepare \/ AlignmentIsOff \/ Shift \/ CountIsRight \/ RepeatShift
  \/ Look \/ DispatchRaises \/ ShiftsAreUsedUp

(* The search runs in the thread of the job, which goes on.                          *)
PhaseSpec == PhaseInit /\ [][PhaseNext]_phaseVars /\ WF_phaseVars(PhaseNext)

-----------------------------------------------------------------------------
LockIsReported == pc = "done" /\ bestLockFound

(* So far the edges of the lock must be.                                             *)
Margin == IF firstUnlockFound THEN HalfMargin(signal) ELSE RunMargin(signal)

Around(n) == {(phase + d) % Ring : d \in (-n)..n}

(* When the search reports a lock it rests well inside the arc of lock, and not at an
   edge where the clock would fall out of it: with the margin of its own thresholds
   less one round of the count for each access that failed, since a shift that was
   doubled or misread is made good by a whole round that nobody looks at.  Not with
   the PLL after the first unlock, where the code looks for lock at unlocked phases.   *)
RestsInsideLock ==
  (LockIsReported /\ (signal = "BC0" \/ (~firstUnlockFound /\ faults = 0))) =>
    Around(Margin - GthSteps * faults) \subseteq Good /\ phase \in Good

(* The search ends, also when shifts are lost or misread: repeating a shift reaches the
   expected count.  With BC0 the shifts suffice from every phase, and it ends with a lock
   found, unless the card has not taken the direction of the search, which then goes
   backwards by all but one of a round at a time.                                   *)
SearchEnds ==
  <>(\/ pc \in {"skipped", "raised"}
     \/ pc = "done" /\ (bestLockFound \/ signal = "PLL" \/ direction # Turned(reversingForLock)))
=============================================================================
