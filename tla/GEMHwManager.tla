---------------------------- MODULE GEMHwManager ----------------------------
(***************************************************************************)
(* A manager of hardware cards: GLIBManager, CTP7Manager, OptoHybridManager   *)
(* or VFATManager, with the devices, the info spaces and the monitors of its   *)
(* cards.                                                                     *)
(*                                                                          *)
(* Initialize builds for each card a device object, a tool box that publishes   *)
(* items in the card's info space, and a monitor, whose timer has a thread of    *)
(* its own that reads the card and sets the items.  The other transitions visit  *)
(* the cards one by one; most stop the timers while they touch the hardware.     *)
(* Reset takes monitors and items down again.  The job of the transition and    *)
(* the timers share the info spaces, whose lock a tool box takes for each item.   *)
(*                                                                          *)
(* A card is an AMC, or one link of one AMC (OptoHybrid, VFAT).  The client      *)
(* sends a command when the job of the last one is over; what others do to a      *)
(* manager is the subject of GEMFSMApplication.                                 *)
(***************************************************************************)
EXTENDS GEMFSM, Naturals

CONSTANT NumCards      (* how many cards the manager is told to expect *)

ASSUME NumCardsAssumption == NumCards \in Nat \ {0}

Cards == 1..NumCards

NoJob == "none"

Kinds == {"GLIB", "CTP7", "OptoHybrid", "VFAT"}

VARIABLES
  kind,        (* which manager this is                                        *)
  named,       (* the cards have a cardName of their own                        *)
  strict,      (* the timers of this build raise when a stopped one is stopped     *)
  state,       (* the machine                                                *)
  job,         (* the command whose action runs                               *)
  pc,          (* what it does next                                           *)
  at,          (* to which card                                              *)
  failed,      (* the action has fired "Fail" and goes on                       *)
  present,     (* the flags the first Initialize sets for good                  *)
  hw,          (* the device object: none, or what isHwConnected() remembers      *)
  timer,       (* the timer of its monitor; "none" when there is no monitor       *)
  item,        (* its items in the info space, published by its tool box           *)
  listed,      (* the monitor has them among its monitorables                    *)
  update,      (* a thread of the timer is in updateMonitorables()                *)
  leaked,      (* the lock of the info space was taken and will not be released     *)
  down,        (* the process is gone                                         *)
  overlapped,  (* a Reset stopped the timer while an update was under way          *)
  troubled,    (* an action has failed and no Reset has succeeded since            *)
  initFailed   (* an Initialize has failed and none has succeeded since           *)

buildVars   == <<kind, named, strict>>
outcomeVars == <<state, job, failed, troubled, initFailed>>
jobVars     == <<outcomeVars, pc, at>>
cardVars    == <<hw, timer, item, listed>>
sharedVars  == <<update, leaked, down, overlapped>>
hwVars      == <<buildVars, jobVars, present, cardVars, sharedVars>>

HwTypeOK ==
  /\ kind \in Kinds
  /\ named \in BOOLEAN /\ strict \in BOOLEAN /\ present \in BOOLEAN /\ down \in BOOLEAN
  /\ failed \in BOOLEAN /\ troubled \in BOOLEAN /\ initFailed \in BOOLEAN
  /\ state \in States
  /\ job \in Commands \cup {NoJob}
  /\ pc \in {"rest", "through", "create", "publish", "monitor", "look", "pause",
             "work", "resume", "unmonitor", "unpublish"}
  /\ at \in Cards
  /\ hw \in [Cards -> {"null", "lost", "good"}]
  /\ timer \in [Cards -> {"none", "active", "stopped", "removed"}]
  /\ item \in [Cards -> {"absent", "published"}]
  /\ listed \in [Cards -> BOOLEAN]
  /\ update \in [Cards -> {"idle", "running"}]
  /\ leaked \in [Cards -> BOOLEAN] /\ overlapped \in [Cards -> BOOLEAN]

HwInit ==
  /\ kind \in Kinds
  /\ named \in IF kind \in {"GLIB", "OptoHybrid"} THEN BOOLEAN ELSE {FALSE}
  /\ strict \in BOOLEAN
  /\ state = "Initial" /\ job = NoJob /\ pc = "rest" /\ at = 1 /\ failed = FALSE
  /\ present = FALSE
  /\ hw = [c \in Cards |-> "null"]
  /\ timer = [c \in Cards |-> "none"]
  /\ item = [c \in Cards |-> "absent"]
  /\ listed = [c \in Cards |-> FALSE]
  /\ update = [c \in Cards |-> "idle"]
  /\ leaked = [c \in Cards |-> FALSE]
  /\ overlapped = [c \in Cards |-> FALSE]
  /\ down = FALSE /\ troubled = FALSE /\ initFailed = FALSE

-----------------------------------------------------------------------------
(* The job of a transition, seen from its action. *)

(* The commands whose action does nothing. *)
Empty ==
  [GLIB       |-> {"Resume"},
   OptoHybrid |-> {"Resume", "Halt"},
   CTP7       |-> {"Pause", "Resume", "Stop", "Halt"},
   VFAT       |-> {"Start", "Pause", "Resume", "Stop", "Halt"}]

FirstPhase(c) ==
  CASE c = "Initialize" -> "create"
    [] c # "Initialize" /\ (~present \/ c \in Empty[kind]) -> "through"
    [] OTHER ->
       CASE kind = "GLIB" -> "look"
         [] kind = "OptoHybrid" -> "pause"
         [] kind = "CTP7" -> IF c = "Reset" THEN "unmonitor" ELSE "work"
         [] kind = "VFAT" -> IF c = "Reset" THEN "unpublish" ELSE "work"

Command(c) ==
  /\ job = NoJob /\ ~down
  /\ state \in Sources[c]
  /\ state' = Via[c] /\ job' = c
  /\ pc' = FirstPhase(c) /\ at' = 1
  /\ present' = (present \/ c = "Initialize")
  /\ UNCHANGED <<buildVars, failed, troubled, initFailed, cardVars, sharedVars>>

Ends(s) ==
  /\ state' = s /\ job' = NoJob /\ failed' = FALSE
  /\ pc' = "rest" /\ at' = 1

(* The job fires "Fail". *)
Raises ==
  /\ Ends("Error")
  /\ troubled' = TRUE
  /\ initFailed' = (initFailed \/ job = "Initialize")

(* The job fires the confirmation, which a machine in Error does not take. *)
Returns ==
  /\ Ends(IF failed THEN "Error" ELSE Settled[state])
  /\ troubled' = (failed \/ (troubled /\ job # "Reset"))
  /\ initFailed' = (initFailed /\ job # "Initialize")

GoesTo(phase) == pc' = phase /\ UNCHANGED <<at, outcomeVars>>

NextCardBeyond(loop, after) ==   (* fault: the loop goes one card too far *)
  \/ at <= NumCards /\ at' = at + 1 /\ pc' = loop /\ UNCHANGED outcomeVars
  \/ at > NumCards /\ after = "end" /\ Returns
  \/ at > NumCards /\ after # "end" /\ at' = 1 /\ pc' = after /\ UNCHANGED outcomeVars

(* The loop over the cards comes to the next one, or is over. *)
NextCard(loop, after) ==
  \/ at < NumCards /\ at' = at + 1 /\ pc' = loop /\ UNCHANGED outcomeVars
  \/ at = NumCards /\ after = "end" /\ Returns
  \/ at = NumCards /\ after # "end" /\ at' = 1 /\ pc' = after /\ UNCHANGED outcomeVars

PassesThrough ==
  /\ pc = "through"
  /\ Returns
  /\ UNCHANGED <<cardVars, sharedVars>>

(* isHwConnected() remembers a card that has answered once and asks the others. *)
Answers(c) == IF hw[c] = "good" THEN {TRUE} ELSE BOOLEAN

Looks(c, ok) == hw' = [hw EXCEPT ![c] = IF ok THEN "good" ELSE "lost"]

(* The pointer to a device that was never built is followed. *)
FollowsNull ==
  /\ hw[at] = "null"
  /\ down' = TRUE
  /\ UNCHANGED <<jobVars, cardVars, update, leaked, overlapped>>

-----------------------------------------------------------------------------
(* Initialize.  The loop of GLIBManager and CTP7Manager that asks the cards     *)
(* once more finds what isHwConnected() remembers.                             *)

(* A new tool box takes the place of the one of the last Initialize.  Nobody else     *)
(* holds that one, for Reset has made the monitor forget it: it is destroyed, and     *)
(* revokes under the lock what it has published and not revoked yet.                  *)
ReplacesToolBox ==
  /\ item[at] = "published" => ~leaked[at]
  /\ item' = [item EXCEPT ![at] = "absent"]

CreatesDeviceOrLeaves ==       (* fault: initializeAction() returns at a card that is lost *)
  /\ pc = "create" /\ kind # "VFAT"
  /\ \E ok \in BOOLEAN :
       /\ Looks(at, ok)
       /\ \/ ok /\ GoesTo("publish")
          \/ ~ok /\ Returns
  /\ ReplacesToolBox
  /\ UNCHANGED <<timer, listed, sharedVars>>

CreatesDevice ==
  /\ pc = "create" /\ kind # "VFAT"
  /\ \E ok \in BOOLEAN :
       /\ Looks(at, ok)
       /\ \/ ok /\ GoesTo("publish")
          \/ ~ok /\ Raises
  /\ ReplacesToolBox
  /\ UNCHANGED <<timer, listed, sharedVars>>

(* VFATManager goes on without the card and has no monitor. *)
CreatesVFAT ==
  /\ pc = "create" /\ kind = "VFAT"
  /\ \E ok \in BOOLEAN : Looks(at, ok)
  /\ GoesTo("publish")
  /\ UNCHANGED <<timer, item, listed, sharedVars>>

PublishesKeepingLock ==        (* fault: createUInt32() does not unlock *)
  /\ pc = "publish"
  /\ ~leaked[at]
  /\ item' = [item EXCEPT ![at] = "published"]
  /\ leaked' = [leaked EXCEPT ![at] = TRUE]
  /\ \/ kind = "VFAT" /\ NextCard("create", "end")
     \/ kind # "VFAT" /\ GoesTo("monitor")
  /\ UNCHANGED <<hw, timer, listed, update, down, overlapped>>

(* Every item is put into the info space under its lock. *)
Publishes ==
  /\ pc = "publish"
  /\ ~leaked[at]
  /\ item' = [item EXCEPT ![at] = "published"]
  /\ \/ kind = "VFAT" /\ NextCard("create", "end")
     \/ kind # "VFAT" /\ GoesTo("monitor")
  /\ UNCHANGED <<hw, timer, listed, sharedVars>>

(* A new monitor takes the place of the former one, lists what the tool box has  *)
(* published, and starts.  An update of the former monitor that is under way       *)
(* works on freed memory.                                                      *)
StartsMonitor ==
  /\ pc = "monitor"
  /\ ~leaked[at]
  /\ timer' = [timer EXCEPT ![at] = "active"]
  /\ listed' = [listed EXCEPT ![at] = item[at] = "published"]
  /\ down' \in {FALSE, update[at] = "running"}
  /\ NextCard("create", "end")
  /\ UNCHANGED <<hw, item, update, leaked, overlapped>>

-----------------------------------------------------------------------------
(* Stopping a timer and starting it again (GEMMonitor).  A timer that has been   *)
(* removed may be gone: stopping it raises or does nothing.                      *)

StopRaises(c) == timer[c] = "removed" \/ (timer[c] = "stopped" /\ strict)

StopReturns(c) == ~(timer[c] = "stopped" /\ strict)

Stopped(c) == [timer EXCEPT ![c] = IF @ = "active" THEN "stopped" ELSE @]

Started(c) == [timer EXCEPT ![c] = IF @ = "stopped" THEN "active" ELSE @]

(* resumeMonitoring() sets the items itself once before it returns. *)
MayUpdate(c) == listed[c] => ~leaked[c]

-----------------------------------------------------------------------------
(* GLIBManager: card by card, each with its monitor stopped. *)

GLIBLooks ==
  /\ kind = "GLIB" /\ pc = "look"
  /\ hw[at] # "null"
  /\ \E ok \in Answers(at) :
       /\ Looks(at, ok)
       /\ \/ ok /\ GoesTo("pause")
          \/ ~ok /\ job \in {"Configure", "Start", "Pause"} /\ Raises
          \/ ~ok /\ job \in {"Stop", "Halt"} /\ NextCard("look", "end")
          \/ ~ok /\ job = "Reset" /\ GoesTo("unmonitor")
  /\ UNCHANGED <<timer, item, listed, sharedVars>>

GLIBPausesMonitor ==
  /\ kind = "GLIB" /\ pc = "pause"
  /\ \/ StopRaises(at) /\ Raises /\ UNCHANGED timer
     \/ StopReturns(at) /\ timer' = Stopped(at) /\ GoesTo("work")
  /\ UNCHANGED <<hw, item, listed, sharedVars>>

(* Configure raises when the phases cannot be shifted. *)
GLIBWorks ==
  /\ kind = "GLIB" /\ pc = "work"
  /\ \/ job = "Configure" /\ Raises
     \/ GoesTo(IF job = "Reset" THEN "unmonitor" ELSE "resume")
  /\ UNCHANGED <<cardVars, sharedVars>>

GLIBHaltsMonitor ==            (* fault: haltAction() does not resume the monitor *)
  /\ kind = "GLIB" /\ pc = "resume"
  /\ MayUpdate(at)
  /\ timer' = IF job = "Halt" THEN timer ELSE Started(at)
  /\ NextCard("look", "end")
  /\ UNCHANGED <<hw, item, listed, sharedVars>>

GLIBResumesMonitor ==
  /\ kind = "GLIB" /\ pc = "resume"
  /\ MayUpdate(at)
  /\ timer' = Started(at)
  /\ NextCard("look", "end")
  /\ UNCHANGED <<hw, item, listed, sharedVars>>

-----------------------------------------------------------------------------
(* OptoHybridManager: the monitors of all the links of the AMC are stopped, the   *)
(* links worked on, and the monitors started again.                              *)

OptoHybridPausesOneMonitor ==    (* fault: the first loop is over after link 0 *)
  /\ kind = "OptoHybrid" /\ pc = "pause"
  /\ \/ StopRaises(at) /\ Raises /\ UNCHANGED timer
     \/ /\ StopReturns(at)
        /\ timer' = Stopped(at)
        /\ GoesTo(IF job = "Reset" THEN "unmonitor" ELSE "work")
  /\ UNCHANGED <<hw, item, listed, sharedVars>>

OptoHybridPausesMonitor ==
  /\ kind = "OptoHybrid" /\ pc = "pause"
  /\ \/ StopRaises(at) /\ Raises /\ UNCHANGED timer
     \/ /\ StopReturns(at)
        /\ timer' = Stopped(at)
        /\ NextCard("pause", IF job = "Reset" THEN "unmonitor" ELSE "work")
  /\ UNCHANGED <<hw, item, listed, sharedVars>>

OptoHybridWorks ==
  /\ kind = "OptoHybrid" /\ pc = "work"
  /\ hw[at] # "null"
  /\ \E ok \in Answers(at) :
       /\ Looks(at, ok)
       /\ \/ ok /\ NextCard("work", "resume")
          \/ ~ok /\ Raises
  /\ UNCHANGED <<timer, item, listed, sharedVars>>

OptoHybridResumesMonitor ==
  /\ kind = "OptoHybrid" /\ pc = "resume"
  /\ MayUpdate(at)
  /\ timer' = Started(at)
  /\ NextCard("resume", "end")
  /\ UNCHANGED <<hw, item, listed, sharedVars>>

-----------------------------------------------------------------------------
(* CTP7Manager and VFATManager leave the monitors alone: the one fires "Fail"     *)
(* itself for a card that does not answer, the other only warns.                  *)

CTP7Works ==
  /\ kind = "CTP7" /\ pc = "work"
  /\ hw[at] # "null"
  /\ Looks(at, TRUE)
  /\ NextCard("work", "end")
  /\ UNCHANGED <<timer, item, listed, sharedVars>>

CTP7MissesCardSilently ==      (* fault: the last card is only logged *)
  /\ kind = "CTP7" /\ pc = "work"
  /\ hw[at] # "null" /\ FALSE \in Answers(at)
  /\ Looks(at, FALSE)
  /\ NextCard("work", "end")
  /\ UNCHANGED <<timer, item, listed, sharedVars>>

(* Start returns at once; Configure goes on to the next card.  Whatever follows,  *)
(* the confirmation finds the machine in Error.                                  *)
CTP7MissesCard ==
  /\ kind = "CTP7" /\ pc = "work"
  /\ hw[at] # "null" /\ FALSE \in Answers(at)
  /\ Looks(at, FALSE)
  /\ \/ /\ job = "Configure" /\ at < NumCards
        /\ at' = at + 1 /\ failed' = TRUE
        /\ UNCHANGED <<pc, state, job, troubled, initFailed>>
     \/ (job = "Start" \/ at = NumCards) /\ Raises
  /\ UNCHANGED <<timer, item, listed, sharedVars>>

VFATWorks ==
  /\ kind = "VFAT" /\ pc = "work"
  /\ hw[at] # "null"
  /\ \E ok \in Answers(at) : Looks(at, ok)
  /\ NextCard("work", "end")
  /\ UNCHANGED <<timer, item, listed, sharedVars>>

MissesDevice == pc \in {"look", "work"} /\ FollowsNull

-----------------------------------------------------------------------------
(* Reset: the monitor first, then the items. *)

(* reset() stops the timer, even one that is stopped, and removes it from the     *)
(* factory.  It does not wait for an update that is under way.                    *)
ResetsMonitor ==
  /\ pc = "unmonitor"
  /\ \/ /\ timer[at] = "none"
        /\ GoesTo("unpublish")
        /\ UNCHANGED <<timer, overlapped>>
     \/ /\ timer[at] # "none" /\ StopReturns(at)
        /\ timer' = [timer EXCEPT ![at] = "removed"]
        /\ overlapped' = [overlapped EXCEPT ![at] = @ \/ update[at] = "running"]
        /\ GoesTo("unpublish")
     \/ /\ timer[at] # "none" /\ StopRaises(at)
        /\ Raises
        /\ UNCHANGED <<timer, overlapped>>
  /\ UNCHANGED <<hw, item, listed, update, leaked, down>>

ResetLoop == [GLIB |-> "look", OptoHybrid |-> "unmonitor", CTP7 |-> "unmonitor", VFAT |-> "unpublish"]

(* The tool box revokes the items it has published.  It is not reached for a     *)
(* card with a name, whose info space is looked for under another name: the        *)
(* items of such a card stay until the next Initialize replaces its tool box.       *)
RevokesItems ==
  /\ pc = "unpublish"
  /\ \/ named /\ UNCHANGED item
     \/ ~named /\ item[at] = "absent" /\ UNCHANGED item
     \/ ~named /\ item[at] = "published" /\ ~leaked[at] /\ item' = [item EXCEPT ![at] = "absent"]
  /\ NextCard(ResetLoop[kind], "end")
  /\ UNCHANGED <<hw, timer, listed, sharedVars>>

-----------------------------------------------------------------------------
(* The thread of a timer. *)

UpdateBegins(c) ==
  /\ ~down
  /\ timer[c] = "active" /\ update[c] = "idle"
  /\ update' = [update EXCEPT ![c] = "running"]
  /\ UNCHANGED <<buildVars, jobVars, present, cardVars, leaked, down, overlapped>>

(* To set an item that is there takes and releases the lock.  For one that has    *)
(* been revoked since find() raises, and setUInt32() leaves with the lock taken.    *)
UpdateRaises(c) ==
  /\ ~down
  /\ update[c] = "running" /\ listed[c] /\ ~leaked[c]
  /\ item[c] = "absent"
  /\ leaked' = [leaked EXCEPT ![c] = TRUE]
  /\ update' = [update EXCEPT ![c] = "idle"]
  /\ UNCHANGED <<buildVars, jobVars, present, cardVars, down, overlapped>>

UpdateEnds(c) ==
  /\ ~down
  /\ update[c] = "running"
  /\ update' = [update EXCEPT ![c] = "idle"]
  /\ UNCHANGED <<buildVars, jobVars, present, cardVars, leaked, down, overlapped>>

-----------------------------------------------------------------------------
GLIBSteps == GLIBLooks \/ GLIBPausesMonitor \/ GLIBWorks \/ GLIBResumesMonitor

OptoHybridSteps == OptoHybridPausesMonitor \/ OptoHybridWorks \/ OptoHybridResumesMonitor

CTP7Steps == CTP7Works \/ CTP7MissesCard

JobSteps ==
  /\ ~down /\ job # NoJob
  /\ \/ PassesThrough
     \/ CreatesDevice \/ CreatesVFAT \/ Publishes \/ StartsMonitor
     \/ GLIBSteps \/ OptoHybridSteps \/ CTP7Steps \/ VFATWorks \/ MissesDevice
     \/ ResetsMonitor \/ RevokesItems
  /\ UNCHANGED <<buildVars, present>>

TimerSteps(c) == UpdateBegins(c) \/ UpdateRaises(c) \/ UpdateEnds(c)

HwNext ==
  \/ \E c \in Commands : Command(c)
  \/ JobSteps
  \/ \E c \in Cards : TimerSteps(c)

(* The workloop's thread is never suspended for good; nothing is asked of the    *)
(* timers, which no job waits for.                                             *)
HwSpec == HwInit /\ [][HwNext]_hwVars /\ WF_hwVars(JobSteps)

-----------------------------------------------------------------------------
HasMonitors == kind # "VFAT"

AfterInitialize == state \in {"Halted", "Configured", "Running", "Paused"}

(* Unless an action has failed since the last Reset, every card is monitored in   *)
(* every state between Initialize and Reset: each action that stops a timer        *)
(* starts it again on the way it returns by.  And what the monitor lists is what     *)
(* the tool box of the card has published, whatever Resets came before and whether    *)
(* they revoked the items or left them to the next Initialize.                    *)
MonitorsRun ==
  HasMonitors /\ AfterInitialize /\ ~troubled =>
    \A c \in Cards : timer[c] = "active" /\ item[c] = "published" /\ listed[c]

(* No manager but VFATManager gets past Configure with a card that has never       *)
(* answered, by whatever detour over Error it came there.                        *)
NoneIsMissing ==
  HasMonitors /\ state \in {"Configured", "Running", "Paused"} =>
    \A c \in Cards : hw[c] = "good"

(* The process does not follow a pointer to a device that was never built unless    *)
(* an Initialize has failed, nor replace a monitor at work unless a Reset           *)
(* overlapped its update.                                                      *)
StaysUp == down => initFailed \/ \E c \in Cards : overlapped[c]

(* The cards an action is changing with their monitors stopped. *)
Worked ==
  CASE kind = "GLIB" /\ pc = "work" -> {at}
    [] kind = "OptoHybrid" /\ pc = "work" -> Cards
    [] OTHER -> {}

(* No update of a card begins while an action of GLIBManager or                   *)
(* OptoHybridManager changes its registers.                                     *)
WorkIsQuiet ==
  [][\A c \in Worked : update[c] = "idle" => update'[c] = "idle"]_hwVars

(* Every transition ends, in a ready state or in Error, unless the process went     *)
(* down or an overlapped update took the lock with it.                           *)
TransitionsEnd ==
  (job # NoJob) ~> (job = NoJob \/ down \/ \E c \in Cards : leaked[c] /\ overlapped[c])
=============================================================================
