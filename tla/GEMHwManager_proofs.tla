------------------------- MODULE GEMHwManager_proofs -------------------------
(***************************************************************************)
(* Proofs about the managers of the hardware cards, for every number of      *)
(* cards and every kind of manager.                                        *)
(***************************************************************************)
EXTENDS GEMHwManager, TLAPS

(* Where the action of a transition may be.                                  *)
InitializePhases == {"create", "publish"} \cup IF kind = "VFAT" THEN {} ELSE {"monitor"}

(* The phases of Reset, by kind of manager.                                             *)
ResetPhases ==
  [GLIB       |-> {"look", "pause", "work", "unmonitor", "unpublish"},
   OptoHybrid |-> {"pause", "unmonitor", "unpublish"},
   CTP7       |-> {"unmonitor", "unpublish"},
   VFAT       |-> {"unpublish"}]

(* The phases of the other transitions, by kind of manager.                             *)
WorkPhases ==
  [GLIB       |-> {"look", "pause", "work", "resume"},
   OptoHybrid |-> {"pause", "work", "resume"},
   CTP7       |-> {"work"},
   VFAT       |-> {"work"}]

(* The action runs in the transitional state of its command, in a phase that     *)
(* belongs to it; a manager that was never initialized passes Reset through, and   *)
(* is in no state beyond Initial.                                             *)
JobInv ==
  /\ job = NoJob => pc = "rest" /\ state \in SteadyStates
  /\ job # NoJob => state = Via[job]
  /\ job = "Initialize" => pc \in InitializePhases
  /\ job = "Reset" => IF present THEN pc \in ResetPhases[kind] ELSE pc = "through"
  /\ job \notin {NoJob, "Initialize", "Reset"} =>
       IF job \in Empty[kind] THEN pc = "through" ELSE pc \in WorkPhases[kind]
  /\ present \/ state \in {"Initial", "Resetting"}
  /\ failed => kind = "CTP7" /\ job = "Configure"
  /\ state = "Error" => troubled

(* The cards that Configure has found connected so far.                         *)
Checked ==
  {c \in Cards :
     \/ kind = "GLIB" /\ (c < at \/ (c = at /\ pc # "look"))
     \/ kind = "CTP7" /\ c < at
     \/ kind = "OptoHybrid" /\ (pc = "resume" \/ (pc = "work" /\ c < at))}

(* A manager that has been configured has a connection to every card; Configure has one *)
(* to those it has passed.                                                              *)
ConnectedInv ==
  HasMonitors =>
    /\ state \in {"Configured", "Running", "Paused"} \/ job \in {"Start", "Pause", "Resume", "Stop"}
         => \A c \in Cards : hw[c] = "good"
    /\ job = "Configure" => failed \/ \A c \in Checked : hw[c] = "good"

(* The devices that exist, as far as the last Initialize came.                   *)
BuiltInv ==
  /\ job = "Initialize" =>
       \A c \in Cards : c < at \/ (c = at /\ pc # "create") => hw[c] # "null"
  /\ present /\ job # "Initialize" => initFailed \/ \A c \in Cards : hw[c] # "null"

(* The cards whose monitor has been taken down, or was never there.              *)
Unmonitored ==
  {c \in Cards :
     \/ state = "Initial"
     \/ ~present
     \/ job = "Initialize" /\ c >= at
     \/ job = "Reset" /\ c < at /\ ~(kind = "OptoHybrid" /\ pc = "pause")
     \/ job = "Reset" /\ c = at /\ pc = "unpublish"}

(* The card whose new tool box has published nothing yet.  Where a Reset has left the  *)
(* items in place, the replacement of the tool box has revoked them.                 *)
Revoked == {c \in Cards : job = "Initialize" /\ c = at /\ pc = "publish"}

(* What Reset has taken down is gone, and an update runs only under a timer that exists *)
(* or that a Reset overlapped.                                                          *)
TakenDownInv ==
  /\ kind = "VFAT" => \A c \in Cards : timer[c] = "none"
  /\ \A c \in Unmonitored : timer[c] \in {"none", "removed"}
  /\ HasMonitors => \A c \in Revoked : item[c] = "absent"
  /\ \A c \in Cards :
       update[c] = "running" => timer[c] \in {"active", "stopped"} \/ overlapped[c]

(* The cards whose monitor an action has stopped and will start again.           *)
Stoppable ==
  {c \in Cards :
     \/ kind = "GLIB" /\ c = at /\ pc \in {"work", "resume"}
     \/ kind = "OptoHybrid" /\ (pc \in {"pause", "work"} \/ (pc = "resume" /\ c >= at))}

(* The monitor of the card finds its items.                                             *)
Watched(c) == item[c] = "published" /\ listed[c]

(* After Initialize every monitor runs with its items, but for the cards an action has  *)
(* paused and will resume, and unless something has gone wrong before.                  *)
MonitoredInv ==
  HasMonitors =>
    /\ job = "Initialize" =>
         /\ \A c \in Cards : c < at => timer[c] = "active" /\ Watched(c)
         /\ pc = "monitor" => item[at] = "published"
    /\ AfterInitialize /\ ~troubled => \A c \in Cards : timer[c] = "active" /\ Watched(c)
    /\ job \notin {NoJob, "Initialize", "Reset"} /\ ~troubled =>
         \A c \in Cards :
           /\ timer[c] \in IF c \in Stoppable THEN {"active", "stopped"} ELSE {"active"}
           /\ Watched(c)

(* Where an action works on a card, its monitor is paused.                              *)
QuietInv ==
  /\ kind = "GLIB" /\ pc = "work" => timer[at] # "active"
  /\ kind = "OptoHybrid" =>
       \A c \in Cards : pc = "work" \/ (pc = "pause" /\ c < at) => timer[c] # "active"

(* The inductive invariant of a manager.                                                *)
HwInv ==
  /\ HwTypeOK /\ JobInv
  /\ ConnectedInv /\ BuiltInv /\ StaysUp
  /\ TakenDownInv /\ MonitoredInv /\ QuietInv
-----------------------------------------------------------------------------
(* The table, as the managers use it.                                          *)
LEMMA Table ==
  /\ Commands = {"Initialize", "Configure", "Start", "Pause", "Resume", "Stop", "Halt", "Reset"}
  /\ NoJob \notin Commands
  /\ SteadyStates = {"Initial", "Halted", "Configured", "Running", "Paused", "Error"}
  /\ SteadyStates \subseteq States
  /\ \A c \in Commands : /\ Via[c] \in States \ SteadyStates
                         /\ Via[c] \in TransitionalStates
                         /\ Sources[c] \subseteq SteadyStates
  /\ Via["Initialize"] = "Initializing" /\ Sources["Initialize"] = {"Initial"}
  /\ Via["Reset"] = "Resetting"
  /\ \A c \in Commands \ {"Reset"} : Via[c] # "Resetting"
  /\ \A c \in Commands \ {"Initialize", "Reset"} : "Initial" \notin Sources[c]
  /\ \A c \in Commands \ {"Initialize", "Reset", "Halt"} : "Error" \notin Sources[c]
  /\ \A c \in {"Start", "Pause", "Resume", "Stop"} :
       Sources[c] \subseteq {"Configured", "Running", "Paused"}
  /\ Settled[Via["Initialize"]] = "Halted" /\ Settled[Via["Halt"]] = "Halted"
  /\ Settled[Via["Reset"]] = "Initial"
  /\ \A c \in {"Configure", "Start", "Pause", "Resume", "Stop"} :
       Settled[Via[c]] \in {"Configured", "Running", "Paused"}
  BY DEF Commands, NoJob, SteadyStates, ReadyStates, States, TransitionalStates, Via,
         Sources, Settled

(* A manager without devices and without a transition satisfies the invariant.     *)
LEMMA InitHwInv == HwInit => HwInv
  <1> SUFFICES ASSUME HwInit PROVE HwInv
    OBVIOUS
  <1> USE NumCardsAssumption, Table DEF HwInit, Cards, Kinds, NoJob
  <1>1. HwTypeOK
    <2>1. kind \in Kinds /\ strict \in BOOLEAN
      OBVIOUS
    <2>11. at \in Cards
      OBVIOUS
    <2>12. named \in BOOLEAN
      OBVIOUS
    <2>2. state \in States
      OBVIOUS
    <2>3. /\ hw \in [Cards -> {"null", "lost", "good"}]
          /\ timer \in [Cards -> {"none", "active", "stopped", "removed"}]
          /\ item \in [Cards -> {"absent", "published"}]
          /\ update \in [Cards -> {"idle", "running"}]
      OBVIOUS
    <2>4. listed \in [Cards -> BOOLEAN] /\ leaked \in [Cards -> BOOLEAN]
          /\ overlapped \in [Cards -> BOOLEAN]
      OBVIOUS
    <2>5. QED BY <2>1, <2>11, <2>12, <2>2, <2>3, <2>4 DEF HwTypeOK
  <1>2. JobInv /\ ConnectedInv /\ BuiltInv /\ StaysUp /\ QuietInv
    BY DEF JobInv, ConnectedInv, BuiltInv, StaysUp, QuietInv, HasMonitors
  <1>3. TakenDownInv /\ MonitoredInv
    BY DEF TakenDownInv, MonitoredInv, HasMonitors, AfterInitialize, Unmonitored, Revoked
  <1>4. QED BY <1>1, <1>2, <1>3 DEF HwInv

-----------------------------------------------------------------------------
(* The types of the job's part of the state. *)
JobTypeOK ==
  /\ failed \in BOOLEAN /\ troubled \in BOOLEAN /\ initFailed \in BOOLEAN
  /\ state \in States
  /\ job \in Commands \cup {NoJob}
  /\ pc \in {"rest", "through", "create", "publish", "monitor", "look", "pause",
             "work", "resume", "unmonitor", "unpublish"}
  /\ at \in Cards

(* The step ends the action, by a return or by an exception.                            *)
Ending == Returns \/ (Raises /\ pc # "through")

(* The end of a job leaves machine and job in agreement.                                *)
LEMMA EndingKeepsJob ==
  ASSUME JobTypeOK, JobInv, job # NoJob, Ending, UNCHANGED <<buildVars, present>>
  PROVE  JobTypeOK' /\ JobInv'
  <1> USE NumCardsAssumption, Table DEF JobTypeOK, JobInv, Ends, Cards
  <1>1. CASE Raises /\ pc # "through"
    <2>0. present
      BY <1>1
    <2>1. /\ state' = "Error" /\ job' = NoJob /\ failed' = FALSE /\ pc' = "rest" /\ at' = 1
          /\ troubled' = TRUE /\ initFailed' \in BOOLEAN
      BY <1>1 DEF Raises
    <2>2. JobTypeOK'
      <3>1. failed' \in BOOLEAN /\ troubled' \in BOOLEAN
        BY <2>1
      <3>2. state' \in States /\ at' \in Cards
        BY <2>1
      <3>3. QED BY <2>1, <3>1, <3>2
    <2>3. JobInv'
      BY <2>0, <2>1 DEF buildVars
    <2>4. QED BY <2>2, <2>3
  <1>2. CASE Returns
    <2>1. state' \in SteadyStates /\ (state' = "Error" => failed)
      BY <1>2 DEF Returns
    <2>2. state' = "Initial" \/ present
      BY <1>2, <2>1 DEF Returns
    <2>3. JobTypeOK'
      <3>1. troubled' \in BOOLEAN /\ initFailed' \in BOOLEAN
        BY <1>2 DEF Returns
      <3>2. failed' \in BOOLEAN
        BY <1>2 DEF Returns
      <3>3. state' \in States
        BY <2>1
      <3>4. at' \in Cards
        BY <1>2 DEF Returns
      <3>5. QED BY <1>2, <3>1, <3>2, <3>3, <3>4 DEF Returns
    <2>4. JobInv'
      BY <1>2, <2>1, <2>2 DEF Returns, buildVars
    <2>5. QED BY <2>3, <2>4
  <1>3. QED BY <1>1, <1>2 DEF Ending

(* The phases that belong to the command of the job. *)
Phases ==
  IF job = "Initialize" THEN InitializePhases
  ELSE IF job = "Reset" THEN IF present THEN ResetPhases[kind] ELSE {"through"}
  ELSE IF job \in Empty[kind] THEN {"through"} ELSE WorkPhases[kind]

(* A step within a job, to a phase of its command, leaves machine and job in agreement. *)
LEMMA StayingKeepsJob ==
  ASSUME JobTypeOK, JobInv, job # NoJob, UNCHANGED outcomeVars,
         UNCHANGED <<buildVars, present>>, pc' \in Phases, at' \in Cards, kind \in Kinds
  PROVE  JobTypeOK' /\ JobInv'
  <1>1. pc' \in {"rest", "through", "create", "publish", "monitor", "look", "pause",
             "work", "resume", "unmonitor", "unpublish"}
    BY DEF Phases, InitializePhases, ResetPhases, WorkPhases, Kinds
  <1>2. JobTypeOK'
    BY <1>1 DEF JobTypeOK, outcomeVars
  <1>3. JobInv'
    BY Table DEF JobTypeOK, JobInv, outcomeVars, buildVars, Phases, InitializePhases, NoJob
  <1>4. QED BY <1>2, <1>3

(* What the end of a job leaves.                                               *)
EndFacts ==
  /\ job' = NoJob /\ pc' = "rest" /\ at' = 1 /\ ~failed'
  /\ Raises => state' = "Error" /\ troubled' /\ (initFailed \/ job = "Initialize" => initFailed')
  /\ Returns => /\ state' = IF failed THEN "Error" ELSE Settled[Via[job]]
                /\ troubled \/ failed => troubled' \/ (~failed /\ job = "Reset")
                /\ initFailed => initFailed' \/ job = "Initialize"

(* The end of a job leaves what EndFacts says.                                          *)
LEMMA EndingFacts == ASSUME JobInv, job # NoJob, Ending PROVE EndFacts
  <1>1. job' = NoJob /\ pc' = "rest" /\ at' = 1 /\ ~failed'
    BY DEF Ending, Raises, Returns, Ends
  <1>2. ASSUME Raises
        PROVE  state' = "Error" /\ troubled' /\ (initFailed \/ job = "Initialize" => initFailed')
    BY <1>2 DEF Raises, Ends
  <1>3. ASSUME Returns
        PROVE  /\ state' = IF failed THEN "Error" ELSE Settled[Via[job]]
               /\ troubled \/ failed => troubled' \/ (~failed /\ job = "Reset")
               /\ initFailed => initFailed' \/ job = "Initialize"
    <2>1. state' = IF failed THEN "Error" ELSE Settled[Via[job]]
      BY <1>3 DEF Returns, Ends, JobInv
    <2>2. troubled \/ failed => troubled' \/ (~failed /\ job = "Reset")
      BY <1>3 DEF Returns
    <2>3. initFailed => initFailed' \/ job = "Initialize"
      BY <1>3 DEF Returns
    <2>4. QED BY <2>1, <2>2, <2>3
  <1>4. QED BY <1>1, <1>2, <1>3 DEF EndFacts

(* Which job is in which phase.                                                *)
LEMMA PhaseOfJob ==
  ASSUME HwTypeOK, JobInv, job # NoJob
  PROVE  /\ state \notin SteadyStates
         /\ pc # "rest" /\ (job # "Reset" => present)
         /\ pc \in {"create", "publish", "monitor"} => job = "Initialize"
         /\ pc = "monitor" => HasMonitors
         /\ pc = "through" => job # "Initialize" /\ (job = "Reset" => ~present)
                               /\ job # "Configure"
         /\ pc \in {"unmonitor", "unpublish"} => job = "Reset" /\ present
         /\ pc = "unmonitor" => HasMonitors
         /\ pc \in {"look", "pause", "work", "resume"} => present /\ job # "Initialize"
         /\ pc = "resume" => job # "Reset"
         /\ pc = "work" /\ job = "Reset" => kind = "GLIB"
         /\ kind = "CTP7" /\ pc = "work" => job \in {"Configure", "Start"}
         /\ pc \in Phases
  <1> USE Table DEF HwTypeOK, JobInv, NoJob
  <1>1. state = Via[job] /\ job \in Commands
    OBVIOUS
  <1>2. state \notin SteadyStates /\ (job # "Reset" => present)
    BY <1>1
  <1>3. CASE job = "Initialize"
    BY <1>2, <1>3 DEF InitializePhases, Phases, HasMonitors
  <1>4. CASE job = "Reset"
    BY <1>2, <1>4 DEF ResetPhases, Phases, Kinds, HasMonitors
  <1>5. CASE job \notin {"Initialize", "Reset"} /\ job \in Empty[kind]
    BY <1>2, <1>5 DEF Phases, Empty, Kinds
  <1>6. CASE job \notin {"Initialize", "Reset"} /\ job \notin Empty[kind]
    BY <1>1, <1>2, <1>6 DEF Phases, WorkPhases, Empty, Kinds
  <1>7. QED BY <1>3, <1>4, <1>5, <1>6

(* The card has no monitor that would update it.                                        *)
Off(c) == timer[c] \in {"none", "removed"}

(* The card is monitored.                                                               *)
Runs(c) == timer[c] = "active" /\ Watched(c)

(* An update under way belongs to a timer that is there, or a Reset overlapped it. *)
UpdatesOwned ==
  \A c \in Cards : update[c] = "running" => timer[c] \in {"active", "stopped"} \/ overlapped[c]

(* What the last step of a job must leave of the cards.                          *)
EndOfCards ==
  /\ Returns /\ ~failed /\ HasMonitors =>
       /\ job \in {"Configure", "Start", "Pause", "Resume", "Stop"} =>
            \A c \in Cards : hw'[c] = "good"
       /\ job # "Reset" /\ (troubled => job = "Initialize") => \A c \in Cards : Runs(c)'
  /\ Returns /\ ~failed /\ job = "Reset" =>
       \A c \in Cards : Off(c)'
  /\ Returns /\ ~failed /\ job = "Initialize" => \A c \in Cards : hw'[c] # "null"
  /\ job # "Initialize" => \A c \in Cards : hw[c] # "null" => hw'[c] # "null"

(* What any step of a job must leave of the cards.                               *)
AnyStepOfCards ==
  /\ ~present => UNCHANGED <<timer, item>>
  /\ kind = "VFAT" => UNCHANGED timer
  /\ UpdatesOwned'

(* A last step that leaves of the cards what it must keeps the parts of the invariant   *)
(* about cards.                                                                         *)
LEMMA EndKeepsCards ==
  ASSUME HwInv, job # NoJob, Ending, UNCHANGED <<buildVars, present>>, EndOfCards, AnyStepOfCards
  PROVE  ConnectedInv' /\ BuiltInv' /\ TakenDownInv' /\ MonitoredInv' /\ QuietInv'
  <1> USE Table DEF HwInv, HwTypeOK, EndOfCards, AnyStepOfCards, HasMonitors, buildVars
  <1>1. /\ job' = NoJob /\ pc' = "rest" /\ at' = 1 /\ ~failed'
        /\ job \in Commands
        /\ Raises => state' = "Error" /\ troubled' /\ (initFailed \/ job = "Initialize" => initFailed')
        /\ Returns => /\ state' = IF failed THEN "Error" ELSE Settled[Via[job]]
                      /\ troubled \/ failed => troubled' \/ (~failed /\ job = "Reset")
                      /\ initFailed => initFailed' \/ job = "Initialize"
    BY EndingFacts DEF EndFacts
  <1>2. ConnectedInv'
    BY <1>1 DEF ConnectedInv, Ending, NoJob
  <1>3. BuiltInv'
    <2>1. CASE job = "Initialize"
      BY <1>1, <2>1 DEF Ending, BuiltInv, NoJob, JobInv
    <2>2. CASE job # "Initialize"
      BY <1>1, <2>2 DEF Ending, BuiltInv, NoJob
    <2>3. QED BY <2>1, <2>2
  <1>4. TakenDownInv'
    <2>1. ~present => Unmonitored = Cards
      BY DEF Unmonitored, Revoked
    <2>2. present /\ ~(Returns /\ ~failed /\ job = "Reset") => Unmonitored' = {}
      <3>1. present /\ ~(Returns /\ ~failed /\ job = "Reset") => state' # "Initial"
        BY <1>1 DEF Ending
      <3>2. QED BY <1>1, <3>1 DEF Unmonitored, NoJob
    <2>3. Unmonitored' \subseteq Cards
      BY DEF Unmonitored, Revoked
    <2>4. \A c \in Unmonitored' : timer'[c] \in {"none", "removed"}
      BY <2>1, <2>2, <2>3 DEF TakenDownInv, Off
    <2>5. Revoked' = {}
      BY <1>1 DEF Revoked, NoJob
    <2>6. kind = "VFAT" => \A c \in Cards : timer'[c] = "none"
      BY DEF TakenDownInv
    <2>7. QED BY <2>4, <2>5, <2>6 DEF TakenDownInv, UpdatesOwned
  <1>5. MonitoredInv'
    <2>1. AfterInitialize' /\ ~troubled' /\ HasMonitors => \A c \in Cards : Runs(c)'
      BY <1>1 DEF AfterInitialize, Ending
    <2>2. QED BY <1>1, <2>1 DEF MonitoredInv, Runs, NoJob
  <1>6. QuietInv'
    BY <1>1 DEF QuietInv
  <1>7. QED BY <1>2, <1>3, <1>4, <1>5, <1>6

(* The step ends nothing.                                                               *)
Stay == UNCHANGED outcomeVars

(* What a step within a job must leave of the cards.                             *)
StayOfCards ==
  /\ HasMonitors =>
       /\ job \in {"Start", "Pause", "Resume", "Stop"} =>
            \A c \in Cards : hw[c] = "good" => hw'[c] = "good"
       /\ job = "Configure" /\ ~failed => \A c \in Checked' : hw'[c] = "good"
       /\ job = "Initialize" =>
            /\ \A c \in Cards : c < at' => Runs(c)'
            /\ pc' = "monitor" => item'[at'] = "published"
       /\ job \notin {"Initialize", "Reset"} /\ ~troubled =>
            \A c \in Cards :
              /\ timer'[c] \in IF c \in Stoppable' THEN {"active", "stopped"} ELSE {"active"}
              /\ Watched(c)'
       /\ job = "Initialize" => \A c \in Revoked' : item'[c] = "absent"
  /\ job = "Initialize" =>
       \A c \in Cards : c < at' \/ (c = at' /\ pc' # "create") => hw'[c] # "null"
  /\ job # "Initialize" => \A c \in Cards : hw[c] # "null" => hw'[c] # "null"
  /\ job \in {"Initialize", "Reset"} /\ present => \A c \in Unmonitored' : Off(c)'
  /\ QuietInv'

(* A step within a job that leaves of the cards what it must keeps the parts of the     *)
(* invariant about cards.                                                               *)
LEMMA StayKeepsCards ==
  ASSUME HwInv, job # NoJob, Stay, UNCHANGED <<buildVars, present>>, StayOfCards, AnyStepOfCards
  PROVE  ConnectedInv' /\ BuiltInv' /\ TakenDownInv' /\ MonitoredInv' /\ QuietInv'
  <1> USE DEF HwInv, HwTypeOK, StayOfCards, AnyStepOfCards, HasMonitors, buildVars
  <1>1. /\ job' = job /\ state' = state /\ failed' = failed /\ troubled' = troubled
        /\ initFailed' = initFailed
        /\ state' \notin {"Initial", "Halted", "Configured", "Running", "Paused", "Error"}
    BY PhaseOfJob, Table DEF Stay, outcomeVars
  <1>2. ConnectedInv'
    BY <1>1 DEF ConnectedInv
  <1>3. BuiltInv'
    BY <1>1 DEF BuiltInv
  <1>4. TakenDownInv'
    <2>1. ~present => Unmonitored = Cards
      BY DEF Unmonitored, Revoked
    <2>2. present /\ job \notin {"Initialize", "Reset"} => Unmonitored' = {}
      BY <1>1 DEF Unmonitored, Revoked
    <2>3. Unmonitored' \subseteq Cards
      BY DEF Unmonitored, Revoked
    <2>4. \A c \in Unmonitored' : timer'[c] \in {"none", "removed"}
      BY <2>1, <2>2, <2>3 DEF TakenDownInv, Off
    <2>5. HasMonitors => \A c \in Revoked' : item'[c] = "absent"
      BY <1>1 DEF Revoked
    <2>6. kind = "VFAT" => \A c \in Cards : timer'[c] = "none"
      BY DEF TakenDownInv
    <2>7. QED BY <2>4, <2>5, <2>6 DEF TakenDownInv, UpdatesOwned
  <1>5. MonitoredInv'
    BY <1>1 DEF MonitoredInv, Runs, AfterInitialize
  <1>7. QED BY <1>2, <1>3, <1>4, <1>5

(* The types of the cards' part of the state. *)
CardTypeOK ==
  /\ hw \in [Cards -> {"null", "lost", "good"}]
  /\ timer \in [Cards -> {"none", "active", "stopped", "removed"}]
  /\ item \in [Cards -> {"absent", "published"}]
  /\ listed \in [Cards -> BOOLEAN]
  /\ update \in [Cards -> {"idle", "running"}]
  /\ leaked \in [Cards -> BOOLEAN] /\ overlapped \in [Cards -> BOOLEAN]

(* The frame of the lemmas below: what a step of a job has to show for the invariant.   *)
LEMMA StepKeeps ==
  ASSUME HwInv, job # NoJob, UNCHANGED <<buildVars, present>>,
         \/ Ending /\ EndOfCards
         \/ Stay /\ pc' \in Phases /\ at' \in Cards /\ StayOfCards,
         AnyStepOfCards, CardTypeOK', StaysUp', down' \in BOOLEAN
  PROVE  HwInv'
  <1>1. JobTypeOK
    BY DEF HwInv, HwTypeOK, JobTypeOK
  <1>2. JobTypeOK' /\ JobInv'
    BY <1>1, EndingKeepsJob, StayingKeepsJob DEF HwInv, HwTypeOK, Stay
  <1>3. ConnectedInv' /\ BuiltInv' /\ TakenDownInv' /\ MonitoredInv' /\ QuietInv'
    BY EndKeepsCards, StayKeepsCards
  <1>4. HwTypeOK'
    BY <1>2 DEF HwInv, HwTypeOK, JobTypeOK, CardTypeOK, buildVars
  <1>5. QED BY <1>2, <1>3, <1>4 DEF HwInv

(* A step that raises does not also return a good end.                                  *)
LEMMA RaisesOrReturns ==
  ASSUME HwInv, job # NoJob, Raises PROVE ~Returns \/ failed
  <1>1. job \in Commands /\ state = Via[job]
    BY DEF HwInv, HwTypeOK, JobInv
  <1>2. Settled[Via[job]] # "Error"
    BY <1>1, Table
  <1>3. QED BY <1>1, <1>2 DEF Raises, Returns, Ends

(* A job that raises asks nothing more of the cards than a job that goes on.      *)
LEMMA RaisingKeeps ==
  ASSUME HwInv, job # NoJob, Raises, pc # "through", UNCHANGED <<buildVars, present>>, AnyStepOfCards,
         job # "Initialize" => \A c \in Cards : hw[c] # "null" => hw'[c] # "null",
         CardTypeOK', StaysUp', down' \in BOOLEAN
  PROVE  HwInv'
  <1>1. ~Returns \/ failed
    BY RaisesOrReturns
  <1>2. QED BY <1>1, StepKeeps DEF EndOfCards, Ending

(* A step within a job neither returns nor raises.                                      *)
LEMMA StayOrEnd == ASSUME job # NoJob PROVE Stay => ~Returns /\ ~Raises
  BY DEF Stay, outcomeVars, Returns, Raises, Ends

(* An action without work, or of a manager that is not there, preserves the invariant.  *)
LEMMA PassesThroughKeeps ==
  ASSUME HwInv, ~down, job # NoJob, PassesThrough, UNCHANGED <<buildVars, present>>
  PROVE  HwInv'
  <1> USE NumCardsAssumption, PhaseOfJob, StayOrEnd DEF HwInv, HwTypeOK, Cards
  <1> USE DEF PassesThrough, GoesTo, NextCard, cardVars, sharedVars, buildVars, Looks, Stopped, Started
  <1>1. CardTypeOK'
    BY DEF CardTypeOK
  <1>2. AnyStepOfCards
    BY DEF AnyStepOfCards, UpdatesOwned, TakenDownInv, HasMonitors, Revoked
  <1>3. StaysUp' /\ down' \in BOOLEAN
    BY DEF StaysUp
  <1>5. CASE Returns
    <2>1. ~Stay
      BY <1>5
    <2>2. EndOfCards
      BY <1>5, <2>1
         DEF EndOfCards, ConnectedInv, BuiltInv, TakenDownInv, MonitoredInv, Checked, Answers,
             HasMonitors, Stoppable, Unmonitored, Revoked, Off, Runs, Watched, Stay, outcomeVars
    <2>3. QED BY <1>1, <1>2, <1>3, <1>5, <2>2, StepKeeps DEF Ending
  <1>6. QED BY <1>5

(* The construction of a card's device preserves the invariant.                         *)
LEMMA CreatesDeviceKeeps ==
  ASSUME HwInv, ~down, job # NoJob, CreatesDevice, UNCHANGED <<buildVars, present>>
  PROVE  HwInv'
  <1> USE NumCardsAssumption, PhaseOfJob, StayOrEnd DEF HwInv, HwTypeOK, Cards
  <1> USE DEF CreatesDevice, ReplacesToolBox, GoesTo, NextCard, cardVars, sharedVars, buildVars, Looks, Stopped, Started
  <1>1. CardTypeOK'
    BY DEF CardTypeOK
  <1>2. AnyStepOfCards
    BY DEF AnyStepOfCards, UpdatesOwned, TakenDownInv, HasMonitors, Revoked
  <1>3. StaysUp' /\ down' \in BOOLEAN
    BY DEF StaysUp
  <1>4. (Raises /\ pc # "through") \/ (Stay /\ pc' \in Phases /\ at' \in Cards)
    BY DEF Stay, outcomeVars, Phases, ResetPhases, WorkPhases, InitializePhases,
           ResetLoop, Kinds, HasMonitors
  <1>5. CASE Raises /\ pc # "through"
    BY <1>1, <1>2, <1>3, <1>5, RaisingKeeps
  <1>6. CASE Stay /\ pc' \in Phases /\ at' \in Cards
    <2>1. ~Returns /\ ~Raises
      BY <1>6
    <2>2. job' = job /\ failed' = failed /\ state' = state
          /\ kind' = kind /\ named' = named /\ present' = present
      BY <1>6 DEF Stay, outcomeVars
    <2>3. StayOfCards
      BY <2>1, <2>2
         DEF StayOfCards, ConnectedInv, BuiltInv, TakenDownInv, MonitoredInv, QuietInv, Checked,
             Answers, HasMonitors, Stoppable, Unmonitored, Revoked, Off, Runs, Watched,
             SteadyStates, ReadyStates
    <2>4. QED BY <1>1, <1>2, <1>3, <1>6, <2>3, StepKeeps
  <1>7. QED BY <1>4, <1>5, <1>6

(* The construction of the devices of the VFATs preserves the invariant.                *)
LEMMA CreatesVFATKeeps ==
  ASSUME HwInv, ~down, job # NoJob, CreatesVFAT, UNCHANGED <<buildVars, present>>
  PROVE  HwInv'
  <1> USE NumCardsAssumption, PhaseOfJob, StayOrEnd DEF HwInv, HwTypeOK, Cards
  <1> USE DEF CreatesVFAT, GoesTo, NextCard, cardVars, sharedVars, buildVars, Looks, Stopped, Started
  <1>1. CardTypeOK'
    BY DEF CardTypeOK
  <1>2. AnyStepOfCards
    BY DEF AnyStepOfCards, UpdatesOwned, TakenDownInv, HasMonitors, Revoked
  <1>3. StaysUp' /\ down' \in BOOLEAN
    BY DEF StaysUp
  <1>4. (Stay /\ pc' \in Phases /\ at' \in Cards)
    BY DEF Stay, outcomeVars, Phases, ResetPhases, WorkPhases, InitializePhases,
           ResetLoop, Kinds, HasMonitors
  <1>5. CASE Stay /\ pc' \in Phases /\ at' \in Cards
    <2>1. ~Returns /\ ~Raises
      BY <1>5
    <2>2. job' = job /\ failed' = failed /\ state' = state
          /\ kind' = kind /\ named' = named /\ present' = present
      BY <1>5 DEF Stay, outcomeVars
    <2>3. StayOfCards
      BY <2>1, <2>2
         DEF StayOfCards, ConnectedInv, BuiltInv, TakenDownInv, MonitoredInv, QuietInv, Checked,
             Answers, HasMonitors, Stoppable, Unmonitored, Revoked, Off, Runs, Watched,
             SteadyStates, ReadyStates
    <2>4. QED BY <1>1, <1>2, <1>3, <1>5, <2>3, StepKeeps
  <1>6. QED BY <1>4, <1>5

(* The creation of a card's info space and items preserves the invariant.               *)
LEMMA PublishesKeeps ==
  ASSUME HwInv, ~down, job # NoJob, Publishes, UNCHANGED <<buildVars, present>>
  PROVE  HwInv'
  <1> USE NumCardsAssumption, PhaseOfJob, StayOrEnd DEF HwInv, HwTypeOK, Cards
  <1> USE DEF Publishes, GoesTo, NextCard, cardVars, sharedVars, buildVars, Looks, Stopped, Started
  <1>1. CardTypeOK'
    BY DEF CardTypeOK
  <1>2. AnyStepOfCards
    BY DEF AnyStepOfCards, UpdatesOwned, TakenDownInv, HasMonitors, Revoked
  <1>3. StaysUp' /\ down' \in BOOLEAN
    BY DEF StaysUp
  <1>4. (Returns /\ at = NumCards) \/ (Stay /\ pc' \in Phases /\ at' \in Cards)
    BY DEF Stay, outcomeVars, Phases, ResetPhases, WorkPhases, InitializePhases,
           ResetLoop, Kinds, HasMonitors
  <1>5. CASE Returns /\ at = NumCards
    <2>1. ~Stay
      BY <1>5
    <2>2. EndOfCards
      BY <1>5, <2>1
         DEF EndOfCards, ConnectedInv, BuiltInv, TakenDownInv, MonitoredInv, Checked, Answers,
             HasMonitors, Stoppable, Unmonitored, Revoked, Off, Runs, Watched, Stay, outcomeVars
    <2>3. QED BY <1>1, <1>2, <1>3, <1>5, <2>2, StepKeeps DEF Ending
  <1>6. CASE Stay /\ pc' \in Phases /\ at' \in Cards
    <2>1. ~Returns /\ ~Raises
      BY <1>6
    <2>2. job' = job /\ failed' = failed /\ state' = state
          /\ kind' = kind /\ named' = named /\ present' = present
      BY <1>6 DEF Stay, outcomeVars
    <2>3. StayOfCards
      BY <2>1, <2>2
         DEF StayOfCards, ConnectedInv, BuiltInv, TakenDownInv, MonitoredInv, QuietInv, Checked,
             Answers, HasMonitors, Stoppable, Unmonitored, Revoked, Off, Runs, Watched,
             SteadyStates, ReadyStates
    <2>4. QED BY <1>1, <1>2, <1>3, <1>6, <2>3, StepKeeps
  <1>7. QED BY <1>4, <1>5, <1>6

(* The start of a card's monitor preserves the invariant.                               *)
LEMMA StartsMonitorKeeps ==
  ASSUME HwInv, ~down, job # NoJob, StartsMonitor, UNCHANGED <<buildVars, present>>
  PROVE  HwInv'
  <1> USE NumCardsAssumption, PhaseOfJob, StayOrEnd DEF HwInv, HwTypeOK, Cards
  <1> USE DEF StartsMonitor, GoesTo, NextCard, cardVars, sharedVars, buildVars, Looks, Stopped, Started
  <1>1. CardTypeOK'
    BY DEF CardTypeOK
  <1>2. AnyStepOfCards
    BY DEF AnyStepOfCards, UpdatesOwned, TakenDownInv, HasMonitors, Revoked
  <1>3. StaysUp' /\ down' \in BOOLEAN
    <2>1. at \in Unmonitored
      BY DEF Unmonitored
    <2>2. update[at] = "running" => overlapped[at]
      BY <2>1 DEF TakenDownInv
    <2>3. QED BY <2>2 DEF StaysUp
  <1>4. (Returns /\ at = NumCards) \/ (Stay /\ pc' \in Phases /\ at' \in Cards)
    BY DEF Stay, outcomeVars, Phases, ResetPhases, WorkPhases, InitializePhases,
           ResetLoop, Kinds, HasMonitors
  <1>5. CASE Returns /\ at = NumCards
    <2>1. ~Stay
      BY <1>5
    <2>2. EndOfCards
      BY <1>5, <2>1
         DEF EndOfCards, ConnectedInv, BuiltInv, TakenDownInv, MonitoredInv, Checked, Answers,
             HasMonitors, Stoppable, Unmonitored, Revoked, Off, Runs, Watched, Stay, outcomeVars
    <2>3. QED BY <1>1, <1>2, <1>3, <1>5, <2>2, StepKeeps DEF Ending
  <1>6. CASE Stay /\ pc' \in Phases /\ at' \in Cards
    <2>1. ~Returns /\ ~Raises
      BY <1>6
    <2>2. job' = job /\ failed' = failed /\ state' = state
          /\ kind' = kind /\ named' = named /\ present' = present
      BY <1>6 DEF Stay, outcomeVars
    <2>3. StayOfCards
      BY <2>1, <2>2
         DEF StayOfCards, ConnectedInv, BuiltInv, TakenDownInv, MonitoredInv, QuietInv, Checked,
             Answers, HasMonitors, Stoppable, Unmonitored, Revoked, Off, Runs, Watched,
             SteadyStates, ReadyStates
    <2>4. QED BY <1>1, <1>2, <1>3, <1>6, <2>3, StepKeeps
  <1>7. QED BY <1>4, <1>5, <1>6

(* The test of a GLIB's connection preserves the invariant.                             *)
LEMMA GLIBLooksKeeps ==
  ASSUME HwInv, ~down, job # NoJob, GLIBLooks, UNCHANGED <<buildVars, present>>
  PROVE  HwInv'
  <1> USE NumCardsAssumption, PhaseOfJob, StayOrEnd DEF HwInv, HwTypeOK, Cards
  <1> USE DEF GLIBLooks, GoesTo, NextCard, cardVars, sharedVars, buildVars, Looks, Stopped, Started
  <1>0. /\ \A c \in Cards : hw[c] = "good" => hw'[c] = "good"
        /\ (Stay /\ at' = at) \/ Raises \/ job \in {"Stop", "Halt"}
        /\ Stay /\ at' = at => job = "Reset" \/ hw'[at] = "good"
    <2>1. PICK ok \in Answers(at) :
            /\ hw' = [hw EXCEPT ![at] = IF ok THEN "good" ELSE "lost"]
            /\ \/ ok /\ GoesTo("pause")
               \/ ~ok /\ job \in {"Configure", "Start", "Pause"} /\ Raises
               \/ ~ok /\ job \in {"Stop", "Halt"} /\ NextCard("look", "end")
               \/ ~ok /\ job = "Reset" /\ GoesTo("unmonitor")
      OBVIOUS
    <2>2. hw[at] = "good" => ok
      BY DEF Answers
    <2>3. QED BY <2>1, <2>2 DEF Stay
  <1>1. CardTypeOK'
    BY DEF CardTypeOK
  <1>2. AnyStepOfCards
    BY DEF AnyStepOfCards, UpdatesOwned, TakenDownInv, HasMonitors, Revoked
  <1>3. StaysUp' /\ down' \in BOOLEAN
    BY DEF StaysUp
  <1>4. (Raises /\ pc # "through") \/ (Returns /\ at = NumCards) \/ (Stay /\ pc' \in Phases /\ at' \in Cards)
    BY DEF Stay, outcomeVars, Phases, ResetPhases, WorkPhases, InitializePhases,
           ResetLoop, Kinds, HasMonitors
  <1>5. CASE Raises /\ pc # "through"
    BY <1>1, <1>2, <1>3, <1>5, RaisingKeeps
  <1>6. CASE Returns /\ at = NumCards
    <2>1. ~Stay
      BY <1>6
    <2>2. EndOfCards
      <3>1. ASSUME ~failed, HasMonitors, job \in {"Configure", "Start", "Pause", "Resume", "Stop"}
            PROVE  \A c \in Cards : hw'[c] = "good"
        <4>1. job \in {"Start", "Pause", "Resume", "Stop"}
          BY <1>0, <1>6, <2>1, <3>1, RaisesOrReturns
        <4>2. QED BY <1>0, <3>1, <4>1 DEF ConnectedInv
      <3>2. ASSUME ~failed, HasMonitors, job # "Reset", troubled => job = "Initialize"
            PROVE  \A c \in Cards : Runs(c)'
        BY <1>6, <2>1, <3>2
           DEF MonitoredInv, Stoppable, Runs, Watched, HasMonitors, Stay, outcomeVars
      <3>3. ASSUME job = "Reset"
            PROVE  \A c \in Cards : Off(c)'
        BY <1>6, <2>1, <3>3
           DEF TakenDownInv, Unmonitored, Revoked, HasMonitors, Off, Stay, outcomeVars
      <3>4. ASSUME job = "Initialize" PROVE \A c \in Cards : hw'[c] # "null"
        BY <1>6, <2>1, <3>4 DEF BuiltInv, Stay, outcomeVars
      <3>5. job # "Initialize" => \A c \in Cards : hw[c] # "null" => hw'[c] # "null"
        OBVIOUS
      <3>6. QED BY <3>1, <3>2, <3>3, <3>4, <3>5 DEF EndOfCards
    <2>3. QED BY <1>1, <1>2, <1>3, <1>6, <2>2, StepKeeps DEF Ending
  <1>7. CASE Stay /\ pc' \in Phases /\ at' \in Cards
    <2>1. ~Returns /\ ~Raises
      BY <1>7
    <2>2. job' = job /\ failed' = failed /\ state' = state
          /\ kind' = kind /\ named' = named /\ present' = present
      BY <1>7 DEF Stay, outcomeVars
    <2>3. StayOfCards
      <3>1. HasMonitors =>
              /\ job \in {"Start", "Pause", "Resume", "Stop"} =>
                   \A c \in Cards : hw[c] = "good" => hw'[c] = "good"
              /\ job = "Configure" /\ ~failed => \A c \in Checked' : hw'[c] = "good"
        BY <1>0, <1>7, <2>1, <2>2 DEF HasMonitors, ConnectedInv, Checked
      <3>2. HasMonitors /\ job \notin {"Initialize", "Reset"} /\ ~troubled =>
              \A c \in Cards :
                /\ timer'[c] \in IF c \in Stoppable' THEN {"active", "stopped"} ELSE {"active"}
                /\ Watched(c)'
        BY <2>1, <2>2 DEF HasMonitors, MonitoredInv, Stoppable, Watched
      <3>3. HasMonitors /\ job = "Reset" => \A c \in Revoked' : item'[c] = "absent"
        BY <2>1, <2>2 DEF TakenDownInv, Revoked, HasMonitors, ResetLoop, Kinds, SteadyStates, ReadyStates
      <3>4. job = "Reset" => \A c \in Unmonitored' : Off(c)'
        BY <2>1, <2>2 DEF TakenDownInv, Unmonitored, Off, HasMonitors, ResetLoop, Kinds, SteadyStates, ReadyStates
      <3>5. job # "Initialize" /\ (\A c \in Cards : hw[c] # "null" => hw'[c] # "null")
        OBVIOUS
      <3>6. QuietInv'
        BY <2>1, <2>2 DEF QuietInv
      <3>7. QED BY <3>1, <3>2, <3>3, <3>4, <3>5, <3>6 DEF StayOfCards
    <2>4. QED BY <1>1, <1>2, <1>3, <1>7, <2>3, StepKeeps
  <1>8. QED BY <1>4, <1>5, <1>6, <1>7

(* The pause of a GLIB's monitor preserves the invariant.                               *)
LEMMA GLIBPausesMonitorKeeps ==
  ASSUME HwInv, ~down, job # NoJob, GLIBPausesMonitor, UNCHANGED <<buildVars, present>>
  PROVE  HwInv'
  <1> USE NumCardsAssumption, PhaseOfJob, StayOrEnd DEF HwInv, HwTypeOK, Cards
  <1> USE DEF GLIBPausesMonitor, GoesTo, NextCard, cardVars, sharedVars, buildVars, Looks, Stopped, Started
  <1>1. CardTypeOK'
    BY DEF CardTypeOK
  <1>2. AnyStepOfCards
    BY DEF AnyStepOfCards, UpdatesOwned, TakenDownInv, HasMonitors, Revoked
  <1>3. StaysUp' /\ down' \in BOOLEAN
    BY DEF StaysUp
  <1>4. (Raises /\ pc # "through") \/ (Stay /\ pc' \in Phases /\ at' \in Cards)
    BY DEF Stay, outcomeVars, Phases, ResetPhases, WorkPhases, InitializePhases,
           ResetLoop, Kinds, HasMonitors
  <1>5. CASE Raises /\ pc # "through"
    BY <1>1, <1>2, <1>3, <1>5, RaisingKeeps
  <1>6. CASE Stay /\ pc' \in Phases /\ at' \in Cards
    <2>1. ~Returns /\ ~Raises
      BY <1>6
    <2>2. job' = job /\ failed' = failed /\ state' = state
          /\ kind' = kind /\ named' = named /\ present' = present
      BY <1>6 DEF Stay, outcomeVars
    <2>3. StayOfCards
      BY <2>1, <2>2
         DEF StayOfCards, ConnectedInv, BuiltInv, TakenDownInv, MonitoredInv, QuietInv, Checked,
             Answers, HasMonitors, Stoppable, Unmonitored, Revoked, Off, Runs, Watched,
             SteadyStates, ReadyStates
    <2>4. QED BY <1>1, <1>2, <1>3, <1>6, <2>3, StepKeeps
  <1>7. QED BY <1>4, <1>5, <1>6

(* The accesses to a GLIB preserve the invariant.                                       *)
LEMMA GLIBWorksKeeps ==
  ASSUME HwInv, ~down, job # NoJob, GLIBWorks, UNCHANGED <<buildVars, present>>
  PROVE  HwInv'
  <1> USE NumCardsAssumption, PhaseOfJob, StayOrEnd DEF HwInv, HwTypeOK, Cards
  <1> USE DEF GLIBWorks, GoesTo, NextCard, cardVars, sharedVars, buildVars, Looks, Stopped, Started
  <1>1. CardTypeOK'
    BY DEF CardTypeOK
  <1>2. AnyStepOfCards
    BY DEF AnyStepOfCards, UpdatesOwned, TakenDownInv, HasMonitors, Revoked
  <1>3. StaysUp' /\ down' \in BOOLEAN
    BY DEF StaysUp
  <1>4. (Raises /\ pc # "through") \/ (Stay /\ pc' \in Phases /\ at' \in Cards)
    BY DEF Stay, outcomeVars, Phases, ResetPhases, WorkPhases, InitializePhases,
           ResetLoop, Kinds, HasMonitors
  <1>5. CASE Raises /\ pc # "through"
    BY <1>1, <1>2, <1>3, <1>5, RaisingKeeps
  <1>6. CASE Stay /\ pc' \in Phases /\ at' \in Cards
    <2>1. ~Returns /\ ~Raises
      BY <1>6
    <2>2. job' = job /\ failed' = failed /\ state' = state
          /\ kind' = kind /\ named' = named /\ present' = present
      BY <1>6 DEF Stay, outcomeVars
    <2>3. StayOfCards
      BY <2>1, <2>2
         DEF StayOfCards, ConnectedInv, BuiltInv, TakenDownInv, MonitoredInv, QuietInv, Checked,
             Answers, HasMonitors, Stoppable, Unmonitored, Revoked, Off, Runs, Watched,
             SteadyStates, ReadyStates
    <2>4. QED BY <1>1, <1>2, <1>3, <1>6, <2>3, StepKeeps
  <1>7. QED BY <1>4, <1>5, <1>6

(* The end of a GLIB's pause preserves the invariant.                                   *)
LEMMA GLIBResumesMonitorKeeps ==
  ASSUME HwInv, ~down, job # NoJob, GLIBResumesMonitor, UNCHANGED <<buildVars, present>>
  PROVE  HwInv'
  <1> USE NumCardsAssumption, PhaseOfJob, StayOrEnd DEF HwInv, HwTypeOK, Cards
  <1> USE DEF GLIBResumesMonitor, GoesTo, NextCard, cardVars, sharedVars, buildVars, Looks, Stopped, Started
  <1>1. CardTypeOK'
    BY DEF CardTypeOK
  <1>2. AnyStepOfCards
    BY DEF AnyStepOfCards, UpdatesOwned, TakenDownInv, HasMonitors, Revoked
  <1>3. StaysUp' /\ down' \in BOOLEAN
    BY DEF StaysUp
  <1>4. (Returns /\ at = NumCards) \/ (Stay /\ pc' \in Phases /\ at' \in Cards)
    BY DEF Stay, outcomeVars, Phases, ResetPhases, WorkPhases, InitializePhases,
           ResetLoop, Kinds, HasMonitors
  <1>5. CASE Returns /\ at = NumCards
    <2>1. ~Stay
      BY <1>5
    <2>2. EndOfCards
      BY <1>5, <2>1
         DEF EndOfCards, ConnectedInv, BuiltInv, TakenDownInv, MonitoredInv, Checked, Answers,
             HasMonitors, Stoppable, Unmonitored, Revoked, Off, Runs, Watched, Stay, outcomeVars
    <2>3. QED BY <1>1, <1>2, <1>3, <1>5, <2>2, StepKeeps DEF Ending
  <1>6. CASE Stay /\ pc' \in Phases /\ at' \in Cards
    <2>1. ~Returns /\ ~Raises
      BY <1>6
    <2>2. job' = job /\ failed' = failed /\ state' = state
          /\ kind' = kind /\ named' = named /\ present' = present
      BY <1>6 DEF Stay, outcomeVars
    <2>3. StayOfCards
      BY <2>1, <2>2
         DEF StayOfCards, ConnectedInv, BuiltInv, TakenDownInv, MonitoredInv, QuietInv, Checked,
             Answers, HasMonitors, Stoppable, Unmonitored, Revoked, Off, Runs, Watched,
             SteadyStates, ReadyStates
    <2>4. QED BY <1>1, <1>2, <1>3, <1>6, <2>3, StepKeeps
  <1>7. QED BY <1>4, <1>5, <1>6

(* The pause of an OptoHybrid's monitor preserves the invariant.                        *)
LEMMA OptoHybridPausesMonitorKeeps ==
  ASSUME HwInv, ~down, job # NoJob, OptoHybridPausesMonitor, UNCHANGED <<buildVars, present>>
  PROVE  HwInv'
  <1> USE NumCardsAssumption, PhaseOfJob, StayOrEnd DEF HwInv, HwTypeOK, Cards
  <1> USE DEF OptoHybridPausesMonitor, GoesTo, NextCard, cardVars, sharedVars, buildVars, Looks, Stopped, Started
  <1>1. CardTypeOK'
    <2>1. timer' \in [Cards -> {"none", "active", "stopped", "removed"}]
      OBVIOUS
    <2>2. UNCHANGED <<hw, item, listed, update, leaked, overlapped>>
      OBVIOUS
    <2>3. QED BY <2>1, <2>2 DEF CardTypeOK
  <1>2. AnyStepOfCards
    BY DEF AnyStepOfCards, UpdatesOwned, TakenDownInv, HasMonitors, Revoked
  <1>3. StaysUp' /\ down' \in BOOLEAN
    BY DEF StaysUp
  <1>4. (Raises /\ pc # "through") \/ (Stay /\ pc' \in Phases /\ at' \in Cards)
    BY DEF Stay, outcomeVars, Phases, ResetPhases, WorkPhases, InitializePhases,
           ResetLoop, Kinds, HasMonitors
  <1>5. CASE Raises /\ pc # "through"
    BY <1>1, <1>2, <1>3, <1>5, RaisingKeeps
  <1>6. CASE Stay /\ pc' \in Phases /\ at' \in Cards
    <2>1. ~Returns /\ ~Raises
      BY <1>6
    <2>2. job' = job /\ failed' = failed /\ state' = state
          /\ kind' = kind /\ named' = named /\ present' = present
      BY <1>6 DEF Stay, outcomeVars
    <2>3. StayOfCards
      <3>1. HasMonitors =>
              /\ job \in {"Start", "Pause", "Resume", "Stop"} =>
                   \A c \in Cards : hw[c] = "good" => hw'[c] = "good"
              /\ job = "Configure" /\ ~failed => \A c \in Checked' : hw'[c] = "good"
        BY <2>1, <2>2 DEF HasMonitors, Answers, ConnectedInv, Checked
      <3>2. HasMonitors /\ job \notin {"Initialize", "Reset"} /\ ~troubled =>
              \A c \in Cards :
                /\ timer'[c] \in IF c \in Stoppable' THEN {"active", "stopped"} ELSE {"active"}
                /\ Watched(c)'
        <4>1. HasMonitors /\ job \notin {"Initialize", "Reset"} => pc' \in {"pause", "work"} /\ kind = "OptoHybrid"
          BY <2>1, <2>2
        <4>2. HasMonitors /\ job \notin {"Initialize", "Reset"} =>
                \A c \in Cards : c \in Stoppable /\ c \in Stoppable'
          BY <2>1, <2>2, <4>1 DEF Stoppable
        <4>3. HasMonitors /\ job \notin {"Initialize", "Reset"} /\ ~troubled =>
                \A c \in Cards : timer[c] \in {"active", "stopped"} /\ Watched(c)
          BY <4>2 DEF MonitoredInv
        <4>4. \A c \in Cards : /\ timer[c] \in {"active", "stopped"} => timer'[c] \in {"active", "stopped"}
                             /\ Watched(c) => Watched(c)'
          BY <2>1 DEF Watched
        <4>5. QED BY <4>2, <4>3, <4>4
      <3>3. HasMonitors /\ job = "Reset" => \A c \in Revoked' : item'[c] = "absent"
        BY <2>1, <2>2 DEF TakenDownInv, Revoked, HasMonitors, ResetLoop, Kinds, SteadyStates, ReadyStates
      <3>4. job = "Reset" => \A c \in Unmonitored' : Off(c)'
        BY <2>1, <2>2 DEF TakenDownInv, Unmonitored, Off, HasMonitors, ResetLoop, Kinds, SteadyStates, ReadyStates
      <3>5. job # "Initialize" /\ (\A c \in Cards : hw[c] # "null" => hw'[c] # "null")
        OBVIOUS
      <3>6. QuietInv'
        BY <2>1, <2>2 DEF QuietInv
      <3>7. QED BY <3>1, <3>2, <3>3, <3>4, <3>5, <3>6 DEF StayOfCards
    <2>4. QED BY <1>1, <1>2, <1>3, <1>6, <2>3, StepKeeps
  <1>7. QED BY <1>4, <1>5, <1>6

(* The accesses to an OptoHybrid preserve the invariant.                                *)
LEMMA OptoHybridWorksKeeps ==
  ASSUME HwInv, ~down, job # NoJob, OptoHybridWorks, UNCHANGED <<buildVars, present>>
  PROVE  HwInv'
  <1> USE NumCardsAssumption, PhaseOfJob, StayOrEnd DEF HwInv, HwTypeOK, Cards
  <1> USE DEF OptoHybridWorks, GoesTo, NextCard, cardVars, sharedVars, buildVars, Looks, Stopped, Started
  <1>1. CardTypeOK'
    BY DEF CardTypeOK
  <1>2. AnyStepOfCards
    BY DEF AnyStepOfCards, UpdatesOwned, TakenDownInv, HasMonitors, Revoked
  <1>3. StaysUp' /\ down' \in BOOLEAN
    BY DEF StaysUp
  <1>4. (Raises /\ pc # "through") \/ (Stay /\ pc' \in Phases /\ at' \in Cards)
    BY DEF Stay, outcomeVars, Phases, ResetPhases, WorkPhases, InitializePhases,
           ResetLoop, Kinds, HasMonitors
  <1>5. CASE Raises /\ pc # "through"
    BY <1>1, <1>2, <1>3, <1>5, RaisingKeeps
  <1>6. CASE Stay /\ pc' \in Phases /\ at' \in Cards
    <2>1. ~Returns /\ ~Raises
      BY <1>6
    <2>2. job' = job /\ failed' = failed /\ state' = state
          /\ kind' = kind /\ named' = named /\ present' = present
      BY <1>6 DEF Stay, outcomeVars
    <2>3. StayOfCards
      BY <2>1, <2>2
         DEF StayOfCards, ConnectedInv, BuiltInv, TakenDownInv, MonitoredInv, QuietInv, Checked,
             Answers, HasMonitors, Stoppable, Unmonitored, Revoked, Off, Runs, Watched,
             SteadyStates, ReadyStates
    <2>4. QED BY <1>1, <1>2, <1>3, <1>6, <2>3, StepKeeps
  <1>7. QED BY <1>4, <1>5, <1>6

(* The end of an OptoHybrid's pause preserves the invariant.                            *)
LEMMA OptoHybridResumesMonitorKeeps ==
  ASSUME HwInv, ~down, job # NoJob, OptoHybridResumesMonitor, UNCHANGED <<buildVars, present>>
  PROVE  HwInv'
  <1> USE NumCardsAssumption, PhaseOfJob, StayOrEnd DEF HwInv, HwTypeOK, Cards
  <1> USE DEF OptoHybridResumesMonitor, GoesTo, NextCard, cardVars, sharedVars, buildVars, Looks, Stopped, Started
  <1>1. CardTypeOK'
    BY DEF CardTypeOK
  <1>2. AnyStepOfCards
    BY DEF AnyStepOfCards, UpdatesOwned, TakenDownInv, HasMonitors, Revoked
  <1>3. StaysUp' /\ down' \in BOOLEAN
    BY DEF StaysUp
  <1>4. (Returns /\ at = NumCards) \/ (Stay /\ pc' \in Phases /\ at' \in Cards)
    BY DEF Stay, outcomeVars, Phases, ResetPhases, WorkPhases, InitializePhases,
           ResetLoop, Kinds, HasMonitors
  <1>5. CASE Returns /\ at = NumCards
    <2>1. ~Stay
      BY <1>5
    <2>2. EndOfCards
      BY <1>5, <2>1
         DEF EndOfCards, ConnectedInv, BuiltInv, TakenDownInv, MonitoredInv, Checked, Answers,
             HasMonitors, Stoppable, Unmonitored, Revoked, Off, Runs, Watched, Stay, outcomeVars
    <2>3. QED BY <1>1, <1>2, <1>3, <1>5, <2>2, StepKeeps DEF Ending
  <1>6. CASE Stay /\ pc' \in Phases /\ at' \in Cards
    <2>1. ~Returns /\ ~Raises
      BY <1>6
    <2>2. job' = job /\ failed' = failed /\ state' = state
          /\ kind' = kind /\ named' = named /\ present' = present
      BY <1>6 DEF Stay, outcomeVars
    <2>3. StayOfCards
      BY <2>1, <2>2
         DEF StayOfCards, ConnectedInv, BuiltInv, TakenDownInv, MonitoredInv, QuietInv, Checked,
             Answers, HasMonitors, Stoppable, Unmonitored, Revoked, Off, Runs, Watched,
             SteadyStates, ReadyStates
    <2>4. QED BY <1>1, <1>2, <1>3, <1>6, <2>3, StepKeeps
  <1>7. QED BY <1>4, <1>5, <1>6

(* The accesses to a CTP7 preserve the invariant.                                       *)
LEMMA CTP7WorksKeeps ==
  ASSUME HwInv, ~down, job # NoJob, CTP7Works, UNCHANGED <<buildVars, present>>
  PROVE  HwInv'
  <1> USE NumCardsAssumption, PhaseOfJob, StayOrEnd DEF HwInv, HwTypeOK, Cards
  <1> USE DEF CTP7Works, GoesTo, NextCard, cardVars, sharedVars, buildVars, Looks, Stopped, Started
  <1>1. CardTypeOK'
    BY DEF CardTypeOK
  <1>2. AnyStepOfCards
    BY DEF AnyStepOfCards, UpdatesOwned, TakenDownInv, HasMonitors, Revoked
  <1>3. StaysUp' /\ down' \in BOOLEAN
    BY DEF StaysUp
  <1>4. (Returns /\ at = NumCards) \/ (Stay /\ pc' \in Phases /\ at' \in Cards)
    BY DEF Stay, outcomeVars, Phases, ResetPhases, WorkPhases, InitializePhases,
           ResetLoop, Kinds, HasMonitors
  <1>5. CASE Returns /\ at = NumCards
    <2>1. ~Stay
      BY <1>5
    <2>2. EndOfCards
      BY <1>5, <2>1
         DEF EndOfCards, ConnectedInv, BuiltInv, TakenDownInv, MonitoredInv, Checked, Answers,
             HasMonitors, Stoppable, Unmonitored, Revoked, Off, Runs, Watched, Stay, outcomeVars
    <2>3. QED BY <1>1, <1>2, <1>3, <1>5, <2>2, StepKeeps DEF Ending
  <1>6. CASE Stay /\ pc' \in Phases /\ at' \in Cards
    <2>1. ~Returns /\ ~Raises
      BY <1>6
    <2>2. job' = job /\ failed' = failed /\ state' = state
          /\ kind' = kind /\ named' = named /\ present' = present
      BY <1>6 DEF Stay, outcomeVars
    <2>3. StayOfCards
      BY <2>1, <2>2
         DEF StayOfCards, ConnectedInv, BuiltInv, TakenDownInv, MonitoredInv, QuietInv, Checked,
             Answers, HasMonitors, Stoppable, Unmonitored, Revoked, Off, Runs, Watched,
             SteadyStates, ReadyStates
    <2>4. QED BY <1>1, <1>2, <1>3, <1>6, <2>3, StepKeeps
  <1>7. QED BY <1>4, <1>5, <1>6

(* The accesses to the VFATs preserve the invariant.                                    *)
LEMMA VFATWorksKeeps ==
  ASSUME HwInv, ~down, job # NoJob, VFATWorks, UNCHANGED <<buildVars, present>>
  PROVE  HwInv'
  <1> USE NumCardsAssumption, PhaseOfJob, StayOrEnd DEF HwInv, HwTypeOK, Cards
  <1> USE DEF VFATWorks, GoesTo, NextCard, cardVars, sharedVars, buildVars, Looks, Stopped, Started
  <1>1. CardTypeOK'
    BY DEF CardTypeOK
  <1>2. AnyStepOfCards
    BY DEF AnyStepOfCards, UpdatesOwned, TakenDownInv, HasMonitors, Revoked
  <1>3. StaysUp' /\ down' \in BOOLEAN
    BY DEF StaysUp
  <1>4. (Returns /\ at = NumCards) \/ (Stay /\ pc' \in Phases /\ at' \in Cards)
    BY DEF Stay, outcomeVars, Phases, ResetPhases, WorkPhases, InitializePhases,
           ResetLoop, Kinds, HasMonitors
  <1>5. CASE Returns /\ at = NumCards
    <2>1. ~Stay
      BY <1>5
    <2>2. EndOfCards
      BY <1>5, <2>1
         DEF EndOfCards, ConnectedInv, BuiltInv, TakenDownInv, MonitoredInv, Checked, Answers,
             HasMonitors, Stoppable, Unmonitored, Revoked, Off, Runs, Watched, Stay, outcomeVars
    <2>3. QED BY <1>1, <1>2, <1>3, <1>5, <2>2, StepKeeps DEF Ending
  <1>6. CASE Stay /\ pc' \in Phases /\ at' \in Cards
    <2>1. ~Returns /\ ~Raises
      BY <1>6
    <2>2. job' = job /\ failed' = failed /\ state' = state
          /\ kind' = kind /\ named' = named /\ present' = present
      BY <1>6 DEF Stay, outcomeVars
    <2>3. StayOfCards
      BY <2>1, <2>2
         DEF StayOfCards, ConnectedInv, BuiltInv, TakenDownInv, MonitoredInv, QuietInv, Checked,
             Answers, HasMonitors, Stoppable, Unmonitored, Revoked, Off, Runs, Watched,
             SteadyStates, ReadyStates
    <2>4. QED BY <1>1, <1>2, <1>3, <1>6, <2>3, StepKeeps
  <1>7. QED BY <1>4, <1>5, <1>6

(* The removal of a card's monitor in Reset preserves the invariant.                    *)
LEMMA ResetsMonitorKeeps ==
  ASSUME HwInv, ~down, job # NoJob, ResetsMonitor, UNCHANGED <<buildVars, present>>
  PROVE  HwInv'
  <1> USE NumCardsAssumption, PhaseOfJob, StayOrEnd DEF HwInv, HwTypeOK, Cards
  <1> USE DEF ResetsMonitor, GoesTo, NextCard, cardVars, sharedVars, buildVars, Looks, Stopped, Started
  <1>1. CardTypeOK'
    BY DEF CardTypeOK
  <1>2. AnyStepOfCards
    BY DEF AnyStepOfCards, UpdatesOwned, TakenDownInv, HasMonitors, Revoked
  <1>3. StaysUp' /\ down' \in BOOLEAN
    BY DEF StaysUp
  <1>4. (Raises /\ pc # "through") \/ (Stay /\ pc' \in Phases /\ at' \in Cards)
    BY DEF Stay, outcomeVars, Phases, ResetPhases, WorkPhases, InitializePhases,
           ResetLoop, Kinds, HasMonitors
  <1>5. CASE Raises /\ pc # "through"
    BY <1>1, <1>2, <1>3, <1>5, RaisingKeeps
  <1>6. CASE Stay /\ pc' \in Phases /\ at' \in Cards
    <2>1. ~Returns /\ ~Raises
      BY <1>6
    <2>2. job' = job /\ failed' = failed /\ state' = state
          /\ kind' = kind /\ named' = named /\ present' = present
      BY <1>6 DEF Stay, outcomeVars
    <2>3. StayOfCards
      BY <2>1, <2>2
         DEF StayOfCards, ConnectedInv, BuiltInv, TakenDownInv, MonitoredInv, QuietInv, Checked,
             Answers, HasMonitors, Stoppable, Unmonitored, Revoked, Off, Runs, Watched,
             SteadyStates, ReadyStates
    <2>4. QED BY <1>1, <1>2, <1>3, <1>6, <2>3, StepKeeps
  <1>7. QED BY <1>4, <1>5, <1>6

(* The removal of a card's items in Reset preserves the invariant.                      *)
LEMMA RevokesItemsKeeps ==
  ASSUME HwInv, ~down, job # NoJob, RevokesItems, UNCHANGED <<buildVars, present>>
  PROVE  HwInv'
  <1> USE NumCardsAssumption, PhaseOfJob, StayOrEnd DEF HwInv, HwTypeOK, Cards
  <1> USE DEF RevokesItems, GoesTo, NextCard, cardVars, sharedVars, buildVars, Looks, Stopped, Started
  <1>1. CardTypeOK'
    BY DEF CardTypeOK
  <1>2. AnyStepOfCards
    BY DEF AnyStepOfCards, UpdatesOwned, TakenDownInv, HasMonitors, Revoked
  <1>3. StaysUp' /\ down' \in BOOLEAN
    BY DEF StaysUp
  <1>4. (Returns /\ at = NumCards) \/ (Stay /\ pc' \in Phases /\ at' \in Cards)
    BY DEF Stay, outcomeVars, Phases, ResetPhases, WorkPhases, InitializePhases,
           ResetLoop, Kinds, HasMonitors
  <1>5. CASE Returns /\ at = NumCards
    <2>1. ~Stay
      BY <1>5
    <2>2. EndOfCards
      BY <1>5, <2>1
         DEF EndOfCards, ConnectedInv, BuiltInv, TakenDownInv, MonitoredInv, Checked, Answers,
             HasMonitors, Stoppable, Unmonitored, Revoked, Off, Runs, Watched, Stay, outcomeVars
    <2>3. QED BY <1>1, <1>2, <1>3, <1>5, <2>2, StepKeeps DEF Ending
  <1>6. CASE Stay /\ pc' \in Phases /\ at' \in Cards
    <2>1. ~Returns /\ ~Raises
      BY <1>6
    <2>2. job' = job /\ failed' = failed /\ state' = state
          /\ kind' = kind /\ named' = named /\ present' = present
      BY <1>6 DEF Stay, outcomeVars
    <2>3. StayOfCards
      BY <2>1, <2>2
         DEF StayOfCards, TakenDownInv, QuietInv, HasMonitors, Unmonitored, Revoked, Off,
             ResetLoop, Kinds, SteadyStates, ReadyStates
    <2>4. QED BY <1>1, <1>2, <1>3, <1>6, <2>3, StepKeeps
  <1>7. QED BY <1>4, <1>5, <1>6

(* CTP7Manager marks the failure and goes on with the next card.                 *)
LEMMA CTP7MissesCardKeeps ==
  ASSUME HwInv, ~down, job # NoJob, CTP7MissesCard, UNCHANGED <<buildVars, present>>
  PROVE  HwInv'
  <1> USE NumCardsAssumption, PhaseOfJob DEF HwInv, HwTypeOK, Cards
  <1> USE DEF CTP7MissesCard, sharedVars, buildVars, Looks
  <1>1. CardTypeOK'
    BY DEF CardTypeOK
  <1>2. AnyStepOfCards
    BY DEF AnyStepOfCards, UpdatesOwned, TakenDownInv, HasMonitors
  <1>3. StaysUp' /\ down' \in BOOLEAN
    BY DEF StaysUp
  <1>4. CASE Raises
    BY <1>1, <1>2, <1>3, <1>4, RaisingKeeps
  <1>5. CASE /\ job = "Configure" /\ at < NumCards /\ at' = at + 1 /\ failed' = TRUE
             /\ UNCHANGED <<pc, state, job, troubled, initFailed>>
    <2>1. state \notin SteadyStates /\ pc = "work" /\ kind = "CTP7" /\ present
      OBVIOUS
    <2>2. HwTypeOK'
      BY <1>1, <1>3, <1>5 DEF CardTypeOK
    <2>3. JobInv'
      BY <1>5 DEF JobInv
    <2>4. ConnectedInv' /\ BuiltInv' /\ QuietInv'
      BY <1>5, <2>1 DEF ConnectedInv, BuiltInv, QuietInv, SteadyStates, ReadyStates
    <2>5. TakenDownInv'
      BY <1>5, <2>1 DEF TakenDownInv, Unmonitored, Revoked, HasMonitors, SteadyStates, ReadyStates
    <2>6. MonitoredInv'
      BY <1>5, <2>1 DEF MonitoredInv, Stoppable, Watched, HasMonitors, AfterInitialize,
                        SteadyStates, ReadyStates
    <2>7. QED BY <1>3, <2>2, <2>3, <2>4, <2>5, <2>6
  <1>6. QED BY <1>4, <1>5

(* A device that is missing goes back to an Initialize that failed.               *)
LEMMA MissesDeviceKeeps ==
  ASSUME HwInv, ~down, job # NoJob, MissesDevice, UNCHANGED <<buildVars, present>>
  PROVE  HwInv'
  <1> USE DEF MissesDevice, FollowsNull, jobVars, outcomeVars, cardVars, buildVars
  <1>1. initFailed
    BY PhaseOfJob DEF HwInv, HwTypeOK, BuiltInv
  <1>2. StaysUp' /\ down' \in BOOLEAN
    BY <1>1 DEF StaysUp
  <1>3. HwTypeOK'
    BY <1>2 DEF HwInv, HwTypeOK
  <1>4. JobInv' /\ ConnectedInv' /\ BuiltInv' /\ QuietInv'
    BY DEF HwInv, JobInv, ConnectedInv, BuiltInv, QuietInv, Checked, HasMonitors, InitializePhases
  <1>5. TakenDownInv'
    BY DEF HwInv, TakenDownInv, Unmonitored, Revoked, HasMonitors
  <1>6. MonitoredInv'
    BY DEF HwInv, MonitoredInv, Stoppable, Watched, HasMonitors, AfterInitialize
  <1>7. QED BY <1>2, <1>3, <1>4, <1>5, <1>6 DEF HwInv

(* A transition command, accepted or not, preserves the invariant.                      *)
LEMMA CommandKeeps == ASSUME HwInv, NEW c \in Commands, Command(c) PROVE HwInv'
  <1> USE NumCardsAssumption DEF HwInv, HwTypeOK
  <1>1. /\ job = NoJob /\ pc = "rest" /\ state \in Sources[c] /\ state \in SteadyStates
        /\ job' = c /\ state' = Via[c] /\ at' = 1 /\ pc' = FirstPhase(c)
        /\ state' \notin SteadyStates /\ c # NoJob
        /\ failed' = failed /\ troubled' = troubled /\ initFailed' = initFailed
        /\ UNCHANGED <<buildVars, cardVars, sharedVars>>
    BY Table DEF Command, JobInv
  <1>2. present' <=> present \/ c = "Initialize"
    BY DEF Command
  <1>3. ~failed
    BY <1>1, Table DEF JobInv
  <1>4. CASE c = "Initialize"
    <2>1. pc' = "create" /\ state = "Initial" /\ present'
      BY <1>1, <1>2, <1>4, Table DEF FirstPhase
    <2>2. HwTypeOK'
      BY <1>1, <2>1, Table DEF cardVars, sharedVars, buildVars, Cards
    <2>3. JobInv'
      BY <1>1, <1>3, <1>4, <2>1 DEF JobInv, InitializePhases, SteadyStates
    <2>4. ConnectedInv' /\ BuiltInv' /\ StaysUp' /\ QuietInv'
      BY <1>1, <1>4, <2>1
         DEF ConnectedInv, BuiltInv, StaysUp, QuietInv, SteadyStates, ReadyStates, sharedVars, Cards
    <2>5. TakenDownInv'
      BY <1>1, <2>1 DEF TakenDownInv, Unmonitored, Revoked, HasMonitors, cardVars, buildVars, sharedVars
    <2>6. MonitoredInv'
      BY <1>1, <1>4, <2>1 DEF MonitoredInv, AfterInitialize, SteadyStates, ReadyStates, Cards
    <2>7. QED BY <2>2, <2>3, <2>4, <2>5, <2>6
  <1>5. CASE c # "Initialize"
    <2>1. present' = present /\ (present' <=> present)
      BY <1>2, <1>5
    <2>2. present \/ (state = "Initial" /\ c = "Reset")
      BY <1>1, <1>5, Table DEF JobInv, SteadyStates, ReadyStates
    <2>3. /\ c = "Reset" => IF present THEN pc' \in ResetPhases[kind] ELSE pc' = "through"
          /\ c # "Reset" => IF c \in Empty[kind] THEN pc' = "through" ELSE pc' \in WorkPhases[kind]
          /\ pc' \in {"through", "look", "pause", "work", "unmonitor", "unpublish"}
          /\ pc' = "look" => kind = "GLIB"
          /\ pc' = "work" => kind \in {"CTP7", "VFAT"}
          /\ pc' = "pause" => kind = "OptoHybrid"
          /\ pc' = "unpublish" => kind = "VFAT"
      BY <1>1, <1>5, <2>2 DEF FirstPhase, ResetPhases, WorkPhases, Empty, Kinds
    <2>4. HwTypeOK'
      BY <1>1, <2>1, <2>3, Table DEF cardVars, sharedVars, buildVars, Cards
    <2>5. JobInv'
      <3>1. present \/ state' = "Resetting"
        BY <1>1, <2>2, Table
      <3>2. state' # "Error"
        BY <1>1, Table
      <3>3. QED BY <1>1, <1>3, <1>5, <2>1, <2>3, <3>1, <3>2 DEF JobInv, buildVars
    <2>6. ConnectedInv' /\ BuiltInv'
      <3>1. c \in {"Start", "Pause", "Resume", "Stop"} => state \in {"Configured", "Running", "Paused"}
        BY <1>1, Table
      <3>2. c = "Configure" => Checked' = {}
        BY <1>1, <2>3 DEF Checked, Cards, buildVars, WorkPhases, Empty, Kinds
      <3>3. ConnectedInv'
        BY <1>1, <3>1, <3>2, Table DEF ConnectedInv, HasMonitors, buildVars, cardVars
      <3>4. BuiltInv'
        BY <1>1, <1>5, <2>1, Table DEF BuiltInv, cardVars, NoJob
      <3>5. QED BY <3>3, <3>4
    <2>7. StaysUp' /\ QuietInv'
      BY <1>1, <2>3 DEF StaysUp, QuietInv, sharedVars, buildVars, Cards
    <2>8. TakenDownInv'
      <3>1. present => (kind = "VFAT" \/ Unmonitored' = {})
        BY <1>1, <1>5, <2>1, <2>3
           DEF Unmonitored, Cards, buildVars, SteadyStates, ReadyStates, Kinds
      <3>2. ~present => Unmonitored = Cards
        BY DEF Unmonitored
      <3>3. Unmonitored' \subseteq Cards /\ Revoked' = {}
        BY <1>1, <1>5 DEF Unmonitored, Revoked
      <3>4. QED BY <1>1, <3>1, <3>2, <3>3 DEF TakenDownInv, HasMonitors, cardVars, buildVars, sharedVars
    <2>9. MonitoredInv'
      <3>1. c # "Reset" /\ ~troubled => AfterInitialize
        BY <1>1, <1>5, Table DEF AfterInitialize, JobInv
      <3>2. ~AfterInitialize'
        BY <1>1, Table DEF AfterInitialize
      <3>3. QED BY <1>1, <1>5, <3>1, <3>2 DEF MonitoredInv, Watched, HasMonitors, buildVars, cardVars
    <2>10. QED BY <2>4, <2>5, <2>6, <2>7, <2>8, <2>9
  <1>6. QED BY <1>4, <1>5

(* What a timer's thread changes concerns the ownership of updates only.          *)
LEMMA TimerStepsKeep == ASSUME HwInv, NEW c \in Cards, TimerSteps(c) PROVE HwInv'
  <1> USE DEF HwInv, TimerSteps, UpdateBegins, UpdateRaises, UpdateEnds, buildVars, jobVars,
              outcomeVars, cardVars
  <1>0. update' \in [Cards -> {"idle", "running"}] /\ leaked' \in [Cards -> BOOLEAN]
    BY DEF HwTypeOK
  <1>1. HwTypeOK'
    BY <1>0 DEF HwTypeOK
  <1>2. JobInv' /\ ConnectedInv' /\ BuiltInv' /\ StaysUp' /\ QuietInv'
    BY DEF JobInv, ConnectedInv, BuiltInv, StaysUp, QuietInv, Checked, HasMonitors, InitializePhases
  <1>3. TakenDownInv'
    BY DEF HwTypeOK, TakenDownInv, Unmonitored, Revoked, HasMonitors
  <1>4. MonitoredInv'
    BY DEF MonitoredInv, Stoppable, Watched, HasMonitors, AfterInitialize
  <1>5. QED BY <1>1, <1>2, <1>3, <1>4

(* A stuttering step preserves the invariant.                                           *)
LEMMA StutterKeeps == ASSUME HwInv, UNCHANGED hwVars PROVE HwInv'
  <1> USE DEF HwInv, hwVars, buildVars, jobVars, outcomeVars, cardVars, sharedVars
  <1>1. HwTypeOK' /\ JobInv' /\ ConnectedInv' /\ BuiltInv' /\ StaysUp' /\ QuietInv'
    BY DEF HwTypeOK, JobInv, ConnectedInv, BuiltInv, StaysUp, QuietInv, Checked, HasMonitors,
           InitializePhases
  <1>2. TakenDownInv' /\ MonitoredInv'
    BY DEF TakenDownInv, MonitoredInv, Unmonitored, Revoked, Stoppable, Watched, HasMonitors,
           AfterInitialize
  <1>3. QED BY <1>1, <1>2

(* Every step preserves the invariant.                                                  *)
LEMMA NextHwInv == ASSUME HwInv, [HwNext]_hwVars PROVE HwInv'
  <1>1. ASSUME NEW c \in Commands, Command(c) PROVE HwInv'
    BY <1>1, CommandKeeps
  <1>2. CASE JobSteps
    <2>1. ~down /\ job # NoJob /\ UNCHANGED <<buildVars, present>>
      BY <1>2 DEF JobSteps
    <2>2. CASE PassesThrough
      BY <2>1, <2>2, PassesThroughKeeps
    <2>3. CASE CreatesDevice \/ CreatesVFAT \/ Publishes \/ StartsMonitor
      BY <2>1, <2>3, CreatesDeviceKeeps, CreatesVFATKeeps, PublishesKeeps, StartsMonitorKeeps
    <2>4. CASE GLIBSteps
      BY <2>1, <2>4, GLIBLooksKeeps, GLIBPausesMonitorKeeps, GLIBWorksKeeps,
         GLIBResumesMonitorKeeps DEF GLIBSteps
    <2>5. CASE OptoHybridSteps
      BY <2>1, <2>5, OptoHybridPausesMonitorKeeps, OptoHybridWorksKeeps,
         OptoHybridResumesMonitorKeeps DEF OptoHybridSteps
    <2>6. CASE CTP7Steps \/ VFATWorks \/ MissesDevice
      BY <2>1, <2>6, CTP7WorksKeeps, CTP7MissesCardKeeps, VFATWorksKeeps, MissesDeviceKeeps
         DEF CTP7Steps
    <2>7. CASE ResetsMonitor \/ RevokesItems
      BY <2>1, <2>7, ResetsMonitorKeeps, RevokesItemsKeeps
    <2>8. QED BY <1>2, <2>2, <2>3, <2>4, <2>5, <2>6, <2>7 DEF JobSteps
  <1>3. ASSUME NEW c \in Cards, TimerSteps(c) PROVE HwInv'
    BY <1>3, TimerStepsKeep
  <1>4. CASE UNCHANGED hwVars
    BY <1>4, StutterKeeps
  <1>5. QED BY <1>1, <1>2, <1>3, <1>4 DEF HwNext

(* The invariant holds in every reachable state.                                        *)
LEMMA HwInvariant == HwSpec => []HwInv
  <1>1. QED BY InitHwInv, NextHwInv, PTL DEF HwSpec

-----------------------------------------------------------------------------
(* The managers' variables keep their types: no loop over the cards leaves the    *)
(* cards, and no action runs but in the transitional state of its command.         *)
THEOREM HwTypeCorrect == HwSpec => []HwTypeOK
  <1>1. HwInv => HwTypeOK
    BY DEF HwInv
  <1>2. QED BY <1>1, HwInvariant, PTL

(* No manager but VFATManager shows Configured, Running or Paused with a card       *)
(* that has never answered, whatever failures and Resets came before.              *)
THEOREM NoCardIsMissing == HwSpec => []NoneIsMissing
  <1>1. HwInv => NoneIsMissing
    BY DEF HwInv, ConnectedInv, NoneIsMissing
  <1>2. QED BY <1>1, HwInvariant, PTL

(* As long as no action has failed every card is monitored between Initialize and   *)
(* Reset, and its monitor lists what its tool box has published.                  *)
THEOREM MonitorsKeepRunning == HwSpec => []MonitorsRun
  <1>1. HwInv => MonitorsRun
    BY DEF HwInv, MonitoredInv, MonitorsRun, Watched
  <1>2. QED BY <1>1, HwInvariant, PTL

(* The process goes down only after an Initialize that failed, by following the      *)
(* pointer of a card that was not built, or after a Reset that overlapped an update.  *)
THEOREM ProcessStaysUp == HwSpec => []StaysUp
  <1>1. HwInv => StaysUp
    BY DEF HwInv
  <1>2. QED BY <1>1, HwInvariant, PTL

(* No update of a card begins while GLIBManager or OptoHybridManager changes its     *)
(* registers: the actions stop the timers of all the cards they will touch first.    *)
THEOREM WorkStaysQuiet == HwSpec => WorkIsQuiet
  <1>1. ASSUME HwInv, [HwNext]_hwVars
        PROVE  \A c \in Worked : update[c] = "idle" => update'[c] = "idle"
    <2>1. ASSUME NEW c \in Worked PROVE c \in Cards /\ timer[c] # "active"
      BY <1>1 DEF HwInv, HwTypeOK, QuietInv, Worked
    <2>2. ASSUME NEW c \in Cards, timer[c] # "active", update[c] = "idle"
          PROVE  update'[c] = "idle"
      <3>1. CASE JobSteps
        BY <3>1, <2>2 DEF JobSteps, PassesThrough, CreatesDevice, CreatesVFAT, Publishes,
             StartsMonitor, GLIBSteps, GLIBLooks, GLIBPausesMonitor, GLIBWorks,
             GLIBResumesMonitor, OptoHybridSteps, OptoHybridPausesMonitor, OptoHybridWorks,
             OptoHybridResumesMonitor, CTP7Steps, CTP7Works, CTP7MissesCard, VFATWorks,
             MissesDevice, FollowsNull, ResetsMonitor, RevokesItems, sharedVars
      <3>2. ASSUME NEW d \in Cards, TimerSteps(d) PROVE update'[c] = "idle"
        BY <1>1, <2>2, <3>2 DEF TimerSteps, UpdateBegins, UpdateRaises, UpdateEnds, HwInv, HwTypeOK
      <3>3. ASSUME NEW d \in Commands, Command(d) PROVE update'[c] = "idle"
        BY <2>2, <3>3 DEF Command, sharedVars
      <3>4. CASE UNCHANGED hwVars
        BY <2>2, <3>4 DEF hwVars, sharedVars
      <3>5. QED BY <1>1, <3>1, <3>2, <3>3, <3>4 DEF HwNext
    <2>3. QED BY <2>1, <2>2
  <1>2. QED BY <1>1, HwInvariant, PTL DEF HwSpec, WorkIsQuiet
=============================================================================
