----------------------------- MODULE GEMSupervisor -----------------------------
(***************************************************************************)
(* gem::supervisor::GEMSupervisor at work: a GEM application whose jobs take   *)
(* the supervised applications through a transition, group by group, while a   *)
(* timer polls their states and composes them to the global state.            *)
(*                                                                          *)
(* The supervisor's own state machine and workloop are those of               *)
(* GEMFSMApplication; here the action of a job ("acting") is spelled out.      *)
(* The job and the timer share the map of application states under a            *)
(* recursive lock, which update() holds while it asks every application for    *)
(* its state.  An application keeps GEMApplicationContract, with the work of    *)
(* a transition and its confirmation in one step; a TCDS application, which is  *)
(* not part of the repository, is taken to behave alike from "Halted" on, and   *)
(* its "Enable" to be the same as "Start".                                    *)
(***************************************************************************)
EXTENDS GEMFSMApplication, GEMGlobalState, GEMTransitionOrder, FiniteSets

CONSTANTS
  Apps,       (* the applications that init() finds worth supervising          *)
  Class,      (* the class of each of them                                     *)
  Operator,   (* which commands the operator gives in which state              *)
  MaxFaults   (* how many things may go wrong in a behaviour; bounds the model *)

ASSUME ClassIsKnown     == Class \in [Apps -> Classes]
ASSUME OperatorIsKnown  == Operator \subseteq States \X Commands
ASSUME MaxFaultsIsNat   == MaxFaults \in Nat

VARIABLES
  child,       (* the state each application is in                              *)
  inbox,       (* the commands each application has received and not yet begun   *)
  supervised,  (* v_supervisedApps                                              *)
  watched,     (* the applications m_states has an entry for                    *)
  timing,      (* the timer of the global state has been started                 *)
  known,       (* m_states: what the supervisor believes of each application     *)
  global,      (* m_globalState by name; "N/A" before the first update           *)
  updater,     (* who is in update(): "timer", "job" or "nobody"                 *)
  toPoll,      (* the applications this update() has not asked yet               *)
  stateName,   (* m_stateName while a change of the global state is announced    *)
  phase,       (* how far the action of the running job is                       *)
  remaining,   (* the applications whose group is not through the transition     *)
  commanded,   (* the applications this job has sent the command to              *)
  faults       (* how many things have gone wrong                                *)

appVars    == <<child, inbox>>
mapVars    == <<supervised, watched, timing>>
updateVars == <<known, global, updater, toPoll, stateName>>
stepVars   == <<phase, remaining, commanded>>
supVars    == <<vars, appVars, mapVars, updateVars, stepVars, faults>>

Phases == {"idle", "clearing", "adding", "precondition", "numbering", "unnumbered",
           "sending", "awaiting", "failing", "finishing", "done", "throwing", "thrown"}

IsTCDS(a) == Class[a] \in TCDSClasses

SupTypeOK ==
  /\ TypeOK
  /\ child \in [Apps -> States]
  /\ inbox \in [Apps -> Seq(Commands)]
  /\ supervised \subseteq watched
  /\ watched \subseteq Apps
  /\ timing \in BOOLEAN
  /\ known \in [Apps -> States \cup {"Null"}]
  /\ global \in States \cup {"Null", "N/A"}
  /\ updater \in {"nobody", "timer", "job"}
  /\ toPoll \subseteq watched
  /\ stateName \in States \cup {"Null", None}
  /\ phase \in Phases
  /\ remaining \subseteq supervised
  /\ commanded \subseteq Apps
  /\ faults \in 0..MaxFaults

SupInit ==
  /\ Init
  /\ child = [a \in Apps |-> IF IsTCDS(a) THEN "Halted" ELSE "Initial"]
  /\ inbox = [a \in Apps |-> <<>>]
  /\ supervised = {}
  /\ watched = {}
  /\ timing = FALSE
  /\ known = [a \in Apps |-> "Null"]
  /\ global = "N/A"
  /\ updater = "nobody"
  /\ toPoll = {}
  /\ stateName = None
  /\ phase = "idle"
  /\ remaining = {}
  /\ commanded = {}
  /\ faults = 0

Fault == faults < MaxFaults /\ faults' = faults + 1

-----------------------------------------------------------------------------
(* The operator and the supervisor's state machine. *)

OperatorCommands(c) ==
  /\ <<state, c>> \in Operator
  /\ ReceiveCommand(c)
  /\ UNCHANGED <<appVars, mapVars, updateVars, stepVars, faults>>

MachineSteps ==
  /\ StateMachine
  /\ UNCHANGED <<appVars, mapVars, updateVars, stepVars, faults>>

-----------------------------------------------------------------------------
(* The supervised applications. *)

ChildBegins(a) ==
  /\ inbox[a] # <<>>
  /\ child' = [child EXCEPT ![a] = Successor(child[a], Head(inbox[a]))]
  /\ inbox' = [inbox EXCEPT ![a] = Tail(inbox[a])]
  /\ UNCHANGED <<vars, mapVars, updateVars, stepVars, faults>>

ChildSettles(a) ==
  /\ child[a] \in TransitionalStates
  /\ child' = [child EXCEPT ![a] = Settled[child[a]]]
  /\ UNCHANGED <<vars, inbox, mapVars, updateVars, stepVars, faults>>

ChildFails(a) ==
  /\ Fault
  /\ child[a] \in TransitionalStates
  /\ child' = [child EXCEPT ![a] = "Error"]
  /\ UNCHANGED <<vars, inbox, mapVars, updateVars, stepVars>>

-----------------------------------------------------------------------------
(* GEMGlobalState::update(), by the timer or by the job. *)

(* A job goes on with the applications S that are still to be commanded. *)
Sending(S) == IF S = {} THEN "finishing" ELSE "sending"

(* What a job does next once its call of update() is back. *)
AfterUpdate(p) ==
  CASE p = "failing"    -> "finishing"
    [] p = "finishing"  -> "done"
    [] p = "throwing"   -> "thrown"
    [] p = "unnumbered" -> Sending(remaining)
    [] OTHER            -> p

Release ==
  /\ updater' = "nobody"
  /\ phase' = IF updater = "job" THEN AfterUpdate(phase) ELSE phase

TimerExpires ==
  /\ timing
  /\ updater = "nobody"
  /\ updater' = "timer"
  /\ toPoll' = watched
  /\ UNCHANGED <<vars, appVars, mapVars, known, global, stateName, stepVars, faults>>

PollMissingError(a) ==         (* fault: "Error" is not among the known names *)
  /\ a \in toPoll
  /\ known' = IF child[a] = "Error" THEN known ELSE [known EXCEPT ![a] = child[a]]
  /\ toPoll' = toPoll \ {a}
  /\ UNCHANGED <<vars, appVars, mapVars, global, updater, stateName, stepVars, faults>>

(* updateApplication() gets an answer. *)
Poll(a) ==
  /\ a \in toPoll
  /\ known' = [known EXCEPT ![a] = child[a]]
  /\ toPoll' = toPoll \ {a}
  /\ UNCHANGED <<vars, appVars, mapVars, global, updater, stateName, stepVars, faults>>

(* updateApplication() gets none, and assumes that the application has died. *)
PollFails(a) ==
  /\ Fault
  /\ a \in toPoll
  /\ known' = [known EXCEPT ![a] = "Error"]
  /\ toPoll' = toPoll \ {a}
  /\ UNCHANGED <<vars, appVars, mapVars, global, updater, stateName, stepVars>>

Before == IF global = "N/A" THEN "Initial" ELSE global

Shown ==
  {known[a] : a \in {b \in watched : IsTCDS(b) => ~IgnoresTCDS(Before)}}

ComposeKeepingLock ==          (* fault: an unchanged state leaves the lock taken *)
  /\ updater # "nobody"
  /\ toPoll = {}
  /\ stateName = None
  /\ global' = GlobalOf(Before, Shown, state)
  /\ stateName' = IF global' = Before THEN None ELSE global'
  /\ UNCHANGED <<vars, appVars, mapVars, known, toPoll, updater, phase,
                 remaining, commanded, faults>>

Compose ==
  /\ updater # "nobody"
  /\ toPoll = {}
  /\ stateName = None
  /\ global' = GlobalOf(Before, Shown, state)
  /\ IF global' = Before
     THEN Release /\ UNCHANGED stateName
     ELSE stateName' = global' /\ UNCHANGED <<updater, phase>>
  /\ UNCHANGED <<vars, appVars, mapVars, known, toPoll, remaining, commanded, faults>>

(* While globalStateChanged() notifies run control, any thread that runs       *)
(* through updateState() puts the state of the supervisor's own machine in      *)
(* m_stateName: a job that fires an event, a SOAP command, a web page.         *)
StateNameIsOverwritten ==
  /\ stateName # None
  /\ stateName' = state
  /\ UNCHANGED <<vars, appVars, mapVars, known, global, updater, toPoll, stepVars, faults>>

(* The end of globalStateChanged(): the supervisor's machine follows a global  *)
(* error, and the update is repeated under the recursive lock.                *)
Announce ==
  /\ stateName # None
  /\ stateName' = None
  /\ IF stateName = "Error"
     THEN /\ events' = Append(events, "Fail")
          /\ toPoll' = watched
          /\ UNCHANGED <<updater, phase>>
     ELSE Release /\ UNCHANGED <<events, toPoll>>
  /\ UNCHANGED <<fsmVars, jobVars, requests, appVars, mapVars, known, global,
                 remaining, commanded, faults>>

-----------------------------------------------------------------------------
(* The job of the supervisor. *)

Goal(c) == Settled[Via[c]]

(* In which global states the action of a command goes ahead. *)
Required(c) ==
  CASE c = "Initialize" -> {"Initial"}
    [] c = "Configure"  -> {"Halted", "Configured"}
    [] c = "Start"      -> {"Configured"}
    [] c = "Pause"      -> {"Running"}
    [] c = "Resume"     -> {"Paused"}
    [] c = "Stop"       -> {"Running", "Paused"}

Targets(c, S) == IF c = "Reset" THEN {a \in S : ~IsTCDS(a)} ELSE S

CommandFor(c, a) == IF c = "Initialize" /\ IsTCDS(a) THEN "Halt" ELSE c

(* The next group of the order, from the applications still to be dealt with. *)
Group(c, S) == {a \in S : \A b \in S : Rank(c, Class[a]) >= Rank(c, Class[b])}

CompositeState(S) == Dominant({known[a] : a \in S})

JobEntersWithOldList ==        (* fault: the list is taken before init() empties it *)
  /\ LeaveWait
  /\ phase' = CASE job = "Initialize"         -> "clearing"
                [] job \in {"Halt", "Reset"} -> Sending(Targets(job, supervised))
                [] OTHER                     -> "precondition"
  /\ remaining' = Targets(job, Apps)
  /\ UNCHANGED <<commanded, appVars, mapVars, updateVars, faults>>

JobEnters ==
  /\ LeaveWait
  /\ phase' = CASE job = "Initialize"         -> "clearing"
                [] job \in {"Halt", "Reset"} -> Sending(Targets(job, supervised))
                [] OTHER                     -> "precondition"
  /\ remaining' = IF job = "Initialize" THEN {} ELSE Targets(job, supervised)
  /\ UNCHANGED <<commanded, appVars, mapVars, updateVars, faults>>

(* init(): the list of the supervised applications is rebuilt, application by    *)
(* application.  GEMGlobalState::clear() takes the lock and clears nothing, so    *)
(* that what is known of an application outlives init(); the timer, once         *)
(* started, is never stopped.                                                *)
ClearApplications ==
  /\ phase = "clearing"
  /\ updater = "nobody"
  /\ supervised' = {}
  /\ phase' = "adding"
  /\ UNCHANGED <<vars, appVars, watched, timing, updateVars, remaining, commanded, faults>>

AddApplication(a) ==
  /\ phase = "adding"
  /\ a \notin supervised
  /\ updater = "nobody"
  /\ supervised' = supervised \cup {a}
  /\ watched' = watched \cup {a}
  /\ UNCHANGED <<vars, appVars, timing, updateVars, stepVars, faults>>

StartTimer ==
  /\ phase = "adding"
  /\ supervised = Apps
  /\ timing' = TRUE
  /\ phase' = "precondition"
  /\ remaining' = supervised
  /\ UNCHANGED <<vars, appVars, supervised, watched, updateVars, commanded, faults>>

MayProceed ==
  /\ phase = "precondition"
  /\ global \in Required(job)
  /\ state = Via[job]

Proceed ==
  /\ MayProceed
  /\ updater # "job"
  /\ phase' = IF job = "Start" THEN "numbering" ELSE Sending(remaining)
  /\ UNCHANGED <<vars, appVars, mapVars, updateVars, remaining, commanded, faults>>

(* updateRunNumber(): from the local database or not at all. *)
NumberIsBooked ==
  /\ phase = "numbering"
  /\ phase' = Sending(remaining)
  /\ UNCHANGED <<vars, appVars, mapVars, updateVars, remaining, commanded, faults>>

(* The database cannot be configured: the exception reaches the job. *)
NumberRaises ==
  /\ Fault
  /\ phase = "numbering"
  /\ phase' = "throwing"
  /\ UNCHANGED <<vars, appVars, mapVars, updateVars, remaining, commanded>>

(* The database cannot be queried: "Fail" is fired, and the start goes on. *)
NumberIsMissing ==
  /\ Fault
  /\ phase = "numbering"
  /\ events' = Append(events, "Fail")
  /\ phase' = "unnumbered"
  /\ UNCHANGED <<fsmVars, jobVars, requests, appVars, mapVars, updateVars,
                 remaining, commanded>>

Send(a) ==
  inbox' = [inbox EXCEPT ![a] = Append(inbox[a], CommandFor(job, a))]

SendCommand(a) ==
  /\ phase = "sending"
  /\ a \in Group(job, remaining) \ commanded
  /\ Send(a)
  /\ commanded' = commanded \cup {a}
  /\ phase' = IF ~(Group(job, remaining) \subseteq commanded') THEN "sending"
              ELSE IF job = "Reset" THEN "finishing" ELSE "awaiting"
  /\ UNCHANGED <<vars, child, mapVars, updateVars, remaining, faults>>

(* postSOAP() raises, whether or not the command has arrived. *)
SendFails(a) ==
  /\ Fault
  /\ phase = "sending"
  /\ a \in Group(job, remaining) \ commanded
  /\ Send(a) \/ UNCHANGED inbox
  /\ events' = Append(events, "Fail")
  /\ phase' = "failing"
  /\ UNCHANGED <<fsmVars, jobVars, requests, child, mapVars, updateVars,
                 remaining, commanded>>

GroupIsThere ==
  /\ phase = "awaiting"
  /\ CompositeState(Group(job, remaining)) = Goal(job)

NextGroupAtOnce ==             (* fault: the group is not waited for *)
  /\ phase = "awaiting"
  /\ updater = "nobody"
  /\ remaining' = remaining \ Group(job, remaining)
  /\ phase' = Sending(remaining')
  /\ UNCHANGED <<vars, appVars, mapVars, updateVars, commanded, faults>>

LastGroupUnawaited ==          (* fault: the last group is not waited for *)
  /\ updater = "nobody"
  /\ phase = "awaiting"
  /\ GroupIsThere \/ remaining = Group(job, remaining)
  /\ remaining' = remaining \ Group(job, remaining)
  /\ phase' = Sending(remaining')
  /\ UNCHANGED <<vars, appVars, mapVars, updateVars, commanded, faults>>

NextGroup ==
  /\ GroupIsThere
  /\ updater = "nobody"
  /\ remaining' = remaining \ Group(job, remaining)
  /\ phase' = Sending(remaining')
  /\ UNCHANGED <<vars, appVars, mapVars, updateVars, commanded, faults>>

JobUpdates ==
  /\ updater = "nobody"
  /\ \/ phase = "precondition" /\ ~MayProceed
     \/ phase = "awaiting" /\ ~GroupIsThere
     \/ phase \in {"unnumbered", "failing", "finishing", "throwing"}
  /\ updater' = "job"
  /\ toPoll' = watched
  /\ UNCHANGED <<vars, appVars, mapVars, known, global, stateName, stepVars, faults>>

LeaveAction ==
  /\ \/ phase = "done"   /\ ActionReturns
     \/ phase = "thrown" /\ ActionThrows
  /\ phase' = "idle"
  /\ remaining' = {}
  /\ commanded' = {}
  /\ UNCHANGED <<appVars, mapVars, updateVars, faults>>

(* What every application does around its action. *)
JobFrame ==
  /\ BeginJob \/ Confirm \/ EndJob
  /\ UNCHANGED <<appVars, mapVars, updateVars, stepVars, faults>>

-----------------------------------------------------------------------------
ChildSteps == \E a \in Apps : ChildBegins(a) \/ ChildSettles(a)

UpdateSteps == (\E a \in Apps : Poll(a)) \/ Compose \/ Announce

JobSteps ==
  \/ JobFrame
  \/ JobEnters
  \/ ClearApplications
  \/ \E a \in Apps : AddApplication(a)
  \/ StartTimer
  \/ Proceed
  \/ NumberIsBooked
  \/ \E a \in Apps : SendCommand(a)
  \/ NextGroup
  \/ JobUpdates
  \/ LeaveAction

Faults ==
  \/ \E a \in Apps : ChildFails(a) \/ PollFails(a) \/ SendFails(a)
  \/ NumberRaises
  \/ NumberIsMissing

SupNext ==
  \/ \E c \in Commands : OperatorCommands(c)
  \/ MachineSteps
  \/ ChildSteps
  \/ TimerExpires
  \/ UpdateSteps
  \/ StateNameIsOverwritten
  \/ JobSteps
  \/ Faults

SupSpec == SupInit /\ [][SupNext]_supVars

(* Every thread runs on and every application answers.  The job and the timer   *)
(* compete for the lock, and the timer lets go of it for most of a second, so   *)
(* that the job gets it in time (strong fairness).                            *)
SupFairness ==
  /\ WF_supVars(MachineSteps)
  /\ \A a \in Apps : WF_supVars(ChildBegins(a) \/ ChildSettles(a))
  /\ WF_supVars(UpdateSteps)
  /\ WF_supVars(TimerExpires)
  /\ SF_supVars(JobSteps)

SupFairSpec == SupSpec /\ SupFairness

-----------------------------------------------------------------------------
(* The order of the transition is kept: when an application has been sent the   *)
(* command of the running job, all those of a higher priority have arrived      *)
(* where the command leads, or have failed since.  It holds when no two          *)
(* applications share a priority and no command is repeated.  GEMSupervisor.cc   *)
(* says at each of the waits of the job: "check that group state of *i has        *)
(* moved to desired state before continuing".                                  *)
OrderRespected ==
  pc = "acting" /\ job # "Reset" =>
    \A a \in commanded : \A b \in supervised :
      Rank(job, Class[b]) > Rank(job, Class[a]) => child[b] \in {Goal(job), "Error"}

(* Without faults the supervisor sends no application a command that it would   *)
(* refuse: what the contract of an application assumes of its client.          *)
CommandsAreWelcome ==
  \A a \in Apps : inbox[a] # <<>> =>
    Len(inbox[a]) = 1 /\ AcceptsCommand(child[a], Head(inbox[a]))

(* A supervisor that shows "Running" or "Paused" has all its applications       *)
(* there, those that failed apart, whatever went wrong on the way.             *)
RunningTogether ==
  state \in {"Running", "Paused"} =>
    \A a \in supervised : child[a] \in {state, "Error"} /\ inbox[a] = <<>>

(* "Running" is reported only when no application was found in another state    *)
(* and the supervisor itself has not failed.                                  *)
RunningIsReportedTrue ==
  [][global' = "Running" /\ global # "Running" =>
       state # "Error" /\ \A a \in supervised : known[a] = "Running"]_supVars

(* Every command that the supervisor accepts is carried through. *)
TransitionsEnd == state \in TransitionalStates ~> state \in SteadyStates

(* The failure of an application becomes known: while the timer runs, the       *)
(* global state becomes "Error" unless the application leaves its own.          *)
ErrorIsReported ==
  \A a \in Apps : timing /\ child[a] = "Error" ~> global = "Error" \/ child[a] # "Error"

-----------------------------------------------------------------------------
(* What comments in the code say and the code does not ensure. *)

(* GEMSupervisor.cc: "ensure that the supervisor FSM goes to error if the        *)
(* composite state is error".                                                 *)
SupervisorFollowsError ==
  global = "Error" /\ (\E a \in Apps : child[a] = "Error") ~> state = "Error"

(* GEMFSM.cc: "Reset the state machine: I/H/C/E/P/F -> t.", whose confirmation     *)
(* leads on to the initial state.                                             *)
ResetIsCarriedOut == state = "Resetting" ~> state # "Resetting"
=============================================================================
