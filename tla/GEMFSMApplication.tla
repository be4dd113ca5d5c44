-------------------------- MODULE GEMFSMApplication --------------------------
(***************************************************************************)
(* One GEM application: its asynchronous state machine, the workloop that  *)
(* runs the work of a transition, and the commands that reach it as SOAP    *)
(* messages.                                                               *)
(*                                                                         *)
(* Two threads and the outside world interact.  The state machine's own     *)
(* loop takes one event at a time: it first calls the action of the         *)
(* transition, which for a command submits a job to the workloop, and only  *)
(* then sets the new state.  The workloop runs the jobs one at a time in    *)
(* the order of their submission: a job takes the semaphore, waits until    *)
(* the machine shows the transitional state it was submitted for, runs the  *)
(* application's action, fires the confirmation (or "Fail") and gives the   *)
(* semaphore back.  SOAP commands are queued by the threads of the server   *)
(* whatever the machine is doing.                                          *)
(***************************************************************************)
EXTENDS GEMFSM, Naturals, Sequences

CONSTANTS
  MaxRequests,    (* how many SOAP commands a behaviour has; bounds the model *)
  PatientClient,  (* TRUE: the client awaits the outcome of its last command  *)
  Outcomes        (* how the action of a derived class may end:               *)
                  (*  "returns"  it returns normally                          *)
                  (*  "throws"   the job catches its exception                *)
                  (*  "swallows" it catches its own exception, fires "Fail"   *)
                  (*             and returns normally, as the supervisor does *)

None == "none"

ASSUME MaxRequestsIsNat   == MaxRequests \in Nat
ASSUME PatientClientIsBool == PatientClient \in BOOLEAN
ASSUME OutcomesAreKnown   == Outcomes \subseteq {"returns", "throws", "swallows"}

VARIABLES
  state,      (* the state the machine shows                                  *)
  target,     (* the state it enters once the transition's action is back     *)
  events,     (* the queue of the asynchronous state machine                  *)
  jobs,       (* the jobs submitted to the workloop and not yet begun         *)
  job,        (* the command whose job the workloop runs                      *)
  pc,         (* how far that job is                                          *)
  semaphore,  (* m_wl_semaphore                                               *)
  requests    (* how many SOAP commands have come in                          *)

fsmVars  == <<state, target>>
jobVars  == <<jobs, job, pc, semaphore>>
vars == <<state, target, events, jobs, job, pc, semaphore, requests>>

TypeOK ==
  /\ state \in States
  /\ target \in States \cup {None}
  /\ events \in Seq(Events)
  /\ jobs \in Seq(Commands)
  /\ job \in Commands \cup {None}
  /\ pc \in {"idle", "waiting", "acting", "returning", "leaving"}
  /\ semaphore \in {"FULL", "EMPTY"}
  /\ requests \in 0..MaxRequests

Init ==
  /\ state = "Initial"
  /\ target = None
  /\ events = <<>>
  /\ jobs = <<>>
  /\ job = None
  /\ pc = "idle"
  /\ semaphore = "FULL"
  /\ requests = 0

-----------------------------------------------------------------------------
(* The outside world. *)

(* A patient client sends nothing before its last command has been taken    *)
(* from the queue and the machine shows a steady state again; this is what   *)
(* a client does that polls the reported state name.                        *)
ClientIsReady ==
  \/ ~PatientClient
  \/ /\ state \in SteadyStates
     /\ target = None
     /\ \A i \in DOMAIN events : events[i] \notin Commands

(* changeState(): the event joins the queue and the reply is sent. *)
ReceiveCommand(c) ==
  /\ requests < MaxRequests
  /\ ClientIsReady
  /\ requests' = requests + 1
  /\ events' = Append(events, c)
  /\ UNCHANGED <<fsmVars, jobVars>>

-----------------------------------------------------------------------------
(* The loop of the asynchronous state machine. *)

DriverWithoutReset(s, e) ==   (* fault: the branch for "Reset" is missing *)
  jobs' = IF AcceptsCommand(s, e) /\ e # "Reset" THEN Append(jobs, e) ELSE jobs

DriverForEveryEvent(s, e) ==   (* fault: confirmations submit a job as well *)
  jobs' = Append(jobs, e)

DriverForRefused(s, e) ==      (* fault: the job is submitted before the check *)
  jobs' = IF e \in Commands THEN Append(jobs, e) ELSE jobs

(* transitionDriver() and workloopDriver(): the action of an accepted        *)
(* command submits the job; all others do nothing, and invalidAction() only  *)
(* raises.  The workloop, which is toolbox's, is taken to accept every job:   *)
(* the catch that fires "Fail" when it refuses one is left out.              *)
TransitionDriver(s, e) ==
  jobs' = IF AcceptsCommand(s, e) THEN Append(jobs, e) ELSE jobs

BeginTransition ==
  /\ target = None
  /\ events # <<>>
  /\ events' = Tail(events)
  /\ target' = Successor(state, Head(events))
  /\ TransitionDriver(state, Head(events))
  /\ UNCHANGED <<state, job, pc, semaphore, requests>>

EndTransition ==
  /\ target # None
  /\ state' = target
  /\ target' = None
  /\ UNCHANGED <<events, jobVars, requests>>

-----------------------------------------------------------------------------
(* The workloop. *)

BeginJob ==
  /\ pc = "idle"
  /\ jobs # <<>>
  /\ semaphore = "FULL"
  /\ semaphore' = "EMPTY"
  /\ job' = Head(jobs)
  /\ jobs' = Tail(jobs)
  /\ pc' = "waiting"
  /\ UNCHANGED <<fsmVars, events, requests>>

LeaveWaitAtOnce ==             (* fault: the job does not wait for its state *)
  /\ pc = "waiting"
  /\ pc' = "acting"
  /\ UNCHANGED <<fsmVars, events, jobs, job, semaphore, requests>>

LeaveWaitConfirming ==         (* fault: the confirmation precedes the action *)
  /\ pc = "waiting"
  /\ state = Via[job]
  /\ events' = Append(events, Confirmation[Via[job]])
  /\ pc' = "acting"
  /\ UNCHANGED <<fsmVars, jobs, job, semaphore, requests>>

(* The loop marked "deal with possible race condition": it ends only when    *)
(* the machine shows the transitional state of this very job.               *)
LeaveWait ==
  /\ pc = "waiting"
  /\ state = Via[job]
  /\ pc' = "acting"
  /\ UNCHANGED <<fsmVars, events, jobs, job, semaphore, requests>>

ActionReturns ==
  /\ pc = "acting"
  /\ "returns" \in Outcomes
  /\ pc' = "returning"
  /\ UNCHANGED <<fsmVars, events, jobs, job, semaphore, requests>>

ThrowsKeepingSemaphore ==      (* fault: a catch block without the give() *)
  /\ pc = "acting"
  /\ "throws" \in Outcomes
  /\ events' = Append(events, "Fail")
  /\ job' = None
  /\ pc' = "idle"
  /\ UNCHANGED <<fsmVars, jobs, semaphore, requests>>

ThrowsUnreported ==            (* fault: a catch block that fires nothing *)
  /\ pc = "acting"
  /\ "throws" \in Outcomes
  /\ pc' = "leaving"
  /\ UNCHANGED <<fsmVars, events, jobs, job, semaphore, requests>>

ActionThrows ==
  /\ pc = "acting"
  /\ "throws" \in Outcomes
  /\ events' = Append(events, "Fail")
  /\ pc' = "leaving"
  /\ UNCHANGED <<fsmVars, jobs, job, semaphore, requests>>

ActionSwallows ==
  /\ pc = "acting"
  /\ "swallows" \in Outcomes
  /\ events' = Append(events, "Fail")
  /\ pc' = "returning"
  /\ UNCHANGED <<fsmVars, jobs, job, semaphore, requests>>

Confirm ==
  /\ pc = "returning"
  /\ events' = Append(events, Confirmation[Via[job]])
  /\ pc' = "leaving"
  /\ UNCHANGED <<fsmVars, jobs, job, semaphore, requests>>

EndJob ==
  /\ pc = "leaving"
  /\ semaphore' = "FULL"
  /\ job' = None
  /\ pc' = "idle"
  /\ UNCHANGED <<fsmVars, events, jobs, requests>>

-----------------------------------------------------------------------------
StateMachine == BeginTransition \/ EndTransition

Action == ActionReturns \/ ActionThrows \/ ActionSwallows

WorkLoop == BeginJob \/ LeaveWait \/ Action \/ Confirm \/ EndJob

Next ==
  \/ \E c \in Commands : ReceiveCommand(c)
  \/ StateMachine
  \/ WorkLoop

Spec == Init /\ [][Next]_vars

(* Both loops are threads that are never suspended for good; nothing         *)
(* obliges the client to send.                                              *)
FairSpec == Spec /\ WF_vars(StateMachine) /\ WF_vars(WorkLoop)
-----------------------------------------------------------------------------
(* Properties of every application, whatever its clients do. *)

(* A job for command c that has still to fire the event that ends it. *)
Pending(c) ==
  \/ \E i \in DOMAIN jobs : jobs[i] = c
  \/ job = c /\ pc \in {"waiting", "acting", "returning"}

(* An event that will move the machine is queued or is owed by a job of the *)
(* transition to s.                                                        *)
Owed(s) == events # <<>> \/ \E c \in Commands : Via[c] = s /\ Pending(c)

(* No transition is forgotten: as long as the machine shows a transitional  *)
(* state there is a queued event, or a job of this very transition, that     *)
(* takes it out of there.  workloopDriver() submits a job for each command   *)
(* the table accepts, and each way out of a job fires an event.             *)
NoOrphanTransition ==
  state \in TransitionalStates => target # None \/ Owed(state)

(* The semaphore is taken exactly while a job is between its take() and its *)
(* give(): no path through a job leaves it taken.                           *)
SemaphoreFollowsJob == (semaphore = "EMPTY") <=> (pc # "idle")

-----------------------------------------------------------------------------
(* Properties of an application whose client is patient and whose action     *)
(* reports a failure by throwing.                                           *)

(* A waiting job always waits for a state the machine is in or is about to   *)
(* enter: the loop of the job cannot miss it.                               *)
NoStrandedJob ==
  pc = "waiting" => state = Via[job] \/ target = Via[job]

(* While the action of a transition runs, the machine stays in the state of  *)
(* this transition: nothing moves it under the feet of the action, and the    *)
(* confirmation that follows is the one the machine is waiting for.          *)
ActionUndisturbed ==
  pc \in {"acting", "returning"} => state = Via[job] /\ target = None

(* A ready state has been reached by work that was done: no job of an earlier *)
(* transition is left when the machine shows one, unless a new command has   *)
(* just been accepted.                                                      *)
ReadyMeansDone ==
  state \in ReadyStates /\ target = None => jobs = <<>> /\ pc \in {"idle", "leaving"}

(* The work of the current transition has been done and its confirmation is  *)
(* on its way.                                                              *)
Performed ==
  /\ state \in TransitionalStates
  /\ \/ target = Settled[state]
     \/ \E i \in DOMAIN events : events[i] = Confirmation[state]

Contract == INSTANCE GEMApplicationContract WITH performed <- Performed

(* The application keeps the contract its supervisor relies on: it accepts a  *)
(* command by showing the transitional state, settles in the ready state only *)
(* after the work was done, fails otherwise, and always answers.              *)
KeepsContract == Contract!FairSpec
=============================================================================
