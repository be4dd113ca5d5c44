----------------------- MODULE GEMFSMApplication_proofs -----------------------
(***************************************************************************)
(* Proofs about one GEM application, for every number of requests, every    *)
(* kind of client and every way its action may end.                         *)
(***************************************************************************)
EXTENDS GEMFSMApplication, TLAPS

(* The state table is total: whatever event meets whatever state, the        *)
(* machine ends in a state, and a command is accepted in steady states only. *)
LEMMA SuccessorType ==
  ASSUME NEW s \in States, NEW e \in Events
  PROVE  /\ Successor(s, e) \in States
         /\ AcceptsCommand(s, e) => s \in SteadyStates /\ Successor(s, e) = Via[e]
         /\ ~AcceptsCommand(s, e) => Successor(s, e) \in SteadyStates
  <1>1. CASE AcceptsCommand(s, e)
    BY <1>1 DEF Successor, AcceptsCommand, Sources, Via, Commands, States,
                TransitionalStates, SteadyStates, ReadyStates
  <1>2. CASE ~AcceptsCommand(s, e) /\ AcceptsConfirmation(s, e)
    BY <1>2 DEF Successor, AcceptsConfirmation, Settled, States,
                TransitionalStates, SteadyStates, ReadyStates
  <1>3. CASE ~AcceptsCommand(s, e) /\ ~AcceptsConfirmation(s, e)
    BY <1>3 DEF Successor, States, SteadyStates
  <1>4. QED BY <1>1, <1>2, <1>3

(* Every command leads to a transitional state, and every transitional state *)
(* has a confirmation that is an event.                                      *)
LEMMA ViaType ==
  ASSUME NEW c \in Commands
  PROVE  Via[c] \in TransitionalStates /\ Confirmation[Via[c]] \in Events
  BY DEF Via, Commands, TransitionalStates, Confirmation, Events, Confirmations

(* The values the state machine tells apart. *)
LEMMA Disjointness ==
  /\ TransitionalStates \cap SteadyStates = {}
  /\ None \notin States
  /\ None \notin Commands
  /\ Commands \subseteq Events
  /\ "Fail" \in Events
  /\ States = TransitionalStates \cup SteadyStates
  BY DEF TransitionalStates, SteadyStates, ReadyStates, States, None, Commands,
         Events, Confirmations

-----------------------------------------------------------------------------
(* Type correctness alone is not inductive: that a job confirms its own       *)
(* transition needs that there is a job while the workloop is in one.  The     *)
(* semaphore goes along with it.                                             *)
WorkLoopInv ==
  /\ TypeOK
  /\ pc # "idle" <=> job # None
  /\ SemaphoreFollowsJob

(* The workloop starts empty, with its semaphore free.                                  *)
LEMMA InitWorkLoopInv == Init => WorkLoopInv
  BY MaxRequestsIsNat
     DEF Init, WorkLoopInv, TypeOK, SemaphoreFollowsJob, States, SteadyStates, ReadyStates, None

(* Each step of the loops and of the client keeps the types, the pairing of   *)
(* job and program counter, and the pairing of semaphore and job.             *)
LEMMA NextWorkLoopInv == ASSUME WorkLoopInv, [Next]_vars PROVE WorkLoopInv'
  <1> USE MaxRequestsIsNat, Disjointness DEF WorkLoopInv, TypeOK, SemaphoreFollowsJob
  <1>1. ASSUME NEW c \in Commands, ReceiveCommand(c) PROVE WorkLoopInv'
    BY <1>1 DEF ReceiveCommand, fsmVars, jobVars
  <1>2. CASE BeginTransition
    <2>1. Head(events) \in Events /\ Tail(events) \in Seq(Events)
      BY <1>2 DEF BeginTransition
    <2>2. target' \in States
      BY <1>2, <2>1, SuccessorType DEF BeginTransition
    <2>3. jobs' \in Seq(Commands)
      BY <1>2, <2>1 DEF BeginTransition, TransitionDriver, AcceptsCommand
    <2>4. QED BY <1>2, <2>1, <2>2, <2>3 DEF BeginTransition
  <1>3. CASE EndTransition
    BY <1>3 DEF EndTransition, jobVars
  <1>4. CASE BeginJob
    BY <1>4 DEF BeginJob, fsmVars
  <1>5. CASE LeaveWait
    BY <1>5 DEF LeaveWait, fsmVars
  <1>6. CASE ActionReturns
    BY <1>6 DEF ActionReturns, fsmVars
  <1>7. CASE ActionThrows
    BY <1>7 DEF ActionThrows, fsmVars
  <1>8. CASE ActionSwallows
    BY <1>8 DEF ActionSwallows, fsmVars
  <1>9. CASE Confirm
    <2>1. job \in Commands
      BY <1>9 DEF Confirm
    <2>2. QED BY <1>9, <2>1, ViaType DEF Confirm, fsmVars
  <1>10. CASE EndJob
    BY <1>10 DEF EndJob, fsmVars
  <1>11. CASE UNCHANGED vars
    BY <1>11 DEF vars
  <1>12. QED
    BY <1>1, <1>2, <1>3, <1>4, <1>5, <1>6, <1>7, <1>8, <1>9, <1>10, <1>11
       DEF Next, StateMachine, WorkLoop, Action

(* The state of the workloop belongs together in every reachable state.                 *)
LEMMA WorkLoopInvariant == Spec => []WorkLoopInv
  <1>1. QED BY InitWorkLoopInv, NextWorkLoopInv, PTL DEF Spec

(* The queues, the machine and the workloop hold values of their types in      *)
(* every behaviour: in particular only commands ever become jobs.             *)
THEOREM TypeCorrect == Spec => []TypeOK
  <1>1. WorkLoopInv => TypeOK
    BY DEF WorkLoopInv
  <1>2. QED BY <1>1, WorkLoopInvariant, PTL

(* m_wl_semaphore is taken exactly while a job runs, whichever of its return    *)
(* paths the job leaves by.                                                    *)
THEOREM SemaphoreReleased == Spec => []SemaphoreFollowsJob
  <1>1. WorkLoopInv => SemaphoreFollowsJob
    BY DEF WorkLoopInv
  <1>2. QED BY <1>1, WorkLoopInvariant, PTL

-----------------------------------------------------------------------------
(* No transition is forgotten.  The invariant has to speak of the transition   *)
(* that is about to be entered as well: its job is submitted, and may begin,     *)
(* before the machine shows the state.                                         *)
OwedInv ==
  /\ target \in TransitionalStates => state \in SteadyStates /\ Owed(target)
  /\ NoOrphanTransition

(* At first the machine is in no transitional state.                                    *)
LEMMA InitOwedInv == Init => OwedInv
  BY DEF Init, OwedInv, NoOrphanTransition, None, TransitionalStates

(* A step that keeps the queue or adds to it, and keeps or moves on a job      *)
(* without ending its debt, keeps what is owed.                               *)
LEMMA OwedIsKept ==
  ASSUME NEW s,
         events # <<>> => events' # <<>>,
         \A c \in Commands : Pending(c) => Pending(c)' \/ events' # <<>>
  PROVE  Owed(s) => Owed(s)'
  BY DEF Owed

(* A state that waits for the end of a transition keeps something that will end it,     *)
(* whatever step comes.                                                                 *)
LEMMA NextOwedInv == ASSUME WorkLoopInv, OwedInv, [Next]_vars PROVE OwedInv'
  <1> USE Disjointness DEF WorkLoopInv, TypeOK
  <1>0. ASSUME UNCHANGED fsmVars, \A s : Owed(s) => Owed(s)' PROVE OwedInv'
    BY <1>0 DEF OwedInv, NoOrphanTransition, fsmVars
  <1>1. ASSUME NEW c \in Commands, ReceiveCommand(c) PROVE OwedInv'
    <2>1. events' # <<>> /\ UNCHANGED fsmVars
      BY <1>1 DEF ReceiveCommand
    <2>2. QED BY <2>1, <1>0 DEF Owed
  <1>2. CASE BeginTransition
    <2>0. PICK e \in Events : e = Head(events)
      BY <1>2 DEF BeginTransition
    <2>1. target' = Successor(state, e) /\ target' # None
      BY <1>2, <2>0, SuccessorType DEF BeginTransition
    <2>2. CASE AcceptsCommand(state, e)
      <3>1. e \in Commands /\ target' = Via[e] /\ state \in SteadyStates
        BY <2>1, <2>2, SuccessorType DEF AcceptsCommand
      <3>2. jobs' = Append(jobs, e) /\ state' = state
        BY <1>2, <2>0, <2>2 DEF BeginTransition, TransitionDriver
      <3>3. Pending(e)'
        <4>1. Len(jobs') \in DOMAIN jobs' /\ jobs'[Len(jobs')] = e
          BY <3>1, <3>2
        <4>2. QED BY <4>1 DEF Pending
      <3>4. Owed(target)'
        BY <3>1, <3>3 DEF Owed
      <3>5. QED BY <3>1, <3>2, <3>4, <2>1 DEF OwedInv, NoOrphanTransition
    <2>3. CASE ~AcceptsCommand(state, e)
      <3>1. target' \in SteadyStates
        BY <2>1, <2>3, SuccessorType
      <3>2. QED BY <2>1, <3>1 DEF OwedInv, NoOrphanTransition
    <2>4. QED BY <2>2, <2>3
  <1>3. CASE EndTransition
    <2>1. state' = target /\ target' = None /\ UNCHANGED <<events, jobs, job, pc>>
      BY <1>3 DEF EndTransition, jobVars
    <2>2. Owed(target) => Owed(state)'
      BY <2>1 DEF Owed, Pending
    <2>3. QED BY <2>1, <2>2 DEF OwedInv, NoOrphanTransition
  <1>4. CASE BeginJob
    <2>1. /\ jobs # <<>> /\ jobs \in Seq(Commands)
          /\ job' = Head(jobs) /\ jobs' = Tail(jobs) /\ pc' = "waiting"
          /\ pc = "idle" /\ events' = events /\ UNCHANGED fsmVars
      BY <1>4 DEF BeginJob
    <2>2. ASSUME NEW c \in Commands, Pending(c) PROVE Pending(c)'
      <3>1. PICK i \in DOMAIN jobs : jobs[i] = c
        BY <2>1, <2>2 DEF Pending
      <3>2. CASE i = 1
        BY <2>1, <3>1, <3>2 DEF Pending
      <3>3. CASE i # 1
        <4>1. i - 1 \in DOMAIN jobs' /\ jobs'[i - 1] = c
          BY <2>1, <3>1, <3>3
        <4>2. QED BY <4>1 DEF Pending
      <3>4. QED BY <3>2, <3>3
    <2>3. QED BY <2>1, <2>2, <1>0, OwedIsKept
  <1>5. CASE LeaveWait
    BY <1>5, <1>0, OwedIsKept DEF LeaveWait, Pending
  <1>6. CASE ActionReturns
    BY <1>6, <1>0, OwedIsKept DEF ActionReturns, Pending
  <1>7. CASE ActionThrows
    <2>1. events' # <<>> /\ UNCHANGED fsmVars
      BY <1>7 DEF ActionThrows
    <2>2. QED BY <2>1, <1>0 DEF Owed
  <1>8. CASE ActionSwallows
    <2>1. events' # <<>> /\ UNCHANGED fsmVars
      BY <1>8 DEF ActionSwallows
    <2>2. QED BY <2>1, <1>0 DEF Owed
  <1>9. CASE Confirm
    <2>1. events' # <<>> /\ UNCHANGED fsmVars
      BY <1>9 DEF Confirm
    <2>2. QED BY <2>1, <1>0 DEF Owed
  <1>10. CASE EndJob
    BY <1>10, <1>0, OwedIsKept DEF EndJob, Pending
  <1>11. CASE UNCHANGED vars
    BY <1>11, <1>0, OwedIsKept DEF vars, fsmVars, Pending
  <1>12. QED
    BY <1>1, <1>2, <1>3, <1>4, <1>5, <1>6, <1>7, <1>8, <1>9, <1>10, <1>11
       DEF Next, StateMachine, WorkLoop, Action

(* Whatever the clients send and however the actions end, a machine that shows *)
(* a transitional state is owed the event that ends it.                        *)
THEOREM NoTransitionForgotten == Spec => []NoOrphanTransition
  <1>1. OwedInv => NoOrphanTransition
    BY DEF OwedInv
  <1>2. WorkLoopInv /\ OwedInv /\ [Next]_vars => OwedInv'
    BY NextOwedInv
  <1>3. QED BY <1>1, <1>2, InitOwedInv, WorkLoopInvariant, PTL DEF Spec

-----------------------------------------------------------------------------
(* An application whose client is patient and whose action reports a failure   *)
(* by throwing.  A command then passes through the application alone, and the   *)
(* invariant names the stages it passes: each says where the machine stands,    *)
(* what is queued, and how far the job is.                                     *)

(* No job is left to do; the last one may still have to give the semaphore.    *)
NoWork == jobs = <<>> /\ pc \in {"idle", "leaving"}

(* The job of c, and no other, is queued or at one of the places.              *)
Work(c, places) ==
  \/ jobs = <<c>> /\ pc \in {"idle", "leaving"}
  \/ jobs = <<>> /\ job = c /\ pc \in places

(* Nothing is asked and nothing is under way.                                           *)
AtRest ==
  state \in SteadyStates /\ target = None /\ events = <<>> /\ NoWork

(* The client has sent c, and nothing else is under way.                                *)
Asked(c) ==
  state \in SteadyStates /\ target = None /\ events = <<c>> /\ NoWork

(* The transition's action has submitted the job; the state is not set yet.     *)
Accepted(c) ==
  /\ state \in Sources[c] /\ state \in SteadyStates
  /\ target = Via[c]
  /\ events = <<>>
  /\ Work(c, {"waiting"})

(* The machine is in the transition of c, and its job is somewhere in the workloop.     *)
Entered(c) ==
  /\ state = Via[c]
  /\ target = None
  /\ events = <<>>
  /\ Work(c, {"waiting", "acting", "returning"})

(* The job has fired the event that ends the transition.                       *)
Answered ==
  /\ state \in TransitionalStates
  /\ target = None
  /\ events \in {<<Confirmation[state]>>, <<"Fail">>}
  /\ NoWork

(* The machine has taken that event, or has refused a command.                  *)
Settling ==
  /\ state \in States
  /\ target \in IF state \in TransitionalStates THEN {Settled[state], "Error"} ELSE {"Error"}
  /\ events = <<>>
  /\ NoWork

(* The stages of the transition of c, up to the answer of its job.                      *)
InStage(c) == Asked(c) \/ Accepted(c) \/ Entered(c)

(* One command at a time: the application is at one stage of one transition.            *)
PatientInv == AtRest \/ Answered \/ Settling \/ \E c \in Commands : InStage(c)

(* At first nothing is asked.                                                           *)
LEMMA InitPatientInv == Init => PatientInv
  BY DEF Init, PatientInv, AtRest, NoWork, SteadyStates, ReadyStates

(* The table, as a transition follows it: the command leads to a transitional    *)
(* state, its confirmation to the ready state, a failure to "Error", and no       *)
(* event is both a command and an answer.                                      *)
LEMMA TransitionTable ==
  /\ \A c \in Commands : Via[c] \in TransitionalStates /\ Via[c] # None
  /\ \A s \in TransitionalStates :
       /\ Settled[s] \in ReadyStates
       /\ Confirmation[s] \notin Commands /\ Confirmation[s] # "Fail"
       /\ Successor(s, Confirmation[s]) = Settled[s]
       /\ Successor(s, "Fail") = "Error"
  /\ "Fail" \notin Commands
  /\ \A c \in Commands, s \in SteadyStates :
       Successor(s, c) = IF s \in Sources[c] THEN Via[c] ELSE "Error"
  <1>1. /\ \A c \in Commands : Via[c] \in TransitionalStates /\ Via[c] # None
        /\ "Fail" \notin Commands
    BY DEF Commands, Via, TransitionalStates, None
  <1>2. ASSUME NEW s \in TransitionalStates
        PROVE  /\ Settled[s] \in ReadyStates
               /\ Confirmation[s] \notin Commands /\ Confirmation[s] # "Fail"
    BY DEF TransitionalStates, Settled, Confirmation, ReadyStates, Commands
  <1>3. ASSUME NEW s \in TransitionalStates
        PROVE  /\ Successor(s, Confirmation[s]) = Settled[s]
               /\ Successor(s, "Fail") = "Error"
    BY <1>1, <1>2 DEF Successor, AcceptsCommand, AcceptsConfirmation
  <1>4. ASSUME NEW c \in Commands, NEW s \in SteadyStates
        PROVE  Successor(s, c) = IF s \in Sources[c] THEN Via[c] ELSE "Error"
    BY Disjointness DEF Successor, AcceptsCommand, AcceptsConfirmation
  <1>5. QED BY <1>1, <1>2, <1>3, <1>4

(* Each step leads from one stage of the transition to a next one.                      *)
LEMMA NextPatientInv ==
  ASSUME WorkLoopInv, PatientInv, [Next]_vars,
         PatientClient = TRUE, "swallows" \notin Outcomes
  PROVE  PatientInv'
  <1> USE Disjointness, TransitionTable DEF WorkLoopInv, TypeOK
  <1>1. ASSUME NEW c \in Commands, ReceiveCommand(c) PROVE PatientInv'
    <2>1. /\ state \in SteadyStates /\ target = None
          /\ \A i \in DOMAIN events : events[i] \notin Commands
          /\ events' = Append(events, c)
          /\ UNCHANGED <<state, target, jobs, job, pc>>
      BY <1>1 DEF ReceiveCommand, ClientIsReady, fsmVars, jobVars
    <2>2. AtRest
      <3>1. \A d \in Commands : ~Asked(d)
        BY <2>1 DEF Asked
      <3>2. ~Settling
        BY <2>1 DEF Settling, None
      <3>3. QED BY <2>1, <3>1, <3>2 DEF PatientInv, InStage, Accepted, Entered, Answered
    <2>3. Asked(c)'
      BY <2>1, <2>2 DEF AtRest, Asked, NoWork
    <2>4. QED BY <2>3 DEF PatientInv, InStage
  <1>2. CASE BeginTransition
    <2>1. /\ target = None /\ events # <<>> /\ events' = Tail(events)
          /\ target' = Successor(state, Head(events))
          /\ jobs' = IF AcceptsCommand(state, Head(events))
                     THEN Append(jobs, Head(events)) ELSE jobs
          /\ UNCHANGED <<state, job, pc>>
      BY <1>2 DEF BeginTransition, TransitionDriver
    <2>2. ASSUME NEW c \in Commands, Asked(c) PROVE PatientInv'
      <3>1. events' = <<>> /\ Head(events) = c /\ state \in SteadyStates /\ NoWork
        BY <2>1, <2>2 DEF Asked
      <3>2. CASE state \in Sources[c]
        <4>1. target' = Via[c] /\ jobs' = <<c>>
          BY <2>1, <3>1, <3>2 DEF AcceptsCommand, NoWork
        <4>2. Accepted(c)'
          BY <2>1, <3>1, <3>2, <4>1 DEF Accepted, Work, NoWork
        <4>3. QED BY <4>2 DEF PatientInv, InStage
      <3>3. CASE state \notin Sources[c]
        <4>1. target' = "Error" /\ jobs' = jobs
          BY <2>1, <3>1, <3>3 DEF AcceptsCommand
        <4>2. Settling'
          BY <2>1, <3>1, <4>1 DEF Settling, NoWork
        <4>3. QED BY <4>2 DEF PatientInv
      <3>4. QED BY <3>2, <3>3
    <2>3. CASE Answered
      <3>1. events' = <<>> /\ Head(events) \in {Confirmation[state], "Fail"}
        BY <2>1, <2>3 DEF Answered
      <3>2. target' \in {Settled[state], "Error"} /\ jobs' = jobs
        BY <2>1, <2>3, <3>1 DEF Answered, AcceptsCommand
      <3>3. Settling'
        BY <2>1, <2>3, <3>1, <3>2 DEF Answered, Settling, NoWork
      <3>4. QED BY <3>3 DEF PatientInv
    <2>4. Answered \/ \E c \in Commands : Asked(c)
      BY <2>1 DEF PatientInv, InStage, AtRest, Accepted, Entered, Settling
    <2>5. QED BY <2>2, <2>3, <2>4
  <1>3. CASE EndTransition
    <2>1. target # None /\ state' = target /\ target' = None
          /\ UNCHANGED <<events, jobs, job, pc>>
      BY <1>3 DEF EndTransition, jobVars
    <2>2. ASSUME NEW c \in Commands, Accepted(c) PROVE PatientInv'
      <3>1. Entered(c)'
        BY <2>1, <2>2 DEF Accepted, Entered, Work
      <3>2. QED BY <3>1 DEF PatientInv, InStage
    <2>3. CASE Settling
      <3>1. target \in SteadyStates
        BY <2>3 DEF Settling, SteadyStates
      <3>2. AtRest'
        BY <2>1, <2>3, <3>1 DEF Settling, AtRest, NoWork
      <3>3. QED BY <3>2 DEF PatientInv
    <2>4. Settling \/ \E c \in Commands : Accepted(c)
      BY <2>1 DEF PatientInv, InStage, AtRest, Asked, Entered, Answered
    <2>5. QED BY <2>2, <2>3, <2>4
  <1>4. CASE BeginJob
    <2>1. /\ pc = "idle" /\ jobs # <<>> /\ job' = Head(jobs) /\ jobs' = Tail(jobs)
          /\ pc' = "waiting" /\ UNCHANGED <<state, target, events>>
      BY <1>4 DEF BeginJob, fsmVars
    <2>2. PICK c \in Commands : jobs = <<c>> /\ (Accepted(c) \/ Entered(c))
      BY <2>1 DEF PatientInv, InStage, AtRest, Asked, Accepted, Entered, Answered,
                  Settling, NoWork, Work
    <2>3. jobs' = <<>> /\ job' = c
      BY <2>1, <2>2
    <2>4. Accepted(c)' \/ Entered(c)'
      BY <2>1, <2>2, <2>3 DEF Accepted, Entered, Work
    <2>5. QED BY <2>4 DEF PatientInv, InStage
  <1>5. CASE LeaveWait
    <2>1. /\ pc = "waiting" /\ state = Via[job] /\ pc' = "acting"
          /\ UNCHANGED <<state, target, events, jobs, job>>
      BY <1>5 DEF LeaveWait, fsmVars
    <2>2. PICK c \in Commands : job = c /\ (Accepted(c) \/ Entered(c))
      BY <2>1 DEF PatientInv, InStage, AtRest, Asked, Accepted, Entered, Answered,
                  Settling, NoWork, Work
    <2>3. Entered(c)
      BY <2>1, <2>2 DEF Accepted
    <2>4. Entered(c)'
      BY <2>1, <2>2, <2>3 DEF Entered, Work
    <2>5. QED BY <2>4 DEF PatientInv, InStage
  <1>6. CASE ActionReturns
    <2>1. pc = "acting" /\ pc' = "returning" /\ UNCHANGED <<state, target, events, jobs, job>>
      BY <1>6 DEF ActionReturns, fsmVars
    <2>2. PICK c \in Commands : Entered(c)
      BY <2>1 DEF PatientInv, InStage, AtRest, Asked, Accepted, Answered, Settling, NoWork, Work
    <2>3. Entered(c)'
      BY <2>1, <2>2 DEF Entered, Work
    <2>4. QED BY <2>3 DEF PatientInv, InStage
  <1>7. CASE ActionThrows
    <2>1. /\ pc = "acting" /\ pc' = "leaving" /\ events' = Append(events, "Fail")
          /\ UNCHANGED <<state, target, jobs, job>>
      BY <1>7 DEF ActionThrows, fsmVars
    <2>2. PICK c \in Commands : Entered(c)
      BY <2>1 DEF PatientInv, InStage, AtRest, Asked, Accepted, Answered, Settling, NoWork, Work
    <2>3. Answered'
      BY <2>1, <2>2 DEF Entered, Work, Answered, NoWork
    <2>4. QED BY <2>3 DEF PatientInv
  <1>8. CASE ActionSwallows
    BY <1>8 DEF ActionSwallows
  <1>9. CASE Confirm
    <2>1. /\ pc = "returning" /\ pc' = "leaving"
          /\ events' = Append(events, Confirmation[Via[job]])
          /\ UNCHANGED <<state, target, jobs, job>>
      BY <1>9 DEF Confirm, fsmVars
    <2>2. PICK c \in Commands : Entered(c) /\ job = c
      BY <2>1 DEF PatientInv, InStage, AtRest, Asked, Accepted, Entered, Answered,
                  Settling, NoWork, Work
    <2>3. Answered'
      BY <2>1, <2>2 DEF Entered, Work, Answered, NoWork
    <2>4. QED BY <2>3 DEF PatientInv
  <1>10. CASE EndJob
    <2>1. pc = "leaving" /\ pc' = "idle" /\ UNCHANGED <<state, target, events, jobs>>
      BY <1>10 DEF EndJob, fsmVars
    <2>2. ASSUME NEW c \in Commands, InStage(c) PROVE InStage(c)'
      BY <2>1, <2>2 DEF InStage, Asked, Accepted, Entered, Work, NoWork
    <2>3. AtRest \/ Answered \/ Settling => (AtRest \/ Answered \/ Settling)'
      BY <2>1 DEF AtRest, Answered, Settling, NoWork
    <2>4. QED BY <2>2, <2>3 DEF PatientInv
  <1>11. CASE UNCHANGED vars
    BY <1>11 DEF vars, PatientInv, InStage, AtRest, Asked, Accepted, Entered, Answered,
                 Settling, NoWork, Work
  <1>12. QED
    BY <1>1, <1>2, <1>3, <1>4, <1>5, <1>6, <1>7, <1>8, <1>9, <1>10, <1>11
       DEF Next, StateMachine, WorkLoop, Action

(* With a patient client, and jobs that raise nothing foreign, one transition is under  *)
(* way at a time.                                                                       *)
LEMMA PatientInvariant ==
  ASSUME PatientClient = TRUE, "swallows" \notin Outcomes
  PROVE  Spec => []PatientInv
  <1>1. WorkLoopInv /\ PatientInv /\ [Next]_vars => PatientInv'
    BY NextPatientInv
  <1>2. QED BY <1>1, InitPatientInv, WorkLoopInvariant, PTL DEF Spec

(* With a patient client the loop of workloopDriver() that waits for the state   *)
(* of its job cannot miss it: the machine is in it or about to enter it.          *)
THEOREM NoJobIsStranded ==
  ASSUME PatientClient = TRUE, "swallows" \notin Outcomes
  PROVE  Spec => []NoStrandedJob
  <1>1. PatientInv => NoStrandedJob
    BY DEF PatientInv, InStage, AtRest, Asked, Accepted, Entered, Answered, Settling,
           NoWork, Work, NoStrandedJob
  <1>2. QED BY <1>1, PatientInvariant, PTL

(* With a patient client nothing moves the machine while the action of a          *)
(* transition runs, and the confirmation its job fires is the awaited one.        *)
THEOREM ActionIsUndisturbed ==
  ASSUME PatientClient = TRUE, "swallows" \notin Outcomes
  PROVE  Spec => []ActionUndisturbed
  <1>1. PatientInv => ActionUndisturbed
    BY DEF PatientInv, InStage, AtRest, Asked, Accepted, Entered, Answered, Settling,
           NoWork, Work, ActionUndisturbed
  <1>2. QED BY <1>1, PatientInvariant, PTL

(* With a patient client a ready state is shown only when the work that led to   *)
(* it was done and no job is left over.                                       *)
THEOREM ReadyIsDone ==
  ASSUME PatientClient = TRUE, "swallows" \notin Outcomes
  PROVE  Spec => []ReadyMeansDone
  <1>1. PatientInv => ReadyMeansDone
    BY Disjointness, TransitionTable
       DEF PatientInv, InStage, AtRest, Asked, Accepted, Entered, Answered, Settling,
           NoWork, Work, ReadyMeansDone, SteadyStates
  <1>2. QED BY <1>1, PatientInvariant, PTL

-----------------------------------------------------------------------------
(* The application implements the contract its supervisor relies on, step by      *)
(* step.  The stages say when the work of the transition counts as performed.     *)

(* The contract reads the same state table as the application.                   *)
LEMMA ContractTable ==
  /\ Contract!TransitionalStates = TransitionalStates
  /\ Contract!SteadyStates = SteadyStates
  /\ Contract!Commands = Commands
  /\ Contract!Settled = Settled
  /\ Contract!Via = Via
  /\ Contract!Sources = Sources
  <1>1. /\ Contract!TransitionalStates = TransitionalStates
        /\ Contract!Commands = Commands
        /\ Contract!SteadyStates = SteadyStates
    BY DEF Contract!TransitionalStates, TransitionalStates, Contract!Commands, Commands,
           Contract!SteadyStates, SteadyStates, Contract!ReadyStates, ReadyStates
  <1>2. Contract!Settled = Settled
    BY <1>1 DEF Contract!Settled, Settled
  <1>3. Contract!Via = Via
    BY <1>1 DEF Contract!Via, Via
  <1>4. Contract!Sources = Sources
    BY <1>1 DEF Contract!Sources, Sources
  <1>5. QED BY <1>1, <1>2, <1>3, <1>4

(* Which steps of the application are steps of the contract, given the state     *)
(* they show and whether the work of the transition is performed.              *)
LEMMA ContractSteps ==
  /\ state' = state /\ (Performed <=> Performed')
       => UNCHANGED Contract!contractVars
  /\ state \in TransitionalStates /\ ~Performed /\ Performed' /\ state' = state
       => Contract!Perform
  /\ Performed /\ state' = Settled[state] /\ ~Performed'
       => Contract!Settle
  /\ state \in TransitionalStates /\ ~Performed /\ state' = "Error" /\ ~Performed'
       => Contract!Fail
  /\ state \in SteadyStates /\ ~Performed /\ state' = "Error" /\ ~Performed'
       => Contract!Refuse
  /\ \A c \in Commands :
       AcceptsCommand(state, c) /\ state' = Via[c] /\ ~Performed /\ ~Performed'
         => Contract!Accept(c)
  <1>1. Performed \in BOOLEAN /\ Performed' \in BOOLEAN
    BY DEF Performed
  <1>2. (Performed <=> Performed') => Performed' = Performed
    BY <1>1
  <1>3. (Performed' => Performed' = TRUE) /\ (~Performed' => Performed' = FALSE)
    BY <1>1
  <1>4. state' = state /\ (Performed <=> Performed') => UNCHANGED Contract!contractVars
    BY <1>2 DEF Contract!contractVars
  <1>5. /\ state \in TransitionalStates /\ ~Performed /\ Performed' /\ state' = state
             => Contract!Perform
        /\ Performed /\ state' = Settled[state] /\ ~Performed' => Contract!Settle
    BY <1>3, ContractTable DEF Contract!Perform, Contract!Settle
  <1>6. /\ state \in TransitionalStates /\ ~Performed /\ state' = "Error" /\ ~Performed'
             => Contract!Fail
        /\ state \in SteadyStates /\ ~Performed /\ state' = "Error" /\ ~Performed'
             => Contract!Refuse
    BY <1>2, ContractTable DEF Contract!Fail, Contract!Refuse
  <1>7. ASSUME NEW c \in Commands
        PROVE  AcceptsCommand(state, c) /\ state' = Via[c] /\ ~Performed /\ ~Performed'
                 => Contract!Accept(c)
    BY <1>2, ContractTable DEF Contract!Accept, Contract!AcceptsCommand, AcceptsCommand
  <1>8. QED BY <1>4, <1>5, <1>6, <1>7

(* What counts as performed before and after a step that shows the same state     *)
(* and has the same target and the same events.                               *)
LEMMA PerformedIsKept ==
  ASSUME UNCHANGED <<state, target, events>>
  PROVE  UNCHANGED Contract!contractVars
  <1>1. Performed <=> Performed'
    BY DEF Performed
  <1>2. QED BY <1>1, ContractSteps

(* Every step of the application is a step of the contract or leaves what the     *)
(* supervisor sees as it is.                                                  *)
LEMMA NextKeepsContract ==
  ASSUME WorkLoopInv, PatientInv, [Next]_vars,
         PatientClient = TRUE, "swallows" \notin Outcomes
  PROVE  [Contract!Next]_(Contract!contractVars)
  <1> USE Disjointness, TransitionTable DEF WorkLoopInv, TypeOK
  <1>0. ASSUME UNCHANGED <<state, target, events>>
        PROVE  [Contract!Next]_(Contract!contractVars)
    BY <1>0, PerformedIsKept
  <1>1. ASSUME NEW c \in Commands, ReceiveCommand(c)
        PROVE  [Contract!Next]_(Contract!contractVars)
    <2>1. state' = state /\ state \in SteadyStates
      BY <1>1 DEF ReceiveCommand, ClientIsReady, fsmVars
    <2>2. ~Performed /\ ~Performed'
      BY <2>1 DEF Performed
    <2>3. QED BY <2>1, <2>2, ContractSteps
  <1>2. CASE BeginTransition
    <2>1. /\ target = None /\ events # <<>> /\ events' = Tail(events) /\ state' = state
          /\ target' = Successor(state, Head(events))
      BY <1>2 DEF BeginTransition
    <2>2. Answered \/ state \in SteadyStates
      BY <2>1 DEF PatientInv, InStage, AtRest, Asked, Accepted, Entered, Settling
    <2>3. CASE Answered
      <3>1. events' = <<>>
        BY <2>1, <2>3 DEF Answered
      <3>2. Settled[state] # "Error"
        BY <2>3 DEF Answered, ReadyStates
      <3>3. CASE events = <<Confirmation[state]>>
        <4>1. Performed
          <5>1. 1 \in DOMAIN events /\ events[1] = Confirmation[state]
            BY <3>3
          <5>2. QED BY <5>1, <2>3 DEF Answered, Performed
        <4>2. Performed'
          BY <2>1, <2>3, <3>3 DEF Answered, Performed
        <4>3. QED BY <4>1, <4>2, <2>1, ContractSteps
      <3>4. CASE events = <<"Fail">>
        <4>1. ~Performed
          <5>1. Settled[state] # None /\ Confirmation[state] # "Fail"
            BY <2>3 DEF Answered, ReadyStates, None
          <5>2. \A i \in DOMAIN events : events[i] = "Fail"
            BY <3>4
          <5>3. QED BY <5>1, <5>2, <2>1 DEF Performed
        <4>2. ~Performed'
          BY <2>1, <2>3, <3>1, <3>2, <3>4 DEF Answered, Performed
        <4>3. QED BY <4>1, <4>2, <2>1, ContractSteps
      <3>5. QED BY <2>3, <3>3, <3>4 DEF Answered
    <2>4. CASE state \in SteadyStates
      <3>1. ~Performed /\ ~Performed'
        BY <2>1, <2>4 DEF Performed
      <3>2. QED BY <2>1, <3>1, ContractSteps
    <2>5. QED BY <2>2, <2>3, <2>4
  <1>3. CASE EndTransition
    <2>1. target # None /\ state' = target /\ target' = None /\ events' = events
      BY <1>3 DEF EndTransition
    <2>2. events = <<>>
      BY <2>1 DEF PatientInv, InStage, AtRest, Asked, Accepted, Entered, Answered, Settling
    <2>3. ~Performed'
      BY <2>1, <2>2 DEF Performed, ReadyStates, None
    <2>4. ASSUME NEW c \in Commands, Accepted(c) PROVE Contract!Next
      <3>1. AcceptsCommand(state, c) /\ state' = Via[c] /\ state \in SteadyStates
        BY <2>1, <2>4 DEF Accepted, AcceptsCommand
      <3>2. ~Performed
        BY <3>1 DEF Performed
      <3>3. Contract!Accept(c)
        BY <2>3, <3>1, <3>2, ContractSteps
      <3>4. QED BY <3>3, ContractTable DEF Contract!Next
    <2>5. CASE Settling
      <3>1. CASE state \in SteadyStates
        <4>1. state' = "Error" /\ ~Performed
          BY <2>1, <2>5, <3>1 DEF Settling, Performed
        <4>2. QED BY <4>1, <3>1, <2>3, ContractSteps DEF Contract!Next
      <3>2. CASE state \in TransitionalStates /\ target = Settled[state]
        <4>1. Performed
          BY <3>2 DEF Performed
        <4>2. QED BY <4>1, <3>2, <2>1, <2>3, ContractSteps DEF Contract!Next, Contract!Answer
      <3>3. CASE state \in TransitionalStates /\ target # Settled[state]
        <4>1. state' = "Error" /\ ~Performed
          BY <2>1, <2>2, <2>5, <3>3 DEF Settling, Performed
        <4>2. QED BY <4>1, <3>3, <2>3, ContractSteps DEF Contract!Next, Contract!Answer
      <3>4. QED BY <2>5, <3>1, <3>2, <3>3 DEF Settling
    <2>6. Settling \/ \E c \in Commands : Accepted(c)
      BY <2>1 DEF PatientInv, InStage, AtRest, Asked, Entered, Answered
    <2>7. QED BY <2>4, <2>5, <2>6
  <1>4. CASE BeginJob
    BY <1>4, <1>0 DEF BeginJob, fsmVars
  <1>5. CASE LeaveWait
    BY <1>5, <1>0 DEF LeaveWait, fsmVars
  <1>6. CASE ActionReturns
    BY <1>6, <1>0 DEF ActionReturns, fsmVars
  <1>7. CASE ActionThrows
    <2>1. /\ pc = "acting" /\ events' = Append(events, "Fail")
          /\ state' = state /\ target' = target
      BY <1>7 DEF ActionThrows, fsmVars
    <2>2. events = <<>> /\ target = None
      BY <2>1 DEF PatientInv, InStage, AtRest, Asked, Accepted, Entered, Answered, Settling,
                  NoWork, Work
    <2>3. ~Performed /\ ~Performed'
      BY <2>1, <2>2 DEF Performed, ReadyStates, None
    <2>4. QED BY <2>1, <2>3, ContractSteps
  <1>8. CASE ActionSwallows
    BY <1>8 DEF ActionSwallows
  <1>9. CASE Confirm
    <2>1. /\ pc = "returning" /\ events' = Append(events, Confirmation[Via[job]])
          /\ state' = state /\ target' = target
      BY <1>9 DEF Confirm, fsmVars
    <2>2. PICK c \in Commands : Entered(c) /\ job = c
      BY <2>1 DEF PatientInv, InStage, AtRest, Asked, Accepted, Entered, Answered,
                  Settling, NoWork, Work
    <2>3. events = <<>> /\ target = None /\ state = Via[job] /\ state \in TransitionalStates
      BY <2>2 DEF Entered
    <2>4. ~Performed
      BY <2>3 DEF Performed, ReadyStates, None
    <2>5. Performed'
      <3>1. 1 \in DOMAIN events' /\ events'[1] = Confirmation[state']
        BY <2>1, <2>3
      <3>2. QED BY <3>1, <2>1, <2>3 DEF Performed
    <2>6. Contract!Perform
      BY <2>1, <2>3, <2>4, <2>5, ContractSteps
    <2>7. QED BY <2>6 DEF Contract!Next, Contract!Answer
  <1>10. CASE EndJob
    BY <1>10, <1>0 DEF EndJob, fsmVars
  <1>11. CASE UNCHANGED vars
    BY <1>11, <1>0 DEF vars
  <1>12. QED
    BY <1>1, <1>2, <1>3, <1>4, <1>5, <1>6, <1>7, <1>8, <1>9, <1>10, <1>11
       DEF Next, StateMachine, WorkLoop, Action

(* An application with a patient client whose action reports failure by throwing  *)
(* implements the contract: it accepts by showing the transitional state, settles  *)
(* in the ready state only after the work was performed, and fails otherwise.      *)
THEOREM ImplementsContract ==
  ASSUME PatientClient = TRUE, "swallows" \notin Outcomes
  PROVE  Spec => Contract!Spec
  <1>1. Init => Contract!Init
    <2>1. Init => ~Performed
      BY DEF Init, Performed, TransitionalStates
    <2>2. ~Performed => Performed = FALSE
      BY DEF Performed
    <2>3. QED BY <2>1, <2>2 DEF Init, Contract!Init
  <1>2. WorkLoopInv /\ PatientInv /\ [Next]_vars => [Contract!Next]_(Contract!contractVars)
    BY NextKeepsContract
  <1>3. QED BY <1>1, <1>2, WorkLoopInvariant, PatientInvariant, PTL DEF Spec, Contract!Spec
=============================================================================
