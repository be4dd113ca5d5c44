------------------------- MODULE GEMSupervisor_proofs -------------------------
(***************************************************************************)
(* Proofs about the supervisor, for every set of applications, every number   *)
(* of commands and, where nothing else is said, every number of faults.       *)
(***************************************************************************)
EXTENDS GEMSupervisor, GEMFSMApplication_proofs, WellFoundedInduction

(* The job is in its action exactly while a phase of it is on, and leaves     *)
(* nothing of it behind; init() begins with nothing to be commanded.           *)
PhaseInv ==
  /\ phase # "idle" <=> pc = "acting"
  /\ phase \in {"idle", "clearing", "adding"} => remaining = {}
  /\ phase = "idle" => commanded = {}

(* The types as they are inductive: with the workloop's and the job's.             *)
SupTypes == SupTypeOK /\ WorkLoopInv /\ PhaseInv

(* Whom an update has asked is known by a state of his.                         *)
PolledInv ==
  updater # "nobody" => \A a \in watched \ toPoll : known[a] \in States

-----------------------------------------------------------------------------
(* The ready states in which the operator gives the command.                    *)
From(c) == {s \in ReadyStates : <<s, c>> \in Operator}

(* The operator gives no command that the table refuses, none that repeats what is   *)
(* done, and no Reset.                                                          *)
Sober ==
  \A c \in Commands : \A s \in From(c) : c # "Reset" /\ s \in Sources[c] /\ s # Goal(c)

(* No two applications are in one group.                                         *)
OneByOne ==
  \A c \in Commands \ {"Reset"} : \A a, b \in Apps :
    a # b => Rank(c, Class[a]) # Rank(c, Class[b])

(* Nothing goes wrong, the operator waits for each outcome, and there are no TCDS     *)
(* applications.                                                                *)
Faultless ==
  /\ MaxFaults = 0 /\ PatientClient = TRUE /\ "swallows" \notin Outcomes
  /\ Sober /\ OneByOne
  /\ \A a \in Apps : ~IsTCDS(a)

(* The machine never fails, and a command that waits is one the operator gives in its   *)
(* state.                                                                       *)
MachineInv ==
  /\ state # "Error" /\ target # "Error"
  /\ \A i \in DOMAIN events : events[i] # "Fail"
  /\ \A c \in Commands :
       (\E i \in DOMAIN events : events[i] = c) \/ target = Via[c] => state \in From(c)

(* No error is reported.                                                        *)
NoErrorInv == global # "Error" /\ stateName # "Error"

(* What may be known of an application that has been in s for long: before its       *)
(* first update nothing.                                                        *)
Believed(s) == IF s = "Initial" THEN {"Initial", "Null"} ELSE {s}

(* Nothing is under way in the application.                                         *)
Rests(a, s) == child[a] = s /\ inbox[a] = <<>> /\ known[a] \in Believed(s)

(* The applications are all there.                                                 *)
Together(s) ==
  /\ s # "Initial" => supervised = Apps
  /\ \A a \in Apps : Rests(a, s)

(* An application that has been sent c in s.                                      *)
UnderWay(a, c, s) ==
  /\ \/ child[a] = s /\ inbox[a] = <<c>>
     \/ child[a] \in {Via[c], Goal(c)} /\ inbox[a] = <<>>
  /\ known[a] \in Believed(s) \cup {Via[c], Goal(c)}
  /\ known[a] = Goal(c) => child[a] = Goal(c)

(* The groups one after the other: those that are through, the one that is under way,    *)
(* and those that have not been sent the command.                                 *)
InOrder(c, s) ==
  /\ supervised = Apps
  /\ \A a \in Apps \ remaining : a \in commanded /\ Rests(a, Goal(c))
  /\ \A a \in remaining \cap commanded : UnderWay(a, c, s)
  /\ \A a \in remaining \ commanded : Rests(a, s)
  /\ \A a \in Apps \ remaining, b \in remaining : Rank(c, Class[a]) >= Rank(c, Class[b])
  /\ remaining \cap commanded = IF phase = "awaiting" THEN Group(c, remaining) ELSE {}

(* The action of c, with the applications in s when it began.                       *)
ActingInv(c, s) ==
  \/ phase \in {"clearing", "adding"} /\ c = "Initialize" /\ Together(s) /\ commanded = {}
  \/ /\ phase \in {"precondition", "numbering"} /\ Together(s)
     /\ supervised = Apps /\ remaining = Apps /\ commanded = {}
  \/ phase \in {"sending", "awaiting"} /\ InOrder(c, s)
  \/ phase \in {"finishing", "done"} /\ remaining = {} /\ Together(Goal(c))

(* Where the applications are, as the supervisor goes through its own transition.      *)
CourseInv ==
  /\ \A s \in ReadyStates : state = s => Together(s)
  /\ \A c \in Commands : state = Via[c] =>
       IF pc = "acting" THEN \E s \in From(c) : ActingInv(c, s)
       ELSE IF jobs = <<>> /\ pc # "waiting" THEN Together(Goal(c))
       ELSE \E s \in From(c) : Together(s)

(* The inductive invariant of a supervisor without faults.                          *)
FaultlessInv == PatientInv /\ MachineInv /\ NoErrorInv /\ CourseInv

-----------------------------------------------------------------------------
(* Every set of naturals that is not empty has a least member.                   *)
LEMMA LeastMember ==
  ASSUME NEW T, T \subseteq Nat, T # {}
  PROVE  \E d \in T : \A e \in T : d <= e
<1>1. PICK d \in T : \A e \in T : <<e, d>> \notin OpToRel(<, Nat)
  BY WFMin, NatLessThanWellFounded
<1>2. \A e \in T : ~(e < d)
  BY <1>1 DEF OpToRel
<1> QED
  BY <1>2

(* The states of the machines and "Null" have a priority each, "Running" and "Null"   *)
(* the last two.                                                               *)
LEMMA PriorityFacts ==
  /\ States \subseteq ReportedStates /\ "Null" \in ReportedStates
  /\ \A s \in ReportedStates : Priority(s) \in 1..18 /\ StatePriority[Priority(s)] = s
  /\ Priority("Running") = 17 /\ Priority("Null") = 18
  /\ \A s \in ReportedStates \ {"Null"} : Priority(s) <= 17
  /\ \A s \in States \ {"Running"} : Priority(s) <= 16
<1>1. States \subseteq ReportedStates /\ "Null" \in ReportedStates /\ "Null" \notin States
  BY DEF States, TransitionalStates, SteadyStates, ReadyStates, ReportedStates, StatePriority
<1>2. DOMAIN StatePriority = 1..18
  BY DEF StatePriority
<1>3. ASSUME NEW s \in ReportedStates
      PROVE  Priority(s) \in 1..18 /\ StatePriority[Priority(s)] = s
  <2>1. \E i \in DOMAIN StatePriority : StatePriority[i] = s
    BY DEF ReportedStates
  <2> QED
    BY <1>2, <2>1 DEF Priority
<1>4. /\ \A i \in 1..18 : StatePriority[i] = "Running" => i = 17
      /\ \A i \in 1..18 : StatePriority[i] = "Null" => i = 18
      /\ StatePriority[17] = "Running" /\ StatePriority[18] = "Null"
  BY DEF StatePriority
<1>5. "Running" \in ReportedStates
  BY <1>1 DEF States, SteadyStates, ReadyStates
<1>6. Priority("Running") = 17 /\ Priority("Null") = 18
  BY <1>1, <1>3, <1>4, <1>5
<1>7. ASSUME NEW s \in ReportedStates
      PROVE  /\ s # "Null" => Priority(s) <= 17
             /\ s \notin {"Null", "Running"} => Priority(s) <= 16
  BY <1>3, <1>4
<1> QED
  BY <1>1, <1>3, <1>6, <1>7

(* The state of a set of states is one of them, and none goes before it.             *)
LEMMA DominantFacts ==
  ASSUME NEW S, S \subseteq ReportedStates
  PROVE  /\ Dominant(S) \in S \cup {"Null"}
         /\ \A t \in S : Priority(Dominant(S)) <= Priority(t)
<1>1. \E s \in S \cup {"Null"} : \A t \in S : Priority(s) <= Priority(t)
  <2>1. CASE S = {}
    BY <2>1
  <2>2. CASE S # {}
    <3> DEFINE T == {Priority(s) : s \in S}
    <3>1. T \subseteq Nat /\ T # {}
      BY <2>2, PriorityFacts
    <3> HIDE DEF T
    <3>2. PICK d \in T : \A e \in T : d <= e
      BY <3>1, LeastMember
    <3>3. PICK s \in S : d = Priority(s)
      BY DEF T
    <3>4. \A t \in S : Priority(t) \in T
      BY DEF T
    <3> QED
      BY <3>2, <3>3, <3>4
  <2> QED
    BY <2>1, <2>2
<1> QED
  BY <1>1 DEF Dominant

(* A group of one is in the state of its application.                             *)
LEMMA DominantOfOne ==
  ASSUME NEW k \in States \cup {"Null"}
  PROVE  Dominant({k}) = k
<1>1. k \in ReportedStates
  BY PriorityFacts
<1>2. Dominant({k}) \in {k, "Null"} /\ Priority(Dominant({k})) <= Priority(k)
  BY <1>1, DominantFacts
<1>3. CASE k = "Null"
  BY <1>2, <1>3
<1>4. CASE k # "Null"
  <2>1. Priority(k) <= 17 /\ Priority("Null") = 18
    BY <1>1, <1>4, PriorityFacts
  <2>2. Priority(k) \in 1..18
    BY <1>1, PriorityFacts
  <2>3. Dominant({k}) # "Null"
    BY <1>2, <2>1, <2>2
  <2> QED
    BY <1>2, <2>3
<1> QED
  BY <1>3, <1>4

(* What the branches make of a mixture is never "Error" and never "Running".           *)
LEMMA BranchFacts ==
  \A i \in DOMAIN Branches : Branches[i].is \in States \ {"Error", "Running"}
  BY DEF Branches, States, TransitionalStates, SteadyStates, ReadyStates

(* The first branch for a state is one of the branches.                            *)
LEMMA TakenBranchFact ==
  ASSUME NEW before, \E i \in DOMAIN Branches : before \in Branches[i].from
  PROVE  TakenBranch(before) \in DOMAIN Branches
<1> DEFINE T == {i \in DOMAIN Branches : before \in Branches[i].from}
<1>1. DOMAIN Branches \subseteq Nat /\ \A i \in DOMAIN Branches : 1..(i - 1) \subseteq DOMAIN Branches
  BY DEF Branches
<1>2. T \subseteq Nat /\ T # {}
  BY <1>1
<1>3. PICK d \in T : \A e \in T : d <= e
  <2> HIDE DEF T
  <2> QED
    BY <1>2, LeastMember
<1>4. \A j \in 1..(d - 1) : before \notin Branches[j].from
  BY <1>1, <1>3
<1> QED
  BY <1>3, <1>4 DEF TakenBranch

(* What calculateGlobals() makes of states: one of them, or what a branch says; "Error"   *)
(* only of an error, and "Running" only of nothing else.                            *)
LEMMA GlobalFacts ==
  ASSUME NEW before, NEW shown, shown \subseteq States \cup {"Null"}, NEW fsm \in States
  PROVE  /\ GlobalOf(before, shown, fsm) \in States \cup {"Null"}
         /\ "Error" \notin shown /\ fsm # "Error" => GlobalOf(before, shown, fsm) # "Error"
         /\ GlobalOf(before, shown, fsm) = "Running" =>
              fsm # "Error" /\ shown \cap States \subseteq {"Running"}
<1> DEFINE composite == ProperCompositeState(before, shown \cup {fsm})
<1>1. /\ composite \in States \cup {"Null"}
      /\ composite = "Error" => "Error" \in shown \cup {fsm}
      /\ composite # "Running"
  BY BranchFacts, TakenBranchFact DEF ProperCompositeState, States, SteadyStates, ReadyStates, TransitionalStates
<1>2. shown \subseteq ReportedStates
  BY PriorityFacts
<1>3. /\ Dominant(shown) \in shown \cup {"Null"}
      /\ \A t \in shown : Priority(Dominant(shown)) <= Priority(t)
  BY <1>2, DominantFacts
<1>4. GlobalOf(before, shown, fsm) = IF fsm = "Error" THEN "Error"
                                     ELSE IF composite = "Null" THEN Dominant(shown) ELSE composite
  BY DEF GlobalOf
<1>5. Dominant(shown) = "Running" => shown \cap States \subseteq {"Running"}
  <2> SUFFICES ASSUME Dominant(shown) = "Running", NEW t \in shown, t \in States, t # "Running"
               PROVE  FALSE
    OBVIOUS
  <2>1. 17 <= Priority(t)
    BY <1>3, PriorityFacts
  <2>2. Priority(t) <= 16 /\ Priority(t) \in 1..18
    BY <1>2, PriorityFacts
  <2> QED
    BY <2>1, <2>2
<1> HIDE DEF composite
<1>6. "Error" \in States /\ "Running" # "Error" /\ "Null" # "Error"
  BY DEF States, SteadyStates
<1> QED
  BY <1>1, <1>3, <1>4, <1>5, <1>6

-----------------------------------------------------------------------------
(* Which steps change what.                                                     *)

(* A step that gives the machine an event "Fail".                                  *)
FailIsFired ==
  events' = Append(events, "Fail") /\ UNCHANGED <<fsmVars, jobVars, requests>>

(* What the supervisor's machine and workloop do they do as in any application, but      *)
(* for a "Fail" that comes of a global error or of a fault.                          *)
LEMMA MachineMoves ==
  SupNext => \/ [Next]_vars
             \/ FailIsFired /\ (Fault \/ (Announce /\ stateName = "Error"))
<1> SUFFICES ASSUME SupNext
             PROVE  \/ [Next]_vars
                    \/ FailIsFired /\ (Fault \/ (Announce /\ stateName = "Error"))
  OBVIOUS
<1>1. CASE \/ \E c \in Commands : OperatorCommands(c)
           \/ MachineSteps \/ JobFrame \/ JobEnters \/ LeaveAction
  BY <1>1 DEF OperatorCommands, MachineSteps, JobFrame, JobEnters, LeaveAction, Next, StateMachine,
              WorkLoop, Action
<1>2. CASE ChildSteps \/ TimerExpires \/ (\E a \in Apps : Poll(a)) \/ Compose \/ StateNameIsOverwritten
  BY <1>2 DEF ChildSteps, ChildBegins, ChildSettles, TimerExpires, Poll, Compose, StateNameIsOverwritten
<1>3. CASE Announce
  BY <1>3 DEF Announce, FailIsFired, vars, fsmVars, jobVars
<1>4. CASE \/ ClearApplications \/ (\E a \in Apps : AddApplication(a)) \/ StartTimer \/ Proceed
           \/ NumberIsBooked \/ (\E a \in Apps : SendCommand(a)) \/ NextGroup \/ JobUpdates
  BY <1>4 DEF ClearApplications, AddApplication, StartTimer, Proceed, NumberIsBooked, SendCommand,
              NextGroup, JobUpdates
<1>5. CASE Faults
  BY <1>5 DEF Faults, ChildFails, PollFails, SendFails, NumberRaises, NumberIsMissing, FailIsFired
<1> QED
  BY <1>1, <1>2, <1>3, <1>4, <1>5 DEF SupNext, UpdateSteps, JobSteps

(* The applications change by themselves, or because they are sent a command.          *)
LEMMA AppsMove ==
  SupNext => \/ UNCHANGED appVars
             \/ \E a \in Apps : \/ ChildBegins(a) \/ ChildSettles(a) \/ ChildFails(a)
                                \/ SendCommand(a) \/ SendFails(a)
<1> SUFFICES ASSUME SupNext
             PROVE  \/ UNCHANGED appVars
                    \/ \E a \in Apps : \/ ChildBegins(a) \/ ChildSettles(a) \/ ChildFails(a)
                                       \/ SendCommand(a) \/ SendFails(a)
  OBVIOUS
<1>1. CASE \/ \E c \in Commands : OperatorCommands(c)
           \/ MachineSteps \/ TimerExpires \/ UpdateSteps \/ StateNameIsOverwritten
  BY <1>1 DEF OperatorCommands, MachineSteps, TimerExpires, UpdateSteps, Poll, Compose, Announce,
              StateNameIsOverwritten
<1>2. CASE ChildSteps \/ Faults
  BY <1>2 DEF ChildSteps, Faults, PollFails, NumberRaises, NumberIsMissing
<1>3. CASE JobSteps
  BY <1>3 DEF JobSteps, JobFrame, JobEnters, ClearApplications, AddApplication, StartTimer, Proceed,
              NumberIsBooked, NextGroup, JobUpdates, LeaveAction
<1> QED
  BY <1>1, <1>2, <1>3 DEF SupNext

(* The lists of applications change in init().                                      *)
LEMMA MapsMove ==
  SupNext => \/ UNCHANGED mapVars
             \/ ClearApplications \/ (\E a \in Apps : AddApplication(a)) \/ StartTimer
<1> SUFFICES ASSUME SupNext
             PROVE  \/ UNCHANGED mapVars
                    \/ ClearApplications \/ (\E a \in Apps : AddApplication(a)) \/ StartTimer
  OBVIOUS
<1>1. CASE \/ \E c \in Commands : OperatorCommands(c)
           \/ MachineSteps \/ TimerExpires \/ UpdateSteps \/ StateNameIsOverwritten
  BY <1>1 DEF OperatorCommands, MachineSteps, TimerExpires, UpdateSteps, Poll, Compose, Announce,
              StateNameIsOverwritten, mapVars
<1>2. CASE ChildSteps \/ Faults
  BY <1>2 DEF ChildSteps, ChildBegins, ChildSettles, Faults, ChildFails, PollFails, SendFails,
              NumberRaises, NumberIsMissing
<1>3. CASE JobSteps
  BY <1>3 DEF JobSteps, JobFrame, JobEnters, Proceed, NumberIsBooked, SendCommand, NextGroup,
              JobUpdates, LeaveAction
<1> QED
  BY <1>1, <1>2, <1>3 DEF SupNext

(* What is known changes in an update.                                             *)
LEMMA UpdatesMove ==
  SupNext => \/ UNCHANGED updateVars
             \/ TimerExpires \/ JobUpdates \/ Compose \/ StateNameIsOverwritten \/ Announce
             \/ \E a \in Apps : Poll(a) \/ PollFails(a)
<1> SUFFICES ASSUME SupNext
             PROVE  \/ UNCHANGED updateVars
                    \/ TimerExpires \/ JobUpdates \/ Compose \/ StateNameIsOverwritten \/ Announce
                    \/ \E a \in Apps : Poll(a) \/ PollFails(a)
  OBVIOUS
<1>1. CASE \/ \E c \in Commands : OperatorCommands(c)
           \/ MachineSteps \/ TimerExpires \/ UpdateSteps \/ StateNameIsOverwritten
  BY <1>1 DEF OperatorCommands, MachineSteps, UpdateSteps
<1>2. CASE ChildSteps \/ Faults
  BY <1>2 DEF ChildSteps, ChildBegins, ChildSettles, Faults, ChildFails, SendFails,
              NumberRaises, NumberIsMissing
<1>3. CASE JobSteps
  BY <1>3 DEF JobSteps, JobFrame, JobEnters, ClearApplications, AddApplication, StartTimer, Proceed,
              NumberIsBooked, SendCommand, NextGroup, LeaveAction
<1> QED
  BY <1>1, <1>2, <1>3 DEF SupNext

(* Phases change with the job alone, which is in its action as long as they do not.       *)
LEMMA PhasesMove ==
  SupNext => \/ UNCHANGED stepVars /\ (pc' = "acting" <=> pc = "acting")
             \/ Compose \/ Announce
             \/ JobEnters \/ ClearApplications \/ StartTimer \/ Proceed \/ NumberIsBooked
             \/ NumberRaises \/ NumberIsMissing \/ NextGroup \/ LeaveAction
             \/ \E a \in Apps : SendCommand(a) \/ SendFails(a)
<1> SUFFICES ASSUME SupNext
             PROVE  \/ UNCHANGED stepVars /\ (pc' = "acting" <=> pc = "acting")
                    \/ Compose \/ Announce
                    \/ JobEnters \/ ClearApplications \/ StartTimer \/ Proceed \/ NumberIsBooked
                    \/ NumberRaises \/ NumberIsMissing \/ NextGroup \/ LeaveAction
                    \/ \E a \in Apps : SendCommand(a) \/ SendFails(a)
  OBVIOUS
<1>1. CASE \/ \E c \in Commands : OperatorCommands(c)
           \/ MachineSteps
  BY <1>1 DEF OperatorCommands, ReceiveCommand, MachineSteps, StateMachine, BeginTransition,
              EndTransition, jobVars
<1>2. CASE TimerExpires \/ UpdateSteps \/ StateNameIsOverwritten
  BY <1>2 DEF TimerExpires, UpdateSteps, Poll, StateNameIsOverwritten, vars
<1>3. CASE ChildSteps \/ Faults
  BY <1>3 DEF ChildSteps, ChildBegins, ChildSettles, Faults, ChildFails, PollFails, vars
<1>4. CASE JobFrame
  BY <1>4 DEF JobFrame, BeginJob, Confirm, EndJob
<1>5. CASE (\E a \in Apps : AddApplication(a)) \/ JobUpdates
  BY <1>5 DEF AddApplication, JobUpdates, vars
<1> QED
  BY <1>1, <1>2, <1>3, <1>4, <1>5 DEF SupNext, JobSteps

-----------------------------------------------------------------------------
(* Types.                                                                      *)

(* The types of the supervisor's own variables, in four parts.                      *)
AppTypes == child \in [Apps -> States] /\ inbox \in [Apps -> Seq(Commands)]

(* The list of the supervised applications is within that of the polled ones.       *)
MapTypes == supervised \subseteq watched /\ watched \subseteq Apps /\ timing \in BOOLEAN

(* An update asks applications it has a state for.                                 *)
UpdateTypes ==
  /\ known \in [Apps -> States \cup {"Null"}]
  /\ global \in States \cup {"Null", "N/A"}
  /\ updater \in {"nobody", "timer", "job"}
  /\ toPoll \subseteq watched
  /\ stateName \in States \cup {"Null", None}

(* What is under way belongs to supervised applications.                           *)
StepTypes ==
  /\ phase \in Phases
  /\ remaining \subseteq supervised
  /\ commanded \subseteq Apps
  /\ PhaseInv

(* The types in their parts, before and after a step.                              *)
LEMMA SupTypesParts ==
  /\ SupTypes <=> /\ WorkLoopInv /\ AppTypes /\ MapTypes /\ UpdateTypes /\ StepTypes
                  /\ faults \in 0..MaxFaults
  /\ SupTypes' <=> /\ WorkLoopInv' /\ AppTypes' /\ MapTypes' /\ UpdateTypes' /\ StepTypes'
                   /\ faults' \in 0..MaxFaults
<1>1. SupTypes <=> /\ WorkLoopInv /\ AppTypes /\ MapTypes /\ UpdateTypes /\ StepTypes
                   /\ faults \in 0..MaxFaults
  BY DEF SupTypes, SupTypeOK, WorkLoopInv, AppTypes, MapTypes, UpdateTypes, StepTypes
<1>2. SupTypes' <=> /\ WorkLoopInv' /\ AppTypes' /\ MapTypes' /\ UpdateTypes' /\ StepTypes'
                    /\ faults' \in 0..MaxFaults
  BY DEF SupTypes, SupTypeOK, WorkLoopInv, AppTypes, MapTypes, UpdateTypes, StepTypes
<1> QED
  BY <1>1, <1>2

(* The types hold at first.                                                       *)
LEMMA InitSupTypes == SupInit => SupTypes
<1> SUFFICES ASSUME SupInit PROVE SupTypes
  OBVIOUS
<1>1. WorkLoopInv
  BY InitWorkLoopInv DEF SupInit
<1>2. AppTypes
  BY DEF SupInit, AppTypes, States, SteadyStates, ReadyStates
<1>3. MapTypes /\ UpdateTypes
  BY DEF SupInit, MapTypes, UpdateTypes
<1>4. StepTypes
  BY DEF SupInit, Init, StepTypes, PhaseInv, Phases
<1>5. faults \in 0..MaxFaults
  BY MaxFaultsIsNat DEF SupInit
<1> QED
  BY <1>1, <1>2, <1>3, <1>4, <1>5, SupTypesParts

(* A "Fail" keeps the types of machine and workloop.                               *)
LEMMA FailTypes ==
  ASSUME WorkLoopInv, FailIsFired
  PROVE  WorkLoopInv'
<1>1. events' \in Seq(Events)
  BY Disjointness DEF WorkLoopInv, TypeOK, FailIsFired
<1> QED
  BY <1>1 DEF WorkLoopInv, TypeOK, FailIsFired, fsmVars, jobVars, SemaphoreFollowsJob

(* The command that the running job sends is one.                                  *)
LEMMA SentIsCommand ==
  ASSUME SupTypes, phase # "idle", NEW a \in Apps
  PROVE  job \in Commands /\ CommandFor(job, a) \in Commands
<1>1. job \in Commands
  BY DEF SupTypes, PhaseInv, WorkLoopInv, TypeOK
<1> QED
  BY <1>1 DEF CommandFor, Commands

(* The steps of the applications keep their types.                                 *)
LEMMA NextAppTypes ==
  ASSUME SupTypes, SupNext
  PROVE  AppTypes'
<1>0. AppTypes
  BY SupTypesParts
<1>1. CASE UNCHANGED appVars
  BY <1>0, <1>1 DEF AppTypes, appVars
<1>2. ASSUME NEW a \in Apps, ChildBegins(a) PROVE AppTypes'
  <2>1. Head(inbox[a]) \in Events /\ Tail(inbox[a]) \in Seq(Commands)
    BY <1>0, <1>2, Disjointness DEF AppTypes, ChildBegins
  <2>2. Successor(child[a], Head(inbox[a])) \in States
    BY <1>0, <2>1, SuccessorType DEF AppTypes
  <2> QED
    BY <1>0, <1>2, <2>1, <2>2 DEF AppTypes, ChildBegins
<1>3. ASSUME NEW a \in Apps, ChildSettles(a) PROVE AppTypes'
  <2>1. Settled[child[a]] \in States
    BY <1>3, TransitionTable DEF ChildSettles, States, SteadyStates
  <2> QED
    BY <1>0, <1>3, <2>1 DEF AppTypes, ChildSettles
<1>4. ASSUME NEW a \in Apps, ChildFails(a) PROVE AppTypes'
  BY <1>0, <1>4 DEF AppTypes, ChildFails, States, SteadyStates
<1>5. ASSUME NEW a \in Apps, SendCommand(a) \/ SendFails(a) PROVE AppTypes'
  <2>1. CommandFor(job, a) \in Commands
    BY <1>5, SentIsCommand DEF SendCommand, SendFails
  <2>2. child' = child /\ (inbox' = inbox \/ Send(a))
    BY <1>5 DEF SendCommand, SendFails
  <2>3. Append(inbox[a], CommandFor(job, a)) \in Seq(Commands)
    BY <1>0, <2>1 DEF AppTypes
  <2> QED
    BY <1>0, <2>2, <2>3 DEF AppTypes, Send
<1> QED
  BY <1>1, <1>2, <1>3, <1>4, <1>5, AppsMove

(* init() keeps the types of the lists.                                           *)
LEMMA NextMapTypes ==
  ASSUME SupTypes, SupNext
  PROVE  MapTypes' /\ watched \subseteq watched'
         /\ (supervised \subseteq supervised' \/ (ClearApplications /\ supervised' = {}))
<1>0. MapTypes
  BY SupTypesParts
<1>1. CASE UNCHANGED mapVars
  BY <1>0, <1>1 DEF MapTypes, mapVars
<1>2. CASE ClearApplications
  BY <1>0, <1>2 DEF MapTypes, ClearApplications
<1>3. ASSUME NEW a \in Apps, AddApplication(a)
      PROVE  MapTypes' /\ watched \subseteq watched' /\ supervised \subseteq supervised'
  BY <1>0, <1>3 DEF MapTypes, AddApplication
<1>4. CASE StartTimer
  BY <1>0, <1>4 DEF MapTypes, StartTimer
<1> QED
  BY <1>1, <1>2, <1>3, <1>4, MapsMove

(* The steps of an update keep the types of what is known.                            *)
LEMMA NextUpdateTypes ==
  ASSUME SupTypes, SupNext
  PROVE  UpdateTypes'
<1>0. UpdateTypes /\ MapTypes /\ AppTypes /\ state \in States
  BY SupTypesParts DEF WorkLoopInv, TypeOK
<1>1. watched \subseteq watched' /\ toPoll \subseteq watched /\ watched \subseteq Apps
  BY <1>0, NextMapTypes DEF UpdateTypes, MapTypes
<1>2. CASE UNCHANGED updateVars
  BY <1>0, <1>1, <1>2 DEF UpdateTypes, updateVars
<1>3. CASE TimerExpires \/ JobUpdates
  BY <1>0, <1>1, <1>3 DEF UpdateTypes, TimerExpires, JobUpdates
<1>4. ASSUME NEW a \in Apps, Poll(a) \/ PollFails(a) PROVE UpdateTypes'
  <2>1. \E s \in States : known' = [known EXCEPT ![a] = s]
    BY <1>0, <1>4 DEF Poll, PollFails, AppTypes, States, SteadyStates
  <2> QED
    BY <1>0, <1>1, <1>4, <2>1 DEF UpdateTypes, Poll, PollFails
<1>5. CASE Compose
  <2>1. Shown \subseteq States \cup {"Null"}
    BY <1>0, <1>1 DEF Shown, UpdateTypes
  <2>2. global' \in States \cup {"Null"}
    BY <1>0, <1>5, <2>1, GlobalFacts DEF Compose
  <2>3. updater' \in {updater, "nobody"} /\ stateName' \in {stateName, global'}
    BY <1>5 DEF Compose, Release
  <2> QED
    BY <1>0, <1>1, <1>5, <2>2, <2>3 DEF UpdateTypes, Compose
<1>6. CASE StateNameIsOverwritten
  BY <1>0, <1>1, <1>6 DEF UpdateTypes, StateNameIsOverwritten
<1>7. CASE Announce
  <2>1. updater' \in {updater, "nobody"} /\ toPoll' \in {toPoll, watched}
    BY <1>7 DEF Announce, Release
  <2> QED
    BY <1>0, <1>1, <1>7, <2>1 DEF UpdateTypes, Announce
<1> QED
  BY <1>2, <1>3, <1>4, <1>5, <1>6, <1>7, UpdatesMove

(* The end of an update takes a job to one of its next phases, and none to or from rest.   *)
LEMMA ReleaseFacts ==
  ASSUME phase \in Phases, phase' \in {phase, AfterUpdate(phase)}
  PROVE  /\ phase' \in Phases
         /\ phase' # "idle" <=> phase # "idle"
         /\ phase' \in {"idle", "clearing", "adding"} => phase' = phase
  BY DEF Phases, AfterUpdate, Sending

(* The steps of the job keep the types of its phases.                                 *)
LEMMA NextStepTypes ==
  ASSUME SupTypes, SupNext
  PROVE  StepTypes'
<1>0. /\ StepTypes /\ phase \in Phases /\ PhaseInv
      /\ remaining \subseteq supervised /\ supervised \subseteq Apps /\ commanded \subseteq Apps
  BY SupTypesParts DEF MapTypes, StepTypes
<1>1. supervised \subseteq supervised' \/ (ClearApplications /\ supervised' = {})
  BY NextMapTypes
<1>2. CASE UNCHANGED stepVars /\ (pc' = "acting" <=> pc = "acting")
  <2>1. ~ClearApplications
    BY <1>2 DEF ClearApplications, stepVars
  <2> QED
    BY <1>0, <1>1, <1>2, <2>1 DEF StepTypes, PhaseInv, stepVars
<1>3. CASE Compose \/ Announce
  <2>1. phase' \in {phase, AfterUpdate(phase)} /\ UNCHANGED <<pc, remaining, commanded, supervised>>
    BY <1>3 DEF Compose, Announce, Release, vars, jobVars, mapVars
  <2>2. /\ phase' \in Phases
        /\ phase' # "idle" <=> phase # "idle"
        /\ phase' \in {"idle", "clearing", "adding"} => phase' = phase
    BY <1>0, <2>1, ReleaseFacts
  <2> QED
    BY <1>0, <2>1, <2>2 DEF StepTypes, PhaseInv
<1>4. CASE JobEnters
  <2>1. /\ phase' \in {"clearing", "finishing", "sending", "precondition"}
        /\ phase' = "clearing" => remaining' = {}
    BY <1>4 DEF JobEnters, Sending
  <2>2. remaining' \subseteq supervised /\ UNCHANGED <<supervised, commanded>> /\ pc' = "acting"
    BY <1>4 DEF JobEnters, LeaveWait, Targets, mapVars
  <2> QED
    BY <1>0, <2>1, <2>2 DEF StepTypes, PhaseInv, Phases
<1>5. CASE ClearApplications
  BY <1>0, <1>5 DEF ClearApplications, StepTypes, PhaseInv, Phases, vars
<1>6. CASE StartTimer
  BY <1>0, <1>6 DEF StartTimer, StepTypes, PhaseInv, Phases, vars
<1>7. CASE Proceed \/ NumberIsBooked \/ NumberRaises \/ NumberIsMissing
  <2>1. /\ phase \in {"precondition", "numbering"}
        /\ phase' \in {"numbering", "sending", "finishing", "throwing", "unnumbered"}
        /\ UNCHANGED <<pc, remaining, commanded, supervised>>
    BY <1>7 DEF Proceed, MayProceed, NumberIsBooked, NumberRaises, NumberIsMissing, Sending, vars, jobVars,
                mapVars
  <2> QED
    BY <1>0, <2>1 DEF StepTypes, PhaseInv, Phases
<1>8. CASE NextGroup
  <2>1. /\ phase = "awaiting" /\ phase' \in {"sending", "finishing"}
        /\ remaining' \subseteq remaining /\ UNCHANGED <<pc, commanded, supervised>>
    BY <1>8 DEF NextGroup, GroupIsThere, Sending, vars, mapVars
  <2> QED
    BY <1>0, <2>1 DEF StepTypes, PhaseInv, Phases
<1>9. CASE LeaveAction
  <2>1. pc' # "acting" /\ phase' = "idle" /\ remaining' = {} /\ commanded' = {}
    BY <1>9 DEF LeaveAction, ActionReturns, ActionThrows
  <2> QED
    BY <2>1 DEF StepTypes, PhaseInv, Phases
<1>10. ASSUME NEW a \in Apps, SendCommand(a) \/ SendFails(a) PROVE StepTypes'
  <2>1. /\ phase = "sending" /\ phase' \in {"sending", "finishing", "awaiting", "failing"}
        /\ commanded' \subseteq commanded \cup {a} /\ UNCHANGED <<pc, remaining, supervised>>
    BY <1>10 DEF SendCommand, SendFails, vars, jobVars, mapVars
  <2> QED
    BY <1>0, <2>1 DEF StepTypes, PhaseInv, Phases
<1> QED
  BY <1>2, <1>3, <1>4, <1>5, <1>6, <1>7, <1>8, <1>9, <1>10, PhasesMove

(* Faults are counted up to their number.                                           *)
LEMMA NextFaults ==
  ASSUME SupTypes, SupNext
  PROVE  faults' \in 0..MaxFaults
<1>0. faults \in 0..MaxFaults
  BY SupTypesParts
<1>1. faults' = faults \/ Fault
  BY DEF SupNext, OperatorCommands, MachineSteps, ChildSteps, ChildBegins, ChildSettles, TimerExpires,
         UpdateSteps, Poll, Compose, Announce, StateNameIsOverwritten, JobSteps, JobFrame, JobEnters,
         ClearApplications, AddApplication, StartTimer, Proceed, NumberIsBooked, SendCommand, NextGroup,
         JobUpdates, LeaveAction, Faults, ChildFails, PollFails, SendFails, NumberRaises, NumberIsMissing
<1> QED
  BY <1>0, <1>1, MaxFaultsIsNat DEF Fault

(* Every step keeps the types.                                                      *)
LEMMA NextSupTypes == SupTypes /\ [SupNext]_supVars => SupTypes'
<1> SUFFICES ASSUME SupTypes, [SupNext]_supVars PROVE SupTypes'
  OBVIOUS
<1>1. CASE SupNext
  <2>1. WorkLoopInv'
    BY <1>1, MachineMoves, NextWorkLoopInv, FailTypes, SupTypesParts
  <2> QED
    BY <1>1, <2>1, NextAppTypes, NextMapTypes, NextUpdateTypes, NextStepTypes, NextFaults, SupTypesParts
<1>2. CASE UNCHANGED supVars
  <2>1. WorkLoopInv'
    BY <1>2, NextWorkLoopInv, SupTypesParts DEF supVars
  <2>2. AppTypes' /\ MapTypes' /\ UpdateTypes'
    BY <1>2, SupTypesParts DEF supVars, appVars, mapVars, updateVars, AppTypes, MapTypes, UpdateTypes
  <2>3. StepTypes' /\ faults' \in 0..MaxFaults
    BY <1>2, SupTypesParts DEF supVars, vars, mapVars, stepVars, StepTypes, PhaseInv
  <2> QED
    BY <2>1, <2>2, <2>3, SupTypesParts
<1> QED
  BY <1>1, <1>2

(* The variables of the supervisor keep their types, whatever goes wrong: no application   *)
(* is waited for that is not supervised, none asked that is not watched, and a job has    *)
(* something under way only while it is in its action.                                *)
THEOREM SupTypeCorrect == SupSpec => []SupTypeOK
<1>1. SupTypes => SupTypeOK
  BY DEF SupTypes
<1> QED
  BY InitSupTypes, NextSupTypes, <1>1, PTL DEF SupSpec

-----------------------------------------------------------------------------
(* What is reported as running.                                                  *)

(* An update knows whom it has asked, and no other step changes what it knows.         *)
LEMMA NextPolled ==
  ASSUME SupTypes, PolledInv, [SupNext]_supVars
  PROVE  PolledInv'
<1>0. AppTypes /\ UpdateTypes /\ MapTypes
  BY SupTypesParts
<1>1. CASE UNCHANGED <<watched, known, toPoll, updater>>
  BY <1>1 DEF PolledInv
<1>2. CASE UNCHANGED supVars
  BY <1>1, <1>2 DEF supVars, mapVars, updateVars
<1>3. CASE TimerExpires \/ JobUpdates
  BY <1>3 DEF PolledInv, TimerExpires, JobUpdates, mapVars
<1>4. ASSUME NEW a \in Apps, Poll(a) \/ PollFails(a) PROVE PolledInv'
  <2>1. \E s \in States : known' = [known EXCEPT ![a] = s]
    BY <1>0, <1>4 DEF Poll, PollFails, AppTypes, States, SteadyStates
  <2>2. toPoll' = toPoll \ {a} /\ UNCHANGED <<watched, updater>>
    BY <1>4 DEF Poll, PollFails, mapVars
  <2> QED
    BY <1>0, <2>1, <2>2 DEF PolledInv, UpdateTypes, MapTypes
<1>5. CASE Compose
  <2>1. updater' \in {updater, "nobody"} /\ UNCHANGED <<watched, known, toPoll>>
    BY <1>5 DEF Compose, Release, mapVars
  <2> QED
    BY <1>5, <2>1 DEF PolledInv, Compose
<1>6. CASE StateNameIsOverwritten
  BY <1>1, <1>6 DEF StateNameIsOverwritten, mapVars
<1>7. CASE Announce
  <2>1. UNCHANGED <<watched, known>> /\ toPoll' \in {toPoll, watched} /\ updater' \in {updater, "nobody"}
    BY <1>7 DEF Announce, Release, mapVars
  <2> QED
    BY <2>1 DEF PolledInv
<1>8. CASE SupNext /\ UNCHANGED updateVars
  <2>1. CASE UNCHANGED mapVars
    BY <1>1, <1>8, <2>1 DEF mapVars, updateVars
  <2>2. CASE ClearApplications \/ (\E a \in Apps : AddApplication(a))
    <3>1. updater' = "nobody"
      BY <2>2 DEF ClearApplications, AddApplication, updateVars
    <3> QED
      BY <3>1 DEF PolledInv
  <2>3. CASE StartTimer
    BY <1>1, <2>3 DEF StartTimer, updateVars
  <2> QED
    BY <1>8, <2>1, <2>2, <2>3, MapsMove
<1> QED
  BY <1>2, <1>3, <1>4, <1>5, <1>6, <1>7, <1>8, UpdatesMove

(* Without TCDS applications, which are left out of some compositions, "Running" is       *)
(* reported only when every supervised application was found running and the supervisor  *)
(* has not failed itself, whatever goes wrong and whatever the operator commands.         *)
THEOREM RunningIsAlwaysTrue ==
  ASSUME \A a \in Apps : ~IsTCDS(a)
  PROVE  SupSpec => RunningIsReportedTrue
<1>1. SupInit => SupTypes /\ PolledInv
  BY InitSupTypes DEF SupInit, PolledInv
<1>2. SupTypes /\ PolledInv /\ [SupNext]_supVars => (SupTypes /\ PolledInv)'
  BY NextSupTypes, NextPolled
<1>3. ASSUME SupTypes, PolledInv, [SupNext]_supVars, global' = "Running", global # "Running"
      PROVE  state # "Error" /\ \A a \in supervised : known[a] = "Running"
  <2>1. Compose
    BY <1>3, UpdatesMove
       DEF supVars, updateVars, TimerExpires, JobUpdates, StateNameIsOverwritten, Announce, Poll, PollFails
  <2>2. /\ UpdateTypes /\ MapTypes /\ state \in States
    BY <1>3, SupTypesParts DEF WorkLoopInv, TypeOK
  <2>3. Shown = {known[a] : a \in watched}
    BY <2>2 DEF Shown, MapTypes
  <2>4. Shown \subseteq States \cup {"Null"} /\ \A a \in watched : known[a] \in Shown \cap States
    BY <1>3, <2>1, <2>2, <2>3 DEF PolledInv, Compose, UpdateTypes, MapTypes
  <2>5. state # "Error" /\ Shown \cap States \subseteq {"Running"}
    BY <1>3, <2>1, <2>2, <2>4, GlobalFacts DEF Compose
  <2> QED
    BY <2>2, <2>4, <2>5 DEF MapTypes
<1>4. SupTypes /\ PolledInv /\ [SupNext]_supVars =>
        [global' = "Running" /\ global # "Running" =>
           state # "Error" /\ \A a \in supervised : known[a] = "Running"]_supVars
  BY <1>3
<1> QED
  BY <1>1, <1>2, <1>4, PTL DEF SupSpec, RunningIsReportedTrue

-----------------------------------------------------------------------------
(* The supervisor's machine and the course of its applications, without faults.         *)

(* The table, as the operator uses it.                                             *)
LEMMA CommandTable ==
  /\ \A c \in Commands : /\ Via[c] \in TransitionalStates
                         /\ Settled[Via[c]] = Goal(c) /\ Goal(c) \in ReadyStates
                         /\ Goal(c) = "Initial" => c = "Reset"
                         /\ "Initial" \in Sources[c] => c \in {"Initialize", "Reset"}
  /\ Sources["Initialize"] = {"Initial"}
  /\ \A c, d \in Commands : Via[c] = Via[d] => c = d
  /\ \A s \in TransitionalStates : \E c \in Commands : s = Via[c]
  /\ ReadyStates \subseteq SteadyStates /\ SteadyStates = ReadyStates \cup {"Error"}
  /\ "Error" \notin ReadyStates /\ "Error" \notin TransitionalStates
  /\ ReadyStates \cap TransitionalStates = {} /\ "Null" \notin States
<1>1. \A c \in Commands : /\ Via[c] \in TransitionalStates
                          /\ Settled[Via[c]] = Goal(c) /\ Goal(c) \in ReadyStates
                          /\ Goal(c) = "Initial" => c = "Reset"
                          /\ "Initial" \in Sources[c] => c \in {"Initialize", "Reset"}
  BY DEF Commands, Via, Settled, TransitionalStates, ReadyStates, Sources, SteadyStates, Goal
<1>2. /\ Sources["Initialize"] = {"Initial"}
      /\ \A c, d \in Commands : Via[c] = Via[d] => c = d
      /\ \A s \in TransitionalStates : \E c \in Commands : s = Via[c]
  BY DEF Commands, Via, TransitionalStates, Sources
<1>3. /\ ReadyStates \subseteq SteadyStates /\ SteadyStates = ReadyStates \cup {"Error"}
      /\ "Error" \notin ReadyStates /\ "Error" \notin TransitionalStates
      /\ ReadyStates \cap TransitionalStates = {} /\ "Null" \notin States
  BY DEF TransitionalStates, ReadyStates, SteadyStates, States
<1> QED
  BY <1>1, <1>2, <1>3

(* What a state in which a command is given has to do with the command.                *)
LEMMA FromFacts ==
  ASSUME Faultless, NEW c \in Commands, NEW s \in From(c)
  PROVE  /\ s \in ReadyStates /\ s \in Sources[c] /\ s # Goal(c) /\ c # "Reset"
         /\ s # "Error" /\ s # "Null" /\ s \notin TransitionalStates
         /\ s = "Initial" <=> c = "Initialize"
         /\ Goal(c) \notin Believed(s) /\ Via[c] \notin Believed(s) /\ Believed(Goal(c)) = {Goal(c)}
         /\ Successor(s, c) = Via[c]
<1>1. s \in ReadyStates /\ s \in Sources[c] /\ s # Goal(c) /\ c # "Reset"
  BY DEF Faultless, Sober, From
<1>2. s # "Error" /\ s # "Null" /\ s \notin TransitionalStates
  BY <1>1, CommandTable DEF States
<1>3. s = "Initial" <=> c = "Initialize"
  BY <1>1, CommandTable
<1>4. Goal(c) \notin {s, "Null", "Initial"} /\ Via[c] \notin {s, "Null", "Initial"}
  BY <1>1, <1>2, CommandTable DEF States, ReadyStates, TransitionalStates
<1> QED
  BY <1>1, <1>2, <1>3, <1>4 DEF Believed, Successor, AcceptsCommand

(* Whose action it is, and where the machine is meanwhile.                            *)
LEMMA ActingFacts ==
  ASSUME SupTypes, PatientInv, pc = "acting"
  PROVE  job \in Commands /\ state = Via[job] /\ target = None /\ jobs = <<>> /\ events = <<>>
<1>1. job \in Commands
  BY DEF SupTypes, WorkLoopInv, TypeOK
<1> QED
  BY <1>1 DEF PatientInv, AtRest, Answered, Settling, InStage, Asked, Accepted, Entered, NoWork, Work

(* A job in its action is at one of its phases.                                     *)
LEMMA ActionOfJob ==
  ASSUME SupTypes, FaultlessInv, pc = "acting"
  PROVE  job \in Commands /\ state = Via[job] /\ \E s \in From(job) : ActingInv(job, s)
  BY ActingFacts DEF FaultlessInv, CourseInv

-----------------------------------------------------------------------------
(* What the supervisor's machine does when nothing goes wrong.                        *)
CalmMove ==
  \/ UNCHANGED vars
  \/ \E c \in Commands : <<state, c>> \in Operator /\ ReceiveCommand(c)
  \/ BeginTransition \/ EndTransition \/ BeginJob \/ LeaveWait \/ ActionReturns \/ Confirm \/ EndJob

(* No fault, no error, no exception.                                               *)
LEMMA MovesAreCalm ==
  ASSUME Faultless, SupTypes, FaultlessInv, SupNext
  PROVE  CalmMove /\ [Next]_vars /\ ~Fault /\ ~Faults
<1>1. ~Fault
  BY SupTypesParts DEF Faultless, Fault
<1>2. ~Faults
  BY <1>1 DEF Faults, ChildFails, PollFails, SendFails, NumberRaises, NumberIsMissing
<1>3. [Next]_vars
  BY <1>1, MachineMoves DEF FaultlessInv, NoErrorInv
<1>4. ~(LeaveAction /\ phase = "thrown")
  <2> SUFFICES ASSUME LeaveAction, phase = "thrown" PROVE FALSE
    OBVIOUS
  <2>1. PICK s \in From(job) : ActingInv(job, s)
    BY ActionOfJob DEF LeaveAction, ActionThrows, ActionReturns
  <2> QED
    BY <2>1 DEF ActingInv
<1>5. ASSUME \/ \E c \in Commands : OperatorCommands(c)
             \/ MachineSteps \/ JobFrame \/ JobEnters \/ LeaveAction
      PROVE  CalmMove
  BY <1>4, <1>5 DEF OperatorCommands, MachineSteps, JobFrame, JobEnters, LeaveAction, StateMachine, CalmMove
<1>6. ASSUME ChildSteps \/ TimerExpires \/ (\E a \in Apps : Poll(a)) \/ Compose \/ StateNameIsOverwritten
      PROVE  CalmMove
  BY <1>6 DEF ChildSteps, ChildBegins, ChildSettles, TimerExpires, Poll, Compose, StateNameIsOverwritten,
              CalmMove
<1>7. ASSUME Announce
      PROVE  CalmMove
  <2>1. events' = events
    BY <1>7 DEF Announce, FaultlessInv, NoErrorInv
  <2> QED
    BY <1>7, <2>1 DEF Announce, vars, fsmVars, jobVars, CalmMove
<1>8. ASSUME \/ ClearApplications \/ (\E a \in Apps : AddApplication(a)) \/ StartTimer \/ Proceed
             \/ NumberIsBooked \/ (\E a \in Apps : SendCommand(a)) \/ NextGroup \/ JobUpdates
      PROVE  CalmMove
  BY <1>8 DEF ClearApplications, AddApplication, StartTimer, Proceed, NumberIsBooked, SendCommand,
              NextGroup, JobUpdates, CalmMove
<1>9. CalmMove
  BY <1>2, <1>5, <1>6, <1>7, <1>8 DEF SupNext, UpdateSteps, JobSteps
<1> QED
  BY <1>1, <1>2, <1>3, <1>9

(* The machine never fails when nothing goes wrong.                                   *)
LEMMA NextMachine ==
  ASSUME Faultless, SupTypes, PatientInv, MachineInv, CalmMove
  PROVE  MachineInv'
<1>0. /\ state \in States /\ target \in States \cup {None} /\ events \in Seq(Events)
      /\ job \in Commands \cup {None} /\ PatientClient = TRUE
  BY DEF SupTypes, SupTypeOK, TypeOK, Faultless
<1>1. CASE UNCHANGED <<state, target, events>>
  BY <1>1 DEF MachineInv
<1>2. CASE UNCHANGED vars \/ BeginJob \/ LeaveWait \/ ActionReturns \/ EndJob
  BY <1>1, <1>2 DEF vars, BeginJob, LeaveWait, ActionReturns, EndJob, fsmVars
<1>3. ASSUME NEW c \in Commands, <<state, c>> \in Operator, ReceiveCommand(c)
      PROVE  MachineInv'
  <2>1. state \in From(c) /\ UNCHANGED <<state, target>> /\ events' = Append(events, c) /\ target = None
    BY <1>0, <1>3, CommandTable DEF ReceiveCommand, ClientIsReady, From, MachineInv, fsmVars
  <2>2. c # "Fail" /\ \A d \in Commands : Via[d] # None
    BY TransitionTable
  <2>3. \A i \in DOMAIN events' : events'[i] = c \/ (i \in DOMAIN events /\ events'[i] = events[i])
    BY <1>0, <2>1
  <2> QED
    BY <2>1, <2>2, <2>3 DEF MachineInv
<1>4. CASE BeginTransition
  <2>1. /\ target = None /\ events # <<>> /\ events' = Tail(events) /\ state' = state
        /\ target' = Successor(state, Head(events))
    BY <1>4 DEF BeginTransition
  <2>2. events = <<Head(events)>> /\ events' = <<>>
    BY <2>1 DEF PatientInv, AtRest, Answered, Settling, InStage, Asked, Accepted, Entered
  <2>3. ASSUME NEW c \in Commands, Asked(c)
        PROVE  state \in From(c) /\ target' = Via[c]
    <3>1. events = <<c>>
      BY <2>1, <2>3 DEF Asked
    <3>2. state \in From(c)
      BY <3>1 DEF MachineInv
    <3> QED
      BY <2>1, <3>1, <3>2, FromFacts
  <2>4. CASE Answered
    <3>1. events[1] # "Fail" /\ 1 \in DOMAIN events
      BY <2>2 DEF MachineInv
    <3>2. target' = Settled[state] /\ state \in TransitionalStates
      BY <2>1, <2>4, <3>1, TransitionTable DEF Answered
    <3>3. target' \in ReadyStates
      BY <3>2, TransitionTable
    <3> QED
      BY <2>1, <2>2, <3>3, CommandTable DEF MachineInv
  <2>5. Answered \/ \E c \in Commands : Asked(c)
    BY <2>1 DEF PatientInv, AtRest, Settling, InStage, Accepted, Entered
  <2>6. ASSUME NEW c \in Commands, state \in From(c), target' = Via[c]
        PROVE  MachineInv'
    BY <2>1, <2>2, <2>6, CommandTable DEF MachineInv
  <2> QED
    BY <2>3, <2>4, <2>5, <2>6
<1>5. CASE EndTransition
  <2>1. target # None /\ state' = target /\ target' = None /\ events' = events
    BY <1>5 DEF EndTransition
  <2>2. events = <<>>
    BY <2>1 DEF PatientInv, AtRest, Answered, Settling, InStage, Asked, Accepted, Entered
  <2> QED
    BY <2>1, <2>2, TransitionTable DEF MachineInv, None
<1>6. CASE Confirm
  <2>1. /\ events' = Append(events, Confirmation[Via[job]]) /\ UNCHANGED <<state, target>>
        /\ pc = "returning"
    BY <1>6 DEF Confirm, fsmVars
  <2>2. job \in Commands
    BY <2>1 DEF SupTypes, WorkLoopInv, TypeOK
  <2>3. Confirmation[Via[job]] \notin Commands /\ Confirmation[Via[job]] # "Fail"
    BY <2>2, TransitionTable
  <2>4. \A i \in DOMAIN events' : \/ events'[i] = Confirmation[Via[job]]
                                  \/ i \in DOMAIN events /\ events'[i] = events[i]
    BY <1>0, <2>1
  <2> QED
    BY <2>1, <2>3, <2>4 DEF MachineInv
<1> QED
  BY <1>2, <1>3, <1>4, <1>5, <1>6 DEF CalmMove

-----------------------------------------------------------------------------
(* What keeps the applications where the course of the transition has them.              *)

(* The priorities are numbers.                                                      *)
LEMMA RankType ==
  ASSUME NEW c \in Commands, NEW a \in Apps
  PROVE  Rank(c, Class[a]) \in Nat
<1>1. Class[a] \in Classes
  BY ClassIsKnown
<1>2. /\ InitPriority[Class[a]] \in Nat
      /\ EnablePriority[Class[a]] \in Nat
      /\ DisablePriority[Class[a]] \in Nat
  BY <1>1 DEF InitPriority, EnablePriority, DisablePriority
<1> QED
  BY <1>2 DEF Rank, Commands

(* A group is one application.                                                     *)
LEMMA GroupOfOne ==
  ASSUME Faultless, NEW c \in Commands \ {"Reset"}, NEW S, S \subseteq Apps, NEW a \in Group(c, S)
  PROVE  Group(c, S) = {a}
<1> SUFFICES ASSUME NEW b \in Group(c, S), b # a PROVE FALSE
  OBVIOUS
<1>1. a \in Apps /\ b \in Apps /\ a \in S /\ b \in S
  BY DEF Group
<1>2. Rank(c, Class[a]) >= Rank(c, Class[b]) /\ Rank(c, Class[b]) >= Rank(c, Class[a])
  BY <1>1 DEF Group
<1>3. Rank(c, Class[a]) \in Nat /\ Rank(c, Class[b]) \in Nat
  BY <1>1, RankType
<1>4. Rank(c, Class[a]) = Rank(c, Class[b])
  BY <1>2, <1>3
<1> QED
  BY <1>1, <1>4 DEF Faultless, OneByOne

(* A step keeps the applications where they are, those at rest and those under way.         *)
Keeps ==
  /\ UNCHANGED <<supervised, remaining, commanded>>
  /\ phase' \in {phase, AfterUpdate(phase)}
  /\ \A b \in Apps : \A s \in ReadyStates : Rests(b, s) => Rests(b, s)'
  /\ \A b \in Apps : \A c \in Commands : \A s \in From(c) : UnderWay(b, c, s) => UnderWay(b, c, s)'

(* Such a step keeps them together, or in order.                                     *)
LEMMA KeptTogether ==
  ASSUME Keeps, NEW s \in ReadyStates, Together(s)
  PROVE  Together(s)'
  BY DEF Keeps, Together

(* Wherever the action is, it stays there, but for the last update before its end.           *)
LEMMA KeptActing ==
  ASSUME Faultless, SupTypes, Keeps, NEW c \in Commands, NEW s \in From(c), ActingInv(c, s)
  PROVE  ActingInv(c, s)'
<1>1. s \in ReadyStates /\ Goal(c) \in ReadyStates
  BY FromFacts, CommandTable
<1>2. \A t \in ReadyStates : Together(t) => Together(t)'
  BY KeptTogether
<1>3. UNCHANGED <<supervised, remaining, commanded>>
  BY DEF Keeps
<1>4. phase' = phase \/ (phase = "finishing" /\ phase' = "done")
  BY DEF Keeps, ActingInv, AfterUpdate
<1>5. CASE phase \in {"clearing", "adding"} /\ c = "Initialize" /\ Together(s) /\ commanded = {}
  <2>1. phase' = phase /\ Together(s)'
    BY <1>1, <1>2, <1>4, <1>5
  <2> QED
    BY <1>3, <1>5, <2>1 DEF ActingInv
<1>6. CASE /\ phase \in {"precondition", "numbering"} /\ Together(s)
           /\ supervised = Apps /\ remaining = Apps /\ commanded = {}
  <2>1. phase' = phase /\ Together(s)'
    BY <1>1, <1>2, <1>4, <1>6
  <2> QED
    BY <1>3, <1>6, <2>1 DEF ActingInv
<1>7. CASE phase \in {"sending", "awaiting"} /\ InOrder(c, s)
  <2>1. phase' = phase
    BY <1>4, <1>7
  <2>2. Group(c, remaining)' = Group(c, remaining)
    BY <1>3 DEF Group
  <2>3. /\ \A a \in Apps \ remaining : Rests(a, Goal(c))'
        /\ \A a \in remaining \cap commanded : UnderWay(a, c, s)'
        /\ \A a \in remaining \ commanded : Rests(a, s)'
    <3>1. remaining \subseteq Apps
      BY SupTypesParts DEF StepTypes, MapTypes
    <3>2. \A a \in Apps : Rests(a, Goal(c)) => Rests(a, Goal(c))'
      BY <1>1 DEF Keeps
    <3>3. \A a \in Apps : (Rests(a, s) => Rests(a, s)') /\ (UnderWay(a, c, s) => UnderWay(a, c, s)')
      BY <1>1 DEF Keeps
    <3> QED
      BY <1>7, <3>1, <3>2, <3>3 DEF InOrder
  <2>4. InOrder(c, s)'
    BY <1>3, <1>7, <2>1, <2>2, <2>3 DEF InOrder
  <2> QED
    BY <1>7, <2>1, <2>4 DEF ActingInv
<1>8. CASE phase \in {"finishing", "done"} /\ remaining = {} /\ Together(Goal(c))
  <2>1. phase' \in {"finishing", "done"} /\ Together(Goal(c))'
    BY <1>1, <1>2, <1>4, <1>8
  <2> QED
    BY <1>3, <1>8, <2>1 DEF ActingInv
<1> QED
  BY <1>5, <1>6, <1>7, <1>8 DEF ActingInv

(* So it keeps the course, as long as the machine stays and the job stays where it is.       *)
LEMMA KeptCourse ==
  ASSUME Faultless, SupTypes, CourseInv, Keeps, UNCHANGED <<state, pc>>,
         state \in TransitionalStates => jobs' = jobs
  PROVE  CourseInv'
<1>1. \A s \in ReadyStates : Together(s) => Together(s)'
  BY KeptTogether
<1>2. \A s \in ReadyStates : state' = s => Together(s)'
  BY <1>1 DEF CourseInv
<1>3. ASSUME NEW c \in Commands, state' = Via[c]
      PROVE  IF pc' = "acting" THEN \E s \in From(c) : ActingInv(c, s)'
             ELSE IF jobs' = <<>> /\ pc' # "waiting" THEN Together(Goal(c))'
             ELSE \E s \in From(c) : Together(s)'
  <2>1. jobs' = jobs /\ state = Via[c] /\ Goal(c) \in ReadyStates
    BY <1>3, CommandTable
  <2>2. \A s \in From(c) : s \in ReadyStates /\ (ActingInv(c, s) => ActingInv(c, s)')
    BY FromFacts, KeptActing
  <2> QED
    BY <1>1, <2>1, <2>2 DEF CourseInv
<1> QED
  BY <1>2, <1>3 DEF CourseInv

(* The same for a step that changes the job's place outside its action.                 *)
LEMMA KeptOutside ==
  ASSUME Faultless, CourseInv, Keeps, UNCHANGED state, pc # "acting", pc' # "acting",
         (jobs = <<>> /\ pc # "waiting") <=> (jobs' = <<>> /\ pc' # "waiting")
  PROVE  CourseInv'
<1>1. \A s \in ReadyStates : Together(s) => Together(s)'
  BY KeptTogether
<1>2. \A s \in ReadyStates : state' = s => Together(s)'
  BY <1>1 DEF CourseInv
<1>3. ASSUME NEW c \in Commands, state' = Via[c]
      PROVE  IF pc' = "acting" THEN \E s \in From(c) : ActingInv(c, s)'
             ELSE IF jobs' = <<>> /\ pc' # "waiting" THEN Together(Goal(c))'
             ELSE \E s \in From(c) : Together(s)'
  <2>1. state = Via[c] /\ Goal(c) \in ReadyStates
    BY <1>3, CommandTable
  <2>2. \A s \in From(c) : s \in ReadyStates
    BY FromFacts
  <2>3. CASE jobs = <<>> /\ pc # "waiting"
    BY <1>1, <2>1, <2>3 DEF CourseInv
  <2>4. CASE ~(jobs = <<>> /\ pc # "waiting")
    BY <1>1, <2>1, <2>2, <2>4 DEF CourseInv
  <2> QED
    BY <2>3, <2>4
<1> QED
  BY <1>2, <1>3 DEF CourseInv

(* A step within the action leads from one phase to a next one.                          *)
LEMMA NextPhase ==
  ASSUME NEW c \in Commands, state' = Via[c], pc' = "acting", NEW s \in From(c), ActingInv(c, s)'
  PROVE  CourseInv'
<1>1. state' \notin ReadyStates /\ \A d \in Commands : state' = Via[d] => d = c
  BY CommandTable
<1>2. \A t \in ReadyStates : state' = t => Together(t)'
  BY <1>1
<1>3. ASSUME NEW d \in Commands, state' = Via[d]
      PROVE  \E t \in From(d) : ActingInv(d, t)'
  <2>1. d = c
    BY <1>1, <1>3
  <2> QED
    BY <2>1
<1> QED
  BY <1>2, <1>3 DEF CourseInv

(* Before such a step: the command, and the state the applications were in.              *)
LEMMA PresentPhase ==
  ASSUME SupTypes, FaultlessInv, pc = "acting"
  PROVE  \E c \in Commands : c = job /\ state = Via[c] /\ \E s \in From(c) : ActingInv(c, s)
  BY ActionOfJob

-----------------------------------------------------------------------------
(* The steps of a supervisor without faults, one by one.                                *)

(* An application that is at rest in a ready state does nothing by itself, and one that      *)
(* is under way comes closer to its goal; what is found out about either is true.           *)
LEMMA AppsKeep ==
  ASSUME Faultless, SupTypes, NEW a \in Apps,
         ChildBegins(a) \/ ChildSettles(a) \/ Poll(a)
  PROVE  Keeps
<1>1. child \in [Apps -> States] /\ inbox \in [Apps -> Seq(Commands)] /\ known \in [Apps -> States \cup {"Null"}]
  BY SupTypesParts DEF AppTypes, UpdateTypes
<1>2. UNCHANGED <<supervised, remaining, commanded, phase>>
  BY DEF ChildBegins, ChildSettles, Poll, mapVars, stepVars
<1>3. ASSUME NEW b \in Apps, b # a
      PROVE  child'[b] = child[b] /\ inbox'[b] = inbox[b] /\ known'[b] = known[b]
  BY <1>1, <1>3 DEF ChildBegins, ChildSettles, Poll, appVars, updateVars
<1>4. ASSUME NEW s \in ReadyStates, Rests(a, s)
      PROVE  Rests(a, s)'
  <2>1. ~ChildBegins(a) /\ ~ChildSettles(a)
    BY <1>4, CommandTable DEF Rests, ChildBegins, ChildSettles
  <2>2. known'[a] = s /\ child'[a] = s /\ inbox'[a] = <<>>
    BY <1>1, <1>4, <2>1 DEF Poll, Rests, appVars
  <2> QED
    BY <2>2 DEF Rests, Believed
<1>5. ASSUME NEW c \in Commands, NEW s \in From(c), UnderWay(a, c, s)
      PROVE  UnderWay(a, c, s)'
  <2>0. /\ Successor(s, c) = Via[c] /\ s \notin TransitionalStates
        /\ Via[c] \in TransitionalStates /\ Settled[Via[c]] = Goal(c) /\ Goal(c) \notin TransitionalStates
        /\ Goal(c) \notin Believed(s) /\ s \in Believed(s) /\ Via[c] # Goal(c)
    <3>1. Successor(s, c) = Via[c] /\ s \notin TransitionalStates /\ Goal(c) \notin Believed(s)
      BY FromFacts
    <3>2. /\ Via[c] \in TransitionalStates /\ Settled[Via[c]] = Goal(c)
          /\ Goal(c) \notin TransitionalStates /\ Via[c] # Goal(c)
      BY CommandTable
    <3>3. s \in Believed(s)
      BY DEF Believed
    <3> QED
      BY <3>1, <3>2, <3>3
  <2>1. CASE ChildBegins(a)
    <3>1. inbox[a] = <<c>> /\ child[a] = s /\ known[a] # Goal(c)
      BY <1>5, <2>0, <2>1 DEF ChildBegins, UnderWay
    <3>2. inbox'[a] = <<>> /\ child'[a] = Via[c] /\ known'[a] = known[a]
      BY <1>1, <2>0, <2>1, <3>1 DEF ChildBegins, updateVars
    <3> QED
      BY <1>5, <3>1, <3>2 DEF UnderWay
  <2>2. CASE ChildSettles(a)
    <3>1. child[a] = Via[c] /\ inbox[a] = <<>>
      BY <1>5, <2>0, <2>2 DEF ChildSettles, UnderWay
    <3>2. inbox'[a] = <<>> /\ child'[a] = Goal(c) /\ known'[a] = known[a]
      BY <1>1, <2>0, <2>2, <3>1 DEF ChildSettles, updateVars
    <3> QED
      BY <1>5, <3>1, <3>2 DEF UnderWay
  <2>3. CASE Poll(a)
    <3>1. known'[a] = child[a] /\ child'[a] = child[a] /\ inbox'[a] = inbox[a]
      BY <1>1, <2>3 DEF Poll, appVars
    <3> QED
      BY <1>5, <2>0, <3>1 DEF UnderWay
  <2> QED
    BY <2>1, <2>2, <2>3
<1>6. ASSUME NEW b \in Apps
      PROVE  /\ \A s \in ReadyStates : Rests(b, s) => Rests(b, s)'
             /\ \A c \in Commands : \A s \in From(c) : UnderWay(b, c, s) => UnderWay(b, c, s)'
  <2>1. CASE b = a
    BY <1>4, <1>5, <2>1
  <2>2. CASE b # a
    BY <1>3, <2>2 DEF Rests, UnderWay
  <2> QED
    BY <2>1, <2>2
<1> QED
  BY <1>2, <1>6 DEF Keeps

(* Steps that do not touch the applications, nor what is known of them.                    *)
LEMMA QuietKeeps ==
  ASSUME UNCHANGED <<child, inbox, known, supervised, remaining, commanded>>,
         phase' \in {phase, AfterUpdate(phase)}
  PROVE  Keeps
  BY DEF Keeps, Rests, UnderWay

(* The machine enters the transition, or leaves it when its job has answered.                *)
LEMMA CourseOfMachine ==
  ASSUME Faultless, SupTypes, FaultlessInv, MachineSteps
  PROVE  CourseInv'
<1>0. Keeps
  BY QuietKeeps DEF MachineSteps, appVars, mapVars, updateVars, stepVars
<1>1. \A s \in ReadyStates : Together(s) => Together(s)'
  BY <1>0, KeptTogether
<1>2. CASE BeginTransition
  <2>1. UNCHANGED <<state, pc>>
    BY <1>2 DEF BeginTransition
  <2>2. state \in TransitionalStates => jobs' = jobs
    <3>1. WorkLoopInv /\ events # <<>>
      BY <1>2, SupTypesParts DEF BeginTransition
    <3>2. state \in States /\ Head(events) \in Events
      BY <3>1 DEF WorkLoopInv, TypeOK
    <3>3. AcceptsCommand(state, Head(events)) => state \in SteadyStates
      BY <3>2, SuccessorType
    <3> QED
      BY <1>2, <3>3, Disjointness DEF BeginTransition, TransitionDriver
  <2> QED
    BY <1>0, <2>1, <2>2, KeptCourse DEF FaultlessInv
<1>3. CASE EndTransition
  <2>1. target # None /\ state' = target /\ UNCHANGED <<jobs, pc>>
    BY <1>3 DEF EndTransition, jobVars
  <2>2. Settling \/ \E c \in Commands : Accepted(c)
    BY <2>1 DEF FaultlessInv, PatientInv, AtRest, Answered, InStage, Asked, Entered
  <2>3. ASSUME NEW c \in Commands, Accepted(c)
        PROVE  CourseInv'
    <3>1. /\ state \in From(c) /\ state' = Via[c] /\ Together(state)
          /\ pc' # "acting" /\ ~(jobs' = <<>> /\ pc' # "waiting")
      BY <2>1, <2>3, FromFacts DEF FaultlessInv, MachineInv, CourseInv, Accepted, Work
    <3>2. \E s \in From(c) : Together(s)'
      BY <1>1, <3>1, FromFacts
    <3>3. state' \notin ReadyStates /\ \A d \in Commands : state' = Via[d] => d = c
      BY <3>1, CommandTable
    <3> QED
      BY <3>1, <3>2, <3>3 DEF CourseInv
  <2>4. CASE Settling
    <3>1. state \in TransitionalStates /\ target = Settled[state] /\ jobs = <<>> /\ pc \in {"idle", "leaving"}
      BY <2>4 DEF FaultlessInv, MachineInv, Settling, NoWork
    <3>2. PICK c \in Commands : state = Via[c]
      BY <3>1, CommandTable
    <3>3. Together(Goal(c)) /\ state' = Goal(c) /\ Goal(c) \in ReadyStates
      BY <2>1, <3>1, <3>2, CommandTable DEF FaultlessInv, CourseInv
    <3>4. Together(Goal(c))' /\ \A d \in Commands : state' # Via[d]
      BY <1>1, <3>3, CommandTable
    <3> QED
      BY <3>3, <3>4 DEF CourseInv
  <2> QED
    BY <2>2, <2>3, <2>4
<1> QED
  BY <1>2, <1>3 DEF MachineSteps, StateMachine

(* The sending begins with all applications together where the command found them.          *)
LEMMA SendingBegins ==
  ASSUME Faultless, NEW c \in Commands, NEW s \in From(c), Together(s),
         UNCHANGED <<child, inbox, known>>,
         supervised' = Apps, remaining' = Apps, commanded' = {}, phase' = Sending(Apps)
  PROVE  ActingInv(c, s)'
<1>1. \A a \in Apps : Rests(a, s)'
  BY DEF Together, Rests
<1>2. CASE Apps = {}
  <2>1. phase' = "finishing" /\ remaining' = {} /\ Together(Goal(c))'
    BY <1>2 DEF Sending, Together
  <2> QED
    BY <2>1 DEF ActingInv
<1>3. CASE Apps # {}
  <2>1. phase' = "sending"
    BY <1>3 DEF Sending
  <2>2. InOrder(c, s)'
    BY <1>1, <2>1 DEF InOrder
  <2> QED
    BY <2>1, <2>2 DEF ActingInv
<1> QED
  BY <1>2, <1>3

(* A job enters its action.                                                        *)
LEMMA CourseOfEntry ==
  ASSUME Faultless, SupTypes, FaultlessInv, JobEnters
  PROVE  CourseInv'
<1>1. /\ pc = "waiting" /\ state = Via[job] /\ commanded' = commanded
      /\ UNCHANGED <<child, inbox, known, supervised, state>> /\ pc' = "acting"
  BY DEF JobEnters, LeaveWait, appVars, mapVars, updateVars, fsmVars
<1>2. PICK c \in Commands : c = job
  BY <1>1 DEF SupTypes, WorkLoopInv, TypeOK
<1>3. commanded = {}
  BY <1>1 DEF SupTypes, PhaseInv
<1>4. PICK s \in From(c) : Together(s)
  BY <1>1, <1>2 DEF FaultlessInv, CourseInv
<1>5. state' = Via[c] /\ pc' = "acting" /\ commanded' = {}
  BY <1>1, <1>2, <1>3
<1>6. s \in ReadyStates /\ (s = "Initial" <=> c = "Initialize") /\ c # "Reset"
  BY FromFacts
<1>7. Together(s)'
  BY <1>1, <1>4 DEF Together, Rests
<1>8. CASE c = "Initialize"
  <2>1. phase' = "clearing"
    BY <1>2, <1>8 DEF JobEnters
  <2>2. ActingInv(c, s)'
    BY <1>5, <1>7, <1>8, <2>1 DEF ActingInv
  <2> QED
    BY <1>5, <2>2, NextPhase
<1>9. CASE c # "Initialize"
  <2>1. supervised = Apps /\ supervised' = Apps
    BY <1>1, <1>4, <1>6, <1>9 DEF Together
  <2>2. Targets(c, supervised) = Apps
    BY <1>6, <2>1 DEF Targets
  <2>3. remaining' = Apps
    BY <1>2, <1>9, <2>2 DEF JobEnters
  <2>4. CASE c = "Halt"
    <3>1. phase' = Sending(Apps)
      BY <1>2, <2>2, <2>4 DEF JobEnters
    <3>2. ActingInv(c, s)'
      BY <1>1, <1>4, <1>5, <2>1, <2>3, <3>1, SendingBegins
    <3> QED
      BY <1>5, <3>2, NextPhase
  <2>5. CASE c # "Halt"
    <3>1. phase' = "precondition"
      BY <1>2, <1>6, <1>9, <2>5 DEF JobEnters
    <3>2. ActingInv(c, s)'
      BY <1>5, <1>7, <2>1, <2>3, <3>1 DEF ActingInv
    <3> QED
      BY <1>5, <3>2, NextPhase
  <2> QED
    BY <2>4, <2>5
<1> QED
  BY <1>8, <1>9

(* init() is done while the applications are at rest, and so is what comes before the       *)
(* sending.                                                                    *)
LEMMA CourseOfBeginning ==
  ASSUME Faultless, SupTypes, FaultlessInv,
         \/ ClearApplications \/ (\E a \in Apps : AddApplication(a)) \/ StartTimer
         \/ Proceed \/ NumberIsBooked
  PROVE  CourseInv'
<1>1. /\ phase \in {"clearing", "adding", "precondition", "numbering"}
      /\ UNCHANGED <<child, inbox, known, commanded, state, pc>>
  BY DEF ClearApplications, AddApplication, StartTimer, Proceed, MayProceed, NumberIsBooked, vars, appVars,
         updateVars, stepVars
<1>2. pc = "acting"
  BY <1>1 DEF SupTypes, PhaseInv
<1>3. PICK c \in Commands : state = Via[c] /\ \E s \in From(c) : ActingInv(c, s)
  BY <1>2, PresentPhase
<1>4. PICK s \in From(c) : ActingInv(c, s)
  BY <1>3
<1>5. state' = Via[c] /\ pc' = "acting"
  BY <1>1, <1>2, <1>3
<1>6. s = "Initial" <=> c = "Initialize"
  BY FromFacts
<1>7. Together(s) /\ commanded = {} /\ commanded' = {} /\ \A a \in Apps : Rests(a, s)'
  BY <1>1, <1>4 DEF ActingInv, Together, Rests
<1>8. ActingInv(c, s)'
  <2>1. CASE ClearApplications \/ (\E a \in Apps : AddApplication(a))
    <3>1. phase \in {"clearing", "adding"} /\ phase' = "adding"
      BY <2>1 DEF ClearApplications, AddApplication, stepVars
    <3>2. c = "Initialize"
      BY <1>4, <3>1 DEF ActingInv
    <3>3. Together(s)'
      BY <1>6, <1>7, <3>2 DEF Together
    <3> QED
      BY <1>7, <3>1, <3>2, <3>3 DEF ActingInv
  <2>2. CASE StartTimer
    <3>1. phase' = "precondition" /\ supervised' = Apps /\ remaining' = Apps
      BY <2>2 DEF StartTimer
    <3>2. Together(s)'
      BY <1>7, <3>1 DEF Together
    <3> QED
      BY <1>7, <3>1, <3>2 DEF ActingInv
  <2>3. CASE Proceed \/ NumberIsBooked
    <3>1. phase \in {"precondition", "numbering"} /\ UNCHANGED <<supervised, remaining>>
      BY <2>3 DEF Proceed, MayProceed, NumberIsBooked, mapVars
    <3>2. supervised = Apps /\ remaining = Apps
      BY <1>4, <3>1 DEF ActingInv
    <3>3. phase' \in {"numbering", Sending(Apps)}
      BY <2>3, <3>2 DEF Proceed, NumberIsBooked
    <3>4. CASE phase' = "numbering"
      <4>1. Together(s)'
        BY <1>7, <3>1, <3>2 DEF Together
      <4> QED
        BY <1>7, <3>1, <3>2, <3>4, <4>1 DEF ActingInv
    <3>5. CASE phase' = Sending(Apps)
      BY <1>1, <1>7, <3>1, <3>2, <3>5, SendingBegins
    <3> QED
      BY <3>3, <3>4, <3>5
  <2> QED
    BY <2>1, <2>2, <2>3
<1> QED
  BY <1>5, <1>8, NextPhase

(* The command is sent to the group whose turn it is.                                   *)
LEMMA CourseOfSending ==
  ASSUME Faultless, SupTypes, FaultlessInv, NEW a \in Apps, SendCommand(a)
  PROVE  CourseInv'
<1>1. /\ phase = "sending" /\ UNCHANGED <<child, known, supervised, remaining, state, pc>>
      /\ commanded' = commanded \cup {a}
  BY DEF SendCommand, vars, mapVars, updateVars
<1>2. pc = "acting"
  BY <1>1 DEF SupTypes, PhaseInv
<1>3. PICK c \in Commands : c = job /\ state = Via[c] /\ \E s \in From(c) : ActingInv(c, s)
  BY <1>2, PresentPhase
<1>4. PICK s \in From(c) : ActingInv(c, s)
  BY <1>3
<1>5. InOrder(c, s)
  BY <1>1, <1>4 DEF ActingInv
<1>6. c # "Reset" /\ Goal(c) \notin Believed(s)
  BY FromFacts
<1>7. remaining \subseteq Apps /\ inbox \in [Apps -> Seq(Commands)]
  BY SupTypesParts DEF AppTypes, StepTypes, MapTypes
<1>8. a \in Group(c, remaining) /\ a \in remaining \ commanded
  BY <1>3 DEF SendCommand, Group
<1>9. Group(c, remaining) = {a}
  BY <1>6, <1>7, <1>8, GroupOfOne
<1>10. phase' = "awaiting"
  BY <1>1, <1>3, <1>6, <1>9 DEF SendCommand
<1>11. Rests(a, s) /\ remaining \cap commanded = {}
  BY <1>1, <1>5, <1>8 DEF InOrder
<1>12. CommandFor(c, a) = c
  BY DEF CommandFor, Faultless
<1>13. UnderWay(a, c, s)'
  <2>1. inbox'[a] = <<c>> /\ child'[a] = s /\ known'[a] \in Believed(s)
    BY <1>1, <1>3, <1>7, <1>11, <1>12 DEF SendCommand, Send, Rests
  <2> QED
    BY <1>6, <2>1 DEF UnderWay
<1>14. \A b \in Apps : b # a => \A t : Rests(b, t) => Rests(b, t)'
  BY <1>1, <1>7 DEF SendCommand, Send, Rests
<1>15. InOrder(c, s)'
  <2>1. /\ supervised' = Apps
        /\ \A b \in Apps \ remaining' : b \in commanded' /\ Rests(b, Goal(c))'
    BY <1>1, <1>5, <1>8, <1>14 DEF InOrder
  <2>2. remaining' \cap commanded' = {a}
    BY <1>1, <1>8, <1>11
  <2>3. \A b \in remaining' \ commanded' : Rests(b, s)'
    BY <1>1, <1>5, <1>7, <1>14 DEF InOrder
  <2>4. Group(c, remaining)' = {a}
    BY <1>1, <1>9 DEF Group
  <2>5. \A x \in Apps \ remaining', y \in remaining' : Rank(c, Class[x]) >= Rank(c, Class[y])
    BY <1>1, <1>5 DEF InOrder
  <2> QED
    BY <1>10, <1>13, <2>1, <2>2, <2>3, <2>4, <2>5 DEF InOrder
<1>16. ActingInv(c, s)'
  BY <1>10, <1>15 DEF ActingInv
<1> QED
  BY <1>1, <1>2, <1>3, <1>16, NextPhase

(* A group that is there gives way to the next one.                                     *)
LEMMA CourseOfGroups ==
  ASSUME Faultless, SupTypes, FaultlessInv, NextGroup
  PROVE  CourseInv'
<1>1. /\ phase = "awaiting" /\ UNCHANGED <<child, inbox, known, supervised, commanded, state, pc>>
  BY DEF NextGroup, GroupIsThere, vars, appVars, mapVars, updateVars
<1>2. pc = "acting"
  BY <1>1 DEF SupTypes, PhaseInv
<1>3. PICK c \in Commands : c = job /\ state = Via[c] /\ \E s \in From(c) : ActingInv(c, s)
  BY <1>2, PresentPhase
<1>4. PICK s \in From(c) : ActingInv(c, s)
  BY <1>3
<1>5. InOrder(c, s) /\ remaining \cap commanded = Group(c, remaining)
  BY <1>1, <1>4 DEF ActingInv, InOrder
<1>6. c # "Reset" /\ Goal(c) # s /\ Via[c] # Goal(c) /\ Goal(c) # "Null" /\ Believed(Goal(c)) = {Goal(c)}
  <2>1. c # "Reset" /\ Goal(c) # s /\ Believed(Goal(c)) = {Goal(c)}
    BY FromFacts
  <2>2. Via[c] # Goal(c) /\ Goal(c) # "Null"
    BY CommandTable DEF States
  <2> QED
    BY <2>1, <2>2
<1>7. remaining \subseteq Apps /\ known \in [Apps -> States \cup {"Null"}]
  BY SupTypesParts DEF UpdateTypes, StepTypes, MapTypes
<1>8. CompositeState(Group(c, remaining)) = Goal(c)
  BY <1>3 DEF NextGroup, GroupIsThere
<1>9. Group(c, remaining) # {}
  <2> SUFFICES ASSUME Group(c, remaining) = {} PROVE FALSE
    OBVIOUS
  <2>1. Dominant({}) = "Null"
    BY DominantFacts
  <2>2. {known[a] : a \in Group(c, remaining)} = {}
    OBVIOUS
  <2> QED
    BY <1>6, <1>8, <2>1, <2>2 DEF CompositeState
<1>10. PICK a : a \in Group(c, remaining)
  BY <1>9
<1>11. Group(c, remaining) = {a} /\ a \in remaining /\ a \in Apps /\ a \in commanded
  BY <1>5, <1>6, <1>7, <1>10, GroupOfOne
<1>12. known[a] = Goal(c)
  <2>1. {known[b] : b \in Group(c, remaining)} = {known[a]}
    BY <1>11
  <2> QED
    BY <1>7, <1>8, <1>11, <2>1, DominantOfOne DEF CompositeState
<1>13. Rests(a, Goal(c))
  <2>1. UnderWay(a, c, s)
    BY <1>5, <1>11 DEF InOrder
  <2>2. child[a] = Goal(c) /\ inbox[a] = <<>>
    BY <1>6, <1>12, <2>1 DEF UnderWay
  <2> QED
    BY <1>6, <1>12, <2>2 DEF Rests
<1>14. remaining' = remaining \ {a} /\ phase' = Sending(remaining')
  BY <1>3, <1>11 DEF NextGroup
<1>15. \A b, t : Rests(b, t) => Rests(b, t)'
  BY <1>1 DEF Rests
<1>16. \A b \in Apps \ remaining' : b \in commanded' /\ Rests(b, Goal(c))'
  BY <1>1, <1>5, <1>11, <1>13, <1>14, <1>15 DEF InOrder
<1>17. supervised' = Apps
  BY <1>1, <1>5 DEF InOrder
<1>18. CASE remaining' = {}
  <2>1. phase' = "finishing" /\ Together(Goal(c))'
    BY <1>14, <1>16, <1>17, <1>18 DEF Sending, Together
  <2>2. ActingInv(c, s)'
    BY <1>18, <2>1 DEF ActingInv
  <2> QED
    BY <1>1, <1>2, <1>3, <2>2, NextPhase
<1>19. CASE remaining' # {}
  <2>1. phase' = "sending"
    BY <1>14, <1>19 DEF Sending
  <2>2. remaining' \cap commanded' = {}
    BY <1>1, <1>5, <1>11, <1>14
  <2>3. \A b \in remaining' \ commanded' : Rests(b, s)'
    BY <1>1, <1>5, <1>14, <1>15 DEF InOrder
  <2>4. \A x \in Apps \ remaining', y \in remaining' : Rank(c, Class[x]) >= Rank(c, Class[y])
    <3>1. \A y \in remaining : Rank(c, Class[a]) >= Rank(c, Class[y])
      BY <1>10 DEF Group
    <3>2. \A x \in Apps \ remaining, y \in remaining : Rank(c, Class[x]) >= Rank(c, Class[y])
      BY <1>5 DEF InOrder
    <3> QED
      BY <1>11, <1>14, <3>1, <3>2
  <2>5. InOrder(c, s)'
    BY <1>16, <1>17, <2>1, <2>2, <2>3, <2>4 DEF InOrder
  <2>6. ActingInv(c, s)'
    BY <2>1, <2>5 DEF ActingInv
  <2> QED
    BY <1>1, <1>2, <1>3, <2>6, NextPhase
<1> QED
  BY <1>18, <1>19

(* A job that is done leaves the applications together where it was to take them.           *)
LEMMA CourseOfReturn ==
  ASSUME Faultless, SupTypes, FaultlessInv, LeaveAction
  PROVE  CourseInv'
<1>1. /\ phase \in {"done", "thrown"} /\ pc = "acting" /\ pc' \in {"returning", "leaving"}
      /\ UNCHANGED <<child, inbox, known, supervised, state, jobs>>
  BY DEF LeaveAction, ActionReturns, ActionThrows, fsmVars, appVars, mapVars, updateVars
<1>2. jobs = <<>>
  BY <1>1, ActingFacts DEF FaultlessInv
<1>3. PICK c \in Commands : state = Via[c] /\ \E s \in From(c) : ActingInv(c, s)
  BY <1>1, PresentPhase
<1>4. PICK s \in From(c) : ActingInv(c, s)
  BY <1>3
<1>5. Together(Goal(c))
  BY <1>1, <1>4 DEF ActingInv
<1>6. Together(Goal(c))'
  BY <1>1, <1>5 DEF Together, Rests
<1>7. state' = Via[c] /\ state' \notin ReadyStates /\ \A d \in Commands : state' = Via[d] => d = c
  BY <1>1, <1>3, CommandTable
<1>8. /\ jobs' = <<>> /\ pc' # "waiting" /\ pc' # "acting"
  BY <1>1, <1>2
<1>9. \A d \in Commands : state' = Via[d] => Together(Goal(d))'
  BY <1>6, <1>7
<1> QED
  BY <1>7, <1>8, <1>9 DEF CourseInv

(* Every step keeps the course.                                                     *)
LEMMA NextCourse ==
  ASSUME Faultless, SupTypes, FaultlessInv, SupNext
  PROVE  CourseInv'
<1>1. ASSUME NEW c \in Commands, OperatorCommands(c)
      PROVE  CourseInv'
  <2>1. Keeps
    BY <1>1, QuietKeeps DEF OperatorCommands, appVars, mapVars, updateVars, stepVars
  <2> QED
    BY <1>1, <2>1, KeptCourse DEF FaultlessInv, OperatorCommands, ReceiveCommand, fsmVars, jobVars
<1>2. ASSUME TimerExpires \/ JobUpdates \/ Compose \/ StateNameIsOverwritten \/ Announce
      PROVE  CourseInv'
  <2>1. /\ UNCHANGED <<child, inbox, known, supervised, remaining, commanded>>
        /\ phase' \in {phase, AfterUpdate(phase)}
    BY <1>2 DEF TimerExpires, JobUpdates, Compose, StateNameIsOverwritten, Announce, Release, appVars,
                mapVars, stepVars
  <2>2. UNCHANGED <<state, pc, jobs>>
    BY <1>2 DEF TimerExpires, JobUpdates, Compose, StateNameIsOverwritten, Announce, vars, fsmVars, jobVars
  <2>3. Keeps
    BY <2>1, QuietKeeps
  <2> QED
    BY <2>2, <2>3, KeptCourse DEF FaultlessInv
<1>3. ASSUME NEW a \in Apps, ChildBegins(a) \/ ChildSettles(a) \/ Poll(a)
      PROVE  CourseInv'
  <2>1. Keeps
    BY <1>3, AppsKeep
  <2>2. UNCHANGED <<state, pc, jobs>>
    BY <1>3 DEF ChildBegins, ChildSettles, Poll, vars
  <2> QED
    BY <2>1, <2>2, KeptCourse DEF FaultlessInv
<1>4. ASSUME JobFrame
      PROVE  CourseInv'
  <2>1. Keeps
    BY <1>4, QuietKeeps DEF JobFrame, appVars, mapVars, updateVars, stepVars
  <2>2. /\ UNCHANGED state /\ pc # "acting" /\ pc' # "acting"
        /\ (jobs = <<>> /\ pc # "waiting") <=> (jobs' = <<>> /\ pc' # "waiting")
    BY <1>4 DEF JobFrame, BeginJob, Confirm, EndJob, fsmVars
  <2> QED
    BY <2>1, <2>2, KeptOutside DEF FaultlessInv
<1>5. ~Faults
  BY MovesAreCalm
<1> QED
  BY <1>1, <1>2, <1>3, <1>4, <1>5, CourseOfMachine, CourseOfEntry, CourseOfBeginning, CourseOfSending,
     CourseOfGroups, CourseOfReturn DEF SupNext, ChildSteps, UpdateSteps, JobSteps

(* No application is believed to have failed.                                          *)
LEMMA NoneHasFailed ==
  ASSUME Faultless, SupTypes, FaultlessInv, NEW a \in Apps
  PROVE  known[a] # "Error"
<1>1. /\ \A s \in ReadyStates : Believed(s) \subseteq ReadyStates \cup {"Null"}
      /\ \A c \in Commands : Via[c] # "Error" /\ Goal(c) # "Error"
      /\ "Error" \notin ReadyStates
  <2>1. \A s \in ReadyStates : Believed(s) \subseteq ReadyStates \cup {"Null"}
    BY DEF Believed, ReadyStates
  <2>2. ASSUME NEW c \in Commands
        PROVE  Via[c] # "Error" /\ Goal(c) # "Error"
    <3>1. Via[c] \in TransitionalStates /\ Goal(c) \in ReadyStates
      BY CommandTable
    <3>2. "Error" \notin TransitionalStates /\ "Error" \notin ReadyStates
      BY CommandTable
    <3> QED
      BY <3>1, <3>2
  <2> QED
    BY <2>1, <2>2, CommandTable
<1>2. ASSUME NEW s \in ReadyStates, Rests(a, s)
      PROVE  known[a] # "Error"
  BY <1>1, <1>2 DEF Rests
<1>3. ASSUME NEW s \in ReadyStates, Together(s)
      PROVE  known[a] # "Error"
  BY <1>2, <1>3 DEF Together
<1>4. ASSUME NEW c \in Commands, NEW s \in From(c), ActingInv(c, s)
      PROVE  known[a] # "Error"
  <2>0. s \in ReadyStates /\ Goal(c) \in ReadyStates
    BY FromFacts, CommandTable
  <2>1. CASE Together(s) \/ Together(Goal(c))
    BY <1>3, <2>0, <2>1
  <2>2. CASE InOrder(c, s)
    <3>1. Rests(a, Goal(c)) \/ UnderWay(a, c, s) \/ Rests(a, s)
      BY <2>2 DEF InOrder
    <3>2. UnderWay(a, c, s) => known[a] # "Error"
      BY <1>1, <2>0 DEF UnderWay
    <3> QED
      BY <1>2, <2>0, <3>1, <3>2
  <2> QED
    BY <1>4, <2>1, <2>2 DEF ActingInv
<1>5. state \in ReadyStates \/ \E c \in Commands : state = Via[c]
  <2>1. state \in States /\ state # "Error"
    BY DEF SupTypes, WorkLoopInv, TypeOK, FaultlessInv, MachineInv
  <2> QED
    BY <2>1, CommandTable, Disjointness
<1>6. CASE state \in ReadyStates
  BY <1>3, <1>6 DEF FaultlessInv, CourseInv
<1>7. ASSUME NEW c \in Commands, state = Via[c]
      PROVE  known[a] # "Error"
  <2>1. Together(Goal(c)) \/ \E s \in From(c) : ActingInv(c, s) \/ Together(s)
    BY <1>7 DEF FaultlessInv, CourseInv
  <2>2. Goal(c) \in ReadyStates /\ \A s \in From(c) : s \in ReadyStates
    BY FromFacts, CommandTable
  <2> QED
    BY <1>3, <1>4, <2>1, <2>2
<1> QED
  BY <1>5, <1>6, <1>7

(* So none is reported.                                                           *)
LEMMA NextNoError ==
  ASSUME Faultless, SupTypes, FaultlessInv, SupNext
  PROVE  NoErrorInv'
<1>0. /\ state \in States /\ state # "Error" /\ global # "Error" /\ stateName # "Error"
      /\ known \in [Apps -> States \cup {"Null"}] /\ watched \subseteq Apps
  BY SupTypesParts DEF WorkLoopInv, TypeOK, FaultlessInv, MachineInv, NoErrorInv, UpdateTypes, MapTypes
<1>1. CASE UNCHANGED <<global, stateName>>
  BY <1>0, <1>1 DEF NoErrorInv
<1>2. CASE UNCHANGED updateVars \/ TimerExpires \/ JobUpdates \/ \E a \in Apps : Poll(a) \/ PollFails(a)
  BY <1>1, <1>2 DEF updateVars, TimerExpires, JobUpdates, Poll, PollFails
<1>3. CASE Compose
  <2>1. Shown \subseteq States \cup {"Null"}
    BY <1>0 DEF Shown
  <2>2. "Error" \notin Shown
    BY <1>0, NoneHasFailed DEF Shown
  <2>3. global' # "Error"
    BY <1>0, <1>3, <2>1, <2>2, GlobalFacts DEF Compose
  <2>4. stateName' = stateName \/ stateName' = global'
    BY <1>3 DEF Compose
  <2> QED
    BY <1>0, <2>3, <2>4 DEF NoErrorInv
<1>4. CASE StateNameIsOverwritten
  BY <1>0, <1>4 DEF StateNameIsOverwritten, NoErrorInv
<1>5. CASE Announce
  BY <1>0, <1>5 DEF Announce, NoErrorInv, None
<1> QED
  BY <1>2, <1>3, <1>4, <1>5, UpdatesMove

(* The invariant holds at first, and every step keeps it.                                *)
LEMMA InitFaultless ==
  ASSUME Faultless, SupInit
  PROVE  FaultlessInv
<1>1. PatientInv
  BY InitPatientInv DEF SupInit
<1>2. MachineInv
  BY TransitionTable DEF SupInit, Init, MachineInv, None
<1>3. NoErrorInv
  BY DEF SupInit, NoErrorInv, None
<1>4. CourseInv
  <2>1. state = "Initial" /\ Together("Initial")
    BY DEF SupInit, Init, Faultless, Together, Rests, Believed
  <2>2. \A c \in Commands : Via[c] # "Initial"
    BY CommandTable DEF ReadyStates
  <2> QED
    BY <2>1, <2>2 DEF CourseInv
<1> QED
  BY <1>1, <1>2, <1>3, <1>4 DEF FaultlessInv

(* Each step keeps it: the machine by the argument about any application with a patient     *)
(* client, the rest by the course.                                              *)
LEMMA NextFaultless ==
  ASSUME Faultless, SupTypes, FaultlessInv, [SupNext]_supVars
  PROVE  FaultlessInv'
<1>1. CASE SupNext
  <2>1. CalmMove /\ [Next]_vars
    BY <1>1, MovesAreCalm
  <2>2. PatientInv'
    BY <2>1, NextPatientInv DEF Faultless, SupTypes, FaultlessInv
  <2>3. MachineInv'
    BY <2>1, NextMachine DEF FaultlessInv
  <2> QED
    BY <1>1, <2>2, <2>3, NextCourse, NextNoError DEF FaultlessInv
<1>2. CASE UNCHANGED supVars
  <2>1. UNCHANGED vars /\ CalmMove
    BY <1>2 DEF supVars, CalmMove
  <2>2. PatientInv'
    BY <2>1, NextPatientInv DEF Faultless, SupTypes, FaultlessInv
  <2>3. MachineInv'
    BY <2>1, NextMachine DEF FaultlessInv
  <2>4. NoErrorInv'
    BY <1>2 DEF supVars, updateVars, FaultlessInv, NoErrorInv
  <2>5. Keeps
    BY <1>2, QuietKeeps DEF supVars, appVars, mapVars, updateVars, stepVars
  <2>6. CourseInv'
    BY <2>1, <2>5, KeptCourse DEF FaultlessInv, vars
  <2> QED
    BY <2>2, <2>3, <2>4, <2>6 DEF FaultlessInv
<1> QED
  BY <1>1, <1>2

(* What the invariant says of the order and of the commands.                             *)
LEMMA FaultlessOrder ==
  ASSUME Faultless, SupTypes, FaultlessInv
  PROVE  OrderRespected
<1> SUFFICES ASSUME pc = "acting", NEW a \in commanded, NEW b \in supervised,
                    Rank(job, Class[b]) > Rank(job, Class[a])
             PROVE  child[b] = Goal(job)
  BY DEF OrderRespected
<1>1. PICK c \in Commands : c = job /\ \E s \in From(c) : ActingInv(c, s)
  BY PresentPhase
<1>2. PICK s \in From(c) : ActingInv(c, s)
  BY <1>1
<1>3. a \in Apps /\ b \in Apps
  BY SupTypesParts DEF StepTypes, MapTypes
<1>4. /\ Rank(c, Class[a]) \in Nat /\ Rank(c, Class[b]) \in Nat
      /\ ~(Rank(c, Class[a]) >= Rank(c, Class[b]))
  BY <1>1, <1>3, RankType
<1>5. CASE InOrder(c, s) /\ phase \in {"sending", "awaiting"}
  <2>1. b \notin remaining
    <3> SUFFICES ASSUME b \in remaining PROVE FALSE
      OBVIOUS
    <3>1. a \in remaining
      BY <1>3, <1>4, <1>5 DEF InOrder
    <3>2. a \in Group(c, remaining)
      BY <1>5, <3>1 DEF InOrder
    <3> QED
      BY <1>4, <3>2 DEF Group
  <2> QED
    BY <1>1, <1>3, <1>5, <2>1 DEF InOrder, Rests
<1>6. CASE Together(Goal(c))
  BY <1>1, <1>3, <1>6 DEF Together, Rests
<1> QED
  BY <1>2, <1>5, <1>6 DEF ActingInv

(* An application has a command in its inbox only while it is under way, still where the    *)
(* operator gave the command.                                                   *)
LEMMA FaultlessWelcome ==
  ASSUME Faultless, SupTypes, FaultlessInv
  PROVE  CommandsAreWelcome
<1> SUFFICES ASSUME NEW a \in Apps, inbox[a] # <<>>
             PROVE  Len(inbox[a]) = 1 /\ AcceptsCommand(child[a], Head(inbox[a]))
  BY DEF CommandsAreWelcome
<1>1. ASSUME NEW s, Together(s) PROVE FALSE
  BY <1>1 DEF Together, Rests
<1>2. state \in ReadyStates \/ \E c \in Commands : state = Via[c]
  <2>1. state \in States /\ state # "Error"
    BY DEF SupTypes, WorkLoopInv, TypeOK, FaultlessInv, MachineInv
  <2> QED
    BY <2>1, CommandTable, Disjointness
<1>3. PICK c \in Commands : \E s \in From(c) : ActingInv(c, s)
  BY <1>1, <1>2 DEF FaultlessInv, CourseInv
<1>4. PICK s \in From(c) : ActingInv(c, s)
  BY <1>3
<1>5. InOrder(c, s)
  BY <1>1, <1>4 DEF ActingInv
<1>6. child[a] = s /\ inbox[a] = <<c>>
  BY <1>5 DEF InOrder, UnderWay, Rests
<1>7. s \in Sources[c]
  BY FromFacts
<1> QED
  BY <1>6, <1>7 DEF AcceptsCommand

(* The invariant in every state of every behaviour.                                    *)
LEMMA FaultlessInvariant ==
  ASSUME Faultless
  PROVE  SupSpec => [](SupTypes /\ FaultlessInv)
<1>1. SupInit => SupTypes /\ FaultlessInv
  BY InitSupTypes, InitFaultless
<1>2. SupTypes /\ FaultlessInv /\ [SupNext]_supVars => (SupTypes /\ FaultlessInv)'
  BY NextSupTypes, NextFaultless
<1> QED
  BY <1>1, <1>2, PTL DEF SupSpec

(* For any number of applications in any order of priorities: when an application has been   *)
(* sent the command of the running job, all those of a higher priority have arrived.         *)
THEOREM OrderIsAlwaysRespected ==
  ASSUME Faultless
  PROVE  SupSpec => []OrderRespected
<1>1. SupTypes /\ FaultlessInv => OrderRespected
  BY FaultlessOrder
<1> QED
  BY <1>1, FaultlessInvariant, PTL

(* And no application is ever sent a command it would refuse, nor a second one before it     *)
(* has taken the first.                                                          *)
THEOREM CommandsAreAlwaysWelcome ==
  ASSUME Faultless
  PROVE  SupSpec => []CommandsAreWelcome
<1>1. SupTypes /\ FaultlessInv => CommandsAreWelcome
  BY FaultlessWelcome
<1> QED
  BY <1>1, FaultlessInvariant, PTL

(* In particular all applications run when the supervisor says so, and all are paused.      *)
THEOREM TogetherWithoutFaults ==
  ASSUME Faultless
  PROVE  SupSpec => []RunningTogether
<1>1. SupTypes /\ FaultlessInv => RunningTogether
  <2> SUFFICES ASSUME SupTypes, FaultlessInv, state \in {"Running", "Paused"}, NEW a \in supervised
               PROVE  child[a] = state /\ inbox[a] = <<>>
    BY DEF RunningTogether
  <2>1. a \in Apps /\ state \in ReadyStates
    BY SupTypesParts DEF MapTypes, ReadyStates
  <2>2. Together(state)
    BY <2>1 DEF FaultlessInv, CourseInv
  <2> QED
    BY <2>1, <2>2 DEF Together, Rests
<1> QED
  BY <1>1, FaultlessInvariant, PTL
=============================================================================
