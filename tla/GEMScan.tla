-------------------------------- MODULE GEMScan --------------------------------
(***************************************************************************)
(* A latency or threshold scan, from Start to the Stop that ends it.          *)
(*                                                                          *)
(* Four parties carry it, and each keeps its own idea of the scan point:       *)
(*   - AMC13Manager counts triggers; its timer calls the supervisor's           *)
(*     EndScanPoint when the point has enough of them and waits for the reply;  *)
(*   - GEMSupervisor::EndScanPoint, in the thread of that SOAP call, drives the  *)
(*     supervisor's machine through Pause and Resume, or fires Stop;            *)
(*   - GLIBManager writes the point to every card's run parameter, with which   *)
(*     the card labels the events it builds;                                  *)
(*   - OptoHybridManager writes the point to the VFATs, which take the data.    *)
(* The supervisor is the one of GEMSupervisor, seen from here as a job that      *)
(* takes one manager after the other, by Rank, through a transition; managers    *)
(* are named by their class.  Triggers come from the AMC13 itself or from the     *)
(* TCDS (PIController), which is not part of the repository.                   *)
(***************************************************************************)
EXTENDS GEMTransitionOrder, Sequences

CONSTANTS
  Cards,          (* the AMCs, each with the OptoHybrid on its link                *)
  Scans,          (* the scans that may be asked for: records of min, max, step    *)
  NTriggers,      (* m_nScanTriggers                                              *)
  RegisterSize,   (* a VFAT register and a run parameter hold a uint8_t            *)
  WordSize,       (* the supervisor computes in uint32_t                          *)
  Operator,       (* the commands the operator gives                              *)
  MaxCommands,    (* bounds the operator's commands                               *)
  MaxSeen,        (* bounds the triggers of a point                               *)
  MaxBacklog,     (* bounds the events a card has still to build                   *)
  MaxQueue,       (* bounds the events that wait when the timer expires            *)
  MaxFaults       (* bounds the cards that stop answering                          *)

ASSUME ScansFit ==
  \A s \in Scans : /\ {s.min, s.max, s.step} \subseteq Nat
                   /\ s.step > 0
                   /\ s.min + s.step < WordSize
                   /\ s.max + s.step < WordSize
ASSUME SizesFit == RegisterSize \in Nat \ {0} /\ WordSize \in Nat
ASSUME OperatorCommands == Operator \subseteq {"Start", "Pause", "Resume", "Stop"}
ASSUME TriggersFit == {NTriggers, MaxSeen} \subseteq Nat /\ 0 < NTriggers /\ NTriggers <= MaxSeen

None == "none"

(* No value of a register: what the VFATs hold before the scan has set them. *)
Unset == RegisterSize

Managers == {"PIController", "AMC13Manager", "GLIBManager", "OptoHybridManager"}

VARIABLES
  scan,           (* the ScanInfo that was sent to all of them                     *)
  local,          (* m_enableLocalL1A: the AMC13 makes the triggers                *)
  state,          (* the supervisor's machine                                     *)
  events,         (* and its event queue                                          *)
  jobs,           (* and its workloop                                             *)
  job,            (* the transition the job is busy with                          *)
  acting,         (* the job has passed its waiting loops                         *)
  remaining,      (* the managers the job has still to take through it            *)
  gone,           (* the cards the manager whose turn it is has dealt with         *)
  failed,         (* the managers in Error                                        *)
  endpoint,       (* the timer's thread and, called from it, EndScanPoint          *)
  updated,        (* updatedParameter                                             *)
  scanParameter,  (* m_scanParameter of the supervisor                            *)
  timing,         (* the AMC13 manager's timer is active                          *)
  seen,           (* the L1A count less m_updatedL1ACount                          *)
  firing,         (* which trigger sources are on                                 *)
  last,           (* m_lastLatency or m_lastVT1 of GLIB and OptoHybrid manager     *)
  accepting,      (* the cards with L1A enabled                                   *)
  taking,         (* the cards whose VFATs are in run mode                         *)
  runParam,       (* the run parameter of each card                               *)
  frontEnd,       (* the scanned register of the VFATs of each card                *)
  fifo,           (* the front-end values of the events a card has not built yet   *)
  made,           (* how many events a card has built since its label changed      *)
  commands,       (* how many commands the operator gave                          *)
  faults          (* how many cards went away                                      *)

machineVars == <<state, events, jobs, job, acting, remaining, gone, failed>>
pointVars   == <<endpoint, updated, scanParameter>>
amc13Vars   == <<timing, seen, firing>>
cardVars    == <<last, accepting, taking, runParam, frontEnd, fifo, made>>
outerVars   == <<scan, local, commands, faults>>
scanVars    == <<machineVars, pointVars, amc13Vars, cardVars, outerVars>>

Registers == 0..(RegisterSize - 1)

ScanTypeOK ==
  /\ scan \in Scans
  /\ state \in States
  /\ events \in Seq(Events)
  /\ jobs \in Seq(Commands)
  /\ job \in Commands \cup {None}
  /\ acting \in BOOLEAN
  /\ remaining \subseteq Managers
  /\ gone \subseteq Cards
  /\ failed \subseteq Managers
  /\ endpoint \in {"idle", "reached", "pausing", "resuming", "returning"}
  /\ {updated, scanParameter} \subseteq 0..(WordSize - 1)
  /\ seen \in 0..MaxSeen
  /\ firing \subseteq {"AMC13", "TCDS"}
  /\ DOMAIN last = {"GLIBManager", "OptoHybridManager"}
  /\ accepting \subseteq Cards /\ taking \subseteq Cards
  /\ runParam \in [Cards -> Registers]
  /\ frontEnd \in [Cards -> Registers \cup {Unset}]
  /\ fifo \in [Cards -> Seq(Registers \cup {Unset})]

(* What Configure leaves: the run parameter holds the first point, the VFATs hold  *)
(* what they held before, as the call that would set them is commented out.       *)
GLIBConfigured == [c \in Cards |-> scan.min % RegisterSize]

OptoHybridConfigured == [c \in Cards |-> Unset]

ScanInit ==
  /\ scan \in Scans
  /\ local \in BOOLEAN
  /\ state = "Configured"
  /\ events = <<>> /\ jobs = <<>> /\ job = None /\ acting = FALSE
  /\ remaining = {} /\ gone = {} /\ failed = {}
  /\ endpoint = "idle" /\ updated = 0 /\ scanParameter = 0
  /\ timing = FALSE /\ seen = 0 /\ firing = {}
  /\ last = [m \in {"GLIBManager", "OptoHybridManager"} |-> 0]
  /\ accepting = {} /\ taking = {}
  /\ runParam = GLIBConfigured
  /\ frontEnd = OptoHybridConfigured
  /\ fifo = [c \in Cards |-> <<>>]
  /\ made = [c \in Cards |-> 0]
  /\ commands = 0 /\ faults = 0

-----------------------------------------------------------------------------
(* The supervisor's machine. *)

(* The operator looks before he clicks. *)
OperatorCommand(c) ==
  /\ commands < MaxCommands
  /\ c \in Operator
  /\ events = <<>>
  /\ state \in Sources[c] \cap (IF c = "Stop" THEN {"Running", "Paused"} ELSE States)
  /\ events' = <<c>>
  /\ commands' = commands + 1
  /\ UNCHANGED <<state, jobs, job, acting, remaining, gone, failed, pointVars,
                 amc13Vars, cardVars, scan, local, faults>>

HandleEvent ==
  /\ events # <<>>
  /\ state' = Successor(state, Head(events))
  /\ events' = Tail(events)
  /\ jobs' = IF AcceptsCommand(state, Head(events))
             THEN Append(jobs, Head(events)) ELSE jobs
  /\ UNCHANGED <<job, acting, remaining, gone, failed, pointVars, amc13Vars,
                 cardVars, outerVars>>

BeginJob ==
  /\ job = None
  /\ jobs # <<>>
  /\ job' = Head(jobs)
  /\ jobs' = Tail(jobs)
  /\ UNCHANGED <<state, events, acting, remaining, gone, failed, pointVars,
                 amc13Vars, cardVars, outerVars>>

(* A Stop that was accepted in Configured waits for a run for ever. *)
MayAct == \/ job \in {"Start", "Pause", "Resume"}
          \/ job = "Stop" /\ firing \cup accepting # {}

(* startAction() sets the parameter before it takes the managers along. *)
EnterAction ==
  /\ job # None
  /\ ~acting
  /\ state = Via[job]
  /\ failed = {}
  /\ MayAct
  /\ acting' = TRUE
  /\ remaining' = Managers
  /\ scanParameter' = IF job = "Start" THEN scan.min ELSE scanParameter
  /\ UNCHANGED <<state, events, jobs, job, gone, failed, endpoint, updated,
                 amc13Vars, cardVars, outerVars>>

LeaveAction ==
  /\ acting
  /\ remaining = {}
  /\ events' = Append(events, Confirmation[Via[job]])
  /\ acting' = FALSE
  /\ job' = None
  /\ UNCHANGED <<state, jobs, remaining, gone, failed, pointVars, amc13Vars,
                 cardVars, outerVars>>

(* globalStateChanged(): a manager in Error takes the supervisor along. *)
ErrorIsSeen ==
  /\ failed # {}
  /\ state # "Error"
  /\ events = <<>>
  /\ events' = <<"Fail">>
  /\ UNCHANGED <<state, jobs, job, acting, remaining, gone, failed, pointVars,
                 amc13Vars, cardVars, outerVars>>

-----------------------------------------------------------------------------
(* The managers, each at its turn. *)

Turn(m, c) ==
  /\ acting
  /\ job = c
  /\ m \in remaining \ failed
  /\ \A n \in remaining : Rank(job, m) >= Rank(job, n)

Through(m) ==
  /\ remaining' = remaining \ {m}
  /\ UNCHANGED <<state, events, jobs, job, acting, failed>>

TCDSTurns ==
  /\ \E c \in {"Start", "Pause", "Resume", "Stop"} :
       /\ Turn("PIController", c)
       /\ firing' = IF ~local /\ c \in {"Start", "Resume"} THEN firing \cup {"TCDS"}
                    ELSE firing \ {"TCDS"}
  /\ Through("PIController")
  /\ UNCHANGED <<gone, pointVars, timing, seen, cardVars, outerVars>>

(* AMC13Manager::startAction *)
AMC13Starts ==
  /\ Turn("AMC13Manager", "Start")
  /\ seen' = 0
  /\ firing' = IF local THEN firing \cup {"AMC13"} ELSE firing
  /\ timing' = TRUE
  /\ Through("AMC13Manager")
  /\ UNCHANGED <<gone, pointVars, cardVars, outerVars>>

AMC13PausesUncounted ==        (* fault: m_updatedL1ACount is not brought up to date *)
  /\ Turn("AMC13Manager", "Pause")
  /\ firing' = firing \ {"AMC13"}
  /\ Through("AMC13Manager")
  /\ UNCHANGED <<gone, pointVars, timing, seen, cardVars, outerVars>>

AMC13Pauses ==
  /\ Turn("AMC13Manager", "Pause")
  /\ seen' = 0
  /\ firing' = firing \ {"AMC13"}
  /\ Through("AMC13Manager")
  /\ UNCHANGED <<gone, pointVars, timing, cardVars, outerVars>>

AMC13ResumesSilently ==        (* fault: the local triggers are not started again *)
  /\ Turn("AMC13Manager", "Resume")
  /\ Through("AMC13Manager")
  /\ UNCHANGED <<gone, pointVars, amc13Vars, cardVars, outerVars>>

AMC13Resumes ==
  /\ Turn("AMC13Manager", "Resume")
  /\ firing' = IF local THEN firing \cup {"AMC13"} ELSE firing
  /\ Through("AMC13Manager")
  /\ UNCHANGED <<gone, pointVars, timing, seen, cardVars, outerVars>>

AMC13Stops ==
  /\ Turn("AMC13Manager", "Stop")
  /\ timing' = FALSE
  /\ firing' = firing \ {"AMC13"}
  /\ Through("AMC13Manager")
  /\ UNCHANGED <<gone, pointVars, seen, cardVars, outerVars>>

(* The loop over the slots, of which the last one ends the action of m.  The      *)
(* member is brought forward before the loop by Start, after it by Pause.        *)
Loop(m, c) ==
  /\ c \notin gone
  /\ IF gone \cup {c} = Cards
     THEN gone' = {} /\ Through(m)
     ELSE /\ gone' = gone \cup {c}
          /\ UNCHANGED <<state, events, jobs, job, acting, remaining, failed>>

MemberAfter(m) ==
  CASE job = "Start"                    -> [last EXCEPT ![m] = scan.min]
    [] job = "Pause" /\ remaining' # remaining
                                        -> [last EXCEPT ![m] = last[m] + scan.step]
    [] OTHER                            -> last

NextPointUncut(m) ==           (* fault: the value is not cut to the register *)
  last[m] + scan.step

NextPoint(m) == (last[m] + scan.step) % RegisterSize

GLIBStarts(c) ==
  /\ Turn("GLIBManager", "Start")
  /\ Loop("GLIBManager", c)
  /\ last' = MemberAfter("GLIBManager")
  /\ accepting' = accepting \cup {c}
  /\ fifo' = [fifo EXCEPT ![c] = <<>>]
  /\ UNCHANGED <<pointVars, amc13Vars, taking, runParam, frontEnd, made, outerVars>>

GLIBPausesAtOnce(c) ==         (* fault: the events still to be built are not awaited *)
  /\ Turn("GLIBManager", "Pause")
  /\ Loop("GLIBManager", c)
  /\ last' = MemberAfter("GLIBManager")
  /\ runParam' = [runParam EXCEPT ![c] = NextPoint("GLIBManager")]
  /\ made' = [made EXCEPT ![c] = 0]
  /\ UNCHANGED <<pointVars, amc13Vars, accepting, taking, frontEnd, fifo, outerVars>>

GLIBPauses(c) ==
  /\ Turn("GLIBManager", "Pause")
  /\ fifo[c] = <<>>
  /\ Loop("GLIBManager", c)
  /\ last' = MemberAfter("GLIBManager")
  /\ runParam' = [runParam EXCEPT ![c] = NextPoint("GLIBManager")]
  /\ made' = [made EXCEPT ![c] = 0]
  /\ UNCHANGED <<pointVars, amc13Vars, accepting, taking, frontEnd, fifo, outerVars>>

(* The card drops what it has not built with the reset of its DAQ link. *)
GLIBStops(c) ==
  /\ Turn("GLIBManager", "Stop")
  /\ Loop("GLIBManager", c)
  /\ accepting' = accepting \ {c}
  /\ fifo' = [fifo EXCEPT ![c] = <<>>]
  /\ UNCHANGED <<pointVars, amc13Vars, last, taking, runParam, frontEnd, made, outerVars>>

OptoHybridStarts(c) ==
  /\ Turn("OptoHybridManager", "Start")
  /\ Loop("OptoHybridManager", c)
  /\ last' = MemberAfter("OptoHybridManager")
  /\ taking' = taking \cup {c}
  /\ UNCHANGED <<pointVars, amc13Vars, accepting, runParam, frontEnd, fifo, made, outerVars>>

OptoHybridForgetsStep(c) ==    (* fault: the member is not brought forward *)
  /\ Turn("OptoHybridManager", "Pause")
  /\ Loop("OptoHybridManager", c)
  /\ frontEnd' = [frontEnd EXCEPT ![c] = NextPoint("OptoHybridManager")]
  /\ UNCHANGED <<pointVars, amc13Vars, last, accepting, taking, runParam, fifo, made, outerVars>>

OptoHybridPauses(c) ==
  /\ Turn("OptoHybridManager", "Pause")
  /\ Loop("OptoHybridManager", c)
  /\ last' = MemberAfter("OptoHybridManager")
  /\ frontEnd' = [frontEnd EXCEPT ![c] = NextPoint("OptoHybridManager")]
  /\ UNCHANGED <<pointVars, amc13Vars, accepting, taking, runParam, fifo, made, outerVars>>

OptoHybridStops(c) ==
  /\ Turn("OptoHybridManager", "Stop")
  /\ Loop("OptoHybridManager", c)
  /\ taking' = taking \ {c}
  /\ UNCHANGED <<pointVars, amc13Vars, last, accepting, runParam, frontEnd, fifo, made, outerVars>>

(* Neither manager does anything to resume. *)
CardsResume(m) ==
  /\ Turn(m, "Resume")
  /\ Through(m)
  /\ UNCHANGED <<gone, pointVars, amc13Vars, cardVars, outerVars>>

(* A card is found unconnected in the middle of the loop: the action raises.      *)
(* GLIBManager::stopAction() passes such a card over.                            *)
CardIsLost(m, c) ==
  /\ faults < MaxFaults
  /\ c \notin gone
  /\ \/ job \in {"Start", "Pause"}
     \/ m = "OptoHybridManager" /\ job = "Stop"
  /\ Turn(m, job)
  /\ failed' = failed \cup {m}
  /\ last' = IF job = "Start" THEN MemberAfter(m) ELSE last
  /\ faults' = faults + 1
  /\ UNCHANGED <<state, events, jobs, job, acting, remaining, gone, pointVars,
                 amc13Vars, accepting, taking, runParam, frontEnd, fifo, made,
                 scan, local, commands>>

-----------------------------------------------------------------------------
(* Triggers and events. *)

Trigger ==
  /\ firing # {}
  /\ seen < MaxSeen
  /\ \A c \in accepting : Len(fifo[c]) < MaxBacklog
  /\ seen' = seen + 1
  /\ fifo' = [c \in Cards |-> IF c \in accepting THEN Append(fifo[c], frontEnd[c])
                                                 ELSE fifo[c]]
  /\ UNCHANGED <<machineVars, pointVars, timing, firing, last, accepting, taking,
                 runParam, frontEnd, made, outerVars>>

Build(c) ==
  /\ fifo[c] # <<>>
  /\ fifo' = [fifo EXCEPT ![c] = Tail(fifo[c])]
  /\ made' = [made EXCEPT ![c] = IF made[c] < NTriggers THEN made[c] + 1 ELSE made[c]]
  /\ UNCHANGED <<machineVars, pointVars, amc13Vars, last, accepting, taking,
                 runParam, frontEnd, outerVars>>

-----------------------------------------------------------------------------
(* The end of a scan point. *)

(* AMC13Manager::timeExpired(); local triggers end here, others at the pause. *)
TimeExpires ==
  /\ timing
  /\ endpoint = "idle"
  /\ seen >= NTriggers
  /\ Len(events) < MaxQueue
  /\ firing' = firing \ {"AMC13"}
  /\ endpoint' = "reached"
  /\ UNCHANGED <<machineVars, updated, scanParameter, timing, seen, cardVars, outerVars>>

EndScanPoint ==
  /\ endpoint = "reached"
  /\ updated' = (scanParameter + scan.step) % WordSize
  /\ IF updated' <= scan.max
     THEN endpoint' = "pausing" /\ UNCHANGED events
     ELSE endpoint' = "idle" /\ events' = Append(events, "Stop")
  /\ UNCHANGED <<state, jobs, job, acting, remaining, gone, failed, scanParameter,
                 amc13Vars, cardVars, outerVars>>

(* The global state and the supervisor's own both show it. *)
Shows(s) == state = s /\ failed = {}

FirePause ==
  /\ endpoint = "pausing"
  /\ Shows("Running")
  /\ events' = Append(events, "Pause")
  /\ endpoint' = "resuming"
  /\ UNCHANGED <<state, jobs, job, acting, remaining, gone, failed, updated,
                 scanParameter, amc13Vars, cardVars, outerVars>>

FireResume ==
  /\ endpoint = "resuming"
  /\ Shows("Paused")
  /\ events' = Append(events, "Resume")
  /\ scanParameter' = updated
  /\ endpoint' = "returning"
  /\ UNCHANGED <<state, jobs, job, acting, remaining, gone, failed, updated,
                 amc13Vars, cardVars, outerVars>>

ReplySentTriggers ==
  /\ endpoint = "returning"
  /\ Shows("Running")
  /\ endpoint' = "idle"
  /\ UNCHANGED <<machineVars, updated, scanParameter, amc13Vars, cardVars, outerVars>>

-----------------------------------------------------------------------------
MachineSteps == HandleEvent \/ ErrorIsSeen

JobSteps ==
  \/ BeginJob
  \/ EnterAction
  \/ LeaveAction
  \/ TCDSTurns
  \/ AMC13Starts \/ AMC13Pauses \/ AMC13Resumes \/ AMC13Stops
  \/ \E c \in Cards : \/ GLIBStarts(c) \/ GLIBPauses(c) \/ GLIBStops(c)
                      \/ OptoHybridStarts(c) \/ OptoHybridPauses(c) \/ OptoHybridStops(c)
  \/ \E m \in {"GLIBManager", "OptoHybridManager"} : CardsResume(m)

EndpointSteps == EndScanPoint \/ FirePause \/ FireResume \/ ReplySentTriggers

ScanNext ==
  \/ \E c \in Operator : OperatorCommand(c)
  \/ MachineSteps
  \/ JobSteps
  \/ EndpointSteps
  \/ TimeExpires
  \/ Trigger
  \/ \E c \in Cards : Build(c)
  \/ \E m \in {"GLIBManager", "OptoHybridManager"}, c \in Cards : CardIsLost(m, c)

(* Every thread runs, the timer keeps its period, a source that is on delivers    *)
(* triggers and a card builds its events.                                       *)
ScanFairness ==
  /\ WF_scanVars(MachineSteps)
  /\ WF_scanVars(JobSteps)
  /\ WF_scanVars(EndpointSteps)
  /\ WF_scanVars(TimeExpires)
  /\ WF_scanVars(Trigger)
  /\ \A c \in Cards : WF_scanVars(Build(c))

ScanSpec == ScanInit /\ [][ScanNext]_scanVars /\ ScanFairness

-----------------------------------------------------------------------------
(* The operator has started the scan and left it alone.  After another command,   *)
(* a second Start included, an expiry or a handler of the run before may still     *)
(* pause the new one.                                                           *)
Undisturbed == commands = 1

(* An event is labelled with the value its data were taken with, from the first   *)
(* step of the scan on: the run parameter changes only between points, when no     *)
(* trigger comes and the card has built all it took, and the VFATs change after    *)
(* it (GLIBManager::pauseAction, OptoHybridManager::pauseAction).                *)
LabelsAreTrue ==
  \A c \in Cards : \A i \in DOMAIN fifo[c] : fifo[c][i] \in {Unset, runParam[c]}

(* Between points supervisor, cards and VFATs agree on the point, although each    *)
(* of three programs has counted it by itself, unless the operator has sent the    *)
(* managers through a transition of his own.                                    *)
PointIsAgreed ==
  (Shows("Running") /\ events = <<>> /\ Undisturbed /\ scanParameter # scan.min) =>
    \A c \in Cards : runParam[c] = scanParameter % RegisterSize
                     /\ frontEnd[c] = runParam[c]

(* No trigger is sent to a front end that is not ready for it: the managers come   *)
(* in the order that has the sources last to start and first to pause and stop.    *)
TriggersFindFrontEnds == firing # {} => accepting = Cards /\ taking = Cards

(* The label of a card changes only once the card has built as many events of the   *)
(* point as were asked for, unless the operator stepped in.                       *)
PointsAreFull ==
  [][\A c \in Cards : runParam'[c] # runParam[c] /\ Undisturbed => made[c] >= NTriggers]_scanVars

(* A scan that runs comes to its end, by itself, or shows an error.               *)
ScanEnds ==
  (state = "Running" /\ Undisturbed) ~> (~Undisturbed \/ state \in {"Configured", "Error"})
=============================================================================
