---------------------------- MODULE GEMTestBeamScan ----------------------------
(***************************************************************************)
(* The stand-alone scans of the test beams: LatencyScan and ThresholdScan,     *)
(* which are built on GEMTBUtil, and ADCScan, which repeats its frame.         *)
(*                                                                          *)
(* Two threads do the work.  The workloop takes the signals in the order they    *)
(* were submitted: a control signal fires the event of its name, the signal of    *)
(* run() makes one step of the scan and is submitted again while run() returns    *)
(* true.  The thread of the state machine takes the events and carries out their  *)
(* actions, some of which submit signals of their own.  The flag is_running_,     *)
(* the flag scanpoint_ and the hardware are shared; of the two semaphores run()   *)
(* holds wl_semaphore_ throughout, and both take hw_semaphore_ where they write.  *)
(***************************************************************************)
EXTENDS Integers, Sequences

CONSTANTS
  Kinds,         (* which of the scans there are                                   *)
  ScanMin, ScanMax, Step,   (* the range asked for                                 *)
  RegisterMax,   (* 0xFF                                                          *)
  NTriggers,     (* nTriggers, and nSamples of an ADC scan                         *)
  PatientUser,   (* whether the user clicks only when the last click has had its    *)
                 (* effect and, to start, no step of a scan is left                *)
  MaxClicks      (* bounds the user's clicks                                       *)

(* A range the registers can hold; beyond it a latency scan does not end, as the     *)
(* form's limit of 255 is all that keeps it in.                                  *)
ASSUME KindsAreKnown == Kinds \subseteq {"latency", "threshold", "adc"}
ASSUME RangeFits ==
  /\ {ScanMin, ScanMax, Step, RegisterMax, NTriggers} \subseteq Nat
  /\ ScanMin <= ScanMax /\ ScanMax <= RegisterMax /\ Step > 0 /\ NTriggers > 0

None == "none"

Commands == {"Initialize", "Configure", "Start", "Stop", "Halt", "Reset"}

VARIABLES
  kind,        (* the scan this application is                                     *)
  state,       (* fsmP_                                                           *)
  events,      (* the events it has not taken yet                                  *)
  action,      (* the action its thread is in                                      *)
  step,        (* how far that action is                                          *)
  queue,       (* the signals submitted to wl_                                     *)
  at,          (* where run() is                                                  *)
  wlSemaphore, (* who holds wl_semaphore_                                         *)
  hwSemaphore, (* who holds hw_semaphore_ between two steps                        *)
  isRunning,   (* is_running_                                                     *)
  scanpoint,   (* scanpoint_: the point begins with the triggers still off          *)
  triggers,    (* the AMC13 sends triggers and the GLIB lets them through           *)
  count,       (* the L1A count of the OptoHybrid; the samples of an ADC scan        *)
  seen,        (* triggersSeen                                                    *)
  runMode,     (* the VFATs are in run mode                                       *)
  register,    (* the scanned register                                            *)
  held,        (* currentLatency_, deviceVT1 or curDACRegValue                     *)
  runParam,    (* the run parameter of the GLIB                                    *)
  fifo,        (* the event FIFO of the link holds data                            *)
  stopped,     (* the user has stopped or halted a scan                            *)
  clicks       (* how often the user has clicked                                   *)

fsmVars  == <<state, events, action, step>>
loopVars == <<queue, at, wlSemaphore>>
flagVars == <<isRunning, scanpoint>>
hwVars   == <<hwSemaphore, triggers, count, runMode, register, runParam, fifo>>
copyVars == <<seen, held>>
userVars == <<kind, stopped, clicks>>
tbVars   == <<fsmVars, loopVars, flagVars, hwVars, copyVars, userVars>>

(* Every way out of run() returns the semaphores it took. *)
SemaphoresReturned ==
  /\ wlSemaphore = "run" <=> at # "idle"
  /\ hwSemaphore = "run" <=> at = "draining"

TBTypeOK ==
  /\ SemaphoresReturned
  /\ state \in {"Initial", "Halted", "Configured", "Running", "Error"}
  /\ events \in Seq(Commands)
  /\ queue \in Seq(Commands \cup {"run"})
  /\ at \in {"idle", "counting", "judging", "closing", "stepping", "draining"}
  /\ wlSemaphore \in {None, "run"} /\ hwSemaphore \in {None, "run"}
  /\ {register, held, runParam} \subseteq 0..RegisterMax
  /\ {count, seen} \subseteq 0..NTriggers

(* As the constructor and the first Initialize find it. *)
TBInit ==
  /\ kind \in Kinds
  /\ state = "Initial" /\ events = <<>> /\ action = None /\ step = 0
  /\ queue = <<>> /\ at = "idle" /\ wlSemaphore = None /\ hwSemaphore = None
  /\ isRunning = FALSE /\ scanpoint = TRUE
  /\ triggers = FALSE /\ count = 0 /\ runMode = FALSE
  /\ register = 0 /\ runParam = 0 /\ fifo = FALSE
  /\ seen = 0 /\ held = 0 /\ stopped = FALSE /\ clicks = 0

-----------------------------------------------------------------------------
(* The state table.  ADCScan carries out a Halt in Halted, which the others ignore. *)

HaltsAgain == IF kind = "adc" THEN {"Halted"} ELSE {}

Entries(c) ==
  CASE c = "Initialize" -> {"Initial"}
    [] c = "Configure"  -> {"Halted", "Configured"}
    [] c = "Start"      -> {"Configured"}
    [] c = "Stop"       -> {"Running"}
    [] c = "Halt"       -> {"Configured", "Running"} \cup HaltsAgain
    [] c = "Reset"      -> {"Configured", "Halted"}

(* Transitions to the same state with nothing to do. *)
Ignored(c) ==
  CASE c = "Configure" -> {"Running"}
    [] c = "Start"     -> {"Halted", "Running"}
    [] c = "Stop"      -> {"Halted", "Configured"}
    [] c = "Halt"      -> {"Halted"} \ HaltsAgain
    [] OTHER           -> {}

Target(c) ==
  CASE c \in {"Initialize", "Halt"} -> "Halted"
    [] c \in {"Configure", "Stop"}  -> "Configured"
    [] c = "Start"                  -> "Running"
    [] c = "Reset"                  -> "Initial"

-----------------------------------------------------------------------------
(* The user, by the web page or SOAP: the signal of the command is submitted. *)

IsSettled == events = <<>> /\ action = None /\ \A i \in DOMAIN queue : queue[i] = "run"

Click(c) ==
  /\ clicks < MaxClicks
  /\ state \in Entries(c)
  /\ PatientUser => IsSettled /\ (c = "Start" => queue = <<>> /\ at = "idle")
  /\ queue' = Append(queue, c)
  /\ stopped' = (stopped \/ state = "Running")
  /\ clicks' = clicks + 1
  /\ UNCHANGED <<fsmVars, at, wlSemaphore, flagVars, hwVars, copyVars, kind>>

-----------------------------------------------------------------------------
(* The thread of the state machine. *)

(* No thread is inside a section of hw_semaphore_. *)
HwFree == hwSemaphore = None

TakeEvent ==
  /\ action = None
  /\ events # <<>>
  /\ state \in Entries(Head(events))
  /\ action' = Head(events)
  /\ step' = 1
  /\ events' = Tail(events)
  /\ UNCHANGED <<state, loopVars, flagVars, hwVars, copyVars, userVars>>

(* noAction() of ADCScan takes hw_semaphore_ and gives it back. *)
IgnoreEvent ==
  /\ action = None
  /\ events # <<>>
  /\ kind = "adc" => HwFree
  /\ state \in Ignored(Head(events))
  /\ events' = Tail(events)
  /\ UNCHANGED <<state, action, step, loopVars, flagVars, hwVars, copyVars, userVars>>

(* What the toolbox does with an event that has no transition is not to be seen    *)
(* from here: it may pass it over or fail.  A Reset that resetAction() has         *)
(* submitted again is one.                                                      *)
MissTransition ==
  /\ action = None
  /\ events # <<>>
  /\ state \notin Entries(Head(events)) \cup Ignored(Head(events))
  /\ events' = Tail(events)
  /\ state' \in {state, "Error"}
  /\ UNCHANGED <<action, step, loopVars, flagVars, hwVars, copyVars, userVars>>

Done(c) ==
  /\ state' = Target(c)
  /\ action' = None
  /\ step' = 0
  /\ UNCHANGED events

First == IF kind = "threshold" THEN ScanMax - ScanMin ELSE ScanMin

(* The devices are found and put to sleep, or not found; Halted it is, either way. *)
InitializeAction ==
  /\ action = "Initialize"
  /\ HwFree
  /\ \/ triggers' = FALSE /\ runMode' = FALSE
     \/ UNCHANGED <<triggers, runMode>>
  /\ Done("Initialize")
  /\ UNCHANGED <<loopVars, flagVars, hwSemaphore, count, register, runParam, fifo,
                 copyVars, userVars>>

ConfigureAction ==
  /\ action = "Configure"
  /\ HwFree
  /\ runMode' = FALSE
  /\ register' = First
  /\ held' = First
  /\ runParam' = IF kind = "adc" THEN runParam ELSE First
  /\ fifo' = FALSE
  /\ count' = 0
  /\ Done("Configure")
  /\ UNCHANGED <<loopVars, flagVars, hwSemaphore, triggers, seen, userVars>>

(* is_running_ is set before the devices are ready for it. *)
StartAction1 ==
  /\ action = "Start" /\ step = 1
  /\ isRunning' = TRUE
  /\ step' = 2
  /\ UNCHANGED <<state, events, action, loopVars, scanpoint, hwVars, copyVars, userVars>>

(* A latency scan goes on from the latency it has; the others begin anew. *)
StartAction2 ==
  /\ action = "Start" /\ step = 2
  /\ HwFree
  /\ register' = IF kind = "latency" THEN register ELSE First
  /\ held' = IF kind = "latency" THEN held ELSE First
  /\ runParam' = IF kind = "adc" THEN runParam ELSE held'
  /\ runMode' = TRUE
  /\ count' = 0
  /\ fifo' = FALSE
  /\ scanpoint' = TRUE
  /\ queue' = Append(queue, "run")
  /\ Done("Start")
  /\ UNCHANGED <<at, wlSemaphore, isRunning, hwSemaphore, triggers, seen, userVars>>

(* The triggers are stopped without a semaphore. *)
StopAction1 ==
  /\ action = "Stop" /\ step = 1
  /\ kind # "adc"
  /\ triggers' = FALSE
  /\ step' = 2
  /\ UNCHANGED <<state, events, action, loopVars, flagVars, hwSemaphore, count, runMode,
                 register, runParam, fifo, copyVars, userVars>>

StopAction2 ==
  /\ action = "Stop" /\ step = 2
  /\ isRunning => HwFree
  /\ runMode' = IF isRunning THEN FALSE ELSE runMode
  /\ isRunning' = FALSE
  /\ queue' = Append(queue, "Stop")
  /\ Done("Stop")
  /\ UNCHANGED <<at, wlSemaphore, scanpoint, hwSemaphore, triggers, count,
                 register, runParam, fifo, copyVars, userVars>>

(* ADCScan waits for the step of run() that is under way. *)
StopADC ==
  /\ action = "Stop"
  /\ kind = "adc"
  /\ wlSemaphore = None
  /\ isRunning => HwFree
  /\ runMode' = IF isRunning THEN FALSE ELSE runMode
  /\ isRunning' = FALSE
  /\ Done("Stop")
  /\ UNCHANGED <<loopVars, scanpoint, hwSemaphore, triggers, count, register, runParam,
                 fifo, copyVars, userVars>>

(* haltAction() clears is_running_ before it asks for it: nothing is switched off. *)
HaltAction ==
  /\ action = "Halt"
  /\ kind = "adc" => wlSemaphore = None /\ HwFree
  /\ isRunning' = FALSE
  /\ IF kind = "adc"
     THEN runMode' = FALSE /\ UNCHANGED queue
     ELSE queue' = Append(queue, "Halt") /\ UNCHANGED runMode
  /\ Done("Halt")
  /\ UNCHANGED <<at, wlSemaphore, scanpoint, hwSemaphore, triggers, count, register,
                 runParam, fifo, copyVars, userVars>>

ResetAction ==
  /\ action = "Reset"
  /\ kind = "adc" => wlSemaphore = None
  /\ HwFree
  /\ isRunning' = FALSE
  /\ runMode' = FALSE
  /\ queue' = IF kind = "adc" THEN queue ELSE Append(queue, "Reset")
  /\ seen' = 0
  /\ Done("Reset")
  /\ UNCHANGED <<at, wlSemaphore, scanpoint, hwSemaphore, triggers, count, register,
                 runParam, fifo, held, userVars>>

-----------------------------------------------------------------------------
(* The workloop. *)

TakeControlSignal ==
  /\ at = "idle"
  /\ queue # <<>>
  /\ Head(queue) # "run"
  /\ events' = Append(events, Head(queue))
  /\ queue' = Tail(queue)
  /\ UNCHANGED <<state, action, step, at, wlSemaphore, flagVars, hwVars, copyVars, userVars>>

TakeRunSignal ==
  /\ at = "idle"
  /\ queue # <<>>
  /\ Head(queue) = "run"
  /\ wlSemaphore = None
  /\ UNCHANGED <<fsmVars, flagVars, hwVars, copyVars, userVars>>

RunBegins ==
  /\ TakeRunSignal
  /\ isRunning
  /\ queue' = Tail(queue)
  /\ wlSemaphore' = "run"
  /\ at' = "counting"

(* run() returns false, the signal is used up; an ADC scan asks for a stop. *)
NotRunning ==
  /\ TakeRunSignal
  /\ ~isRunning
  /\ kind = "latency" => HwFree
  /\ queue' = IF kind = "adc" THEN Append(Tail(queue), "Stop") ELSE Tail(queue)
  /\ UNCHANGED <<at, wlSemaphore>>

(* run() returns, with the signals S submitted, its own when it returns true. *)
Returns(S) ==
  /\ queue' = queue \o S
  /\ wlSemaphore' = None
  /\ at' = "idle"

RunCounts ==
  /\ at = "counting" /\ kind # "adc"
  /\ HwFree
  /\ triggers' = (triggers \/ scanpoint)
  /\ seen' = count
  /\ at' = "judging"
  /\ UNCHANGED <<fsmVars, queue, wlSemaphore, flagVars, hwSemaphore, count, runMode,
                 register, runParam, fifo, held, userVars>>

RunGoesOnUnsubmitted ==        (* fault: run() returns false *)
  /\ at = "judging"
  /\ seen < NTriggers
  /\ HwFree
  /\ scanpoint' = FALSE
  /\ Returns(<<>>)
  /\ UNCHANGED <<fsmVars, isRunning, hwVars, copyVars, userVars>>

RunGoesOnTwice ==              (* fault: the signal is submitted and true returned *)
  /\ at = "judging"
  /\ seen < NTriggers
  /\ HwFree
  /\ scanpoint' = FALSE
  /\ Returns(<<"run", "run">>)
  /\ UNCHANGED <<fsmVars, isRunning, hwVars, copyVars, userVars>>

RunGoesOn ==
  /\ at = "judging"
  /\ seen < NTriggers
  /\ HwFree
  /\ scanpoint' = FALSE
  /\ Returns(<<"run">>)
  /\ UNCHANGED <<fsmVars, isRunning, hwVars, copyVars, userVars>>

RunStopsTriggers ==
  /\ at = "judging"
  /\ seen >= NTriggers
  /\ triggers' = FALSE
  /\ seen' = count
  /\ at' = "closing"
  /\ UNCHANGED <<fsmVars, queue, wlSemaphore, flagVars, hwSemaphore, count, runMode,
                 register, runParam, fifo, held, userVars>>

RunClosesPoint ==
  /\ at = "closing"
  /\ HwFree
  /\ runMode' = FALSE
  /\ scanpoint' = TRUE
  /\ count' = 0
  /\ at' = "stepping"
  /\ UNCHANGED <<fsmVars, queue, wlSemaphore, isRunning, hwSemaphore, triggers, register,
                 runParam, fifo, copyVars, userVars>>

(* The scan is at its last point.  A threshold scan has another way to end, when      *)
(* VT2 - VT1 exceeds maxThresh, which takes a negative maxThresh.                  *)
AtLastPoint ==
  CASE kind = "latency"   -> ScanMax - held < Step
    [] kind = "threshold" -> held = 0
    [] kind = "adc"       -> held >= ScanMax

NextValueUnclipped ==          (* fault: the value is not kept to the register *)
  CASE kind = "threshold" -> IF held > Step THEN held - Step ELSE 0
    [] OTHER              -> held + Step

NextValue ==
  CASE kind = "threshold" -> IF held > Step THEN held - Step ELSE 0
    [] OTHER              -> IF held + Step < RegisterMax THEN held + Step ELSE RegisterMax

(* The register is written and read back under hw_semaphore_, which run() keeps. *)
RunSteps ==
  /\ at = "stepping"
  /\ ~AtLastPoint
  /\ HwFree
  /\ hwSemaphore' = "run"
  /\ register' = NextValue
  /\ held' = register'
  /\ at' = "draining"
  /\ UNCHANGED <<fsmVars, queue, wlSemaphore, flagVars, triggers, count, runMode,
                 runParam, fifo, seen, userVars>>

RunLabelsNothing ==            (* fault: the run parameter is not brought along *)
  /\ at = "draining"
  /\ fifo
  /\ runMode' = TRUE
  /\ scanpoint' = TRUE
  /\ count' = 0
  /\ seen' = 0
  /\ hwSemaphore' = None
  /\ Returns(<<"run">>)
  /\ UNCHANGED <<fsmVars, isRunning, triggers, register, runParam, fifo, held, userVars>>

(* The loop that says it waits for an empty FIFO goes on while it is empty. *)
RunLabels ==
  /\ at = "draining"
  /\ fifo
  /\ runParam' = held
  /\ runMode' = TRUE
  /\ scanpoint' = TRUE
  /\ count' = 0
  /\ seen' = 0
  /\ hwSemaphore' = None
  /\ Returns(<<"run">>)
  /\ UNCHANGED <<fsmVars, isRunning, triggers, register, fifo, held, userVars>>

RunEndsPointOpen ==            (* fault: scanpoint_ is left as it is *)
  /\ at = "stepping" /\ kind = "latency"
  /\ AtLastPoint
  /\ HwFree
  /\ triggers' = FALSE
  /\ Returns(<<"Stop", "run">>)
  /\ UNCHANGED <<fsmVars, flagVars, hwSemaphore, count, runMode, register, runParam,
                 fifo, copyVars, userVars>>

(* run() returns true: it comes once more, after or before the Stop is carried out. *)
RunEndsLatency ==
  /\ at = "stepping" /\ kind = "latency"
  /\ AtLastPoint
  /\ HwFree
  /\ scanpoint' = FALSE
  /\ triggers' = FALSE
  /\ Returns(<<"Stop", "run">>)
  /\ UNCHANGED <<fsmVars, isRunning, hwSemaphore, count, runMode, register, runParam,
                 fifo, copyVars, userVars>>

RunEndsThreshold ==
  /\ at = "stepping" /\ kind = "threshold"
  /\ AtLastPoint
  /\ Returns(<<"Stop">>)
  /\ UNCHANGED <<fsmVars, flagVars, hwVars, copyVars, userVars>>

(* ADCScan::run() *)
RunSamples ==
  /\ at = "counting" /\ kind = "adc"
  /\ count < NTriggers
  /\ HwFree
  /\ count' = count + 1
  /\ Returns(<<"run">>)
  /\ UNCHANGED <<fsmVars, flagVars, hwSemaphore, triggers, runMode, register, runParam,
                 fifo, copyVars, userVars>>

RunStepsADC ==
  /\ at = "counting" /\ kind = "adc"
  /\ count = NTriggers
  /\ HwFree
  /\ count' = 0
  /\ IF AtLastPoint
     THEN Returns(<<"Stop">>) /\ UNCHANGED <<register, held>>
     ELSE /\ Returns(<<"run">>)
          /\ register' = NextValue
          /\ held' = register'
  /\ UNCHANGED <<fsmVars, flagVars, hwSemaphore, triggers, runMode, runParam, fifo,
                 seen, userVars>>

-----------------------------------------------------------------------------
(* The hardware; the DAQ may empty the FIFO or leave it alone. *)

Trigger ==
  /\ triggers
  /\ count < NTriggers
  /\ count' = count + 1
  /\ fifo' = (fifo \/ runMode)
  /\ UNCHANGED <<fsmVars, loopVars, flagVars, hwSemaphore, triggers, runMode, register,
                 runParam, copyVars, userVars>>

DAQReads ==
  /\ fifo
  /\ fifo' = FALSE
  /\ UNCHANGED <<fsmVars, loopVars, flagVars, hwSemaphore, triggers, count, runMode,
                 register, runParam, copyVars, userVars>>

-----------------------------------------------------------------------------
MachineSteps ==
  \/ TakeEvent \/ IgnoreEvent \/ MissTransition
  \/ InitializeAction \/ ConfigureAction
  \/ StartAction1 \/ StartAction2
  \/ StopAction1 \/ StopAction2 \/ StopADC
  \/ HaltAction \/ ResetAction

WorkloopSteps ==
  \/ TakeControlSignal
  \/ RunBegins \/ NotRunning
  \/ RunCounts \/ RunGoesOn \/ RunStopsTriggers \/ RunClosesPoint
  \/ RunSteps \/ RunLabels \/ RunEndsLatency \/ RunEndsThreshold
  \/ RunSamples \/ RunStepsADC

TBNext ==
  \/ \E c \in Commands : Click(c)
  \/ MachineSteps
  \/ WorkloopSteps
  \/ Trigger
  \/ DAQReads

(* Both threads run and triggers that are on arrive; the DAQ owes nothing. *)
TBFairness == WF_tbVars(MachineSteps) /\ WF_tbVars(WorkloopSteps) /\ WF_tbVars(Trigger)

TBSpec == TBInit /\ [][TBNext]_tbVars /\ TBFairness

-----------------------------------------------------------------------------
(* One step of the scan at a time: at most one signal of run() is about, although      *)
(* Start, every step and the end of the scan all submit signals to the one queue.      *)
OneRunner ==
  /\ \A i, j \in DOMAIN queue : queue[i] = "run" /\ queue[j] = "run" => i = j
  /\ at # "idle" => \A i \in DOMAIN queue : queue[i] # "run"

(* While triggers come to VFATs in run mode, the GLIB labels them with the value the     *)
(* VFATs hold, also when a Stop comes in the middle of a step (LatencyScan::run,        *)
(* ThresholdScan::run against GEMTBUtil::stopAction).                                *)
DataIsLabelled == triggers /\ runMode => register = runParam

(* A scan that came to its end by itself leaves no triggers on and no VFAT in run mode.    *)
(* After a Stop in the middle of a step the triggers may stay on.                       *)
RestIsQuiet ==
  (state = "Configured" /\ queue = <<>> /\ IsSettled /\ at = "idle" /\ ~stopped) =>
    ~triggers /\ ~runMode

(* The loop on the FIFO can be left only by new data, which a point that is over does      *)
(* not bring.                                                                           *)
WaitsForData == at = "draining" /\ ~fifo

(* A scan that runs ends, or hangs where it waits for the FIFO: neither the Stop that it    *)
(* submits itself nor the user's gets lost among the signals and events.                 *)
ScanEnds == state = "Running" ~> (state # "Running" \/ WaitsForData)
=============================================================================
