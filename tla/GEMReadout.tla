------------------------------ MODULE GEMReadout ------------------------------
(***************************************************************************)
(* The readout of events to files, run after run.                            *)
(*                                                                          *)
(* AMC13Readout (a GEMReadoutApplication) is one of the supervisor's           *)
(* applications.  Its transitions only queue a command; a task of its own,      *)
(* started by the first Initialize, takes the commands between two calls of     *)
(* dumpData(), which copies the AMC13's monitor buffer to the chunk files of    *)
(* the run until it finds the buffer empty.  The transitions and the task       *)
(* share, without a lock, the name of the file, the number of the chunk, the    *)
(* count that advances it and the count of events that is published.          *)
(*                                                                          *)
(* AMC13Manager, which starts and stops the events, goes through the same       *)
(* transitions in the order of GEMTransitionOrder.  The supervisor is seen as a  *)
(* client that waits for each transition.  TCDS triggers start after the AMC13   *)
(* manager and end before it, and here with it.                              *)
(***************************************************************************)
EXTENDS GEMTransitionOrder, Sequences

CONSTANTS
  ChunkSize,      (* 10000: so many events advance the chunk                     *)
  CountSize,      (* the counts of events are computed modulo this               *)
  MaxRuns,        (* bounds the run number                                       *)
  MaxChunk,       (* bounds the number of the chunk                              *)
  BufferSize,     (* the blocks the monitor buffer holds                         *)
  MaxQueue,       (* bounds the commands that wait for the task                   *)
  MaxFaults       (* bounds the accesses that fail                               *)

ASSUME ReadoutBounds ==
  {ChunkSize, CountSize, MaxRuns, MaxChunk, BufferSize, MaxQueue} \subseteq Nat \ {0}

VARIABLES
  state,          (* the machines, which the supervisor keeps together            *)
  remaining,      (* the applications still to go through the transition           *)
  stage,          (* how far startAction() of the readout has come                 *)
  run,            (* the run number                                              *)
  local,          (* m_enableLocalL1A                                            *)
  taking,         (* the run the AMC13 takes events for, 0 if none                 *)
  buffer,         (* its monitor buffer: the run of each event                     *)
  queue,          (* m_cmdQueue                                                  *)
  fileRun,        (* the run m_outFileName is named for                            *)
  cnt,            (* the chunk                                                   *)
  written,        (* nwrote_global                                               *)
  eventsReadout,  (* m_eventsReadout                                             *)
  task,           (* where the task is                                           *)
  isRunning,      (* its local state                                             *)
  file,           (* the chunk file that is open                                 *)
  nevt,           (* how many events the loop has still to read                   *)
  nwrote,         (* how many dumpData() has written                              *)
  loaded,         (* the value of m_eventsReadout the task is adding to            *)
  mixed,          (* in this run an event went to the file of another             *)
  onFile,         (* how many events have gone to files since Initialize           *)
  miscounted,     (* a raise or an early Initialize has spoilt the count            *)
  unheard,        (* a command was queued before there was a task                  *)
  fresh,          (* the last Start found the task at rest and no event to read      *)
  faults

machineVars == <<state, remaining, run, local>>
sharedVars  == <<queue, fileRun, cnt, written, eventsReadout>>
taskVars    == <<task, isRunning, file, nevt, nwrote, loaded>>
historyVars == <<mixed, onFile, miscounted, unheard, fresh>>
readoutVars == <<machineVars, stage, taking, buffer, sharedVars, taskVars, historyVars, faults>>

Readers == {"AMC13Manager", "AMC13Readout"}

Runs == 0..MaxRuns

ReadoutCommands == {"CMD_STOP", "CMD_START", "CMD_PAUSE", "CMD_RESUME"}

ReadoutTypeOK ==
  /\ state \in States
  /\ remaining \subseteq Readers
  /\ stage \in {"settings", "name", "push"}
  /\ {run, taking, fileRun} \subseteq Runs
  /\ buffer \in Seq(1..MaxRuns) /\ Len(buffer) <= BufferSize
  /\ queue \in Seq(ReadoutCommands)
  /\ cnt \in 0..MaxChunk
  /\ written \in 0..(ChunkSize * (MaxChunk + 1))
  /\ {eventsReadout, nwrote, loaded, onFile} \subseteq 0..(CountSize - 1)
  /\ task \in {"none", "head", "status", "read", "close", "load", "store"}
  /\ isRunning \in BOOLEAN
  /\ file \in Runs \X (0..MaxChunk)
  /\ nevt \in 0..BufferSize

ReadoutInit ==
  /\ state = "Initial" /\ remaining = {} /\ stage = "settings" /\ run = 0
  /\ local \in BOOLEAN
  /\ taking = 0 /\ buffer = <<>>
  /\ queue = <<>> /\ fileRun = 0 /\ cnt = 0 /\ written = 0 /\ eventsReadout = 0
  /\ task = "none" /\ isRunning = FALSE
  /\ file = <<0, 0>> /\ nevt = 0 /\ nwrote = 0 /\ loaded = 0
  /\ mixed = FALSE /\ onFile = 0 /\ miscounted = FALSE
  /\ unheard = FALSE /\ fresh = TRUE
  /\ faults = 0

(* The task waits for a command. *)
AtRest == task \in {"none", "head"} /\ ~isRunning /\ queue = <<>>

-----------------------------------------------------------------------------
(* The transitions. *)

Command(c) ==
  /\ remaining = {}
  /\ state \in Sources[c]
  /\ c = "Start" => run < MaxRuns
  /\ Len(queue) < MaxQueue
  /\ state' = Via[c]
  /\ remaining' = Readers
  /\ run' = IF c = "Start" THEN run + 1 ELSE run
  /\ fresh' = IF c = "Start" THEN AtRest /\ taking = 0 /\ buffer = <<>> ELSE fresh
  /\ mixed' = (mixed /\ c # "Start")
  /\ UNCHANGED <<local, stage, taking, buffer, sharedVars, taskVars,
                 onFile, miscounted, unheard, faults>>

(* The application m is taken through c, the only one of its priority. *)
Turn(m, c) ==
  /\ m \in remaining
  /\ state = Via[c]
  /\ \A n \in remaining : Rank(c, m) >= Rank(c, n)
  /\ remaining' = remaining \ {m}
  /\ state' = IF remaining' = {} THEN Settled[state] ELSE state
  /\ UNCHANGED <<run, local>>

(* The manager resets the AMC13 before it takes it into service; the reset of the  *)
(* board may or may not end a trigger generator that was left on.               *)
ManagerInitializes ==
  /\ Turn("AMC13Manager", "Initialize")
  /\ taking' \in {0, taking}
  /\ buffer' = <<>>
  /\ UNCHANGED <<stage, sharedVars, taskVars, historyVars, faults>>

ManagerStarts ==
  /\ Turn("AMC13Manager", "Start")
  /\ taking' = run
  /\ buffer' = <<>>
  /\ UNCHANGED <<stage, sharedVars, taskVars, historyVars, faults>>

ManagerResumes ==
  /\ Turn("AMC13Manager", "Resume")
  /\ taking' = run
  /\ UNCHANGED <<stage, buffer, sharedVars, taskVars, historyVars, faults>>

ManagerDisables ==
  /\ \E c \in {"Pause", "Stop"} : Turn("AMC13Manager", c)
  /\ taking' = 0
  /\ UNCHANGED <<stage, buffer, sharedVars, taskVars, historyVars, faults>>

(* haltAction() does nothing: only the TCDS is halted, before the manager. *)
ManagerHalts ==
  /\ Turn("AMC13Manager", "Halt")
  /\ taking' = IF local THEN taking ELSE 0
  /\ UNCHANGED <<stage, buffer, sharedVars, taskVars, historyVars, faults>>

ManagerIgnores ==
  /\ \E c \in {"Configure", "Reset"} : Turn("AMC13Manager", c)
  /\ UNCHANGED <<stage, taking, buffer, sharedVars, taskVars, historyVars, faults>>

InitializeLeavesTask ==        (* fault: a task that is there is left to itself *)
  /\ Turn("AMC13Readout", "Initialize")
  /\ task' = IF task = "none" THEN "head" ELSE task
  /\ eventsReadout' = 0
  /\ onFile' = 0
  /\ miscounted' = ~AtRest
  /\ UNCHANGED <<stage, taking, buffer, queue, fileRun, cnt, written, isRunning, file,
                 nevt, nwrote, loaded, mixed, unheard, fresh, faults>>

ReadoutInitializes ==
  /\ Turn("AMC13Readout", "Initialize")
  /\ IF task = "none"
     THEN task' = "head" /\ UNCHANGED queue
     ELSE queue' = Append(queue, "CMD_STOP") /\ UNCHANGED task
  /\ eventsReadout' = 0
  /\ onFile' = 0
  /\ miscounted' = ~AtRest
  /\ UNCHANGED <<stage, taking, buffer, fileRun, cnt, written, isRunning, file, nevt,
                 nwrote, loaded, mixed, unheard, fresh, faults>>

(* The AMC13 is not reached, before the base class has done anything. *)
ReadoutFailsToInitialize ==
  /\ faults < MaxFaults
  /\ remaining = {"AMC13Readout"}
  /\ state = "Initializing"
  /\ state' = "Error"
  /\ remaining' = {}
  /\ faults' = faults + 1
  /\ UNCHANGED <<run, local, stage, taking, buffer, sharedVars, taskVars, historyVars>>

(* startAction(): the counts, then the name of the file, then the command. *)
ReadoutStartsAfresh ==
  /\ state = "Starting" /\ "AMC13Readout" \in remaining
  /\ stage = "settings"
  /\ stage' = "name"
  /\ cnt' = 0
  /\ written' = 0
  /\ UNCHANGED <<machineVars, taking, buffer, queue, fileRun, eventsReadout, taskVars,
                 historyVars, faults>>

ReadoutKeepsFile ==            (* fault: the name is only put into the settings *)
  /\ stage = "name"
  /\ stage' = "push"
  /\ UNCHANGED <<machineVars, taking, buffer, sharedVars, taskVars, historyVars, faults>>

ReadoutNamesFile ==
  /\ stage = "name"
  /\ stage' = "push"
  /\ fileRun' = run
  /\ UNCHANGED <<machineVars, taking, buffer, queue, cnt, written, eventsReadout, taskVars,
                 historyVars, faults>>

ReadoutStarts ==
  /\ stage = "push"
  /\ Turn("AMC13Readout", "Start")
  /\ stage' = "settings"
  /\ queue' = Append(queue, "CMD_START")
  /\ unheard' = (unheard \/ task = "none")
  /\ UNCHANGED <<taking, buffer, fileRun, cnt, written, eventsReadout, taskVars,
                 mixed, onFile, miscounted, fresh, faults>>

(* The four of the enumeration that are used; nothing ever queues CMD_EXIT. *)
ReadoutQueuesExit(c, cmd) ==   (* fault: Halt ends the task *)
  /\ Turn("AMC13Readout", c)
  /\ queue' = Append(queue, IF c = "Halt" THEN "CMD_EXIT" ELSE cmd)
  /\ unheard' = (unheard \/ (task = "none" /\ c # "Halt"))
  /\ UNCHANGED <<stage, taking, buffer, fileRun, cnt, written, eventsReadout, taskVars,
                 mixed, onFile, miscounted, fresh, faults>>

(* Only haltAction() looks whether there is a task. *)
ReadoutQueues(c, cmd) ==
  /\ Turn("AMC13Readout", c)
  /\ queue' = IF c = "Halt" /\ task = "none" THEN queue ELSE Append(queue, cmd)
  /\ unheard' = (unheard \/ (task = "none" /\ c # "Halt"))
  /\ UNCHANGED <<stage, taking, buffer, fileRun, cnt, written, eventsReadout, taskVars,
                 mixed, onFile, miscounted, fresh, faults>>

ReadoutIgnores ==
  /\ \E c \in {"Configure", "Reset"} : Turn("AMC13Readout", c)
  /\ UNCHANGED <<stage, taking, buffer, sharedVars, taskVars, historyVars, faults>>

-----------------------------------------------------------------------------
(* The AMC13: an event of the run enters the monitor buffer while there is room. *)

Event ==
  /\ taking # 0
  /\ Len(buffer) < BufferSize
  /\ buffer' = Append(buffer, taking)
  /\ UNCHANGED <<machineVars, stage, taking, sharedVars, taskVars, historyVars, faults>>

-----------------------------------------------------------------------------
(* readoutTask() *)

Applied(cmd) == cmd \in {"CMD_START", "CMD_RESUME"}

TakesWhenIdle ==               (* fault: a task that runs does not look at the queue *)
  /\ task = "head"
  /\ ~isRunning
  /\ queue # <<>>
  /\ isRunning' = Applied(Head(queue))
  /\ queue' = Tail(queue)
  /\ task' = IF isRunning' THEN "status" ELSE "head"
  /\ UNCHANGED <<machineVars, stage, taking, buffer, fileRun, cnt, written, eventsReadout,
                 file, nevt, nwrote, loaded, historyVars, faults>>

TakeCommand ==
  /\ task = "head"
  /\ queue # <<>>
  /\ isRunning' = Applied(Head(queue))
  /\ queue' = Tail(queue)
  /\ task' = IF isRunning' THEN "status" ELSE "head"
  /\ UNCHANGED <<machineVars, stage, taking, buffer, fileRun, cnt, written, eventsReadout,
                 file, nevt, nwrote, loaded, historyVars, faults>>

NextDump ==
  /\ task = "head"
  /\ isRunning
  /\ queue = <<>>
  /\ task' = "status"
  /\ UNCHANGED <<machineVars, stage, taking, buffer, sharedVars, isRunning, file, nevt,
                 nwrote, loaded, historyVars, faults>>

(* dumpData() asks for the unread blocks and opens the chunk of the moment.      *)
OpenChunk ==
  /\ task = "status"
  /\ buffer # <<>>
  /\ nevt' = Len(buffer)
  /\ file' = <<fileRun, cnt>>
  /\ task' = "read"
  /\ UNCHANGED <<machineVars, stage, taking, buffer, sharedVars, isRunning, nwrote, loaded,
                 historyVars, faults>>

BufferIsEmpty ==
  /\ task = "status"
  /\ buffer = <<>>
  /\ task' = IF nwrote = 0 THEN "head" ELSE "load"
  /\ UNCHANGED <<machineVars, stage, taking, buffer, sharedVars, isRunning, file, nevt,
                 nwrote, loaded, historyVars, faults>>

(* What has been written since the last status is counted nowhere. *)
AccessRaises ==
  /\ faults < MaxFaults
  /\ task \in {"status", "read"}
  /\ task' = "head"
  /\ miscounted' = (miscounted \/ nwrote # 0)
  /\ nevt' = 0
  /\ nwrote' = 0
  /\ faults' = faults + 1
  /\ UNCHANGED <<machineVars, stage, taking, buffer, sharedVars, isRunning, file, loaded,
                 mixed, onFile, unheard, fresh>>

Least(m, n) == IF m < n THEN m ELSE n

WriteEvent ==
  /\ task = "read"
  /\ buffer # <<>>
  /\ buffer' = Tail(buffer)
  /\ nwrote' = (nwrote + 1) % CountSize
  /\ written' = Least(written + 1, ChunkSize * (MaxChunk + 1))
  /\ nevt' = nevt - 1
  /\ task' = IF nevt = 1 THEN "close" ELSE "read"
  /\ onFile' = IF miscounted THEN 0 ELSE (onFile + 1) % CountSize
  /\ mixed' = (mixed \/ file[1] # Head(buffer))
  /\ UNCHANGED <<machineVars, stage, taking, queue, fileRun, cnt, eventsReadout, isRunning,
                 file, loaded, miscounted, unheard, fresh, faults>>

(* The buffer was emptied under the loop, or a read of the AMC13 brings no event but an  *)
(* error: the events not read yet are left to the next round of dumpData().          *)
NoMoreEvents ==
  /\ task = "read"
  /\ \/ buffer = <<>> /\ UNCHANGED faults
     \/ buffer # <<>> /\ faults < MaxFaults /\ faults' = faults + 1
  /\ task' = "close"
  /\ nevt' = 0
  /\ UNCHANGED <<machineVars, stage, taking, buffer, sharedVars, isRunning, file, nwrote,
                 loaded, historyVars>>

(* A chunk is full, or the second or a later one has been open for 30 seconds. *)
CloseChunk ==
  /\ task = "close"
  /\ LET full == written \div ChunkSize > cnt
     IN  \/ cnt' = IF full THEN Least(cnt + 1, MaxChunk) ELSE cnt
         \/ cnt > 0 /\ cnt' = Least(cnt + 1, MaxChunk)
  /\ task' = "status"
  /\ UNCHANGED <<machineVars, stage, taking, buffer, queue, fileRun, written, eventsReadout,
                 isRunning, file, nevt, nwrote, loaded, historyVars, faults>>

LoadCount ==
  /\ task = "load"
  /\ loaded' = eventsReadout
  /\ task' = "store"
  /\ UNCHANGED <<machineVars, stage, taking, buffer, sharedVars, isRunning, file, nevt,
                 nwrote, historyVars, faults>>

StoreLast ==                   (* fault: the count of the last call only *)
  /\ task = "store"
  /\ eventsReadout' = nwrote
  /\ task' = "head"
  /\ nwrote' = 0
  /\ loaded' = 0
  /\ UNCHANGED <<machineVars, stage, taking, buffer, queue, fileRun, cnt, written, isRunning,
                 file, nevt, historyVars, faults>>

StoreCount ==
  /\ task = "store"
  /\ eventsReadout' = (loaded + nwrote) % CountSize
  /\ task' = "head"
  /\ nwrote' = 0
  /\ loaded' = 0
  /\ UNCHANGED <<machineVars, stage, taking, buffer, queue, fileRun, cnt, written, isRunning,
                 file, nevt, historyVars, faults>>

-----------------------------------------------------------------------------
TransitionSteps ==
  \/ ManagerInitializes \/ ManagerStarts \/ ManagerResumes \/ ManagerDisables
  \/ ManagerHalts \/ ManagerIgnores
  \/ ReadoutInitializes \/ ReadoutIgnores
  \/ ReadoutStartsAfresh \/ ReadoutNamesFile \/ ReadoutStarts
  \/ ReadoutQueues("Pause", "CMD_PAUSE")
  \/ ReadoutQueues("Resume", "CMD_RESUME")
  \/ ReadoutQueues("Stop", "CMD_STOP")
  \/ ReadoutQueues("Halt", "CMD_STOP")

TaskSteps ==
  \/ TakeCommand \/ NextDump
  \/ OpenChunk \/ BufferIsEmpty \/ WriteEvent \/ NoMoreEvents \/ CloseChunk
  \/ LoadCount \/ StoreCount

ReadoutNext ==
  \/ \E c \in Commands : Command(c)
  \/ TransitionSteps
  \/ ReadoutFailsToInitialize
  \/ Event
  \/ TaskSteps
  \/ AccessRaises

(* Both threads run.  Neither commands nor events are bound to come. *)
ReadoutSpec ==
  /\ ReadoutInit /\ [][ReadoutNext]_readoutVars
  /\ WF_readoutVars(TransitionSteps)
  /\ WF_readoutVars(TaskSteps)

-----------------------------------------------------------------------------
(* In a run that began with the task at rest and no event to be read, every event   *)
(* goes to the files of its run: the name changes only when nothing is being        *)
(* written, and no event comes before the readout has the new name, as the manager   *)
(* starts after it.  (A run that begins with events left over, or while dumpData()   *)
(* still runs, mixes the two runs' events; so does one after a Halt, which leaves    *)
(* the AMC13's own triggers on.)                                                *)
FilesArePure == fresh => ~mixed

(* The published count is that of the events on file, whenever the task rests,     *)
(* although dumpData() returns it piece by piece and Initialize sets it to zero     *)
(* from another thread.                                                        *)
CountIsTrue == AtRest /\ ~miscounted => eventsReadout = onFile

(* Once it has taken all its commands the task runs if and only if the readout is   *)
(* Running, also after a Reset in the middle of a run, of which it hears nothing    *)
(* before the next Initialize.  (Error can be left by Halt: a readout whose first    *)
(* Initialize failed is then started without a task, and the command is kept for     *)
(* the task of a later Initialize.)                                             *)
TaskFollowsState ==
  /\ ~unheard
  /\ state \in {"Halted", "Configured", "Running", "Paused"}
  /\ task # "none"
  /\ queue = <<>>
  => (isRunning <=> state = "Running")

(* When the events have ended, a Stop, Pause or Halt reaches the task. *)
StopIsHonoured ==
  (state \in {"Halted", "Configured", "Paused"} /\ taking = 0 /\ task # "none" /\ ~unheard)
    ~> (AtRest \/ state \notin {"Halted", "Configured", "Paused"})
=============================================================================
