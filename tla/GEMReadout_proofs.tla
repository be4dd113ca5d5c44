-------------------------- MODULE GEMReadout_proofs --------------------------
(***************************************************************************)
(* Proofs about the readout of events to files, for every size of a chunk and  *)
(* of the counts, every length of the buffer and of the queue, and every number  *)
(* of runs and of accesses that raise.                                        *)
(***************************************************************************)
EXTENDS GEMReadout, SequenceTheorems, TLAPS

(* Where startAction() and the task are.                                        *)
PlaceInv ==
  /\ task = "read" => nevt >= 1
  /\ stage # "settings" => state = "Starting" /\ "AMC13Readout" \in remaining

(* The types, with the places.                                                          *)
ReadoutTypes == ReadoutTypeOK /\ PlaceInv

(* The published count, with what the task holds back, is that of the events on     *)
(* file.  What it holds back is nothing while it waits for commands.              *)
CountInv ==
  /\ task \in {"none", "head"} => nwrote = 0
  /\ ~miscounted => IF task = "store"
                    THEN loaded = eventsReadout /\ onFile = (loaded + nwrote) % CountSize
                    ELSE onFile = (eventsReadout + nwrote) % CountSize

(* A run has begun, and its file has not got its name yet.                         *)
Unnamed == state = "Starting" /\ "AMC13Readout" \in remaining /\ stage # "push"

(* In a fresh run nothing moves before the file has its name, and everything that     *)
(* moves later is of the run.                                                    *)
PureInv ==
  fresh => /\ ~mixed
           /\ IF Unnamed
              THEN taking = 0 /\ buffer = <<>> /\ AtRest
              ELSE /\ fileRun = run /\ taking \in {0, run}
                   /\ \A i \in DOMAIN buffer : buffer[i] = run
                   /\ task = "read" => file[1] = run

(* What the task will be doing once it has taken its commands.                       *)
Heard == IF queue = <<>> THEN isRunning ELSE Applied(queue[Len(queue)])

(* The readout itself has been told to be at rest, or has never been told otherwise.  *)
ToldToRest ==
  \/ state \in {"Halted", "Configured", "Paused", "Configuring"}
  \/ state \in {"Initializing", "Halting", "Stopping", "Pausing"}
       /\ "AMC13Readout" \notin remaining
  \/ state \in {"Starting", "Resuming"} /\ "AMC13Readout" \in remaining

(* The readout itself has been told to run.                                        *)
ToldToRun ==
  \/ state = "Running"
  \/ state \in {"Starting", "Resuming"} /\ "AMC13Readout" \notin remaining

(* The last command that was queued is the one the state of the readout asks for.     *)
HeardInv ==
  ~unheard => IF task = "none"
              THEN queue = <<>> /\ ~isRunning
              ELSE (ToldToRest => ~Heard) /\ (ToldToRun => Heard)

(* The inductive invariant of the readout.                                              *)
ReadoutInv == ReadoutTypes /\ CountInv /\ PureInv /\ HeardInv

-----------------------------------------------------------------------------
(* What the tables of the machine say of a transition.                             *)
LEMMA Table ==
  /\ Via["Initialize"] = "Initializing" /\ Settled["Initializing"] = "Halted"
  /\ Via["Configure"] = "Configuring" /\ Settled["Configuring"] = "Configured"
  /\ Via["Start"] = "Starting" /\ Settled["Starting"] = "Running"
  /\ Via["Pause"] = "Pausing" /\ Settled["Pausing"] = "Paused"
  /\ Via["Resume"] = "Resuming" /\ Settled["Resuming"] = "Running"
  /\ Via["Stop"] = "Stopping" /\ Settled["Stopping"] = "Configured"
  /\ Via["Halt"] = "Halting" /\ Settled["Halting"] = "Halted"
  /\ Via["Reset"] = "Resetting" /\ Settled["Resetting"] = "Initial"
  BY DEF Via, Settled, Commands, TransitionalStates

(* Where the commands are accepted, as far as the readout tells the states apart.    *)
LEMMA SourcesTable ==
  /\ Sources["Initialize"] = {"Initial"}
  /\ Sources["Configure"] = {"Halted", "Configured"}
  /\ Sources["Start"] = {"Configured"}
  /\ Sources["Pause"] = {"Running"}
  /\ Sources["Resume"] = {"Paused"}
  /\ Sources["Stop"] = {"Configured", "Running", "Paused"}
  /\ Sources["Halt"] = {"Configured", "Running", "Error", "Halted", "Paused"}
  /\ Sources["Reset"] = {"Initial", "Halted", "Configured", "Running", "Paused", "Error"}
  BY DEF Sources, Commands, SteadyStates, ReadyStates

(* The readout is started before the manager, which starts the events.               *)
LEMMA ReadoutGoesFirst == ~(Rank("Start", "AMC13Manager") >= Rank("Start", "AMC13Readout"))
<1>1. {"AMC13Manager", "AMC13Readout"} \subseteq Classes
  BY DEF Classes, TCDSClasses, AMCClasses
<1>2. /\ EnablePriority["AMC13Manager"] = 35
      /\ EnablePriority["AMC13Readout"] = 90
  BY <1>1 DEF EnablePriority, AMCClasses
<1>3. \A k : Rank("Start", k) = EnablePriority[k]
  BY DEF Rank
<1> QED
  BY <1>2, <1>3

(* What the turn of an application does to the machines.                            *)
LEMMA TurnFacts ==
  ASSUME ReadoutTypes, NEW m \in Readers, NEW c \in Commands, Turn(m, c)
  PROVE  /\ m \in remaining /\ state = Via[c]
         /\ remaining' = remaining \ {m} /\ remaining' \subseteq Readers
         /\ state' \in {Via[c], Settled[Via[c]]} /\ state' \in States
         /\ remaining' # {} => state' = Via[c]
         /\ run' = run /\ local' = local
         /\ stage # "settings" => c = "Start"
         /\ m = "AMC13Manager" /\ c = "Start" => "AMC13Readout" \notin remaining
<1>1. /\ m \in remaining /\ state = Via[c]
      /\ remaining' = remaining \ {m}
      /\ state' = IF remaining' = {} THEN Settled[state] ELSE state
      /\ run' = run /\ local' = local
      /\ \A n \in remaining : Rank(c, m) >= Rank(c, n)
  BY DEF Turn
<1>2. remaining \subseteq Readers
  BY DEF ReadoutTypes, ReadoutTypeOK
<1>3. Via[c] \in States /\ Settled[Via[c]] \in States
  BY Table DEF Commands, States, TransitionalStates, SteadyStates, ReadyStates
<1>4. stage # "settings" => state = "Starting"
  BY DEF ReadoutTypes, PlaceInv
<1>5. Via[c] = "Starting" => c = "Start"
  BY Table DEF Commands
<1>6. m = "AMC13Manager" /\ c = "Start" => "AMC13Readout" \notin remaining
  BY <1>1, ReadoutGoesFirst
<1> QED
  BY <1>1, <1>2, <1>3, <1>4, <1>5, <1>6

(* A sum of two counts, taken modulo the size of the counts.                         *)
LEMMA SumModulo ==
  ASSUME NEW a \in 0..(CountSize - 1), NEW b \in 0..CountSize
  PROVE  /\ (a + b) % CountSize = IF a + b < CountSize THEN a + b ELSE a + b - CountSize
         /\ (a + b) % CountSize \in 0..(CountSize - 1)
<1>1. CountSize \in Nat \ {0}
  BY ReadoutBounds
<1>2. CASE a + b < CountSize
  BY <1>1, <1>2
<1>3. CASE a + b >= CountSize
  <2>1. a + b - CountSize \in 0..(CountSize - 1)
    BY <1>1, <1>3
  <2>2. (a + b - CountSize) % CountSize = a + b - CountSize
    BY <1>1, <2>1
  <2>3. (a + b) % CountSize = (a + b - CountSize) % CountSize
    BY <1>1, <1>3
  <2> QED
    BY <1>1, <1>3, <2>1, <2>2, <2>3
<1> QED
  BY <1>1, <1>2, <1>3

-----------------------------------------------------------------------------
(* Types, and the places of the threads.                                          *)

(* The number of events that are counted in the chunks at most.                     *)
LEMMA CapIsNat == ChunkSize * (MaxChunk + 1) \in Nat
  BY ReadoutBounds

(* The part of the types that the transitions write.                               *)
Machines ==
  /\ state \in States
  /\ remaining \subseteq Readers
  /\ stage \in {"settings", "name", "push"}
  /\ stage # "settings" => state = "Starting" /\ "AMC13Readout" \in remaining
  /\ {run, taking, fileRun} \subseteq Runs

(* The part that both threads write.                                              *)
Shared ==
  /\ buffer \in Seq(1..MaxRuns) /\ Len(buffer) <= BufferSize
  /\ queue \in Seq(ReadoutCommands)
  /\ cnt \in 0..MaxChunk
  /\ written \in 0..(ChunkSize * (MaxChunk + 1))
  /\ {eventsReadout, nwrote, loaded, onFile} \subseteq 0..(CountSize - 1)

(* The part of the task.                                                        *)
TaskTypes ==
  /\ task \in {"none", "head", "status", "read", "close", "load", "store"}
  /\ isRunning \in BOOLEAN
  /\ file \in Runs \X (0..MaxChunk)
  /\ nevt \in 0..BufferSize
  /\ task = "read" => nevt >= 1

(* The types in four parts, before and after a step.                                    *)
LEMMA TypesParts ==
  /\ ReadoutTypes <=> Machines /\ Shared /\ TaskTypes
  /\ ReadoutTypes' <=> Machines' /\ Shared' /\ TaskTypes'
  BY DEF ReadoutTypes, ReadoutTypeOK, PlaceInv, Machines, Shared, TaskTypes

(* At first.                                                                     *)
LEMMA InitTypes == ReadoutInit => ReadoutTypes
<1> SUFFICES ASSUME ReadoutInit PROVE ReadoutTypes
  OBVIOUS
<1>1. Machines
  BY ReadoutBounds
  DEF ReadoutInit, Machines, Readers, Runs, States, SteadyStates, ReadyStates
<1>2. Shared
  BY ReadoutBounds, CapIsNat DEF ReadoutInit, Shared
<1>3. TaskTypes
  <2>1. 0 \in Runs /\ 0 \in 0..MaxChunk /\ 0 \in 0..BufferSize
    BY ReadoutBounds DEF Runs
  <2>2. file \in Runs \X (0..MaxChunk) /\ task = "none" /\ isRunning = FALSE /\ nevt = 0
    BY <2>1 DEF ReadoutInit
  <2> QED
    BY <2>1, <2>2 DEF TaskTypes
<1> QED
  BY <1>1, <1>2, <1>3, TypesParts

(* A step that leaves the machine alone keeps its types.                                *)
LEMMA SameMachines ==
  ASSUME Machines, UNCHANGED <<state, remaining, stage, run, taking, fileRun>>
  PROVE  Machines'
  BY DEF Machines

(* A step that leaves queue and buffer alone keeps their types.                         *)
LEMMA SameShared ==
  ASSUME Shared, UNCHANGED <<buffer, queue, cnt, written, eventsReadout, nwrote, loaded, onFile>>
  PROVE  Shared'
  BY DEF Shared

(* A step that leaves the task alone keeps its types.                                   *)
LEMMA SameTaskTypes ==
  ASSUME TaskTypes, UNCHANGED <<task, isRunning, file, nevt>>
  PROVE  TaskTypes'
  BY DEF TaskTypes

(* A turn keeps the types of the machines.                                        *)
LEMMA TurnMachines ==
  ASSUME ReadoutTypes, NEW m \in Readers, NEW c \in Commands, Turn(m, c),
         taking' \in Runs, fileRun' = fileRun,
         stage' = IF m = "AMC13Readout" THEN "settings" ELSE stage
  PROVE  Machines'
<1>1. /\ remaining' = remaining \ {m} /\ remaining' \subseteq Readers
      /\ state' \in States /\ run' = run
      /\ state = Via[c]
      /\ remaining' # {} => state' = Via[c]
  BY TurnFacts
<1>2. Machines
  BY TypesParts
<1>3. stage' # "settings" => state' = "Starting" /\ "AMC13Readout" \in remaining'
  BY <1>1, <1>2 DEF Machines
<1> QED
  BY <1>1, <1>2, <1>3 DEF Machines

(* The readout's own turns: what they write is a command more, and the count.          *)
LEMMA QueueShared ==
  ASSUME Shared, NEW cmd \in ReadoutCommands,
         queue' \in {queue, Append(queue, cmd)},
         eventsReadout' \in {eventsReadout, 0},
         onFile' \in {onFile, 0},
         UNCHANGED <<buffer, cnt, written, nwrote, loaded>>
  PROVE  Shared'
<1>1. queue' \in Seq(ReadoutCommands)
  <2>1. queue \in Seq(ReadoutCommands)
    BY DEF Shared
  <2>2. Append(queue, cmd) \in Seq(ReadoutCommands)
    BY <2>1
  <2> QED
    BY <2>1, <2>2
<1>2. {eventsReadout', nwrote', loaded', onFile'} \subseteq 0..(CountSize - 1)
  BY ReadoutBounds DEF Shared
<1> QED
  BY <1>1, <1>2 DEF Shared

(* A transition command keeps the types.                                                *)
LEMMA CommandTypes ==
  ASSUME ReadoutTypes, NEW c \in Commands, Command(c)
  PROVE  ReadoutTypes'
<1>1. /\ state' = Via[c] /\ remaining' = Readers /\ remaining = {}
      /\ run' = IF c = "Start" THEN run + 1 ELSE run
      /\ c = "Start" => run < MaxRuns
      /\ UNCHANGED <<stage, taking, fileRun>>
      /\ UNCHANGED <<buffer, queue, cnt, written, eventsReadout, nwrote, loaded, onFile>>
      /\ UNCHANGED <<task, isRunning, file, nevt>>
  BY DEF Command, sharedVars, taskVars
<1>2. Machines /\ Shared /\ TaskTypes
  BY TypesParts
<1>3. Via[c] \in States
  BY Table DEF Commands, States, TransitionalStates
<1>4. run' \in Runs
  BY <1>1, <1>2, ReadoutBounds DEF Machines, Runs
<1>5. Machines'
  BY <1>1, <1>2, <1>3, <1>4 DEF Machines
<1> QED
  BY <1>1, <1>2, <1>5, SameShared, SameTaskTypes, TypesParts

(* The steps of the other managers keep the types.                                      *)
LEMMA ManagerTypes ==
  ASSUME ReadoutTypes,
         \/ ManagerInitializes \/ ManagerStarts \/ ManagerResumes \/ ManagerDisables
         \/ ManagerHalts \/ ManagerIgnores
  PROVE  ReadoutTypes'
<1>1. /\ \E c \in Commands : Turn("AMC13Manager", c)
      /\ taking' \in {0, taking, run}
      /\ buffer' \in {<<>>, buffer}
      /\ UNCHANGED <<stage, fileRun>>
      /\ UNCHANGED <<queue, cnt, written, eventsReadout, nwrote, loaded, onFile>>
      /\ UNCHANGED <<task, isRunning, file, nevt>>
  BY DEF ManagerInitializes, ManagerStarts, ManagerResumes, ManagerDisables, ManagerHalts,
         ManagerIgnores, sharedVars, taskVars, historyVars, Commands
<1>2. PICK c \in Commands : Turn("AMC13Manager", c)
  BY <1>1
<1>3. Machines /\ Shared /\ TaskTypes
  BY TypesParts
<1>4. taking' \in Runs
  BY <1>1, <1>3, ReadoutBounds DEF Machines, Runs
<1>5. Machines'
  BY <1>1, <1>2, <1>4, TurnMachines DEF Readers
<1>6. buffer' \in Seq(1..MaxRuns) /\ Len(buffer') <= BufferSize
  <2>1. CASE buffer' = <<>>
    BY <2>1, ReadoutBounds
  <2>2. CASE buffer' = buffer
    BY <1>3, <2>2 DEF Shared
  <2> QED
    BY <1>1, <2>1, <2>2
<1>7. Shared'
  BY <1>1, <1>3, <1>6 DEF Shared
<1> QED
  BY <1>1, <1>3, <1>5, <1>7, SameTaskTypes, TypesParts

(* A turn of the readout that queues a command, or none.                            *)
ReadoutTurns ==
  \/ ReadoutInitializes \/ ReadoutIgnores \/ ReadoutStarts
  \/ ReadoutQueues("Pause", "CMD_PAUSE")
  \/ ReadoutQueues("Resume", "CMD_RESUME")
  \/ ReadoutQueues("Stop", "CMD_STOP")
  \/ ReadoutQueues("Halt", "CMD_STOP")

(* The end of the readout's own action keeps the types.                                 *)
LEMMA ReadoutTurnsTypes ==
  ASSUME ReadoutTypes, ReadoutTurns
  PROVE  ReadoutTypes'
<1>1. /\ \E c \in Commands : Turn("AMC13Readout", c)
      /\ stage' = "settings"
      /\ UNCHANGED <<taking, fileRun>>
      /\ UNCHANGED <<isRunning, file, nevt>>
      /\ UNCHANGED <<buffer, cnt, written, nwrote, loaded>>
      /\ task' \in {task, "head"}
      /\ \E cmd \in ReadoutCommands : queue' \in {queue, Append(queue, cmd)}
      /\ eventsReadout' \in {eventsReadout, 0}
      /\ onFile' \in {onFile, 0}
  <2>1. \A c \in Commands : Turn("AMC13Readout", c) /\ c # "Start" => stage = "settings"
    BY TurnFacts DEF Readers
  <2>2. CASE ReadoutInitializes
    BY <2>1, <2>2 DEF ReadoutInitializes, ReadoutCommands, Commands
  <2>3. CASE ReadoutIgnores
    BY <2>1, <2>3
    DEF ReadoutIgnores, ReadoutCommands, Commands, sharedVars, taskVars, historyVars
  <2>4. CASE ReadoutStarts
    BY <2>4 DEF ReadoutStarts, ReadoutCommands, Commands, taskVars
  <2>5. CASE ReadoutQueues("Pause", "CMD_PAUSE")
    BY <2>1, <2>5 DEF ReadoutQueues, ReadoutCommands, Commands, taskVars
  <2>6. CASE ReadoutQueues("Resume", "CMD_RESUME")
    BY <2>1, <2>6 DEF ReadoutQueues, ReadoutCommands, Commands, taskVars
  <2>7. CASE ReadoutQueues("Stop", "CMD_STOP")
    BY <2>1, <2>7 DEF ReadoutQueues, ReadoutCommands, Commands, taskVars
  <2>8. CASE ReadoutQueues("Halt", "CMD_STOP")
    BY <2>1, <2>8 DEF ReadoutQueues, ReadoutCommands, Commands, taskVars
  <2> QED
    BY <2>2, <2>3, <2>4, <2>5, <2>6, <2>7, <2>8 DEF ReadoutTurns
<1>2. Machines /\ Shared /\ TaskTypes
  BY TypesParts
<1>3. taking' \in Runs
  BY <1>1, <1>2 DEF Machines
<1>4. Machines'
  BY <1>1, <1>3, TurnMachines DEF Readers
<1>5. Shared'
  BY <1>1, <1>2, QueueShared
<1>6. TaskTypes'
  BY <1>1, <1>2 DEF TaskTypes
<1> QED
  BY <1>4, <1>5, <1>6, TypesParts

(* The other steps of the supervisor's thread, and the events.                        *)
LEMMA OtherTypes ==
  ASSUME ReadoutTypes,
         ReadoutStartsAfresh \/ ReadoutNamesFile \/ ReadoutFailsToInitialize \/ Event
  PROVE  ReadoutTypes'
<1>1. Machines /\ Shared /\ TaskTypes
  BY TypesParts
<1>2. CASE ReadoutStartsAfresh
  <2>1. /\ state = "Starting" /\ "AMC13Readout" \in remaining
        /\ stage' = "name" /\ cnt' = 0 /\ written' = 0
        /\ UNCHANGED <<state, remaining, run, taking, fileRun>>
        /\ UNCHANGED <<buffer, queue, eventsReadout, nwrote, loaded, onFile>>
        /\ UNCHANGED <<task, isRunning, file, nevt>>
    BY <1>2 DEF ReadoutStartsAfresh, machineVars, taskVars, historyVars
  <2>2. Machines'
    BY <1>1, <2>1 DEF Machines
  <2>3. Shared'
    BY <1>1, <2>1, ReadoutBounds, CapIsNat DEF Shared
  <2> QED
    BY <1>1, <2>1, <2>2, <2>3, SameTaskTypes, TypesParts
<1>3. CASE ReadoutNamesFile
  <2>1. /\ stage = "name" /\ stage' = "push" /\ fileRun' = run
        /\ UNCHANGED <<state, remaining, run, taking>>
        /\ UNCHANGED <<buffer, queue, cnt, written, eventsReadout, nwrote, loaded, onFile>>
        /\ UNCHANGED <<task, isRunning, file, nevt>>
    BY <1>3 DEF ReadoutNamesFile, machineVars, taskVars, historyVars
  <2>2. Machines'
    BY <1>1, <2>1 DEF Machines
  <2> QED
    BY <1>1, <2>1, <2>2, SameShared, SameTaskTypes, TypesParts
<1>4. CASE ReadoutFailsToInitialize
  <2>1. /\ state = "Initializing" /\ state' = "Error" /\ remaining' = {}
        /\ UNCHANGED <<stage, run, taking, fileRun>>
        /\ UNCHANGED <<buffer, queue, cnt, written, eventsReadout, nwrote, loaded, onFile>>
        /\ UNCHANGED <<task, isRunning, file, nevt>>
    BY <1>4 DEF ReadoutFailsToInitialize, sharedVars, taskVars, historyVars
  <2>2. Machines'
    BY <1>1, <2>1 DEF Machines, States, SteadyStates
  <2> QED
    BY <1>1, <2>1, <2>2, SameShared, SameTaskTypes, TypesParts
<1>5. CASE Event
  <2>1. /\ taking # 0 /\ Len(buffer) < BufferSize /\ buffer' = Append(buffer, taking)
        /\ UNCHANGED <<state, remaining, stage, run, taking, fileRun>>
        /\ UNCHANGED <<queue, cnt, written, eventsReadout, nwrote, loaded, onFile>>
        /\ UNCHANGED <<task, isRunning, file, nevt>>
    BY <1>5 DEF Event, machineVars, sharedVars, taskVars, historyVars
  <2>2. taking \in 1..MaxRuns /\ buffer \in Seq(1..MaxRuns)
    <3>1. taking \in 0..MaxRuns
      BY <1>1 DEF Machines, Runs
    <3>2. taking \in 1..MaxRuns
      BY <2>1, <3>1, ReadoutBounds
    <3>3. buffer \in Seq(1..MaxRuns)
      BY <1>1 DEF Shared
    <3> QED
      BY <3>2, <3>3
  <2>3. buffer' \in Seq(1..MaxRuns) /\ Len(buffer') = Len(buffer) + 1
    BY <2>1, <2>2
  <2>4. Len(buffer') <= BufferSize
    BY <2>1, <2>2, <2>3, ReadoutBounds
  <2>5. Shared'
    BY <1>1, <2>1, <2>3, <2>4 DEF Shared
  <2> QED
    BY <1>1, <2>1, <2>5, SameMachines, SameTaskTypes, TypesParts
<1> QED
  BY <1>2, <1>3, <1>4, <1>5

(* The steps of the task, but for the one that writes an event.                        *)
LEMMA TaskStepsTypes ==
  ASSUME ReadoutTypes,
         \/ TakeCommand \/ NextDump \/ OpenChunk \/ BufferIsEmpty \/ AccessRaises
         \/ NoMoreEvents \/ CloseChunk \/ LoadCount \/ StoreCount
  PROVE  ReadoutTypes'
<1>1. Machines /\ Shared /\ TaskTypes
  BY TypesParts
<1>2. UNCHANGED <<state, remaining, stage, run, taking, fileRun, buffer, onFile, written>>
  BY DEF TakeCommand, NextDump, OpenChunk, BufferIsEmpty, AccessRaises, NoMoreEvents,
         CloseChunk, LoadCount, StoreCount, machineVars, sharedVars, taskVars, historyVars
<1>3. Machines'
  BY <1>1, <1>2, SameMachines
<1>4. CASE TakeCommand
  <2>1. /\ queue # <<>> /\ queue' = Tail(queue) /\ isRunning' = Applied(Head(queue))
        /\ task' \in {"status", "head"}
        /\ UNCHANGED <<cnt, eventsReadout, nwrote, loaded, file, nevt>>
    BY <1>4 DEF TakeCommand
  <2>2. queue' \in Seq(ReadoutCommands)
    BY <1>1, <2>1 DEF Shared
  <2>3. Shared'
    BY <1>1, <1>2, <2>1, <2>2 DEF Shared
  <2>4. isRunning' \in BOOLEAN
    BY <2>1 DEF Applied
  <2>5. TaskTypes'
    BY <1>1, <2>1, <2>4 DEF TaskTypes
  <2> QED
    BY <1>3, <2>3, <2>5, TypesParts
<1>5. CASE NextDump \/ BufferIsEmpty
  <2>1. /\ task' \in {"status", "head", "load"}
        /\ UNCHANGED <<buffer, queue, cnt, written, eventsReadout, nwrote, loaded, onFile>>
        /\ UNCHANGED <<isRunning, file, nevt>>
    BY <1>5 DEF NextDump, BufferIsEmpty, sharedVars, historyVars
  <2>2. TaskTypes'
    BY <1>1, <2>1 DEF TaskTypes
  <2> QED
    BY <1>1, <1>3, <2>1, <2>2, SameShared, TypesParts
<1>6. CASE OpenChunk
  <2>1. /\ buffer # <<>> /\ nevt' = Len(buffer) /\ file' = <<fileRun, cnt>> /\ task' = "read"
        /\ UNCHANGED <<buffer, queue, cnt, written, eventsReadout, nwrote, loaded, onFile>>
        /\ isRunning' = isRunning
    BY <1>6 DEF OpenChunk, sharedVars, historyVars
  <2>2. Len(buffer) \in 1..BufferSize
    <3>1. buffer \in Seq(1..MaxRuns) /\ Len(buffer) <= BufferSize
      BY <1>1 DEF Shared
    <3>2. Len(buffer) \in Nat /\ Len(buffer) # 0
      BY <2>1, <3>1
    <3> QED
      BY <3>1, <3>2, ReadoutBounds
  <2>3. file' \in Runs \X (0..MaxChunk)
    BY <1>1, <2>1 DEF Machines, Shared
  <2>4. nevt' \in 0..BufferSize /\ nevt' >= 1
    BY <2>1, <2>2, ReadoutBounds
  <2>5. TaskTypes'
    BY <1>1, <2>1, <2>3, <2>4 DEF TaskTypes
  <2> QED
    BY <1>1, <1>3, <2>1, <2>5, SameShared, TypesParts
<1>7. CASE AccessRaises \/ NoMoreEvents
  <2>1. /\ task' \in {"head", "close"} /\ nevt' = 0 /\ nwrote' \in {0, nwrote}
        /\ UNCHANGED <<buffer, queue, cnt, written, eventsReadout, loaded, onFile>>
        /\ UNCHANGED <<isRunning, file>>
    BY <1>7 DEF AccessRaises, NoMoreEvents, sharedVars, historyVars
  <2>2. 0 \in 0..BufferSize /\ 0 \in 0..(CountSize - 1)
    BY ReadoutBounds
  <2>3. TaskTypes'
    BY <1>1, <2>1, <2>2 DEF TaskTypes
  <2>4. Shared'
    BY <1>1, <2>1, <2>2 DEF Shared
  <2> QED
    BY <1>3, <2>3, <2>4, TypesParts
<1>8. CASE CloseChunk
  <2>1. /\ task' = "status" /\ cnt' \in {cnt, Least(cnt + 1, MaxChunk)}
        /\ UNCHANGED <<buffer, queue, written, eventsReadout, nwrote, loaded, onFile>>
        /\ UNCHANGED <<isRunning, file, nevt>>
    BY <1>8 DEF CloseChunk, historyVars
  <2>2. cnt \in 0..MaxChunk
    BY <1>1 DEF Shared
  <2>3. Least(cnt + 1, MaxChunk) \in 0..MaxChunk
    BY <2>2, ReadoutBounds DEF Least
  <2>4. TaskTypes'
    BY <1>1, <2>1 DEF TaskTypes
  <2>5. Shared'
    BY <1>1, <2>1, <2>2, <2>3 DEF Shared
  <2> QED
    BY <1>3, <2>4, <2>5, TypesParts
<1>9. CASE LoadCount \/ StoreCount
  <2>1. /\ task' \in {"store", "head"}
        /\ loaded' \in {eventsReadout, 0} /\ nwrote' \in {nwrote, 0}
        /\ eventsReadout' \in {eventsReadout, (loaded + nwrote) % CountSize}
        /\ UNCHANGED <<buffer, queue, cnt, written, onFile>>
        /\ UNCHANGED <<isRunning, file, nevt>>
    BY <1>9 DEF LoadCount, StoreCount, sharedVars, historyVars
  <2>2. {eventsReadout, loaded, nwrote, 0} \subseteq 0..(CountSize - 1)
    BY <1>1, ReadoutBounds DEF Shared
  <2>3. (loaded + nwrote) % CountSize \in 0..(CountSize - 1)
    <3>1. loaded \in 0..(CountSize - 1) /\ nwrote \in 0..CountSize
      BY <2>2, ReadoutBounds
    <3> QED
      BY <3>1, SumModulo
  <2>4. TaskTypes'
    BY <1>1, <2>1 DEF TaskTypes
  <2>5. {eventsReadout', nwrote', loaded', onFile'} \subseteq 0..(CountSize - 1)
    BY <1>1, <2>1, <2>2, <2>3 DEF Shared
  <2>6. Shared'
    BY <1>1, <2>1, <2>5 DEF Shared
  <2> QED
    BY <1>3, <2>4, <2>6, TypesParts
<1> QED
  BY <1>4, <1>5, <1>6, <1>7, <1>8, <1>9

(* The writing of an event keeps the types.                                             *)
LEMMA WriteEventTypes ==
  ASSUME ReadoutTypes, WriteEvent
  PROVE  ReadoutTypes'
<1>1. Machines /\ Shared /\ TaskTypes
  BY TypesParts
<1>2. /\ task = "read" /\ buffer # <<>> /\ buffer' = Tail(buffer)
      /\ nwrote' = (nwrote + 1) % CountSize
      /\ written' = Least(written + 1, ChunkSize * (MaxChunk + 1))
      /\ nevt' = nevt - 1
      /\ task' = IF nevt = 1 THEN "close" ELSE "read"
      /\ onFile' \in {0, (onFile + 1) % CountSize}
      /\ UNCHANGED <<state, remaining, stage, run, taking, fileRun>>
      /\ UNCHANGED <<queue, cnt, eventsReadout, loaded, isRunning, file>>
  BY DEF WriteEvent, machineVars
<1>3. buffer' \in Seq(1..MaxRuns) /\ Len(buffer') <= BufferSize
  <2>1. buffer \in Seq(1..MaxRuns) /\ Len(buffer) <= BufferSize
    BY <1>1 DEF Shared
  <2>2. Tail(buffer) \in Seq(1..MaxRuns) /\ Len(Tail(buffer)) = Len(buffer) - 1
    BY <1>2, <2>1
  <2> QED
    BY <1>2, <2>1, <2>2, ReadoutBounds
<1>4. {eventsReadout', nwrote', loaded', onFile'} \subseteq 0..(CountSize - 1)
  <2>1. /\ {eventsReadout, nwrote, loaded, onFile, 0} \subseteq 0..(CountSize - 1)
        /\ 1 \in 0..CountSize
    BY <1>1, ReadoutBounds DEF Shared
  <2>2. /\ (nwrote + 1) % CountSize \in 0..(CountSize - 1)
        /\ (onFile + 1) % CountSize \in 0..(CountSize - 1)
    BY <2>1, SumModulo
  <2> QED
    BY <1>2, <2>1, <2>2
<1>5. written' \in 0..(ChunkSize * (MaxChunk + 1))
  <2> DEFINE cap == ChunkSize * (MaxChunk + 1)
  <2>1. cap \in Nat /\ written \in 0..cap
    BY <1>1, CapIsNat DEF Shared
  <2>2. written' = Least(written + 1, cap)
    BY <1>2
  <2> HIDE DEF cap
  <2>3. written' \in 0..cap
    BY <2>1, <2>2 DEF Least
  <2> QED
    BY <2>3 DEF cap
<1>6. Shared'
  BY <1>1, <1>2, <1>3, <1>4, <1>5 DEF Shared
<1>7. TaskTypes'
  <2>1. nevt \in 0..BufferSize /\ nevt >= 1
    BY <1>1, <1>2 DEF TaskTypes
  <2>2. nevt' \in 0..BufferSize /\ (nevt # 1 => nevt' >= 1)
    BY <1>2, <2>1, ReadoutBounds
  <2> QED
    BY <1>1, <1>2, <2>2 DEF TaskTypes
<1> QED
  BY <1>1, <1>2, <1>6, <1>7, SameMachines, TypesParts

(* A stuttering step keeps the types.                                                   *)
LEMMA SameTypes == ReadoutTypes /\ UNCHANGED readoutVars => ReadoutTypes'
<1> SUFFICES ASSUME ReadoutTypes, UNCHANGED readoutVars PROVE ReadoutTypes'
  OBVIOUS
<1>1. /\ UNCHANGED <<state, remaining, stage, run, taking, fileRun>>
      /\ UNCHANGED <<buffer, queue, cnt, written, eventsReadout, nwrote, loaded, onFile>>
      /\ UNCHANGED <<task, isRunning, file, nevt>>
  BY DEF readoutVars, machineVars, sharedVars, taskVars, historyVars
<1> QED
  BY <1>1, SameMachines, SameShared, SameTaskTypes, TypesParts

(* Every step, sorted into the groups above.                                       *)
LEMMA NextTypes == ReadoutTypes /\ [ReadoutNext]_readoutVars => ReadoutTypes'
<1> SUFFICES ASSUME ReadoutTypes, [ReadoutNext]_readoutVars PROVE ReadoutTypes'
  OBVIOUS
<1>1. ASSUME NEW c \in Commands, Command(c) PROVE ReadoutTypes'
  BY <1>1, CommandTypes
<1>2. CASE TransitionSteps
  BY <1>2, ManagerTypes, ReadoutTurnsTypes, OtherTypes DEF TransitionSteps, ReadoutTurns
<1>3. CASE TaskSteps
  BY <1>3, TaskStepsTypes, WriteEventTypes DEF TaskSteps
<1> QED
  BY <1>1, <1>2, <1>3, OtherTypes, TaskStepsTypes, SameTypes DEF ReadoutNext

(* The type invariant of the readout.                                             *)
THEOREM ReadoutTypeCorrect == ReadoutSpec => []ReadoutTypeOK
<1>1. ReadoutTypes => ReadoutTypeOK
  BY DEF ReadoutTypes
<1> QED
  BY InitTypes, NextTypes, <1>1, PTL DEF ReadoutSpec

-----------------------------------------------------------------------------
(* The published count.                                                         *)

LEMMA InitCount == ReadoutInit => CountInv
<1> SUFFICES ASSUME ReadoutInit PROVE CountInv
  OBVIOUS
<1>1. task = "none" /\ nwrote = 0 /\ eventsReadout = 0 /\ onFile = 0
  BY DEF ReadoutInit
<1>2. (0 + 0) % CountSize = 0
  BY ReadoutBounds
<1> QED
  BY <1>1, <1>2 DEF CountInv

(* A step that leaves the task and its counts alone keeps the count true.               *)
LEMMA SameCount ==
  ASSUME CountInv, UNCHANGED <<task, nwrote, miscounted, eventsReadout, loaded, onFile>>
  PROVE  CountInv'
  BY DEF CountInv

(* A count that is within its size is itself modulo that.                             *)
LEMMA CountsFit ==
  ASSUME ReadoutTypes
  PROVE  /\ {eventsReadout, nwrote, loaded, onFile} \subseteq 0..(CountSize - 1)
         /\ (eventsReadout + 0) % CountSize = eventsReadout
<1>1. {eventsReadout, nwrote, loaded, onFile} \subseteq 0..(CountSize - 1)
  BY DEF ReadoutTypes, ReadoutTypeOK
<1>2. eventsReadout \in 0..(CountSize - 1) /\ 0 \in 0..CountSize /\ CountSize \in Nat \ {0}
  BY <1>1, ReadoutBounds
<1>3. (eventsReadout + 0) % CountSize
        = IF eventsReadout + 0 < CountSize THEN eventsReadout + 0
                                           ELSE eventsReadout + 0 - CountSize
  BY <1>2, SumModulo
<1> QED
  BY <1>1, <1>2, <1>3

(* Initialize sets the count to zero, unseen by a task that is adding to it: then the   *)
(* count is given up, and otherwise both sides are zero.                             *)
LEMMA InitializeCount ==
  ASSUME ReadoutTypes, CountInv, ReadoutInitializes
  PROVE  CountInv'
<1>1. /\ eventsReadout' = 0 /\ onFile' = 0 /\ UNCHANGED <<nwrote, loaded>>
      /\ miscounted' = ~AtRest
      /\ task' = IF task = "none" THEN "head" ELSE task
  BY DEF ReadoutInitializes
<1>2. task' \in {"none", "head"} => nwrote' = 0
  BY <1>1 DEF CountInv
<1>3. ASSUME ~miscounted'
      PROVE  task' \in {"none", "head"} /\ onFile' = (eventsReadout' + nwrote') % CountSize
  <2>1. task \in {"none", "head"}
    BY <1>1, <1>3 DEF AtRest
  <2>2. task' = "head"
    BY <1>1, <2>1
  <2>3. (0 + 0) % CountSize = 0
    BY ReadoutBounds
  <2> QED
    BY <1>1, <1>2, <2>2, <2>3
<1> QED
  BY <1>2, <1>3 DEF CountInv

(* The count goes on while an event is written, and it is added up in two steps.       *)
LEMMA WriteCount ==
  ASSUME ReadoutTypes, CountInv, WriteEvent
  PROVE  CountInv'
<1>1. /\ task = "read" /\ task' \in {"close", "read"}
      /\ nwrote' = (nwrote + 1) % CountSize
      /\ onFile' = IF miscounted THEN 0 ELSE (onFile + 1) % CountSize
      /\ UNCHANGED <<eventsReadout, loaded, miscounted>>
  BY DEF WriteEvent
<1>2. ASSUME ~miscounted PROVE onFile' = (eventsReadout' + nwrote') % CountSize
  <2>1. onFile = (eventsReadout + nwrote) % CountSize
    BY <1>1, <1>2 DEF CountInv
  <2>2. /\ eventsReadout \in 0..(CountSize - 1) /\ nwrote \in 0..(CountSize - 1)
        /\ onFile \in 0..(CountSize - 1) /\ 1 \in 0..CountSize
        /\ nwrote \in 0..CountSize /\ CountSize \in Nat \ {0}
    BY CountsFit, ReadoutBounds
  <2>3. onFile = IF eventsReadout + nwrote < CountSize THEN eventsReadout + nwrote
                 ELSE eventsReadout + nwrote - CountSize
    BY <2>1, <2>2, SumModulo
  <2>4. nwrote' = IF nwrote + 1 < CountSize THEN nwrote + 1 ELSE nwrote + 1 - CountSize
    BY <1>1, <2>2, SumModulo
  <2>5. onFile' = IF onFile + 1 < CountSize THEN onFile + 1 ELSE onFile + 1 - CountSize
    <3>1. onFile' = (onFile + 1) % CountSize
      BY <1>1, <1>2
    <3> QED
      BY <2>2, <3>1, SumModulo
  <2>6. nwrote' \in 0..CountSize
    BY <2>2, <2>4
  <2>7. (eventsReadout + nwrote') % CountSize
          = IF eventsReadout + nwrote' < CountSize THEN eventsReadout + nwrote'
            ELSE eventsReadout + nwrote' - CountSize
    BY <2>2, <2>6, SumModulo
  <2>8. onFile' = (eventsReadout + nwrote') % CountSize
    BY <2>2, <2>3, <2>4, <2>5, <2>6, <2>7
  <2> QED
    BY <1>1, <2>8
<1> QED
  BY <1>1, <1>2 DEF CountInv

(* The steps of the task keep the count true.                                           *)
LEMMA TaskCount ==
  ASSUME ReadoutTypes, CountInv, TaskSteps \/ AccessRaises
  PROVE  CountInv'
<1>1. CASE TakeCommand
  <2>1. /\ task = "head" /\ task' \in {"head", "status"}
        /\ UNCHANGED <<nwrote, loaded, eventsReadout, onFile, miscounted>>
    BY <1>1 DEF TakeCommand, historyVars
  <2> QED
    BY <2>1 DEF CountInv
<1>2. CASE NextDump \/ OpenChunk \/ NoMoreEvents \/ CloseChunk
  <2>1. /\ task \in {"head", "status", "read", "close"}
        /\ task' \in {"status", "read", "close"}
        /\ UNCHANGED <<nwrote, loaded, eventsReadout, onFile, miscounted>>
    BY <1>2 DEF NextDump, OpenChunk, NoMoreEvents, CloseChunk, sharedVars, historyVars
  <2> QED
    BY <2>1 DEF CountInv
<1>3. CASE BufferIsEmpty
  <2>1. /\ task = "status" /\ task' = IF nwrote = 0 THEN "head" ELSE "load"
        /\ UNCHANGED <<nwrote, loaded, eventsReadout, onFile, miscounted>>
    BY <1>3 DEF BufferIsEmpty, sharedVars, historyVars
  <2> QED
    BY <2>1 DEF CountInv
<1>4. CASE WriteEvent
  BY <1>4, WriteCount
<1>5. CASE AccessRaises
  <2>1. /\ task \in {"status", "read"} /\ task' = "head" /\ nwrote' = 0
        /\ UNCHANGED <<loaded, eventsReadout, onFile>>
        /\ ~miscounted' => ~miscounted /\ nwrote = 0
    BY <1>5 DEF AccessRaises, sharedVars
  <2>2. ~miscounted' => onFile' = (eventsReadout' + nwrote') % CountSize
    BY <2>1 DEF CountInv
  <2> QED
    BY <2>1, <2>2 DEF CountInv
<1>6. CASE LoadCount
  <2>1. /\ task = "load" /\ task' = "store" /\ loaded' = eventsReadout
        /\ UNCHANGED <<nwrote, eventsReadout, onFile, miscounted>>
    BY <1>6 DEF LoadCount, sharedVars, historyVars
  <2> QED
    BY <2>1 DEF CountInv
<1>7. CASE StoreCount
  <2>1. /\ task = "store" /\ task' = "head" /\ nwrote' = 0
        /\ eventsReadout' = (loaded + nwrote) % CountSize
        /\ UNCHANGED <<onFile, miscounted>>
    BY <1>7 DEF StoreCount, historyVars
  <2>2. ASSUME ~miscounted PROVE onFile' = (eventsReadout' + nwrote') % CountSize
    <3>1. onFile = eventsReadout'
      BY <2>1, <2>2 DEF CountInv
    <3>2. onFile \in 0..(CountSize - 1) /\ CountSize \in Nat \ {0}
      BY CountsFit, ReadoutBounds
    <3>3. (onFile + 0) % CountSize = onFile
      BY <3>2
    <3> QED
      BY <2>1, <3>1, <3>3
  <2> QED
    BY <2>1, <2>2 DEF CountInv
<1> QED
  BY <1>1, <1>2, <1>3, <1>4, <1>5, <1>6, <1>7 DEF TaskSteps

(* Every step keeps the count true.                                                     *)
LEMMA NextCount == ReadoutTypes /\ CountInv /\ [ReadoutNext]_readoutVars => CountInv'
<1> SUFFICES ASSUME ReadoutTypes, CountInv, [ReadoutNext]_readoutVars PROVE CountInv'
  OBVIOUS
<1>1. ASSUME NEW c \in Commands, Command(c) PROVE CountInv'
  BY <1>1, SameCount DEF Command, sharedVars, taskVars
<1>2. CASE TransitionSteps
  <2>1. CASE ReadoutInitializes
    BY <2>1, InitializeCount
  <2>2. CASE ~ReadoutInitializes
    <3>1. UNCHANGED <<task, nwrote, miscounted, eventsReadout, loaded, onFile>>
      BY <1>2, <2>2
      DEF TransitionSteps, ManagerInitializes, ManagerStarts, ManagerResumes,
          ManagerDisables, ManagerHalts, ManagerIgnores, ReadoutIgnores,
          ReadoutStartsAfresh, ReadoutNamesFile, ReadoutStarts, ReadoutQueues,
          sharedVars, taskVars, historyVars
    <3> QED
      BY <3>1, SameCount
  <2> QED
    BY <2>1, <2>2
<1>3. CASE ReadoutFailsToInitialize \/ Event \/ UNCHANGED readoutVars
  BY <1>3, SameCount
  DEF ReadoutFailsToInitialize, Event, readoutVars, sharedVars, taskVars, historyVars
<1>4. CASE TaskSteps \/ AccessRaises
  BY <1>4, TaskCount
<1> QED
  BY <1>1, <1>2, <1>3, <1>4 DEF ReadoutNext

(* Whenever the task rests, the published count is that of the events on file.          *)
THEOREM CountIsAlwaysTrue == ReadoutSpec => []CountIsTrue
<1>1. ReadoutTypes /\ CountInv => CountIsTrue
  <2> SUFFICES ASSUME ReadoutTypes, CountInv, AtRest, ~miscounted PROVE eventsReadout = onFile
    BY DEF CountIsTrue
  <2>1. task \in {"none", "head"} /\ nwrote = 0
    BY DEF AtRest, CountInv
  <2>2. onFile = (eventsReadout + 0) % CountSize
    BY <2>1 DEF CountInv
  <2> QED
    BY <2>2, CountsFit
<1> QED
  BY InitTypes, NextTypes, InitCount, NextCount, <1>1, PTL DEF ReadoutSpec

-----------------------------------------------------------------------------
(* The files of a fresh run.                                                     *)

LEMMA InitPure == ReadoutInit => PureInv
  BY DEF ReadoutInit, PureInv, Unnamed

(* A step that touches no file, run or event keeps the files pure.                      *)
LEMMA SamePure ==
  ASSUME PureInv, UNCHANGED <<state, remaining, stage, run, fresh, mixed, taking, buffer,
                              queue, isRunning, task, fileRun, file>>
  PROVE  PureInv'
  BY DEF PureInv, Unnamed, AtRest

(* What holds of a run whose file has its name, and what it takes to keep it.          *)
Named ==
  /\ fileRun = run /\ taking \in {0, run}
  /\ \A i \in DOMAIN buffer : buffer[i] = run
  /\ task = "read" => file[1] = run

(* What is to be shown of the files, before and after a step.                           *)
LEMMA PureParts ==
  /\ PureInv <=> (fresh => ~mixed /\ IF Unnamed THEN taking = 0 /\ buffer = <<>> /\ AtRest
                                               ELSE Named)
  /\ PureInv' <=> (fresh' => ~mixed' /\ IF Unnamed' THEN taking' = 0 /\ buffer' = <<>> /\ AtRest'
                                                  ELSE Named')
  BY DEF PureInv, Named

(* A transition command keeps the files pure.                                           *)
LEMMA CommandPure ==
  ASSUME ReadoutTypes, PureInv, NEW c \in Commands, Command(c)
  PROVE  PureInv'
<1>1. /\ remaining = {} /\ remaining' = Readers /\ state' = Via[c]
      /\ run' = IF c = "Start" THEN run + 1 ELSE run
      /\ fresh' = IF c = "Start" THEN AtRest /\ taking = 0 /\ buffer = <<>> ELSE fresh
      /\ mixed' = (mixed /\ c # "Start")
      /\ UNCHANGED <<stage, taking, buffer, queue, fileRun, task, isRunning, file>>
  BY DEF Command, sharedVars, taskVars
<1>2. stage = "settings"
  BY <1>1 DEF ReadoutTypes, PlaceInv
<1>3. ~Unnamed
  BY <1>1 DEF Unnamed
<1>4. AtRest' <=> AtRest
  BY <1>1 DEF AtRest
<1>5. CASE c = "Start"
  <2>1. Unnamed' /\ ~mixed'
    BY <1>1, <1>2, <1>5, Table DEF Unnamed, Readers
  <2>2. fresh' => taking' = 0 /\ buffer' = <<>> /\ AtRest'
    BY <1>1, <1>4, <1>5
  <2> QED
    BY <2>1, <2>2, PureParts
<1>6. CASE c # "Start"
  <2>1. ~Unnamed' /\ (fresh' <=> fresh) /\ (mixed' <=> mixed) /\ run' = run
    <3>1. Via[c] # "Starting"
      BY <1>6, Table DEF Commands
    <3>2. ~Unnamed'
      BY <1>1, <3>1 DEF Unnamed
    <3>3. mixed' <=> mixed
      BY <1>1, <1>6
    <3>4. fresh' <=> fresh
      BY <1>1, <1>6
    <3>5. run' = run
      BY <1>1, <1>6
    <3> QED
      BY <3>2, <3>3, <3>4, <3>5
  <2>2. Named => Named'
    BY <1>1, <2>1 DEF Named
  <2> QED
    BY <1>3, <2>1, <2>2, PureParts
<1> QED
  BY <1>5, <1>6

(* The manager's turns come when the file has its name: in Start, the readout is first. *)
LEMMA ManagerPure ==
  ASSUME ReadoutTypes, PureInv,
         \/ ManagerInitializes \/ ManagerStarts \/ ManagerResumes \/ ManagerDisables
         \/ ManagerHalts \/ ManagerIgnores
  PROVE  PureInv'
<1>1. /\ \E c \in Commands : Turn("AMC13Manager", c)
      /\ taking' \in {0, taking, run}
      /\ buffer' \in {<<>>, buffer}
      /\ UNCHANGED <<stage, fileRun, fresh, mixed, queue, task, isRunning, file>>
  BY DEF ManagerInitializes, ManagerStarts, ManagerResumes, ManagerDisables, ManagerHalts,
         ManagerIgnores, sharedVars, taskVars, historyVars, Commands
<1>2. PICK c \in Commands : Turn("AMC13Manager", c)
  BY <1>1
<1>3. /\ state = Via[c] /\ state' \in {Via[c], Settled[Via[c]]}
      /\ remaining' \subseteq remaining /\ run' = run
      /\ c = "Start" => "AMC13Readout" \notin remaining
  BY <1>2, TurnFacts DEF Readers
<1>4. c # "Start" => Via[c] # "Starting"
  BY Table DEF Commands
<1>5. Settled[Via[c]] # "Starting"
  BY Table DEF Commands
<1>6. ~Unnamed /\ ~Unnamed'
  BY <1>3, <1>4, <1>5 DEF Unnamed
<1>7. ASSUME Named PROVE Named'
  <2>1. \A i \in DOMAIN buffer' : buffer'[i] = run
    BY <1>1, <1>7 DEF Named
  <2>2. taking' \in {0, run}
    BY <1>1, <1>7 DEF Named
  <2> QED
    BY <1>1, <1>3, <1>7, <2>1, <2>2 DEF Named
<1> QED
  BY <1>1, <1>6, <1>7, PureParts

(* The readout's turns: the file has had its name when the command is queued.           *)
LEMMA ReadoutTurnsPure ==
  ASSUME ReadoutTypes, PureInv, ReadoutTurns
  PROVE  PureInv'
<1>1. /\ UNCHANGED <<taking, fileRun, fresh, mixed, buffer, file, run>>
      /\ task' = task \/ task' = "head"
  BY DEF ReadoutTurns, ReadoutInitializes, ReadoutIgnores, ReadoutStarts, ReadoutQueues, Turn,
         sharedVars, taskVars, historyVars
<1>2. ~Unnamed
  <2>1. ASSUME NEW c \in Commands \ {"Start"}, Turn("AMC13Readout", c) PROVE ~Unnamed
    <3>1. state = Via[c]
      BY <2>1 DEF Turn
    <3>2. Via[c] # "Starting"
      BY Table DEF Commands
    <3> QED
      BY <3>1, <3>2 DEF Unnamed
  <2>2. CASE ReadoutStarts
    BY <2>2 DEF ReadoutStarts, Unnamed
  <2>3. CASE ~ReadoutStarts
    <3>1. \E c \in Commands \ {"Start"} : Turn("AMC13Readout", c)
      BY <2>3 DEF ReadoutTurns, ReadoutInitializes, ReadoutIgnores, ReadoutQueues, Commands
    <3> QED
      BY <2>1, <3>1
  <2> QED
    BY <2>2, <2>3
<1>3. ~Unnamed'
  <2>1. \E c \in Commands : Turn("AMC13Readout", c)
    BY DEF ReadoutTurns, ReadoutInitializes, ReadoutIgnores, ReadoutStarts, ReadoutQueues,
           Commands
  <2>2. "AMC13Readout" \notin remaining'
    BY <2>1, TurnFacts DEF Readers
  <2> QED
    BY <2>2 DEF Unnamed
<1>4. Named => Named'
  BY <1>1 DEF Named
<1> QED
  BY <1>1, <1>2, <1>3, <1>4, PureParts

(* The steps of startAction(), the failure of initializeAction() and an event keep the  *)
(* files pure.                                                                          *)
LEMMA OtherPure ==
  ASSUME ReadoutTypes, PureInv,
         ReadoutStartsAfresh \/ ReadoutNamesFile \/ ReadoutFailsToInitialize \/ Event
  PROVE  PureInv'
<1>1. CASE ReadoutStartsAfresh
  <2>1. /\ Unnamed /\ Unnamed'
        /\ UNCHANGED <<taking, fresh, mixed, buffer, queue, isRunning, task>>
    BY <1>1 DEF ReadoutStartsAfresh, Unnamed, machineVars, taskVars, historyVars
  <2>2. AtRest => AtRest'
    BY <2>1 DEF AtRest
  <2> QED
    BY <2>1, <2>2, PureParts
<1>2. CASE ReadoutNamesFile
  <2>1. /\ stage = "name" /\ stage' = "push" /\ fileRun' = run
        /\ UNCHANGED <<taking, fresh, mixed, buffer, queue, isRunning, task, run>>
    BY <1>2 DEF ReadoutNamesFile, machineVars, taskVars, historyVars
  <2>2. Unnamed /\ ~Unnamed'
    BY <2>1 DEF ReadoutTypes, PlaceInv, Unnamed
  <2>3. taking = 0 /\ buffer = <<>> /\ AtRest => Named'
    BY <2>1 DEF Named, AtRest
  <2> QED
    BY <2>1, <2>2, <2>3, PureParts
<1>3. CASE ReadoutFailsToInitialize
  <2>1. /\ state = "Initializing" /\ state' = "Error"
        /\ UNCHANGED <<taking, fresh, mixed, buffer, task, run, fileRun, file>>
    BY <1>3 DEF ReadoutFailsToInitialize, sharedVars, taskVars, historyVars
  <2>2. ~Unnamed /\ ~Unnamed' /\ (Named => Named')
    BY <2>1 DEF Unnamed, Named
  <2> QED
    BY <2>1, <2>2, PureParts
<1>4. CASE Event
  <2>1. /\ taking # 0 /\ buffer' = Append(buffer, taking)
        /\ UNCHANGED <<state, remaining, stage, taking, fresh, mixed, task, run, fileRun, file>>
    BY <1>4 DEF Event, machineVars, sharedVars, taskVars, historyVars
  <2>2. (Unnamed' <=> Unnamed) /\ (Unnamed => ~fresh)
    BY <2>1, PureParts DEF Unnamed
  <2>3. ASSUME Named PROVE Named'
    <3>1. buffer \in Seq(1..MaxRuns) /\ taking = run
      BY <2>1, <2>3 DEF ReadoutTypes, ReadoutTypeOK, Named
    <3>2. \A i \in DOMAIN buffer' : buffer'[i] = run
      <4>1. \A i \in 1..Len(buffer) : buffer[i] = run
        BY <2>3, <3>1 DEF Named
      <4>2. DOMAIN buffer' = 1..(Len(buffer) + 1)
        BY <2>1, <3>1
      <4>3. \A i \in 1..(Len(buffer) + 1) :
              buffer'[i] = IF i <= Len(buffer) THEN buffer[i] ELSE taking
        BY <2>1, <3>1
      <4> QED
        BY <3>1, <4>1, <4>2, <4>3
    <3> QED
      BY <2>1, <2>3, <3>2 DEF Named
  <2> QED
    BY <2>1, <2>2, <2>3, PureParts
<1> QED
  BY <1>1, <1>2, <1>3, <1>4

(* The task never moves before the file has its name, as it is at rest until then.       *)
LEMMA TaskPure ==
  ASSUME ReadoutTypes, PureInv, TaskSteps \/ AccessRaises
  PROVE  PureInv'
<1>1. UNCHANGED <<state, remaining, stage, run, taking, fileRun, fresh>>
  BY DEF TaskSteps, TakeCommand, NextDump, OpenChunk, BufferIsEmpty, AccessRaises, WriteEvent,
         NoMoreEvents, CloseChunk, LoadCount, StoreCount, machineVars, sharedVars, historyVars
<1>2. ~AtRest
  BY DEF TaskSteps, TakeCommand, NextDump, OpenChunk, BufferIsEmpty, AccessRaises, WriteEvent,
         NoMoreEvents, CloseChunk, LoadCount, StoreCount, AtRest
<1>3. (Unnamed' <=> Unnamed) /\ (Unnamed => ~fresh)
  BY <1>1, <1>2, PureParts DEF Unnamed
<1>4. CASE WriteEvent
  <2>1. /\ task = "read" /\ buffer # <<>> /\ buffer' = Tail(buffer)
        /\ mixed' = (mixed \/ file[1] # Head(buffer)) /\ file' = file
    BY <1>4 DEF WriteEvent
  <2>2. buffer \in Seq(1..MaxRuns)
    BY DEF ReadoutTypes, ReadoutTypeOK
  <2>3. ASSUME Named PROVE Named' /\ file[1] = Head(buffer)
    <3>1. \A i \in DOMAIN buffer' : buffer'[i] = run
      <4>1. \A i \in 1..Len(buffer) : buffer[i] = run
        BY <2>2, <2>3 DEF Named
      <4>2. DOMAIN buffer' = 1..(Len(buffer) - 1)
        BY <2>1, <2>2
      <4>3. \A i \in 1..(Len(buffer) - 1) : buffer'[i] = buffer[i + 1]
        BY <2>1, <2>2
      <4> QED
        BY <2>2, <4>1, <4>2, <4>3
    <3>2. Head(buffer) = run
      BY <2>1, <2>2, <2>3 DEF Named
    <3> QED
      BY <1>1, <2>1, <2>3, <3>1, <3>2 DEF Named
  <2>4. fresh' => ~Unnamed' /\ Named /\ ~mixed
    BY <1>1, <1>3, PureParts
  <2>5. fresh' => Named' /\ ~mixed' /\ ~Unnamed'
    BY <2>1, <2>3, <2>4
  <2> QED
    BY <2>5, PureParts
<1>5. CASE OpenChunk
  <2>1. /\ file' = <<fileRun, cnt>> /\ UNCHANGED <<buffer, mixed>>
    BY <1>5 DEF OpenChunk, historyVars
  <2>2. Named => Named'
    BY <1>1, <2>1 DEF Named
  <2> QED
    BY <1>1, <1>3, <2>1, <2>2, PureParts
<1>6. CASE ~WriteEvent /\ ~OpenChunk
  <2>1. task' # "read" /\ UNCHANGED <<buffer, mixed>>
    BY <1>6 DEF TaskSteps, TakeCommand, NextDump, BufferIsEmpty, AccessRaises, NoMoreEvents,
                CloseChunk, LoadCount, StoreCount, historyVars
  <2>2. Named => Named'
    BY <1>1, <2>1 DEF Named
  <2> QED
    BY <1>1, <1>3, <2>1, <2>2, PureParts
<1> QED
  BY <1>4, <1>5, <1>6

(* Every step keeps the files pure.                                                     *)
LEMMA NextPure == ReadoutTypes /\ PureInv /\ [ReadoutNext]_readoutVars => PureInv'
<1> SUFFICES ASSUME ReadoutTypes, PureInv, [ReadoutNext]_readoutVars PROVE PureInv'
  OBVIOUS
<1>1. ASSUME NEW c \in Commands, Command(c) PROVE PureInv'
  BY <1>1, CommandPure
<1>2. CASE TransitionSteps
  BY <1>2, ManagerPure, ReadoutTurnsPure, OtherPure DEF TransitionSteps, ReadoutTurns
<1>3. CASE UNCHANGED readoutVars
  BY <1>3, SamePure DEF readoutVars, machineVars, sharedVars, taskVars, historyVars
<1> QED
  BY <1>1, <1>2, <1>3, OtherPure, TaskPure DEF ReadoutNext

(* In a run that began with nothing left over, no event goes to the file of another.     *)
THEOREM FilesAreAlwaysPure == ReadoutSpec => []FilesArePure
<1>1. PureInv => FilesArePure
  BY DEF PureInv, FilesArePure
<1> QED
  BY InitTypes, NextTypes, InitPure, NextPure, <1>1, PTL DEF ReadoutSpec

-----------------------------------------------------------------------------
(* The task and the state.                                                       *)

LEMMA InitHeard == ReadoutInit => HeardInv
  BY DEF ReadoutInit, HeardInv

(* A step that leaves machine, queue and task alone keeps the last command the right    *)
(* one.                                                                                 *)
LEMMA SameHeard ==
  ASSUME HeardInv, UNCHANGED <<unheard, task, queue, isRunning>>,
         ToldToRest' => ToldToRest, ToldToRun' => ToldToRun
  PROVE  HeardInv'
<1>1. Heard' <=> Heard
  BY DEF Heard
<1> QED
  BY <1>1 DEF HeardInv

(* A command that is queued is the last one, and the one that is heard in the end.       *)
LEMMA LastIsHeard ==
  ASSUME ReadoutTypes, NEW cmd, queue' = Append(queue, cmd)
  PROVE  Heard' <=> Applied(cmd)
<1>1. queue \in Seq(ReadoutCommands)
  BY DEF ReadoutTypes, ReadoutTypeOK
<1>2. queue' # <<>> /\ queue'[Len(queue')] = cmd
  BY <1>1
<1>3. Heard' <=> (IF queue' = <<>> THEN isRunning' ELSE Applied(queue'[Len(queue')]))
  BY DEF Heard
<1> QED
  BY <1>2, <1>3

(* A command that is taken changes nothing of what is heard in the end.                 *)
LEMMA TakenIsHeard ==
  ASSUME ReadoutTypes, queue # <<>>, queue' = Tail(queue), isRunning' = Applied(Head(queue))
  PROVE  Heard' <=> Heard
<1>1. queue \in Seq(ReadoutCommands)
  BY DEF ReadoutTypes, ReadoutTypeOK
<1>2. Heard <=> Applied(queue[Len(queue)])
  BY DEF Heard
<1>3. Heard' <=> (IF queue' = <<>> THEN isRunning' ELSE Applied(queue'[Len(queue')]))
  BY DEF Heard
<1>4. CASE Len(queue) = 1
  <2>1. queue' = <<>> /\ Head(queue) = queue[Len(queue)]
    BY <1>1, <1>4
  <2> QED
    BY <1>2, <1>3, <2>1
<1>5. CASE Len(queue) # 1
  <2>1. Len(queue) >= 2
    <3>1. Len(queue) \in Nat /\ Len(queue) # 0
      BY <1>1
    <3>2. \A n \in Nat : n # 0 /\ n # 1 => n >= 2
      OBVIOUS
    <3> QED
      BY <1>5, <3>1, <3>2
  <2>2. queue' # <<>> /\ queue'[Len(queue')] = queue[Len(queue)]
    BY <1>1, <2>1
  <2> QED
    BY <1>2, <1>3, <2>2
<1> QED
  BY <1>4, <1>5

(* A transition command keeps the last command the right one.                           *)
LEMMA CommandHeard ==
  ASSUME ReadoutTypes, HeardInv, NEW c \in Commands, Command(c)
  PROVE  HeardInv'
<1>1. /\ state \in Sources[c] /\ state' = Via[c] /\ remaining' = Readers
      /\ UNCHANGED <<unheard, task, queue, isRunning>>
  BY DEF Command, sharedVars, taskVars
<1>2. "AMC13Readout" \in remaining'
  BY <1>1 DEF Readers
<1>3. ~ToldToRun'
  BY <1>1, <1>2, Table DEF ToldToRun, Commands
<1>4. ToldToRest' => ToldToRest
  <2>1. ToldToRest' => c \in {"Configure", "Start", "Resume"}
    BY <1>1, <1>2, Table DEF ToldToRest, Commands
  <2>2. c \in {"Configure", "Start", "Resume"} => state \in {"Halted", "Configured", "Paused"}
    BY <1>1, SourcesTable
  <2> QED
    BY <2>1, <2>2 DEF ToldToRest
<1> QED
  BY <1>1, <1>3, <1>4, SameHeard

(* The manager's turns do not change what the readout has been told.                     *)
LEMMA ManagerHeard ==
  ASSUME ReadoutTypes, HeardInv,
         \/ ManagerInitializes \/ ManagerStarts \/ ManagerResumes \/ ManagerDisables
         \/ ManagerHalts \/ ManagerIgnores
  PROVE  HeardInv'
<1>1. /\ \E c \in Commands : Turn("AMC13Manager", c)
      /\ UNCHANGED <<unheard, task, queue, isRunning>>
  BY DEF ManagerInitializes, ManagerStarts, ManagerResumes, ManagerDisables, ManagerHalts,
         ManagerIgnores, sharedVars, taskVars, historyVars, Commands
<1>2. PICK c \in Commands : Turn("AMC13Manager", c)
  BY <1>1
<1>3. /\ state = Via[c] /\ state' \in {Via[c], Settled[Via[c]]}
      /\ remaining' = remaining \ {"AMC13Manager"}
      /\ remaining' # {} => state' = Via[c]
  BY <1>2, TurnFacts DEF Readers
<1>4. /\ "AMC13Readout" \in remaining' <=> "AMC13Readout" \in remaining
      /\ state' # state => "AMC13Readout" \notin remaining
  BY <1>3
<1>5. /\ ToldToRest' => ToldToRest
      /\ ToldToRun' => ToldToRun
  <2>1. CASE state' = state
    BY <1>4, <2>1 DEF ToldToRest, ToldToRun
  <2>2. CASE state' # state
    <3>1. state' = Settled[Via[c]] /\ "AMC13Readout" \notin remaining
      BY <1>3, <1>4, <2>2
    <3>2. \/ state = "Initializing" /\ state' = "Halted"
          \/ state = "Configuring" /\ state' = "Configured"
          \/ state \in {"Starting", "Resuming"} /\ state' = "Running"
          \/ state = "Pausing" /\ state' = "Paused"
          \/ state = "Stopping" /\ state' = "Configured"
          \/ state = "Halting" /\ state' = "Halted"
          \/ state = "Resetting" /\ state' = "Initial"
      BY <1>3, <3>1, Table DEF Commands
    <3> QED
      BY <3>1, <3>2 DEF ToldToRest, ToldToRun
  <2> QED
    BY <2>1, <2>2
<1> QED
  BY <1>1, <1>5, SameHeard

(* What the readout has been told once a turn of its own is over.                        *)
LEMMA ToldByTurn ==
  ASSUME ReadoutTypes, NEW c \in Commands, Turn("AMC13Readout", c)
  PROVE  /\ c \in {"Start", "Resume"} => ~ToldToRest'
         /\ c \in {"Initialize", "Pause", "Stop", "Halt"} => ~ToldToRun'
         /\ c \in {"Configure", "Reset"} =>
              (ToldToRest' => ToldToRest) /\ (ToldToRun' => ToldToRun)
<1>1. /\ state = Via[c] /\ state' \in {Via[c], Settled[Via[c]]}
      /\ "AMC13Readout" \notin remaining'
  BY TurnFacts DEF Readers
<1>2. c \in {"Start", "Resume"} => state' \in {"Starting", "Resuming", "Running"}
  BY <1>1, Table
<1>3. c \in {"Initialize", "Pause", "Stop", "Halt"} =>
        state' \in {"Initializing", "Pausing", "Stopping", "Halting", "Halted", "Paused",
                    "Configured"}
  BY <1>1, Table
<1>4. /\ c = "Configure" => state = "Configuring" /\ state' \in {"Configuring", "Configured"}
      /\ c = "Reset" => state' \in {"Resetting", "Initial"}
  BY <1>1, Table
<1>5. c \in {"Start", "Resume"} => ~ToldToRest'
  BY <1>1, <1>2 DEF ToldToRest
<1>6. c \in {"Initialize", "Pause", "Stop", "Halt"} => ~ToldToRun'
  BY <1>3 DEF ToldToRun
<1>7. c \in {"Configure", "Reset"} =>
        (ToldToRest' => ToldToRest) /\ (ToldToRun' => ToldToRun)
  BY <1>4 DEF ToldToRest, ToldToRun
<1> QED
  BY <1>5, <1>6, <1>7

(* The readout's turns queue the command that the new state asks for.                   *)
LEMMA ReadoutQueuesHeard ==
  ASSUME ReadoutTypes, HeardInv,
         NEW c \in {"Start", "Pause", "Resume", "Stop", "Halt"}, NEW cmd \in ReadoutCommands,
         Applied(cmd) <=> c \in {"Start", "Resume"},
         Turn("AMC13Readout", c),
         queue' = IF c = "Halt" /\ task = "none" THEN queue ELSE Append(queue, cmd),
         unheard' = (unheard \/ (task = "none" /\ c # "Halt")),
         UNCHANGED <<task, isRunning>>
  PROVE  HeardInv'
<1> SUFFICES ASSUME ~unheard'
             PROVE  IF task' = "none" THEN queue' = <<>> /\ ~isRunning'
                    ELSE (ToldToRest' => ~Heard') /\ (ToldToRun' => Heard')
  BY DEF HeardInv
<1>1. ~unheard /\ (task = "none" => c = "Halt")
  OBVIOUS
<1>2. CASE task = "none"
  <2>1. queue = <<>> /\ ~isRunning
    BY <1>1, <1>2 DEF HeardInv
  <2>2. queue' = queue
    BY <1>1, <1>2
  <2> QED
    BY <1>2, <2>1, <2>2
<1>3. CASE task # "none"
  <2>1. Heard' <=> Applied(cmd)
    BY <1>3, LastIsHeard
  <2>2. c \in Commands
    BY DEF Commands
  <2>3. /\ c \in {"Start", "Resume"} => ~ToldToRest'
        /\ c \in {"Pause", "Stop", "Halt"} => ~ToldToRun'
    BY <2>2, ToldByTurn
  <2> QED
    BY <1>3, <2>1, <2>3
<1> QED
  BY <1>2, <1>3

(* Initialize, which starts the task, keeps the last command the right one.             *)
LEMMA InitializeHeard ==
  ASSUME ReadoutTypes, HeardInv, ReadoutInitializes
  PROVE  HeardInv'
<1>1. /\ Turn("AMC13Readout", "Initialize")
      /\ task' = IF task = "none" THEN "head" ELSE task
      /\ queue' = IF task = "none" THEN queue ELSE Append(queue, "CMD_STOP")
      /\ UNCHANGED <<unheard, isRunning>>
  BY DEF ReadoutInitializes
<1>2. ~ToldToRun' /\ task' # "none"
  BY <1>1, ToldByTurn DEF Commands
<1>3. ASSUME ~unheard PROVE ~Heard'
  <2>1. CASE task = "none"
    <3>1. queue' = <<>> /\ ~isRunning'
      BY <1>1, <1>3, <2>1 DEF HeardInv
    <3> QED
      BY <3>1 DEF Heard
  <2>2. CASE task # "none"
    <3>1. Heard' <=> Applied("CMD_STOP")
      BY <1>1, <2>2, LastIsHeard
    <3> QED
      BY <3>1 DEF Applied
  <2> QED
    BY <2>1, <2>2
<1> QED
  BY <1>1, <1>2, <1>3 DEF HeardInv

(* The end of an action of the readout, which queues its command, keeps the last        *)
(* command the right one.                                                               *)
LEMMA ReadoutTurnsHeard ==
  ASSUME ReadoutTypes, HeardInv, ReadoutTurns
  PROVE  HeardInv'
<1>1. CASE ReadoutInitializes
  BY <1>1, InitializeHeard
<1>2. CASE ReadoutIgnores
  <2>1. /\ \E c \in {"Configure", "Reset"} : Turn("AMC13Readout", c)
        /\ UNCHANGED <<unheard, task, queue, isRunning>>
    BY <1>2 DEF ReadoutIgnores, sharedVars, taskVars, historyVars
  <2>2. (ToldToRest' => ToldToRest) /\ (ToldToRun' => ToldToRun)
    BY <2>1, ToldByTurn DEF Commands
  <2> QED
    BY <2>1, <2>2, SameHeard
<1>3. CASE ReadoutStarts
  <2>1. /\ Turn("AMC13Readout", "Start")
        /\ queue' = Append(queue, "CMD_START")
        /\ unheard' = (unheard \/ task = "none")
        /\ UNCHANGED <<task, isRunning>>
    BY <1>3 DEF ReadoutStarts, taskVars
  <2>2. "CMD_START" \in ReadoutCommands /\ Applied("CMD_START")
    BY DEF ReadoutCommands, Applied
  <2>3. unheard' = (unheard \/ (task = "none" /\ "Start" # "Halt"))
    BY <2>1
  <2> QED
    BY <2>1, <2>2, <2>3, ReadoutQueuesHeard
<1>4. ASSUME NEW c \in {"Pause", "Resume", "Stop", "Halt"}, NEW cmd \in ReadoutCommands,
             Applied(cmd) <=> c \in {"Start", "Resume"},
             ReadoutQueues(c, cmd)
      PROVE  HeardInv'
  BY <1>4, ReadoutQueuesHeard DEF ReadoutQueues, taskVars
<1>5. /\ "CMD_PAUSE" \in ReadoutCommands /\ ~Applied("CMD_PAUSE")
      /\ "CMD_STOP" \in ReadoutCommands /\ ~Applied("CMD_STOP")
      /\ "CMD_RESUME" \in ReadoutCommands /\ Applied("CMD_RESUME")
  BY DEF ReadoutCommands, Applied
<1> QED
  BY <1>1, <1>2, <1>3, <1>4, <1>5 DEF ReadoutTurns

(* The task takes a command, or goes through a dump, and is never new.                   *)
LEMMA TaskHeard ==
  ASSUME ReadoutTypes, HeardInv, TaskSteps \/ AccessRaises
  PROVE  HeardInv'
<1>1. /\ UNCHANGED <<state, remaining, unheard>> /\ task # "none" /\ task' # "none"
  BY DEF TaskSteps, TakeCommand, NextDump, OpenChunk, BufferIsEmpty, AccessRaises, WriteEvent,
         NoMoreEvents, CloseChunk, LoadCount, StoreCount, machineVars, historyVars
<1>2. Heard' <=> Heard
  <2>1. CASE TakeCommand
    BY <2>1, TakenIsHeard DEF TakeCommand
  <2>2. CASE ~TakeCommand
    <3>1. UNCHANGED <<queue, isRunning>>
      BY <2>2 DEF TaskSteps, NextDump, OpenChunk, BufferIsEmpty, AccessRaises, WriteEvent,
                  NoMoreEvents, CloseChunk, LoadCount, StoreCount, sharedVars
    <3> QED
      BY <3>1 DEF Heard
  <2> QED
    BY <2>1, <2>2
<1>3. (ToldToRest' <=> ToldToRest) /\ (ToldToRun' <=> ToldToRun)
  BY <1>1 DEF ToldToRest, ToldToRun
<1> QED
  BY <1>1, <1>2, <1>3 DEF HeardInv

(* Every step keeps the last command the right one.                                     *)
LEMMA NextHeard == ReadoutTypes /\ HeardInv /\ [ReadoutNext]_readoutVars => HeardInv'
<1> SUFFICES ASSUME ReadoutTypes, HeardInv, [ReadoutNext]_readoutVars PROVE HeardInv'
  OBVIOUS
<1>1. ASSUME NEW c \in Commands, Command(c) PROVE HeardInv'
  BY <1>1, CommandHeard
<1>2. CASE ReadoutStartsAfresh \/ ReadoutNamesFile \/ Event \/ UNCHANGED readoutVars
  <2>1. UNCHANGED <<state, remaining, unheard, task, queue, isRunning>>
    BY <1>2 DEF ReadoutStartsAfresh, ReadoutNamesFile, Event, readoutVars, machineVars,
                sharedVars, taskVars, historyVars
  <2> QED
    BY <2>1, SameHeard DEF ToldToRest, ToldToRun
<1>3. CASE ReadoutFailsToInitialize
  <2>1. state' = "Error" /\ UNCHANGED <<unheard, task, queue, isRunning>>
    BY <1>3 DEF ReadoutFailsToInitialize, sharedVars, taskVars, historyVars
  <2> QED
    BY <2>1, SameHeard DEF ToldToRest, ToldToRun
<1>4. CASE TransitionSteps
  BY <1>2, <1>4, ManagerHeard, ReadoutTurnsHeard DEF TransitionSteps, ReadoutTurns
<1> QED
  BY <1>1, <1>2, <1>3, <1>4, TaskHeard DEF ReadoutNext

(* A task that has taken its commands runs if and only if the readout is Running.        *)
THEOREM TaskAlwaysFollows == ReadoutSpec => []TaskFollowsState
<1>1. HeardInv => TaskFollowsState
  <2> SUFFICES ASSUME HeardInv, ~unheard, task # "none", queue = <<>>,
                      state \in {"Halted", "Configured", "Running", "Paused"}
               PROVE  isRunning <=> state = "Running"
    BY DEF TaskFollowsState
  <2>1. Heard <=> isRunning
    BY DEF Heard
  <2> QED
    BY <2>1 DEF HeardInv, ToldToRest, ToldToRun
<1> QED
  BY InitTypes, NextTypes, InitHeard, NextHeard, <1>1, PTL DEF ReadoutSpec
=============================================================================
