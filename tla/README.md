# Verification of the GEM DAQ control software

TLA+ modules, TLC configurations and TLAPS proofs for the run control of
cmsgemos, the online software of the CMS GEM detector. The reference is the code
under `src/`; file names below are relative to it.

## 1. The system

| Component | State it keeps | Operations | Talks to |
|---|---|---|---|
| State machine (`gembase/.../GEMFSM.cc`) | one state of 14, an event queue inside the toolbox | `changeState` (a SOAP command), `fireEvent` | its application |
| FSM application (`GEMFSMApplication.cc`) | workloop of jobs, a binary semaphore, `m_stateName` | `transitionDriver`, eight jobs `initialize` ... `reset` | derived classes through `...Action()` |
| Supervisor (`gemsupervisor/.../GEMSupervisor.cc`) | list of supervised applications, TCDS leases, run number, scan parameter | eight `...Action()`, `globalStateChanged`, `EndScanPoint`, `renewTCDSLease` | all applications (SOAP), run control (RCMS), database |
| Global state (`GEMGlobalState.cc`) | the believed state of every application, the composed global state, a timer, a recursive lock | `update`, `compositeState`, `addApplication`, `timeExpired` | supervisor, all applications |
| Monitoring (`GEMMonitor.cc`, `GEMInfoSpaceToolBox.cc`) | per card a timer, the items of an info space, its lock | start, stop, pause, resume, `reset`; create, set and revoke items | the managers, the cards |
| AMC13 manager (`AMC13Manager.cc`) | trigger settings, count of triggers, scan timer | actions, `enableTriggers`, `timeExpired` | AMC13, supervisor (`EndScanPoint`) |
| GLIB, CTP7, OptoHybrid, VFAT managers | device handles, monitors, the scan point of their own | eight actions that go card by card | hardware access, monitoring |
| Hardware access (`GEMHwDevice.cc`, `HwGenericAMC.cc`, `Hw*.cc`) | error counters, a recursive lock, "connected" flags, the transactions queued in the client | `readReg`, `writeReg`, lists and blocks, with retries; the search for the clock phase | uHAL |
| Readout (`GEMReadoutApplication.cc`, `AMC13Readout.cc`) | command queue, a task of its own, file name, chunk, counts | Start, Stop, Pause, Resume; `dumpData` | AMC13 monitor buffer, files |
| Test-beam scans (`tbutils/GEMTBUtil.cc`, `LatencyScan.cc`, `ThresholdScan.cc`, `ADCScan.cc`) | a state machine, a workloop of signals, two semaphores, flags | `run()` as a signal that resubmits itself, the actions | GLIB, OptoHybrid, VFATs, AMC13 |
| Data parker (`GEMDataParker.cc`) | queues of VFAT blocks by event | `dumpData`, event building | readout |
| Utilities | lock, SOAP exchange, database | - | everybody |
| Web pages, hardware and DAQ monitors, online database, Python tools | displays, documents, scripts | - | - |

**What is hard.** A command to an application is only queued; the state machine
calls the action of the transition before it shows the new state, and that action
merely submits a job to another thread, which waits for the state it was
submitted for. Commands, confirmations and failures share one queue. The
supervisor is such an application itself; its job commands others and polls them,
while a timer polls them as well, under a lock held during the polling; the
notification that a new global state sets off fires events back into the
supervisor's machine and repeats the update. Applications fail, SOAP exchanges
fail before or after the command has arrived, the run database fails. Below the
supervisor, timers read the cards that a transition works on; a scan point is
counted by three programs at once; a readout task shares its file name with the
transitions, without a lock; the test-beam scans live by signals that they send
to themselves. A list of registers goes out in several dispatches that may fail half-way,
and an access that fails too often returns as if it had succeeded.

**What makes the components correct.**

* *FSM application*: no transition is forgotten; the semaphore is always given
  back; the waiting loop cannot miss its state; the machine does not move under a
  running action; a ready state means that the work was done.
* *Supervisor*: groups go through a transition in the order of priority; no
  application gets a command it would refuse; every accepted command ends; what
  the supervisor shows is true of the applications.
* *Global state*: a failure is reported; a ready state is reported only when every
  application is in it.
* *Scan*: events carry the label of the value they were taken with; supervisor,
  cards and front ends agree on the point; no trigger meets a front end that is not
  ready; a point gets its events before the next begins; the scan ends.
* *Test-beam scan*: one step at a time, although many hands submit the signal; the
  semaphores come back on every path; data carry the right label; a scan that has
  ended leaves the hardware quiet.
* *Readout*: events go to the files of their own run, in chunks one after the other;
  the published count is that of the files; the task follows the state; a Stop
  reaches it.
* *Hardware managers*: a monitor that was stopped is started again on every way out;
  no update of a card begins while it is being changed; what is monitored is what is
  published, after any number of Resets; no card is missing in a run; locks come
  back; every transition ends.
* *Hardware access*: when an access returns as done, the card agrees with it for all
  its registers at once; nothing of it is sent later. The phase search rests well
  inside the lock that it reports, and it ends.

`PROJECT.json` lists the hazards with their lines, the properties that cover
them, and what no property covers: there the model has the hazard, more often than not, and the
properties name it among their conditions.

## 2. The modules

| Module | Models | Depends on |
|---|---|---|
| `GEMFSM` | the table that `GEMFSM::GEMFSM` registers, as functions; `Successor(s, e)` is what an event does | - |
| `GEMApplicationContract` | what a client of an application relies on (abstract) | `GEMFSM` |
| `GEMFSMApplication` | one application: machine, queue, workloop, semaphore, SOAP commands | `GEMFSM` |
| `GEMGlobalState` | the two ways of composing states, as operators | `GEMFSM` |
| `GEMTransitionOrder` | priorities of application classes in the transitions | `GEMFSM` |
| `GEMSupervisor` | the supervisor at work with its applications, timer and faults | the three above |
| `GEMScan` | a latency or threshold scan: supervisor, AMC13 manager, GLIB manager, OptoHybrid manager and their cards | `GEMTransitionOrder` |
| `GEMReadout` | the readout task, its commands and files, with the AMC13 manager that feeds it | `GEMTransitionOrder` |
| `GEMHwManager` | one manager of cards (any of four), its monitors and their timers | `GEMFSM` |
| `GEMHwDevice` | the accesses to the registers of one card by two threads | - |
| `GEMPhaseShift` | the search for a clock phase, as `GLIBManager` has it at Configure | - |
| `GEMTestBeamScan` | the three stand-alone scans | - |
| `GEMFSMApplication_proofs` | theorems about one application, and that it implements the contract | `GEMFSMApplication` |
| `GEMSupervisor_proofs` | theorems about the supervisor and the composition of states | `GEMSupervisor`, `GEMFSMApplication_proofs` |
| `GEMScan_proofs` | theorems about a scan, whatever the operator does, and about the points of one that is left alone | `GEMScan` |
| `GEMReadout_proofs` | theorems about the readout | `GEMReadout` |
| `GEMHwManager_proofs` | theorems about the managers of cards | `GEMHwManager` |
| `GEMHwDevice_proofs` | theorems about the accesses | `GEMHwDevice` |
| `GEMPhaseShift_proofs` | theorems about the phase search | `GEMPhaseShift` |
| `GEMTestBeamScan_proofs` | theorems about the stand-alone scans | `GEMTestBeamScan` |
| `MC...` | instances for TLC | - |

**`GEMFSMApplication`.** `state` is what the machine shows and `target` the state
it enters when the action in progress is back; `events` is the toolbox queue;
`jobs`, `job`, `pc` and `semaphore` are the workloop. `BeginTransition` takes an
event and calls the action (`TransitionDriver` submits the job), `EndTransition`
shows the new state. A job goes through `BeginJob` (take), `LeaveWait` (the loop
marked "deal with possible race condition"), one of the outcomes of the action,
`Confirm` and `EndJob` (give). The eight jobs of the code differ in names only.

**`GEMSupervisor`** extends it: the steps of the action are `phase`. A running
action enters, waits for the global state its command requires (`Proceed`), sends
the command to the applications of a group (`SendCommand`), waits for the
group (`NextGroup`) and so on, and updates the global state whenever it waits
(`JobUpdates`). An update polls the applications one by one under the lock
(`Poll`), composes their states (`Compose`) and, when the result is new, announces
it (`Announce`); `updater` is the holder of the lock. `supervised` is
`v_supervisedApps`, `watched` the keys of `m_states`, `known` its values.
The order of two applications of one group is free, the code's is the order of the
descriptors in the zone.

**`GEMScan`** looks at the supervisor from the managers' side: its machine
(`state`, `events`), its workloop (`jobs`, `job`), and an action that takes one
manager after the other through the transition (`remaining`, by `Rank`). A manager's
loop over its slots goes card by card (`Loop`, `gone`). `AMC13Manager` counts
triggers (`seen`) and its timer (`TimeExpires`) calls `EndScanPoint`, whose waits for
Running, Paused and Running again are `FirePause`, `FireResume` and
`ReplySentTriggers`. The scan point exists three times: `scanParameter` of the
supervisor, `last` of the two managers with the registers they write (`runParam` in
the GLIB, `frontEnd` in the VFATs), each in the width of its variable (a `uint8_t`
register, `uint32_t` in the supervisor). `GLIBPauses` waits for the card's event FIFO
before it changes the label. The scan starts in the state that Configure leaves.

**`GEMReadout`** has three parties: the transitions of `AMC13Manager` and
`AMC13Readout`, which only queue a command; the task (`task` is where it is in
`readoutTask()` and `dumpData()`); and the AMC13, which puts events into its monitor
buffer. What transitions and task share without a lock are variables of their own:
`fileRun` for `m_outFileName`, `cnt`, `written` for `nwrote_global`, `eventsReadout`
for `m_eventsReadout`, whose addition is a load and a store. An access of the
AMC13 may raise between any two of the task's steps (`AccessRaises`).

**`GEMHwManager`** is one module for `GLIBManager`, `CTP7Manager`, `OptoHybridManager`
and `VFATManager`, told apart by `kind`: the loops over the cards differ in where they
look for a card, stop its monitor, work, start the monitor and raise. `hw` is the
device object with what `isHwConnected()` remembers, `timer` that of the
`GEMMonitor`, `item` and `listed` what the tool box has published and what the
monitor goes through, `update` the timer's thread inside `updateMonitorables()`,
`leaked` an info space whose lock was left taken. Reset makes the monitor forget its tool box,
so that the next Initialize, which puts a new one in its place (`ReplacesToolBox`), destroys the old one; its destructor
revokes what the Reset of a card with a name has left published. A pointer to a device that was never
built takes the process down (`FollowsNull`), and so may the removal of a monitor at
work.

**`GEMHwDevice`** follows an access of any kind through the lock (`lock`, which is
`m_hwLock`: the nested one of a block is the same thread's), the retry loop
(`Attempt`, `retryCount`), the list (`QueueNext`, `counter`) and the dispatches
within it and after it. `queue` is what waits in the uHAL client, `regs` the card, `got`
the values read, by their place in the list. A dispatch sends what is queued one by one
(`Sends`, `Dispatched`); one that fails has sent a prefix of it and drops the rest (`DispatchFails`). `writeReg()` reads,
writes, reads back and tries again when the value differs, which a register that
does not keep its value makes it do until it gives up. FIFO accesses are series of single ones. The
masked `readRegs()` is taken for a list like the others, although it uses the mask's place for
the value.

**`GEMPhaseShift`** is `ttcMMCMPhaseShift()`: `phase` is where the card's clock is on a
ring of which the arc `Good` is in lock, `hwGth` the card's count of shifts modulo
`GthSteps`, which starts anywhere, `gthShiftCnt` the count that the search expects, `direction` the two direction
registers, which are written together; what the other registers of the set-up do is the firmware's. Each round is a shift (`Shift`), its count
(`CountIsRight`, `RepeatShift`) and a look at the lock (`Look`), of which the five
operators from `FirstBC0` to `NextPLL` say what the code makes: by the signal, whether it has been
out of lock already, and whether it relocks. The accesses appear as what they leave
when `GEMHwDevice` gives up: 0, nothing, or twice. BC0 and the direction go through the
client without it, and a failure there raises.

**`GEMTestBeamScan`** has two threads: the state machine, which takes events and runs
the actions (`action`, `step`), and the workloop, which takes signals from `queue`, one
of them `run`. `at` is where `run()` is; it holds `wl_semaphore_` from beginning to end
and `hw_semaphore_` where it writes. `GEMTBUtil` is shared by latency and threshold
scans; `ADCScan` has a frame of its own, which takes `hw_semaphore_` for an event it ignores and halts again in `Halted`.

**Outside the repository.** The toolbox's asynchronous state machine is taken to
handle one event at a time in the order of arrival, to call the action before it
sets the state, and to enter the failed state when an event has no entry in the
table or an action raises (for the test-beam machine, where the code shows less of
it, a missing entry may also pass unnoticed). The TCDS applications are taken to
start in `Halted` and to behave like the others from there on, with `Enable` for
`Start`. A supervised application keeps
`GEMApplicationContract`, which the run `app_patient` shows of
`GEMFSMApplication`; in the supervisor's model the work of a transition and its
confirmation are one step. The renewal of the TCDS leases, which the timer does
before each update, is left out, with the exception it may raise there.
A toolbox timer may or may not raise when it is stopped twice (`GEMMonitor.cc:103-111`
catches that exception, other places do not): `strict` makes it one or the other
for a whole behaviour. Stopping a timer that has been removed from its factory may raise or do
nothing. Neither stop nor removal waits for an expiry under way. The events of the
AMC13, the triggers of the TCDS, the firmware that builds events and the DAQ that
reads a FIFO are actions without conditions of their own. A workloop takes every job that is
submitted: the catch block of `transitionDriver()` for one that does not (`GEMFSMApplication.cc:317`)
is left out.

## 3. What the runs check

| Run | Instance | Shows |
|---|---|---|
| `app_free` | 4 commands at any moment, actions that return, throw, or swallow their failure | `TypeOK`, `NoOrphanTransition`, `SemaphoreFollowsJob` |
| `app_patient` | 5 commands of a client that awaits each outcome, actions that return or throw | `NoStrandedJob`, `ActionUndisturbed`, `ReadyMeansDone`, and that the application implements the contract (`KeepsContract`, with liveness) |
| `sup_faultless` | 3 applications of different priority, 8 commands, no fault | `SupTypeOK`, `OrderRespected`, `CommandsAreWelcome`, `TransitionsEnd` |
| `sup_faults` | 3 configured applications, one of them a TCDS controller, 2 commands, 1 fault anywhere | `RunningTogether`, `RunningIsReportedTrue`, `ErrorIsReported` |
| `scan` | 2 cards, 2 scans, local and TCDS triggers, 3 operator commands at any time, 1 card lost | `ScanTypeOK`, `LabelsAreTrue`, `PointIsAgreed`, `TriggersFindFrontEnds`, `PointsAreFull`, `ScanEnds` |
| `test_beam` | the three scans, 3 or 4 points of 2 triggers, 6 clicks of a user who waits for the effect of each | `TBTypeOK`, `OneRunner`, `DataIsLabelled`, `RestIsQuiet`, `ScanEnds` |
| `readout` | 2 runs, any commands of a client that waits, 1 access or Initialize that fails | `ReadoutTypeOK`, `FilesArePure`, `CountIsTrue`, `TaskFollowsState`, `StopIsHonoured` |
| `hardware` | the four managers with 3 cards, any sequence of commands, cards that do not answer | `HwTypeOK`, `MonitorsRun`, `NoneIsMissing`, `StaysUp`, `WorkIsQuiet`, `TransitionsEnd` |
| `registers` | 2 threads with 2 accesses each, every kind of access, dispatches that fail anywhere | `HwDeviceTypeOK`, `AccessIsOver` |
| `phase` | a ring of 32 phases, the card's count at any value, every start, either signal, with and without relock, 2 accesses that fail | `RestsInsideLock`, `SearchEnds` |
| `sup_error_lost` | 2 applications, 1 command, 1 fault | *violated*: `SupervisorFollowsError` |
| `sup_stuck` | 2 applications, a start, a fault and a Reset | *violated*: `ResetIsCarriedOut` |

**Bounds of the application and the supervisor.** `MaxRequests` bounds the commands of
a behaviour: 4 reach a command
during a transition, the failure it causes, its recovery and one more; 8 take the
supervisor from `Initial` through Initialize, Configure, Start, Pause, Resume,
Stop and Halt and into the next configuration. `MaxFaults` bounds the faults: one, of each kind and at
each moment. Three classes (AMC13 manager, AMC manager, OptoHybrid manager)
have different priorities in every order, so that each group has a successor; a group
of two of equal priority is left out (section 4). `sup_faults` and the violated runs
that need few commands start from the supervisor at rest in `Configured`
(`ConfiguredInit`), a state the specification reaches, so that the bound serves
what comes after.

**Operators.** `Operator` says which command is given in which shown state. The
passing runs leave out three pairs: Configure from `Configured`, Stop from
`Configured` and Halt from `Halted`. The state table accepts them and the
supervisor's actions do not manage them (section 4). `sup_faultless` has no
Reset, which the supervisor does not wait for, and no TCDS application: Initialize sends
it a Halt although it is `Halted`, so that the wait for its group is over before it has
begun, and neither `OrderRespected` nor `CommandsAreWelcome` holds then.
`sup_faults` has a Reset from `Running`, which passes over the TCDS application, and no Halt.

**Bounds of the scan.** One scan ends on its maximum, the other before it, with a step
that skips values. `RegisterSize` 6 lets a scan that an operator's Pause has brought out of step run
over the end of the register; `WordSize` 16 is larger than any parameter, as `ScansFit` requires of
the form (near 2^32 the supervisor's sum would wrap; see the hazards). `MaxSeen` 3 and
`MaxBacklog` 2 leave triggers that come after the point is full and events that
are not built when the pause begins. `MaxQueue` 1 says that the timer's period is
longer than the supervisor takes to handle an event. Three commands are a Start and
two more at any moment.

**What the scan's properties assume.** `PointIsAgreed`, `PointsAreFull` and `ScanEnds`
are said of a scan that the operator started and left alone (`Undisturbed`): his own Pause
moves cards and front ends on, and a handler of the former run may still pause the
next one. The first point is not written to the VFATs at all (the call is commented
out), which `Unset` stands for. `ScanEnds` allows the end to be in `Error`: the
timer may expire a second time before Stop has stopped it, and a second Stop finds
the supervisor stopping.

**Bounds of the test-beam scans.** A range of 0 to 3 in steps of 2 makes the last step
shorter than the others and ends at the register's end; six clicks take a scan
from `Initial` through Configure, Start and Stop and into the next one. The user
is patient: a user who starts anew while a signal of the former scan is about gets
two runners. `RestIsQuiet` is said of a scan that came to its end by itself.
`ScanEnds` excepts the wait for the FIFO, which goes on while the FIFO is empty
although the comment says it waits for that (section 4).

**Bounds of the readout.** The chunk size of 1 and two chunks reach a full chunk, one
closed by its age, and the limit; counts modulo 2 keep their differences; two runs,
with Halt, Reset and Error between them, are enough to mix. `FilesArePure`
is said of a run that began with the task at rest and no event left over (`fresh`), `TaskFollowsState` and `StopIsHonoured` unless a command was queued
for a task that was never made (`unheard`).

**Bounds of the hardware managers.** Three cards give a loop a first, a middle and a
last one. Commands are not bounded. A register access does not raise; whether a card
answers is open until it has answered once, as `isHwConnected()` remembers that. All items of
a card are one, and `m_disableMonitoring` is off.

**Bounds of the accesses.** The retries are the code's 5. Lists of none to three registers with a dispatch
after every second one stand for the 8 of the code: they end before, at and after a multiple.
One of the registers does not keep its value, one can only be written, one name is unknown.
Two accesses per thread are one that leaves something behind and one that would find it.

**Bounds of the phase search.** A round trip of 32 stands for 3840, of which half are in lock, and a count
modulo 4 for 40. The thresholds keep their order and their sums: a run that turns the search is
shorter than the one that ends it and longer than half of it; half the way behind
the next lock is well inside; both runs times the rest of a round (7 times 3, 8 times 3 here, 100 times 39 and
199 times 39 in the code) are more than the arcs they are looked for in, as `WrongWayAssumption` has it. `MaxShift` is three times the ring, as in the code. Two faults are a
fault and one in its repair. `RestsInsideLock` asks for the margin that the thresholds give, less one
round of the count for each fault; of the search by the PLL it speaks only before the first
unlock (section 4) and without faults, whose margin of 25 phases is less than one round. `SearchEnds` lets the search by the PLL end without a lock, and a search whose
direction was not written.

**Deadlock** is not checked: with the commands used up the system may rest, and an
application may wait in peace for a client; a process that is down stays so.

**Fairness.** In `FairSpec` both loops of an application are threads (weak
fairness) and nothing obliges the client. In `SupFairness` machines, applications,
the timer and its updates run on (weak); the job competes with the timer for the
lock, which the timer leaves free for most of a second, so that the job gets it in
time (strong). No fairness is put on commands, faults or on the overwriting of
`m_stateName`. In `ScanFairness` the threads, the timer, a trigger source that is on
and a card with events to build go on (weak); in `TBFairness` the two threads and
the triggers, but not the DAQ; in `ReadoutSpec` the transitions and the task, but neither
commands nor events; in `HwSpec` only the job, so that no timer is obliged to
anything; in `PhaseSpec` the one thread of the search. `HwDeviceSpec` has none, as no
liveness is claimed of it.

## 4. Findings

1. The supervisor may miss the error of an application for good (`sup_error_lost`): `m_stateName`
   is written by other threads between its assignment and its test.
2. After a failure during a transition the Reset is accepted and never carried out
   (`sup_stuck`): the running job waits for the group forever and keeps the workloop.

Met while modelling, part of the models, and therefore conditions of the properties above. TLC shows
each of the first six in an instance of these modules without any fault, which is named with it; they are not among
the runs, which are kept for what holds and for the two findings above.

* A client that does not await the outcome of its last command can leave a job waiting for a state that
  has passed, although the comment at the loop (`GEMFSMApplication.cc:453`) says that it deals with the race. No later
  command is carried out, Reset included. (`PatientClient = FALSE` and two commands, say Initialize and Halt:
  `pc = "waiting"` does not lead to anything else.)
* `Paused` is reported while an application is known to run: the branch of
  `getProperCompositeState()` that would say `Pausing` (line 228) is shadowed by that of `Stopping`
  (`GEMGlobalState.cc:224`), against the rule of `GEMGlobalState.h:88`. (Two applications, a Start and a Pause.)
* A group of equal priority is taken as arrived too early at Pause, Stop and Halt: the
  composition takes the state of the highest priority, and there `Halted`, `Paused` and
  `Configured` precede `Running` (`GEMGlobalState.cc:499`), so that one application that has
  arrived hides another that has not begun. (Two GLIB managers and an OptoHybrid manager, a Start and a Stop:
  `OrderRespected` is violated.) `sup_faultless` has one application of each class.
* A Configure that is repeated does not wait for its groups, which are there already in the
  states of the last update (`GEMSupervisor.cc:462`); nor does a Halt from `Halted`. A Stop from `Configured`, which the
  state table has (`GEMFSM.cc:101`), waits for ever for a running global state. (Three applications and the one command.)
* The loop of `LatencyScan` that says it waits for an empty FIFO (`LatencyScan.cc:243`; so `ThresholdScan.cc:202`) waits while it is empty:
  when the DAQ has read it out, `run()` keeps both semaphores for good. (A latency scan and three clicks:
  `at = "draining"` does not lead to anything else.)
* The phase search by the PLL with relock, which is the default of `GLIBManager.cc:332`, marks the next lock at an
  unlocked phase and compares the shifts since at unlocked phases only (`HwGenericAMC.cc:1020-1056`),
  so that it reports "Lock was found" where there is none; the comment at lines 698-701 has it shift
  half-way through the good region. (The instance of `phase` with `MaxFaults = 0`, without the exception that `RestsInsideLock` makes.)
* Without relock the phase search by the PLL looks for nothing. A
  search that fails is only logged. When the direction is not written, every repeated shift goes
  back by all but one of a round and the search finds nothing.
* Known bus errors count twice, so that a single access has three attempts of the
  five of `GEMHwDevice.h:65`. An unknown name in `writeRegs()` leaves the writes before it in
  the client, again with each retry, for whoever dispatches next; `writeRegs()` is the one access that gives up
  without a message. `ttcMMCMPhaseShift()` dispatches without `m_hwLock`.
* `GEMTBUtil::stopAction` and `run()` race for the triggers, which may stay on after a Stop; `haltAction` clears
  `is_running_` before it tests it, so that nothing is switched off; a latency scan
  started again without Configure goes on from its last latency.
* `AMC13Manager::haltAction` leaves local triggers on, and `dumpData()` may then never
  see the buffer empty; events left over from one run go to the files of the next; an access that
  raises loses the count of what was written before it; after a first Initialize that failed,
  commands are queued for a task that does not exist.
* `setUInt32()` and its like return with the info space locked when the item has been
  revoked; the Reset that revokes it does not wait for an update under way.
* After an Initialize that failed at one card, Halt and Reset reach device pointers
  that were never set. `CTP7Manager` fires Fail for a missing card and goes on.

## 5. What is proved

The theorems hold for every value of the constants that the named assumptions of a module
allow; what a theorem supposes beyond those is said with it. Each property was first
checked by TLC, and so was each inductive invariant, on the instances of section 3. The proofs
are laid out alike: the invariant in named parts, a lemma for what each step leaves alone, a
lemma per part or per group of steps, and a theorem that draws the property from the
invariant.

**One application** (`GEMFSMApplication_proofs`).

* `TypeCorrect`, `SemaphoreReleased`: types, and the semaphore follows the job, for any clients
  and any outcomes. Neither of the two is
  inductive alone: that a job confirms a transition of its own needs that there is a job
  whenever `pc` is not `idle`. `WorkLoopInv` is the types, this pairing and the
  semaphore's.
* `NoTransitionForgotten`: for any clients too. The property speaks of the
  state shown, but the job of a transition is submitted, and may even begin, before
  the state is. `OwedInv` therefore adds the same of the state about to be entered:
  a `target` that is transitional is entered from a steady state and is owed an event.
* `NoJobIsStranded`, `ActionIsUndisturbed`, `ReadyIsDone` and `ImplementsContract` suppose a patient client
  and actions that do not swallow their failures (`PatientClient = TRUE`, `"swallows" \notin
  Outcomes`); without either, TLC finds counterexamples. `PatientInv` names the stages a command
  passes (`Asked`, `Accepted`, `Entered`, `Answered`, `Settling`, `AtRest`), each with
  state, target, queue and workloop, and each step leads from one to the next.
  `ImplementsContract` is the refinement of `GEMApplicationContract` in its safety part:
  initial states to initial states, each step to a step or a stutter.

**The supervisor** (`GEMSupervisor_proofs`).

* `SupTypeCorrect`: types, whatever fails and whatever the operator does. Inductive together with
  the workloop's invariant and with what a phase of the action implies (`PhaseInv`): that
  `remaining` stays within `supervised` through `init()`, which empties the list, needs that nothing
  is under way then.
* `RunningIsAlwaysTrue`: `RunningIsReportedTrue`, with any faults and any operator, when there
  are no TCDS applications, which some compositions leave out. It rests on lemmas
  about the composition itself: the priorities are one for each state, `Running` the
  last of them (`PriorityFacts`), the dominant state of a set is in it and nothing in the set goes
  before it (`DominantFacts`), and no branch makes `Running` of a mixture (`BranchFacts`);
  `PolledInv` adds that whom the update in progress has asked is known by a state of his.
* `OrderIsAlwaysRespected`, `CommandsAreAlwaysWelcome` and `TogetherWithoutFaults` suppose
  `Faultless`: no faults, a patient operator whose commands the table accepts and who repeats
  nothing and does not Reset (`Sober`), no two applications in a group, no TCDS applications. Those
  are the conditions of `sup_faultless`, whose reasons section 4 gives, for any number of applications of different
  classes and any number of commands. The invariant has four parts. `PatientInv` is that of one application:
  the supervisor is one, and its moves are those of `GEMFSMApplication` (`MachineMoves`) as
  long as no error is reported (`NoErrorInv`). `MachineInv` says that it never fails and that a
  waiting command is one the operator gives in this state. `CourseInv` says where the applications are
  for each stage of the supervisor's own transition: together where the command found them, in order (`InOrder`:
  the groups that are through, the one under way, those still to be sent the command), or together at
  the goal. What is believed of each application is part of it: `known` may lag
  behind, but only by states that are not the goal, or the wait for a group would be over at once.

**The scan** (`GEMScan_proofs`).

* `ScanTypeCorrect`, `TriggersAlwaysFindFrontEnds` and `LabelsAreAlwaysTrue` hold whatever the operator
  commands and whichever cards are lost. `ScanInv` is the types, the stages of machine and workloop (`FlowInv`), how far an
  action has come through the managers and the cards of one (`OrderInv`), and, along these, which
  sources and front ends are up (`SourcesInv`) and how label, register and the managers' members agree
  (`LabelInv`). `ScansFit` requires the first and last point plus a step to fit the supervisor's
  word, since it adds before it compares.
* `PointIsAlwaysAgreed` and the action property `PointsAreAlwaysFull` are about a scan left alone
  (`Undisturbed` is part of the properties). The three
  counters of the point move at different times, so that `CourseInv` has to say for every state of the
  machine and every stage of `EndScanPoint` which of them has moved (`StateInv`, `ActingInv`), that each
  command in the queue is the one meant there (`EventsInv`), that the sum in hand is the next point (`PendingInv`),
  and that a point whose end has been seen has its events taken or in the FIFO (`CountInv`).

**The readout** (`GEMReadout_proofs`): `ReadoutTypeCorrect`, `CountIsAlwaysTrue`, `FilesAreAlwaysPure`,
`TaskAlwaysFollows`, for every size of chunk, count, buffer and queue. `CountInv` splits the addition to
`m_eventsReadout` at its load and store; `PureInv` follows a fresh run through
the time in which its file has no name yet, when nothing may move; `HeardInv` says that the last
command in the queue, or the task when it is empty, is what the state of the readout asks for.

**The managers of cards** (`GEMHwManager_proofs`): `HwTypeCorrect`, `NoCardIsMissing`, `MonitorsKeepRunning`,
`ProcessStaysUp` and the action property `WorkStaysQuiet`, for all four managers, any number of cards and any
sequence of commands. `HwInv` follows each loop over the cards: which of them have
answered (`ConnectedInv`), been built (`BuiltInv`), lost their monitor and items (`TakenDownInv`), which
monitors have been stopped and will be started (`MonitoredInv`), and whose timer is off while its card is changed (`QuietInv`).

**The accesses** (`GEMHwDevice_proofs`): `DeviceTypeCorrect` (with mutual exclusion) and `AccessesAreOver`, for every
set of threads, registers and calls, every frequency of dispatches and every number of retries.
`AccessIsOver` speaks of the end of an access; `AttemptInv` says of its middle that what has been queued is
either in the client, at its place, or done and read, and `PlacesInv` that no answer goes astray to a list it
was not asked for. `EmptyInv` says where the client must be empty, which an access with an unknown name breaks.

**The phase search** (`GEMPhaseShift_proofs`): `PhaseTypesHold`, and `LockIsRestedIn`, that is
`RestsInsideLock`, for every ring and arc of lock that the two assumptions of `GEMPhaseShift` allow, from
every phase, for any number of failed accesses. `PhaseAssumption` puts the thresholds and the card's count
in order; `WrongWayAssumption` holds with the code's values however wide the lock is (its two products are 3900
and 7761, its ring 3840). `SearchInv` ties the counts of the search to the place of the clock. Without failures
that would be an equation; with them it is a pair of bounds: `Ahead` is how far the card's count is in front of
the expected one, `Behind` how far the repeated shifts have still to go to it, and each failure widens the distance
between the two bounds by a round (`Spent`). `CountInv` says that the counts differ only after a failure, which
pays for the round that a mistaken count leaves out. `RunForwards` and `RunBack` follow the run of locks up to where it
turns and back, `NextAwaited` and `NextCounted` the way over the bad arc into the next lock. A card that has
not taken the direction goes back by all but one of a round at each shift: `WrongRun` and `WrongOut` bound
how far it has come, and it is out of either arc before a threshold is reached. All that is said while the margin
is not used up (`Intact`), beyond which the property claims no more than that the last look was at a good phase.
The proof has the arithmetic modulo ring and round in two lemmas (`Remainder`, `ShiftMoves`): a shift moves by two at
most, so that a place wraps once or not at all.

**The stand-alone scans** (`GEMTestBeamScan_proofs`): `TBTypeCorrect` (with the semaphores) and
`DataIsAlwaysLabelled` for any user; `AlwaysOneRunner` and `RestIsAlwaysQuiet` for a patient one (`PatientUser`). `LabelInv`
adds that no triggers come while a point is closed; `StartInv` that a Start on its way is alone,
with no `run` signal before or behind it; `EndInv` that a scan nobody has stopped ends by its own Stop
only, and that a last `run()` behind it does nothing.

**Left to TLC**:

* liveness, with the fairness it needs (`ScanEnds`, `StopIsHonoured`, the `TransitionsEnd` of supervisor and managers, `SearchEnds`,
  `ErrorIsReported`, the fair part of `KeepsContract`): neither fairness nor ENABLED is within reach of the provers;
* `RunningTogether` with faults and with TCDS applications, and `RunningIsReportedTrue` with TCDS applications, in the instance of
  `sup_faults`;
* the two violated properties, which are counterexamples by nature.

## 6. Not modelled, and the plan

Not modelled:

* web pages, monitoring tables, the hardware and DAQ monitors, the online database and
  the scripts, which have no concurrent behaviour of their own;
* the data parker: `HwGLIB.cc:300-335` leaves the calls that feed it empty, so that
  nothing reaches it;
* the values of registers and the sequences that write them, which need the hardware
  to be judged; with them the masks of masked accesses, the counters of bus errors, and the MMCM's
  count, which the phase search only compares for a message;
* the search through all phases (`doScan`), which no caller asks for;
* the TCDS lease and the reports to run control;
* Configure, Halt, Reset and Initialize in the middle of a scan; wider ranges than the
  registers of a test-beam scan hold.

The next work is on the proofs that are missing:

1. `RunningTogether` with faults: `CourseInv` with applications that have failed, and with the command
   that a failed exchange has or has not delivered.
2. `RunningIsReportedTrue` with TCDS applications, for reports that come from a state in which they are
   not left out.
