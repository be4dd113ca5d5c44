------------------------ MODULE GEMTestBeamScan_proofs ------------------------
(***************************************************************************)
(* Proofs about the stand-alone scans of the test beams, for every range and    *)
(* step, every number of triggers and every number of clicks.                   *)
(***************************************************************************)
EXTENDS GEMTestBeamScan, SequenceTheorems, TLAPS

(* What is in a sequence.                                                               *)
Members(s) == {s[i] : i \in DOMAIN s}

(* The types, with what the scans of one kind never reach.                           *)
ScanTypes ==
  /\ TBTypeOK
  /\ kind \in Kinds
  /\ action \in Commands \cup {None}
  /\ kind = "adc" => at \in {"idle", "counting"}

(* No triggers come while a point is being closed and the next one prepared, and the    *)
(* label follows the register before hw_semaphore_ is returned.                       *)
LabelInv ==
  /\ held = register
  /\ kind = "adc" => ~triggers
  /\ at \in {"closing", "stepping", "draining"} => ~triggers
  /\ kind # "adc" /\ at # "draining" => register = runParam

(* Commands that are not carried out yet.                                            *)
Pending == Members(queue) \cup Members(events) \cup {action}

(* A Start that is on its way is alone on it, so that its run() is the only one.         *)
StartIsAlone ==
  "Start" \in Pending =>
    /\ at = "idle" /\ "run" \notin Members(queue)
    /\ \/ queue = <<"Start">> /\ events = <<>> /\ action = None
       \/ queue = <<>> /\ events = <<"Start">> /\ action = None
       \/ queue = <<>> /\ events = <<>> /\ action = "Start"

(* One run() at a time: a Start is alone, and so is the signal of run().                *)
StartInv ==
  /\ StartIsAlone
  /\ OneRunner

(* A run() that comes after the last point of a latency scan does nothing more.         *)
Idles ==
  /\ kind = "latency" /\ ~scanpoint /\ count = 0
  /\ at \in {"idle", "counting", "judging"}
  /\ at = "judging" => seen = 0

(* The triggers are off, and a run() that is still to come does nothing more.           *)
Over == ~triggers /\ (at # "idle" \/ "run" \in Members(queue) => Idles)

(* As long as the user has stopped nothing: a scan is stopped by itself alone, when it    *)
(* is over, and without a scan everything is off.                                     *)
EndInv ==
  /\ action = "Start" /\ step = 2 => isRunning
  /\ at \in {"stepping", "draining"} => count = 0
  /\ ~stopped =>
       IF state = "Running"
       THEN /\ isRunning
            /\ Pending \subseteq {"run", "Stop", None}
            /\ "Stop" \in Pending => Over
       ELSE Over /\ ~runMode

(* The inductive invariant of the scans.                                                *)
TBInv == ScanTypes /\ LabelInv /\ StartInv /\ EndInv

-----------------------------------------------------------------------------
(* What is in a sequence, and how often.                                          *)

LEMMA AppendMembers ==
  ASSUME NEW S, NEW s \in Seq(S), NEW v
  PROVE  Members(Append(s, v)) = Members(s) \cup {v}
<1>1. /\ DOMAIN Append(s, v) = 1..(Len(s) + 1) /\ DOMAIN s = 1..Len(s) /\ Len(s) \in Nat
      /\ \A i \in 1..(Len(s) + 1) : Append(s, v)[i] = IF i <= Len(s) THEN s[i] ELSE v
  OBVIOUS
<1>2. Members(s) \subseteq Members(Append(s, v))
  BY <1>1 DEF Members
<1>3. v \in Members(Append(s, v))
  <2>1. Len(s) + 1 \in DOMAIN Append(s, v) /\ Append(s, v)[Len(s) + 1] = v
    BY <1>1
  <2> QED
    BY <2>1 DEF Members
<1>4. Members(Append(s, v)) \subseteq Members(s) \cup {v}
  BY <1>1 DEF Members
<1> QED
  BY <1>2, <1>3, <1>4

(* What is in a sequence besides its head.                                              *)
LEMMA TailMembers ==
  ASSUME NEW S, NEW s \in Seq(S), s # <<>>
  PROVE  Members(s) = {Head(s)} \cup Members(Tail(s))
<1>1. /\ DOMAIN Tail(s) = 1..(Len(s) - 1) /\ DOMAIN s = 1..Len(s) /\ Len(s) \in Nat \ {0}
      /\ Head(s) = s[1]
      /\ \A i \in 1..(Len(s) - 1) : Tail(s)[i] = s[i + 1]
  OBVIOUS
<1>2. Head(s) \in Members(s)
  BY <1>1 DEF Members
<1>3. Members(Tail(s)) \subseteq Members(s)
  BY <1>1 DEF Members
<1>4. ASSUME NEW i \in DOMAIN s PROVE s[i] \in {Head(s)} \cup Members(Tail(s))
  <2>1. CASE i = 1
    BY <1>1, <2>1
  <2>2. CASE i # 1
    <3>1. i - 1 \in DOMAIN Tail(s) /\ Tail(s)[i - 1] = s[i]
      BY <1>1, <2>2
    <3> QED
      BY <3>1 DEF Members
  <2> QED
    BY <2>1, <2>2
<1> QED
  BY <1>2, <1>3, <1>4 DEF Members

(* What is in a concatenation.                                                          *)
LEMMA ConcatMembers ==
  ASSUME NEW S, NEW s \in Seq(S), NEW u \in Seq(S)
  PROVE  Members(s \o u) = Members(s) \cup Members(u)
<1>1. /\ DOMAIN (s \o u) = 1..(Len(s) + Len(u))
      /\ DOMAIN s = 1..Len(s) /\ DOMAIN u = 1..Len(u)
      /\ Len(s) \in Nat /\ Len(u) \in Nat
      /\ \A i \in 1..(Len(s) + Len(u)) :
           (s \o u)[i] = IF i <= Len(s) THEN s[i] ELSE u[i - Len(s)]
  OBVIOUS
<1>2. Members(s) \subseteq Members(s \o u)
  BY <1>1 DEF Members
<1>3. ASSUME NEW i \in DOMAIN u PROVE u[i] \in Members(s \o u)
  <2>1. i + Len(s) \in DOMAIN (s \o u) /\ (s \o u)[i + Len(s)] = u[i]
    BY <1>1
  <2> QED
    BY <2>1 DEF Members
<1>4. Members(s \o u) \subseteq Members(s) \cup Members(u)
  BY <1>1 DEF Members
<1> QED
  BY <1>2, <1>3, <1>4 DEF Members

(* What is in a sequence of none, one or two.                                           *)
LEMMA FewMembers ==
  /\ Members(<<>>) = {}
  /\ \A a : Members(<<a>>) = {a}
  /\ \A a, b : Members(<<a, b>>) = {a, b}
  BY DEF Members

(* At most one signal of run().                                                   *)
AtMostOne(s) == \A i, j \in DOMAIN s : s[i] = "run" /\ s[j] = "run" => i = j

(* An Append adds at most the one signal of run().                                      *)
LEMMA OneAppended ==
  ASSUME NEW S, NEW s \in Seq(S), NEW v, AtMostOne(s), v = "run" => "run" \notin Members(s)
  PROVE  AtMostOne(Append(s, v))
<1>1. /\ DOMAIN Append(s, v) = 1..(Len(s) + 1) /\ DOMAIN s = 1..Len(s) /\ Len(s) \in Nat
      /\ \A i \in 1..(Len(s) + 1) : Append(s, v)[i] = IF i <= Len(s) THEN s[i] ELSE v
  OBVIOUS
<1>2. v = "run" => \A i \in 1..Len(s) : s[i] # "run"
  BY <1>1 DEF Members
<1> QED
  BY <1>1, <1>2 DEF AtMostOne

(* The tail has no more signals of run(), and none if the head was one.                 *)
LEMMA OneLess ==
  ASSUME NEW S, NEW s \in Seq(S), s # <<>>, AtMostOne(s)
  PROVE  /\ AtMostOne(Tail(s))
         /\ Head(s) = "run" => "run" \notin Members(Tail(s))
<1>1. /\ DOMAIN Tail(s) = 1..(Len(s) - 1) /\ DOMAIN s = 1..Len(s) /\ Len(s) \in Nat \ {0}
      /\ Head(s) = s[1]
      /\ \A i \in 1..(Len(s) - 1) : Tail(s)[i] = s[i + 1] /\ i + 1 \in DOMAIN s /\ i + 1 # 1
  OBVIOUS
<1>2. AtMostOne(Tail(s))
  BY <1>1 DEF AtMostOne
<1>3. ASSUME Head(s) = "run", NEW i \in DOMAIN Tail(s) PROVE Tail(s)[i] # "run"
  BY <1>1, <1>3 DEF AtMostOne
<1> QED
  BY <1>2, <1>3 DEF Members

(* A concatenation to a sequence without a signal of run() has at most the one.         *)
LEMMA OneConcatenated ==
  ASSUME NEW S, NEW s \in Seq(S), NEW u \in Seq(S), "run" \notin Members(s), AtMostOne(u)
  PROVE  AtMostOne(s \o u)
<1>1. /\ DOMAIN (s \o u) = 1..(Len(s) + Len(u))
      /\ DOMAIN s = 1..Len(s) /\ DOMAIN u = 1..Len(u)
      /\ Len(s) \in Nat /\ Len(u) \in Nat
      /\ \A i \in 1..(Len(s) + Len(u)) :
           (s \o u)[i] = IF i <= Len(s) THEN s[i] ELSE u[i - Len(s)]
  OBVIOUS
<1>2. \A i \in 1..Len(s) : s[i] # "run"
  BY <1>1 DEF Members
<1>3. ASSUME NEW i \in DOMAIN (s \o u), NEW j \in DOMAIN (s \o u),
             (s \o u)[i] = "run", (s \o u)[j] = "run"
      PROVE  i = j
  <2>1. i > Len(s) /\ j > Len(s) /\ i \in Int /\ j \in Int
    BY <1>1, <1>2, <1>3
  <2>2. i - Len(s) \in DOMAIN u /\ j - Len(s) \in DOMAIN u
    BY <1>1, <2>1
  <2>3. u[i - Len(s)] = "run" /\ u[j - Len(s)] = "run"
    BY <1>1, <1>3, <2>1
  <2>4. i - Len(s) = j - Len(s)
    BY <2>2, <2>3 DEF AtMostOne
  <2> QED
    BY <1>1, <2>1, <2>4
<1> QED
  BY <1>3 DEF AtMostOne

(* The number of a queue's signals of run(), said with the operators above.            *)
LEMMA OneRunnerIs ==
  /\ OneRunner <=> AtMostOne(queue) /\ (at # "idle" => "run" \notin Members(queue))
  /\ OneRunner' <=> AtMostOne(queue') /\ (at' # "idle" => "run" \notin Members(queue'))
  BY DEF OneRunner, AtMostOne, Members

-----------------------------------------------------------------------------
(* Types.                                                                       *)

Signals == Commands \cup {"run"}

(* The values of a register.                                                            *)
Values == 0..RegisterMax

(* The parts of the types: who holds what, what is on its way, and the numbers.          *)
Places ==
  /\ SemaphoresReturned
  /\ at \in {"idle", "counting", "judging", "closing", "stepping", "draining"}
  /\ wlSemaphore \in {None, "run"} /\ hwSemaphore \in {None, "run"}
  /\ kind \in Kinds
  /\ kind = "adc" => at \in {"idle", "counting"}

Ways ==
  /\ state \in {"Initial", "Halted", "Configured", "Running", "Error"}
  /\ events \in Seq(Commands)
  /\ queue \in Seq(Signals)
  /\ action \in Commands \cup {None}

Numbers ==
  /\ register \in Values /\ held \in Values /\ runParam \in Values
  /\ count \in 0..NTriggers /\ seen \in 0..NTriggers

(* The types in three parts, before and after a step.                                   *)
LEMMA TypesParts ==
  /\ ScanTypes <=> Places /\ Ways /\ Numbers
  /\ ScanTypes' <=> Places' /\ Ways' /\ Numbers'
<1>1. ScanTypes <=> Places /\ Ways /\ Numbers
  BY DEF ScanTypes, TBTypeOK, Places, Ways, Numbers, Signals, Values
<1>2. ScanTypes' <=> Places' /\ Ways' /\ Numbers'
  BY DEF ScanTypes, TBTypeOK, Places, Ways, Numbers, Signals, Values
<1> QED
  BY <1>1, <1>2

(* A step that leaves places and semaphores alone keeps their types.                    *)
LEMMA SamePlaces ==
  ASSUME Places, UNCHANGED <<at, wlSemaphore, hwSemaphore, kind>> PROVE Places'
  BY DEF Places, SemaphoresReturned

(* A step that leaves machine, events and signals alone keeps their types.              *)
LEMMA SameWays ==
  ASSUME Ways, UNCHANGED <<state, events, queue, action>> PROVE Ways'
  BY DEF Ways

(* A step that leaves registers and counts alone keeps their types.                     *)
LEMMA SameNumbers ==
  ASSUME Numbers, UNCHANGED <<register, held, runParam, count, seen>> PROVE Numbers'
  BY DEF Numbers

(* The first value is within the register.                                          *)
LEMMA FirstFits == First \in Values /\ 0 \in Values /\ 0 \in 0..NTriggers
  BY RangeFits DEF First, Values

(* The next value of a scan fits the register.                                          *)
LEMMA NextFits == ASSUME held \in Values PROVE NextValue \in Values
<1>1. held + Step \in Nat /\ RegisterMax \in Nat /\ held \in Nat /\ held <= RegisterMax
      /\ Step \in Nat
  BY RangeFits DEF Values
<1>2. (IF held > Step THEN held - Step ELSE 0) \in Values
  BY <1>1 DEF Values
<1>3. (IF held + Step < RegisterMax THEN held + Step ELSE RegisterMax) \in Values
  BY <1>1 DEF Values
<1>4. NextValue = IF kind = "threshold" THEN IF held > Step THEN held - Step ELSE 0
                  ELSE IF held + Step < RegisterMax THEN held + Step ELSE RegisterMax
  BY DEF NextValue
<1> QED
  BY <1>2, <1>3, <1>4

(* The types hold at first.                                                             *)
LEMMA InitTypes == TBInit => ScanTypes
<1> SUFFICES ASSUME TBInit PROVE ScanTypes
  OBVIOUS
<1>1. Places
  BY DEF TBInit, Places, SemaphoresReturned, None
<1>2. Ways
  BY DEF TBInit, Ways, Signals
<1>3. Numbers
  BY FirstFits DEF TBInit, Numbers
<1> QED
  BY <1>1, <1>2, <1>3, TypesParts

(* The steps that submit, take or carry out a command.                               *)
LEMMA MachineWays ==
  ASSUME Ways, MachineSteps
  PROVE  Ways'
<1>1. CASE TakeEvent
  <2>1. events # <<>> /\ action' = Head(events) /\ events' = Tail(events)
        /\ UNCHANGED <<state, queue>>
    BY <1>1 DEF TakeEvent, loopVars
  <2>2. Head(events) \in Commands /\ Tail(events) \in Seq(Commands)
    BY <2>1 DEF Ways
  <2> QED
    BY <2>1, <2>2 DEF Ways
<1>2. CASE IgnoreEvent \/ MissTransition
  <2>1. events # <<>> /\ state' \in {state, "Error"} /\ events' = Tail(events)
        /\ UNCHANGED <<action, queue>>
    BY <1>2 DEF IgnoreEvent, MissTransition, loopVars
  <2>2. Tail(events) \in Seq(Commands)
    BY <2>1 DEF Ways
  <2> QED
    BY <2>1, <2>2 DEF Ways
<1>3. CASE StartAction1 \/ StopAction1
  BY <1>3, SameWays DEF StartAction1, StopAction1, loopVars
<1>4. ASSUME NEW c \in Commands, Done(c),
             \/ queue' = queue
             \/ \E s \in Signals : queue' = Append(queue, s)
      PROVE  Ways'
  <2>1. state' = Target(c) /\ action' = None /\ events' = events
    BY <1>4 DEF Done
  <2>2. Target(c) \in {"Initial", "Halted", "Configured", "Running"}
    BY DEF Target, Commands
  <2>3. queue' \in Seq(Signals)
    <3>1. queue \in Seq(Signals)
      BY DEF Ways
    <3>2. \A s \in Signals : Append(queue, s) \in Seq(Signals)
      BY <3>1
    <3> QED
      BY <1>4, <3>1, <3>2
  <2> QED
    BY <2>1, <2>2, <2>3 DEF Ways
<1>5. ASSUME InitializeAction \/ ConfigureAction \/ StartAction2 \/ StopAction2 \/ StopADC
             \/ HaltAction \/ ResetAction
      PROVE  \E c \in Commands : Done(c)
  BY <1>5 DEF InitializeAction, ConfigureAction, StartAction2, StopAction2, StopADC, HaltAction,
              ResetAction, Commands
<1>6. ASSUME InitializeAction \/ ConfigureAction \/ StartAction2 \/ StopAction2 \/ StopADC
             \/ HaltAction \/ ResetAction
      PROVE  queue' = queue \/ \E s \in Signals : queue' = Append(queue, s)
  BY <1>6 DEF InitializeAction, ConfigureAction, StartAction2, StopAction2, StopADC, HaltAction,
              ResetAction, Signals, Commands, loopVars
<1> QED
  BY <1>1, <1>2, <1>3, <1>4, <1>5, <1>6 DEF MachineSteps

(* A click keeps the types of what is on its way.                                       *)
LEMMA ClickWays ==
  ASSUME Ways, NEW c \in Commands, Click(c)
  PROVE  Ways'
<1>1. queue' = Append(queue, c) /\ UNCHANGED <<state, events, action>>
  BY DEF Click, fsmVars
<1>2. Append(queue, c) \in Seq(Signals)
  <2>1. queue \in Seq(Signals) /\ c \in Signals
    BY DEF Ways, Signals
  <2> QED
    BY <2>1
<1> QED
  BY <1>1, <1>2 DEF Ways

(* run() uses its signal up and submits some again.                                  *)
LEMMA WorkloopWays ==
  ASSUME Ways, WorkloopSteps
  PROVE  Ways'
<1>0. queue \in Seq(Signals)
  BY DEF Ways
<1>1. CASE TakeControlSignal
  <2>1. queue # <<>> /\ Head(queue) # "run" /\ events' = Append(events, Head(queue))
        /\ queue' = Tail(queue) /\ UNCHANGED <<state, action>>
    BY <1>1 DEF TakeControlSignal
  <2>2. Head(queue) \in Commands /\ Tail(queue) \in Seq(Signals)
    BY <1>0, <2>1 DEF Signals
  <2>3. events \in Seq(Commands)
    BY DEF Ways
  <2>4. Append(events, Head(queue)) \in Seq(Commands)
    BY <2>2, <2>3
  <2> QED
    BY <2>1, <2>2, <2>4 DEF Ways
<1>2. CASE RunBegins \/ NotRunning
  <2>1. queue # <<>> /\ queue' \in {Tail(queue), Append(Tail(queue), "Stop")}
        /\ UNCHANGED <<state, action, events>>
    BY <1>2 DEF RunBegins, NotRunning, TakeRunSignal, fsmVars
  <2>2. Tail(queue) \in Seq(Signals) /\ "Stop" \in Signals
    BY <1>0, <2>1 DEF Signals, Commands
  <2>3. Append(Tail(queue), "Stop") \in Seq(Signals)
    BY <2>2
  <2> QED
    BY <2>1, <2>2, <2>3 DEF Ways
<1>3. CASE RunCounts \/ RunStopsTriggers \/ RunClosesPoint \/ RunSteps
  BY <1>3, SameWays DEF RunCounts, RunStopsTriggers, RunClosesPoint, RunSteps, fsmVars
<1>4. CASE \/ RunGoesOn \/ RunLabels \/ RunEndsLatency \/ RunEndsThreshold
           \/ RunSamples \/ RunStepsADC
  <2>1. /\ UNCHANGED <<state, events, action>>
        /\ queue' \in {queue \o <<"run">>, queue \o <<"Stop", "run">>, queue \o <<"Stop">>}
    BY <1>4 DEF RunGoesOn, RunLabels, RunEndsLatency, RunEndsThreshold, RunSamples, RunStepsADC,
                Returns, fsmVars
  <2>2. "run" \in Signals /\ "Stop" \in Signals
    BY DEF Signals, Commands
  <2>3. <<"run">> \in Seq(Signals) /\ <<"Stop", "run">> \in Seq(Signals)
        /\ <<"Stop">> \in Seq(Signals)
    BY <2>2
  <2>4. queue' \in Seq(Signals)
    <3>1. \A u \in Seq(Signals) : queue \o u \in Seq(Signals)
      BY <1>0
    <3> QED
      BY <2>1, <2>3, <3>1
  <2> QED
    BY <2>1, <2>4 DEF Ways
<1> QED
  BY <1>1, <1>2, <1>3, <1>4 DEF WorkloopSteps

(* The actions of the machine keep the types of the numbers.                            *)
LEMMA MachineNumbers ==
  ASSUME Numbers, MachineSteps
  PROVE  Numbers'
<1>1. /\ register' \in {register, First} /\ held' \in {held, First}
      /\ runParam' \in {runParam, First, held'}
      /\ count' \in {count, 0} /\ seen' \in {seen, 0}
  BY DEF MachineSteps, TakeEvent, IgnoreEvent, MissTransition, InitializeAction, ConfigureAction,
         StartAction1, StartAction2, StopAction1, StopAction2, StopADC, HaltAction, ResetAction,
         hwVars, copyVars
<1> QED
  BY <1>1, FirstFits DEF Numbers

(* The steps of the workloop keep the types of the numbers.                             *)
LEMMA WorkloopNumbers ==
  ASSUME Numbers, WorkloopSteps
  PROVE  Numbers'
<1>1. NextValue \in Values
  BY NextFits DEF Numbers
<1>2. /\ register' \in {register, NextValue}
      /\ held' \in {held, register'}
      /\ runParam' \in {runParam, held}
      /\ seen' \in {seen, count, 0}
      /\ count' \in {count, 0} \/ (count < NTriggers /\ count' = count + 1)
  BY DEF WorkloopSteps, TakeControlSignal, RunBegins, NotRunning, TakeRunSignal, RunCounts,
         RunGoesOn, RunStopsTriggers, RunClosesPoint, RunSteps, RunLabels, RunEndsLatency,
         RunEndsThreshold, RunSamples, RunStepsADC, hwVars, copyVars
<1>3. count' \in 0..NTriggers
  BY <1>2, RangeFits DEF Numbers
<1> QED
  BY <1>1, <1>2, <1>3, FirstFits DEF Numbers

(* The steps of the workloop keep the types of the places and return the semaphores.    *)
LEMMA WorkloopPlaces ==
  ASSUME Places, WorkloopSteps
  PROVE  Places'
<1>1. kind' = kind
  BY DEF WorkloopSteps, TakeControlSignal, RunBegins, NotRunning, TakeRunSignal, RunCounts,
         RunGoesOn, RunStopsTriggers, RunClosesPoint, RunSteps, RunLabels, RunEndsLatency,
         RunEndsThreshold, RunSamples, RunStepsADC, userVars
<1>2. \/ UNCHANGED <<at, wlSemaphore, hwSemaphore>>
      \/ /\ at = "idle" /\ at' = "counting" /\ wlSemaphore' = "run" /\ hwSemaphore' = hwSemaphore
      \/ /\ at # "draining" /\ at' = "idle" /\ wlSemaphore' = None /\ hwSemaphore' = hwSemaphore
      \/ /\ at = "draining" /\ at' = "idle" /\ wlSemaphore' = None /\ hwSemaphore' = None
      \/ /\ at = "stepping" /\ at' = "draining" /\ wlSemaphore' = wlSemaphore
         /\ hwSemaphore' = "run"
      \/ /\ at \in {"counting", "judging", "closing"} /\ kind # "adc"
         /\ at' \in {"judging", "closing", "stepping"}
         /\ wlSemaphore' = wlSemaphore /\ hwSemaphore' = hwSemaphore
  <2>1. CASE TakeControlSignal \/ NotRunning
    BY <2>1 DEF TakeControlSignal, NotRunning, TakeRunSignal, hwVars
  <2>2. CASE RunBegins
    BY <2>2 DEF RunBegins, TakeRunSignal, hwVars
  <2>3. CASE RunGoesOn \/ RunEndsLatency \/ RunEndsThreshold \/ RunSamples \/ RunStepsADC
    <3>1. at # "draining" /\ hwSemaphore' = hwSemaphore
      BY <2>3 DEF RunGoesOn, RunEndsLatency, RunEndsThreshold, RunSamples, RunStepsADC, hwVars
    <3>2. at' = "idle" /\ wlSemaphore' = None
      BY <2>3 DEF RunGoesOn, RunEndsLatency, RunEndsThreshold, RunSamples, RunStepsADC, Returns
    <3> QED
      BY <3>1, <3>2
  <2>4. CASE RunLabels
    BY <2>4 DEF RunLabels, Returns
  <2>5. CASE RunSteps
    BY <2>5 DEF RunSteps
  <2>6. CASE RunCounts \/ RunStopsTriggers \/ RunClosesPoint
    BY <2>6 DEF RunCounts, RunStopsTriggers, RunClosesPoint, Places
  <2> QED
    BY <2>1, <2>2, <2>3, <2>4, <2>5, <2>6 DEF WorkloopSteps
<1>3. "run" # None
  BY DEF None
<1> QED
  BY <1>1, <1>2, <1>3 DEF Places, SemaphoresReturned

(* Every step keeps the types.                                                          *)
LEMMA NextTypes == ScanTypes /\ [TBNext]_tbVars => ScanTypes'
<1> SUFFICES ASSUME ScanTypes, [TBNext]_tbVars PROVE ScanTypes'
  OBVIOUS
<1>0. Places /\ Ways /\ Numbers
  BY TypesParts
<1>1. ASSUME NEW c \in Commands, Click(c) PROVE ScanTypes'
  <2>1. Places' /\ Numbers'
    BY <1>0, <1>1, SamePlaces, SameNumbers DEF Click, hwVars, copyVars
  <2> QED
    BY <1>0, <1>1, <2>1, ClickWays, TypesParts
<1>2. CASE MachineSteps
  <2>1. UNCHANGED <<at, wlSemaphore, hwSemaphore, kind>>
    BY <1>2
    DEF MachineSteps, TakeEvent, IgnoreEvent, MissTransition, InitializeAction, ConfigureAction,
        StartAction1, StartAction2, StopAction1, StopAction2, StopADC, HaltAction, ResetAction,
        hwVars, loopVars, userVars
  <2> QED
    BY <1>0, <1>2, <2>1, SamePlaces, MachineWays, MachineNumbers, TypesParts
<1>3. CASE WorkloopSteps
  BY <1>0, <1>3, WorkloopPlaces, WorkloopWays, WorkloopNumbers, TypesParts
<1>4. CASE Trigger
  <2>1. /\ count < NTriggers /\ count' = count + 1
        /\ UNCHANGED <<at, wlSemaphore, hwSemaphore, kind>>
        /\ UNCHANGED <<state, events, queue, action>>
        /\ UNCHANGED <<register, held, runParam, seen>>
    BY <1>4 DEF Trigger, fsmVars, loopVars, copyVars, userVars
  <2>2. Numbers'
    BY <1>0, <2>1, RangeFits DEF Numbers
  <2> QED
    BY <1>0, <2>1, <2>2, SamePlaces, SameWays, TypesParts
<1>5. CASE DAQReads \/ UNCHANGED tbVars
  <2>1. /\ UNCHANGED <<at, wlSemaphore, hwSemaphore, kind>>
        /\ UNCHANGED <<state, events, queue, action>>
        /\ UNCHANGED <<register, held, runParam, count, seen>>
    BY <1>5 DEF DAQReads, tbVars, fsmVars, loopVars, hwVars, copyVars, userVars
  <2> QED
    BY <1>0, <2>1, SamePlaces, SameWays, SameNumbers, TypesParts
<1> QED
  BY <1>1, <1>2, <1>3, <1>4, <1>5 DEF TBNext

(* The type invariant, with what each semaphore is held for.                           *)
THEOREM TBTypeCorrect == TBSpec => []TBTypeOK
<1>1. ScanTypes => TBTypeOK
  BY DEF ScanTypes
<1> QED
  BY InitTypes, NextTypes, <1>1, PTL DEF TBSpec

-----------------------------------------------------------------------------
(* The label of the data.                                                         *)

LEMMA InitLabel == TBInit => LabelInv
  BY DEF TBInit, LabelInv

(* A step that touches neither register nor label nor triggers keeps them in agreement. *)
LEMMA SameLabel ==
  ASSUME LabelInv, UNCHANGED <<held, register, kind, triggers, at, runParam>>
  PROVE  LabelInv'
  BY DEF LabelInv

(* The actions write register and label together, and none turns the triggers on.        *)
LEMMA MachineLabel ==
  ASSUME LabelInv, MachineSteps
  PROVE  LabelInv'
<1>1. UNCHANGED <<kind, at>>
  BY DEF MachineSteps, TakeEvent, IgnoreEvent, MissTransition, InitializeAction, ConfigureAction,
         StartAction1, StartAction2, StopAction1, StopAction2, StopADC, HaltAction, ResetAction,
         loopVars, userVars
<1>2. triggers' = FALSE \/ triggers' = triggers
  BY DEF MachineSteps, TakeEvent, IgnoreEvent, MissTransition, InitializeAction, ConfigureAction,
         StartAction1, StartAction2, StopAction1, StopAction2, StopADC, HaltAction, ResetAction,
         hwVars
<1>3. \/ UNCHANGED <<register, held, runParam>>
      \/ /\ register' = First /\ held' = First
         /\ runParam' = IF kind = "adc" THEN runParam ELSE First
      \/ /\ UNCHANGED <<register, held>>
         /\ runParam' = IF kind = "adc" THEN runParam ELSE held
  BY DEF MachineSteps, TakeEvent, IgnoreEvent, MissTransition, InitializeAction, ConfigureAction,
         StartAction1, StartAction2, StopAction1, StopAction2, StopADC, HaltAction, ResetAction,
         hwVars, copyVars
<1>4. held' = register' /\ (kind # "adc" /\ at # "draining" => register' = runParam')
  BY <1>3 DEF LabelInv
<1> QED
  BY <1>1, <1>4, <1>2 DEF LabelInv

(* A step of run() changes the register only when the triggers are off, and its label     *)
(* follows before anything else can happen to it.                                     *)
LEMMA WorkloopLabel ==
  ASSUME ScanTypes, LabelInv, WorkloopSteps
  PROVE  LabelInv'
<1>0. kind = "adc" => at \in {"idle", "counting"}
  BY DEF ScanTypes
<1>1. CASE TakeControlSignal \/ NotRunning
  BY <1>1, SameLabel DEF TakeControlSignal, NotRunning, TakeRunSignal, hwVars, copyVars, userVars
<1>2. CASE RunBegins \/ RunGoesOn \/ RunSamples
  <2>1. /\ UNCHANGED <<held, register, kind, triggers, runParam>>
        /\ at # "draining" /\ at' \in {"idle", "counting"}
    BY <1>2 DEF RunBegins, RunGoesOn, RunSamples, TakeRunSignal, Returns, hwVars, copyVars,
                userVars
  <2> QED
    BY <2>1 DEF LabelInv
<1>3. CASE RunCounts
  <2>1. /\ UNCHANGED <<held, register, kind, runParam>>
        /\ kind # "adc" /\ at = "counting" /\ at' = "judging"
    BY <1>3 DEF RunCounts, userVars
  <2> QED
    BY <2>1 DEF LabelInv
<1>4. CASE RunStopsTriggers \/ RunClosesPoint \/ RunEndsLatency \/ RunEndsThreshold
  <2>1. /\ UNCHANGED <<held, register, kind, runParam>>
        /\ at \in {"judging", "closing", "stepping"}
        /\ at' \in {"closing", "stepping", "idle"}
        /\ triggers' => triggers /\ at # "judging"
    BY <1>4 DEF RunStopsTriggers, RunClosesPoint, RunEndsLatency, RunEndsThreshold, Returns,
                hwVars, copyVars, userVars
  <2>2. ~triggers'
    BY <2>1 DEF LabelInv
  <2> QED
    BY <2>1, <2>2 DEF LabelInv
<1>5. CASE RunSteps
  <2>1. /\ UNCHANGED <<kind, triggers, runParam>> /\ held' = register'
        /\ at = "stepping" /\ at' = "draining"
    BY <1>5 DEF RunSteps, userVars
  <2> QED
    BY <2>1 DEF LabelInv
<1>6. CASE RunLabels
  <2>1. /\ UNCHANGED <<kind, triggers, held, register>> /\ runParam' = held
        /\ at = "draining" /\ at' = "idle"
    BY <1>6 DEF RunLabels, Returns, userVars
  <2> QED
    BY <2>1 DEF LabelInv
<1>7. CASE RunStepsADC
  <2>1. /\ UNCHANGED <<kind, triggers, runParam>> /\ kind = "adc" /\ at' = "idle"
        /\ \/ UNCHANGED <<held, register>>
           \/ held' = register'
    BY <1>7 DEF RunStepsADC, Returns, userVars
  <2> QED
    BY <2>1 DEF LabelInv
<1> QED
  BY <1>1, <1>2, <1>3, <1>4, <1>5, <1>6, <1>7 DEF WorkloopSteps

(* Every step keeps register and label in agreement.                                    *)
LEMMA NextLabel == ScanTypes /\ LabelInv /\ [TBNext]_tbVars => LabelInv'
<1> SUFFICES ASSUME ScanTypes, LabelInv, [TBNext]_tbVars PROVE LabelInv'
  OBVIOUS
<1>1. ASSUME NEW c \in Commands, Click(c) PROVE LabelInv'
  BY <1>1, SameLabel DEF Click, hwVars, copyVars
<1>2. CASE Trigger \/ DAQReads \/ UNCHANGED tbVars
  BY <1>2, SameLabel
  DEF Trigger, DAQReads, tbVars, fsmVars, loopVars, hwVars, copyVars, userVars
<1> QED
  BY <1>1, <1>2, MachineLabel, WorkloopLabel DEF TBNext

(* While triggers come to VFATs in run mode they are labelled with the value of the       *)
(* register, whatever the user clicks and however impatient he is.                      *)
THEOREM DataIsAlwaysLabelled == TBSpec => []DataIsLabelled
<1>1. LabelInv => DataIsLabelled
  BY DEF LabelInv, DataIsLabelled
<1> QED
  BY InitTypes, NextTypes, InitLabel, NextLabel, <1>1, PTL DEF TBSpec

-----------------------------------------------------------------------------
(* The signals of run(), and the Start that submits the first one.                     *)

(* The four ways a step of the machine's thread deals with commands.                    *)
Carries ==
  \/ UNCHANGED <<queue, events, action>>
  \/ /\ events # <<>> /\ action = None
     /\ action' = Head(events) /\ events' = Tail(events) /\ queue' = queue
  \/ /\ events # <<>> /\ action = None
     /\ events' = Tail(events) /\ UNCHANGED <<queue, action>>
  \/ /\ action # None /\ action' = None /\ events' = events
     /\ \/ queue' = queue
        \/ \E s \in {"Stop", "Halt", "Reset"} : queue' = Append(queue, s)
        \/ action = "Start" /\ queue' = Append(queue, "run")

(* The machine's steps deal with events and signals in the ways of Carries.             *)
LEMMA MachineCarries ==
  ASSUME MachineSteps
  PROVE  Carries /\ at' = at
<1>0. \A c \in Commands : c # None
  BY DEF Commands, None
<1>1. CASE TakeEvent \/ IgnoreEvent \/ MissTransition
  BY <1>1 DEF TakeEvent, IgnoreEvent, MissTransition, Carries, loopVars
<1>2. CASE StartAction1 \/ StopAction1
  BY <1>2 DEF StartAction1, StopAction1, Carries, loopVars
<1>3. CASE \/ InitializeAction \/ ConfigureAction \/ StartAction2 \/ StopAction2 \/ StopADC
           \/ HaltAction \/ ResetAction
  <2>1. /\ action \in Commands /\ action' = None /\ events' = events /\ at' = at
        /\ \/ queue' = queue
           \/ \E s \in {"Stop", "Halt", "Reset"} : queue' = Append(queue, s)
           \/ action = "Start" /\ queue' = Append(queue, "run")
    BY <1>3 DEF InitializeAction, ConfigureAction, StartAction2, StopAction2, StopADC, HaltAction,
                ResetAction, Done, Commands, loopVars
  <2> QED
    BY <1>0, <2>1 DEF Carries
<1> QED
  BY <1>1, <1>2, <1>3 DEF MachineSteps

(* What run() may submit when it returns.                                            *)
Submitted == {<<"run">>, <<"Stop", "run">>, <<"Stop">>}

(* The five ways a step of the workloop deals with signals.                            *)
Works ==
  \/ /\ UNCHANGED <<queue, events>> /\ at # "idle" /\ at' # "idle"
  \/ /\ at = "idle" /\ at' = "idle"
     /\ queue # <<>> /\ Head(queue) # "run"
     /\ events' = Append(events, Head(queue)) /\ queue' = Tail(queue)
  \/ /\ at = "idle" /\ at' = "counting" /\ events' = events
     /\ queue # <<>> /\ Head(queue) = "run" /\ queue' = Tail(queue)
  \/ /\ at = "idle" /\ at' = "idle" /\ events' = events
     /\ queue # <<>> /\ Head(queue) = "run"
     /\ queue' = Tail(queue) \/ (kind = "adc" /\ queue' = Append(Tail(queue), "Stop"))
  \/ /\ at # "idle" /\ at' = "idle" /\ events' = events
     /\ \E u \in Submitted : queue' = queue \o u

(* The workloop's steps deal with signals in the ways of Works.                         *)
LEMMA WorkloopWorks ==
  ASSUME WorkloopSteps
  PROVE  Works /\ action' = action
<1>1. CASE TakeControlSignal
  BY <1>1 DEF TakeControlSignal, Works
<1>2. CASE RunBegins
  BY <1>2 DEF RunBegins, TakeRunSignal, Works, fsmVars
<1>3. CASE NotRunning
  <2>1. queue' = Tail(queue) \/ (kind = "adc" /\ queue' = Append(Tail(queue), "Stop"))
    BY <1>3 DEF NotRunning
  <2> QED
    BY <1>3, <2>1 DEF NotRunning, TakeRunSignal, Works, fsmVars
<1>4. CASE RunCounts \/ RunStopsTriggers \/ RunClosesPoint \/ RunSteps
  BY <1>4 DEF RunCounts, RunStopsTriggers, RunClosesPoint, RunSteps, Works, fsmVars
<1>5. CASE \/ RunGoesOn \/ RunLabels \/ RunEndsLatency \/ RunEndsThreshold
           \/ RunSamples \/ RunStepsADC
  <2>1. /\ at # "idle" /\ at' = "idle" /\ events' = events /\ action' = action
        /\ \E u \in Submitted : queue' = queue \o u
    BY <1>5 DEF RunGoesOn, RunLabels, RunEndsLatency, RunEndsThreshold, RunSamples, RunStepsADC,
                Returns, Submitted, fsmVars
  <2> QED
    BY <2>1 DEF Works
<1> QED
  BY <1>1, <1>2, <1>3, <1>4, <1>5 DEF WorkloopSteps

(* At first no run() is on its way.                                                     *)
LEMMA InitStart == TBInit => StartInv
<1> SUFFICES ASSUME TBInit PROVE StartInv
  OBVIOUS
<1>1. queue = <<>> /\ events = <<>> /\ action = None /\ at = "idle"
  BY DEF TBInit
<1>2. "Start" \notin Pending
  BY <1>1, FewMembers DEF Pending, None
<1>3. OneRunner
  BY <1>1 DEF OneRunner
<1> QED
  BY <1>2, <1>3 DEF StartInv, StartIsAlone

(* A step that leaves signals, events and places alone keeps run() alone.               *)
LEMMA SameStart ==
  ASSUME StartInv, UNCHANGED <<queue, events, action, at>>
  PROVE  StartInv'
  BY DEF StartInv, StartIsAlone, Pending, OneRunner

(* A patient user clicks Start when nothing else is on its way, and anything else when     *)
(* at most a signal of run() is.                                                    *)
LEMMA ClickStart ==
  ASSUME PatientUser, ScanTypes, StartInv, NEW c \in Commands, Click(c)
  PROVE  StartInv'
<1>1. /\ queue' = Append(queue, c) /\ UNCHANGED <<events, action, at>>
      /\ events = <<>> /\ action = None
      /\ \A i \in DOMAIN queue : queue[i] = "run"
      /\ c = "Start" => queue = <<>> /\ at = "idle"
  BY DEF Click, IsSettled, fsmVars
<1>2. queue \in Seq(Signals) /\ c # "run"
  BY TypesParts DEF Ways, Commands
<1>3. Members(queue') = Members(queue) \cup {c} /\ Members(queue) \subseteq {"run"}
  BY <1>1, <1>2, AppendMembers DEF Members
<1>4. StartIsAlone'
  <2>1. CASE c = "Start"
    <3>1. queue' = <<"Start">>
      BY <1>1, <2>1
    <3>2. "run" \notin Members(queue')
      BY <3>1, FewMembers
    <3> QED
      BY <1>1, <2>1, <3>1, <3>2 DEF StartIsAlone
  <2>2. CASE c # "Start"
    <3>1. "Start" \notin Pending'
      BY <1>1, <1>3, <2>2, FewMembers DEF Pending, None
    <3> QED
      BY <3>1 DEF StartIsAlone
  <2> QED
    BY <2>1, <2>2
<1>5. OneRunner'
  <2>1. AtMostOne(queue) /\ (at # "idle" => "run" \notin Members(queue))
    BY OneRunnerIs DEF StartInv
  <2>2. AtMostOne(queue')
    BY <1>1, <1>2, <2>1, OneAppended
  <2> QED
    BY <1>1, <1>2, <1>3, <2>1, <2>2, OneRunnerIs
<1> QED
  BY <1>4, <1>5 DEF StartInv

(* The machine's steps keep run() alone.                                                *)
LEMMA MachineStart ==
  ASSUME ScanTypes, StartInv, MachineSteps
  PROVE  StartInv'
<1>0. Carries /\ at' = at
  BY MachineCarries
<1>1. queue \in Seq(Signals) /\ events \in Seq(Commands)
  BY TypesParts DEF Ways
<1>2. AtMostOne(queue) /\ (at # "idle" => "run" \notin Members(queue))
  BY OneRunnerIs DEF StartInv
<1>3. CASE UNCHANGED <<queue, events, action>>
  BY <1>0, <1>3, SameStart
<1>4. CASE /\ events # <<>> /\ action = None
           /\ action' = Head(events) /\ events' = Tail(events) /\ queue' = queue
  <2>1. Members(events) = {action'} \cup Members(events')
    BY <1>1, <1>4, TailMembers
  <2>2. ASSUME "Start" \in Pending' PROVE StartIsAlone'
    <3>1. "Start" \in Pending
      BY <1>4, <2>1, <2>2 DEF Pending
    <3>2. at = "idle" /\ queue = <<>> /\ events = <<"Start">>
      BY <1>4, <3>1 DEF StartInv, StartIsAlone, None
    <3>3. action' = "Start" /\ events' = <<>>
      BY <1>4, <3>2
    <3> QED
      BY <1>0, <1>4, <3>2, <3>3, FewMembers DEF StartIsAlone
  <2>3. StartIsAlone'
    BY <2>2 DEF StartIsAlone
  <2> QED
    BY <1>0, <1>2, <1>4, <2>3, OneRunnerIs DEF StartInv
<1>5. CASE /\ events # <<>> /\ action = None
           /\ events' = Tail(events) /\ UNCHANGED <<queue, action>>
  <2>1. Members(events) = {Head(events)} \cup Members(events')
    BY <1>1, <1>5, TailMembers
  <2>2. ASSUME "Start" \in Pending' PROVE FALSE
    <3>1. "Start" \in Pending
      BY <1>5, <2>1, <2>2 DEF Pending
    <3>2. queue = <<>> /\ events = <<"Start">>
      BY <1>5, <3>1 DEF StartInv, StartIsAlone, None
    <3>3. events' = <<>>
      BY <1>5, <3>2
    <3> QED
      BY <1>5, <2>2, <3>2, <3>3, FewMembers DEF Pending, None
  <2>3. StartIsAlone'
    BY <2>2 DEF StartIsAlone
  <2> QED
    BY <1>0, <1>2, <1>5, <2>3, OneRunnerIs DEF StartInv
<1>6. CASE /\ action # None /\ action' = None /\ events' = events
           /\ \/ queue' = queue
              \/ \E s \in {"Stop", "Halt", "Reset"} : queue' = Append(queue, s)
              \/ action = "Start" /\ queue' = Append(queue, "run")
  <2>1. PICK s : /\ queue' = queue \/ queue' = Append(queue, s)
                 /\ s \in {"Stop", "Halt", "Reset", "run"}
                 /\ s = "run" => action = "Start"
    <3>1. CASE queue' = queue
      BY <3>1
    <3>2. CASE \E s \in {"Stop", "Halt", "Reset"} : queue' = Append(queue, s)
      BY <3>2
    <3>3. CASE action = "Start" /\ queue' = Append(queue, "run")
      BY <3>3
    <3> QED
      BY <1>6, <3>1, <3>2, <3>3
  <2>2. Members(queue') \subseteq Members(queue) \cup {s}
    BY <1>1, <2>1, AppendMembers
  <2>3. action = "Start" => queue = <<>> /\ events = <<>> /\ at = "idle"
    BY DEF Pending, StartInv, StartIsAlone, None
  <2>4. ASSUME "Start" \in Pending' PROVE FALSE
    <3>1. "Start" \in Pending
      BY <1>6, <2>1, <2>2, <2>4 DEF Pending, None
    <3>2. queue = <<>> /\ events = <<>>
      BY <1>6, <3>1 DEF StartInv, StartIsAlone
    <3> QED
      BY <1>6, <2>1, <2>2, <2>4, <3>2, FewMembers DEF Pending, None
  <2>5. StartIsAlone'
    BY <2>4 DEF StartIsAlone
  <2>6. s = "run" => "run" \notin Members(queue)
    BY <2>1, <2>3, FewMembers
  <2>7. AtMostOne(queue')
    BY <1>1, <1>2, <2>1, <2>6, OneAppended
  <2>8. at' # "idle" => "run" \notin Members(queue')
    BY <1>0, <1>2, <2>1, <2>2, <2>3
  <2> QED
    BY <2>5, <2>7, <2>8, OneRunnerIs DEF StartInv
<1> QED
  BY <1>0, <1>3, <1>4, <1>5, <1>6 DEF Carries

(* The workloop's steps keep run() alone.                                               *)
LEMMA WorkloopStart ==
  ASSUME ScanTypes, StartInv, WorkloopSteps
  PROVE  StartInv'
<1>0. Works /\ action' = action
  BY WorkloopWorks
<1>1. queue \in Seq(Signals) /\ events \in Seq(Commands)
  BY TypesParts DEF Ways
<1>2. AtMostOne(queue) /\ (at # "idle" => "run" \notin Members(queue))
  BY OneRunnerIs DEF StartInv
<1>3. ASSUME at # "idle" \/ "run" \in Members(queue) PROVE "Start" \notin Pending
  BY <1>3 DEF StartInv, StartIsAlone
<1>4. CASE UNCHANGED <<queue, events>> /\ at # "idle" /\ at' # "idle"
  <2>1. "Start" \notin Pending'
    BY <1>0, <1>3, <1>4 DEF Pending
  <2> QED
    BY <1>2, <1>4, <2>1, OneRunnerIs DEF StartInv, StartIsAlone
<1>5. CASE /\ at = "idle" /\ at' = "idle"
           /\ queue # <<>> /\ Head(queue) # "run"
           /\ events' = Append(events, Head(queue)) /\ queue' = Tail(queue)
  <2>1. /\ Members(queue) = {Head(queue)} \cup Members(queue')
        /\ Members(events') = Members(events) \cup {Head(queue)}
    BY <1>1, <1>5, TailMembers, AppendMembers
  <2>2. ASSUME "Start" \in Pending' PROVE StartIsAlone'
    <3>1. "Start" \in Pending
      BY <1>0, <2>1, <2>2 DEF Pending
    <3>2. queue = <<"Start">> /\ events = <<>> /\ action = None
      BY <1>5, <3>1 DEF StartInv, StartIsAlone
    <3>3. queue' = <<>> /\ events' = <<"Start">>
      BY <1>5, <3>2
    <3> QED
      BY <1>0, <1>5, <3>2, <3>3, FewMembers DEF StartIsAlone
  <2>3. StartIsAlone'
    BY <2>2 DEF StartIsAlone
  <2>4. AtMostOne(queue')
    BY <1>1, <1>2, <1>5, OneLess
  <2> QED
    BY <1>5, <2>3, <2>4, OneRunnerIs DEF StartInv
<1>6. CASE \/ /\ at = "idle" /\ at' = "counting" /\ events' = events
              /\ queue # <<>> /\ Head(queue) = "run" /\ queue' = Tail(queue)
           \/ /\ at = "idle" /\ at' = "idle" /\ events' = events
              /\ queue # <<>> /\ Head(queue) = "run"
              /\ queue' = Tail(queue) \/ (kind = "adc" /\ queue' = Append(Tail(queue), "Stop"))
  <2>1. /\ Members(queue) = {"run"} \cup Members(Tail(queue))
        /\ AtMostOne(Tail(queue)) /\ "run" \notin Members(Tail(queue))
        /\ Tail(queue) \in Seq(Signals)
    BY <1>1, <1>2, <1>6, TailMembers, OneLess
  <2>2. "Start" \notin Pending
    BY <1>3, <2>1
  <2>3. /\ Members(Append(Tail(queue), "Stop")) = Members(Tail(queue)) \cup {"Stop"}
        /\ AtMostOne(Append(Tail(queue), "Stop"))
    BY <2>1, AppendMembers, OneAppended
  <2>4. /\ Members(queue') \subseteq Members(Tail(queue)) \cup {"Stop"}
        /\ AtMostOne(queue')
    BY <1>6, <2>1, <2>3
  <2>5. "Start" \notin Pending' /\ "run" \notin Members(queue')
    BY <1>0, <1>6, <2>1, <2>2, <2>4 DEF Pending
  <2> QED
    BY <2>4, <2>5, OneRunnerIs DEF StartInv, StartIsAlone
<1>7. CASE /\ at # "idle" /\ at' = "idle" /\ events' = events
           /\ \E u \in Submitted : queue' = queue \o u
  <2>1. PICK u \in Submitted : queue' = queue \o u
    BY <1>7
  <2>2. u \in Seq(Signals) /\ AtMostOne(u) /\ Members(u) \subseteq {"run", "Stop"}
    <3>1. /\ <<"run">> \in Seq(Signals) /\ <<"Stop", "run">> \in Seq(Signals)
          /\ <<"Stop">> \in Seq(Signals)
      BY DEF Signals, Commands
    <3>2. AtMostOne(<<"run">>) /\ AtMostOne(<<"Stop", "run">>) /\ AtMostOne(<<"Stop">>)
      BY DEF AtMostOne
    <3>3. CASE u = <<"run">>
      BY <3>1, <3>2, <3>3, FewMembers
    <3>4. CASE u = <<"Stop", "run">>
      BY <3>1, <3>2, <3>4, FewMembers
    <3>5. CASE u = <<"Stop">>
      BY <3>1, <3>2, <3>5, FewMembers
    <3> QED
      BY <3>3, <3>4, <3>5 DEF Submitted
  <2>3. Members(queue') = Members(queue) \cup Members(u)
    BY <1>1, <2>1, <2>2, ConcatMembers
  <2>4. AtMostOne(queue')
    BY <1>1, <1>2, <1>7, <2>1, <2>2, OneConcatenated
  <2>5. "Start" \notin Pending'
    BY <1>0, <1>3, <1>7, <2>2, <2>3 DEF Pending
  <2> QED
    BY <1>7, <2>4, <2>5, OneRunnerIs DEF StartInv, StartIsAlone
<1> QED
  BY <1>0, <1>4, <1>5, <1>6, <1>7 DEF Works

(* With a patient user, every step keeps run() alone.                                   *)
LEMMA NextStart ==
  ASSUME PatientUser
  PROVE  ScanTypes /\ StartInv /\ [TBNext]_tbVars => StartInv'
<1> SUFFICES ASSUME ScanTypes, StartInv, [TBNext]_tbVars PROVE StartInv'
  OBVIOUS
<1>1. ASSUME NEW c \in Commands, Click(c) PROVE StartInv'
  BY <1>1, ClickStart
<1>2. CASE Trigger \/ DAQReads \/ UNCHANGED tbVars
  BY <1>2, SameStart DEF Trigger, DAQReads, tbVars, fsmVars, loopVars
<1> QED
  BY <1>1, <1>2, MachineStart, WorkloopStart DEF TBNext

(* With a user who waits for the last click to have its effect, at most one signal of     *)
(* run() is about.                                                                *)
THEOREM AlwaysOneRunner ==
  ASSUME PatientUser
  PROVE  TBSpec => []OneRunner
<1>1. StartInv => OneRunner
  BY DEF StartInv
<1>2. ScanTypes /\ StartInv /\ [TBNext]_tbVars => StartInv'
  BY NextStart
<1> QED
  BY InitTypes, NextTypes, InitStart, <1>1, <1>2, PTL DEF TBSpec

-----------------------------------------------------------------------------
(* The end of a scan.  Within startAction(), is_running_ is set before step 2.       *)
InitialisedInv == action = "Start" /\ step = 2 => isRunning

(* The count has been cleared when the point is left.                                   *)
ClosedInv == at \in {"stepping", "draining"} => count = 0

(* A scan under way has nothing before it but its own Stop, and is over when that has     *)
(* been submitted.                                                               *)
ScansOn ==
  /\ isRunning
  /\ Pending \subseteq {"run", "Stop", None}
  /\ "Stop" \in Pending => Over

(* Until the user stops something, triggers and run mode are on only while a scan runs. *)
QuietInv == ~stopped => IF state = "Running" THEN ScansOn ELSE Over /\ ~runMode

(* The end of a scan in three parts, before and after a step.                           *)
LEMMA EndParts ==
  /\ EndInv <=> InitialisedInv /\ ClosedInv /\ QuietInv
  /\ EndInv' <=> InitialisedInv' /\ ClosedInv' /\ QuietInv'
<1>1. EndInv <=> InitialisedInv /\ ClosedInv /\ QuietInv
  BY DEF EndInv, InitialisedInv, ClosedInv, QuietInv, ScansOn
<1>2. EndInv' <=> InitialisedInv' /\ ClosedInv' /\ QuietInv'
  BY DEF EndInv, InitialisedInv, ClosedInv, QuietInv, ScansOn
<1> QED
  BY <1>1, <1>2

(* At first everything is off.                                                          *)
LEMMA InitEnd == TBInit => EndInv
<1> SUFFICES ASSUME TBInit PROVE EndInv
  OBVIOUS
<1>1. InitialisedInv /\ ClosedInv
  BY DEF TBInit, InitialisedInv, ClosedInv, None
<1>2. Over
  BY FewMembers DEF TBInit, Over
<1>3. QuietInv
  BY <1>2 DEF TBInit, QuietInv
<1> QED
  BY <1>1, <1>3, EndParts

(* What does not bring a scan that is over back to life.                               *)
LEMMA OverKept ==
  ASSUME Over, UNCHANGED <<kind, scanpoint, at>>,
         triggers' = FALSE \/ triggers' = triggers,
         count' \in {0, count}, seen' \in {0, seen},
         "run" \in Members(queue') => "run" \in Members(queue)
  PROVE  Over'
<1>1. ~triggers'
  BY DEF Over
<1>2. ASSUME at' # "idle" \/ "run" \in Members(queue') PROVE Idles'
  <2>1. Idles
    BY <1>2 DEF Over
  <2> QED
    BY <2>1 DEF Idles
<1> QED
  BY <1>1, <1>2 DEF Over

(* The machine's steps keep InitialisedInv.                                             *)
LEMMA MachineInitialised ==
  ASSUME InitialisedInv, MachineSteps
  PROVE  InitialisedInv'
<1>1. CASE TakeEvent
  BY <1>1 DEF TakeEvent, InitialisedInv
<1>2. CASE IgnoreEvent \/ MissTransition
  BY <1>2 DEF IgnoreEvent, MissTransition, InitialisedInv, flagVars
<1>3. CASE StartAction1
  BY <1>3 DEF StartAction1, InitialisedInv
<1>4. CASE StopAction1
  BY <1>4 DEF StopAction1, InitialisedInv
<1>5. CASE \/ InitializeAction \/ ConfigureAction \/ StartAction2 \/ StopAction2 \/ StopADC
           \/ HaltAction \/ ResetAction
  <2>1. action' = None
    BY <1>5 DEF InitializeAction, ConfigureAction, StartAction2, StopAction2, StopADC, HaltAction,
                ResetAction, Done
  <2> QED
    BY <2>1 DEF InitialisedInv, None
<1> QED
  BY <1>1, <1>2, <1>3, <1>4, <1>5 DEF MachineSteps

(* The machine's steps keep ClosedInv.                                                  *)
LEMMA MachineClosed ==
  ASSUME ClosedInv, MachineSteps
  PROVE  ClosedInv'
<1>1. at' = at
  BY MachineCarries
<1>2. count' \in {0, count}
  BY DEF MachineSteps, TakeEvent, IgnoreEvent, MissTransition, InitializeAction, ConfigureAction,
         StartAction1, StartAction2, StopAction1, StopAction2, StopADC, HaltAction, ResetAction,
         hwVars
<1> QED
  BY <1>1, <1>2 DEF ClosedInv

(* What the actions do to a scan that is over.                                       *)
LEMMA MachineOver ==
  ASSUME ScanTypes, Over, MachineSteps, ~StartAction2
  PROVE  Over'
<1>1. UNCHANGED <<kind, scanpoint, at>>
  BY DEF MachineSteps, TakeEvent, IgnoreEvent, MissTransition, InitializeAction, ConfigureAction,
         StartAction1, StopAction1, StopAction2, StopADC, HaltAction, ResetAction,
         loopVars, userVars, flagVars
<1>2. triggers' = FALSE \/ triggers' = triggers
  BY DEF MachineSteps, TakeEvent, IgnoreEvent, MissTransition, InitializeAction, ConfigureAction,
         StartAction1, StopAction1, StopAction2, StopADC, HaltAction, ResetAction, hwVars
<1>3. count' \in {0, count} /\ seen' \in {0, seen}
  BY DEF MachineSteps, TakeEvent, IgnoreEvent, MissTransition, InitializeAction, ConfigureAction,
         StartAction1, StopAction1, StopAction2, StopADC, HaltAction, ResetAction, hwVars, copyVars
<1>4. queue' = queue \/ \E s \in {"Stop", "Halt", "Reset"} : queue' = Append(queue, s)
  <2>1. CASE StopAction2
    BY <2>1 DEF StopAction2
  <2>2. CASE HaltAction
    BY <2>2 DEF HaltAction
  <2>3. CASE ResetAction
    BY <2>3 DEF ResetAction
  <2>4. CASE ~StopAction2 /\ ~HaltAction /\ ~ResetAction
    BY <2>4
    DEF MachineSteps, TakeEvent, IgnoreEvent, MissTransition, InitializeAction, ConfigureAction,
        StartAction1, StopAction1, StopADC, loopVars
  <2> QED
    BY <2>1, <2>2, <2>3, <2>4
<1>5. queue \in Seq(Signals)
  BY TypesParts DEF Ways
<1>6. "run" \in Members(queue') => "run" \in Members(queue)
  <2>1. ASSUME NEW s \in {"Stop", "Halt", "Reset"}, queue' = Append(queue, s)
        PROVE  "run" \in Members(queue') => "run" \in Members(queue)
    <3>1. Members(queue') = Members(queue) \cup {s}
      BY <1>5, <2>1, AppendMembers
    <3> QED
      BY <3>1
  <2>2. CASE queue' = queue
    BY <2>2
  <2> QED
    BY <1>4, <2>1, <2>2
<1> QED
  BY <1>1, <1>2, <1>3, <1>6, OverKept

(* The machine's steps keep everything off without a scan.                              *)
LEMMA MachineQuiet ==
  ASSUME ScanTypes, StartInv, InitialisedInv, QuietInv, ~stopped, MachineSteps
  PROVE  QuietInv'
<1>0. state = "Running" => ScansOn
  BY DEF QuietInv
<1>1. state # "Running" => Over /\ ~runMode
  BY DEF QuietInv
<1>2. queue \in Seq(Signals) /\ events \in Seq(Commands)
  BY TypesParts DEF Ways
<1>3. CASE TakeEvent
  <2>1. /\ UNCHANGED <<state, isRunning, runMode, queue>>
        /\ events # <<>> /\ action' = Head(events) /\ events' = Tail(events)
    BY <1>3 DEF TakeEvent, flagVars, hwVars, loopVars
  <2>2. Pending' \subseteq Pending
    BY <1>2, <2>1, TailMembers DEF Pending
  <2>3. Over => Over'
    BY <1>3, MachineOver DEF MachineSteps, TakeEvent, StartAction2, None
  <2>4. ScansOn => ScansOn'
    BY <2>1, <2>2, <2>3 DEF ScansOn
  <2> QED
    BY <1>0, <1>1, <2>1, <2>3, <2>4 DEF QuietInv
<1>4. CASE IgnoreEvent \/ MissTransition
  <2>1. /\ UNCHANGED <<isRunning, runMode, queue, action>>
        /\ events # <<>> /\ events' = Tail(events)
    BY <1>4 DEF IgnoreEvent, MissTransition, flagVars, hwVars, loopVars
  <2>2. Pending' \subseteq Pending /\ Head(events) \in Pending
    BY <1>2, <2>1, TailMembers DEF Pending
  <2>3. Over => Over'
    BY <1>4, MachineOver DEF MachineSteps, IgnoreEvent, MissTransition, StartAction2, None
  <2>4. ScansOn => ScansOn'
    BY <2>1, <2>2, <2>3 DEF ScansOn
  <2>5. state' \in {state, "Error"}
    BY <1>4 DEF IgnoreEvent, MissTransition
  <2>6. ASSUME state = "Running" PROVE state' = state
    <3>1. Head(events) \in Commands
      BY <1>2, <2>1
    <3>2. Head(events) = "Stop"
      BY <1>0, <2>2, <2>6, <3>1 DEF ScansOn, Commands, None
    <3>3. "Running" \in Entries("Stop")
      BY DEF Entries
    <3> QED
      BY <1>4, <2>6, <3>2, <3>3 DEF IgnoreEvent, MissTransition
  <2> QED
    BY <1>0, <1>1, <2>1, <2>3, <2>4, <2>5, <2>6 DEF QuietInv
<1>5. CASE InitializeAction \/ ConfigureAction \/ HaltAction \/ ResetAction
  <2>1. /\ action \in {"Initialize", "Configure", "Halt", "Reset"}
        /\ runMode' = FALSE \/ runMode' = runMode
        /\ state' = Target(action)
    BY <1>5 DEF InitializeAction, ConfigureAction, HaltAction, ResetAction, Done
  <2>2. state # "Running"
    BY <1>0, <2>1 DEF ScansOn, Pending, None
  <2>3. state' # "Running"
    BY <2>1 DEF Target
  <2>4. Over'
    BY <1>1, <1>5, <2>1, <2>2, MachineOver DEF MachineSteps, StartAction2
  <2> QED
    BY <1>1, <2>1, <2>2, <2>3, <2>4 DEF QuietInv
<1>6. CASE StartAction1
  <2>1. action = "Start" /\ UNCHANGED <<state, runMode>>
    BY <1>6 DEF StartAction1, hwVars
  <2>2. state # "Running"
    BY <1>0, <2>1 DEF ScansOn, Pending, None
  <2>3. Over'
    BY <1>1, <1>6, <2>2, MachineOver DEF MachineSteps, StartAction1, StartAction2
  <2> QED
    BY <1>1, <2>1, <2>2, <2>3 DEF QuietInv
<1>7. CASE StartAction2
  <2>1. /\ action = "Start" /\ step = 2 /\ isRunning' = isRunning
        /\ queue' = Append(queue, "run") /\ events' = events /\ action' = None
        /\ state' = Target("Start")
    BY <1>7 DEF StartAction2, Done
  <2>2. queue = <<>> /\ events = <<>>
    BY <2>1 DEF StartInv, StartIsAlone, Pending, None
  <2>3. Pending' = {"run", None}
    BY <1>2, <2>1, <2>2, AppendMembers, FewMembers DEF Pending
  <2>4. ScansOn'
    BY <2>1, <2>3 DEF ScansOn, InitialisedInv, None
  <2>5. state' = "Running"
    BY <2>1 DEF Target
  <2> QED
    BY <2>4, <2>5 DEF QuietInv
<1>8. CASE StopAction1
  <2>1. /\ action = "Stop"
        /\ UNCHANGED <<state, runMode, isRunning, queue, events, action>>
    BY <1>8 DEF StopAction1, flagVars, loopVars
  <2>2. Over
    BY <1>0, <1>1, <2>1 DEF ScansOn, Pending
  <2>3. Over'
    BY <1>8, <2>1, <2>2, MachineOver DEF MachineSteps, StartAction2
  <2>4. ScansOn => ScansOn'
    BY <2>1, <2>3 DEF ScansOn, Pending
  <2> QED
    BY <1>0, <1>1, <2>1, <2>3, <2>4 DEF QuietInv
<1>9. CASE StopAction2 \/ StopADC
  <2>1. /\ action = "Stop" /\ runMode' = IF isRunning THEN FALSE ELSE runMode
        /\ state' = Target("Stop")
    BY <1>9 DEF StopAction2, StopADC, Done
  <2>2. Over /\ (isRunning \/ ~runMode)
    BY <1>0, <1>1, <2>1 DEF ScansOn, Pending
  <2>3. Over'
    BY <1>9, <2>1, <2>2, MachineOver DEF MachineSteps, StartAction2
  <2>4. ~runMode' /\ state' # "Running"
    BY <2>1, <2>2 DEF Target
  <2> QED
    BY <2>3, <2>4 DEF QuietInv
<1> QED
  BY <1>3, <1>4, <1>5, <1>6, <1>7, <1>8, <1>9 DEF MachineSteps

(* What a click, an event and the DAQ do to the end of a scan.                          *)
LEMMA OthersQuiet ==
  ASSUME ScanTypes, QuietInv, ~stopped',
         (\E c \in Commands : Click(c)) \/ Trigger \/ DAQReads \/ UNCHANGED tbVars
  PROVE  QuietInv'
<1>1. CASE \E c \in Commands : Click(c)
  <2>1. PICK c \in Commands : Click(c)
    BY <1>1
  <2>2. /\ state # "Running" /\ ~stopped
        /\ UNCHANGED <<state, runMode, kind, scanpoint, at, triggers, count, seen>>
        /\ queue' = Append(queue, c)
    BY <2>1 DEF Click, fsmVars, flagVars, hwVars, copyVars
  <2>3. queue \in Seq(Signals) /\ c # "run"
    BY TypesParts DEF Ways, Commands
  <2>4. Members(queue') = Members(queue) \cup {c}
    BY <2>2, <2>3, AppendMembers
  <2>5. Over /\ ~runMode
    BY <2>2 DEF QuietInv
  <2>6. Over'
    BY <2>2, <2>3, <2>4, <2>5, OverKept
  <2> QED
    BY <2>2, <2>5, <2>6 DEF QuietInv
<1>2. CASE Trigger
  <2>1. /\ triggers /\ UNCHANGED <<state, runMode, isRunning, stopped>>
        /\ UNCHANGED <<queue, events, action>>
    BY <1>2 DEF Trigger, fsmVars, flagVars, loopVars, userVars
  <2>2. ~Over
    BY <2>1 DEF Over
  <2>3. state = "Running" /\ ScansOn /\ "Stop" \notin Pending
    BY <2>1, <2>2 DEF QuietInv, ScansOn
  <2>4. Pending' = Pending
    BY <2>1 DEF Pending
  <2>5. ScansOn'
    BY <2>1, <2>3, <2>4 DEF ScansOn
  <2> QED
    BY <2>1, <2>3, <2>5 DEF QuietInv
<1>3. CASE DAQReads \/ UNCHANGED tbVars
  <2>1. /\ UNCHANGED <<state, runMode, isRunning, stopped>>
        /\ UNCHANGED <<queue, events, action>>
        /\ UNCHANGED <<kind, scanpoint, at, triggers, count, seen>>
    BY <1>3 DEF DAQReads, tbVars, fsmVars, flagVars, hwVars, copyVars, loopVars, userVars
  <2>2. Over' <=> Over
    BY <2>1 DEF Over, Idles
  <2>3. Pending' = Pending
    BY <2>1 DEF Pending
  <2>4. ScansOn' <=> ScansOn
    BY <2>1, <2>2, <2>3 DEF ScansOn
  <2> QED
    BY <2>1, <2>2, <2>4 DEF QuietInv
<1> QED
  BY <1>1, <1>2, <1>3

(* The workloop's steps keep ClosedInv.                                                 *)
LEMMA WorkloopClosed ==
  ASSUME ClosedInv, WorkloopSteps
  PROVE  ClosedInv'
<1>1. CASE RunClosesPoint
  BY <1>1 DEF RunClosesPoint, ClosedInv
<1>2. CASE RunSteps
  BY <1>2 DEF RunSteps, ClosedInv
<1>3. CASE ~RunClosesPoint /\ ~RunSteps
  <2>1. \/ at' \notin {"stepping", "draining"}
        \/ at' = at /\ at = "idle"
    BY <1>3 DEF WorkloopSteps, TakeControlSignal, RunBegins, NotRunning, TakeRunSignal, RunCounts,
                RunGoesOn, RunStopsTriggers, RunLabels, RunEndsLatency, RunEndsThreshold,
                RunSamples, RunStepsADC, Returns
  <2> QED
    BY <2>1 DEF ClosedInv
<1> QED
  BY <1>1, <1>2, <1>3

(* What is submitted when run() returns is on its way then, and nothing else is new.       *)
LEMMA Submits ==
  ASSUME ScanTypes, StartInv, NEW u \in Submitted, at # "idle",
         queue' = queue \o u, UNCHANGED <<events, action>>
  PROVE  /\ Pending' \subseteq Pending \cup {"run", "Stop"}
         /\ u = <<"run">> => Pending' \subseteq Pending \cup {"run"}
         /\ u = <<"Stop">> => "run" \notin Members(queue')
<1>1. queue \in Seq(Signals)
  BY TypesParts DEF Ways
<1>2. /\ <<"run">> \in Seq(Signals) /\ <<"Stop", "run">> \in Seq(Signals)
      /\ <<"Stop">> \in Seq(Signals)
  BY DEF Signals, Commands
<1>3. u \in Seq(Signals)
  BY <1>2 DEF Submitted
<1>4. Members(queue') = Members(queue) \cup Members(u)
  BY <1>1, <1>3, ConcatMembers
<1>5. /\ Members(u) \subseteq {"run", "Stop"}
      /\ u = <<"run">> => Members(u) = {"run"}
      /\ u = <<"Stop">> => Members(u) = {"Stop"}
  BY FewMembers DEF Submitted
<1>6. "run" \notin Members(queue)
  BY OneRunnerIs DEF StartInv
<1> QED
  BY <1>4, <1>5, <1>6 DEF Pending

(* The workloop's steps keep everything off without a scan.                             *)
LEMMA WorkloopQuiet ==
  ASSUME ScanTypes, LabelInv, StartInv, ClosedInv, QuietInv, ~stopped, WorkloopSteps
  PROVE  QuietInv'
<1>0. /\ state = "Running" => ScansOn
      /\ state # "Running" => Over /\ ~runMode
  BY DEF QuietInv
<1>1. UNCHANGED <<state, isRunning, action, kind>>
  BY DEF WorkloopSteps, TakeControlSignal, RunBegins, NotRunning, TakeRunSignal, RunCounts,
         RunGoesOn, RunStopsTriggers, RunClosesPoint, RunSteps, RunLabels, RunEndsLatency,
         RunEndsThreshold, RunSamples, RunStepsADC, fsmVars, flagVars, userVars
<1>2. queue \in Seq(Signals) /\ events \in Seq(Commands)
  BY TypesParts DEF Ways
(* A step that keeps a scan that is over so, and submits no Stop.                         *)
<1>3. ASSUME Over => Over', Pending' \subseteq Pending \cup {"run"}, runMode' => runMode
      PROVE  QuietInv'
  <2>1. ScansOn => ScansOn'
    BY <1>1, <1>3 DEF ScansOn
  <2> QED
    BY <1>0, <1>1, <1>3, <2>1 DEF QuietInv
(* A step that only a scan that is not over takes.                                      *)
<1>4. ASSUME ~Over, Pending' \subseteq Pending \cup {"run"}
      PROVE  QuietInv'
  <2>1. state = "Running" /\ ScansOn /\ "Stop" \notin Pending
    BY <1>0, <1>4 DEF ScansOn
  <2>2. ScansOn'
    BY <1>1, <1>4, <2>1 DEF ScansOn
  <2> QED
    BY <1>1, <2>1, <2>2 DEF QuietInv
(* The step that ends a scan.                                                       *)
<1>5. ASSUME ~Over, Pending' \subseteq Pending \cup {"run", "Stop"}, Over'
      PROVE  QuietInv'
  <2>1. state = "Running" /\ ScansOn
    BY <1>0, <1>5
  <2>2. ScansOn'
    BY <1>1, <1>5, <2>1 DEF ScansOn
  <2> QED
    BY <1>1, <2>1, <2>2 DEF QuietInv
<1>6. CASE TakeControlSignal
  <2>1. /\ queue # <<>> /\ events' = Append(events, Head(queue)) /\ queue' = Tail(queue)
        /\ UNCHANGED <<scanpoint, at, triggers, count, seen, runMode>>
    BY <1>6 DEF TakeControlSignal, flagVars, hwVars, copyVars
  <2>2. /\ Members(queue) = {Head(queue)} \cup Members(queue')
        /\ Members(events') = Members(events) \cup {Head(queue)}
    BY <1>2, <2>1, TailMembers, AppendMembers
  <2>3. Over => Over'
    BY <1>1, <2>1, <2>2, OverKept
  <2>4. Pending' \subseteq Pending \cup {"run"}
    BY <1>1, <2>2 DEF Pending
  <2> QED
    BY <1>3, <2>1, <2>3, <2>4
<1>7. CASE RunBegins
  <2>1. /\ queue # <<>> /\ Head(queue) = "run" /\ queue' = Tail(queue) /\ events' = events
        /\ at' = "counting"
        /\ UNCHANGED <<scanpoint, triggers, count, seen, runMode>>
    BY <1>7 DEF RunBegins, TakeRunSignal, fsmVars, flagVars, hwVars, copyVars
  <2>2. Members(queue) = {"run"} \cup Members(queue')
    BY <1>2, <2>1, TailMembers
  <2>3. Over => Over'
    BY <1>1, <2>1, <2>2 DEF Over, Idles
  <2>4. Pending' \subseteq Pending \cup {"run"}
    BY <1>1, <2>1, <2>2 DEF Pending
  <2> QED
    BY <1>3, <2>1, <2>3, <2>4
<1>8. CASE NotRunning
  <2>1. /\ queue # <<>> /\ Head(queue) = "run" /\ ~isRunning /\ events' = events
        /\ queue' = IF kind = "adc" THEN Append(Tail(queue), "Stop") ELSE Tail(queue)
        /\ UNCHANGED <<scanpoint, at, triggers, count, seen, runMode>>
    BY <1>8 DEF NotRunning, TakeRunSignal, fsmVars, flagVars, hwVars, copyVars
  <2>2. Members(queue) = {"run"} \cup Members(Tail(queue))
    BY <1>2, <2>1, TailMembers
  <2>3. state # "Running" /\ Over
    BY <1>0, <2>1 DEF ScansOn
  <2>4. queue' = Tail(queue)
    BY <2>1, <2>2, <2>3 DEF Over, Idles
  <2>5. Over'
    BY <1>1, <2>1, <2>2, <2>3, <2>4, OverKept
  <2>6. Pending' \subseteq Pending \cup {"run"}
    BY <1>1, <2>1, <2>2, <2>4 DEF Pending
  <2> QED
    BY <1>3, <2>1, <2>5, <2>6
<1>9. CASE RunCounts
  <2>1. /\ at = "counting" /\ at' = "judging" /\ seen' = count
        /\ triggers' = (triggers \/ scanpoint)
        /\ UNCHANGED <<scanpoint, count, runMode, queue, events>>
    BY <1>9 DEF RunCounts, fsmVars, flagVars
  <2>2. Over => Over'
    BY <1>1, <2>1 DEF Over, Idles
  <2>3. Pending' \subseteq Pending \cup {"run"}
    BY <1>1, <2>1 DEF Pending
  <2> QED
    BY <1>3, <2>1, <2>2, <2>3
<1>10. CASE RunGoesOn
  <2>1. /\ at = "judging" /\ at' = "idle" /\ scanpoint' = FALSE /\ queue' = queue \o <<"run">>
        /\ UNCHANGED <<triggers, count, seen, runMode, events>>
    BY <1>10 DEF RunGoesOn, Returns, fsmVars, hwVars, copyVars
  <2>2. Over => Over'
    BY <1>1, <2>1 DEF Over, Idles
  <2>3. Pending' \subseteq Pending \cup {"run"}
    BY <1>1, <2>1, Submits DEF Submitted
  <2> QED
    BY <1>3, <2>1, <2>2, <2>3
<1>11. CASE RunStopsTriggers \/ RunClosesPoint \/ RunSteps
  <2>1. UNCHANGED <<queue, events>>
    BY <1>11 DEF RunStopsTriggers, RunClosesPoint, RunSteps, fsmVars
  <2>2. at = "judging" => seen # 0
    <3>1. CASE RunStopsTriggers
      BY <3>1, RangeFits DEF RunStopsTriggers
    <3>2. CASE RunClosesPoint \/ RunSteps
      BY <3>2 DEF RunClosesPoint, RunSteps
    <3> QED
      BY <1>11, <3>1, <3>2
  <2>3. at \in {"judging", "closing", "stepping"}
    BY <1>11 DEF RunStopsTriggers, RunClosesPoint, RunSteps
  <2>4. ~Over
    BY <2>2, <2>3 DEF Over, Idles
  <2>5. Pending' = Pending
    BY <1>1, <2>1 DEF Pending
  <2> QED
    BY <1>4, <2>4, <2>5
<1>12. CASE RunLabels
  <2>1. at = "draining" /\ queue' = queue \o <<"run">> /\ events' = events
    BY <1>12 DEF RunLabels, Returns, fsmVars
  <2>2. ~Over
    BY <2>1 DEF Over, Idles
  <2>3. Pending' \subseteq Pending \cup {"run"}
    BY <1>1, <2>1, Submits DEF Submitted
  <2> QED
    BY <1>4, <2>2, <2>3
<1>13. CASE RunEndsLatency
  <2>1. /\ at = "stepping" /\ kind = "latency" /\ at' = "idle"
        /\ scanpoint' = FALSE /\ triggers' = FALSE /\ count' = count
        /\ queue' = queue \o <<"Stop", "run">> /\ events' = events
    BY <1>13 DEF RunEndsLatency, Returns, fsmVars
  <2>2. ~Over
    BY <2>1 DEF Over, Idles
  <2>3. Over'
    BY <1>1, <2>1 DEF Over, Idles, ClosedInv
  <2>4. Pending' \subseteq Pending \cup {"run", "Stop"}
    BY <1>1, <2>1, Submits DEF Submitted
  <2> QED
    BY <1>5, <2>2, <2>3, <2>4
<1>14. CASE RunEndsThreshold
  <2>1. /\ at = "stepping" /\ at' = "idle" /\ triggers' = triggers
        /\ queue' = queue \o <<"Stop">> /\ events' = events
    BY <1>14 DEF RunEndsThreshold, Returns, fsmVars, hwVars
  <2>2. ~Over
    BY <2>1 DEF Over, Idles
  <2>3. Pending' \subseteq Pending \cup {"run", "Stop"} /\ "run" \notin Members(queue')
    BY <1>1, <2>1, Submits DEF Submitted
  <2>4. Over'
    BY <2>1, <2>3 DEF Over, LabelInv
  <2> QED
    BY <1>5, <2>2, <2>3, <2>4
<1>15. CASE RunSamples
  <2>1. at = "counting" /\ kind = "adc" /\ queue' = queue \o <<"run">> /\ events' = events
    BY <1>15 DEF RunSamples, Returns, fsmVars
  <2>2. ~Over
    BY <2>1 DEF Over, Idles
  <2>3. Pending' \subseteq Pending \cup {"run"}
    BY <1>1, <2>1, Submits DEF Submitted
  <2> QED
    BY <1>4, <2>2, <2>3
<1>16. CASE RunStepsADC
  <2>1. /\ at = "counting" /\ kind = "adc" /\ at' = "idle" /\ events' = events
        /\ triggers' = triggers
        /\ queue' = queue \o <<"run">> \/ queue' = queue \o <<"Stop">>
    BY <1>16 DEF RunStepsADC, Returns, fsmVars
  <2>2. ~Over
    BY <2>1 DEF Over, Idles
  <2>3. CASE queue' = queue \o <<"run">>
    <3>1. Pending' \subseteq Pending \cup {"run"}
      BY <1>1, <2>1, <2>3, Submits DEF Submitted
    <3> QED
      BY <1>4, <2>2, <3>1
  <2>4. CASE queue' = queue \o <<"Stop">>
    <3>1. Pending' \subseteq Pending \cup {"run", "Stop"} /\ "run" \notin Members(queue')
      BY <1>1, <2>1, <2>4, Submits DEF Submitted
    <3>2. Over'
      BY <2>1, <3>1 DEF Over, LabelInv
    <3> QED
      BY <1>5, <2>2, <3>1, <3>2
  <2> QED
    BY <2>1, <2>3, <2>4
<1> QED
  BY <1>6, <1>7, <1>8, <1>9, <1>10, <1>11, <1>12, <1>13, <1>14, <1>15, <1>16 DEF WorkloopSteps

(* With a patient user, every step keeps everything off without a scan.                 *)
LEMMA NextEnd ==
  ScanTypes /\ LabelInv /\ StartInv /\ EndInv /\ [TBNext]_tbVars => EndInv'
<1> SUFFICES ASSUME ScanTypes, LabelInv, StartInv, EndInv, [TBNext]_tbVars PROVE EndInv'
  OBVIOUS
<1>0. InitialisedInv /\ ClosedInv /\ QuietInv
  BY EndParts
<1>1. InitialisedInv'
  <2>1. CASE MachineSteps
    BY <1>0, <2>1, MachineInitialised
  <2>2. CASE WorkloopSteps
    BY <1>0, <2>2
    DEF WorkloopSteps, TakeControlSignal, RunBegins, NotRunning, TakeRunSignal, RunCounts,
        RunGoesOn, RunStopsTriggers, RunClosesPoint, RunSteps, RunLabels, RunEndsLatency,
        RunEndsThreshold, RunSamples, RunStepsADC, fsmVars, flagVars, InitialisedInv
  <2>3. CASE (\E c \in Commands : Click(c)) \/ Trigger \/ DAQReads \/ UNCHANGED tbVars
    BY <1>0, <2>3 DEF Click, Trigger, DAQReads, tbVars, fsmVars, flagVars, InitialisedInv
  <2> QED
    BY <2>1, <2>2, <2>3 DEF TBNext
<1>2. ClosedInv'
  <2>1. CASE (\E c \in Commands : Click(c)) \/ DAQReads \/ UNCHANGED tbVars
    <3>1. at' = at
      BY <2>1 DEF Click, DAQReads, tbVars, loopVars, hwVars
    <3>2. count' = count
      BY <2>1 DEF Click, DAQReads, tbVars, loopVars, hwVars
    <3> QED
      BY <1>0, <3>1, <3>2 DEF ClosedInv
  <2>2. CASE Trigger
    <3>1. triggers /\ at' = at
      BY <2>2 DEF Trigger, loopVars
    <3>2. at' \notin {"stepping", "draining"}
      BY <3>1 DEF LabelInv
    <3> QED
      BY <3>2 DEF ClosedInv
  <2> QED
    BY <1>0, <2>1, <2>2, MachineClosed, WorkloopClosed DEF TBNext
<1>3. QuietInv'
  <2>1. CASE stopped'
    BY <2>1 DEF QuietInv
  <2>2. CASE ~stopped' /\ (MachineSteps \/ WorkloopSteps)
    <3>1. stopped' = stopped
      BY <2>2
      DEF MachineSteps, TakeEvent, IgnoreEvent, MissTransition, InitializeAction, ConfigureAction,
          StartAction1, StartAction2, StopAction1, StopAction2, StopADC, HaltAction, ResetAction,
          WorkloopSteps, TakeControlSignal, RunBegins, NotRunning, TakeRunSignal, RunCounts,
          RunGoesOn, RunStopsTriggers, RunClosesPoint, RunSteps, RunLabels, RunEndsLatency,
          RunEndsThreshold, RunSamples, RunStepsADC, userVars
    <3> QED
      BY <1>0, <2>2, <3>1, MachineQuiet, WorkloopQuiet
  <2>3. CASE /\ ~stopped'
             /\ (\E c \in Commands : Click(c)) \/ Trigger \/ DAQReads \/ UNCHANGED tbVars
    BY <1>0, <2>3, OthersQuiet
  <2> QED
    BY <2>1, <2>2, <2>3 DEF TBNext
<1> QED
  BY <1>1, <1>2, <1>3, EndParts

(* A scan that came to its end by itself leaves no triggers on and no VFAT in run mode,     *)
(* with a user who waits for the last click to have its effect.                          *)
THEOREM RestIsAlwaysQuiet ==
  ASSUME PatientUser
  PROVE  TBSpec => []RestIsQuiet
<1>1. EndInv => RestIsQuiet
  BY EndParts DEF QuietInv, RestIsQuiet, Over
<1>2. ScanTypes /\ StartInv /\ [TBNext]_tbVars => StartInv'
  BY NextStart
<1> QED
  BY InitTypes, NextTypes, InitLabel, NextLabel, InitStart, <1>2, InitEnd, NextEnd, <1>1, PTL
  DEF TBSpec
=============================================================================
