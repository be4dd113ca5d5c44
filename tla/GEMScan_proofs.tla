----------------------------- MODULE GEMScan_proofs -----------------------------
(***************************************************************************)
(* Proofs about the scans, for every number of cards, every scan that fits    *)
(* the word, and every sequence of the operator's commands.                  *)
(***************************************************************************)
EXTENDS GEMScan, SequenceTheorems, TLAPS

(* The commands that occur during a scan.                                      *)
Moves == {"Start", "Pause", "Resume", "Stop"}

(* The moves in which the managers go in ascending order.                               *)
Rising == {"Start", "Resume"}

(* The event waits in the machine's queue.                                              *)
Happens(e) == \E i \in DOMAIN events : events[i] = e

(* No confirmation waits in the machine's queue.                                        *)
NoneConfirms == \A i \in DOMAIN events : events[i] \notin Confirmations

(* The confirmation of the transition, and no other, waits in the queue.           *)
OneConfirms ==
  \E i \in DOMAIN events :
    /\ events[i] = Confirmation[state]
    /\ \A j \in DOMAIN events : j # i => events[j] \notin Confirmations

(* The machine, its queue and its workloop go together, unless it is in Error:       *)
(* a transition is with the workloop, or its confirmation is on its way.            *)
AtRest  == jobs = <<>> /\ job = None /\ ~acting
Asked(c)   == jobs = <<c>> /\ job = None /\ ~acting /\ NoneConfirms
Begun(c)   == jobs = <<>> /\ job = c /\ NoneConfirms
Answered   == AtRest /\ OneConfirms

(* Machine, queue and workloop: at rest they are empty, and in a transition they are at *)
(* one stage of it.                                                                     *)
FlowInv ==
  /\ \A i \in DOMAIN events : events[i] \in Moves \cup Confirmations \cup {"Fail"}
  /\ \A i \in DOMAIN jobs : jobs[i] \in Moves
  /\ job \in Moves \cup {None}
  /\ state \in {"Configured", "Running", "Paused", "Error"} \cup {Via[c] : c \in Moves}
  /\ state \in {"Configured", "Running", "Paused"} => AtRest /\ NoneConfirms
  /\ \A c \in Moves : state = Via[c] => Asked(c) \/ Begun(c) \/ Answered

(* What is left of an action: the managers go one after the other.                  *)
LeftToRise ==
  {Managers, {"GLIBManager", "AMC13Manager", "PIController"},
   {"AMC13Manager", "PIController"}, {"PIController"}, {}}

LeftToFall ==
  {Managers, {"AMC13Manager", "GLIBManager", "OptoHybridManager"},
   {"GLIBManager", "OptoHybridManager"}, {"OptoHybridManager"}, {}}

(* How far the action has come, and which cards its manager has dealt with.             *)
OrderInv ==
  /\ acting => /\ job \in Moves
               /\ remaining \in IF job \in Rising THEN LeftToRise ELSE LeftToFall
  /\ ~acting => remaining = {} /\ gone = {}
  /\ gone # {} => /\ job # "Resume"
                  /\ IF job = "Start" THEN "GLIBManager" \in remaining
                     ELSE remaining \in {{"GLIBManager", "OptoHybridManager"}, {"OptoHybridManager"}}

(* All front ends take triggers, and all cards accept their events.                     *)
Up == accepting = Cards /\ taking = Cards

(* Front ends are up before the sources are on, and sources are off before the front    *)
(* ends go down.                                                                 *)
SourcesInv ==
  /\ firing # {} => Up
  /\ ~acting =>
       /\ state = "Configured" => firing = {}
       /\ state = "Starting" => IF NoneConfirms THEN firing = {} ELSE Up
       /\ state \in {"Running", "Pausing", "Paused", "Resuming"} => Up
       /\ state = "Stopping" /\ ~NoneConfirms => firing = {}
  /\ acting /\ job = "Start" =>
       /\ "GLIBManager" \in remaining => firing = {}
       /\ IF "OptoHybridManager" \in remaining THEN gone \subseteq taking ELSE taking = Cards
       /\ "OptoHybridManager" \notin remaining =>
            IF "GLIBManager" \in remaining THEN gone \subseteq accepting ELSE accepting = Cards
  /\ acting /\ job \in {"Pause", "Resume"} => Up
  /\ acting /\ job \in {"Pause", "Stop"} =>
       /\ "PIController" \notin remaining => "TCDS" \notin firing
       /\ "AMC13Manager" \notin remaining => "AMC13" \notin firing

(* Label and front end of a card, and the members of the two managers, keep pace but    *)
(* for a pause: GLIBManager goes ahead, and OptoHybridManager follows it.               *)
Paced(c) == frontEnd[c] \in {Unset, runParam[c]}

(* The members of the managers, the labels of the cards and their front ends, at every  *)
(* stage of an action.                                                                  *)
LabelInv ==
  /\ last["GLIBManager"] \in Nat /\ last["OptoHybridManager"] \in Nat
  /\ \A c \in Cards : \A i \in DOMAIN fifo[c] : fifo[c][i] \in {Unset, runParam[c]}
  /\ ~(acting /\ job \in {"Start", "Pause"}) =>
       last["GLIBManager"] = last["OptoHybridManager"]
  /\ ~(acting /\ job = "Pause") => \A c \in Cards : Paced(c)
  /\ acting /\ job = "Start" =>
       /\ "OptoHybridManager" \notin remaining => last["OptoHybridManager"] = scan.min
       /\ "GLIBManager" \notin remaining => last["GLIBManager"] = scan.min
  /\ acting /\ job = "Pause" =>
       IF "GLIBManager" \in remaining
       THEN /\ last["GLIBManager"] = last["OptoHybridManager"]
            /\ \A c \in Cards : IF c \in gone THEN runParam[c] = NextPoint("GLIBManager") ELSE Paced(c)
       ELSE IF "OptoHybridManager" \in remaining
       THEN /\ last["GLIBManager"] = last["OptoHybridManager"] + scan.step
            /\ \A c \in Cards : /\ runParam[c] = NextPoint("OptoHybridManager")
                                /\ c \in gone => frontEnd[c] = runParam[c]
       ELSE /\ last["GLIBManager"] = last["OptoHybridManager"]
            /\ \A c \in Cards : Paced(c)

(* The parts of the invariant that rest on the flow of the machine.                     *)
Others == OrderInv /\ SourcesInv /\ LabelInv

(* The inductive invariant of the scan.                                                 *)
ScanInv == ScanTypeOK /\ FlowInv /\ Others

-----------------------------------------------------------------------------
(* The part of the state table that a scan uses.                                  *)
LEMMA MoveTable ==
  /\ Via["Start"] = "Starting" /\ Via["Pause"] = "Pausing"
  /\ Via["Resume"] = "Resuming" /\ Via["Stop"] = "Stopping"
  /\ Settled["Starting"] = "Running" /\ Settled["Pausing"] = "Paused"
  /\ Settled["Resuming"] = "Running" /\ Settled["Stopping"] = "Configured"
  /\ Confirmation["Starting"] = "IsRunning" /\ Confirmation["Pausing"] = "IsPaused"
  /\ Confirmation["Resuming"] = "IsRunning" /\ Confirmation["Stopping"] = "IsConfigured"
  /\ Sources["Start"] = {"Configured"} /\ Sources["Pause"] = {"Running"}
  /\ Sources["Resume"] = {"Paused"} /\ Sources["Stop"] = {"Configured", "Running", "Paused"}
  /\ Moves \subseteq Commands /\ Moves \cap Confirmations = {} /\ "Fail" \notin Confirmations
  /\ "Fail" \notin Commands /\ Confirmations \cap Commands = {} /\ None \notin Commands
  BY DEF Via, Settled, Confirmation, Sources, Commands, Confirmations, TransitionalStates, Moves, None

(* What becomes of the machine when it takes an event.                               *)
LEMMA EventTable ==
  ASSUME NEW e \in Moves \cup Confirmations \cup {"Fail"}
  PROVE  /\ \A s \in {"Configured", "Running", "Paused"} :
              IF AcceptsCommand(s, e) THEN e \in Moves /\ s \in Sources[e] /\ Successor(s, e) = Via[e]
              ELSE Successor(s, e) = "Error"
         /\ \A s \in {"Starting", "Pausing", "Resuming", "Stopping"} :
              /\ ~AcceptsCommand(s, e)
              /\ Successor(s, e) = IF e = Confirmation[s] THEN Settled[s] ELSE "Error"
         /\ ~AcceptsCommand("Error", e) /\ Successor("Error", e) = "Error"
  <1>1. /\ \A s : AcceptsCommand(s, e) => e \in Moves /\ s \in Sources[e] /\ Successor(s, e) = Via[e]
        /\ \A s \in {"Starting", "Pausing", "Resuming", "Stopping", "Error"} : ~AcceptsCommand(s, e)
    BY MoveTable DEF AcceptsCommand, Successor, Moves
  <1>2. ASSUME NEW s \in {"Configured", "Running", "Paused", "Error"}, ~AcceptsCommand(s, e)
        PROVE  Successor(s, e) = "Error"
    BY <1>2 DEF Successor, AcceptsConfirmation, TransitionalStates
  <1>3. ASSUME NEW s \in {"Starting", "Pausing", "Resuming", "Stopping"}
        PROVE  Successor(s, e) = IF e = Confirmation[s] THEN Settled[s] ELSE "Error"
    BY <1>1 DEF Successor, AcceptsConfirmation, TransitionalStates
  <1>4. QED BY <1>1, <1>2, <1>3

(* The ranks of the four managers.                                                *)
LEMMA RankTable ==
  /\ \A c \in Rising :
       /\ Rank(c, "OptoHybridManager") = 105 /\ Rank(c, "GLIBManager") = 100
       /\ Rank(c, "AMC13Manager") = 35 /\ Rank(c, "PIController") = 11
  /\ \A c \in {"Pause", "Stop"} :
       /\ Rank(c, "OptoHybridManager") = 65 /\ Rank(c, "GLIBManager") = 70
       /\ Rank(c, "AMC13Manager") = 95 /\ Rank(c, "PIController") = 100
  <1>1. Managers \subseteq Classes
    BY DEF Managers, Classes, TCDSClasses, AMCClasses
  <1>2. /\ EnablePriority["OptoHybridManager"] = 105 /\ EnablePriority["GLIBManager"] = 100
        /\ EnablePriority["AMC13Manager"] = 35 /\ EnablePriority["PIController"] = 11
    BY <1>1 DEF EnablePriority, AMCClasses, Managers
  <1>3. /\ DisablePriority["OptoHybridManager"] = 65 /\ DisablePriority["GLIBManager"] = 70
        /\ DisablePriority["AMC13Manager"] = 95 /\ DisablePriority["PIController"] = 100
    BY <1>1 DEF DisablePriority, AMCClasses, Managers
  <1>4. /\ \A c \in Rising : \A m : Rank(c, m) = EnablePriority[m]
        /\ \A c \in {"Pause", "Stop"} : \A m : Rank(c, m) = DisablePriority[m]
    BY DEF Rank, Rising
  <1>5. QED BY <1>2, <1>3, <1>4

(* At the turn of a manager those before it are through.                             *)
LEMMA TurnFacts ==
  ASSUME OrderInv, NEW m \in Managers, NEW c, Turn(m, c)
  PROVE  /\ acting /\ job = c /\ c \in Moves /\ m \in remaining
         /\ c \in Rising =>
              /\ m = "OptoHybridManager" => remaining = Managers
              /\ m = "GLIBManager"       => remaining = {"GLIBManager", "AMC13Manager", "PIController"}
              /\ m = "AMC13Manager"      => remaining = {"AMC13Manager", "PIController"}
              /\ m = "PIController"      => remaining = {"PIController"}
         /\ c \in {"Pause", "Stop"} =>
              /\ m = "PIController"      => remaining = Managers
              /\ m = "AMC13Manager"      => remaining = {"AMC13Manager", "GLIBManager", "OptoHybridManager"}
              /\ m = "GLIBManager"       => remaining = {"GLIBManager", "OptoHybridManager"}
              /\ m = "OptoHybridManager" => remaining = {"OptoHybridManager"}
  <1>1. /\ acting /\ job = c /\ c \in Moves /\ m \in remaining
        /\ \A n \in remaining : Rank(c, m) >= Rank(c, n)
    BY DEF Turn, OrderInv
  <1>2. CASE c \in Rising
    <2>1. remaining \in LeftToRise
      BY <1>1, <1>2 DEF OrderInv
    <2>2. QED BY <1>1, <1>2, <2>1, RankTable DEF LeftToRise, Managers, Rising
  <1>3. CASE c \in {"Pause", "Stop"}
    <2>1. remaining \in LeftToFall
      BY <1>1, <1>3 DEF OrderInv, Rising
    <2>2. QED BY <1>1, <1>3, <2>1, RankTable DEF LeftToFall, Managers, Rising
  <1>4. QED BY <1>1, <1>2, <1>3 DEF Moves, Rising

(* What happens to the queue of events.                                            *)
LEMMA AppendFacts ==
  ASSUME ScanTypeOK, NEW e \in Events, events' = Append(events, e)
  PROVE  /\ events' \in Seq(Events)
         /\ Len(events) \in Nat /\ DOMAIN events = 1..Len(events)
         /\ DOMAIN events' = 1..(Len(events) + 1)
         /\ \A i \in 1..Len(events) : events'[i] = events[i]
         /\ events'[Len(events) + 1] = e
  BY DEF ScanTypeOK

(* The rest of a queue, place by place.                                                 *)
LEMMA TailFacts ==
  ASSUME ScanTypeOK, events # <<>>, events' = Tail(events)
  PROVE  /\ events' \in Seq(Events)
         /\ Len(events) \in Nat \ {0} /\ DOMAIN events = 1..Len(events)
         /\ Head(events) = events[1] /\ Head(events) \in Events
         /\ DOMAIN events' = 1..(Len(events) - 1)
         /\ \A i \in 1..(Len(events) - 1) : events'[i] = events[i + 1]
  <1>1. events \in Seq(Events)
    BY DEF ScanTypeOK
  <1>2. QED BY <1>1, HeadTailProperties

-----------------------------------------------------------------------------
(* The constants, for the scan at hand.                                      *)
LEMMA ScanFacts ==
  ASSUME scan \in Scans
  PROVE  /\ scan.min \in Nat /\ scan.max \in Nat /\ scan.step \in Nat /\ scan.step > 0
         /\ scan.min + scan.step < WordSize /\ scan.max + scan.step < WordSize
         /\ WordSize \in Nat /\ WordSize > 0
         /\ RegisterSize \in Nat /\ RegisterSize > 0
         /\ NTriggers \in Nat /\ MaxSeen \in Nat /\ 0 < NTriggers /\ NTriggers <= MaxSeen
         /\ Unset \notin Registers
  BY ScansFit, SizesFit, TriggersFit DEF Unset, Registers

(* A point fits a register.                                                       *)
LEMMA PointFacts ==
  ASSUME scan \in Scans, NEW n \in Nat
  PROVE  /\ n % RegisterSize \in Registers
         /\ n + scan.step \in Nat /\ (n + scan.step) % RegisterSize \in Registers
         /\ (n + scan.step) % WordSize \in 0..(WordSize - 1)
  BY ScanFacts DEF Registers

(* The machine ends in a state, and takes to the workloop nothing but commands.          *)
LEMMA SuccessorFacts ==
  ASSUME NEW s \in States, NEW e \in Events
  PROVE  Successor(s, e) \in States /\ (AcceptsCommand(s, e) => e \in Commands)
  BY DEF Successor, AcceptsCommand, AcceptsConfirmation, Via, Settled, States,
         Commands, TransitionalStates, SteadyStates, ReadyStates

(* Confirmations are events.                                                     *)
LEMMA ConfirmationFacts ==
  ASSUME NEW c \in Commands
  PROVE  Via[c] \in States /\ Confirmation[Via[c]] \in Events
  BY DEF Via, Confirmation, Commands, TransitionalStates, States, Events, Confirmations

(* The loop over the cards, and what it does when it comes to the last one.            *)
LEMMA LoopFacts ==
  ASSUME ScanTypeOK, NEW m \in Managers, NEW c \in Cards, Loop(m, c)
  PROVE  /\ UNCHANGED <<state, events, jobs, job, acting, failed>> /\ c \notin gone
         /\ gone' \subseteq Cards /\ remaining' \subseteq remaining
         /\ \/ gone \cup {c} = Cards /\ gone' = {} /\ remaining' = remaining \ {m}
            \/ gone \cup {c} # Cards /\ gone' = gone \cup {c} /\ remaining' = remaining
  BY DEF Loop, Through, ScanTypeOK

(* The member of a manager moves to the next point at the end of its pause.              *)
LEMMA MemberFacts ==
  ASSUME ScanTypeOK, last["GLIBManager"] \in Nat, last["OptoHybridManager"] \in Nat,
         NEW m \in {"GLIBManager", "OptoHybridManager"}, last' = MemberAfter(m)
  PROVE  /\ DOMAIN last' = DOMAIN last
         /\ \A n \in DOMAIN last : n # m => last'[n] = last[n]
         /\ last'[m] = IF job = "Start" THEN scan.min
                       ELSE IF job = "Pause" /\ remaining' # remaining THEN last[m] + scan.step
                       ELSE last[m]
         /\ last'[m] \in Nat
  <1>1. m \in DOMAIN last /\ scan.min \in Nat /\ scan.step \in Nat /\ last[m] \in Nat
    BY ScanFacts DEF ScanTypeOK
  <1>2. CASE job = "Start"
    <2>1. last' = [last EXCEPT ![m] = scan.min]
      BY <1>2 DEF MemberAfter
    <2>2. QED BY <1>1, <1>2, <2>1
  <1>3. CASE job = "Pause" /\ remaining' # remaining
    <2>1. last' = [last EXCEPT ![m] = last[m] + scan.step]
      BY <1>3 DEF MemberAfter
    <2>2. last[m] + scan.step \in Nat
      BY <1>1
    <2>3. QED BY <1>1, <1>3, <2>1, <2>2
  <1>4. CASE job # "Start" /\ ~(job = "Pause" /\ remaining' # remaining)
    <2>1. last' = last
      BY <1>4 DEF MemberAfter
    <2>2. QED BY <1>1, <1>4, <2>1
  <1>5. QED BY <1>2, <1>3, <1>4

(* Every step keeps the types, as long as the members count.                           *)
LEMMA NextTypeOK ==
  ASSUME ScanTypeOK, OrderInv, last["GLIBManager"] \in Nat, last["OptoHybridManager"] \in Nat,
         [ScanNext]_scanVars
  PROVE  ScanTypeOK'
  <1> USE DEF pointVars, amc13Vars, cardVars, outerVars, machineVars
  <1>1. ASSUME NEW c \in Operator, OperatorCommand(c) PROVE ScanTypeOK'
    <2>1. events' \in Seq(Events)
      BY <1>1, OperatorCommands DEF OperatorCommand, ScanTypeOK, Events, Commands
    <2>2. QED BY <1>1, <2>1 DEF OperatorCommand, ScanTypeOK
  <1>2. ASSUME HandleEvent PROVE ScanTypeOK'
    <2>1. Head(events) \in Events /\ events' \in Seq(Events) /\ state' \in States
      BY <1>2, TailFacts, SuccessorFacts DEF HandleEvent, ScanTypeOK
    <2>2. jobs' \in Seq(Commands)
      BY <1>2, <2>1, SuccessorFacts DEF HandleEvent, ScanTypeOK
    <2>3. QED BY <1>2, <2>1, <2>2 DEF HandleEvent, ScanTypeOK
  <1>3. ASSUME ErrorIsSeen PROVE ScanTypeOK'
    <2>1. events' \in Seq(Events)
      BY <1>3, OperatorCommands DEF ErrorIsSeen, ScanTypeOK, Events, Commands
    <2>2. QED BY <1>3, <2>1 DEF ErrorIsSeen, ScanTypeOK
  <1>4. ASSUME BeginJob PROVE ScanTypeOK'
    <2>1. job' \in Commands /\ jobs' \in Seq(Commands)
      BY <1>4, HeadTailProperties DEF BeginJob, ScanTypeOK
    <2>2. QED BY <1>4, <2>1 DEF BeginJob, ScanTypeOK
  <1>5. ASSUME EnterAction PROVE ScanTypeOK'
    <2>1. scanParameter' \in 0..(WordSize - 1)
      BY <1>5, ScanFacts DEF EnterAction, ScanTypeOK
    <2>2. QED BY <1>5, <2>1 DEF EnterAction, ScanTypeOK
  <1>6. ASSUME LeaveAction PROVE ScanTypeOK'
    <2>1. acting /\ remaining = {} /\ events' = Append(events, Confirmation[Via[job]])
      BY <1>6 DEF LeaveAction
    <2>2. job \in Commands
      BY <2>1, MoveTable DEF OrderInv
    <2>3. events' \in Seq(Events)
      BY <2>1, <2>2, ConfirmationFacts DEF ScanTypeOK
    <2>4. QED BY <1>6, <2>3 DEF LeaveAction, ScanTypeOK
  <1>7. ASSUME TCDSTurns PROVE ScanTypeOK'
    BY <1>7, ScanFacts DEF TCDSTurns, Through, ScanTypeOK
  <1>8. ASSUME AMC13Starts PROVE ScanTypeOK'
    <2>1. seen' \in 0..MaxSeen /\ firing' \subseteq {"AMC13", "TCDS"}
      BY <1>8, ScanFacts DEF AMC13Starts, ScanTypeOK
    <2>2. QED BY <1>8, <2>1 DEF AMC13Starts, Through, ScanTypeOK
  <1>9. ASSUME AMC13Pauses PROVE ScanTypeOK'
    <2>1. seen' \in 0..MaxSeen /\ firing' \subseteq {"AMC13", "TCDS"}
      BY <1>9, ScanFacts DEF AMC13Pauses, ScanTypeOK
    <2>2. QED BY <1>9, <2>1 DEF AMC13Pauses, Through, ScanTypeOK
  <1>10. ASSUME AMC13Resumes PROVE ScanTypeOK'
    BY <1>10, ScanFacts DEF AMC13Resumes, Through, ScanTypeOK
  <1>11. ASSUME AMC13Stops PROVE ScanTypeOK'
    BY <1>11, ScanFacts DEF AMC13Stops, Through, ScanTypeOK
  <1>12. ASSUME NEW c \in Cards, GLIBStarts(c) PROVE ScanTypeOK'
    <2>1. /\ UNCHANGED <<state, events, jobs, job, acting, failed>>
          /\ gone' \subseteq Cards /\ remaining' \subseteq remaining
      BY <1>12, LoopFacts DEF GLIBStarts, Managers
    <2>2. DOMAIN last' = DOMAIN last
      BY <1>12, MemberFacts DEF GLIBStarts
    <2>3. NextPoint("GLIBManager") \in Registers
      BY PointFacts DEF NextPoint, ScanTypeOK
    <2>4. /\ runParam' \in [Cards -> Registers] /\ frontEnd' \in [Cards -> Registers \cup {Unset}]
          /\ fifo' \in [Cards -> Seq(Registers \cup {Unset})]
      BY <1>12, <2>3 DEF GLIBStarts, ScanTypeOK
    <2>5. QED BY <1>12, <2>1, <2>2, <2>4 DEF GLIBStarts, ScanTypeOK
  <1>13. ASSUME NEW c \in Cards, GLIBPauses(c) PROVE ScanTypeOK'
    <2>1. /\ UNCHANGED <<state, events, jobs, job, acting, failed>>
          /\ gone' \subseteq Cards /\ remaining' \subseteq remaining
      BY <1>13, LoopFacts DEF GLIBPauses, Managers
    <2>2. DOMAIN last' = DOMAIN last
      BY <1>13, MemberFacts DEF GLIBPauses
    <2>3. NextPoint("GLIBManager") \in Registers
      BY PointFacts DEF NextPoint, ScanTypeOK
    <2>4. /\ runParam' \in [Cards -> Registers] /\ frontEnd' \in [Cards -> Registers \cup {Unset}]
          /\ fifo' \in [Cards -> Seq(Registers \cup {Unset})]
      BY <1>13, <2>3 DEF GLIBPauses, ScanTypeOK
    <2>5. QED BY <1>13, <2>1, <2>2, <2>4 DEF GLIBPauses, ScanTypeOK
  <1>14. ASSUME NEW c \in Cards, GLIBStops(c) PROVE ScanTypeOK'
    <2>1. /\ UNCHANGED <<state, events, jobs, job, acting, failed>>
          /\ gone' \subseteq Cards /\ remaining' \subseteq remaining
      BY <1>14, LoopFacts DEF GLIBStops, Managers
    <2>2. QED BY <1>14, <2>1 DEF GLIBStops, ScanTypeOK
  <1>15. ASSUME NEW c \in Cards, OptoHybridStarts(c) PROVE ScanTypeOK'
    <2>1. /\ UNCHANGED <<state, events, jobs, job, acting, failed>>
          /\ gone' \subseteq Cards /\ remaining' \subseteq remaining
      BY <1>15, LoopFacts DEF OptoHybridStarts, Managers
    <2>2. DOMAIN last' = DOMAIN last
      BY <1>15, MemberFacts DEF OptoHybridStarts
    <2>3. NextPoint("OptoHybridManager") \in Registers
      BY PointFacts DEF NextPoint, ScanTypeOK
    <2>4. /\ runParam' \in [Cards -> Registers] /\ frontEnd' \in [Cards -> Registers \cup {Unset}]
          /\ fifo' \in [Cards -> Seq(Registers \cup {Unset})]
      BY <1>15, <2>3 DEF OptoHybridStarts, ScanTypeOK
    <2>5. QED BY <1>15, <2>1, <2>2, <2>4 DEF OptoHybridStarts, ScanTypeOK
  <1>16. ASSUME NEW c \in Cards, OptoHybridPauses(c) PROVE ScanTypeOK'
    <2>1. /\ UNCHANGED <<state, events, jobs, job, acting, failed>>
          /\ gone' \subseteq Cards /\ remaining' \subseteq remaining
      BY <1>16, LoopFacts DEF OptoHybridPauses, Managers
    <2>2. DOMAIN last' = DOMAIN last
      BY <1>16, MemberFacts DEF OptoHybridPauses
    <2>3. NextPoint("OptoHybridManager") \in Registers
      BY PointFacts DEF NextPoint, ScanTypeOK
    <2>4. /\ runParam' \in [Cards -> Registers] /\ frontEnd' \in [Cards -> Registers \cup {Unset}]
          /\ fifo' \in [Cards -> Seq(Registers \cup {Unset})]
      BY <1>16, <2>3 DEF OptoHybridPauses, ScanTypeOK
    <2>5. QED BY <1>16, <2>1, <2>2, <2>4 DEF OptoHybridPauses, ScanTypeOK
  <1>17. ASSUME NEW c \in Cards, OptoHybridStops(c) PROVE ScanTypeOK'
    <2>1. /\ UNCHANGED <<state, events, jobs, job, acting, failed>>
          /\ gone' \subseteq Cards /\ remaining' \subseteq remaining
      BY <1>17, LoopFacts DEF OptoHybridStops, Managers
    <2>2. QED BY <1>17, <2>1 DEF OptoHybridStops, ScanTypeOK
  <1>18. ASSUME NEW m \in {"GLIBManager", "OptoHybridManager"}, CardsResume(m) PROVE ScanTypeOK'
    BY <1>18 DEF CardsResume, Through, ScanTypeOK
  <1>19. ASSUME EndScanPoint PROVE ScanTypeOK'
    <2>1. events' \in Seq(Events)
      <3>1. events' = events \/ events' = Append(events, "Stop")
        BY <1>19 DEF EndScanPoint
      <3>2. "Stop" \in Events /\ events \in Seq(Events)
        BY DEF ScanTypeOK, Events, Commands
      <3>3. QED BY <3>1, <3>2
    <2>2. updated' \in 0..(WordSize - 1)
      <3>1. updated' = (scanParameter + scan.step) % WordSize /\ scan \in Scans
            /\ scanParameter \in Nat
        BY <1>19, ScanFacts DEF EndScanPoint, ScanTypeOK
      <3>2. QED BY <3>1, PointFacts
    <2>3. QED BY <1>19, <2>1, <2>2 DEF EndScanPoint, ScanTypeOK
  <1>20. ASSUME FirePause PROVE ScanTypeOK'
    <2>1. events' \in Seq(Events)
      BY <1>20, OperatorCommands DEF FirePause, ScanTypeOK, Events, Commands
    <2>2. QED BY <1>20, <2>1 DEF FirePause, ScanTypeOK
  <1>21. ASSUME FireResume PROVE ScanTypeOK'
    <2>1. events' \in Seq(Events)
      BY <1>21, OperatorCommands DEF FireResume, ScanTypeOK, Events, Commands
    <2>2. QED BY <1>21, <2>1 DEF FireResume, ScanTypeOK
  <1>22. ASSUME ReplySentTriggers PROVE ScanTypeOK'
    BY <1>22 DEF ReplySentTriggers, Through, ScanTypeOK
  <1>23. ASSUME TimeExpires PROVE ScanTypeOK'
    BY <1>23 DEF TimeExpires, Through, ScanTypeOK
  <1>24. ASSUME Trigger PROVE ScanTypeOK'
    <2>1. fifo' \in [Cards -> Seq(Registers \cup {Unset})]
      BY <1>24 DEF Trigger, ScanTypeOK
    <2>2. seen' \in 0..MaxSeen
      BY <1>24, ScanFacts DEF Trigger, ScanTypeOK
    <2>3. QED BY <1>24, <2>1, <2>2 DEF Trigger, ScanTypeOK
  <1>25. ASSUME NEW c \in Cards, Build(c) PROVE ScanTypeOK'
    <2>1. Tail(fifo[c]) \in Seq(Registers \cup {Unset})
      BY <1>25, HeadTailProperties DEF Build, ScanTypeOK
    <2>2. QED BY <1>25, <2>1 DEF Build, ScanTypeOK
  <1>26. ASSUME NEW m \in {"GLIBManager", "OptoHybridManager"}, NEW c \in Cards, CardIsLost(m, c) PROVE ScanTypeOK'
    <2>1. DOMAIN last' = DOMAIN last
      BY <1>26, MemberFacts DEF CardIsLost
    <2>2. QED BY <1>26, <2>1 DEF CardIsLost, ScanTypeOK, Managers
  <1>27. CASE UNCHANGED scanVars
    BY <1>27 DEF ScanTypeOK, scanVars
  <1>28. QED
    BY <1>1, <1>2, <1>3, <1>4, <1>5, <1>6, <1>7, <1>8, <1>9, <1>10, <1>11, <1>12, <1>13, <1>14, <1>15, <1>16, <1>17, <1>18, <1>19, <1>20, <1>21, <1>22, <1>23, <1>24, <1>25, <1>26, <1>27
    DEF ScanNext, MachineSteps, JobSteps, EndpointSteps

-----------------------------------------------------------------------------
(* The flow of events and jobs, as the steps leave it or change it.               *)
LEMMA SameMachine ==
  ASSUME FlowInv, UNCHANGED <<state, events, jobs, job, acting>>
  PROVE  FlowInv' /\ (NoneConfirms' <=> NoneConfirms)
  BY DEF FlowInv, NoneConfirms, OneConfirms, AtRest, Asked, Begun, Answered

(* A command or a failure is queued: no confirmation comes or goes.                     *)
LEMMA CommandIsQueued ==
  ASSUME ScanTypeOK, FlowInv, NEW e \in Moves \cup {"Fail"}, events' = Append(events, e),
         UNCHANGED <<state, jobs, job, acting>>
  PROVE  FlowInv' /\ (NoneConfirms' <=> NoneConfirms)
  <1>1. e \in Events /\ e \notin Confirmations
    BY MoveTable DEF Events
  <1>2. /\ Len(events) \in Nat /\ DOMAIN events = 1..Len(events)
        /\ DOMAIN events' = 1..(Len(events) + 1)
        /\ \A i \in 1..Len(events) : events'[i] = events[i]
        /\ events'[Len(events) + 1] = e
    BY <1>1, AppendFacts
  <1>3. \A i \in DOMAIN events' : i \in DOMAIN events \/ i = Len(events) + 1
    BY <1>2
  <1>4. DOMAIN events \subseteq DOMAIN events'
    BY <1>2
  <1>5. NoneConfirms' <=> NoneConfirms
    BY <1>1, <1>2, <1>3, <1>4 DEF NoneConfirms
  <1>6. OneConfirms => OneConfirms'
    BY <1>1, <1>2, <1>3, <1>4 DEF OneConfirms
  <1>7. \A i \in DOMAIN events' : events'[i] \in Moves \cup Confirmations \cup {"Fail"}
    BY <1>2, <1>3 DEF FlowInv
  <1>8. QED BY <1>5, <1>6, <1>7 DEF FlowInv, AtRest, Asked, Begun, Answered

(* The machine takes an event: it fails, it accepts a command at rest, or it settles     *)
(* with the confirmation that was waited for.                                       *)
LEMMA HandleEventFlow ==
  ASSUME ScanTypeOK, FlowInv, HandleEvent
  PROVE  /\ FlowInv'
         /\ \/ state' = "Error"
            \/ /\ state \in {"Configured", "Running", "Paused"} /\ NoneConfirms'
               /\ \E c \in Moves : state \in Sources[c] /\ state' = Via[c] /\ Head(events) = c
            \/ \E c \in Moves : /\ state = Via[c] /\ state' = Settled[Via[c]]
                                /\ ~acting /\ ~NoneConfirms /\ NoneConfirms'
                                /\ Head(events) = Confirmation[Via[c]]
  <1> DEFINE e == Head(events)
  <1>1. /\ events' = Tail(events) /\ state' = Successor(state, e)
        /\ jobs' = IF AcceptsCommand(state, e) THEN Append(jobs, e) ELSE jobs
        /\ UNCHANGED <<job, acting>> /\ events # <<>>
    BY DEF HandleEvent
  <1>2. /\ Len(events) \in Nat \ {0} /\ DOMAIN events = 1..Len(events)
        /\ e = events[1] /\ 1 \in DOMAIN events
        /\ DOMAIN events' = 1..(Len(events) - 1)
        /\ \A i \in DOMAIN events' : i + 1 \in DOMAIN events /\ events'[i] = events[i + 1] /\ i + 1 # 1
    BY <1>1, TailFacts
  <1>3. e \in Moves \cup Confirmations \cup {"Fail"}
    BY <1>2 DEF FlowInv
  <1>4. \A i \in DOMAIN events' : events'[i] \in Moves \cup Confirmations \cup {"Fail"}
    BY <1>2 DEF FlowInv
  <1>5. NoneConfirms => NoneConfirms'
    BY <1>2 DEF NoneConfirms
  <1> HIDE DEF e
  <1>6. CASE state' = "Error"
    <2>1. \A i \in DOMAIN jobs' : jobs'[i] \in Moves
      BY <1>1, <1>3, <1>6, EventTable, MoveTable DEF FlowInv, ScanTypeOK, AcceptsCommand, Moves
    <2>2. \A c \in Moves : Via[c] # "Error"
      BY MoveTable DEF Moves
    <2>3. QED BY <1>1, <1>4, <1>6, <2>1, <2>2 DEF FlowInv
  <1>7. ASSUME NEW d \in Moves, d = e, state \in {"Configured", "Running", "Paused"},
               AcceptsCommand(state, e)
        PROVE  FlowInv' /\ NoneConfirms' /\ state \in Sources[d] /\ state' = Via[d]
    <2>1. state \in Sources[d] /\ state' = Via[d]
      BY <1>1, <1>3, <1>7, EventTable
    <2>2. AtRest /\ NoneConfirms
      BY <1>7 DEF FlowInv
    <2>3. jobs' = <<d>>
      <3>1. jobs' = Append(<<>>, d)
        BY <1>1, <1>7, <2>2 DEF AtRest
      <3>2. QED BY <3>1
    <2>4. NoneConfirms'
      BY <1>5, <2>2
    <2>5. (Asked(d))'
      BY <1>1, <2>2, <2>3, <2>4 DEF Asked, AtRest
    <2>6. \A i \in DOMAIN jobs' : jobs'[i] \in Moves
      BY <2>3
    <2>7. /\ state' \notin {"Configured", "Running", "Paused"}
          /\ \A c \in Moves : state' = Via[c] => c = d
      BY <2>1, MoveTable DEF Moves
    <2>8. state' \in {Via[c] : c \in Moves} /\ job' \in Moves \cup {None}
      BY <1>1, <2>1 DEF FlowInv
    <2>9. FlowInv'
      BY <1>4, <2>5, <2>6, <2>7, <2>8 DEF FlowInv
    <2>10. QED BY <2>1, <2>4, <2>9
  <1>8. ASSUME NEW c \in Moves, state = Via[c], state' # "Error"
        PROVE  /\ FlowInv' /\ state' = Settled[Via[c]] /\ e = Confirmation[Via[c]]
               /\ ~acting /\ ~NoneConfirms /\ NoneConfirms'
    <2>1. state \in {"Starting", "Pausing", "Resuming", "Stopping"}
      BY <1>8, MoveTable DEF Moves
    <2>2. /\ ~AcceptsCommand(state, e) /\ e = Confirmation[state] /\ state' = Settled[state]
          /\ state' \in {"Configured", "Running", "Paused"}
      BY <1>1, <1>3, <1>8, <2>1, EventTable, MoveTable
    <2>3. e \in Confirmations
      BY <2>1, <2>2, MoveTable DEF Confirmations
    <2>4. ~NoneConfirms
      BY <1>2, <2>3 DEF NoneConfirms
    <2>5. Answered
      BY <1>8, <2>4 DEF FlowInv, Asked, Begun
    <2>6. NoneConfirms'
      <3>1. PICK i \in DOMAIN events : \A j \in DOMAIN events : j # i => events[j] \notin Confirmations
        BY <2>5 DEF Answered, OneConfirms
      <3>2. i = 1
        BY <1>2, <2>3, <3>1
      <3>3. QED BY <1>2, <3>1, <3>2 DEF NoneConfirms
    <2>7. AtRest'
      BY <1>1, <2>2, <2>5 DEF Answered, AtRest
    <2>8. \A d \in Moves : state' # Via[d]
      BY <2>2, MoveTable DEF Moves
    <2>9. jobs' = jobs /\ job' = job
      BY <1>1, <2>2
    <2>10. FlowInv'
      BY <1>4, <2>2, <2>6, <2>7, <2>8, <2>9 DEF FlowInv
    <2>11. QED BY <1>8, <2>2, <2>4, <2>5, <2>6, <2>10 DEF Answered, AtRest
  <1>9. CASE state \in {"Configured", "Running", "Paused", "Error"} /\ ~AcceptsCommand(state, e)
    BY <1>1, <1>3, <1>6, <1>9, EventTable
  <1>10. CASE state = "Error"
    BY <1>1, <1>3, <1>6, <1>10, EventTable
  <1>11. state \in {"Configured", "Running", "Paused"} /\ AcceptsCommand(state, e) => e \in Moves
    BY <1>3, EventTable
  <1>12. QED BY <1>6, <1>7, <1>8, <1>9, <1>10, <1>11 DEF FlowInv, e

(* The workloop takes its job.                                                     *)
LEMMA BeginJobFlow ==
  ASSUME ScanTypeOK, FlowInv, BeginJob
  PROVE  FlowInv' /\ NoneConfirms' = NoneConfirms
  <1>1. /\ job = None /\ jobs # <<>> /\ job' = Head(jobs) /\ jobs' = Tail(jobs)
        /\ UNCHANGED <<state, events, acting>>
    BY DEF BeginJob
  <1>2. jobs \in Seq(Commands)
    BY DEF ScanTypeOK
  <1>3. job' \in Moves /\ \A i \in DOMAIN jobs' : jobs'[i] \in Moves
    <2>1. /\ Len(jobs) \in Nat \ {0} /\ DOMAIN jobs = 1..Len(jobs) /\ Head(jobs) = jobs[1]
          /\ DOMAIN jobs' = 1..(Len(jobs) - 1)
          /\ \A i \in 1..(Len(jobs) - 1) : jobs'[i] = jobs[i + 1]
      BY <1>1, <1>2, HeadTailProperties
    <2>2. QED BY <1>1, <2>1 DEF FlowInv
  <1>4. ASSUME NEW c \in Moves, state = Via[c] PROVE (Begun(c))'
    <2>1. Asked(c)
      BY <1>1, <1>4, MoveTable DEF FlowInv, Begun, Answered, AtRest
    <2>2. jobs' = <<>> /\ job' = c
      BY <1>1, <2>1 DEF Asked
    <2>3. QED BY <1>1, <2>1, <2>2 DEF Asked, Begun, NoneConfirms
  <1>5. state \notin {"Configured", "Running", "Paused"}
    BY <1>1 DEF FlowInv, AtRest
  <1>6. QED BY <1>1, <1>3, <1>4, <1>5 DEF FlowInv, NoneConfirms

(* The job takes the managers along.                                               *)
LEMMA EnterActionFlow ==
  ASSUME ScanTypeOK, FlowInv, EnterAction
  PROVE  /\ FlowInv' /\ state = Via[job] /\ job \in Moves /\ NoneConfirms /\ ~acting
         /\ acting' /\ job' = job
  <1>1. /\ job # None /\ ~acting /\ state = Via[job] /\ acting' = TRUE
        /\ UNCHANGED <<state, events, jobs, job>>
    BY DEF EnterAction
  <1>2. job \in Moves /\ Begun(job)
    BY <1>1 DEF FlowInv, Asked, Begun, Answered, AtRest
  <1>3. \A c \in Moves : state = Via[c] => c = job
    BY <1>1, <1>2, MoveTable DEF Moves
  <1>4. (Begun(job))'
    BY <1>1, <1>2 DEF Begun, NoneConfirms
  <1>5. state \notin {"Configured", "Running", "Paused"}
    BY <1>1, <1>2, MoveTable DEF Moves
  <1>6. QED BY <1>1, <1>2, <1>3, <1>4, <1>5 DEF FlowInv, Begun

(* A job that is busy is busy with the transition of the machine, or the machine has      *)
(* failed.                                                                      *)
LEMMA ActingState ==
  ASSUME FlowInv, OrderInv, acting
  PROVE  job \in Moves /\ ((state = Via[job] /\ Begun(job)) \/ state = "Error")
  BY DEF FlowInv, OrderInv, Asked, Begun, Answered, AtRest

(* The job confirms its transition.                                                *)
LEMMA LeaveActionFlow ==
  ASSUME ScanTypeOK, FlowInv, OrderInv, LeaveAction
  PROVE  /\ FlowInv' /\ job \in Moves /\ ~acting' /\ job' = None /\ state' = state
         /\ (state = Via[job] /\ ~NoneConfirms') \/ state = "Error"
  <1>1. /\ acting /\ acting' = FALSE /\ job' = None /\ events' = Append(events, Confirmation[Via[job]])
        /\ UNCHANGED <<state, jobs>>
    BY DEF LeaveAction
  <1>2. job \in Moves /\ ((state = Via[job] /\ Begun(job)) \/ state = "Error")
    BY <1>1, ActingState
  <1>3. Confirmation[Via[job]] \in Confirmations /\ Confirmation[Via[job]] \in Events
    BY <1>2, MoveTable DEF Moves, Confirmations, Events
  <1>4. /\ Len(events) \in Nat /\ DOMAIN events = 1..Len(events)
        /\ DOMAIN events' = 1..(Len(events) + 1)
        /\ \A i \in 1..Len(events) : events'[i] = events[i]
        /\ events'[Len(events) + 1] = Confirmation[Via[job]]
    BY <1>1, <1>3, AppendFacts
  <1>5. /\ \A i \in DOMAIN events' : i \in DOMAIN events \/ i = Len(events) + 1
        /\ Len(events) + 1 \in DOMAIN events'
    BY <1>4
  <1>6. \A i \in DOMAIN events' : events'[i] \in Moves \cup Confirmations \cup {"Fail"}
    BY <1>3, <1>4, <1>5 DEF FlowInv
  <1>7. CASE state = "Error"
    <2>1. \A c \in Moves : Via[c] # "Error"
      BY MoveTable DEF Moves
    <2>2. QED BY <1>1, <1>2, <1>6, <1>7, <2>1 DEF FlowInv
  <1>8. CASE state = Via[job] /\ Begun(job)
    <2>1. OneConfirms'
      BY <1>1, <1>3, <1>4, <1>5, <1>8 DEF OneConfirms, Begun, NoneConfirms
    <2>2. Answered'
      BY <1>1, <1>8, <2>1 DEF Answered, AtRest, Begun
    <2>3. state \notin {"Configured", "Running", "Paused"}
      BY <1>2, <1>8, MoveTable DEF Moves
    <2>4. ~NoneConfirms'
      BY <1>3, <1>4, <1>5 DEF NoneConfirms
    <2>5. QED BY <1>1, <1>2, <1>6, <1>8, <2>2, <2>3, <2>4 DEF FlowInv
  <1>9. QED BY <1>2, <1>7, <1>8

-----------------------------------------------------------------------------
(* What a step leaves alone it leaves true.                                          *)
LEMMA SameOrder ==
  ASSUME OrderInv, UNCHANGED <<acting, job, remaining, gone>>
  PROVE  OrderInv'
  BY DEF OrderInv

(* A step that leaves sources and front ends alone keeps them in order.                 *)
LEMMA SameSources ==
  ASSUME SourcesInv, UNCHANGED <<state, acting, job, remaining, gone, firing, accepting, taking>>,
         NoneConfirms' <=> NoneConfirms
  PROVE  SourcesInv'
  BY DEF SourcesInv, Up

(* A step that leaves labels, members and front ends alone keeps them in agreement.     *)
LEMMA SameLabels ==
  ASSUME LabelInv, UNCHANGED <<acting, job, remaining, gone, last, fifo, runParam, frontEnd, scan>>
  PROVE  LabelInv'
  BY DEF LabelInv, Paced, NextPoint

(* A command or a failure that is queued, or a step of EndScanPoint, changes nothing else.  *)
LEMMA QueueKeeps ==
  ASSUME ScanInv,
         UNCHANGED <<state, jobs, job, acting, remaining, gone, firing, accepting, taking,
                     last, fifo, runParam, frontEnd, scan>>,
         UNCHANGED events \/ \E e \in Moves \cup {"Fail"} : events' = Append(events, e)
  PROVE  FlowInv' /\ Others'
  <1>1. FlowInv' /\ (NoneConfirms' <=> NoneConfirms)
    BY SameMachine, CommandIsQueued DEF ScanInv
  <1>2. QED BY <1>1, SameOrder, SameSources, SameLabels DEF ScanInv, Others

(* The machine's step with an event preserves the invariant.                            *)
LEMMA HandleEventKeeps ==
  ASSUME ScanInv, HandleEvent
  PROVE  FlowInv' /\ Others'
  <1>1. /\ FlowInv'
        /\ \/ state' = "Error"
           \/ /\ state \in {"Configured", "Running", "Paused"} /\ NoneConfirms'
              /\ \E c \in Moves : state \in Sources[c] /\ state' = Via[c]
           \/ \E c \in Moves : /\ state = Via[c] /\ state' = Settled[Via[c]]
                               /\ ~acting /\ ~NoneConfirms /\ NoneConfirms'
    BY HandleEventFlow DEF ScanInv
  <1>2. UNCHANGED <<acting, job, remaining, gone, firing, accepting, taking, last, fifo, runParam,
                    frontEnd, scan>>
    BY DEF HandleEvent, amc13Vars, cardVars, outerVars
  <1>3. OrderInv' /\ LabelInv'
    BY <1>2, SameOrder, SameLabels DEF ScanInv, Others
  <1>4. state \in {"Configured", "Running", "Paused"} => ~acting
    BY DEF ScanInv, FlowInv, AtRest
  <1>5. SourcesInv'
    <2>1. CASE acting
      <3>1. SourcesInv
        BY DEF ScanInv, Others
      <3>2. QED BY <1>2, <2>1, <3>1 DEF SourcesInv, Up
    <2>2. CASE ~acting
      <3>1. SourcesInv /\ Up' = Up /\ firing' = firing /\ ~acting'
        BY <1>2, <2>2 DEF ScanInv, Others, Up
      <3>2. CASE state' = "Error"
        BY <3>1, <3>2 DEF SourcesInv
      <3>3. ASSUME state \in {"Configured", "Running", "Paused"}, NoneConfirms',
                   NEW c \in Moves, state \in Sources[c], state' = Via[c]
            PROVE  SourcesInv'
        BY <2>2, <3>1, <3>3, MoveTable DEF SourcesInv, Moves
      <3>4. ASSUME NEW c \in Moves, state = Via[c], state' = Settled[Via[c]], ~NoneConfirms
            PROVE  SourcesInv'
        BY <2>2, <3>1, <3>4, MoveTable DEF SourcesInv, Moves
      <3>5. QED BY <1>1, <3>2, <3>3, <3>4
    <2>3. QED BY <2>1, <2>2
  <1>6. QED BY <1>1, <1>3, <1>5 DEF Others

(* The begin of a job preserves the invariant.                                          *)
LEMMA BeginJobKeeps ==
  ASSUME ScanInv, BeginJob
  PROVE  FlowInv' /\ Others'
  <1>1. FlowInv' /\ NoneConfirms' = NoneConfirms
    BY BeginJobFlow DEF ScanInv
  <1>2. /\ ~acting
        /\ UNCHANGED <<state, acting, remaining, gone, firing, accepting, taking, last, fifo, runParam,
                       frontEnd, scan>>
    BY MoveTable DEF BeginJob, amc13Vars, cardVars, outerVars, ScanInv, Others, OrderInv, Moves, None
  <1>3. OrderInv' /\ SourcesInv' /\ LabelInv'
    BY <1>1, <1>2 DEF ScanInv, Others, OrderInv, SourcesInv, LabelInv, Up, Paced
  <1>4. QED BY <1>1, <1>3 DEF Others

(* The begin of an action preserves the invariant.                                      *)
LEMMA EnterActionKeeps ==
  ASSUME ScanInv, EnterAction
  PROVE  FlowInv' /\ Others'
  <1>1. /\ FlowInv' /\ state = Via[job] /\ job \in Moves /\ NoneConfirms /\ ~acting
        /\ acting' /\ job' = job
    BY EnterActionFlow DEF ScanInv
  <1>2. /\ remaining' = Managers /\ gone = {}
        /\ UNCHANGED <<state, gone, firing, accepting, taking, last, fifo, runParam, frontEnd, scan>>
    BY <1>1 DEF EnterAction, amc13Vars, cardVars, outerVars, ScanInv, Others, OrderInv
  <1>3. OrderInv'
    BY <1>1, <1>2 DEF OrderInv, LeftToRise, LeftToFall
  <1>4. SourcesInv'
    <2>1. SourcesInv /\ Up' = Up
      BY <1>2 DEF ScanInv, Others, Up
    <2>2. /\ job = "Start" => firing = {}
          /\ job \in {"Pause", "Resume"} => Up
      BY <1>1, <2>1, MoveTable DEF SourcesInv
    <2>3. {"PIController", "AMC13Manager", "GLIBManager", "OptoHybridManager"} \subseteq remaining'
      BY <1>2 DEF Managers
    <2>4. QED BY <1>1, <1>2, <2>1, <2>2, <2>3 DEF SourcesInv
  <1>5. LabelInv'
    <2>1. /\ LabelInv /\ "GLIBManager" \in remaining' /\ "OptoHybridManager" \in remaining'
      BY <1>2 DEF ScanInv, Others, Managers
    <2>2. /\ last["GLIBManager"] = last["OptoHybridManager"]
          /\ \A c \in Cards : Paced(c)
      BY <1>1, <2>1 DEF LabelInv
    <2>3. QED BY <1>1, <1>2, <2>1, <2>2 DEF LabelInv, Paced
  <1>6. QED BY <1>1, <1>3, <1>4, <1>5 DEF Others

(* The end of an action preserves the invariant.                                        *)
LEMMA LeaveActionKeeps ==
  ASSUME ScanInv, LeaveAction
  PROVE  FlowInv' /\ Others'
  <1>1. /\ FlowInv' /\ job \in Moves /\ ~acting' /\ job' = None /\ state' = state
        /\ (state = Via[job] /\ ~NoneConfirms') \/ state = "Error"
    BY LeaveActionFlow DEF ScanInv, Others
  <1>2. /\ acting /\ remaining = {} /\ gone = {}
        /\ UNCHANGED <<remaining, gone, firing, accepting, taking, last, fifo, runParam, frontEnd, scan>>
    BY DEF LeaveAction, amc13Vars, cardVars, outerVars, ScanInv, Others, OrderInv
  <1>3. OrderInv'
    BY <1>1, <1>2 DEF OrderInv
  <1>4. SourcesInv'
    <2>1. SourcesInv /\ Up' = Up /\ firing \subseteq {"AMC13", "TCDS"}
      BY <1>2 DEF ScanInv, Others, Up, ScanTypeOK
    <2>2. /\ job \in {"Start", "Pause", "Resume"} => Up
          /\ job = "Stop" => firing = {}
      BY <1>2, <2>1 DEF SourcesInv, Up
    <2>3. CASE state = "Error"
      BY <1>1, <1>2, <2>1, <2>3 DEF SourcesInv
    <2>4. CASE state = Via[job] /\ ~NoneConfirms'
      BY <1>1, <1>2, <2>1, <2>2, <2>4, MoveTable DEF SourcesInv, Moves
    <2>5. QED BY <1>1, <2>3, <2>4
  <1>5. LabelInv'
    <2>1. /\ LabelInv
          /\ last["GLIBManager"] = last["OptoHybridManager"]
          /\ \A c \in Cards : Paced(c)
      BY <1>2 DEF ScanInv, Others, LabelInv
    <2>2. QED BY <1>1, <1>2, <2>1 DEF LabelInv, Paced
  <1>6. QED BY <1>1, <1>3, <1>4, <1>5 DEF Others

-----------------------------------------------------------------------------
(* The managers without cards, at their turn.                                        *)
LEMMA ThroughKeepsOrder ==
  ASSUME ScanInv, NEW m \in {"PIController", "AMC13Manager"}, NEW c, Turn(m, c), Through(m),
         gone' = gone
  PROVE  OrderInv' /\ FlowInv' /\ (NoneConfirms' <=> NoneConfirms) /\ gone = {}
         /\ state' = state /\ acting' = acting /\ job' = job
         /\ acting /\ job = c /\ c \in Moves /\ remaining' = remaining \ {m}
  <1>1. UNCHANGED <<state, events, jobs, job, acting>> /\ remaining' = remaining \ {m}
    BY DEF Through
  <1>2. /\ acting /\ job = c /\ c \in Moves /\ m \in remaining
        /\ c \in Rising => /\ m = "AMC13Manager" => remaining = {"AMC13Manager", "PIController"}
                           /\ m = "PIController" => remaining = {"PIController"}
        /\ c \in {"Pause", "Stop"} =>
             /\ m = "PIController" => remaining = Managers
             /\ m = "AMC13Manager" => remaining = {"AMC13Manager", "GLIBManager", "OptoHybridManager"}
    BY TurnFacts DEF ScanInv, Others, Managers
  <1>3. gone = {}
    BY <1>2 DEF ScanInv, Others, OrderInv, Moves, Rising, Managers
  <1>4. remaining' \in IF c \in Rising THEN LeftToRise ELSE LeftToFall
    <2>1. CASE c \in Rising
      <3>1. remaining' \in {{"PIController"}, {}}
        BY <1>1, <1>2, <2>1
      <3>2. QED BY <2>1, <3>1 DEF LeftToRise
    <2>2. CASE c \in {"Pause", "Stop"}
      <3>1. remaining' \in {{"AMC13Manager", "GLIBManager", "OptoHybridManager"},
                            {"GLIBManager", "OptoHybridManager"}}
        BY <1>1, <1>2, <2>2 DEF Managers
      <3>2. QED BY <2>2, <3>1 DEF LeftToFall, Rising
    <2>3. QED BY <1>2, <2>1, <2>2 DEF Moves, Rising
  <1>5. QED BY <1>1, <1>2, <1>3, <1>4, SameMachine DEF ScanInv, OrderInv

(* They do not touch the labels, and it is not at their turn that the two card managers       *)
(* come through.                                                                 *)
LEMMA ThroughKeepsLabels ==
  ASSUME ScanInv, NEW m \in {"PIController", "AMC13Manager"}, acting, remaining' = remaining \ {m},
         UNCHANGED <<acting, job, gone, last, fifo, runParam, frontEnd, scan>>
  PROVE  LabelInv'
  <1>1. /\ "GLIBManager" \in remaining' <=> "GLIBManager" \in remaining
        /\ "OptoHybridManager" \in remaining' <=> "OptoHybridManager" \in remaining
    OBVIOUS
  <1>2. QED BY <1>1 DEF ScanInv, Others, LabelInv, Paced, NextPoint

(* The TCDS's part of a transition preserves the invariant.                             *)
LEMMA TCDSTurnsKeeps ==
  ASSUME ScanInv, TCDSTurns
  PROVE  FlowInv' /\ Others'
  <1>1. PICK c \in Moves :
          /\ Turn("PIController", c)
          /\ firing' = IF ~local /\ c \in {"Start", "Resume"} THEN firing \cup {"TCDS"}
                       ELSE firing \ {"TCDS"}
    BY DEF TCDSTurns, Moves
  <1>2. /\ Through("PIController")
        /\ UNCHANGED <<gone, accepting, taking, last, fifo, runParam, frontEnd, scan>>
    BY DEF TCDSTurns, cardVars, outerVars
  <1>3. /\ OrderInv' /\ FlowInv' /\ (NoneConfirms' <=> NoneConfirms) /\ gone = {}
        /\ state' = state /\ acting' = acting /\ job' = job
        /\ acting /\ job = c /\ remaining' = remaining \ {"PIController"}
    BY <1>1, <1>2, ThroughKeepsOrder
  <1>4. LabelInv'
    BY <1>2, <1>3, ThroughKeepsLabels
  <1>5. SourcesInv'
    <2>1. SourcesInv /\ Up' = Up
      BY <1>2 DEF ScanInv, Others, Up
    <2>2. CASE c \in Rising
      <3>1. remaining = {"PIController"} /\ remaining' = {}
        BY <1>1, <1>3, <2>2, TurnFacts DEF ScanInv, Others, Managers
      <3>2. Up
        BY <1>3, <2>1, <2>2, <3>1 DEF SourcesInv, Up, Rising
      <3>3. QED BY <1>2, <1>3, <2>1, <2>2, <3>1, <3>2 DEF SourcesInv, Up, Rising
    <2>3. CASE c \in {"Pause", "Stop"}
      <3>1. firing' = firing \ {"TCDS"}
        BY <1>1, <2>3
      <3>2. QED BY <1>2, <1>3, <2>1, <2>3, <3>1 DEF SourcesInv
    <2>4. QED BY <2>2, <2>3 DEF Moves, Rising
  <1>6. QED BY <1>3, <1>4, <1>5 DEF Others

(* The AMC13's part of a transition preserves the invariant.                            *)
LEMMA AMC13Keeps ==
  ASSUME ScanInv, AMC13Starts \/ AMC13Pauses \/ AMC13Resumes \/ AMC13Stops
  PROVE  FlowInv' /\ Others'
  <1>1. PICK c \in Moves :
          /\ Turn("AMC13Manager", c)
          /\ c \in Rising => firing' \in {firing, firing \cup {"AMC13"}}
          /\ c \in {"Pause", "Stop"} => firing' = firing \ {"AMC13"}
    BY DEF AMC13Starts, AMC13Pauses, AMC13Resumes, AMC13Stops, Moves, Rising
  <1>2. /\ Through("AMC13Manager")
        /\ UNCHANGED <<gone, accepting, taking, last, fifo, runParam, frontEnd, scan>>
    BY DEF AMC13Starts, AMC13Pauses, AMC13Resumes, AMC13Stops, cardVars, outerVars
  <1>3. /\ OrderInv' /\ FlowInv' /\ (NoneConfirms' <=> NoneConfirms) /\ gone = {}
        /\ state' = state /\ acting' = acting /\ job' = job
        /\ acting /\ job = c /\ remaining' = remaining \ {"AMC13Manager"}
    BY <1>1, <1>2, ThroughKeepsOrder
  <1>4. LabelInv'
    BY <1>2, <1>3, ThroughKeepsLabels
  <1>5. SourcesInv'
    <2>1. SourcesInv /\ Up' = Up
      BY <1>2 DEF ScanInv, Others, Up
    <2>2. CASE c \in Rising
      <3>1. remaining = {"AMC13Manager", "PIController"} /\ remaining' = {"PIController"}
        BY <1>1, <1>3, <2>2, TurnFacts DEF ScanInv, Others, Managers
      <3>2. Up
        BY <1>3, <2>1, <2>2, <3>1 DEF SourcesInv, Up, Rising
      <3>3. QED BY <1>2, <1>3, <2>1, <2>2, <3>1, <3>2 DEF SourcesInv, Up, Rising
    <2>3. CASE c \in {"Pause", "Stop"}
      <3>1. firing' = firing \ {"AMC13"}
        BY <1>1, <2>3
      <3>2. QED BY <1>2, <1>3, <2>1, <2>3, <3>1 DEF SourcesInv
    <2>4. QED BY <2>2, <2>3 DEF Moves, Rising
  <1>6. QED BY <1>3, <1>4, <1>5 DEF Others

-----------------------------------------------------------------------------
(* The managers with cards, one card after the other.                                *)
LEMMA LoopKeepsOrder ==
  ASSUME ScanInv, NEW m \in {"GLIBManager", "OptoHybridManager"}, NEW c \in {"Start", "Pause", "Stop"},
         NEW d \in Cards, Turn(m, c), Loop(m, d)
  PROVE  /\ OrderInv' /\ FlowInv' /\ (NoneConfirms' <=> NoneConfirms)
         /\ UNCHANGED <<state, acting, job>> /\ acting /\ job = c /\ d \notin gone
         /\ \/ gone \cup {d} = Cards /\ gone' = {} /\ remaining' = remaining \ {m}
            \/ gone \cup {d} # Cards /\ gone' = gone \cup {d} /\ remaining' = remaining
         /\ c = "Start" => remaining = IF m = "OptoHybridManager" THEN Managers
                                       ELSE {"GLIBManager", "AMC13Manager", "PIController"}
         /\ c # "Start" => remaining = IF m = "GLIBManager" THEN {"GLIBManager", "OptoHybridManager"}
                                       ELSE {"OptoHybridManager"}
  <1>1. m \in Managers
    BY DEF Managers
  <1>2. /\ UNCHANGED <<state, events, jobs, job, acting>> /\ d \notin gone
        /\ \/ gone \cup {d} = Cards /\ gone' = {} /\ remaining' = remaining \ {m}
           \/ gone \cup {d} # Cards /\ gone' = gone \cup {d} /\ remaining' = remaining
    BY <1>1, LoopFacts DEF ScanInv
  <1>3. /\ acting /\ job = c
        /\ c = "Start" => remaining = IF m = "OptoHybridManager" THEN Managers
                                      ELSE {"GLIBManager", "AMC13Manager", "PIController"}
        /\ c # "Start" => remaining = IF m = "GLIBManager" THEN {"GLIBManager", "OptoHybridManager"}
                                      ELSE {"OptoHybridManager"}
    <2>1. OrderInv
      BY DEF ScanInv, Others
    <2>2. c \in Rising <=> c = "Start"
      BY DEF Rising
    <2>3. QED BY <1>1, <2>1, <2>2, TurnFacts
  <1>4. FlowInv' /\ (NoneConfirms' <=> NoneConfirms)
    BY <1>2, SameMachine DEF ScanInv
  <1>5. remaining' \in IF c \in Rising THEN LeftToRise ELSE LeftToFall
    <2>1. CASE c = "Start"
      <3>1. remaining' \in {Managers, {"GLIBManager", "AMC13Manager", "PIController"}, {"AMC13Manager", "PIController"}}
        BY <1>2, <1>3, <2>1 DEF Managers
      <3>2. QED BY <2>1, <3>1 DEF LeftToRise, Rising
    <2>2. CASE c # "Start"
      <3>1. remaining' \in {{"GLIBManager", "OptoHybridManager"}, {"OptoHybridManager"}, {}}
        BY <1>2, <1>3, <2>2
      <3>2. QED BY <2>2, <3>1 DEF LeftToFall, Rising
    <2>3. QED BY <2>1, <2>2
  <1>6. gone' # {} =>
          IF c = "Start" THEN "GLIBManager" \in remaining'
          ELSE remaining' \in {{"GLIBManager", "OptoHybridManager"}, {"OptoHybridManager"}}
    BY <1>2, <1>3 DEF Managers
  <1>7. OrderInv'
    BY <1>2, <1>3, <1>5, <1>6 DEF OrderInv, Moves
  <1>8. QED BY <1>2, <1>3, <1>4, <1>7

(* A GLIB's part of Start preserves the invariant.                                         *)
LEMMA GLIBStartsKeeps ==
  ASSUME ScanInv, NEW d \in Cards, GLIBStarts(d)
  PROVE  FlowInv' /\ Others'
  <1>1. /\ Turn("GLIBManager", "Start") /\ Loop("GLIBManager", d)
        /\ last' = MemberAfter("GLIBManager") /\ accepting' = accepting \cup {d}
        /\ fifo' = [fifo EXCEPT ![d] = <<>>]
        /\ UNCHANGED <<firing, taking, runParam, frontEnd, scan>>
    BY DEF GLIBStarts, amc13Vars, outerVars
  <1>2. /\ OrderInv' /\ FlowInv' /\ (NoneConfirms' <=> NoneConfirms)
        /\ UNCHANGED <<state, acting, job>> /\ acting /\ job = "Start"
        /\ remaining = {"GLIBManager", "AMC13Manager", "PIController"}
        /\ \/ gone \cup {d} = Cards /\ gone' = {} /\ remaining' = remaining \ {"GLIBManager"}
           \/ gone \cup {d} # Cards /\ gone' = gone \cup {d} /\ remaining' = remaining
    BY <1>1, LoopKeepsOrder
  <1>3. ScanTypeOK /\ SourcesInv /\ LabelInv
    BY DEF ScanInv, Others
  <1>4. SourcesInv'
    <2>1. firing = {} /\ taking = Cards /\ gone \subseteq accepting
      BY <1>2, <1>3 DEF SourcesInv
    <2>2. IF "GLIBManager" \in remaining' THEN gone' \subseteq accepting' ELSE accepting' = Cards
      BY <1>1, <1>2, <1>3, <2>1 DEF ScanTypeOK
    <2>3. QED BY <1>1, <1>2, <2>1, <2>2 DEF SourcesInv
  <1>5. LabelInv'
    <2>1. /\ last'["OptoHybridManager"] = last["OptoHybridManager"]
          /\ last'["GLIBManager"] = scan.min /\ last'["GLIBManager"] \in Nat
      BY <1>1, <1>2, <1>3, MemberFacts DEF LabelInv, ScanTypeOK
    <2>2. \A c \in Cards : fifo'[c] = IF c = d THEN <<>> ELSE fifo[c]
      BY <1>1, <1>3 DEF ScanTypeOK
    <2>3. \A c \in Cards : \A i \in DOMAIN fifo'[c] : fifo'[c][i] \in {Unset, runParam'[c]}
      BY <1>1, <1>3, <2>2 DEF LabelInv
    <2>4. \A c \in Cards : Paced(c)'
      BY <1>1, <1>2, <1>3 DEF LabelInv, Paced
    <2>5. "OptoHybridManager" \notin remaining' => last'["OptoHybridManager"] = scan'.min
      BY <1>1, <1>2, <1>3, <2>1 DEF LabelInv
    <2>6. QED BY <1>1, <1>2, <1>3, <2>1, <2>3, <2>4, <2>5 DEF LabelInv
  <1>6. QED BY <1>2, <1>4, <1>5 DEF Others

(* An OptoHybrid's part of Start preserves the invariant.                               *)
LEMMA OptoHybridStartsKeeps ==
  ASSUME ScanInv, NEW d \in Cards, OptoHybridStarts(d)
  PROVE  FlowInv' /\ Others'
  <1>1. /\ Turn("OptoHybridManager", "Start") /\ Loop("OptoHybridManager", d)
        /\ last' = MemberAfter("OptoHybridManager") /\ taking' = taking \cup {d}
        /\ UNCHANGED <<firing, accepting, runParam, frontEnd, fifo, scan>>
    BY DEF OptoHybridStarts, amc13Vars, outerVars
  <1>2. /\ OrderInv' /\ FlowInv' /\ (NoneConfirms' <=> NoneConfirms)
        /\ UNCHANGED <<state, acting, job>> /\ acting /\ job = "Start"
        /\ remaining = Managers
        /\ \/ gone \cup {d} = Cards /\ gone' = {} /\ remaining' = remaining \ {"OptoHybridManager"}
           \/ gone \cup {d} # Cards /\ gone' = gone \cup {d} /\ remaining' = remaining
    BY <1>1, LoopKeepsOrder
  <1>3. ScanTypeOK /\ SourcesInv /\ LabelInv
    BY DEF ScanInv, Others
  <1>4. SourcesInv'
    <2>1. firing = {} /\ gone \subseteq taking
      BY <1>2, <1>3 DEF SourcesInv, Managers
    <2>2. /\ IF "OptoHybridManager" \in remaining' THEN gone' \subseteq taking' ELSE taking' = Cards
          /\ "OptoHybridManager" \notin remaining' => "GLIBManager" \in remaining' /\ gone' = {}
      BY <1>1, <1>2, <1>3, <2>1 DEF ScanTypeOK, Managers
    <2>3. QED BY <1>1, <1>2, <2>1, <2>2 DEF SourcesInv
  <1>5. LabelInv'
    <2>1. /\ last'["GLIBManager"] = last["GLIBManager"]
          /\ last'["OptoHybridManager"] = scan.min /\ last'["OptoHybridManager"] \in Nat
      BY <1>1, <1>2, <1>3, MemberFacts DEF LabelInv, ScanTypeOK
    <2>2. \A c \in Cards : \A i \in DOMAIN fifo'[c] : fifo'[c][i] \in {Unset, runParam'[c]}
      BY <1>1, <1>3 DEF LabelInv
    <2>3. \A c \in Cards : Paced(c)'
      BY <1>1, <1>2, <1>3 DEF LabelInv, Paced
    <2>4. "GLIBManager" \in remaining'
      BY <1>2 DEF Managers
    <2>5. QED BY <1>1, <1>2, <1>3, <2>1, <2>2, <2>3, <2>4 DEF LabelInv
  <1>6. QED BY <1>2, <1>4, <1>5 DEF Others

(* GLIBManager brings the label of one card to the next point, once it has nothing left    *)
(* to build.                                                                    *)
LEMMA GLIBPausesKeeps ==
  ASSUME ScanInv, NEW d \in Cards, GLIBPauses(d)
  PROVE  FlowInv' /\ Others'
  <1>1. /\ Turn("GLIBManager", "Pause") /\ Loop("GLIBManager", d) /\ fifo[d] = <<>>
        /\ last' = MemberAfter("GLIBManager")
        /\ runParam' = [runParam EXCEPT ![d] = NextPoint("GLIBManager")]
        /\ UNCHANGED <<firing, accepting, taking, frontEnd, fifo, scan>>
    BY DEF GLIBPauses, amc13Vars, outerVars
  <1>2. /\ OrderInv' /\ FlowInv' /\ (NoneConfirms' <=> NoneConfirms)
        /\ UNCHANGED <<state, acting, job>> /\ acting /\ job = "Pause" /\ d \notin gone
        /\ remaining = {"GLIBManager", "OptoHybridManager"}
        /\ \/ gone \cup {d} = Cards /\ gone' = {} /\ remaining' = remaining \ {"GLIBManager"}
           \/ gone \cup {d} # Cards /\ gone' = gone \cup {d} /\ remaining' = remaining
    BY <1>1, LoopKeepsOrder
  <1>3. ScanTypeOK /\ SourcesInv /\ LabelInv
    BY DEF ScanInv, Others
  <1>4. SourcesInv'
    BY <1>1, <1>2, <1>3 DEF SourcesInv, Up
  <1>5. LabelInv'
    <2>1. /\ last["GLIBManager"] \in Nat /\ last["OptoHybridManager"] \in Nat
          /\ last["GLIBManager"] = last["OptoHybridManager"]
          /\ \A c \in Cards : IF c \in gone THEN runParam[c] = NextPoint("GLIBManager") ELSE Paced(c)
      BY <1>2, <1>3 DEF LabelInv
    <2>2. /\ last'["OptoHybridManager"] = last["OptoHybridManager"] /\ last'["GLIBManager"] \in Nat
          /\ last'["GLIBManager"] = IF remaining' # remaining THEN last["GLIBManager"] + scan.step
                                    ELSE last["GLIBManager"]
      BY <1>1, <1>2, <1>3, <2>1, MemberFacts DEF ScanTypeOK
    <2>3. \A c \in Cards : runParam'[c] = IF c = d THEN NextPoint("GLIBManager") ELSE runParam[c]
      BY <1>1, <1>3 DEF ScanTypeOK
    <2>4. \A c \in Cards : \A i \in DOMAIN fifo'[c] : fifo'[c][i] \in {Unset, runParam'[c]}
      BY <1>1, <1>3, <2>3 DEF LabelInv
    <2>5. CASE remaining' = remaining
      <3>1. NextPoint("GLIBManager")' = NextPoint("GLIBManager")
        BY <1>1, <2>2, <2>5 DEF NextPoint
      <3>2. \A c \in Cards : IF c \in gone' THEN runParam'[c] = NextPoint("GLIBManager")' ELSE Paced(c)'
        BY <1>1, <1>2, <2>1, <2>3, <2>5, <3>1 DEF Paced
      <3>3. QED BY <1>2, <2>1, <2>2, <2>4, <2>5, <3>2 DEF LabelInv
    <2>6. CASE remaining' # remaining
      <3>1. gone \cup {d} = Cards /\ gone' = {} /\ remaining' = {"OptoHybridManager"}
        BY <1>2, <2>6
      <3>2. NextPoint("OptoHybridManager")' = NextPoint("GLIBManager")
        BY <1>1, <2>1, <2>2 DEF NextPoint
      <3>3. \A c \in Cards : runParam'[c] = NextPoint("OptoHybridManager")'
        BY <2>1, <2>3, <3>1, <3>2
      <3>4. last'["GLIBManager"] = last'["OptoHybridManager"] + scan'.step
        BY <1>1, <2>1, <2>2, <2>6
      <3>5. QED BY <1>2, <2>1, <2>2, <2>4, <3>1, <3>3, <3>4 DEF LabelInv
    <2>7. QED BY <2>5, <2>6
  <1>6. QED BY <1>2, <1>4, <1>5 DEF Others

(* OptoHybridManager has the VFATs of one card follow the label.                        *)
LEMMA OptoHybridPausesKeeps ==
  ASSUME ScanInv, NEW d \in Cards, OptoHybridPauses(d)
  PROVE  FlowInv' /\ Others'
  <1>1. /\ Turn("OptoHybridManager", "Pause") /\ Loop("OptoHybridManager", d)
        /\ last' = MemberAfter("OptoHybridManager")
        /\ frontEnd' = [frontEnd EXCEPT ![d] = NextPoint("OptoHybridManager")]
        /\ UNCHANGED <<firing, accepting, taking, runParam, fifo, scan>>
    BY DEF OptoHybridPauses, amc13Vars, outerVars
  <1>2. /\ OrderInv' /\ FlowInv' /\ (NoneConfirms' <=> NoneConfirms)
        /\ UNCHANGED <<state, acting, job>> /\ acting /\ job = "Pause" /\ d \notin gone
        /\ remaining = {"OptoHybridManager"}
        /\ \/ gone \cup {d} = Cards /\ gone' = {} /\ remaining' = remaining \ {"OptoHybridManager"}
           \/ gone \cup {d} # Cards /\ gone' = gone \cup {d} /\ remaining' = remaining
    BY <1>1, LoopKeepsOrder
  <1>3. ScanTypeOK /\ SourcesInv /\ LabelInv
    BY DEF ScanInv, Others
  <1>4. SourcesInv'
    BY <1>1, <1>2, <1>3 DEF SourcesInv, Up
  <1>5. LabelInv'
    <2>1. /\ last["GLIBManager"] \in Nat /\ last["OptoHybridManager"] \in Nat
          /\ last["GLIBManager"] = last["OptoHybridManager"] + scan.step
          /\ \A c \in Cards : /\ runParam[c] = NextPoint("OptoHybridManager")
                              /\ c \in gone => frontEnd[c] = runParam[c]
      BY <1>2, <1>3 DEF LabelInv
    <2>2. /\ last'["GLIBManager"] = last["GLIBManager"] /\ last'["OptoHybridManager"] \in Nat
          /\ last'["OptoHybridManager"] =
               IF remaining' # remaining THEN last["OptoHybridManager"] + scan.step
               ELSE last["OptoHybridManager"]
      BY <1>1, <1>2, <1>3, <2>1, MemberFacts DEF ScanTypeOK
    <2>3. \A c \in Cards : frontEnd'[c] = IF c = d THEN NextPoint("OptoHybridManager") ELSE frontEnd[c]
      BY <1>1, <1>3 DEF ScanTypeOK
    <2>4. \A c \in Cards : \A i \in DOMAIN fifo'[c] : fifo'[c][i] \in {Unset, runParam'[c]}
      BY <1>1, <1>3 DEF LabelInv
    <2>5. \A c \in Cards : c \in gone \cup {d} => frontEnd'[c] = runParam'[c]
      <3>1. runParam' = runParam
        BY <1>1
      <3>2. ASSUME NEW c \in Cards, c \in gone \cup {d}
            PROVE  frontEnd'[c] = runParam[c]
        <4>1. runParam[c] = NextPoint("OptoHybridManager") /\ (c \in gone => frontEnd[c] = runParam[c])
          BY <2>1
        <4>2. frontEnd'[c] = IF c = d THEN NextPoint("OptoHybridManager") ELSE frontEnd[c]
          BY <2>3
        <4>3. QED BY <3>2, <4>1, <4>2
      <3>3. QED BY <3>1, <3>2
    <2>6. CASE remaining' = remaining
      <3>1. NextPoint("OptoHybridManager")' = NextPoint("OptoHybridManager")
        BY <1>1, <2>2, <2>6 DEF NextPoint
      <3>2. \A c \in Cards : /\ runParam'[c] = NextPoint("OptoHybridManager")'
                             /\ c \in gone' => frontEnd'[c] = runParam'[c]
        BY <1>1, <1>2, <2>1, <2>5, <2>6, <3>1
      <3>3. QED BY <1>1, <1>2, <2>1, <2>2, <2>4, <2>6, <3>2 DEF LabelInv
    <2>7. CASE remaining' # remaining
      <3>1. gone \cup {d} = Cards /\ remaining' = {}
        BY <1>2, <2>7
      <3>2. \A c \in Cards : Paced(c)'
        BY <2>5, <3>1 DEF Paced
      <3>3. last'["GLIBManager"] = last'["OptoHybridManager"]
        BY <2>1, <2>2, <2>7
      <3>4. QED BY <1>2, <2>1, <2>2, <2>4, <3>1, <3>2, <3>3 DEF LabelInv
    <2>8. QED BY <2>6, <2>7
  <1>6. QED BY <1>2, <1>4, <1>5 DEF Others

(* The front ends go down once the sources are off.                                   *)
LEMMA StopsKeep ==
  ASSUME ScanInv, NEW d \in Cards, GLIBStops(d) \/ OptoHybridStops(d)
  PROVE  FlowInv' /\ Others'
  <1>1. PICK m \in {"GLIBManager", "OptoHybridManager"} :
          /\ Turn(m, "Stop") /\ Loop(m, d)
          /\ fifo' = [fifo EXCEPT ![d] = <<>>] \/ fifo' = fifo
          /\ UNCHANGED <<firing, last, runParam, frontEnd, scan>>
    BY DEF GLIBStops, OptoHybridStops, amc13Vars, outerVars
  <1>2. /\ OrderInv' /\ FlowInv' /\ (NoneConfirms' <=> NoneConfirms)
        /\ UNCHANGED <<state, acting, job>> /\ acting /\ job = "Stop"
        /\ remaining \subseteq {"GLIBManager", "OptoHybridManager"} /\ remaining' \subseteq remaining
    <2>1. /\ OrderInv' /\ FlowInv' /\ (NoneConfirms' <=> NoneConfirms)
          /\ UNCHANGED <<state, acting, job>> /\ acting /\ job = "Stop"
          /\ remaining' = remaining \ {m} \/ remaining' = remaining
          /\ remaining = IF m = "GLIBManager" THEN {"GLIBManager", "OptoHybridManager"}
                         ELSE {"OptoHybridManager"}
      BY <1>1, LoopKeepsOrder
    <2>2. QED BY <2>1
  <1>3. ScanTypeOK /\ SourcesInv /\ LabelInv
    BY DEF ScanInv, Others
  <1>4. SourcesInv'
    <2>1. firing = {}
      BY <1>2, <1>3 DEF SourcesInv, ScanTypeOK
    <2>2. QED BY <1>1, <1>2, <2>1 DEF SourcesInv
  <1>5. LabelInv'
    <2>1. \A c \in Cards : fifo'[c] = <<>> \/ fifo'[c] = fifo[c]
      BY <1>1, <1>3 DEF ScanTypeOK
    <2>2. \A c \in Cards : \A i \in DOMAIN fifo'[c] : fifo'[c][i] \in {Unset, runParam'[c]}
      BY <1>1, <1>3, <2>1 DEF LabelInv
    <2>3. \A c \in Cards : Paced(c)'
      BY <1>1, <1>2, <1>3 DEF LabelInv, Paced
    <2>4. QED BY <1>1, <1>2, <1>3, <2>2, <2>3 DEF LabelInv
  <1>6. QED BY <1>2, <1>4, <1>5 DEF Others

(* The managers with cards take no part in Resume.                                    *)
LEMMA CardsResumeKeeps ==
  ASSUME ScanInv, NEW m \in {"GLIBManager", "OptoHybridManager"}, CardsResume(m)
  PROVE  FlowInv' /\ Others'
  <1>1. /\ Turn(m, "Resume") /\ UNCHANGED <<state, events, jobs, job, acting>> /\ remaining' = remaining \ {m}
        /\ UNCHANGED <<gone, firing, accepting, taking, last, fifo, runParam, frontEnd, scan>>
    BY DEF CardsResume, Through, amc13Vars, cardVars, outerVars
  <1>2. ScanTypeOK /\ OrderInv /\ SourcesInv /\ LabelInv /\ FlowInv
    BY DEF ScanInv, Others
  <1>3. /\ acting /\ job = "Resume" /\ gone = {}
        /\ remaining = IF m = "OptoHybridManager" THEN Managers ELSE {"GLIBManager", "AMC13Manager", "PIController"}
    <2>1. m \in Managers /\ "Resume" \in Rising
      BY DEF Managers, Rising
    <2>2. QED BY <1>1, <1>2, <2>1, TurnFacts DEF OrderInv
  <1>4. OrderInv'
    <2>1. remaining' \in {{"GLIBManager", "AMC13Manager", "PIController"}, {"AMC13Manager", "PIController"}}
      BY <1>1, <1>3 DEF Managers
    <2>2. QED BY <1>1, <1>3, <2>1 DEF OrderInv, LeftToRise, Rising, Moves
  <1>5. FlowInv' /\ (NoneConfirms' <=> NoneConfirms)
    BY <1>1, <1>2, SameMachine
  <1>6. SourcesInv' /\ LabelInv'
    BY <1>1, <1>2, <1>3 DEF SourcesInv, LabelInv, Up, Paced
  <1>7. QED BY <1>4, <1>5, <1>6 DEF Others

(* A card that is lost stops its manager where it is.                                  *)
LEMMA CardIsLostKeeps ==
  ASSUME ScanInv, NEW m \in {"GLIBManager", "OptoHybridManager"}, NEW d \in Cards, CardIsLost(m, d)
  PROVE  FlowInv' /\ Others'
  <1>1. /\ acting /\ m \in remaining
        /\ UNCHANGED <<state, events, jobs, job, acting, remaining, gone, firing, accepting, taking,
                       fifo, runParam, frontEnd, scan>>
        /\ last' = IF job = "Start" THEN MemberAfter(m) ELSE last
    BY DEF CardIsLost, Turn, amc13Vars
  <1>2. FlowInv' /\ OrderInv' /\ SourcesInv' /\ ScanTypeOK /\ LabelInv
    BY <1>1, SameMachine, SameOrder, SameSources DEF ScanInv, Others
  <1>3. CASE job = "Start"
    <2>1. last'[m] = scan.min /\ last'[m] \in Nat /\ \A n \in DOMAIN last : n # m => last'[n] = last[n]
      BY <1>1, <1>2, <1>3, MemberFacts DEF LabelInv
    <2>2. /\ last'["GLIBManager"] \in Nat /\ last'["OptoHybridManager"] \in Nat
          /\ "OptoHybridManager" \notin remaining => last'["OptoHybridManager"] = scan.min
          /\ "GLIBManager" \notin remaining => last'["GLIBManager"] = scan.min
      BY <1>1, <1>2, <1>3, <2>1 DEF LabelInv, ScanTypeOK
    <2>3. LabelInv'
      BY <1>1, <1>2, <1>3, <2>2 DEF LabelInv, Paced
    <2>4. QED BY <1>2, <2>3 DEF Others
  <1>4. CASE job # "Start"
    BY <1>1, <1>2, <1>4, SameLabels DEF Others
  <1>5. QED BY <1>3, <1>4

(* A source that goes off is off.                                                   *)
LEMMA TimeExpiresKeeps ==
  ASSUME ScanInv, TimeExpires
  PROVE  FlowInv' /\ Others'
  <1>1. /\ firing' \subseteq firing
        /\ UNCHANGED <<state, events, jobs, job, acting, remaining, gone, accepting, taking, last,
                       fifo, runParam, frontEnd, scan>>
    BY DEF TimeExpires, machineVars, cardVars, outerVars
  <1>2. FlowInv' /\ OrderInv' /\ LabelInv' /\ (NoneConfirms' <=> NoneConfirms)
    BY <1>1, SameMachine, SameOrder, SameLabels DEF ScanInv, Others
  <1>3. SourcesInv'
    BY <1>1, <1>2 DEF ScanInv, Others, SourcesInv, Up
  <1>4. QED BY <1>2, <1>3 DEF Others

(* A trigger comes while label and front end of every card keep pace: the sources go off    *)
(* before a pause comes to the cards.                                               *)
LEMMA TriggerKeeps ==
  ASSUME ScanInv, Trigger
  PROVE  FlowInv' /\ Others'
  <1>1. /\ firing # {}
        /\ fifo' = [c \in Cards |-> IF c \in accepting THEN Append(fifo[c], frontEnd[c]) ELSE fifo[c]]
        /\ UNCHANGED <<state, events, jobs, job, acting, remaining, gone, firing, accepting, taking,
                       last, runParam, frontEnd, scan>>
    BY DEF Trigger, machineVars, outerVars
  <1>2. FlowInv' /\ OrderInv' /\ SourcesInv'
    BY <1>1, SameMachine, SameOrder, SameSources DEF ScanInv, Others
  <1>3. ScanTypeOK /\ OrderInv /\ SourcesInv /\ LabelInv
    BY DEF ScanInv, Others
  <1>4. \A c \in Cards : Paced(c)
    <2>1. CASE ~(acting /\ job = "Pause")
      BY <1>3, <2>1 DEF LabelInv
    <2>2. CASE acting /\ job = "Pause"
      <3>1. "PIController" \in remaining \/ "AMC13Manager" \in remaining
        BY <1>1, <1>3, <2>2 DEF SourcesInv, ScanTypeOK
      <3>2. "GLIBManager" \in remaining /\ gone = {}
        BY <1>3, <2>2, <3>1 DEF OrderInv, LeftToFall, Rising, Managers
      <3>3. QED BY <1>3, <2>2, <3>2 DEF LabelInv
    <2>3. QED BY <2>1, <2>2
  <1>5. \A c \in Cards : \A i \in DOMAIN fifo'[c] : fifo'[c][i] \in {Unset, runParam'[c]}
    <2>1. SUFFICES ASSUME NEW c \in Cards, NEW i \in DOMAIN fifo'[c]
                   PROVE  fifo'[c][i] \in {Unset, runParam[c]}
      BY <1>1
    <2>2. fifo[c] \in Seq(Registers \cup {Unset}) /\ frontEnd[c] \in Registers \cup {Unset}
      BY <1>3 DEF ScanTypeOK
    <2>3. fifo'[c] = Append(fifo[c], frontEnd[c]) \/ fifo'[c] = fifo[c]
      BY <1>1
    <2>4. /\ \A j \in DOMAIN fifo[c] : fifo[c][j] \in {Unset, runParam[c]}
          /\ frontEnd[c] \in {Unset, runParam[c]}
      BY <1>3, <1>4 DEF LabelInv, Paced
    <2>5. QED BY <2>1, <2>2, <2>3, <2>4
  <1>6. LabelInv'
    BY <1>1, <1>3, <1>5 DEF LabelInv, Paced, NextPoint
  <1>7. QED BY <1>2, <1>6 DEF Others

(* A card builds the event that came first.                                           *)
LEMMA BuildKeeps ==
  ASSUME ScanInv, NEW d \in Cards, Build(d)
  PROVE  FlowInv' /\ Others'
  <1>1. /\ fifo[d] # <<>> /\ fifo' = [fifo EXCEPT ![d] = Tail(fifo[d])]
        /\ UNCHANGED <<state, events, jobs, job, acting, remaining, gone, firing, accepting, taking,
                       last, runParam, frontEnd, scan>>
    BY DEF Build, machineVars, amc13Vars, outerVars
  <1>2. FlowInv' /\ OrderInv' /\ SourcesInv'
    BY <1>1, SameMachine, SameOrder, SameSources DEF ScanInv, Others
  <1>3. ScanTypeOK /\ LabelInv
    BY DEF ScanInv, Others
  <1>4. \A c \in Cards : \A i \in DOMAIN fifo'[c] : fifo'[c][i] \in {Unset, runParam'[c]}
    <2>1. SUFFICES ASSUME NEW c \in Cards, NEW i \in DOMAIN fifo'[c]
                   PROVE  fifo'[c][i] \in {Unset, runParam[c]}
      BY <1>1
    <2>2. fifo[c] \in Seq(Registers \cup {Unset})
      BY <1>3 DEF ScanTypeOK
    <2>3. fifo'[c] = IF c = d THEN Tail(fifo[c]) ELSE fifo[c]
      BY <1>1, <1>3 DEF ScanTypeOK
    <2>4. \A j \in DOMAIN fifo[c] : fifo[c][j] \in {Unset, runParam[c]}
      BY <1>3 DEF LabelInv
    <2>5. CASE c # d
      BY <2>1, <2>3, <2>4, <2>5
    <2>6. CASE c = d
      <3>1. /\ DOMAIN Tail(fifo[c]) = 1..(Len(fifo[c]) - 1)
            /\ \A j \in 1..(Len(fifo[c]) - 1) : Tail(fifo[c])[j] = fifo[c][j + 1]
            /\ DOMAIN fifo[c] = 1..Len(fifo[c]) /\ Len(fifo[c]) \in Nat
        BY <1>1, <2>2, <2>6, HeadTailProperties
      <3>2. i + 1 \in DOMAIN fifo[c] /\ fifo'[c][i] = fifo[c][i + 1]
        BY <2>1, <2>3, <2>6, <3>1
      <3>3. QED BY <2>4, <3>2
    <2>7. QED BY <2>5, <2>6
  <1>5. LabelInv'
    BY <1>1, <1>3, <1>4 DEF LabelInv, Paced, NextPoint
  <1>6. QED BY <1>2, <1>5 DEF Others

-----------------------------------------------------------------------------
(* The invariant holds at first.                                                        *)
LEMMA InitScanInv ==
  ScanInit => ScanInv
  <1> SUFFICES ASSUME ScanInit PROVE ScanInv
    OBVIOUS
  <1>1. scan \in Scans /\ scan.min \in Nat
    BY ScanFacts DEF ScanInit
  <1>2. ScanTypeOK
    <2>1. scan.min % RegisterSize \in Registers
      BY <1>1, PointFacts
    <2>2. /\ runParam \in [Cards -> Registers] /\ frontEnd \in [Cards -> Registers \cup {Unset}]
          /\ fifo \in [Cards -> Seq(Registers \cup {Unset})]
      BY <2>1 DEF ScanInit, GLIBConfigured, OptoHybridConfigured
    <2>3. "Configured" \in States
      BY DEF States, SteadyStates, ReadyStates
    <2>4. events \in Seq(Events) /\ jobs \in Seq(Commands)
      BY DEF ScanInit
    <2>5. 0 \in 0..(WordSize - 1) /\ 0 \in 0..MaxSeen
      BY <1>1, ScanFacts
    <2>6. DOMAIN last = {"GLIBManager", "OptoHybridManager"}
      BY DEF ScanInit
    <2>7. QED BY <1>1, <2>2, <2>3, <2>4, <2>5, <2>6 DEF ScanInit, ScanTypeOK
  <1>3. FlowInv
    BY MoveTable DEF ScanInit, FlowInv, AtRest, NoneConfirms, Moves
  <1>4. OrderInv /\ SourcesInv
    BY DEF ScanInit, OrderInv, SourcesInv
  <1>5. LabelInv
    BY DEF ScanInit, LabelInv, Paced, OptoHybridConfigured
  <1>6. QED BY <1>2, <1>3, <1>4, <1>5 DEF ScanInv, Others

(* Every step preserves the invariant.                                                  *)
LEMMA NextScanInv ==
  ASSUME ScanInv, [ScanNext]_scanVars
  PROVE  ScanInv'
  <1>1. ScanTypeOK'
    BY NextTypeOK DEF ScanInv, Others, LabelInv
  <1>2. FlowInv' /\ Others'
    <2> USE DEF machineVars, pointVars, amc13Vars, cardVars, outerVars
    <2>1. ASSUME NEW c \in Operator, OperatorCommand(c) PROVE FlowInv' /\ Others'
      <3>1. c \in Moves
        BY OperatorCommands DEF Moves
      <3>2. events' = Append(events, c)
        BY <2>1 DEF OperatorCommand
      <3>3. QED BY <2>1, <3>1, <3>2, QueueKeeps DEF OperatorCommand
    <2>2. CASE HandleEvent
      BY <2>2, HandleEventKeeps
    <2>3. CASE ErrorIsSeen
      <3>1. events' = Append(events, "Fail")
        BY <2>3 DEF ErrorIsSeen
      <3>2. QED BY <2>3, <3>1, QueueKeeps DEF ErrorIsSeen
    <2>4. CASE JobSteps
      <3>1. CASE BeginJob
        BY <3>1, BeginJobKeeps
      <3>2. CASE EnterAction
        BY <3>2, EnterActionKeeps
      <3>3. CASE LeaveAction
        BY <3>3, LeaveActionKeeps
      <3>4. CASE TCDSTurns
        BY <3>4, TCDSTurnsKeeps
      <3>5. CASE AMC13Starts \/ AMC13Pauses \/ AMC13Resumes \/ AMC13Stops
        BY <3>5, AMC13Keeps
      <3>6. ASSUME NEW c \in Cards, GLIBStarts(c) \/ GLIBPauses(c) \/ GLIBStops(c)
                                    \/ OptoHybridStarts(c) \/ OptoHybridPauses(c) \/ OptoHybridStops(c)
            PROVE  FlowInv' /\ Others'
        BY <3>6, GLIBStartsKeeps, GLIBPausesKeeps, OptoHybridStartsKeeps, OptoHybridPausesKeeps, StopsKeep
      <3>7. ASSUME NEW m \in {"GLIBManager", "OptoHybridManager"}, CardsResume(m)
            PROVE  FlowInv' /\ Others'
        BY <3>7, CardsResumeKeeps
      <3>8. QED BY <2>4, <3>1, <3>2, <3>3, <3>4, <3>5, <3>6, <3>7 DEF JobSteps
    <2>5. CASE EndScanPoint
      BY <2>5, QueueKeeps DEF EndScanPoint, Moves
    <2>6. CASE FirePause
      BY <2>6, QueueKeeps DEF FirePause, Moves
    <2>7. CASE FireResume
      BY <2>7, QueueKeeps DEF FireResume, Moves
    <2>8. CASE ReplySentTriggers
      BY <2>8, QueueKeeps DEF ReplySentTriggers
    <2>9. CASE TimeExpires
      BY <2>9, TimeExpiresKeeps
    <2>10. CASE Trigger
      BY <2>10, TriggerKeeps
    <2>11. ASSUME NEW c \in Cards, Build(c) PROVE FlowInv' /\ Others'
      BY <2>11, BuildKeeps
    <2>12. ASSUME NEW m \in {"GLIBManager", "OptoHybridManager"}, NEW c \in Cards, CardIsLost(m, c)
           PROVE  FlowInv' /\ Others'
      BY <2>12, CardIsLostKeeps
    <2>13. CASE UNCHANGED scanVars
      BY <2>13, QueueKeeps DEF scanVars
    <2>14. QED BY <2>1, <2>2, <2>3, <2>4, <2>5, <2>6, <2>7, <2>8, <2>9, <2>10, <2>11, <2>12, <2>13
               DEF ScanNext, MachineSteps, EndpointSteps
  <1>3. QED BY <1>1, <1>2 DEF ScanInv

(* The invariant holds in every reachable state.                                        *)
LEMMA ScanInvHolds ==
  ScanSpec => []ScanInv
  BY InitScanInv, NextScanInv, PTL DEF ScanSpec

(* Every variable of the scan keeps to its range: the points the supervisor computes fit    *)
(* its word, and what is written to a card fits a register.                             *)
THEOREM ScanTypeCorrect ==
  ScanSpec => []ScanTypeOK
  <1>1. ScanInv => ScanTypeOK
    BY DEF ScanInv
  <1>2. QED BY <1>1, ScanInvHolds, PTL

(* No trigger meets a front end that is not ready for it, for every number of cards and    *)
(* whatever the operator commands: the order of the managers is enough for it.              *)
THEOREM TriggersAlwaysFindFrontEnds ==
  ScanSpec => []TriggersFindFrontEnds
  <1>1. ScanInv => TriggersFindFrontEnds
    BY DEF ScanInv, Others, SourcesInv, Up, TriggersFindFrontEnds
  <1>2. QED BY <1>1, ScanInvHolds, PTL

(* Every event is labelled with the value its data were taken with, whichever cards are     *)
(* lost and whatever the operator commands.                                            *)
THEOREM LabelsAreAlwaysTrue ==
  ScanSpec => []LabelsAreTrue
  <1>1. ScanInv => LabelsAreTrue
    BY DEF ScanInv, Others, LabelInv, LabelsAreTrue
  <1>2. QED BY <1>1, ScanInvHolds, PTL

-----------------------------------------------------------------------------
(***************************************************************************)
(* The points of a scan that the operator has started and left alone: that      *)
(* supervisor, cards and VFATs agree on the point although each counts it by    *)
(* itself, and that no point is left before it is full.                        *)
(***************************************************************************)

(* The scan has no further point.                                              *)
Over == scanParameter + scan.step > scan.max

(* The value of a point in a register.                                         *)
Cut(n) == n % RegisterSize

(* Nothing has been set in motion yet.                                          *)
Idle == timing = FALSE /\ endpoint = "idle" /\ seen = 0

(* Every label is that of the first point.                                              *)
AtMinimum == \A c \in Cards : runParam[c] = Cut(scan.min)

(* The scan has not begun.                                                              *)
Fresh == Idle /\ AtMinimum /\ events \in {<<>>, <<"Start">>}

(* The scan has seen the end of its last point.                                         *)
Ended == Over /\ endpoint \in {"idle", "reached"}

(* Members, labels and front ends are at point n.  The VFATs are not set to the first   *)
(* point.                                                                     *)
AllAt(n) ==
  /\ last["GLIBManager"] = n /\ last["OptoHybridManager"] = n
  /\ \A c \in Cards : /\ runParam[c] = Cut(n)
                      /\ n = scan.min \/ frontEnd[c] = runParam[c]

(* A manager that failed stays where it is, and the action with it.                   *)
FailedInv ==
  /\ failed \subseteq remaining
  /\ Happens("Fail") => failed # {}

(* EndScanPoint carries the next point from the end of one to the start of the other.    *)
PendingInv ==
  /\ scanParameter + scan.step < WordSize
  /\ endpoint \in {"pausing", "resuming"} => updated = scanParameter + scan.step /\ ~Over

(* Each command is queued in the one situation in which it is meant.                  *)
EventsInv ==
  /\ Happens("Start")  => state = "Configured"
  /\ Happens("Stop")   => Ended /\ (state = "Starting" => acting \/ ~NoneConfirms)
  /\ Happens("Pause")  => state = "Running" /\ endpoint = "resuming" /\ events = <<"Pause">>
  /\ Happens("Resume") => state = "Paused" /\ endpoint = "returning" /\ events = <<"Resume">>

(* What the state of the machine says of the point.                                 *)
StateInv ==
  /\ state = "Configured" => Fresh \/ (Ended /\ ~Happens("Start"))
  /\ state = "Starting" =>
       IF acting THEN /\ scanParameter = scan.min /\ AtMinimum
                      /\ endpoint \in {"idle", "reached", "pausing"}
       ELSE IF NoneConfirms THEN Fresh
       ELSE AllAt(scanParameter) /\ endpoint \in {"idle", "reached", "pausing"}
  /\ state = "Running" => /\ AllAt(scanParameter)
                          /\ endpoint = "resuming" => events = <<"Pause">>
  /\ state = "Pausing" =>
       /\ endpoint = "resuming"
       /\ ~acting => AllAt(IF NoneConfirms THEN scanParameter ELSE scanParameter + scan.step)
       /\ acting =>
            /\ last["OptoHybridManager"] = IF "OptoHybridManager" \in remaining THEN scanParameter
                                           ELSE scanParameter + scan.step
            /\ \A c \in Cards : "GLIBManager" \in remaining /\ c \notin gone =>
                                  runParam[c] = Cut(scanParameter)
            /\ "OptoHybridManager" \notin remaining => AllAt(scanParameter + scan.step)
  /\ state = "Paused" =>
       IF endpoint = "resuming" THEN AllAt(scanParameter + scan.step)
       ELSE endpoint = "returning" /\ AllAt(scanParameter) /\ events = <<"Resume">>
  /\ state = "Resuming" => endpoint = "returning" /\ AllAt(scanParameter)
  /\ state = "Stopping" => Ended

(* What the action the job is in says of it, whatever the machine has come to.           *)
ActingInv ==
  acting =>
    /\ job = "Start" /\ "AMC13Manager" \in remaining => Idle /\ firing = {}
    /\ job = "Pause" => /\ endpoint = "resuming"
                        /\ "AMC13Manager" \notin remaining => seen = 0
    /\ job = "Stop" => Ended

(* A card has taken as many events as there were triggers, or has built the point's.       *)
Counted(c) == made[c] >= NTriggers \/ made[c] + Len(fifo[c]) >= seen

(* The card has taken, or its FIFO holds, the events of the point.                      *)
Full(c) == made[c] >= NTriggers \/ made[c] + Len(fifo[c]) >= NTriggers

(* The end of a point is seen when it is full, and it stays so until the label changes.     *)
CountInv ==
  /\ made \in [Cards -> Nat]
  /\ ~Over => \A c \in Cards : Counted(c)
  /\ (\/ endpoint = "reached" /\ ~Over
      \/ endpoint = "pausing"
      \/ endpoint = "resuming" /\ state = "Running"
      \/ endpoint = "resuming" /\ state = "Pausing" /\ ~acting /\ NoneConfirms)
     => \A c \in Cards : Full(c)
  /\ acting /\ job = "Pause" /\ "GLIBManager" \in remaining =>
       \A c \in Cards \ gone : Full(c)

(* The course of a scan that is left alone.                                             *)
Course == PendingInv /\ EventsInv /\ StateInv /\ ActingInv /\ CountInv

(* Until the operator steps in.                                                      *)
CourseInv ==
  /\ FailedInv
  /\ commands \in Nat
  /\ commands = 0 => state = "Configured" /\ Idle /\ AtMinimum /\ events = <<>>
  /\ commands <= 1 => Course

-----------------------------------------------------------------------------
(* What a step leaves alone it leaves true.                                          *)
LEMMA SamePending ==
  ASSUME PendingInv, UNCHANGED <<scan, scanParameter, updated, endpoint>>
  PROVE  PendingInv'
  BY DEF PendingInv, Over

(* The same for what it says of the queue. *)
LEMMA SameEvents ==
  ASSUME EventsInv, UNCHANGED <<scan, scanParameter, events, state, endpoint, acting>>
  PROVE  EventsInv'
  BY DEF EventsInv, Ended, Over, Happens, NoneConfirms

(* The same for what it says of the action. *)
LEMMA SameActing ==
  ASSUME ActingInv, UNCHANGED <<scan, scanParameter, acting, job, remaining, timing, endpoint, seen, firing>>
  PROVE  ActingInv'
  BY DEF ActingInv, Idle, Ended, Over

(* The same for what it says of the counts. *)
LEMMA SameCount ==
  ASSUME CountInv, UNCHANGED <<scan, scanParameter, acting, job, remaining, gone, made, fifo, seen, endpoint,
                               events, state>>
  PROVE  CountInv'
  BY DEF CountInv, Counted, Full, Over, NoneConfirms

(* The same for what it says of the machine and the points. *)
LEMMA SameState ==
  ASSUME StateInv, UNCHANGED <<scan, scanParameter, state, events, timing, endpoint, seen, runParam, acting,
                               remaining, gone, last, frontEnd>>
  PROVE  StateInv'
  BY DEF StateInv, Fresh, Idle, AtMinimum, Ended, Over, AllAt, Happens, NoneConfirms, Cut

(* While no job acts nothing has failed, and the queue of a machine at rest holds only     *)
(* commands.                                                                    *)
LEMMA RestFacts ==
  ASSUME ScanInv, FailedInv, ~acting
  PROVE  /\ failed = {} /\ ~Happens("Fail")
         /\ NoneConfirms /\ (\A c \in Moves : ~Happens(c)) => events = <<>>
  <1>1. failed = {} /\ ~Happens("Fail")
    BY DEF ScanInv, Others, OrderInv, FailedInv
  <1>2. ASSUME NoneConfirms, \A c \in Moves : ~Happens(c), events # <<>> PROVE FALSE
    <2>1. 1 \in DOMAIN events
      BY <1>2 DEF ScanInv, ScanTypeOK
    <2>2. QED BY <1>1, <1>2, <2>1 DEF ScanInv, FlowInv, NoneConfirms, Happens
  <1>3. QED BY <1>1, <1>2

(* Members of a queue.                                                           *)
LEMMA AppendHappens ==
  ASSUME ScanTypeOK, NEW e \in Events, events' = Append(events, e)
  PROVE  \A x : Happens(x)' <=> Happens(x) \/ x = e
  <1>1. /\ \A i \in DOMAIN events' : i \in DOMAIN events \/ i = Len(events) + 1
        /\ \A i \in DOMAIN events : i \in DOMAIN events' /\ events'[i] = events[i]
        /\ Len(events) + 1 \in DOMAIN events' /\ events'[Len(events) + 1] = e
    BY AppendFacts
  <1>2. QED BY <1>1 DEF Happens

(* What happens in the rest of a queue happens in the queue.                            *)
LEMMA TailHappens ==
  ASSUME ScanTypeOK, events # <<>>, events' = Tail(events)
  PROVE  /\ Happens(Head(events)) /\ \A x : Happens(x)' => Happens(x)
         /\ \A x : events = <<x>> => ~Happens(x)'
  <1>1. /\ Len(events) \in Nat \ {0} /\ DOMAIN events = 1..Len(events) /\ Head(events) = events[1]
        /\ DOMAIN events' = 1..(Len(events) - 1)
        /\ \A i \in 1..(Len(events) - 1) : events'[i] = events[i + 1]
    BY TailFacts
  <1>2. Happens(Head(events))
    BY <1>1 DEF Happens
  <1>3. ASSUME NEW x, Happens(x)' PROVE Happens(x) /\ events # <<x>>
    <2>1. PICK i \in DOMAIN events' : events'[i] = x
      BY <1>3 DEF Happens
    <2>2. i + 1 \in DOMAIN events /\ events[i + 1] = x /\ Len(events) >= 2
      BY <1>1, <2>1
    <2>3. QED BY <2>2 DEF Happens
  <1>4. QED BY <1>2, <1>3

(* In a queue of one event that event happens and no other.                             *)
LEMMA OneHappens ==
  ASSUME NEW x, events = <<x>> \/ events = <<>>
  PROVE  \A y : Happens(y) => y = x
  BY DEF Happens

-----------------------------------------------------------------------------
(* The machine takes the event that is meant for its state, or fails.                   *)
LEMMA HandleEventCourse ==
  ASSUME ScanInv, FailedInv, Course, HandleEvent
  PROVE  FailedInv' /\ Course'
  <1>1. /\ events # <<>> /\ events' = Tail(events)
        /\ UNCHANGED <<job, acting, remaining, gone, failed, endpoint, updated, scanParameter,
                       timing, seen, firing, last, runParam, frontEnd, fifo, made, scan>>
    BY DEF HandleEvent, pointVars, amc13Vars, cardVars, outerVars
  <1>2. \/ state' = "Error"
        \/ /\ state \in {"Configured", "Running", "Paused"} /\ NoneConfirms'
           /\ \E c \in Moves : state \in Sources[c] /\ state' = Via[c] /\ Head(events) = c
        \/ \E c \in Moves : /\ state = Via[c] /\ state' = Settled[Via[c]]
                            /\ ~acting /\ ~NoneConfirms /\ NoneConfirms'
    BY HandleEventFlow DEF ScanInv
  <1>3. /\ Happens(Head(events)) /\ \A x : Happens(x)' => Happens(x)
        /\ \A x : events = <<x>> => ~Happens(x)'
    BY <1>1, TailHappens DEF ScanInv
  <1>4. state \in {"Configured", "Running", "Paused"} => ~acting /\ NoneConfirms
    BY DEF ScanInv, FlowInv, AtRest
  <1>5. FailedInv' /\ PendingInv' /\ ActingInv'
    <2>1. FailedInv'
      BY <1>1, <1>3 DEF FailedInv
    <2>2. QED BY <1>1, <2>1, SamePending, SameActing DEF Course
  <1>6. Over' = Over /\ Ended' = Ended /\ Idle' = Idle /\ AtMinimum' = AtMinimum
        /\ AllAt(scanParameter)' = AllAt(scanParameter)
        /\ AllAt(scanParameter + scan.step)' = AllAt(scanParameter + scan.step)
    BY <1>1 DEF Over, Ended, Idle, AtMinimum, AllAt, Cut
  <1>7. ~Happens("Start")' /\ ~Happens("Pause")' /\ ~Happens("Resume")'
    <2>1. Happens("Start") => events = <<"Start">>
      <3>1. ASSUME Happens("Start") PROVE Fresh
        BY <3>1 DEF Course, EventsInv, StateInv
      <3>2. QED BY <1>1, <3>1 DEF Fresh
    <2>2. QED BY <1>3, <2>1 DEF Course, EventsInv
  <1>8. Happens("Stop")' => Ended'
    BY <1>3, <1>6 DEF Course, EventsInv
  <1>9. EventsInv /\ StateInv /\ CountInv /\ PendingInv
    BY DEF Course
  <1>10. CASE state' = "Error"
    <2>1. EventsInv' /\ StateInv'
      BY <1>7, <1>8, <1>10 DEF EventsInv, StateInv
    <2>2. CountInv'
      BY <1>1, <1>9, <1>10 DEF CountInv, Counted, Full, Over
    <2>3. QED BY <1>5, <2>1, <2>2 DEF Course
  <1>11. ASSUME state \in {"Configured", "Running", "Paused"}, NoneConfirms',
                NEW c \in Moves, state \in Sources[c], state' = Via[c], Head(events) = c
         PROVE  FailedInv' /\ Course'
    <2>1. ~acting /\ ~acting' /\ Happens(c)
      BY <1>1, <1>3, <1>4, <1>11
    <2>2. CASE c = "Start"
      <3>1. state = "Configured" /\ state' = "Starting" /\ Fresh
        BY <1>9, <1>11, <2>1, <2>2, MoveTable DEF EventsInv, StateInv
      <3>2. events = <<"Start">> /\ events' = <<>>
        BY <1>1, <3>1 DEF Fresh
      <3>3. Fresh' /\ ~Happens("Stop")'
        BY <1>6, <3>1, <3>2 DEF Fresh, Happens
      <3>4. EventsInv' /\ StateInv'
        BY <1>7, <1>11, <2>1, <3>1, <3>3 DEF EventsInv, StateInv
      <3>5. CountInv'
        BY <1>1, <1>9, <2>1, <3>1 DEF CountInv, Counted, Full, Over, Fresh, Idle
      <3>6. QED BY <1>5, <3>4, <3>5 DEF Course
    <2>3. CASE c = "Pause"
      <3>1. state = "Running" /\ state' = "Pausing" /\ endpoint = "resuming" /\ AllAt(scanParameter)
        BY <1>9, <1>11, <2>1, <2>3, MoveTable DEF EventsInv, StateInv
      <3>2. EventsInv' /\ StateInv'
        BY <1>1, <1>6, <1>7, <1>8, <1>11, <2>1, <3>1 DEF EventsInv, StateInv
      <3>3. CountInv'
        BY <1>1, <1>9, <2>1, <3>1 DEF CountInv, Counted, Full, Over
      <3>4. QED BY <1>5, <3>2, <3>3 DEF Course
    <2>4. CASE c = "Resume"
      <3>1. state = "Paused" /\ state' = "Resuming" /\ endpoint = "returning" /\ AllAt(scanParameter)
        BY <1>9, <1>11, <2>1, <2>4, MoveTable DEF EventsInv, StateInv
      <3>2. EventsInv' /\ StateInv'
        BY <1>1, <1>6, <1>7, <1>8, <1>11, <2>1, <3>1 DEF EventsInv, StateInv
      <3>3. CountInv'
        BY <1>1, <1>9, <2>1, <3>1 DEF CountInv, Counted, Full, Over
      <3>4. QED BY <1>5, <3>2, <3>3 DEF Course
    <2>5. CASE c = "Stop"
      <3>1. state' = "Stopping" /\ Ended
        BY <1>9, <1>11, <2>1, <2>5, MoveTable DEF EventsInv
      <3>2. EventsInv' /\ StateInv'
        BY <1>6, <1>7, <1>8, <3>1 DEF EventsInv, StateInv
      <3>3. CountInv'
        BY <1>1, <1>9, <2>1, <3>1 DEF CountInv, Counted, Full, Over, Ended
      <3>4. QED BY <1>5, <3>2, <3>3 DEF Course
    <2>6. QED BY <2>2, <2>3, <2>4, <2>5 DEF Moves
  <1>12. ASSUME NEW c \in Moves, state = Via[c], state' = Settled[Via[c]], ~acting, ~NoneConfirms, NoneConfirms'
         PROVE  FailedInv' /\ Course'
    <2>1. CountInv'
      BY <1>1, <1>9, <1>12, MoveTable DEF CountInv, Counted, Full, Over, Moves, StateInv
    <2>2. EventsInv' /\ StateInv'
      <3>1. CASE c = "Start"
        BY <1>1, <1>6, <1>7, <1>8, <1>9, <1>12, <3>1, MoveTable DEF EventsInv, StateInv
      <3>2. CASE c = "Pause"
        BY <1>1, <1>6, <1>7, <1>8, <1>9, <1>12, <3>2, MoveTable DEF EventsInv, StateInv
      <3>3. CASE c = "Resume"
        BY <1>1, <1>6, <1>7, <1>8, <1>9, <1>12, <3>3, MoveTable DEF EventsInv, StateInv
      <3>4. CASE c = "Stop"
        BY <1>1, <1>6, <1>7, <1>8, <1>9, <1>12, <3>4, MoveTable DEF EventsInv, StateInv
      <3>5. QED BY <3>1, <3>2, <3>3, <3>4 DEF Moves
    <2>3. QED BY <1>5, <2>1, <2>2 DEF Course
  <1>13. QED BY <1>2, <1>10, <1>11, <1>12

(* The workloop takes its job.                                                     *)
LEMMA BeginJobCourse ==
  ASSUME ScanInv, FailedInv, Course, BeginJob
  PROVE  FailedInv' /\ Course'
  <1>1. /\ UNCHANGED <<state, events, acting, remaining, gone, failed, endpoint, updated, scanParameter,
                       timing, seen, firing, last, runParam, frontEnd, fifo, made, scan>>
        /\ job = None
    BY DEF BeginJob, pointVars, amc13Vars, cardVars, outerVars
  <1>2. ~acting
    BY <1>1, MoveTable DEF ScanInv, Others, OrderInv, Moves
  <1>3. FailedInv'
    BY <1>1 DEF FailedInv, Happens
  <1>4. PendingInv' /\ EventsInv' /\ StateInv'
    BY <1>1, SamePending, SameEvents, SameState DEF Course
  <1>5. ActingInv' /\ CountInv'
    BY <1>1, <1>2 DEF Course, ActingInv, CountInv, Counted, Full, Over, NoneConfirms
  <1>6. QED BY <1>3, <1>4, <1>5 DEF Course

(* The job takes the managers along, from the point the supervisor is at.                *)
LEMMA EnterActionCourse ==
  ASSUME ScanInv, FailedInv, Course, EnterAction
  PROVE  FailedInv' /\ Course'
  <1>1. /\ UNCHANGED <<state, events, job, gone, failed, endpoint, updated,
                       timing, seen, firing, last, runParam, frontEnd, fifo, made, scan>>
        /\ ~acting /\ acting' = TRUE /\ remaining' = Managers /\ failed = {}
        /\ scanParameter' = IF job = "Start" THEN scan.min ELSE scanParameter
    BY DEF EnterAction, amc13Vars, cardVars, outerVars
  <1>2. state = Via[job] /\ job \in Moves /\ NoneConfirms /\ NoneConfirms' = NoneConfirms /\ gone = {}
    BY <1>1, EnterActionFlow DEF ScanInv, Others, OrderInv, NoneConfirms
  <1>3. /\ scan.min \in Nat /\ scan.step \in Nat /\ scan.min + scan.step < WordSize
        /\ scanParameter \in Nat /\ scan.max \in Nat /\ seen \in Nat
        /\ fifo \in [Cards -> Seq(Registers \cup {Unset})] /\ made \in [Cards -> Nat]
    BY ScanFacts DEF ScanInv, ScanTypeOK, Course, CountInv
  <1>4. /\ FailedInv' /\ EventsInv /\ StateInv /\ CountInv /\ PendingInv
        /\ \A x : Happens(x)' <=> Happens(x)
    BY <1>1 DEF FailedInv, Happens, Course
  <1>5. {"PIController", "AMC13Manager", "GLIBManager", "OptoHybridManager"} \subseteq remaining'
    BY <1>1 DEF Managers
  <1>6. CASE job = "Start"
    <2>1. state = "Starting" /\ Fresh /\ scanParameter' = scan.min
      BY <1>1, <1>2, <1>4, <1>6, MoveTable DEF StateInv
    <2>2. \A x : ~Happens(x)'
      <3>1. events = <<>>
        BY <1>4, <2>1 DEF EventsInv, Fresh, Happens
      <3>2. QED BY <1>1, <3>1 DEF Happens
    <2>3. PendingInv'
      BY <1>1, <1>3, <2>1 DEF PendingInv, Fresh, Idle
    <2>4. EventsInv' /\ StateInv'
      BY <1>1, <2>1, <2>2 DEF EventsInv, StateInv, Fresh, Idle, AtMinimum, Cut
    <2>5. ActingInv'
      <3>1. firing = {}
        BY <1>1, <1>2, <2>1 DEF ScanInv, Others, SourcesInv
      <3>2. QED BY <1>1, <1>6, <2>1, <3>1 DEF ActingInv, Fresh, Idle
    <2>6. CountInv'
      <3>1. ASSUME NEW c \in Cards PROVE made[c] + Len(fifo[c]) \in Nat
        BY <1>3
      <3>2. QED BY <1>1, <1>3, <1>4, <1>6, <2>1, <3>1 DEF CountInv, Counted, Fresh, Idle
    <2>7. QED BY <1>4, <2>3, <2>4, <2>5, <2>6 DEF Course
  <1>7. CASE job # "Start"
    <2>1. scanParameter' = scanParameter /\ Over' = Over /\ Ended' = Ended
          /\ AllAt(scanParameter)' = AllAt(scanParameter)
      BY <1>1, <1>7 DEF Over, Ended, AllAt, Cut
    <2>2. PendingInv' /\ EventsInv'
      <3>1. PendingInv'
        BY <1>1, <1>4, <2>1, SamePending
      <3>2. EventsInv'
        BY <1>1, <1>4, <2>1 DEF EventsInv
      <3>3. QED BY <3>1, <3>2
    <2>3. CASE job = "Pause"
      <3>1. state = "Pausing" /\ endpoint = "resuming" /\ AllAt(scanParameter)
        BY <1>1, <1>2, <1>4, <2>3, MoveTable DEF StateInv
      <3>2. StateInv'
        BY <1>1, <1>2, <1>5, <2>1, <3>1 DEF StateInv, AllAt, Cut
      <3>3. ActingInv'
        BY <1>1, <1>5, <2>3, <3>1 DEF ActingInv
      <3>4. CountInv'
        BY <1>1, <1>2, <1>4, <2>1, <3>1 DEF CountInv, Counted, Full
      <3>5. QED BY <1>4, <2>2, <3>2, <3>3, <3>4 DEF Course
    <2>4. CASE job = "Resume"
      <3>1. state = "Resuming" /\ endpoint = "returning" /\ AllAt(scanParameter)
        BY <1>1, <1>2, <1>4, <2>4, MoveTable DEF StateInv
      <3>2. StateInv' /\ ActingInv'
        BY <1>1, <2>1, <2>4, <3>1 DEF StateInv, ActingInv
      <3>3. CountInv'
        BY <1>1, <1>4, <2>1, <2>4, <3>1 DEF CountInv, Counted, Full
      <3>4. QED BY <1>4, <2>2, <3>2, <3>3 DEF Course
    <2>5. CASE job = "Stop"
      <3>1. state = "Stopping" /\ Ended
        BY <1>1, <1>2, <1>4, <2>5, MoveTable DEF StateInv
      <3>2. StateInv' /\ ActingInv'
        BY <1>1, <2>1, <2>5, <3>1 DEF StateInv, ActingInv
      <3>3. CountInv'
        BY <1>1, <1>4, <2>1, <2>5, <3>1 DEF CountInv, Counted, Full, Ended
      <3>4. QED BY <1>4, <2>2, <3>2, <3>3 DEF Course
    <2>6. QED BY <1>2, <1>7, <2>3, <2>4, <2>5 DEF Moves
  <1>8. QED BY <1>6, <1>7

(* The managers are through: all are at the point the action leads to.                    *)
LEMMA LeaveActionCourse ==
  ASSUME ScanInv, FailedInv, Course, LeaveAction
  PROVE  FailedInv' /\ Course'
  <1>1. /\ UNCHANGED <<state, remaining, gone, failed, endpoint, updated, scanParameter,
                       timing, seen, firing, last, runParam, frontEnd, fifo, made, scan>>
        /\ acting /\ ~acting' /\ remaining = {} /\ events' = Append(events, Confirmation[Via[job]])
    BY DEF LeaveAction, pointVars, amc13Vars, cardVars, outerVars
  <1>2. job \in Moves /\ ((state = Via[job] /\ ~NoneConfirms') \/ state = "Error")
    BY LeaveActionFlow DEF ScanInv, Others
  <1>3. /\ Confirmation[Via[job]] \in Events
        /\ Confirmation[Via[job]] \notin Moves \cup {"Fail"}
    BY <1>2, MoveTable DEF Moves, Events, Confirmations
  <1>4. \A x \in Moves \cup {"Fail"} : Happens(x)' <=> Happens(x)
    BY <1>1, <1>3, AppendHappens DEF ScanInv
  <1>5. EventsInv /\ StateInv /\ CountInv /\ PendingInv /\ LabelInv
    BY DEF Course, ScanInv, Others
  <1>6. state \notin {"Configured", "Running", "Paused"}
    BY <1>1 DEF ScanInv, FlowInv, AtRest
  <1>7. FailedInv' /\ PendingInv' /\ ActingInv'
    <2>1. FailedInv'
      BY <1>1, <1>4 DEF FailedInv
    <2>2. PendingInv' /\ ActingInv'
      BY <1>1, <1>5, SamePending DEF ActingInv
    <2>3. QED BY <2>1, <2>2
  <1>8. Over' = Over /\ Ended' = Ended /\ AllAt(scanParameter)' = AllAt(scanParameter)
        /\ AllAt(scanParameter + scan.step)' = AllAt(scanParameter + scan.step)
    BY <1>1 DEF Over, Ended, AllAt, Cut
  <1>9. EventsInv'
    <2>1. "Start" \in Moves /\ "Stop" \in Moves /\ "Pause" \in Moves /\ "Resume" \in Moves
      BY DEF Moves
    <2>2. state = "Starting" => ~NoneConfirms'
      BY <1>2
    <2>3. QED BY <1>1, <1>4, <1>5, <1>6, <1>8, <2>1, <2>2 DEF EventsInv
  <1>10. StateInv'
    <2>1. CASE state = "Error"
      BY <1>1, <2>1 DEF StateInv
    <2>2. CASE job = "Start" /\ state = Via[job] /\ ~NoneConfirms'
      <3>1. state = "Starting" /\ scanParameter = scan.min /\ AtMinimum /\ endpoint \in {"idle", "reached", "pausing"}
        BY <1>1, <1>5, <2>2, MoveTable DEF StateInv
      <3>2. AllAt(scanParameter)
        BY <1>1, <1>5, <2>2, <3>1 DEF LabelInv, AllAt, AtMinimum
      <3>3. QED BY <1>1, <1>8, <2>2, <3>1, <3>2 DEF StateInv
    <2>3. CASE job = "Pause" /\ state = Via[job] /\ ~NoneConfirms'
      <3>1. state = "Pausing" /\ endpoint = "resuming" /\ AllAt(scanParameter + scan.step)
        BY <1>1, <1>5, <2>3, MoveTable DEF StateInv
      <3>2. QED BY <1>1, <1>8, <2>3, <3>1 DEF StateInv
    <2>4. CASE job = "Resume" /\ state = Via[job]
      BY <1>1, <1>5, <1>8, <2>4, MoveTable DEF StateInv
    <2>5. CASE job = "Stop" /\ state = Via[job]
      BY <1>1, <1>5, <1>8, <2>5, MoveTable DEF StateInv
    <2>6. QED BY <1>2, <2>1, <2>2, <2>3, <2>4, <2>5 DEF Moves
  <1>11. CountInv'
    <2>1. state = "Pausing" => ~NoneConfirms'
      BY <1>2
    <2>2. QED BY <1>1, <1>5, <1>6, <1>8, <2>1 DEF CountInv, Counted, Full
  <1>12. QED BY <1>7, <1>9, <1>10, <1>11 DEF Course

-----------------------------------------------------------------------------
(* The first command can only be the Start.                                            *)
LEMMA OperatorCourse ==
  ASSUME ScanInv, FailedInv, Course, NEW c \in Operator, OperatorCommand(c),
         commands = 0, state = "Configured", Idle, AtMinimum, events = <<>>
  PROVE  FailedInv' /\ Course'
  <1>1. /\ UNCHANGED <<state, acting, job, remaining, gone, failed, endpoint, updated, scanParameter,
                       timing, seen, firing, last, runParam, frontEnd, fifo, made, scan>>
        /\ events' = <<c>> /\ state \in Sources[c] \cap (IF c = "Stop" THEN {"Running", "Paused"} ELSE States)
    BY DEF OperatorCommand, pointVars, amc13Vars, cardVars
  <1>2. c = "Start"
    BY <1>1, MoveTable, OperatorCommands
  <1>3. ~acting
    BY DEF ScanInv, FlowInv, AtRest
  <1>4. \A x : Happens(x)' => x = "Start"
    BY <1>1, <1>2 DEF Happens
  <1>5. FailedInv' /\ PendingInv' /\ ActingInv'
    BY <1>1, <1>4, SamePending, SameActing DEF FailedInv, Course
  <1>6. EventsInv' /\ StateInv'
    BY <1>1, <1>2, <1>3, <1>4 DEF EventsInv, StateInv, Fresh, Idle, AtMinimum, Cut
  <1>7. CountInv'
    BY <1>1, <1>3 DEF Course, CountInv, Counted, Full, Over
  <1>8. QED BY <1>5, <1>6, <1>7 DEF Course

(* A manager that fails is seen while its action holds on.                               *)
LEMMA ErrorIsSeenCourse ==
  ASSUME ScanInv, FailedInv, Course, ErrorIsSeen
  PROVE  FailedInv' /\ Course'
  <1>1. /\ UNCHANGED <<state, job, acting, remaining, gone, failed, endpoint, updated, scanParameter,
                       timing, seen, firing, last, runParam, frontEnd, fifo, made, scan>>
        /\ failed # {} /\ events' = <<"Fail">>
    BY DEF ErrorIsSeen, pointVars, amc13Vars, cardVars, outerVars
  <1>2. acting
    BY <1>1, RestFacts
  <1>3. state \notin {"Configured", "Running", "Paused"}
    BY <1>2 DEF ScanInv, FlowInv, AtRest
  <1>4. \A x : Happens(x)' => x = "Fail"
    BY <1>1 DEF Happens
  <1>5. FailedInv' /\ PendingInv' /\ ActingInv'
    BY <1>1, SamePending, SameActing DEF FailedInv, Course
  <1>6. EventsInv' /\ StateInv'
    BY <1>1, <1>2, <1>3, <1>4 DEF Course, EventsInv, StateInv, AllAt, AtMinimum, Cut, Ended, Over
  <1>7. CountInv'
    BY <1>1, <1>2, <1>3 DEF Course, CountInv, Counted, Full, Over
  <1>8. QED BY <1>5, <1>6, <1>7 DEF Course

-----------------------------------------------------------------------------
(* The timer sees the end of a point that is full.                                    *)
LEMMA TimeExpiresCourse ==
  ASSUME ScanInv, FailedInv, Course, TimeExpires
  PROVE  FailedInv' /\ Course'
  <1>1. /\ UNCHANGED <<state, events, job, acting, remaining, gone, failed, updated, scanParameter,
                       timing, seen, last, runParam, frontEnd, fifo, made, scan>>
        /\ timing /\ endpoint = "idle" /\ endpoint' = "reached" /\ seen >= NTriggers
        /\ firing' \subseteq firing
    BY DEF TimeExpires, machineVars, cardVars, outerVars
  <1>2. EventsInv /\ StateInv /\ CountInv /\ PendingInv /\ ActingInv
    BY DEF Course
  <1>3. /\ Over' = Over /\ (Ended => Ended') /\ AllAt(scanParameter)' = AllAt(scanParameter)
        /\ AtMinimum' = AtMinimum /\ NoneConfirms' = NoneConfirms /\ ~Fresh /\ ~Idle
        /\ \A x : Happens(x)' <=> Happens(x)
    BY <1>1 DEF Over, Ended, AllAt, AtMinimum, Cut, NoneConfirms, Fresh, Idle, Happens
  <1>4. FailedInv' /\ PendingInv'
    BY <1>1, <1>2 DEF FailedInv, PendingInv, Over, Happens
  <1>5. EventsInv'
    BY <1>1, <1>2, <1>3 DEF EventsInv
  <1>6. StateInv'
    BY <1>1, <1>2, <1>3 DEF StateInv
  <1>7. ActingInv'
    BY <1>1, <1>2, <1>3 DEF ActingInv
  <1>8. CountInv'
    <2>1. ASSUME NEW c \in Cards, Counted(c) PROVE Full(c)
      <3>1. /\ fifo[c] \in Seq(Registers \cup {Unset}) /\ made[c] \in Nat /\ seen \in Nat /\ NTriggers \in Nat
        BY <1>2, ScanFacts DEF ScanInv, ScanTypeOK, CountInv
      <3>2. Len(fifo[c]) \in Nat
        BY <3>1
      <3>3. QED BY <1>1, <2>1, <3>1, <3>2 DEF Counted, Full
    <2>2. \A c \in Cards : (Counted(c)' <=> Counted(c)) /\ (Full(c)' <=> Full(c))
      BY <1>1 DEF Counted, Full
    <2>3. QED BY <1>1, <1>2, <1>3, <2>1, <2>2 DEF CountInv
  <1>9. QED BY <1>4, <1>5, <1>6, <1>7, <1>8 DEF Course

(* EndScanPoint goes on to the next point, or has the scan stopped after the last.         *)
LEMMA EndScanPointCourse ==
  ASSUME ScanInv, FailedInv, Course, EndScanPoint
  PROVE  FailedInv' /\ Course'
  <1>1. /\ UNCHANGED <<state, job, acting, remaining, gone, failed, scanParameter,
                       timing, seen, firing, last, runParam, frontEnd, fifo, made, scan>>
        /\ endpoint = "reached" /\ updated' = (scanParameter + scan.step) % WordSize
        /\ \/ updated' <= scan.max /\ endpoint' = "pausing" /\ events' = events
           \/ ~(updated' <= scan.max) /\ endpoint' = "idle" /\ events' = Append(events, "Stop")
    BY DEF EndScanPoint, amc13Vars, cardVars, outerVars
  <1>2. EventsInv /\ StateInv /\ CountInv /\ PendingInv /\ ActingInv
    BY DEF Course
  <1>3. /\ Over' = Over /\ AllAt(scanParameter)' = AllAt(scanParameter)
        /\ AtMinimum' = AtMinimum /\ ~Fresh /\ ~Idle
    BY <1>1 DEF Over, AllAt, AtMinimum, Cut, Fresh, Idle
  <1>4. updated' = scanParameter + scan.step /\ (updated' <= scan.max <=> ~Over)
    <2>1. /\ scanParameter \in Nat /\ scan.step \in Nat /\ scan.max \in Nat /\ WordSize \in Nat
          /\ scanParameter + scan.step < WordSize
      BY <1>2, ScanFacts DEF ScanInv, ScanTypeOK, PendingInv
    <2>2. ASSUME NEW n \in Nat, NEW w \in Nat, n < w PROVE n % w = n
      BY <2>2
    <2>3. updated' = scanParameter + scan.step
      BY <1>1, <2>1, <2>2
    <2>4. QED BY <2>1, <2>3 DEF Over
  <1>5. NoneConfirms' <=> NoneConfirms
    <2>1. "Stop" \in Moves
      BY DEF Moves
    <2>2. QED BY <1>1, <2>1, CommandIsQueued, SameMachine DEF EndScanPoint, ScanInv
  <1>6. CASE endpoint' = "pausing" /\ events' = events /\ ~Over
    <2>1. ~Ended /\ \A x : Happens(x)' <=> Happens(x)
      BY <1>6 DEF Ended, Happens
    <2>2. FailedInv' /\ PendingInv'
      BY <1>1, <1>2, <1>3, <1>4, <1>6, <2>1 DEF FailedInv, PendingInv
    <2>3. EventsInv'
      BY <1>1, <1>2, <1>3, <1>5, <1>6, <2>1 DEF EventsInv
    <2>4. StateInv'
      BY <1>1, <1>2, <1>3, <1>5, <1>6, <2>1 DEF StateInv
    <2>5. ActingInv'
      BY <1>1, <1>2, <1>3, <1>6, <2>1 DEF ActingInv
    <2>6. CountInv'
      BY <1>1, <1>2, <1>3, <1>5, <1>6 DEF CountInv, Counted, Full
    <2>7. QED BY <2>2, <2>3, <2>4, <2>5, <2>6 DEF Course
  <1>7. CASE endpoint' = "idle" /\ events' = Append(events, "Stop") /\ Over
    <2>1. Ended /\ Ended'
      BY <1>1, <1>3, <1>7 DEF Ended
    <2>2. \A x : Happens(x)' <=> Happens(x) \/ x = "Stop"
      <3>1. "Stop" \in Events
        BY MoveTable DEF Events, Moves
      <3>2. QED BY <1>7, <3>1, AppendHappens DEF ScanInv
    <2>3. ~Happens("Start") /\ ~Happens("Pause") /\ ~Happens("Resume")
      BY <1>1, <1>2, <1>3 DEF EventsInv, StateInv
    <2>4. FailedInv' /\ PendingInv'
      BY <1>1, <1>2, <1>3, <1>7, <2>2 DEF FailedInv, PendingInv
    <2>5. EventsInv'
      BY <1>1, <1>2, <1>3, <1>5, <2>1, <2>2, <2>3 DEF EventsInv, StateInv
    <2>6. StateInv'
      BY <1>1, <1>2, <1>3, <1>5, <1>7, <2>1, <2>2, <2>3 DEF StateInv
    <2>7. ActingInv'
      BY <1>1, <1>2, <1>3, <1>7, <2>1 DEF ActingInv
    <2>8. CountInv'
      BY <1>1, <1>2, <1>3, <1>5, <1>7 DEF CountInv, Counted, Full
    <2>9. QED BY <2>4, <2>5, <2>6, <2>7, <2>8 DEF Course
  <1>8. QED BY <1>1, <1>4, <1>6, <1>7

(* It fires Pause and Resume into a queue that is empty.                                 *)
LEMMA FirePauseCourse ==
  ASSUME ScanInv, FailedInv, Course, FirePause
  PROVE  FailedInv' /\ Course'
  <1>1. /\ UNCHANGED <<state, job, acting, remaining, gone, failed, updated, scanParameter,
                       timing, seen, firing, last, runParam, frontEnd, fifo, made, scan>>
        /\ endpoint = "pausing" /\ state = "Running" /\ endpoint' = "resuming"
        /\ events' = Append(events, "Pause")
    BY DEF FirePause, Shows, amc13Vars, cardVars, outerVars
  <1>2. EventsInv /\ StateInv /\ CountInv /\ PendingInv /\ ActingInv
    BY DEF Course
  <1>3. ~acting /\ NoneConfirms
    BY <1>1 DEF ScanInv, FlowInv, AtRest
  <1>4. events' = <<"Pause">>
    <2>1. \A c \in Moves : ~Happens(c)
      BY <1>1, <1>2 DEF EventsInv, Ended, Moves
    <2>2. events = <<>>
      BY <1>3, <2>1, RestFacts
    <2>3. QED BY <1>1, <2>2
  <1>5. \A x : Happens(x)' => x = "Pause"
    BY <1>4 DEF Happens
  <1>6. FailedInv' /\ PendingInv'
    BY <1>1, <1>2, <1>5 DEF FailedInv, PendingInv, Over
  <1>7. EventsInv' /\ StateInv'
    BY <1>1, <1>2, <1>4, <1>5 DEF EventsInv, StateInv, AllAt, Cut
  <1>8. ActingInv' /\ CountInv'
    BY <1>1, <1>2, <1>3 DEF ActingInv, CountInv, Counted, Full, Over
  <1>9. QED BY <1>6, <1>7, <1>8 DEF Course

(* The Resume that EndScanPoint fires keeps the course.                                 *)
LEMMA FireResumeCourse ==
  ASSUME ScanInv, FailedInv, Course, FireResume
  PROVE  FailedInv' /\ Course'
  <1>1. /\ UNCHANGED <<state, job, acting, remaining, gone, failed, updated,
                       timing, seen, firing, last, runParam, frontEnd, fifo, made, scan>>
        /\ endpoint = "resuming" /\ state = "Paused" /\ endpoint' = "returning"
        /\ scanParameter' = updated /\ events' = Append(events, "Resume")
    BY DEF FireResume, Shows, amc13Vars, cardVars, outerVars
  <1>2. EventsInv /\ StateInv /\ CountInv /\ PendingInv /\ ActingInv
    BY DEF Course
  <1>3. ~acting /\ NoneConfirms
    BY <1>1 DEF ScanInv, FlowInv, AtRest
  <1>4. events' = <<"Resume">>
    <2>1. \A c \in Moves : ~Happens(c)
      BY <1>1, <1>2 DEF EventsInv, Ended, Moves
    <2>2. events = <<>>
      BY <1>3, <2>1, RestFacts
    <2>3. QED BY <1>1, <2>2
  <1>5. \A x : Happens(x)' => x = "Resume"
    BY <1>4 DEF Happens
  <1>6. /\ scanParameter' = scanParameter + scan.step /\ ~Over
        /\ scanParameter' + scan.step < WordSize
    <2>1. /\ scanParameter \in Nat /\ scan.step \in Nat /\ scan.max \in Nat /\ WordSize \in Nat
          /\ scan.max + scan.step < WordSize
      BY <1>2, ScanFacts DEF ScanInv, ScanTypeOK
    <2>2. scanParameter' = scanParameter + scan.step /\ ~Over
      BY <1>1, <1>2 DEF PendingInv
    <2>3. QED BY <2>1, <2>2 DEF Over
  <1>7. FailedInv' /\ PendingInv'
    BY <1>1, <1>2, <1>5, <1>6 DEF FailedInv, PendingInv
  <1>8. AllAt(scanParameter + scan.step)
    BY <1>1, <1>2 DEF StateInv
  <1>9. AllAt(scanParameter)'
    <2>1. ASSUME NEW n, n = scanParameter + scan.step, AllAt(n), scanParameter' = n
          PROVE  AllAt(scanParameter)'
      BY <1>1, <2>1 DEF AllAt, Cut
    <2>2. QED BY <1>6, <1>8, <2>1
  <1>10. EventsInv' /\ StateInv'
    BY <1>1, <1>4, <1>5, <1>9 DEF EventsInv, StateInv
  <1>11. ActingInv' /\ CountInv'
    BY <1>1, <1>2, <1>3, <1>6 DEF ActingInv, CountInv, Counted, Full
  <1>12. QED BY <1>7, <1>10, <1>11 DEF Course

(* The timer has its reply when the run goes on.                                        *)
LEMMA ReplySentCourse ==
  ASSUME ScanInv, FailedInv, Course, ReplySentTriggers
  PROVE  FailedInv' /\ Course'
  <1>1. /\ UNCHANGED <<state, events, job, acting, remaining, gone, failed, updated, scanParameter,
                       timing, seen, firing, last, runParam, frontEnd, fifo, made, scan>>
        /\ endpoint = "returning" /\ state = "Running" /\ endpoint' = "idle"
    BY DEF ReplySentTriggers, Shows, machineVars, amc13Vars, cardVars, outerVars
  <1>2. EventsInv /\ StateInv /\ CountInv /\ PendingInv /\ ActingInv
    BY DEF Course
  <1>3. ~acting
    BY <1>1 DEF ScanInv, FlowInv, AtRest
  <1>4. FailedInv' /\ PendingInv'
    BY <1>1, <1>2 DEF FailedInv, PendingInv, Over, Happens
  <1>5. EventsInv' /\ StateInv'
    BY <1>1, <1>2 DEF EventsInv, StateInv, AllAt, Cut, Happens, Ended
  <1>6. ActingInv' /\ CountInv'
    BY <1>1, <1>2, <1>3 DEF ActingInv, CountInv, Counted, Full, Over
  <1>7. QED BY <1>4, <1>5, <1>6 DEF Course

-----------------------------------------------------------------------------
(* While a job acts the machine is in its transition, or in Error.                       *)
LEMMA ActingFacts ==
  ASSUME ScanInv, acting
  PROVE  /\ job \in Moves /\ state \notin {"Configured", "Running", "Paused"}
         /\ state = "Starting" => job = "Start"
         /\ state = "Pausing" => job = "Pause"
         /\ state = "Resuming" => job = "Resume"
         /\ state = "Stopping" => job = "Stop"
  BY ActingState, MoveTable DEF ScanInv, Others, Moves, FlowInv, AtRest

(* The managers without cards touch neither members nor labels; at the start the AMC13        *)
(* manager sets the timer going and at each pause it counts from zero again.               *)
LEMMA PlainTurnCourse ==
  ASSUME ScanInv, FailedInv, Course, NEW m \in {"PIController", "AMC13Manager"}, NEW c \in Moves,
         Turn(m, c), Through(m),
         UNCHANGED <<gone, endpoint, updated, scanParameter, last, runParam, frontEnd, fifo, made, scan>>,
         seen' \in {seen, 0}, m = "PIController" => UNCHANGED <<timing, seen>>,
         m = "PIController" /\ c = "Start" => remaining = {"PIController"},
         m = "AMC13Manager" /\ c = "Pause" => seen' = 0
  PROVE  FailedInv' /\ Course'
  <1>1. /\ UNCHANGED <<state, events, job, acting, failed, NoneConfirms>> /\ acting /\ job = c
        /\ remaining' = remaining \ {m} /\ m \notin failed
    BY DEF Through, Turn, NoneConfirms
  <1>2. EventsInv /\ StateInv /\ CountInv /\ PendingInv /\ ActingInv
    BY DEF Course
  <1>3. /\ Over' = Over /\ Ended' = Ended /\ \A x : Happens(x)' <=> Happens(x)
        /\ AllAt(scanParameter + scan.step)' = AllAt(scanParameter + scan.step)
        /\ AllAt(scanParameter)' = AllAt(scanParameter)
        /\ AtMinimum' = AtMinimum
    BY <1>1 DEF Over, Ended, AllAt, AtMinimum, Cut, Happens
  <1>4. /\ "GLIBManager" \in remaining' <=> "GLIBManager" \in remaining
        /\ "OptoHybridManager" \in remaining' <=> "OptoHybridManager" \in remaining
        /\ "AMC13Manager" \in remaining' <=> "AMC13Manager" \in remaining /\ m # "AMC13Manager"
    BY <1>1
  <1>5. FailedInv' /\ PendingInv' /\ EventsInv'
    BY <1>1, <1>2, <1>3, SamePending, SameEvents DEF FailedInv
  <1>6. StateInv'
    BY <1>1, <1>2, <1>3, <1>4, ActingFacts DEF StateInv
  <1>7. ActingInv'
    <2>1. c = "Start" => "AMC13Manager" \notin remaining'
      <3>1. CASE m = "AMC13Manager"
        BY <1>4, <3>1
      <3>2. CASE m = "PIController" /\ c = "Start"
        BY <1>1, <3>2
      <3>3. QED BY <3>1, <3>2
    <2>2. QED BY <1>1, <1>2, <1>3, <1>4, <2>1 DEF ActingInv
  <1>8. CountInv'
    <2>1. ASSUME NEW d \in Cards, Counted(d) PROVE Counted(d)'
      <3>1. /\ fifo[d] \in Seq(Registers \cup {Unset}) /\ made[d] \in Nat /\ NTriggers \in Nat
        BY <1>2, ScanFacts DEF ScanInv, ScanTypeOK, CountInv
      <3>2. Len(fifo[d]) \in Nat
        BY <3>1
      <3>3. CASE seen' = 0
        BY <3>1, <3>2, <3>3 DEF Counted
      <3>4. CASE seen' = seen
        BY <2>1, <3>4 DEF Counted
      <3>5. QED BY <3>3, <3>4
    <2>2. \A d \in Cards : Full(d)' <=> Full(d)
      BY DEF Full
    <2>3. state \notin {"Running"}
      BY <1>1, ActingFacts
    <2>4. QED BY <1>1, <1>2, <1>3, <1>4, <2>1, <2>2, <2>3 DEF CountInv
  <1>9. QED BY <1>5, <1>6, <1>7, <1>8 DEF Course

(* The managers that do nothing in a transition keep the course.                        *)
LEMMA PlainManagersCourse ==
  ASSUME ScanInv, FailedInv, Course,
         TCDSTurns \/ AMC13Starts \/ AMC13Pauses \/ AMC13Resumes \/ AMC13Stops
  PROVE  FailedInv' /\ Course'
  <1>1. CASE TCDSTurns
    <2>1. PICK c \in Moves : Turn("PIController", c)
      BY <1>1 DEF TCDSTurns, Moves
    <2>2. c = "Start" => remaining = {"PIController"}
      BY <2>1, TurnFacts DEF ScanInv, Others, Managers, Rising
    <2>3. QED BY <1>1, <2>1, <2>2, PlainTurnCourse DEF TCDSTurns, pointVars, cardVars, outerVars
  <1>2. CASE AMC13Starts
    <2>1. Turn("AMC13Manager", "Start") /\ Through("AMC13Manager") /\ "Start" \in Moves
      BY <1>2 DEF AMC13Starts, Moves
    <2>2. QED BY <1>2, <2>1, PlainTurnCourse DEF AMC13Starts, pointVars, cardVars, outerVars
  <1>3. CASE AMC13Pauses
    <2>1. Turn("AMC13Manager", "Pause") /\ Through("AMC13Manager") /\ "Pause" \in Moves
      BY <1>3 DEF AMC13Pauses, Moves
    <2>2. QED BY <1>3, <2>1, PlainTurnCourse DEF AMC13Pauses, pointVars, cardVars, outerVars
  <1>4. CASE AMC13Resumes
    <2>1. Turn("AMC13Manager", "Resume") /\ Through("AMC13Manager") /\ "Resume" \in Moves
      BY <1>4 DEF AMC13Resumes, Moves
    <2>2. QED BY <1>4, <2>1, PlainTurnCourse DEF AMC13Resumes, pointVars, cardVars, outerVars
  <1>5. CASE AMC13Stops
    <2>1. Turn("AMC13Manager", "Stop") /\ Through("AMC13Manager") /\ "Stop" \in Moves
      BY <1>5 DEF AMC13Stops, Moves
    <2>2. QED BY <1>5, <2>1, PlainTurnCourse DEF AMC13Stops, pointVars, cardVars, outerVars
  <1>6. QED BY <1>1, <1>2, <1>3, <1>4, <1>5

(* What every step of a manager with cards leaves as it is.                               *)
LEMMA CardTurnCourse ==
  ASSUME ScanInv, FailedInv, Course, acting,
         UNCHANGED <<state, events, job, acting, endpoint, updated, scanParameter, timing, seen, firing, scan>>,
         "AMC13Manager" \in remaining' <=> "AMC13Manager" \in remaining,
         failed' \subseteq remaining', failed \subseteq failed'
  PROVE  /\ FailedInv' /\ PendingInv' /\ EventsInv' /\ ActingInv'
         /\ Over' = Over /\ Ended' = Ended /\ NoneConfirms' = NoneConfirms
         /\ state \notin {"Configured", "Running", "Paused"}
  <1>1. FailedInv' /\ PendingInv' /\ EventsInv'
    BY SamePending, SameEvents DEF FailedInv, Happens, Course
  <1>2. ActingInv'
    BY DEF ActingInv, Course, Idle, Ended, Over
  <1>3. QED BY <1>1, <1>2, ActingFacts DEF Over, Ended, NoneConfirms

(* The front ends go up before anything is counted.                                      *)
LEMMA StartsCourse ==
  ASSUME ScanInv, FailedInv, Course, NEW d \in Cards, GLIBStarts(d) \/ OptoHybridStarts(d)
  PROVE  FailedInv' /\ Course'
  <1>1. PICK m \in {"GLIBManager", "OptoHybridManager"} :
          /\ Turn(m, "Start") /\ Loop(m, d)
          /\ fifo' = [fifo EXCEPT ![d] = <<>>] \/ fifo' = fifo
          /\ UNCHANGED <<endpoint, updated, scanParameter, timing, seen, firing, runParam, made, scan>>
    BY DEF GLIBStarts, OptoHybridStarts, pointVars, amc13Vars, outerVars
  <1>2. /\ UNCHANGED <<state, events, job, acting, failed>> /\ acting /\ job = "Start" /\ m \notin failed
        /\ remaining' = remaining \/ remaining' = remaining \ {m}
        /\ "AMC13Manager" \in remaining
    <2>1. /\ UNCHANGED <<state, acting, job>> /\ acting /\ job = "Start"
          /\ remaining' = remaining \ {m} \/ remaining' = remaining
          /\ remaining = IF m = "OptoHybridManager" THEN Managers
                         ELSE {"GLIBManager", "AMC13Manager", "PIController"}
      BY <1>1, LoopKeepsOrder
    <2>2. UNCHANGED <<events, failed>> /\ m \notin failed
      BY <1>1 DEF Loop, Through, Turn
    <2>3. "AMC13Manager" \in remaining
      BY <2>1 DEF Managers
    <2>4. QED BY <2>1, <2>2, <2>3
  <1>3. EventsInv /\ StateInv /\ CountInv /\ PendingInv /\ ActingInv
    BY DEF Course
  <1>4. FailedInv' /\ PendingInv' /\ EventsInv' /\ ActingInv' /\ Over' = Over
    BY <1>1, <1>2, CardTurnCourse DEF FailedInv
  <1>5. StateInv'
    <2>1. state \in {"Starting", "Error"} \/ state \notin {"Configured", "Starting", "Running", "Pausing",
                                                        "Paused", "Resuming", "Stopping"}
      BY <1>2, ActingFacts
    <2>2. CASE state = "Starting"
      BY <1>1, <1>2, <1>3, <2>2 DEF StateInv, AtMinimum, Cut
    <2>3. CASE state # "Starting"
      BY <1>2, <2>1, <2>3 DEF StateInv
    <2>4. QED BY <2>2, <2>3
  <1>6. CountInv'
    <2>1. seen' = 0 /\ endpoint' = "idle"
      BY <1>1, <1>2, <1>3 DEF ActingInv, Idle
    <2>2. ASSUME NEW c \in Cards PROVE made'[c] + Len(fifo'[c]) >= 0
      <3>1. fifo[c] \in Seq(Registers \cup {Unset}) /\ made'[c] \in Nat
        BY <1>1, <1>3 DEF ScanInv, ScanTypeOK, CountInv
      <3>2. fifo'[c] = fifo[c] \/ fifo'[c] = <<>>
        BY <1>1 DEF ScanInv, ScanTypeOK
      <3>3. Len(fifo'[c]) \in Nat
        BY <3>1, <3>2
      <3>4. QED BY <3>1, <3>3
    <2>3. QED BY <1>1, <1>2, <1>3, <2>1, <2>2 DEF CountInv, Counted
  <1>7. QED BY <1>4, <1>5, <1>6 DEF Course

(* A card whose label moves on was full, and has built all it took; it starts to count     *)
(* anew, when no trigger comes.                                                     *)
LEMMA GLIBPausesCourse ==
  ASSUME ScanInv, FailedInv, Course, NEW d \in Cards, GLIBPauses(d)
  PROVE  FailedInv' /\ Course' /\ Full(d)
  <1>1. /\ Turn("GLIBManager", "Pause") /\ Loop("GLIBManager", d)
        /\ last' = MemberAfter("GLIBManager")
        /\ runParam' = [runParam EXCEPT ![d] = NextPoint("GLIBManager")]
        /\ made' = [made EXCEPT ![d] = 0]
        /\ UNCHANGED <<endpoint, updated, scanParameter, timing, seen, firing, frontEnd, fifo, scan>>
    BY DEF GLIBPauses, pointVars, amc13Vars, outerVars
  <1>2. /\ UNCHANGED <<state, events, job, acting, failed>> /\ acting /\ job = "Pause" /\ d \notin gone
        /\ "GLIBManager" \notin failed
        /\ remaining = {"GLIBManager", "OptoHybridManager"}
        /\ \/ gone' = {} /\ remaining' = {"OptoHybridManager"}
           \/ gone' = gone \cup {d} /\ remaining' = remaining
    <2>1. /\ UNCHANGED <<state, acting, job>> /\ acting /\ job = "Pause" /\ d \notin gone
          /\ remaining = {"GLIBManager", "OptoHybridManager"}
          /\ \/ gone \cup {d} = Cards /\ gone' = {} /\ remaining' = remaining \ {"GLIBManager"}
             \/ gone \cup {d} # Cards /\ gone' = gone \cup {d} /\ remaining' = remaining
      BY <1>1, LoopKeepsOrder
    <2>2. UNCHANGED <<events, failed>> /\ "GLIBManager" \notin failed
      BY <1>1 DEF Loop, Through, Turn
    <2>3. QED BY <2>1, <2>2
  <1>3. EventsInv /\ StateInv /\ CountInv /\ PendingInv /\ ActingInv
    BY DEF Course
  <1>4. /\ FailedInv' /\ PendingInv' /\ EventsInv' /\ ActingInv' /\ Over' = Over
        /\ NoneConfirms' = NoneConfirms /\ state \notin {"Configured", "Running", "Paused"}
    BY <1>1, <1>2, CardTurnCourse DEF FailedInv
  <1>5. Full(d)
    BY <1>2, <1>3 DEF CountInv
  <1>6. StateInv'
    <2>1. CASE state = "Pausing"
      <3>1. last'["OptoHybridManager"] = last["OptoHybridManager"]
        BY <1>1, MemberFacts DEF ScanInv, Others, LabelInv, ScanTypeOK
      <3>2. last["OptoHybridManager"] = scanParameter /\ endpoint = "resuming"
        BY <1>2, <1>3, <2>1 DEF StateInv
      <3>3. \A c \in Cards : c \notin gone /\ "GLIBManager" \in remaining => runParam[c] = Cut(scanParameter)
        BY <1>2, <1>3, <2>1 DEF StateInv
      <3>4. \A c \in Cards : c # d => runParam'[c] = runParam[c]
        BY <1>1 DEF ScanInv, ScanTypeOK
      <3>5. \A c \in Cards : "GLIBManager" \in remaining' /\ c \notin gone' => runParam'[c] = Cut(scanParameter)
        BY <1>2, <3>3, <3>4
      <3>6. "OptoHybridManager" \in remaining'
        BY <1>2
      <3>7. QED BY <1>1, <1>2, <2>1, <3>1, <3>2, <3>5, <3>6 DEF StateInv, Cut
    <2>2. CASE state # "Pausing"
      BY <1>2, <1>4, <2>2, ActingFacts DEF StateInv
    <2>3. QED BY <2>1, <2>2
  <1>7. CountInv'
    <2>1. seen' = 0 /\ endpoint' = "resuming"
      BY <1>1, <1>2, <1>3 DEF ActingInv
    <2>2. made' \in [Cards -> Nat] /\ \A c \in Cards : made'[c] = IF c = d THEN 0 ELSE made[c]
      BY <1>1, <1>3 DEF CountInv
    <2>3. ASSUME NEW c \in Cards PROVE made'[c] + Len(fifo'[c]) >= 0
      <3>1. fifo[c] \in Seq(Registers \cup {Unset}) /\ made'[c] \in Nat
        BY <2>2 DEF ScanInv, ScanTypeOK
      <3>2. QED BY <1>1, <3>1
    <2>4. ASSUME NEW c \in Cards, c # d, Full(c) PROVE Full(c)'
      BY <1>1, <2>2, <2>4 DEF Full
    <2>5. \A c \in Cards \ gone : Full(c)
      BY <1>2, <1>3 DEF CountInv
    <2>6. \A c \in Cards : c \notin gone' /\ "GLIBManager" \in remaining' => Full(c)'
      BY <1>2, <2>4, <2>5
    <2>7. QED BY <1>2, <1>4, <2>1, <2>2, <2>3, <2>6 DEF CountInv, Counted
  <1>8. QED BY <1>4, <1>5, <1>6, <1>7 DEF Course

(* When the last card's VFATs have followed, all are at the next point.                     *)
LEMMA OptoHybridPausesCourse ==
  ASSUME ScanInv, FailedInv, Course, NEW d \in Cards, OptoHybridPauses(d)
  PROVE  FailedInv' /\ Course'
  <1>1. /\ Turn("OptoHybridManager", "Pause") /\ Loop("OptoHybridManager", d)
        /\ last' = MemberAfter("OptoHybridManager")
        /\ frontEnd' = [frontEnd EXCEPT ![d] = NextPoint("OptoHybridManager")]
        /\ UNCHANGED <<endpoint, updated, scanParameter, timing, seen, firing, runParam, fifo, made, scan>>
    BY DEF OptoHybridPauses, pointVars, amc13Vars, outerVars
  <1>2. /\ UNCHANGED <<state, events, job, acting, failed>> /\ acting /\ job = "Pause"
        /\ "OptoHybridManager" \notin failed
        /\ remaining = {"OptoHybridManager"}
        /\ \/ gone \cup {d} = Cards /\ remaining' = {}
           \/ remaining' = remaining
    <2>1. /\ UNCHANGED <<state, acting, job>> /\ acting /\ job = "Pause"
          /\ remaining = {"OptoHybridManager"}
          /\ \/ gone \cup {d} = Cards /\ gone' = {} /\ remaining' = remaining \ {"OptoHybridManager"}
             \/ gone \cup {d} # Cards /\ gone' = gone \cup {d} /\ remaining' = remaining
      BY <1>1, LoopKeepsOrder
    <2>2. UNCHANGED <<events, failed>> /\ "OptoHybridManager" \notin failed
      BY <1>1 DEF Loop, Through, Turn
    <2>3. QED BY <2>1, <2>2
  <1>3. EventsInv /\ StateInv /\ CountInv /\ PendingInv /\ ActingInv
    BY DEF Course
  <1>4. /\ FailedInv' /\ PendingInv' /\ EventsInv' /\ ActingInv' /\ Over' = Over
        /\ NoneConfirms' = NoneConfirms /\ state \notin {"Configured", "Running", "Paused"}
    BY <1>1, <1>2, CardTurnCourse DEF FailedInv
  <1>5. /\ last["GLIBManager"] \in Nat /\ last["OptoHybridManager"] \in Nat
        /\ last["GLIBManager"] = last["OptoHybridManager"] + scan.step
        /\ \A c \in Cards : /\ runParam[c] = NextPoint("OptoHybridManager")
                            /\ c \in gone => frontEnd[c] = runParam[c]
    BY <1>2 DEF ScanInv, Others, LabelInv
  <1>6. /\ last'["GLIBManager"] = last["GLIBManager"]
        /\ last'["OptoHybridManager"] =
             IF remaining' # remaining THEN last["OptoHybridManager"] + scan.step
             ELSE last["OptoHybridManager"]
    BY <1>1, <1>2, <1>5, MemberFacts DEF ScanInv, ScanTypeOK
  <1>7. StateInv'
    <2>1. CASE state = "Pausing"
      <3>1. last["OptoHybridManager"] = scanParameter /\ endpoint = "resuming"
        BY <1>2, <1>3, <2>1 DEF StateInv
      <3>2. CASE remaining' = remaining
        BY <1>1, <1>2, <1>6, <2>1, <3>1, <3>2 DEF StateInv
      <3>3. CASE gone \cup {d} = Cards /\ remaining' = {}
        <4>1. \A c \in Cards : frontEnd'[c] = IF c = d THEN NextPoint("OptoHybridManager") ELSE frontEnd[c]
          BY <1>1 DEF ScanInv, ScanTypeOK
        <4>2. runParam' = runParam /\ scan' = scan /\ scanParameter' = scanParameter
          BY <1>1
        <4>3. ASSUME NEW c \in Cards
              PROVE  frontEnd'[c] = runParam[c] /\ runParam[c] = Cut(scanParameter + scan.step)
          <5>1. runParam[c] = NextPoint("OptoHybridManager") /\ (c \in gone => frontEnd[c] = runParam[c])
            BY <1>5
          <5>2. frontEnd'[c] = IF c = d THEN NextPoint("OptoHybridManager") ELSE frontEnd[c]
            BY <4>1
          <5>3. frontEnd'[c] = runParam[c]
            BY <3>3, <5>1, <5>2
          <5>4. QED BY <3>1, <5>1, <5>3 DEF NextPoint, Cut
        <4>4. /\ last'["GLIBManager"] = scanParameter + scan.step
              /\ last'["OptoHybridManager"] = scanParameter + scan.step
          BY <1>2, <1>5, <1>6, <3>1, <3>3
        <4>5. AllAt(scanParameter + scan.step)'
          BY <4>2, <4>3, <4>4 DEF AllAt, Cut
        <4>6. QED BY <1>1, <1>2, <2>1, <3>1, <3>3, <4>4, <4>5 DEF StateInv
      <3>4. QED BY <1>2, <3>2, <3>3
    <2>2. CASE state # "Pausing"
      BY <1>2, <1>4, <2>2, ActingFacts DEF StateInv
    <2>3. QED BY <2>1, <2>2
  <1>8. CountInv'
    <2>1. "GLIBManager" \notin remaining'
      BY <1>2
    <2>2. QED BY <1>1, <1>2, <1>3, <1>4, <2>1 DEF CountInv, Counted, Full
  <1>9. QED BY <1>4, <1>7, <1>8 DEF Course

(* The Stop after the last point touches nothing that still counts.                         *)
LEMMA StopsCourse ==
  ASSUME ScanInv, FailedInv, Course, NEW d \in Cards, GLIBStops(d) \/ OptoHybridStops(d)
  PROVE  FailedInv' /\ Course'
  <1>1. PICK m \in {"GLIBManager", "OptoHybridManager"} :
          /\ Turn(m, "Stop") /\ Loop(m, d)
          /\ UNCHANGED <<endpoint, updated, scanParameter, timing, seen, firing, made, scan>>
    BY DEF GLIBStops, OptoHybridStops, pointVars, amc13Vars, outerVars
  <1>2. /\ UNCHANGED <<state, events, job, acting, failed>> /\ acting /\ job = "Stop" /\ m \notin failed
        /\ remaining' = remaining \/ remaining' = remaining \ {m}
    BY <1>1 DEF Loop, Through, Turn
  <1>3. FailedInv' /\ PendingInv' /\ EventsInv' /\ ActingInv' /\ Over' = Over /\ Ended' = Ended
        /\ state \notin {"Configured", "Running", "Paused"} /\ CountInv
    BY <1>1, <1>2, CardTurnCourse DEF FailedInv, Course
  <1>4. Ended
    BY <1>2 DEF Course, ActingInv
  <1>5. StateInv'
    BY <1>2, <1>3, <1>4, ActingFacts DEF StateInv
  <1>6. CountInv'
    BY <1>1, <1>2, <1>3, <1>4 DEF CountInv, Ended
  <1>7. QED BY <1>3, <1>5, <1>6 DEF Course

(* The cards' part of Resume keeps the course.                                          *)
LEMMA CardsResumeCourse ==
  ASSUME ScanInv, FailedInv, Course, NEW m \in {"GLIBManager", "OptoHybridManager"}, CardsResume(m)
  PROVE  FailedInv' /\ Course'
  <1>1. /\ UNCHANGED <<state, events, job, acting, failed>> /\ acting /\ job = "Resume" /\ m \notin failed
        /\ remaining' = remaining \ {m}
        /\ UNCHANGED <<endpoint, updated, scanParameter, timing, seen, firing, last, runParam, frontEnd,
                       fifo, made, scan>>
    BY DEF CardsResume, Through, Turn, pointVars, amc13Vars, cardVars, outerVars
  <1>2. FailedInv' /\ PendingInv' /\ EventsInv' /\ ActingInv' /\ Over' = Over
        /\ NoneConfirms' = NoneConfirms
        /\ state \notin {"Configured", "Running", "Paused"} /\ CountInv /\ StateInv
    BY <1>1, CardTurnCourse DEF FailedInv, Course
  <1>3. StateInv'
    BY <1>1, <1>2, ActingFacts DEF StateInv, AllAt, Cut
  <1>4. CountInv'
    BY <1>1, <1>2 DEF CountInv, Counted, Full
  <1>5. QED BY <1>2, <1>3, <1>4 DEF Course

(* The loss of a card in an action keeps the course.                                    *)
LEMMA CardIsLostCourse ==
  ASSUME ScanInv, FailedInv, Course, NEW m \in {"GLIBManager", "OptoHybridManager"}, NEW d \in Cards,
         CardIsLost(m, d)
  PROVE  FailedInv' /\ Course'
  <1>1. /\ acting /\ m \in remaining /\ failed' = failed \cup {m}
        /\ UNCHANGED <<state, events, job, acting, remaining, gone, endpoint, updated, scanParameter,
                       timing, seen, firing, fifo, runParam, frontEnd, made, scan>>
        /\ job # "Start" => last' = last
    BY DEF CardIsLost, Turn, pointVars, amc13Vars
  <1>2. FailedInv' /\ PendingInv' /\ EventsInv' /\ ActingInv' /\ CountInv /\ StateInv
    BY <1>1, CardTurnCourse DEF FailedInv, Course
  <1>3. CountInv'
    BY <1>1, <1>2, SameCount
  <1>4. StateInv'
    <2>1. CASE job = "Start"
      <3>1. \A s \in {"Configured", "Running", "Pausing", "Paused", "Resuming", "Stopping"} : state # s
        BY <1>1, <2>1, ActingFacts
      <3>2. QED BY <1>1, <1>2, <3>1 DEF StateInv, AtMinimum, Cut
    <2>2. CASE job # "Start"
      BY <1>1, <1>2, <2>2, SameState
    <2>3. QED BY <2>1, <2>2
  <1>5. QED BY <1>2, <1>3, <1>4 DEF Course

-----------------------------------------------------------------------------
(* A trigger that is counted is an event of every card.                                   *)
LEMMA TriggerCourse ==
  ASSUME ScanInv, FailedInv, Course, Trigger
  PROVE  FailedInv' /\ Course'
  <1>1. /\ firing # {} /\ seen' = seen + 1
        /\ fifo' = [c \in Cards |-> IF c \in accepting THEN Append(fifo[c], frontEnd[c]) ELSE fifo[c]]
        /\ UNCHANGED <<state, events, jobs, job, acting, remaining, gone, failed, endpoint, updated,
                       scanParameter, timing, firing, last, runParam, frontEnd, made, scan>>
    BY DEF Trigger, machineVars, pointVars, outerVars
  <1>2. EventsInv /\ StateInv /\ CountInv /\ PendingInv /\ ActingInv /\ ScanTypeOK
        /\ OrderInv /\ SourcesInv /\ FlowInv
    BY DEF Course, ScanInv, Others
  <1>3. state = "Starting" => acting \/ ~NoneConfirms
    BY <1>1, <1>2 DEF SourcesInv, FlowInv, AtRest
  <1>4. FailedInv' /\ PendingInv' /\ EventsInv'
    BY <1>1, <1>2, SamePending, SameEvents DEF FailedInv, Happens
  <1>5. StateInv'
    <2>1. state = "Configured" => Ended /\ ~Happens("Start")
      <3>1. state = "Configured" => firing = {}
        BY <1>2 DEF SourcesInv, FlowInv, AtRest
      <3>2. QED BY <1>1, <3>1
    <2>2. Ended' = Ended /\ AllAt(scanParameter)' = AllAt(scanParameter) /\ AtMinimum' = AtMinimum
          /\ AllAt(scanParameter + scan.step)' = AllAt(scanParameter + scan.step)
          /\ NoneConfirms' = NoneConfirms /\ (Happens("Start")' <=> Happens("Start"))
      BY <1>1 DEF Ended, Over, AllAt, AtMinimum, Cut, NoneConfirms, Happens
    <2>3. QED BY <1>1, <1>2, <1>3, <2>1, <2>2 DEF StateInv
  <1>6. ActingInv'
    <2>1. ~(acting /\ job = "Start" /\ "AMC13Manager" \in remaining)
      BY <1>1, <1>2 DEF ActingInv
    <2>2. ~(acting /\ job = "Pause" /\ "AMC13Manager" \notin remaining)
      <3>1. ASSUME acting, job = "Pause", "AMC13Manager" \notin remaining PROVE FALSE
        <4>1. remaining \in LeftToFall
          BY <1>2, <3>1 DEF OrderInv, Rising
        <4>2. "PIController" \notin remaining
          BY <3>1, <4>1 DEF LeftToFall, Managers
        <4>3. firing = {}
          BY <1>2, <3>1, <4>2 DEF SourcesInv, ScanTypeOK
        <4>4. QED BY <1>1, <4>3
      <3>2. QED BY <3>1
    <2>3. QED BY <1>1, <1>2, <2>1, <2>2 DEF ActingInv, Ended, Over
  <1>7. CountInv'
    <2>1. ASSUME NEW c \in Cards
          PROVE  (Counted(c) => Counted(c)') /\ (Full(c) => Full(c)')
      <3>1. /\ fifo[c] \in Seq(Registers \cup {Unset}) /\ frontEnd[c] \in Registers \cup {Unset}
            /\ made[c] \in Nat /\ seen \in Nat /\ NTriggers \in Nat
        BY <1>2, ScanFacts DEF ScanTypeOK, CountInv
      <3>2. c \in accepting
        BY <1>1, <1>2 DEF SourcesInv, Up
      <3>3. fifo'[c] = Append(fifo[c], frontEnd[c])
        BY <1>1, <3>2
      <3>4. Len(fifo[c]) \in Nat /\ Len(fifo'[c]) = Len(fifo[c]) + 1
        BY <3>1, <3>3
      <3>5. made'[c] = made[c]
        BY <1>1
      <3>6. QED BY <1>1, <3>1, <3>4, <3>5 DEF Counted, Full
    <2>2. QED BY <1>1, <1>2, <2>1 DEF CountInv, Over, NoneConfirms
  <1>8. QED BY <1>4, <1>5, <1>6, <1>7 DEF Course

(* An event that is built still counts.                                                  *)
LEMMA BuildCourse ==
  ASSUME ScanInv, FailedInv, Course, NEW d \in Cards, Build(d)
  PROVE  FailedInv' /\ Course'
  <1>1. /\ fifo[d] # <<>> /\ fifo' = [fifo EXCEPT ![d] = Tail(fifo[d])]
        /\ made' = [made EXCEPT ![d] = IF made[d] < NTriggers THEN made[d] + 1 ELSE made[d]]
        /\ UNCHANGED <<state, events, jobs, job, acting, remaining, gone, failed, endpoint, updated,
                       scanParameter, timing, seen, firing, last, runParam, frontEnd, scan>>
    BY DEF Build, machineVars, pointVars, amc13Vars, outerVars
  <1>2. EventsInv /\ StateInv /\ CountInv /\ PendingInv /\ ActingInv /\ ScanTypeOK
    BY DEF Course, ScanInv
  <1>3. FailedInv' /\ PendingInv' /\ EventsInv' /\ StateInv' /\ ActingInv'
    BY <1>1, <1>2, SamePending, SameEvents, SameState, SameActing DEF FailedInv, Happens
  <1>4. CountInv'
    <2>1. made' \in [Cards -> Nat]
      BY <1>1, <1>2 DEF CountInv
    <2>2. ASSUME NEW c \in Cards
          PROVE  (Counted(c) => Counted(c)') /\ (Full(c) => Full(c)')
      <3>1. /\ fifo[c] \in Seq(Registers \cup {Unset}) /\ made[c] \in Nat /\ seen \in Nat /\ NTriggers \in Nat
            /\ DOMAIN fifo = Cards /\ DOMAIN made = Cards /\ seen' = seen
        BY <1>1, <1>2, ScanFacts DEF ScanTypeOK, CountInv
      <3>2. CASE c # d
        BY <1>1, <3>1, <3>2 DEF Counted, Full
      <3>3. CASE c = d
        <4>1. fifo'[c] = Tail(fifo[c]) /\ fifo[c] # <<>>
              /\ made'[c] = IF made[c] < NTriggers THEN made[c] + 1 ELSE made[c]
          BY <1>1, <3>1, <3>3
        <4>2. Len(fifo[c]) \in Nat \ {0} /\ Len(fifo'[c]) = Len(fifo[c]) - 1
          BY <3>1, <4>1
        <4>3. QED BY <3>1, <4>1, <4>2 DEF Counted, Full
      <3>4. QED BY <3>2, <3>3
    <2>3. QED BY <1>1, <1>2, <2>1, <2>2 DEF CountInv, Over, NoneConfirms
  <1>5. QED BY <1>3, <1>4 DEF Course

-----------------------------------------------------------------------------
(* A manager that failed holds its action, whatever was commanded before.                   *)
LEMMA FailedHolds ==
  ASSUME ScanInv, FailedInv, [ScanNext]_scanVars
  PROVE  FailedInv'
  <1> USE DEF machineVars, pointVars, amc13Vars, cardVars, outerVars
  <1>1. ASSUME UNCHANGED <<failed, remaining>>, \A x : Happens(x)' => Happens(x) PROVE FailedInv'
    BY <1>1 DEF FailedInv
  <1>2. events' = events => \A x : Happens(x)' => Happens(x)
    BY DEF Happens
  <1>3. ASSUME UNCHANGED <<failed, remaining>>, NEW e \in Events, events' = Append(events, e), e # "Fail"
        PROVE  FailedInv'
    BY <1>3, AppendHappens DEF FailedInv, ScanInv
  <1>4. ASSUME NEW m, m \notin failed, failed' = failed, events' = events,
               remaining' = remaining \ {m} \/ remaining' = remaining
        PROVE  FailedInv'
    BY <1>2, <1>4 DEF FailedInv
  <1>5. ASSUME NEW m, NEW c, NEW d, Turn(m, c), Loop(m, d) PROVE FailedInv'
    BY <1>4, <1>5 DEF Turn, Loop, Through
  <1>6. ASSUME NEW m, NEW c, Turn(m, c), Through(m) PROVE FailedInv'
    BY <1>4, <1>6 DEF Turn, Through
  <1>7. ASSUME NEW c \in Operator, OperatorCommand(c) PROVE FailedInv'
    <2>1. events' = <<c>> /\ c # "Fail" /\ UNCHANGED <<failed, remaining>>
      BY <1>7, OperatorCommands DEF OperatorCommand
    <2>2. ~Happens("Fail")'
      BY <2>1 DEF Happens
    <2>3. QED BY <2>1, <2>2 DEF FailedInv
  <1>8. CASE HandleEvent
    BY <1>1, <1>8, TailHappens DEF HandleEvent, ScanInv
  <1>9. CASE ErrorIsSeen
    BY <1>9 DEF ErrorIsSeen, FailedInv
  <1>10. CASE BeginJob
    BY <1>1, <1>2, <1>10 DEF BeginJob
  <1>11. CASE EnterAction
    BY <1>2, <1>11 DEF EnterAction, FailedInv
  <1>12. CASE LeaveAction
    <2>1. job \in Moves
      BY <1>12, LeaveActionFlow DEF ScanInv, Others
    <2>2. Confirmation[Via[job]] \in Events /\ Confirmation[Via[job]] # "Fail"
      BY <2>1, MoveTable DEF Moves, Events, Confirmations
    <2>3. QED BY <1>3, <1>12, <2>2 DEF LeaveAction
  <1>13. CASE TCDSTurns \/ AMC13Starts \/ AMC13Pauses \/ AMC13Resumes \/ AMC13Stops
    BY <1>6, <1>13 DEF TCDSTurns, AMC13Starts, AMC13Pauses, AMC13Resumes, AMC13Stops
  <1>14. ASSUME NEW c \in Cards, GLIBStarts(c) \/ GLIBPauses(c) \/ GLIBStops(c)
                                 \/ OptoHybridStarts(c) \/ OptoHybridPauses(c) \/ OptoHybridStops(c)
         PROVE  FailedInv'
    BY <1>5, <1>14 DEF GLIBStarts, GLIBPauses, GLIBStops, OptoHybridStarts, OptoHybridPauses, OptoHybridStops
  <1>15. ASSUME NEW m \in {"GLIBManager", "OptoHybridManager"}, CardsResume(m) PROVE FailedInv'
    BY <1>6, <1>15 DEF CardsResume
  <1>16. CASE EndScanPoint
    BY <1>1, <1>2, <1>3, <1>16, MoveTable DEF EndScanPoint, Events, Moves
  <1>17. CASE FirePause \/ FireResume
    BY <1>3, <1>17, MoveTable DEF FirePause, FireResume, Events, Moves
  <1>18. CASE ReplySentTriggers \/ TimeExpires \/ Trigger \/ UNCHANGED scanVars
    BY <1>1, <1>2, <1>18 DEF ReplySentTriggers, TimeExpires, Trigger, scanVars
  <1>19. ASSUME NEW c \in Cards, Build(c) PROVE FailedInv'
    BY <1>1, <1>2, <1>19 DEF Build
  <1>20. ASSUME NEW m \in {"GLIBManager", "OptoHybridManager"}, NEW c \in Cards, CardIsLost(m, c)
         PROVE  FailedInv'
    BY <1>2, <1>20 DEF CardIsLost, Turn, FailedInv
  <1>21. QED
    BY <1>7, <1>8, <1>9, <1>10, <1>11, <1>12, <1>13, <1>14, <1>15, <1>16, <1>17, <1>18, <1>19, <1>20
    DEF ScanNext, MachineSteps, JobSteps, EndpointSteps

(* Before the first command nothing moves.                                               *)
LEMMA NothingMoves ==
  ASSUME ScanInv, FailedInv, [ScanNext]_scanVars, commands \in Nat, commands' = commands,
         state = "Configured", Idle, AtMinimum, events = <<>>
  PROVE  state' = "Configured" /\ Idle' /\ AtMinimum' /\ events' = <<>>
  <1> USE DEF machineVars, pointVars, amc13Vars, cardVars, outerVars
  <1>1. /\ ~acting /\ jobs = <<>> /\ failed = {} /\ firing = {} /\ job = None
        /\ endpoint = "idle" /\ timing = FALSE
    BY RestFacts DEF ScanInv, Others, FlowInv, AtRest, SourcesInv, Idle
  <1>2. \A m, c : ~Turn(m, c)
    BY <1>1 DEF Turn
  <1>3. \A c \in Operator : ~OperatorCommand(c)
    BY DEF OperatorCommand
  <1>4. ~HandleEvent /\ ~ErrorIsSeen
    BY <1>1 DEF HandleEvent, ErrorIsSeen
  <1>5. ~JobSteps
    <2>1. ~BeginJob /\ ~EnterAction /\ ~LeaveAction
      BY <1>1 DEF BeginJob, EnterAction, LeaveAction
    <2>2. ~TCDSTurns /\ ~AMC13Starts /\ ~AMC13Pauses /\ ~AMC13Resumes /\ ~AMC13Stops
      BY <1>2 DEF TCDSTurns, AMC13Starts, AMC13Pauses, AMC13Resumes, AMC13Stops
    <2>3. \A c \in Cards : /\ ~GLIBStarts(c) /\ ~GLIBPauses(c) /\ ~GLIBStops(c)
                           /\ ~OptoHybridStarts(c) /\ ~OptoHybridPauses(c) /\ ~OptoHybridStops(c)
      BY <1>2 DEF GLIBStarts, GLIBPauses, GLIBStops, OptoHybridStarts, OptoHybridPauses, OptoHybridStops
    <2>4. \A m : ~CardsResume(m)
      BY <1>2 DEF CardsResume
    <2>5. QED BY <2>1, <2>2, <2>3, <2>4 DEF JobSteps
  <1>6. ~EndpointSteps /\ ~TimeExpires /\ ~Trigger
    BY <1>1 DEF EndpointSteps, EndScanPoint, FirePause, FireResume, ReplySentTriggers, TimeExpires, Trigger
  <1>7. \A m, c : ~CardIsLost(m, c)
    BY <1>2 DEF CardIsLost
  <1>8. (\E c \in Cards : Build(c)) \/ UNCHANGED scanVars
    BY <1>3, <1>4, <1>5, <1>6, <1>7 DEF ScanNext, MachineSteps
  <1>9. UNCHANGED <<state, events, timing, endpoint, seen, runParam, scan>>
    BY <1>8 DEF Build, scanVars
  <1>10. QED BY <1>9 DEF Idle, AtMinimum, Cut

(* Every step but a command of the operator's goes on with the scan.                        *)
LEMMA CourseGoesOn ==
  ASSUME ScanInv, FailedInv, Course, [ScanNext]_scanVars,
         \A c \in Operator : ~OperatorCommand(c)
  PROVE  Course'
  <1>1. CASE HandleEvent \/ ErrorIsSeen
    BY <1>1, HandleEventCourse, ErrorIsSeenCourse
  <1>2. CASE BeginJob \/ EnterAction \/ LeaveAction
    BY <1>2, BeginJobCourse, EnterActionCourse, LeaveActionCourse
  <1>3. CASE TCDSTurns \/ AMC13Starts \/ AMC13Pauses \/ AMC13Resumes \/ AMC13Stops
    BY <1>3, PlainManagersCourse
  <1>4. ASSUME NEW c \in Cards, GLIBStarts(c) \/ GLIBPauses(c) \/ GLIBStops(c)
                                \/ OptoHybridStarts(c) \/ OptoHybridPauses(c) \/ OptoHybridStops(c)
        PROVE  Course'
    BY <1>4, StartsCourse, GLIBPausesCourse, OptoHybridPausesCourse, StopsCourse
  <1>5. ASSUME NEW m \in {"GLIBManager", "OptoHybridManager"}, CardsResume(m) PROVE Course'
    BY <1>5, CardsResumeCourse
  <1>6. CASE EndScanPoint \/ FirePause \/ FireResume \/ ReplySentTriggers
    BY <1>6, EndScanPointCourse, FirePauseCourse, FireResumeCourse, ReplySentCourse
  <1>7. CASE TimeExpires \/ Trigger
    BY <1>7, TimeExpiresCourse, TriggerCourse
  <1>8. ASSUME NEW c \in Cards, Build(c) PROVE Course'
    BY <1>8, BuildCourse
  <1>9. ASSUME NEW m \in {"GLIBManager", "OptoHybridManager"}, NEW c \in Cards, CardIsLost(m, c)
        PROVE  Course'
    BY <1>9, CardIsLostCourse
  <1>10. CASE UNCHANGED scanVars
    <2>1. UNCHANGED <<scan, scanParameter, updated, endpoint, events, state, acting, job, remaining, gone,
                      timing, seen, firing, made, fifo, runParam, frontEnd, last>>
      BY <1>10 DEF scanVars, machineVars, pointVars, amc13Vars, cardVars, outerVars
    <2>2. QED BY <2>1, SamePending, SameEvents, SameState, SameActing, SameCount DEF Course
  <1>11. QED
    BY <1>1, <1>2, <1>3, <1>4, <1>5, <1>6, <1>7, <1>8, <1>9, <1>10
    DEF ScanNext, MachineSteps, JobSteps, EndpointSteps

(* Only the operator's commands are counted, and the count never falls.                 *)
LEMMA CommandsGrow ==
  ASSUME [ScanNext]_scanVars
  PROVE  \/ commands' = commands /\ \A c \in Operator : commands \in Nat => ~OperatorCommand(c)
         \/ commands' = commands + 1 /\ \E c \in Operator : OperatorCommand(c)
  <1> USE DEF machineVars, pointVars, amc13Vars, cardVars, outerVars
  <1>1. CASE \E c \in Operator : OperatorCommand(c)
    BY <1>1 DEF OperatorCommand
  <1>2. CASE ~\E c \in Operator : OperatorCommand(c)
    <2>1. JobSteps => commands' = commands
      BY DEF JobSteps, BeginJob, EnterAction, LeaveAction, TCDSTurns, AMC13Starts, AMC13Pauses, AMC13Resumes,
             AMC13Stops, GLIBStarts, GLIBPauses, GLIBStops, OptoHybridStarts, OptoHybridPauses, OptoHybridStops,
             CardsResume
    <2>2. EndpointSteps \/ MachineSteps \/ TimeExpires \/ Trigger => commands' = commands
      BY DEF EndpointSteps, EndScanPoint, FirePause, FireResume, ReplySentTriggers, MachineSteps, HandleEvent,
             ErrorIsSeen, TimeExpires, Trigger
    <2>3. /\ \A c \in Cards : Build(c) => commands' = commands
          /\ \A m, c : CardIsLost(m, c) => commands' = commands
          /\ UNCHANGED scanVars => commands' = commands
      BY DEF Build, CardIsLost, scanVars
    <2>4. QED BY <1>2, <2>1, <2>2, <2>3 DEF ScanNext
  <1>3. QED BY <1>1, <1>2

(* The invariant holds at first.                                                        *)
LEMMA InitCourseInv ==
  ScanInit => CourseInv
  <1> SUFFICES ASSUME ScanInit PROVE CourseInv
    OBVIOUS
  <1>1. ScanInv /\ scan \in Scans
    BY InitScanInv DEF ScanInit
  <1>2. /\ scan.min \in Nat /\ scan.step \in Nat /\ scan.min + scan.step < WordSize
        /\ NTriggers \in Nat /\ WordSize \in Nat
    BY <1>1, ScanFacts
  <1>3. \A x : ~Happens(x)
    BY DEF ScanInit, Happens
  <1>4. Idle /\ AtMinimum /\ events = <<>> /\ state = "Configured" /\ ~acting /\ commands = 0
    BY DEF ScanInit, Idle, AtMinimum, Cut, GLIBConfigured
  <1>5. FailedInv
    BY <1>3 DEF ScanInit, FailedInv
  <1>6. PendingInv
    BY <1>2 DEF ScanInit, PendingInv
  <1>7. EventsInv /\ StateInv /\ ActingInv
    BY <1>3, <1>4 DEF EventsInv, StateInv, ActingInv, Fresh
  <1>8. CountInv
    <2>1. made \in [Cards -> Nat] /\ \A c \in Cards : made[c] = 0 /\ fifo[c] = <<>>
      BY DEF ScanInit
    <2>2. ASSUME NEW c \in Cards PROVE Counted(c)
      <3>1. Len(fifo[c]) = 0
        BY <2>1
      <3>2. QED BY <1>4, <2>1, <3>1 DEF Counted, Idle
    <2>3. QED BY <1>4, <2>1, <2>2 DEF CountInv, Idle
  <1>9. QED BY <1>4, <1>5, <1>6, <1>7, <1>8 DEF CourseInv, Course

(* Every step preserves the invariant.                                                  *)
LEMMA NextCourseInv ==
  ASSUME ScanInv, CourseInv, [ScanNext]_scanVars
  PROVE  CourseInv'
  <1>1. FailedInv' /\ FailedInv /\ commands \in Nat
    BY FailedHolds DEF CourseInv
  <1>2. CASE commands' = commands /\ \A c \in Operator : ~OperatorCommand(c)
    <2>1. commands <= 1 => Course'
      BY <1>2, CourseGoesOn DEF CourseInv
    <2>2. commands = 0 => state' = "Configured" /\ Idle' /\ AtMinimum' /\ events' = <<>>
      BY <1>1, <1>2, NothingMoves DEF CourseInv
    <2>3. QED BY <1>1, <1>2, <2>1, <2>2 DEF CourseInv
  <1>3. ASSUME commands' = commands + 1, NEW c \in Operator, OperatorCommand(c)
        PROVE  CourseInv'
    <2>1. commands = 0 => Course'
      BY <1>3, OperatorCourse DEF CourseInv
    <2>2. commands' \in Nat /\ commands' # 0 /\ (commands' <= 1 => commands = 0)
      BY <1>1, <1>3
    <2>3. QED BY <1>1, <2>1, <2>2 DEF CourseInv
  <1>4. QED BY <1>1, <1>2, <1>3, CommandsGrow

(* The invariant holds in every reachable state.                                        *)
LEMMA CourseInvHolds ==
  ScanSpec => []CourseInv
  <1>1. ScanInit => CourseInv
    BY InitCourseInv
  <1>2. ScanInv /\ CourseInv /\ [ScanNext]_scanVars => CourseInv'
    BY NextCourseInv
  <1>3. QED BY <1>1, <1>2, ScanInvHolds, PTL DEF ScanSpec

(* Between points the supervisor, every card's label and every card's VFATs are at the same   *)
(* point, although each of the three counts it by itself.                               *)
THEOREM PointIsAlwaysAgreed ==
  ScanSpec => []PointIsAgreed
  <1>1. CourseInv => PointIsAgreed
    <2> SUFFICES ASSUME CourseInv, state = "Running", Undisturbed, scanParameter # scan.min, NEW c \in Cards
                 PROVE  runParam[c] = scanParameter % RegisterSize /\ frontEnd[c] = runParam[c]
      BY DEF PointIsAgreed, Shows
    <2>1. AllAt(scanParameter)
      BY DEF CourseInv, Course, StateInv, Undisturbed
    <2>2. QED BY <2>1 DEF AllAt, Cut
  <1>2. QED BY <1>1, CourseInvHolds, PTL

(* No label changes before the card has built as many events of the point as were asked      *)
(* for: the end of a point is seen by the number of triggers, and the label waits for what    *)
(* is still to be built.                                                          *)
THEOREM PointsAreAlwaysFull ==
  ScanSpec => PointsAreFull
  <1>1. ASSUME ScanInv, CourseInv, [ScanNext]_scanVars
        PROVE  \A c \in Cards : runParam'[c] # runParam[c] /\ Undisturbed => made[c] >= NTriggers
    <2> SUFFICES ASSUME NEW c \in Cards, runParam'[c] # runParam[c], commands = 1
                 PROVE  made[c] >= NTriggers
      BY DEF Undisturbed
    <2>1. FailedInv /\ Course
      BY <1>1 DEF CourseInv
    <2>2. PICK d \in Cards : GLIBPauses(d)
      <3> USE DEF machineVars, pointVars, amc13Vars, cardVars, outerVars
      <3>1. EndpointSteps \/ MachineSteps \/ TimeExpires \/ Trigger \/ UNCHANGED scanVars => runParam' = runParam
        BY DEF EndpointSteps, EndScanPoint, FirePause, FireResume, ReplySentTriggers, MachineSteps, HandleEvent,
               ErrorIsSeen, TimeExpires, Trigger, scanVars
      <3>2. /\ \A e \in Cards : Build(e) => runParam' = runParam
            /\ \A m, e : CardIsLost(m, e) => runParam' = runParam
            /\ \A e \in Operator : OperatorCommand(e) => runParam' = runParam
        BY DEF Build, CardIsLost, OperatorCommand
      <3>3. JobSteps => runParam' = runParam \/ \E e \in Cards : GLIBPauses(e)
        BY DEF JobSteps, BeginJob, EnterAction, LeaveAction, TCDSTurns, AMC13Starts, AMC13Pauses, AMC13Resumes,
               AMC13Stops, GLIBStarts, GLIBStops, OptoHybridStarts, OptoHybridPauses, OptoHybridStops, CardsResume
      <3>4. QED BY <1>1, <3>1, <3>2, <3>3 DEF ScanNext
    <2>3. Full(d) /\ fifo[d] = <<>> /\ runParam' = [runParam EXCEPT ![d] = NextPoint("GLIBManager")]
      BY <1>1, <2>1, <2>2, GLIBPausesCourse DEF GLIBPauses
    <2>4. c = d
      BY <1>1, <2>3 DEF ScanInv, ScanTypeOK
    <2>5. made[c] \in Nat
      BY <2>1 DEF Course, CountInv
    <2>6. Len(fifo[d]) = 0
      BY <2>3
    <2>7. NTriggers \in Nat
      BY TriggersFit
    <2>8. QED BY <2>3, <2>4, <2>5, <2>6, <2>7 DEF Full
  <1>2. QED BY <1>1, ScanInvHolds, CourseInvHolds, PTL DEF ScanSpec, PointsAreFull
=============================================================================
