---------------------------- MODULE GEMGlobalState ----------------------------
(***************************************************************************)
(* How gem::supervisor::GEMGlobalState makes one state out of the states of  *)
(* the supervised applications.  Two different compositions are computed:    *)
(* compositeState() of one group, by priority alone, on which the jobs of     *)
(* the supervisor wait, and the global state, which is reported to run        *)
(* control and on which the jobs wait before they begin.                      *)
(*                                                                          *)
(* States go by the names getStateName() gives them; the state of an          *)
(* application that has not been polled yet is "Null".                        *)
(***************************************************************************)
EXTENDS GEMFSM, Integers, Sequences

(* statePriority[]: the earlier state dominates a composition. *)
StatePriority ==
  <<"Resetting", "Error", "Cold-Init", "Uninitialized",
    "Initializing", "Halting", "Configuring", "Starting",
    "Stopping", "Pausing", "Resuming",
    "Initial", "Halted", "Paused", "Fixing", "Configured", "Running", "Null">>

ReportedStates == {StatePriority[i] : i \in DOMAIN StatePriority}

Priority(s) == CHOOSE i \in DOMAIN StatePriority : StatePriority[i] = s

(* The state of a set of states, "Null" for none. *)
Dominant(S) ==
  CHOOSE s \in S \cup {"Null"} : \A t \in S : Priority(s) <= Priority(t)

(* The branches of getProperCompositeState() in their order: for which        *)
(* global states the branch is taken, which two states it then looks for,      *)
(* and what it makes of their coexistence.                                    *)
Branches == <<
  [from |-> {"Initializing", "Initial"},  mix |-> {"Initial", "Halted"},     is |-> "Initializing"],
  [from |-> {"Resetting", "Halted"},      mix |-> {"Initial", "Halted"},     is |-> "Resetting"],
  [from |-> {"Configuring", "Halted"},    mix |-> {"Configured", "Halted"},  is |-> "Configuring"],
  [from |-> {"Halting", "Configured"},    mix |-> {"Configured", "Halted"},  is |-> "Halting"],
  [from |-> {"Resetting", "Configured"},  mix |-> {"Configured", "Initial"}, is |-> "Resetting"],
  [from |-> {"Starting", "Configured"},   mix |-> {"Configured", "Running"}, is |-> "Starting"],
  [from |-> {"Stopping", "Running"},      mix |-> {"Configured", "Running"}, is |-> "Stopping"],
  [from |-> {"Pausing", "Running"},       mix |-> {"Paused", "Running"},     is |-> "Pausing"],
  [from |-> {"Halting", "Running"},       mix |-> {"Halted", "Running"},     is |-> "Halting"],
  [from |-> {"Resetting", "Running"},     mix |-> {"Initial", "Running"},    is |-> "Resetting"],
  [from |-> {"Stopping", "Paused"},       mix |-> {"Configured", "Paused"},  is |-> "Stopping"],
  [from |-> {"Resuming", "Paused"},       mix |-> {"Running", "Paused"},     is |-> "Resuming"],
  [from |-> {"Halting", "Paused"},        mix |-> {"Halted", "Paused"},      is |-> "Halting"],
  [from |-> {"Resetting", "Paused"},      mix |-> {"Initial", "Paused"},     is |-> "Resetting"] >>

(* The if/else chain takes the first branch that names the present global      *)
(* state and no other: a later branch for the same state is never reached.     *)
TakenBranch(before) ==
  CHOOSE i \in DOMAIN Branches :
    /\ before \in Branches[i].from
    /\ \A j \in 1..(i - 1) : before \notin Branches[j].from

ProperCompositeState(before, present) ==
  IF "Error" \in present /\ before # "Resetting" THEN "Error"
  ELSE IF /\ \E i \in DOMAIN Branches : before \in Branches[i].from
          /\ Branches[TakenBranch(before)].mix \subseteq present
       THEN Branches[TakenBranch(before)].is
       ELSE "Null"

(* TCDS applications have no initial state, and are left out meanwhile. *)
IgnoresTCDS(before) == before \in {"Initial", "Initializing", "Resetting"}

QuietestGlobal(before, shown, fsm) ==   (* fault: pa > pg instead of pa < pg *)
  IF fsm = "Error" THEN "Error"
  ELSE IF shown = {} THEN "Null"
  ELSE CHOOSE s \in shown : \A t \in shown : Priority(s) >= Priority(t)

(* calculateGlobals(): from the global state before, the states of the         *)
(* applications taken into account and the state of the supervisor's machine.  *)
GlobalOf(before, shown, fsm) ==
  LET composite == ProperCompositeState(before, shown \cup {fsm})
  IN  IF fsm = "Error" THEN "Error"
      ELSE IF composite = "Null" THEN Dominant(shown)
      ELSE composite
=============================================================================
