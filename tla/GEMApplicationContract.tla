------------------------ MODULE GEMApplicationContract ------------------------
(***************************************************************************)
(* What the supervisor relies on when it commands an application: the       *)
(* application shows one state; a command it accepts takes it to a           *)
(* transitional state; it reaches the ready state of the transition only     *)
(* after the work of the transition has been performed; a failure or a       *)
(* command that does not fit leads to "Error"; and it always answers.        *)
(***************************************************************************)
EXTENDS GEMFSM

VARIABLES
  state,      (* the state the application shows                 *)
  performed   (* the work of the current transition is complete  *)

contractVars == <<state, performed>>

Init == state = "Initial" /\ performed = FALSE

Accept(c) ==
  /\ AcceptsCommand(state, c)
  /\ state' = Via[c]
  /\ UNCHANGED performed

Refuse ==
  /\ state \in SteadyStates
  /\ state' = "Error"
  /\ UNCHANGED performed

Perform ==
  /\ state \in TransitionalStates
  /\ ~performed
  /\ performed' = TRUE
  /\ UNCHANGED state

Settle ==
  /\ performed
  /\ state' = Settled[state]
  /\ performed' = FALSE

Fail ==
  /\ state \in TransitionalStates
  /\ ~performed
  /\ state' = "Error"
  /\ UNCHANGED performed

Answer == Perform \/ Settle \/ Fail

Next == (\E c \in Commands : Accept(c)) \/ Refuse \/ Answer

Spec == Init /\ [][Next]_contractVars

FairSpec == Spec /\ WF_contractVars(Answer)
=============================================================================
