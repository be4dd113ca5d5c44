------------------------------- MODULE GEMFSM -------------------------------
(***************************************************************************)
(* The state table that the constructor of gem::base::GEMFSM registers     *)
(* with the XDAQ toolbox.  Every GEM application and the supervisor itself  *)
(* carry one instance of it.                                               *)
(*                                                                         *)
(* A command moves the machine from one of its source states to a          *)
(* transitional state; the confirmation that the workloop job fires when    *)
(* the work is done moves it on to a terminal state.  An event with no      *)
(* entry in the table reaches invalidAction(), which raises, and the        *)
(* toolbox then puts the machine in its failed state.                      *)
(***************************************************************************)

Commands == {"Initialize", "Configure", "Start", "Pause",
             "Resume", "Stop", "Halt", "Reset"}

Confirmations == {"IsInitial", "IsHalted", "IsConfigured", "IsRunning", "IsPaused"}

Events == Commands \cup Confirmations \cup {"Fail"}

TransitionalStates == {"Initializing", "Configuring", "Halting", "Pausing",
                       "Stopping", "Starting", "Resuming", "Resetting"}

ReadyStates == {"Initial", "Halted", "Configured", "Running", "Paused"}

SteadyStates == ReadyStates \cup {"Error"}

States == TransitionalStates \cup SteadyStates

(* The states in which the table has an entry for the command. *)
Sources == [c \in Commands |->
  CASE c = "Initialize" -> {"Initial"}
    [] c = "Configure"  -> {"Halted", "Configured"}
    [] c = "Start"      -> {"Configured"}
    [] c = "Pause"      -> {"Running"}
    [] c = "Resume"     -> {"Paused"}
    [] c = "Stop"       -> {"Configured", "Running", "Paused"}
    [] c = "Halt"       -> {"Configured", "Running", "Error", "Halted", "Paused"}
    [] c = "Reset"      -> SteadyStates]

(* The transitional state the command leads to, whatever its source. *)
Via == [c \in Commands |->
  CASE c = "Initialize" -> "Initializing"
    [] c = "Configure"  -> "Configuring"
    [] c = "Start"      -> "Starting"
    [] c = "Pause"      -> "Pausing"
    [] c = "Resume"     -> "Resuming"
    [] c = "Stop"       -> "Stopping"
    [] c = "Halt"       -> "Halting"
    [] c = "Reset"      -> "Resetting"]

(* The confirmation that ends a transitional state, which is also the one  *)
(* the job of that transition fires when its action returns.               *)
Confirmation == [s \in TransitionalStates |->
  CASE s \in {"Initializing", "Halting"} -> "IsHalted"
    [] s \in {"Configuring", "Stopping"} -> "IsConfigured"
    [] s \in {"Starting", "Resuming"}    -> "IsRunning"
    [] s = "Pausing"                     -> "IsPaused"
    [] s = "Resetting"                   -> "IsInitial"]

(* The terminal state that a confirmed transition reaches. *)
Settled == [s \in TransitionalStates |->
  CASE s \in {"Initializing", "Halting"} -> "Halted"
    [] s \in {"Configuring", "Stopping"} -> "Configured"
    [] s \in {"Starting", "Resuming"}    -> "Running"
    [] s = "Pausing"                     -> "Paused"
    [] s = "Resetting"                   -> "Initial"]

AcceptsCommand(s, e) == e \in Commands /\ s \in Sources[e]

AcceptsConfirmation(s, e) == s \in TransitionalStates /\ e = Confirmation[s]

(* Where an event takes the machine.  "Fail" has entries from the          *)
(* transitional states only; from a steady state it is an invalid input,    *)
(* and both end in "Error".                                                *)
Successor(s, e) ==
  IF AcceptsCommand(s, e) THEN Via[e]
  ELSE IF AcceptsConfirmation(s, e) THEN Settled[s]
  ELSE "Error"
=============================================================================
