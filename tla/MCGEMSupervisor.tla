---------------------------- MODULE MCGEMSupervisor ----------------------------
(* Model-checking instances of the supervisor. *)
EXTENDS GEMSupervisor, TLC

CONSTANTS a1, a2, a3

ThrowingAction == {"returns", "throws"}

TwoApps == {a1, a2}

ThreeApps == {a1, a2, a3}

FrontEnd == a1 :> "AMC13Manager" @@ a2 :> "AMCManager"

Triggered == a1 :> "AMC13Manager" @@ a2 :> "AMCManager" @@ a3 :> "PIController"

WholeCrate == a1 :> "AMC13Manager" @@ a2 :> "AMCManager" @@ a3 :> "OptoHybridManager"

(* Every command where the state table has an entry for it. *)
AnyOperator == {o \in SteadyStates \X Commands : o[1] \in Sources[o[2]]}

(* An operator who does not repeat what is done and does not reset. *)
SoberOperator ==
  {o \in AnyOperator : o[2] # "Reset"} \
    {<<"Configured", "Configure">>, <<"Configured", "Stop">>, <<"Halted", "Halt">>}

(* The same one once the applications are initialised, who resets a run instead *)
(* of halting it.                                                            *)
ResettingOperator ==
  {o \in SoberOperator : o[2] \notin {"Initialize", "Halt"}} \cup
    {<<"Running", "Reset">>}

(* One who starts a run and resets when it fails. *)
RecoveringOperator == {<<"Configured", "Start">>, <<"Error", "Reset">>}

(* The supervisor as Initialize and Configure have left it, at rest: SupSpec    *)
(* reaches this state without a fault.  Starting there leaves the bound on the  *)
(* requests for what comes after.                                            *)
ConfiguredInit ==
  /\ state = "Configured" /\ target = None /\ events = <<>>
  /\ jobs = <<>> /\ job = None /\ pc = "idle" /\ semaphore = "FULL"
  /\ requests = 0
  /\ child = [a \in Apps |-> "Configured"] /\ inbox = [a \in Apps |-> <<>>]
  /\ supervised = Apps /\ watched = Apps /\ timing = TRUE
  /\ known = child /\ global = "Configured"
  /\ updater = "nobody" /\ toPoll = {} /\ stateName = None
  /\ phase = "idle" /\ remaining = {} /\ commanded = {}
  /\ faults = 0

ConfiguredSpec == ConfiguredInit /\ [][SupNext]_supVars /\ SupFairness
=============================================================================
