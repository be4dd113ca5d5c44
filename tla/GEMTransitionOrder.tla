-------------------------- MODULE GEMTransitionOrder --------------------------
(***************************************************************************)
(* The order in which the supervisor takes its applications through a         *)
(* transition: applications of a higher priority go first, those of the same   *)
(* priority together.  Priorities go by the class of the application.         *)
(***************************************************************************)
EXTENDS GEMFSM, Integers

TCDSClasses == {"LPMController", "ICIController", "PIController"}

AMCClasses == {"GLIBManager", "CTP7Manager", "AMCManager"}

Classes == TCDSClasses \cup AMCClasses \cup
  {"gemCrate", "AMC13Manager", "OptoHybridManager", "AMC13Readout",
   "gemPartitionViewer", "other"}

(* Of Initialize and Configure. *)
InitPriority == [k \in Classes |->
  CASE k = "gemCrate"           -> 200
    [] k = "LPMController"      -> 102
    [] k = "ICIController"      -> 101
    [] k = "PIController"       -> 100
    [] k = "AMC13Manager"       ->  95
    [] k \in AMCClasses         ->  90
    [] k = "OptoHybridManager"  ->  55
    [] k = "AMC13Readout"       ->  30
    [] k = "gemPartitionViewer" ->  10
    [] OTHER                    ->  50]

(* Of Start and Resume. *)
EnablePriority == [k \in Classes |->
  CASE k = "OptoHybridManager"  -> 105
    [] k \in AMCClasses         -> 100
    [] k = "AMC13Readout"       ->  90
    [] k = "AMC13Manager"       ->  35
    [] k = "LPMController"      ->  12
    [] k = "PIController"       ->  11
    [] k = "ICIController"      ->  10
    [] OTHER                    ->  50]

(* Of Pause, Stop and Halt. *)
DisablePriority == [k \in Classes |->
  CASE k = "LPMController"      -> 102
    [] k = "ICIController"      -> 101
    [] k = "PIController"       -> 100
    [] k = "AMC13Manager"       ->  95
    [] k \in AMCClasses         ->  70
    [] k = "OptoHybridManager"  ->  65
    [] k = "AMC13Readout"       ->  60
    [] OTHER                    ->  50]

RankOfDisable(c, k) ==         (* fault: one order serves every command *)
  DisablePriority[k]

(* resetAction() goes through its list without regard to classes. *)
Rank(c, k) ==
  CASE c \in {"Initialize", "Configure"}  -> InitPriority[k]
    [] c \in {"Start", "Resume"}          -> EnablePriority[k]
    [] c \in {"Pause", "Stop", "Halt"}    -> DisablePriority[k]
    [] c = "Reset"                        -> 0
=============================================================================
