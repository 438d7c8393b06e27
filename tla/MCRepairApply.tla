----------------------------- MODULE MCRepairApply -----------------------------
(***************************************************************************)
(* RepairApply for model checking: the processes are alike.                 *)
(***************************************************************************)
EXTENDS RepairApply, TLC

Symmetry == Permutations(Processes)

===============================================================================
