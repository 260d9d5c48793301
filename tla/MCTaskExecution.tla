-------------------------- MODULE MCTaskExecution --------------------------
(***************************************************************************)
(* Small instances of TaskExecution for TLC.                               *)
(***************************************************************************)
EXTENDS TaskExecution, TLC

\* Runs and approvals rows are interchangeable.
RunsAndGates == Permutations(Runs) \cup Permutations(Gates)
=============================================================================
