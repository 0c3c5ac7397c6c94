---------------------------- MODULE MCTaskWorkflow ----------------------------
(***************************************************************************)
(* Small instances of TaskWorkflow for TLC.                                *)
(***************************************************************************)
EXTENDS TaskWorkflow, TLC

\* Every provider kind, and those whose implementer has ended when its turn
\* is recorded as completed: an OMP retry does not forget an older turn.
AllKinds   == {"codex", "claude", "omp", "api"}
QuietKinds == AllKinds \ {"omp"}

\* Where no blocker is stray, nothing tells one from another.
IssueSymmetry == Permutations(Issues)

===============================================================================
