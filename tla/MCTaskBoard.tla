---------------------------- MODULE MCTaskBoard -----------------------------
(* Instances of TaskBoard for TLC. *)
EXTENDS TaskBoard, TLC

\* The ids of tasks are interchangeable.
TaskSymmetry == Permutations(Task)
=============================================================================
