--------------------------- MODULE MCGoalLifecycle ---------------------------
(***************************************************************************)
(* Instances of GoalLifecycle for TLC.                                     *)
(***************************************************************************)
EXTENDS GoalLifecycle, TLC

\* Runs and goals are interchangeable.
Symmetry == Permutations(Goals) \cup Permutations(Runs)
=============================================================================
