-------------------------- MODULE MCResourceBudget --------------------------
(***************************************************************************)
(* Instances of ResourceBudget for TLC.  The parameters of a call, fixed   *)
(* by its client, are given here as functions.                             *)
(***************************************************************************)
EXTENDS ResourceBudget, TLC

CONSTANTS c1, c2, c3, c4, r1, r2, p1, p2, p3

\* Two root runs with their workers.
TwoRuns == c1 :> r1 @@ c2 :> r1 @@ c3 :> r2 @@ c4 :> r2

\* Two calls of a run share a permit id, made when the clock repeated a value;
\* the others have one of their own.
OneShared == c1 :> p1 @@ c2 :> p1 @@ c3 :> p2 @@ c4 :> p3
=============================================================================
