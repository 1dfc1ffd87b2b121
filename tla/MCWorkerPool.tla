---------------------------- MODULE MCWorkerPool ----------------------------
(***************************************************************************)
(* WorkerPool as TLC runs it: tasks and processes are model values, and no *)
(* symmetry is used because the run also checks liveness.                  *)
(***************************************************************************)
EXTENDS WorkerPool
=============================================================================
