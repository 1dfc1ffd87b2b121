---------------------------- MODULE MCRunLifecycle ----------------------------
(***************************************************************************)
(* Instances of RunLifecycle for TLC.                                      *)
(***************************************************************************)
EXTENDS RunLifecycle, TLC

CONSTANTS r1, r2, s1, s2

OneSession == (r1 :> s1) @@ (r2 :> s1)

Setup(runs, events, faults) == [runs |-> runs, events |-> events, faults |-> faults]

\* Two runs without faults, and one run with every fault.
CalmOrFaulty ==
    {Setup({r1, r2}, 1, {}),
     Setup({r1}, 1, {"exit", "slowReply", "workerError", "restart", "lateCancel"})}

\* Two runs whose calls may time out.
SlowReplies == {Setup({r1, r2}, 1, {"slowReply"})}

\* Two runs whose processes may exit.
Exits == {Setup({r1, r2}, 1, {"exit"})}
=============================================================================
