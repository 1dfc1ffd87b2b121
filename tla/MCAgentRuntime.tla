--------------------------- MODULE MCAgentRuntime ---------------------------
(***************************************************************************)
(* The agent's side, one part of it at a time: a root run, the tasks it    *)
(* gives to child processes, and the line to the Gateway.  A run sees of a *)
(* task that it starts and ends, and of the line that a call returns, so   *)
(* each is checked for itself.  part is chosen in the beginning.           *)
(***************************************************************************)
EXTENDS Naturals, Sequences

CONSTANTS Parts,
    Batches, TurnLimit, PerSegment, PerRun, Total, Preludes, MaxGoals,
    FanOut, MaxTasks, MaxEvents, QueueCap, ChanCap,
    Askers, Callers, Free, OutCap, InCap, MaxLoose

VARIABLES part,
    at, ctx, clock, turn, seg, maxSeg, limit, spoke, rounds, reason,
    batch, calls, next, group, open, goal, row, planner,
    counter, written, reused, final, after, heard, spent, refused,
    task, kind, pooled, stage, tctx, workers, record, result,
    proc, busy, waiting, said, wrote, queue, wake, sleeper, hand, chan, saw, texts, foreign,
    out, in, rhold, chold, serving, granting, asker, caller, held, others, loose

Root == INSTANCE AgentRun
Task == INSTANCE WorkerTask
Channel == INSTANCE RuntimeChannel

ASSUME AgentRunAssumption == Root!AgentRunAssumption
ASSUME WorkerTaskAssumption == Task!WorkerTaskAssumption
ASSUME ChannelAssumption == Channel!ChannelAssumption

\* Two workers beside each other and a tool after them; the goal tools.
MixedBatches == {<<"worker", "worker", "tool">>, <<"write">>, <<"complete">>}

-----------------------------------------------------------------------------
r_vars == <<at, ctx, clock, turn, seg, maxSeg, limit, spoke, rounds, reason,
            batch, calls, next, group, open, goal, row, planner,
            counter, written, reused, final, after, heard, spent, refused>>
t_vars == <<task, kind, pooled, stage, tctx, workers, record, result,
            proc, busy, waiting, said, wrote, queue, wake, sleeper, hand, chan, saw, texts, foreign>>
c_vars == <<out, in, rhold, chold, serving, granting, asker, caller, held, others, loose>>
vars == <<part, r_vars, t_vars, c_vars>>

Init ==
    /\ part \in Parts /\ Root!Init /\ Task!Init /\ Channel!Init
    /\ part # "run" => row.id = 0

Next ==
    \/ part = "run" /\ Root!Next /\ UNCHANGED <<part, t_vars, c_vars>>
    \/ part = "task" /\ Task!TaskNext /\ UNCHANGED <<part, r_vars, c_vars>>
    \/ part = "channel" /\ Channel!ChannelNext /\ UNCHANGED <<part, r_vars, t_vars>>

\* The goroutines of both processes run, calls have deadlines, and a worker has
\* its wall time.  The model, the user and the child owe nothing.
Spec ==
    /\ Init /\ [][Next]_vars
    /\ WF_vars(part = "run" /\ Root!Run /\ UNCHANGED <<part, t_vars, c_vars>>)
    /\ WF_vars(part = "task" /\ Task!Parent /\ UNCHANGED <<part, r_vars, c_vars>>)
    /\ WF_vars(part = "task" /\ Task!Expire /\ UNCHANGED <<part, r_vars, c_vars>>)
    /\ WF_vars(part = "channel" /\ Channel!Runs /\ UNCHANGED <<part, r_vars, t_vars>>)

-----------------------------------------------------------------------------
(* The properties of the parts, as their modules state them.               *)

\* Tools that are no workers run alone, and nothing follows the end of a run.
EventsInOrder == Root!Barriers /\ Root!EndIsTheEnd
\* A run stops with its goal and within its budget, whatever reports are lost.
LoopKeepsItsLimits == Root!SpentWithinBudget /\ Root!CountedAsSpent /\ Root!GoalStopsRun
\* A worker's report was heard from the first event to the last, in order, and
\* its record says what became of it; a permit that is counted is in use.
WorkerResultsWhole ==
    Task!ReportIsWhole /\ Task!RecordsAgree /\ Task!NothingForgotten /\ Channel!PermitsAccounted
\* Runs end, workers return, calls return, permits come back.  Runs, tasks and
\* calls are finitely many, so it is enough that nobody is out again and again.
EveryoneReturns == []<>(Root!RunOver /\ Task!NoWorkerOut /\ Channel!NobodyWaits)
=============================================================================
