------------------------------ MODULE AgentRun ------------------------------
(***************************************************************************)
(* One root run in its Runtime: emitRun of runtime.go with the goal loop   *)
(* of goal_loop.go.  The run's goroutine asks the model turn by turn, runs *)
(* the batch of tools it asked for, and opens another segment of turns     *)
(* while a goal is bound to the run.  Beside it work the planner, the      *)
(* workers of a batch and the calls that were given up; the user may       *)
(* cancel the run or its goal at any moment.                               *)
(*                                                                         *)
(* Left out: the texts.  An event is that it goes out, under eventMu: the  *)
(* look at the context and the write are one step, except for the last     *)
(* event.  The row of the goal is GoalLifecycle's, as this run sees it.    *)
(***************************************************************************)
EXTENDS Naturals, Sequences

CONSTANTS
    Batches,        \* what a model turn may ask for: sequences of kinds of calls
    TurnLimit,      \* effectiveProviderToolTurns of a run without a goal
    PerSegment,     \* max_tool_turns_per_segment of the goal
    PerRun,         \* max_segments_per_run
    Total,          \* max_total_tool_turns
    Preludes,       \* what a run does before it asks the model
    MaxGoals        \* goals of the session: the bound of a finite run

CallKinds == {"tool", "worker", "write", "complete"}
AgentRunAssumption ==
    /\ {TurnLimit, PerSegment, PerRun, Total, MaxGoals} \subseteq Nat \ {0}
    /\ Batches \subseteq Seq(CallKinds)
    /\ Preludes \subseteq {"plain", "tool", "stopped", "unanswered", "refused"}

VARIABLES
    at,         \* where the run's goroutine is
    ctx,        \* the run's context: live or cancelled
    clock,      \* the goal's wall time: off, on or over
    turn, seg, maxSeg, limit,
    spoke,      \* the model said something in this turn
    rounds,     \* there are tool results to go on with
    reason,     \* loopEndReason of the segment
    batch, calls, next, group,
    open,       \* calls whose start was announced and whose end was not
    goal,       \* runGoals[run]
    row,        \* the goal's row in the Gateway, and if this segment is counted
    planner,
    counter,    \* nextSeq has an entry of the run
    written, reused, final, after,  \* events: some, some number twice, the last, any after it
    heard,      \* the status of the goal the run was last told
    spent,      \* turns of the segments of the goal
    refused     \* the Gateway refused to count a segment

loop == <<turn, seg, maxSeg, spoke, rounds, reason, limit>>
tools == <<batch, calls, next, group, open>>
goals == <<goal, row, heard, spent, refused>>
wire == <<counter, written, reused, final, after>>

NoSnapshot == [id |-> 0, bound |-> FALSE, was |-> FALSE, over |-> FALSE, used |-> 0]
Seeded == [id |-> 1, bound |-> TRUE, was |-> TRUE, over |-> FALSE, used |-> 0]
Known == goal.id # 0

Init ==
    /\ at = "idle" /\ ctx = "live" /\ clock = "off"
    /\ turn = 0 /\ seg = 0 /\ maxSeg = 1 /\ spoke = FALSE /\ rounds = FALSE
    /\ reason = "none" /\ limit = TurnLimit
    /\ batch = <<>> /\ calls = <<>> /\ next = 1 /\ group = 0 /\ open = {}
    /\ goal = NoSnapshot
    /\ row \in {[id |-> 0, status |-> "none", used |-> 0, counted |-> FALSE],
                [id |-> 1, status |-> "active", used |-> 0, counted |-> FALSE]}
    /\ planner = "none"
    /\ counter = FALSE /\ written = FALSE /\ reused = FALSE /\ final = "none" /\ after = FALSE
    /\ heard = row.status /\ spent = 0 /\ refused = FALSE

-----------------------------------------------------------------------------
(* Events.                                                                 *)

\* An event takes the next number of the run and goes out.  nextSeq starts at
\* one when the run has no entry.
Emit ==
    /\ counter' = TRUE /\ written' = TRUE
    /\ reused' = (reused \/ (written /\ ~counter))
    /\ after' = (after \/ final # "none")
    /\ UNCHANGED final
Silent == UNCHANGED wire
Cancelled == ctx = "cancelled"
LoopDone == Cancelled \/ clock = "over"     \* loopCtx.Err() # nil
\* emitEvent with the context of the run, and with that of the loop.
EmitUnless(done) == IF done THEN Silent ELSE Emit

\* The finish event; what is known of the run is its status.
Finish(status) ==
    /\ final' = status /\ counter' = TRUE /\ written' = TRUE
    /\ reused' = (reused \/ (written /\ ~counter))
    /\ UNCHANGED after

-----------------------------------------------------------------------------
(* The run starts.                                                         *)

\* firstPositive(max_segments, 4), or as many segments as the rest of the
\* budget fills.
SegmentLimit(g, completed) ==
    LET remaining == Total - g.used
        want == completed + (remaining + PerSegment - 1) \div PerSegment
    IN  IF g.used >= Total \/ want <= PerRun THEN PerRun ELSE want

Accept ==
    /\ at = "idle" /\ at' = "prelude"
    /\ UNCHANGED <<ctx, clock, loop, tools, goals, planner, wire>>

\* Skills and memory are announced, the checkpoint asks for permission, a tool
\* the user typed runs; a run that gets nowhere ends here, by the cancel or not.
\* The error and the finish of a refused run are one event here.
Prelude(p) ==
    /\ at = "prelude"
    /\ CASE p = "plain" -> at' = "spawn" /\ EmitUnless(Cancelled) /\ UNCHANGED rounds
         [] p = "tool" -> at' = "spawn" /\ EmitUnless(Cancelled) /\ rounds' = TRUE
         [] p = "stopped" -> Cancelled /\ at' = "leave" /\ Finish("cancelled") /\ UNCHANGED rounds
         [] p = "unanswered" -> ~Cancelled /\ at' = "leave" /\ Emit /\ UNCHANGED rounds
         [] p = "refused" -> at' = "leave" /\ UNCHANGED rounds
                             /\ IF Cancelled THEN Silent ELSE Finish("failed")
    /\ UNCHANGED <<ctx, clock, turn, seg, maxSeg, spoke, reason, limit, tools, goals, planner>>

\* startPlannerSubAgent, and the beginning of runWithGoalLoop.
Spawn(spawns) ==
    /\ at = "spawn" /\ at' = "loop"
    /\ planner' = IF spawns THEN "starting" ELSE "none"
    /\ goal' = IF heard = "active" THEN Seeded ELSE NoSnapshot
    /\ clock' = IF goal'.bound THEN "on" ELSE "off"
    /\ maxSeg' = IF goal'.bound THEN SegmentLimit(goal', 0) ELSE 1
    /\ UNCHANGED <<ctx, turn, seg, spoke, rounds, reason, limit, tools, row, heard, spent, refused, wire>>

-----------------------------------------------------------------------------
(* A segment: turns of the model and batches of tools.                     *)

TurnsAllowed == IF Known THEN PerSegment ELSE TurnLimit
StartSegment ==
    /\ at = "loop" /\ ~LoopDone
    /\ at' = "turn" /\ turn' = 0
    /\ limit' = TurnsAllowed
    /\ row' = [row EXCEPT !.counted = FALSE]
    /\ UNCHANGED <<ctx, clock, seg, maxSeg, spoke, rounds, reason, tools, goal, heard, spent, refused, planner, wire>>

\* The loop's look at its context before a segment.
StopLoop ==
    /\ at = "loop" /\ LoopDone
    /\ IF Cancelled THEN at' = "close" /\ reason' = "cancelled" ELSE at' = "exhaust" /\ UNCHANGED reason
    /\ UNCHANGED <<ctx, clock, turn, seg, maxSeg, spoke, rounds, limit, tools, goals, planner, wire>>

EndSegment(why) == at' = "report" /\ reason' = why

\* acquireProviderPermit.  The permit is given back before the turn goes on.
AskModel ==
    /\ at = "turn" /\ turn < limit
    /\ \/ at' = "model" /\ spoke' = FALSE /\ Silent /\ UNCHANGED reason
       \/ EndSegment("failed") /\ EmitUnless(LoopDone) /\ UNCHANGED spoke
    /\ UNCHANGED <<ctx, clock, turn, seg, maxSeg, rounds, limit, tools, goals, planner>>

Speak ==
    /\ at = "model" /\ ~spoke /\ ~LoopDone
    /\ spoke' = TRUE /\ Emit
    /\ UNCHANGED <<at, ctx, clock, turn, seg, maxSeg, rounds, reason, limit, tools, goals, planner>>

\* Complete returns an error; a cancelled context explains it.
ModelFails ==
    /\ at = "model" /\ turn' = turn + 1
    /\ IF LoopDone THEN EndSegment("cancelled") /\ Silent ELSE EndSegment("failed") /\ Emit
    /\ UNCHANGED <<ctx, clock, seg, maxSeg, spoke, rounds, limit, tools, goals, planner>>

\* retryFinalAnswer, and the text made of the results if that says nothing.
Synthesize == EmitUnless(LoopDone)

\* No calls: the segment is over, after one more try for an answer in words.
ModelStops ==
    /\ at = "model" /\ turn' = turn + 1
    /\ EndSegment(IF LoopDone THEN "cancelled" ELSE "no_tools")
    /\ IF spoke \/ ~rounds THEN Silent ELSE Synthesize
    /\ UNCHANGED <<ctx, clock, seg, maxSeg, spoke, rounds, limit, tools, goals, planner>>

ModelCalls(b) ==
    /\ at = "model" /\ turn' = turn + 1
    /\ IF LoopDone
       THEN EndSegment("cancelled") /\ UNCHANGED tools
       ELSE /\ at' = "batch" /\ UNCHANGED reason
            /\ batch' = b /\ calls' = [i \in DOMAIN b |-> "waiting"] /\ next' = 1 /\ group' = 0
            /\ UNCHANGED open
    /\ UNCHANGED <<ctx, clock, seg, maxSeg, spoke, rounds, limit, goals, planner, wire>>

\* The turns are used up: an answer from what the tools said.
TurnsUp ==
    /\ at = "turn" /\ turn = limit
    /\ EndSegment("max_turns") /\ Synthesize
    /\ UNCHANGED <<ctx, clock, turn, seg, maxSeg, spoke, rounds, limit, tools, goals, planner>>

-----------------------------------------------------------------------------
(* executeToolBatch.                                                       *)

\* Mutant of GroupEnd: workers of the whole batch form one group.
GroupEndAnywhere(i) == IF batch[i] = "worker" THEN Len(batch) ELSE i
\* Adjacent subagent.run calls run together; any other call runs alone.
GroupEnd(i) ==
    IF batch[i] # "worker" THEN i
    ELSE CHOOSE e \in i..Len(batch) :
            /\ \A k \in i..e : batch[k] = "worker"
            /\ e = Len(batch) \/ batch[e + 1] # "worker"

Working == {i \in DOMAIN calls : calls[i] = "running"}

OpenGroup ==
    /\ at = "batch" /\ group < next /\ next <= Len(batch) /\ ~LoopDone
    /\ group' = GroupEnd(next)
    /\ UNCHANGED <<at, ctx, clock, loop, batch, calls, next, open, goals, planner, wire>>

\* A call starts, or its worker's goroutine finds the context done.
StartCall(i) ==
    /\ at = "batch" /\ i \in next..group /\ calls[i] = "waiting"
    /\ IF LoopDone /\ batch[i] = "worker"
       THEN calls' = [calls EXCEPT ![i] = "settled"] /\ Silent /\ UNCHANGED open
       ELSE /\ calls' = [calls EXCEPT ![i] = "running"]
            /\ IF LoopDone THEN Silent /\ UNCHANGED open ELSE Emit /\ open' = open \cup {i}
    /\ UNCHANGED <<at, ctx, clock, loop, batch, next, group, goals, planner>>

\* A call ends with its result, a refusal, or because its time is up: then the
\* tool goes on by itself and the batch without it.  The event goes out while
\* the context lives.
Ends(i) ==
    /\ at = "batch" /\ i \in DOMAIN calls /\ calls[i] = "running"
    /\ calls' = [calls EXCEPT ![i] = "settled"]
    /\ IF LoopDone THEN Silent /\ UNCHANGED open ELSE Emit /\ open' = open \ {i}
    /\ UNCHANGED <<at, ctx, clock, loop, batch, next, group, planner>>

\* applyGoalToolResult: what the run makes of a goal the Gateway returned.
\* Mutant of Learned: a binding is only ever gained.
LearnedKeepsBound(r, completes) ==
    [id |-> r.id, bound |-> goal.bound \/ r.status = "active", was |-> goal.was \/ r.status = "active",
     over |-> completes, used |-> r.used]
Learned(r, completes) ==
    [id |-> r.id, bound |-> r.status = "active" /\ ~completes, was |-> goal.was \/ r.status = "active",
     over |-> r.status = "ended" \/ completes, used |-> r.used]

Told(r, completes) == goal' = Learned(r, completes) /\ heard' = r.status
Untold == UNCHANGED <<goal, heard>>

\* goal.write with activate, goal.complete.  The Gateway may have done it although
\* the run is told that it failed; an answer that comes after that is not heard.
GoalTool(i, told) ==
    /\ i \in DOMAIN calls /\ batch[i] \in {"write", "complete"}
    /\ LET completes == batch[i] = "complete"
           allowed == (row.status = "active") = completes /\ (completes \/ row.id < MaxGoals)
           changed == IF completes THEN [row EXCEPT !.status = "ended"]
                      ELSE [id |-> row.id + 1, status |-> "active", used |-> 0, counted |-> FALSE]
       IN  IF allowed
           THEN /\ row' = changed
                /\ spent' = IF completes THEN spent ELSE 0
                /\ IF told THEN Told(changed, completes) ELSE Untold
           ELSE UNCHANGED <<row, spent>> /\ Untold
    /\ Ends(i) /\ UNCHANGED refused

EndCall(i) ==
    /\ i \in DOMAIN calls /\ batch[i] \in {"tool", "worker"}
    /\ Ends(i) /\ UNCHANGED goals

CloseGroup ==
    /\ at = "batch" /\ next <= group /\ \A i \in next..group : calls[i] = "settled"
    /\ next' = group + 1
    /\ UNCHANGED <<at, ctx, clock, loop, batch, calls, group, open, goals, planner, wire>>

\* Every call has its exchange, also the ones that were not started.
EndBatch ==
    /\ at = "batch" /\ group < next /\ (LoopDone \/ next > Len(batch))
    /\ rounds' = TRUE
    /\ IF LoopDone THEN EndSegment("cancelled") ELSE at' = "turn" /\ UNCHANGED reason
    /\ batch' = <<>> /\ calls' = <<>> /\ next' = 1 /\ group' = 0
    /\ UNCHANGED <<ctx, clock, turn, seg, maxSeg, spoke, limit, open, goals, planner, wire>>

-----------------------------------------------------------------------------
(* The end of a segment, and whether there is another.                     *)

Stay == UNCHANGED <<ctx, turn, spoke, rounds, limit, tools, planner>>

\* The Gateway counts a segment once per number, and ends a goal whose turns
\* are used up, or whose time is (over).
Counted(r, turns, over) ==
    LET used == IF r.counted THEN r.used ELSE r.used + turns
        ends == r.status = "active" /\ (over \/ used >= Total)
    IN  [r EXCEPT !.used = used, !.counted = TRUE, !.status = IF ends THEN "ended" ELSE @]

\* A goal of the session that is not the newest is over.
Past == [id |-> goal.id, status |-> "ended", used |-> Total, counted |-> TRUE]

\* What the run counts for itself when the answer is not in after 400 ms.
\* Mutant of CountedHere: turns nobody confirmed are not counted.
CountedHereNever == goal
CountedHere ==
    LET used == goal.used + turn
    IN  [goal EXCEPT !.used = used, !.over = @ \/ used >= Total, !.bound = @ /\ used < Total]

\* reportSegmentEnd.  done: the Gateway counted; told: its answer is in.
Report(done, told) ==
    /\ at = "report" /\ goal.was /\ turn > 0 /\ (told => done)
    /\ at' = "decide"
    /\ LET current == row.id = goal.id
           later == IF current /\ done THEN Counted(row, turn, FALSE) ELSE row
       IN  /\ row' = later
           /\ spent' = IF current THEN spent + turn ELSE spent
           /\ refused' = (refused \/ (current /\ ~done))
           /\ IF told THEN Told(IF current THEN later ELSE Past, FALSE)
                      ELSE goal' = CountedHere /\ UNCHANGED heard
    /\ UNCHANGED <<clock, seg, maxSeg, reason, wire>> /\ Stay

NoReport ==
    /\ at = "report" /\ ~(goal.was /\ turn > 0)
    /\ at' = "decide"
    /\ UNCHANGED <<clock, seg, maxSeg, reason, goals, wire>> /\ Stay

\* reportGoalBudgetExhausted: the wall time is over.  The turns are sent again,
\* under the number of the segment that is next when the loop was at its top.
Exhaust(done, told) ==
    /\ at = "exhaust" /\ (told => done)
    /\ at' = "close" /\ reason' = "budget"
    /\ LET current == row.id = goal.id
           later == IF current /\ done THEN Counted(row, turn, TRUE) ELSE row
       IN  /\ row' = later
           /\ IF told THEN Told(IF current THEN later ELSE Past, FALSE) ELSE Untold
    /\ UNCHANGED <<clock, seg, maxSeg, spent, refused, wire>> /\ Stay

OutOfTime == clock = "over" /\ ~Cancelled
Soft == reason \in {"no_tools", "max_turns"}
More == IF goal.bound /\ SegmentLimit(goal, seg + 1) > maxSeg THEN SegmentLimit(goal, seg + 1) ELSE maxSeg

\* The loop goes on while the goal is bound, its budget lasts and the segment
\* ended softly.
\* Mutant of GoesOn: a run opens another segment of a goal that is not its own.
GoesOnUnbound == Soft /\ ~goal.over /\ goal.used < Total /\ seg + 1 < More
GoesOn == Soft /\ ~goal.over /\ goal.bound /\ goal.used < Total /\ seg + 1 < More

Decide ==
    /\ at = "decide"
    /\ IF OutOfTime
       THEN at' = "exhaust" /\ UNCHANGED <<clock, seg, maxSeg, row>>
       ELSE /\ clock' = IF goal.bound /\ clock = "off" THEN "on" ELSE clock
            /\ IF GoesOn
               THEN at' = "loop" /\ seg' = seg + 1 /\ maxSeg' = More /\ row' = [row EXCEPT !.counted = FALSE]
               ELSE at' = "close" /\ UNCHANGED <<seg, maxSeg, row>>
    /\ UNCHANGED <<reason, goal, heard, spent, refused, wire>> /\ Stay

\* configureDeadline: the goal that began in this segment has no time left.
NoTimeLeft ==
    /\ at = "decide" /\ goal.bound /\ clock = "off"
    /\ at' = "exhaust" /\ clock' = "over" /\ turn' = 0
    /\ UNCHANGED <<ctx, seg, maxSeg, spoke, rounds, reason, limit, tools, goals, planner, wire>>

-----------------------------------------------------------------------------
(* The end of the run.                                                     *)

\* The last delta of a goal's message; the snapshots are dropped.
CloseStream ==
    /\ at = "close"
    /\ EmitUnless(Cancelled \/ ~Known)
    /\ goal' = NoSnapshot
    /\ at' = "settle"
    /\ UNCHANGED <<clock, seg, maxSeg, reason, row, heard, spent, refused>> /\ Stay

PlannerOver == planner \in {"none", "ended"}

\* Mutant of MayFinish: nobody waits for the planner.
MayFinishAtOnce == TRUE
\* <-subAgentDone, which a completed run skips when it was cancelled meanwhile.
MayFinish == PlannerOver \/ (Soft /\ Cancelled)

Settle ==
    /\ at = "settle" /\ MayFinish
    /\ IF reason = "cancelled" \/ (Soft /\ Cancelled)
       THEN at' = "leave" /\ Finish("cancelled")
       ELSE at' = "finish" /\ Silent
    /\ UNCHANGED <<clock, seg, maxSeg, reason, goals>> /\ Stay

\* emitEvent looks at the context once more.
EmitFinish ==
    /\ at = "finish" /\ at' = "leave"
    /\ IF Cancelled THEN Silent ELSE Finish(IF Soft THEN "completed" ELSE "failed")
    /\ UNCHANGED <<clock, seg, maxSeg, reason, goals>> /\ Stay

\* unregisterRun.
Leave ==
    /\ at = "leave" /\ at' = "gone" /\ counter' = FALSE
    /\ UNCHANGED <<clock, seg, maxSeg, reason, goals, written, reused, final, after>> /\ Stay

-----------------------------------------------------------------------------
(* Beside the run.                                                         *)

Apart == UNCHANGED <<at, loop, tools, heard, goal, spent, refused>>

\* The planner announces itself and works; its last event goes out even if
\* the run was cancelled.
PlannerStarts ==
    /\ planner = "starting" /\ planner' = "working"
    /\ EmitUnless(Cancelled) /\ UNCHANGED <<ctx, clock, row>> /\ Apart
PlannerEnds ==
    /\ planner = "working" /\ planner' = "ended"
    /\ (Emit \/ (Cancelled /\ Silent)) /\ UNCHANGED <<ctx, clock, row>> /\ Apart

\* agent.cancel; the goal's deadline; the user or a compaction ends or pauses
\* the goal.
Cancel ==
    /\ at \notin {"idle", "gone"} /\ ~Cancelled /\ ctx' = "cancelled"
    /\ UNCHANGED <<clock, planner, row, wire>> /\ Apart
Expire ==
    /\ clock = "on" /\ at # "gone" /\ clock' = "over"
    /\ UNCHANGED <<ctx, planner, row, wire>> /\ Apart
GoalChanges(status) ==
    /\ row.status = "active" /\ at # "gone" /\ row' = [row EXCEPT !.status = status]
    /\ UNCHANGED <<ctx, clock, planner, wire>> /\ Apart

-----------------------------------------------------------------------------
Run ==
    \/ Accept \/ (\E p \in Preludes : Prelude(p)) \/ (\E spawns \in BOOLEAN : Spawn(spawns))
    \/ StartSegment \/ StopLoop \/ AskModel \/ Speak \/ ModelFails \/ ModelStops
    \/ (\E b \in Batches : ModelCalls(b)) \/ TurnsUp
    \/ OpenGroup \/ CloseGroup \/ EndBatch
    \/ \E i \in DOMAIN calls :
          \/ StartCall(i) \/ EndCall(i)
          \/ \E told \in BOOLEAN : GoalTool(i, told)
    \/ (\E done, told \in BOOLEAN : Report(done, told) \/ Exhaust(done, told))
    \/ NoReport \/ Decide \/ NoTimeLeft \/ CloseStream \/ Settle \/ EmitFinish \/ Leave
    \/ PlannerStarts \/ PlannerEnds

Next == Run \/ Cancel \/ Expire \/ \E status \in {"ended", "paused"} : GoalChanges(status)

-----------------------------------------------------------------------------
(* Properties.                                                             *)

\* A call runs beside another only if both are workers and only workers stand
\* between them: "ordinary tools are ordering barriers" (runtime.go:1423).
Barriers ==
    \A i, j \in Working : \A k \in i..j : i # j => batch[k] = "worker"

\* A goal costs at most one segment more than its turns, unless the Gateway
\* refused to count: reports that come late, twice or not at all, and goals that
\* begin in the middle of a run, do not add up to more.
SpentWithinBudget == ~refused /\ at # "report" => spent < Total + PerSegment + (IF seg = 0 THEN TurnLimit ELSE 0)

\* While a goal is active the Gateway has counted the turns that were spent.
CountedAsSpent == row.status = "active" /\ ~refused => row.used = spent

\* No segment begins after the run was told that the goal is over or paused
\* (goal_loop.go:295).
GoalStopsRun == at = "turn" /\ turn = 0 /\ seg > 0 => heard = "active"

\* A run that completed or failed has said its last: nothing follows, its
\* numbers are not used again (runtime.go:1954), and no call is left open but by
\* the end of the goal's wall time.
EndIsTheEnd ==
    /\ final \in {"completed", "failed"} => ~after /\ ~reused
    /\ final = "completed" \/ (final = "failed" /\ clock # "over") => open = {}

\* The rest every behaviour comes to, however the model and the goal go on: a run
\* that was accepted has ended.
RunOver == at \in {"idle", "gone"}
=============================================================================
