---------------------------- MODULE GoalLifecycle ----------------------------
(***************************************************************************)
(* The goals of one session: service/goal.go over repository/goal.go, with *)
(* the calls run.go makes when a run starts, is cancelled, ends or is      *)
(* found stale after a restart.                                            *)
(*                                                                         *)
(* Every operation reads rows, decides, and writes with a conditional      *)
(* UPDATE.  Reads and writes of different goroutines interleave: an        *)
(* operation that has read and not written yet is a record of ops.         *)
(*                                                                         *)
(* Left out: the text columns (goal.checkpoint writes nothing else), the   *)
(* wall-time budget (it ends a goal where the turn budget does) and the    *)
(* limit of twenty rows.                                                   *)
(***************************************************************************)
EXTENDS Naturals, FiniteSets

CONSTANTS
    Goals, Runs, NoGoal, NoRun,
    Segments,   \* segment indices of a run
    MaxTurns,   \* max_total_tool_turns; a segment counts one turn
    MaxOps,     \* operations in flight, and
    MaxCounted  \* goals with recorded segments: the bounds of a finite run

ASSUME NoneAssumption == NoGoal \notin Goals /\ NoRun \notin Runs
ASSUME TurnsAssumption == MaxTurns \in Nat \ {0}

VARIABLES
    goal,       \* rows of goals
    segs,       \* rows of goal_segments
    run,        \* status of a run record: new, active or ended
    goalOf,     \* run_records.goal_id
    proc,       \* the Runtime of a run: none, alive, finished or died
    ops,        \* operations between their reads and their write
    up          \* the Gateway serves requests

vars == <<goal, segs, run, goalOf, proc, ops, up>>

Open     == {"pending", "active", "paused"}
Terminal == {"succeeded", "failed", "cancelled"}

Absent == [status |-> "none", owner |-> NoRun, last |-> NoRun, used |-> 0]

Init ==
    /\ goal = [g \in Goals |-> Absent]
    /\ segs = {}
    /\ run = [r \in Runs |-> "new"]
    /\ goalOf = [r \in Runs |-> NoGoal]
    /\ proc = [r \in Runs |-> "none"]
    /\ ops = {}
    /\ up = TRUE

-----------------------------------------------------------------------------
\* An operation in flight: what it is, for which run, on which goal, the row it
\* has read, and its arguments.
Op(kind, r, g, row, arg) == [kind |-> kind, run |-> r, goal |-> g, row |-> row, arg |-> arg]

\* The columns of a row that the write after the read looks at.
Seen(g) == [goal[g] EXCEPT !.used = 0]

Begin(o) == Cardinality(ops) < MaxOps /\ ops' = ops \cup {o}
Become(o, p) == ops' = (ops \ {o}) \cup {p}
End(o) == ops' = ops \ {o}

Quiet(r) == \A o \in ops : o.run # r

ActiveGoals == {g \in Goals : goal[g].status = "active"}
Others(g) == ActiveGoals \ {g}

\* Mutant of Unique: no partial unique index.
NotUnique(g, status) == g \in Goals

\* idx_goals_one_active: a write that would make a second goal active fails.
Unique(g, status) == status = "active" => Others(g) = {}

\* TransitionStatus: the row changes if it still has one of the statuses and,
\* when an owner is given, still belongs to it.
Matches(g, from, owner) ==
    /\ goal[g].status \in from
    /\ owner # NoRun => goal[g].owner = owner

Write(g, status, owner, last) ==
    goal' = [goal EXCEPT ![g].status = status, ![g].owner = owner, ![g].last = last]

Transition(g, from, filter, status, owner, last) ==
    IF Matches(g, from, filter) /\ Unique(g, status)
    THEN Write(g, status, owner, last)
    ELSE UNCHANGED goal

-----------------------------------------------------------------------------
(* Goals and runs come into being.                                         *)

\* A goal that is not there yet, nor on its way.
New(g) == goal[g] = Absent /\ \A o \in ops : o.goal # g

\* CreateUserInitiated repairs first; so does ContinueGoal before it calls Start.
CreateUserInitiated(g) ==
    /\ up
    /\ New(g)
    /\ Begin(Op("repair", NoRun, g, Absent, 1))
    /\ UNCHANGED <<goal, segs, run, goalOf, proc, up>>

ContinueGoal ==
    /\ up
    /\ Begin(Op("repair", NoRun, NoGoal, Absent, 1))
    /\ UNCHANGED <<goal, segs, run, goalOf, proc, up>>

\* RunService.Start, once the run record is reserved: one run of a session at a
\* time.  The run may name a goal or have one created.  Stale goals are repaired
\* before the options are looked at, in CreateUserInitiated and in BindToRun.
StartRun(r, g) ==
    /\ up
    /\ run[r] = "new"
    /\ \A q \in Runs : run[q] # "active"
    /\ g # NoGoal => goal[g] # Absent \/ New(g)
    /\ run' = [run EXCEPT ![r] = "active"]
    /\ Begin(Op("repair", r, g, Absent, IF g = NoGoal THEN 1 ELSE 2))
    /\ UNCHANGED <<goal, segs, goalOf, proc, up>>

\* RepairStaleActive finds an active goal whose run is not active any more.
Stale(g) == goal[g].status = "active" /\ goal[g].owner # NoRun
            /\ run[goal[g].owner] # "active"

\* What follows a repair: one more, the creation of the goal, the bind of a run,
\* or nothing.
AfterRepair(o) ==
    CASE o.arg = 2 -> Become(o, Op("repair", o.run, o.goal, Absent, 1))
      [] o.arg = 1 /\ o.goal # NoGoal /\ goal[o.goal] = Absent ->
           Become(o, Op("create", o.run, o.goal, Absent, 0))
      [] o.arg = 1 /\ o.goal = NoGoal /\ o.run = NoRun -> End(o)
      [] OTHER -> Become(o, Op("bind", o.run, o.goal, Absent, 0))

RepairRead(o) ==
    /\ o.kind = "repair" /\ o.row = Absent
    /\ \/ \E g \in Goals : /\ Stale(g)
                           /\ Become(o, [o EXCEPT !.row = [id |-> g, row |-> Seen(g)]])
       \/ /\ \A g \in Goals : ~ Stale(g)
          /\ AfterRepair(o)
    /\ UNCHANGED <<goal, segs, run, goalOf, proc, up>>

\* forcePauseStale
RepairWrite(o) ==
    /\ o.kind = "repair" /\ o.row # Absent
    /\ Transition(o.row.id, {"active"}, o.row.row.owner, "paused", NoRun, o.row.row.owner)
    /\ AfterRepair(o)
    /\ UNCHANGED <<segs, run, goalOf, proc, up>>

\* Start gives up: the run record fails.
StartFails(o) ==
    /\ run' = [run EXCEPT ![o.run] = "ended"]
    /\ End(o)
    /\ UNCHANGED <<goal, segs, goalOf, proc, up>>

\* The rest of CreateUserInitiated, for a user or for a run with create_goal.
CreatePending(o) ==
    /\ o.kind = "create"
    /\ IF ActiveGoals # {}
       THEN IF o.run = NoRun THEN End(o) /\ UNCHANGED <<goal, segs, run, goalOf, proc, up>>
            ELSE StartFails(o)
       ELSE /\ goal' = [goal EXCEPT ![o.goal].status = "pending"]
            /\ IF o.run = NoRun THEN End(o)
               ELSE Become(o, Op("repair", o.run, o.goal, Absent, 1))
            /\ UNCHANGED <<segs, run, goalOf, proc, up>>

\* Start reaches the Runtime: from here on tools and events arrive.
Launch(o) ==
    /\ proc' = [proc EXCEPT ![o.run] = "alive"]
    /\ Become(o, Op("reply", o.run, o.goal, Absent, 0))

\* BindToRun up to its checks; a run without a goal goes straight on.
BindRead(o) ==
    /\ o.kind = "bind" /\ o.row = Absent
    /\ \/ /\ o.goal = NoGoal
          /\ Launch(o)
          /\ UNCHANGED <<goal, segs, run, goalOf, up>>
       \/ /\ o.goal # NoGoal
          /\ IF \/ goal[o.goal].status \in Terminal
                \/ goal[o.goal].status = "active" /\ goal[o.goal].owner \notin {NoRun, o.run}
                \/ Others(o.goal) # {}
             THEN StartFails(o)
             ELSE /\ Become(o, [o EXCEPT !.row = Seen(o.goal)])
                  /\ UNCHANGED <<goal, segs, run, goalOf, proc, up>>

BindWrite(o) ==
    /\ o.kind = "bind" /\ o.row # Absent
    /\ IF Matches(o.goal, {o.row.status}, o.row.owner) /\ Unique(o.goal, "active")
       THEN /\ Write(o.goal, "active", o.run, o.run)
            /\ goalOf' = [goalOf EXCEPT ![o.run] = o.goal]
            /\ Launch(o)
            /\ UNCHANGED <<segs, run, up>>
       ELSE StartFails(o)

ReplyAccepted(o) ==
    /\ o.kind = "reply"
    /\ End(o)
    /\ UNCHANGED <<goal, segs, run, goalOf, proc, up>>

\* The call timed out or its caller went away.  The goal is paused first, then
\* the record ends; a shared Runtime keeps working on the run.
ReplyFailed(o) ==
    /\ o.kind = "reply"
    /\ proc' \in {proc, [proc EXCEPT ![o.run] = "died"]}
    /\ Become(o, Op("pauseAndEnd", o.run, NoGoal, Absent, 0))
    /\ UNCHANGED <<goal, segs, run, goalOf, up>>

-----------------------------------------------------------------------------
(* Pauses.                                                                 *)

\* The rows PauseByRun may pick: the one the run owns, else one it last owned.
RowsOf(r) ==
    LET owned == {g \in Goals : goal[g].owner = r}
    IN  IF owned # {} THEN owned ELSE {g \in Goals : goal[g].last = r}

\* RunService.Cancel pauses before it tells the Runtime.
CancelRun(r) ==
    /\ up
    /\ run[r] # "new"
    /\ Begin(Op("pause", r, NoGoal, Absent, 0))
    /\ UNCHANGED <<goal, segs, run, goalOf, proc, up>>

\* The run record of a failed Start ends after the pause.
AfterPause(o) ==
    run' = IF o.kind = "pauseAndEnd" THEN [run EXCEPT ![o.run] = "ended"] ELSE run

Pauses == {"pause", "pauseAndEnd"}

PauseRead(o) ==
    /\ o.kind \in Pauses /\ o.row = Absent
    /\ \/ \E g \in RowsOf(o.run) :
            /\ goal[g].status = "active"
            /\ Become(o, Op(o.kind, o.run, g, Seen(g), 0))
            /\ UNCHANGED run
       \/ /\ RowsOf(o.run) = {} \/ \E g \in RowsOf(o.run) : goal[g].status # "active"
          /\ End(o)
          /\ AfterPause(o)
    /\ UNCHANGED <<goal, segs, goalOf, proc, up>>

PauseWrite(o) ==
    /\ o.kind \in Pauses /\ o.row # Absent
    /\ Transition(o.goal, {"active"}, o.run, "paused", NoRun, o.run)
    /\ End(o)
    /\ AfterPause(o)
    /\ UNCHANGED <<segs, goalOf, proc, up>>

\* PauseBySession, called by a compaction.
CompactRead(g) ==
    /\ up
    /\ goal[g].status = "active"
    /\ Begin(Op("compact", NoRun, g, Seen(g), 0))
    /\ UNCHANGED <<goal, segs, run, goalOf, proc, up>>

CompactWrite(o) ==
    /\ o.kind = "compact"
    /\ Transition(o.goal, {"active"}, o.row.owner, "paused", NoRun, o.row.owner)
    /\ End(o)
    /\ UNCHANGED <<segs, run, goalOf, proc, up>>

-----------------------------------------------------------------------------
(* Goal tools of a run, one at a time: one reader serves a Runtime.        *)

ReaderKinds == {"write", "update", "complete", "segment", "cancel", "terminal"}
ReaderIdle(r) == \A o \in ops : o.run = r => o.kind \notin ReaderKinds
Reader(r) == up /\ proc[r] = "alive" /\ ReaderIdle(r)

\* goal.write
WritePending(r, g) ==
    /\ Reader(r)
    /\ New(g)
    /\ goal' = [goal EXCEPT ![g].status = "pending"]
    /\ UNCHANGED <<segs, run, goalOf, proc, ops, up>>

\* goal.write with activate
WriteRead(r, g) ==
    /\ Reader(r)
    /\ New(g)
    /\ ActiveGoals = {}
    /\ Begin(Op("write", r, g, Absent, 0))
    /\ UNCHANGED <<goal, segs, run, goalOf, proc, up>>

WriteInsert(o) ==
    /\ o.kind = "write"
    /\ IF Unique(o.goal, "active")
       THEN /\ Write(o.goal, "active", o.run, o.run)
            /\ goalOf' = [goalOf EXCEPT ![o.run] = o.goal]
       ELSE UNCHANGED <<goal, goalOf>>
    /\ End(o)
    /\ UNCHANGED <<segs, run, proc, up>>

\* goal.update up to its checks; arg is activate.
UpdateRead(r, g, activate) ==
    /\ Reader(r)
    /\ goal[g].status \in Open
    /\ goal[g].status = "active" => goal[g].owner = r
    /\ activate /\ goal[g].status # "active" => Others(g) = {}
    /\ Begin(Op("update", r, g, Seen(g), activate))
    /\ UNCHANGED <<goal, segs, run, goalOf, proc, up>>

\* The row it writes back: status and owner as read, unless it activates.
Activates(o) == o.arg /\ o.row.status # "active"
Updated(o) ==
    IF Activates(o) THEN [o.row EXCEPT !.status = "active", !.owner = o.run, !.last = o.run]
    ELSE o.row

\* Mutant of UpdateFrom: any row may be updated.
UpdateFromAny(o) == Open \cup Terminal

UpdateFrom(o) == Open
UpdateFilter(o) == IF Updated(o).status = "active" THEN o.run ELSE NoRun

UpdateWrite(o) ==
    /\ o.kind = "update"
    /\ LET new == Updated(o)
       IN  IF Matches(o.goal, UpdateFrom(o), UpdateFilter(o)) /\ Unique(o.goal, new.status)
           THEN /\ Write(o.goal, new.status, new.owner, new.last)
                /\ goalOf' = IF new.status = "active" THEN [goalOf EXCEPT ![o.run] = o.goal]
                             ELSE goalOf
           ELSE UNCHANGED <<goal, goalOf>>
    /\ End(o)
    /\ UNCHANGED <<segs, run, proc, up>>

\* CancelGoal, for a user or for goal.update with action cancel.
CancelRead(r, g) ==
    /\ \/ up /\ r = NoRun
       \/ r \in Runs /\ Reader(r) /\ (goal[g].status = "active" => goal[g].owner = r)
    /\ goal[g].status \in Open
    /\ Begin(Op("cancel", r, g, Seen(g), 0))
    /\ UNCHANGED <<goal, segs, run, goalOf, proc, up>>

\* Mutant of CancelWrite: active_run_id not cleared.
CancelKeepsOwner(o) ==
    /\ o.kind = "cancel"
    /\ Transition(o.goal, Open, NoRun, "cancelled", o.row.owner, o.row.owner)
    /\ End(o)
    /\ UNCHANGED <<segs, run, goalOf, proc, up>>

CancelWrite(o) ==
    /\ o.kind = "cancel"
    /\ Transition(o.goal, Open, NoRun, "cancelled", NoRun, o.row.owner)
    /\ End(o)
    /\ UNCHANGED <<segs, run, goalOf, proc, up>>

\* goal.complete; arg is the status the agent reports.
CompleteRead(r, g, status) ==
    /\ Reader(r)
    /\ goal[g].status = "active" /\ goal[g].owner = r
    /\ Begin(Op("complete", r, g, Seen(g), status))
    /\ UNCHANGED <<goal, segs, run, goalOf, proc, up>>

\* Mutant of CompleteWrite: the status of the tool call, not of the goal.
CompleteVerbatim(o) ==
    /\ o.kind = "complete"
    /\ Transition(o.goal, {"active"}, o.run, "completed", NoRun, o.run)
    /\ End(o)
    /\ UNCHANGED <<segs, run, goalOf, proc, up>>

CompleteWrite(o) ==
    /\ o.kind = "complete"
    /\ Transition(o.goal, {"active"}, o.run, o.arg, NoRun, o.run)
    /\ End(o)
    /\ UNCHANGED <<segs, run, goalOf, proc, up>>

\* Mutant of NewSegment: the conflict clause dropped.
AnySegment(g, r, i) == <<g, r, i>> \in Goals \X Runs \X Segments

NewSegment(g, r, i) == <<g, r, i>> \notin segs

\* segment_end, with whatever goal of the session the run names; without a name
\* goalForTool takes the one it owns or the active one.  RecordSegment is one
\* transaction; it is left out when the Runtime reports an exhausted budget and no
\* turns ...
SegmentRecord(r, g, i) ==
    /\ Reader(r)
    /\ goal[g].status # "none"
    /\ \/ /\ Cardinality({t[1] : t \in segs} \cup {g}) <= MaxCounted
          /\ goal' = IF NewSegment(g, r, i) THEN [goal EXCEPT ![g].used = @ + 1] ELSE goal
          /\ segs' = segs \cup {<<g, r, i>>}
          /\ \E reported \in BOOLEAN : Begin(Op("segment", r, g, Absent, reported))
       \/ /\ Begin(Op("segment", r, g, Absent, TRUE))
          /\ UNCHANGED <<goal, segs>>
    /\ UNCHANGED <<run, goalOf, proc, up>>

Exhausted(g) == goal[g].used >= MaxTurns

\* ... then the goal ends if the budget is used up or the Runtime says so.  The
\* row is read again before the write; the write checks what was read.
SegmentWrite(o) ==
    /\ o.kind = "segment"
    /\ IF o.arg \/ Exhausted(o.goal)
       THEN Transition(o.goal, {"active"}, o.run, "failed", NoRun, o.run)
       ELSE UNCHANGED goal
    /\ End(o)
    /\ UNCHANGED <<segs, run, goalOf, proc, up>>

-----------------------------------------------------------------------------
(* Runs end.                                                               *)

\* Mutant of FinishEvent: the goal is not told.
FinishEventSilent(r) ==
    /\ Reader(r)
    /\ proc' = [proc EXCEPT ![r] = "finished"]
    /\ run' = [run EXCEPT ![r] = "ended"]
    /\ UNCHANGED <<goal, segs, goalOf, ops, up>>

\* HandleRuntimeEvent projects the terminal event of the run; the goal follows.
FinishEvent(r) ==
    /\ Reader(r)
    /\ proc' = [proc EXCEPT ![r] = "finished"]
    /\ run' = [run EXCEPT ![r] = "ended"]
    /\ Begin(Op("terminal", r, NoGoal, Absent, 0))
    /\ UNCHANGED <<goal, segs, goalOf, up>>

\* An error event of the root: a finish event follows it in most cases.
RootErrorEvent(r) ==
    /\ Reader(r)
    /\ run' = [run EXCEPT ![r] = "ended"]
    /\ Begin(Op("terminal", r, NoGoal, Absent, 0))
    /\ UNCHANGED <<goal, segs, goalOf, proc, up>>

\* The error event of a worker carries the root run's id.  The projection looks
\* at the role of its agent and leaves the record alone; the goal follows all
\* the same, and the run goes on without it.
WorkerErrorEvent(r) ==
    /\ Reader(r)
    /\ run[r] = "active"
    /\ Begin(Op("terminal", r, NoGoal, Absent, 0))
    /\ UNCHANGED <<goal, segs, run, goalOf, proc, up>>

\* The process dies: another goroutine reports it, perhaps while the reader is
\* still in the middle of a request.
ProcessDies(r) ==
    /\ up
    /\ proc[r] = "alive"
    /\ proc' = [proc EXCEPT ![r] = "died"]
    /\ run' = [run EXCEPT ![r] = "ended"]
    /\ Begin(Op("terminal", r, NoGoal, Absent, 1))
    /\ UNCHANGED <<goal, segs, goalOf, up>>

\* resolveGoalForRun
GoalsForRun(r) == IF goalOf[r] # NoGoal THEN {goalOf[r]} ELSE RowsOf(r)

\* OnRootRunTerminal; arg of the read operation is the status it decides on.
TerminalRead(o) ==
    /\ o.kind = "terminal" /\ o.row = Absent
    /\ \/ \E g \in GoalsForRun(o.run), reported \in BOOLEAN :
            /\ goal[g].status = "active"
            /\ Become(o, Op("terminal", o.run, g, Seen(g),
                            IF reported \/ Exhausted(g) THEN "failed" ELSE "paused"))
       \/ /\ GoalsForRun(o.run) = {} \/ \E g \in GoalsForRun(o.run) : goal[g].status # "active"
          /\ End(o)
    /\ UNCHANGED <<goal, segs, run, goalOf, proc, up>>

\* Mutant of TerminalWrite: any owner matches.
TerminalWriteAnyOwner(o) ==
    /\ o.kind = "terminal" /\ o.row # Absent
    /\ Transition(o.goal, Open, NoRun, o.arg, NoRun, o.run)
    /\ End(o)
    /\ UNCHANGED <<segs, run, goalOf, proc, up>>

TerminalWrite(o) ==
    /\ o.kind = "terminal" /\ o.row # Absent
    /\ Transition(o.goal, {"active"}, o.run, o.arg, NoRun, o.run)
    /\ End(o)
    /\ UNCHANGED <<segs, run, goalOf, proc, up>>

\* The Gateway stops and takes the Runtimes with it.  A run whose end was still
\* being handled counts as died: its record may have ended while its goal is
\* active, until RepairRead finds it, and FinishReleasesGoal is not about it.
GatewayStops ==
    /\ up' = FALSE
    /\ ops' = {}
    /\ proc' = [r \in Runs |-> IF proc[r] # "none" /\ ~(proc[r] = "finished" /\ Quiet(r))
                               THEN "died" ELSE proc[r]]
    /\ UNCHANGED <<goal, segs, run, goalOf>>

\* ReconcileStaleRuns: the record ends, then the goal is paused.
ReconcileRun(r) ==
    /\ ~up
    /\ ops = {}
    /\ run[r] = "active"
    /\ run' = [run EXCEPT ![r] = "ended"]
    /\ ops' = {Op("pause", r, NoGoal, Absent, 0)}
    /\ UNCHANGED <<goal, segs, goalOf, proc, up>>

GatewayServes ==
    /\ ~up
    /\ ops = {}
    /\ \A r \in Runs : run[r] # "active"
    /\ up' = TRUE
    /\ UNCHANGED <<goal, segs, run, goalOf, proc, ops>>

-----------------------------------------------------------------------------
Next ==
    \/ \E g \in Goals : CreateUserInitiated(g) \/ CompactRead(g) \/ CancelRead(NoRun, g)
    \/ ContinueGoal
    \/ \E r \in Runs :
         \/ \E g \in Goals \cup {NoGoal} : StartRun(r, g)
         \/ CancelRun(r) \/ FinishEvent(r) \/ RootErrorEvent(r) \/ WorkerErrorEvent(r)
         \/ ProcessDies(r) \/ ReconcileRun(r)
         \/ \E g \in Goals :
              \/ WritePending(r, g) \/ WriteRead(r, g) \/ CancelRead(r, g)
              \/ \E b \in BOOLEAN : UpdateRead(r, g, b)
              \/ \E s \in {"succeeded", "failed"} : CompleteRead(r, g, s)
              \/ \E i \in Segments : SegmentRecord(r, g, i)
    \/ \E o \in ops :
         \/ RepairRead(o) \/ RepairWrite(o) \/ CreatePending(o) \/ BindRead(o) \/ BindWrite(o)
         \/ ReplyAccepted(o) \/ ReplyFailed(o)
         \/ PauseRead(o) \/ PauseWrite(o) \/ CompactWrite(o)
         \/ WriteInsert(o) \/ UpdateWrite(o) \/ CancelWrite(o) \/ CompleteWrite(o)
         \/ SegmentWrite(o) \/ TerminalRead(o) \/ TerminalWrite(o)
    \/ GatewayStops \/ GatewayServes

Spec == Init /\ [][Next]_vars

-----------------------------------------------------------------------------
Rows == [status : {"none"} \cup Open \cup Terminal, owner : Runs \cup {NoRun},
         last : Runs \cup {NoRun}, used : Nat]

TypeOK ==
    /\ goal \in [Goals -> Rows]
    /\ segs \subseteq Goals \X Runs \X Segments
    /\ run \in [Runs -> {"new", "active", "ended"}]
    /\ goalOf \in [Runs -> Goals \cup {NoGoal}]
    /\ proc \in [Runs -> {"none", "alive", "finished", "died"}]
    /\ \A o \in ops : o.run \in Runs \cup {NoRun} /\ o.goal \in Goals \cup {NoGoal}
    /\ up \in BOOLEAN

\* Two runs, a tool and a user never leave a session with two active goals,
\* although every one of them checks first and writes later.
OneActiveGoal == \A g, h \in ActiveGoals : g = h

\* active_run_id and status change together: a goal is active iff a run owns
\* it, and that run is the last one on record.
OwnedIffActive ==
    \A g \in Goals :
        /\ goal[g].status = "active" <=> goal[g].owner # NoRun
        /\ goal[g].status = "active" => goal[g].last = goal[g].owner

\* A goal that is over stays over: a user's cancel, a completion and a terminal
\* event in flight at the same time do not overwrite each other.
TerminalIsFinal ==
    [][\A g \in Goals : goal[g].status \in Terminal
                        => goal'[g].status = goal[g].status]_vars

\* A segment reported again, or by a run that lost the goal, counts once.
SegmentsCountedOnce ==
    \A g \in Goals : goal[g].used = Cardinality({s \in segs : s[1] = g})

\* A run that finished in the regular way leaves no goal behind that it owns.
FinishReleasesGoal ==
    \A r \in Runs : proc[r] = "finished" /\ Quiet(r)
                    => \A g \in Goals : goal[g].owner # r

\* A run only loses its goal to its own tools, its own end, a cancel, a pause of
\* the session or a repair that finds the run over: the late pause, segment or
\* terminal event of an earlier run never takes the goal away.  (goal.update can:
\* FollowsDiagram.)
TakenBy(g) == {o \in ops \ ops' : o.goal = g \/ o.kind = "repair"}
OwnerOnlyLosesToOwn ==
    [][\A g \in Goals, r \in Runs :
          goal[g].owner = r /\ goal'[g].owner # r =>
              \E o \in TakenBy(g) : \/ o.run = r
                                    \/ o.kind \in {"cancel", "compact", "update"}
                                    \/ o.kind = "repair" /\ run[r] # "active"]_vars

-----------------------------------------------------------------------------
\* docs/31, the state diagram: a goal leaves active only for paused or an end,
\* and never goes back to pending.
DocumentedEdges ==
    {<<"none", "pending">>, <<"none", "active">>, <<"pending", "active">>,
     <<"pending", "cancelled">>, <<"active", "paused">>, <<"active", "succeeded">>,
     <<"active", "failed">>, <<"active", "cancelled">>, <<"paused", "active">>,
     <<"paused", "cancelled">>}
FollowsDiagram ==
    [][\A g \in Goals : goal'[g].status # goal[g].status
                        => <<goal[g].status, goal'[g].status>> \in DocumentedEdges]_vars
=============================================================================
