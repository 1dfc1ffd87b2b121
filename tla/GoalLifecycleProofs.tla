------------------------ MODULE GoalLifecycleProofs ------------------------
(***************************************************************************)
(* Safety of GoalLifecycle for every number of goals, runs, segments and   *)
(* operations in flight and every budget of turns.                         *)
(***************************************************************************)
EXTENDS GoalLifecycle, FiniteSetTheorems, TLAPS

-----------------------------------------------------------------------------
(* The inductive invariant                                                 *)

StartKinds == {"repair", "create", "bind"}
Kinds == StartKinds \cup Pauses \cup ReaderKinds \cup {"reply", "compact"}

AnyRun == Runs \cup {NoRun}
AnyGoal == Goals \cup {NoGoal}

\* A row as an operation has read it: active rows have an owner, others none.
ReadRow(row) ==
    /\ row \in Rows /\ row.status \in Open
    /\ row.status = "active" <=> row.owner # NoRun
    /\ row.status = "active" => row.last = row.owner

\* What an operation in flight carries, by its kind.
OpShape(o) ==
    /\ o = Op(o.kind, o.run, o.goal, o.row, o.arg)
    /\ o.kind \in Kinds /\ o.run \in AnyRun /\ o.goal \in AnyGoal
    /\ o.kind \notin {"repair", "create", "compact", "cancel"} => o.run \in Runs
    /\ o.kind \in {"create", "compact", "write", "update", "complete", "segment", "cancel"}
          => o.goal \in Goals
    /\ o.kind = "repair" => o.arg \in IF o.run = NoRun THEN {1} ELSE {1, 2}
    /\ o.kind = "compact" => o.run = NoRun
    /\ o.kind = "bind" /\ o.row # Absent
          => ReadRow(o.row) /\ o.row.owner \in {NoRun, o.run} /\ o.goal \in Goals
    /\ o.kind = "update" => ReadRow(o.row) /\ o.row.owner \in {NoRun, o.run}
    /\ o.kind \in {"compact", "cancel"} => ReadRow(o.row)
    /\ o.kind \in Pauses \cup {"terminal"} /\ o.row # Absent => o.goal \in Goals
    /\ o.kind = "complete" => o.arg \in Terminal
    /\ o.kind = "terminal" /\ o.row # Absent => o.arg \in {"failed", "paused"}

Shapes == \A o \in ops : OpShape(o)

\* A repair in flight pauses the goal of a run that is over, and stays right.
RepairsOfEnded ==
    \A o \in ops : o.kind = "repair" /\ o.row # Absent
        => o.row.id \in Goals /\ o.row.row.owner \in Runs /\ run[o.row.row.owner] = "ended"

\* A goal that is not there yet has no columns, and one operation at most is
\* about to create it.
AbsentIsEmpty == \A g \in Goals : goal[g].status = "none" => goal[g] = Absent
Fresh ==
    \A o \in ops : o.goal \in Goals =>
        /\ goal[o.goal].status = "none" => \A p \in ops : p.goal = o.goal => p = o
        /\ o.kind \in {"create", "write"} => goal[o.goal].status = "none"
        /\ o.kind = "repair" /\ o.run = NoRun => goal[o.goal].status = "none"
        /\ o.kind = "bind" => goal[o.goal].status # "none"

\* A run that has not started has done nothing; one that is starting has one
\* operation and no process.
NewRunsAreIdle ==
    \A r \in Runs : run[r] = "new" =>
        proc[r] = "none" /\ Quiet(r) /\ \A g \in Goals : goal[g].owner # r
Starting ==
    \A o \in ops : /\ o.kind = "reply" => proc[o.run] # "none"
                   /\ o.kind \in StartKinds /\ o.run # NoRun =>
                         /\ proc[o.run] = "none"
                         /\ \A p \in ops : p.kind \in StartKinds /\ p.run = o.run => p = o

\* A run that has finished gains no goal, and its terminal event is on the way
\* to the one it has.
FinishedRunsEnd ==
    \A o \in ops : o.run # NoRun /\ proc[o.run] = "finished"
        => o.kind \in Pauses \cup {"reply", "terminal"}
Releases(o, g, r) == o.kind = "terminal" /\ o.run = r /\ (o.row = Absent \/ o.goal = g)
FinishedRunsRelease ==
    \A r \in Runs, g \in Goals : proc[r] = "finished" /\ goal[g].owner = r
        => \E o \in ops : Releases(o, g, r)

\* goal_id of a run record names the goal the run owns.
OwnerHasGoal == \A r \in Runs, g \in Goals : goal[g].owner = r => goalOf[r] = g

Counted == IsFiniteSet(segs) /\ SegmentsCountedOnce

IInv ==
    /\ TypeOK /\ Shapes /\ RepairsOfEnded /\ AbsentIsEmpty /\ Fresh
    /\ NewRunsAreIdle /\ Starting /\ FinishedRunsEnd /\ FinishedRunsRelease
    /\ OwnedIffActive /\ OneActiveGoal /\ OwnerHasGoal /\ Counted

-----------------------------------------------------------------------------
(* What a step does to a row                                               *)

Freed(g) ==
    /\ goal[g].status \in Open
    /\ \E s \in {"pending", "paused"} \cup Terminal, l \in AnyRun :
          goal'[g] = [goal[g] EXCEPT !.status = s, !.owner = NoRun, !.last = l]

Taken(g, r) ==
    /\ goal[g].status \in Open \cup {"none"}
    /\ Others(g) = {}
    /\ goal'[g] = [goal[g] EXCEPT !.status = "active", !.owner = r, !.last = r]
    /\ goalOf' = [goalOf EXCEPT ![r] = g]
    /\ proc[r] # "finished" /\ run[r] # "new"

\* A row is created, released, bound to a run or counts a segment.
RowStep(g) ==
    \/ UNCHANGED segs /\ \E r \in Runs : Taken(g, r)
    \/ /\ UNCHANGED <<segs, goalOf>>
       /\ \/ goal[g].status = "none" /\ goal'[g] = [goal[g] EXCEPT !.status = "pending"]
          \/ Freed(g)
    \/ /\ goal[g].status # "none" /\ goal'[g] = [goal[g] EXCEPT !.used = @ + 1]
       /\ \E r \in Runs, i \in Segments : NewSegment(g, r, i) /\ segs' = segs \cup {<<g, r, i>>}
       /\ UNCHANGED goalOf

\* A step changes one row at most; no operation on a goal outlives its creation.
GoalStep ==
    \/ UNCHANGED <<goal, goalOf, segs>>
    \/ \E g \in Goals :
          /\ RowStep(g)
          /\ goal' = [goal EXCEPT ![g] = goal'[g]]
          /\ goal[g].status = "none" => \A o \in ops \cap ops' : o.goal # g

\* A conditional write that takes the owner away frees one row or none.
LEMMA TransitionFrees ==
    ASSUME TypeOK, NEW g \in Goals, NEW from \in SUBSET Open, NEW f \in AnyRun,
           NEW s \in {"pending", "paused"} \cup Terminal, NEW l \in AnyRun,
           Transition(g, from, f, s, NoRun, l), UNCHANGED <<goalOf, segs>>
    PROVE  GoalStep
<1>1. CASE UNCHANGED goal
  BY <1>1 DEF GoalStep
<1>2. CASE Matches(g, from, f) /\ Write(g, s, NoRun, l)
  <2>1. Freed(g) /\ goal' = [goal EXCEPT ![g] = goal'[g]]
    BY <1>2 DEF Matches, Write, Freed, TypeOK, Rows
  <2>2. goal[g].status # "none"
    BY <1>2 DEF Matches, Open
  <2> QED
    BY <2>1, <2>2 DEF GoalStep, RowStep
<1> QED
  BY <1>1, <1>2 DEF Transition

\* No step of the lifecycle changes rows in any other way.
LEMMA RowsChangeSingly ==
    ASSUME TypeOK, Shapes, RepairsOfEnded, AbsentIsEmpty, Fresh, NewRunsAreIdle,
           Starting, FinishedRunsEnd, Next
    PROVE  GoalStep
<1> USE NoneAssumption DEF TypeOK, Shapes, Rows
<1>1. ASSUME NEW o \in ops, RepairWrite(o) PROVE GoalStep
  <2>1. o.row.id \in Goals /\ o.row.row.owner \in Runs
    BY <1>1 DEF RepairWrite, RepairsOfEnded
  <2> QED
    BY <1>1, <2>1, TransitionFrees DEF RepairWrite, Open, Terminal, AnyRun
<1>2. ASSUME NEW o \in ops, CreatePending(o) PROVE GoalStep
  <2>1. /\ o.goal \in Goals /\ goal[o.goal].status = "none"
        /\ \A q \in ops : q.goal = o.goal => q = o
    BY <1>2 DEF CreatePending, OpShape, Fresh
  <2>2. o \notin ops'
    BY <1>2 DEF CreatePending, StartFails, End, Become, Op
  <2> QED
    BY <1>2, <2>1, <2>2 DEF CreatePending, StartFails, GoalStep, RowStep
<1>3. ASSUME NEW o \in ops, BindWrite(o) PROVE GoalStep
  <2>1. /\ o.goal \in Goals /\ o.run \in Runs /\ o.row.status \in Open
        /\ proc[o.run] = "none" /\ run[o.run] # "new"
    BY <1>3 DEF BindWrite, OpShape, ReadRow, Starting, StartKinds, NewRunsAreIdle, Quiet
  <2>2. CASE UNCHANGED segs /\ goalOf' = [goalOf EXCEPT ![o.run] = o.goal] /\ Write(o.goal, "active", o.run, o.run)
             /\ goal[o.goal].status = o.row.status /\ Others(o.goal) = {}
    <3>1. Taken(o.goal, o.run) /\ goal' = [goal EXCEPT ![o.goal] = goal'[o.goal]]
      BY <2>1, <2>2 DEF Taken, Write
    <3> QED
      BY <2>1, <2>2, <3>1 DEF GoalStep, RowStep, Open
  <2> QED
    BY <1>3, <2>2 DEF BindWrite, StartFails, GoalStep, Matches, Unique
<1>4. ASSUME NEW o \in ops, PauseWrite(o) \/ TerminalWrite(o) \/ SegmentWrite(o) \/ CompleteWrite(o)
      PROVE  GoalStep
  <2>1. o.goal \in Goals /\ o.run \in Runs
    BY <1>4 DEF PauseWrite, TerminalWrite, SegmentWrite, CompleteWrite, OpShape, Pauses
  <2>2. CASE PauseWrite(o)
    BY <2>1, <2>2, TransitionFrees DEF PauseWrite, Open, AnyRun
  <2>3. CASE TerminalWrite(o)
    <3>1. o.arg \in {"failed", "paused"}
      BY <2>3 DEF TerminalWrite, OpShape
    <3> QED
      BY <2>1, <2>3, <3>1, TransitionFrees DEF TerminalWrite, Open, Terminal, AnyRun
  <2>4. CASE SegmentWrite(o)
    <3>1. /\ UNCHANGED goal \/ Transition(o.goal, {"active"}, o.run, "failed", NoRun, o.run)
          /\ UNCHANGED <<goalOf, segs>>
      BY <2>4 DEF SegmentWrite
    <3> QED
      BY <2>1, <3>1, TransitionFrees DEF Open, Terminal, AnyRun, GoalStep
  <2>5. CASE CompleteWrite(o)
    <3>1. o.arg \in Terminal
      BY <2>5 DEF CompleteWrite, OpShape
    <3> QED
      BY <2>1, <2>5, <3>1, TransitionFrees DEF CompleteWrite, Open, AnyRun
  <2> QED
    BY <1>4, <2>2, <2>3, <2>4, <2>5
<1>5. ASSUME NEW o \in ops, CompactWrite(o) \/ CancelWrite(o) PROVE GoalStep
  <2>1. o.goal \in Goals /\ o.row.owner \in AnyRun
    BY <1>5 DEF CompactWrite, CancelWrite, OpShape, ReadRow, AnyRun
  <2>2. CASE CompactWrite(o)
    BY <2>1, <2>2, TransitionFrees DEF CompactWrite, Open, AnyRun
  <2>3. CASE CancelWrite(o)
    BY <2>1, <2>3, TransitionFrees DEF CancelWrite, Open, Terminal, AnyRun
  <2> QED
    BY <1>5, <2>2, <2>3
<1>6. ASSUME NEW o \in ops, WriteInsert(o) PROVE GoalStep
  <2>1. /\ o.goal \in Goals /\ o.run \in Runs /\ goal[o.goal].status = "none"
        /\ proc[o.run] # "finished" /\ run[o.run] # "new"
        /\ o \notin ops' /\ \A q \in ops : q.goal = o.goal => q = o
    BY <1>6 DEF WriteInsert, End, OpShape, Fresh, FinishedRunsEnd, Pauses, NewRunsAreIdle, Quiet
  <2>2. CASE UNCHANGED segs /\ goalOf' = [goalOf EXCEPT ![o.run] = o.goal] /\ Write(o.goal, "active", o.run, o.run)
             /\ Others(o.goal) = {}
    <3>1. Taken(o.goal, o.run) /\ goal' = [goal EXCEPT ![o.goal] = goal'[o.goal]]
      BY <2>1, <2>2 DEF Taken, Write
    <3> QED
      BY <2>1, <2>2, <3>1 DEF GoalStep, RowStep
  <2> QED
    BY <1>6, <2>2 DEF WriteInsert, GoalStep, Unique
<1>7. ASSUME NEW o \in ops, UpdateWrite(o) PROVE GoalStep
  <2> DEFINE new == Updated(o)
  <2>1. /\ o.goal \in Goals /\ o.run \in Runs /\ ReadRow(o.row) /\ o.row.owner \in {NoRun, o.run}
        /\ proc[o.run] # "finished" /\ run[o.run] # "new"
    BY <1>7 DEF UpdateWrite, OpShape, FinishedRunsEnd, Pauses, NewRunsAreIdle, Quiet
  <2>2. /\ new.status = "active" => new.owner = o.run /\ new.last = o.run
        /\ new.status # "active" => new.owner = NoRun
        /\ new.status \in Open /\ new.last \in AnyRun
    BY <2>1 DEF Updated, Activates, ReadRow, Open, AnyRun
  <2> HIDE DEF new
  <2>3. CASE UNCHANGED <<goal, goalOf, segs>>
    BY <2>3 DEF GoalStep
  <2>4. CASE /\ Write(o.goal, new.status, new.owner, new.last) /\ UNCHANGED segs
             /\ goalOf' = IF new.status = "active" THEN [goalOf EXCEPT ![o.run] = o.goal] ELSE goalOf
             /\ goal[o.goal].status \in Open /\ Unique(o.goal, new.status)
    <3>1. CASE new.status = "active"
      <4>1. Taken(o.goal, o.run) /\ goal' = [goal EXCEPT ![o.goal] = goal'[o.goal]]
        BY <2>1, <2>2, <2>4, <3>1 DEF Taken, Write, Unique
      <4> QED
        BY <2>1, <2>4, <4>1 DEF GoalStep, RowStep, Open
    <3>2. CASE new.status # "active"
      <4>1. Freed(o.goal) /\ goal' = [goal EXCEPT ![o.goal] = goal'[o.goal]]
        BY <2>1, <2>2, <2>4, <3>2 DEF Freed, Write, Open
      <4> QED
        BY <2>1, <2>4, <3>2, <4>1 DEF GoalStep, RowStep, Open
    <3> QED
      BY <3>1, <3>2
  <2> QED
    BY <1>7, <2>3, <2>4 DEF UpdateWrite, new, Matches, UpdateFrom
<1>8. ASSUME NEW r \in Runs, NEW g \in Goals, WritePending(r, g) PROVE GoalStep
  <2>1. /\ goal[g].status = "none" /\ goal' = [goal EXCEPT ![g].status = "pending"]
        /\ UNCHANGED <<goalOf, segs>> /\ \A o \in ops : o.goal # g
    BY <1>8 DEF WritePending, New, Absent
  <2> QED
    BY <2>1 DEF GoalStep, RowStep
<1>9. ASSUME NEW r \in Runs, NEW g \in Goals, NEW i \in Segments, SegmentRecord(r, g, i)
      PROVE  GoalStep
  <2> DEFINE Counts == goal' = [goal EXCEPT ![g].used = @ + 1]
  <2>1. /\ UNCHANGED goalOf /\ goal[g].status # "none"
        /\ \/ UNCHANGED <<goal, segs>>
           \/ NewSegment(g, r, i) /\ Counts /\ segs' = segs \cup {<<g, r, i>>}
           \/ ~NewSegment(g, r, i) /\ UNCHANGED goal /\ segs' = segs \cup {<<g, r, i>>}
    <3> HIDE DEF Counts
    <3> QED
      BY <1>9 DEF SegmentRecord, Counts
  <2>2. CASE UNCHANGED <<goal, segs>>
    BY <2>1, <2>2 DEF GoalStep
  <2>3. CASE ~NewSegment(g, r, i) /\ UNCHANGED goal /\ segs' = segs \cup {<<g, r, i>>}
    BY <2>1, <2>3 DEF GoalStep, NewSegment
  <2>4. CASE NewSegment(g, r, i) /\ Counts /\ segs' = segs \cup {<<g, r, i>>}
    BY <2>1, <2>4 DEF GoalStep, RowStep
  <2> QED
    BY <2>1, <2>2, <2>3, <2>4
<1>10. ASSUME UNCHANGED <<goal, goalOf, segs>> PROVE GoalStep
  BY <1>10 DEF GoalStep
<1> QED
  <2> USE <1>10
  <2>1. ASSUME NEW g \in Goals, CreateUserInitiated(g) \/ CompactRead(g) \/ CancelRead(NoRun, g)
        PROVE  GoalStep
    BY <2>1 DEF CreateUserInitiated, CompactRead, CancelRead
  <2>2. ASSUME NEW r \in Runs,
               \/ \E g \in Goals \cup {NoGoal} : StartRun(r, g)
               \/ CancelRun(r) \/ FinishEvent(r) \/ RootErrorEvent(r) \/ WorkerErrorEvent(r)
               \/ ProcessDies(r) \/ ReconcileRun(r)
        PROVE  GoalStep
    BY <2>2 DEF StartRun, CancelRun, FinishEvent, RootErrorEvent, WorkerErrorEvent, ProcessDies,
                ReconcileRun
  <2>3. ASSUME NEW r \in Runs, NEW g \in Goals,
               \/ WriteRead(r, g) \/ CancelRead(r, g)
               \/ \E b \in BOOLEAN : UpdateRead(r, g, b)
               \/ \E s \in {"succeeded", "failed"} : CompleteRead(r, g, s)
        PROVE  GoalStep
    BY <2>3 DEF WriteRead, CancelRead, UpdateRead, CompleteRead
  <2>4. ASSUME NEW o \in ops,
               \/ RepairRead(o) \/ BindRead(o) \/ ReplyAccepted(o) \/ ReplyFailed(o)
               \/ PauseRead(o) \/ TerminalRead(o)
        PROVE  GoalStep
    BY <2>4 DEF RepairRead, BindRead, StartFails, ReplyAccepted, ReplyFailed, PauseRead, TerminalRead
  <2>5. ASSUME ContinueGoal \/ GatewayStops \/ GatewayServes PROVE GoalStep
    BY <2>5 DEF ContinueGoal, GatewayStops, GatewayServes
  <2> HIDE <1>10
  <2> QED
    BY <1>1, <1>2, <1>3, <1>4, <1>5, <1>6, <1>7, <1>8, <1>9, <2>1, <2>2, <2>3, <2>4, <2>5 DEF Next

-----------------------------------------------------------------------------
(* What a step does to the runs and to the operations in flight            *)

\* A run goes from new to active to ended; its process comes from an operation of it
\* and stays known.
RunStep ==
    \A r \in Runs : /\ run'[r] = "new" => run[r] = "new"
                    /\ run[r] = "ended" => run'[r] = "ended"
                    /\ proc[r] # "none" => proc'[r] # "none"
                    /\ proc[r] = "none" /\ Quiet(r) => proc'[r] = "none"

\* Records of runs, processes and segments keep their types, and runs advance.
LEMMA RunsAdvance ==
    ASSUME TypeOK, Shapes, Next
    PROVE  /\ RunStep
           /\ run' \in [Runs -> {"new", "active", "ended"}]
           /\ goalOf' \in [Runs -> Goals \cup {NoGoal}]
           /\ proc' \in [Runs -> {"none", "alive", "finished", "died"}]
           /\ segs' \subseteq Goals \X Runs \X Segments
           /\ up' \in BOOLEAN
<1> DEFINE Advanced == /\ RunStep
                       /\ run' \in [Runs -> {"new", "active", "ended"}]
                       /\ goalOf' \in [Runs -> Goals \cup {NoGoal}]
                       /\ proc' \in [Runs -> {"none", "alive", "finished", "died"}]
                       /\ segs' \subseteq Goals \X Runs \X Segments
                       /\ up' \in BOOLEAN
<1> USE DEF TypeOK, RunStep
<1>1. ASSUME NEW g \in Goals, CreateUserInitiated(g) \/ CompactRead(g) \/ CancelRead(NoRun, g)
      PROVE  Advanced
  BY <1>1 DEF CreateUserInitiated, CompactRead, CancelRead
<1>2. ASSUME NEW r \in Runs,
             \/ \E g \in Goals \cup {NoGoal} : StartRun(r, g)
             \/ CancelRun(r) \/ FinishEvent(r) \/ RootErrorEvent(r) \/ WorkerErrorEvent(r)
             \/ ProcessDies(r) \/ ReconcileRun(r)
      PROVE  Advanced
  BY <1>2 DEF StartRun, CancelRun, FinishEvent, RootErrorEvent, WorkerErrorEvent, ProcessDies,
              ReconcileRun, Reader
<1>3. ASSUME NEW r \in Runs, NEW g \in Goals,
             \/ WritePending(r, g) \/ WriteRead(r, g) \/ CancelRead(r, g)
             \/ \E b \in BOOLEAN : UpdateRead(r, g, b)
             \/ \E s \in {"succeeded", "failed"} : CompleteRead(r, g, s)
      PROVE  Advanced
  BY <1>3 DEF WritePending, WriteRead, CancelRead, UpdateRead, CompleteRead
<1>8. ASSUME NEW r \in Runs, NEW g \in Goals, NEW i \in Segments, SegmentRecord(r, g, i)
      PROVE  Advanced
  <2>1. segs' \subseteq segs \cup {<<g, r, i>>} /\ UNCHANGED <<run, goalOf, proc, up>>
    BY <1>8 DEF SegmentRecord
  <2> QED
    BY <2>1
<1>4. ASSUME NEW o \in ops,
             \/ CreatePending(o) \/ BindRead(o) \/ BindWrite(o) \/ ReplyFailed(o)
             \/ PauseRead(o) \/ PauseWrite(o)
      PROVE  Advanced
  <2>1. OpShape(o)
    BY DEF Shapes
  <2> QED
    BY <1>4, <2>1 DEF CreatePending, BindRead, BindWrite, StartFails, Launch, ReplyFailed, PauseRead,
                      PauseWrite, AfterPause, OpShape, Pauses, Quiet
<1>5. ASSUME NEW o \in ops, WriteInsert(o) \/ UpdateWrite(o)
      PROVE  Advanced
  <2>1. OpShape(o)
    BY DEF Shapes
  <2> QED
    BY <1>5, <2>1 DEF WriteInsert, UpdateWrite, OpShape
<1>6. ASSUME NEW o \in ops,
             \/ RepairRead(o) \/ RepairWrite(o) \/ ReplyAccepted(o) \/ CompactWrite(o)
             \/ CancelWrite(o) \/ CompleteWrite(o) \/ SegmentWrite(o) \/ TerminalRead(o)
             \/ TerminalWrite(o)
      PROVE  Advanced
  BY <1>6 DEF RepairRead, RepairWrite, ReplyAccepted, CompactWrite, CancelWrite, CompleteWrite,
              SegmentWrite, TerminalRead, TerminalWrite
<1>7. ASSUME ContinueGoal \/ GatewayStops \/ GatewayServes PROVE Advanced
  BY <1>7 DEF ContinueGoal, GatewayStops, GatewayServes
<1> QED
  BY <1>1, <1>2, <1>3, <1>4, <1>5, <1>6, <1>7, <1>8 DEF Next

\* Rows keep their type, and an empty row stays empty.
LEMMA RowsKeepShape ==
    ASSUME TypeOK, AbsentIsEmpty, GoalStep
    PROVE  goal' \in [Goals -> Rows] /\ AbsentIsEmpty'
<1>1. ASSUME NEW g \in Goals, RowStep(g)
      PROVE  goal'[g] \in Rows /\ goal'[g].status # "none"
  <2>1. goal[g] \in Rows
    BY DEF TypeOK
  <2>2. CASE goal'[g] = [goal[g] EXCEPT !.status = "pending"]
    BY <2>1, <2>2 DEF Rows, Open
  <2>3. CASE Freed(g)
    BY <2>1, <2>3 DEF Freed, Rows, Open, Terminal, AnyRun
  <2>4. CASE \E r \in Runs : Taken(g, r)
    BY <2>1, <2>4 DEF Taken, Rows, Open
  <2>5. CASE goal[g].status # "none" /\ goal'[g] = [goal[g] EXCEPT !.used = @ + 1]
    BY <2>1, <2>5 DEF Rows
  <2> QED
    BY <1>1, <2>2, <2>3, <2>4, <2>5 DEF RowStep
<1>2. CASE UNCHANGED goal
  BY <1>2 DEF TypeOK, AbsentIsEmpty
<1>3. ASSUME NEW g \in Goals, RowStep(g), goal' = [goal EXCEPT ![g] = goal'[g]]
      PROVE  goal' \in [Goals -> Rows] /\ AbsentIsEmpty'
  BY <1>1, <1>3 DEF TypeOK, AbsentIsEmpty
<1> QED
  BY <1>2, <1>3 DEF GoalStep

\* What a step does to status, owner and last run of a row, and to goal_id of the runs.
RowMoves(g) ==
    \/ /\ goal'[g].status = goal[g].status
       /\ goal'[g].owner = goal[g].owner /\ goal'[g].last = goal[g].last
    \/ /\ goal[g].status = "none" /\ goal'[g].status = "pending"
       /\ goal'[g].owner = goal[g].owner /\ UNCHANGED goalOf
    \/ /\ goal[g].status \in Open /\ goal'[g].status \in {"pending", "paused"} \cup Terminal
       /\ goal'[g].owner = NoRun /\ UNCHANGED goalOf
    \/ \E r \in Runs : /\ Taken(g, r) /\ goal'[g].status = "active"
                      /\ goal'[g].owner = r /\ goal'[g].last = r

\* Every row moves in one of these ways, at most one of them at a time.
LEMMA RowsMove ==
    ASSUME TypeOK, GoalStep
    PROVE  /\ \A g \in Goals : RowMoves(g)
           /\ \A g, h \in Goals : goal'[g] # goal[g] /\ goal'[h] # goal[h] => g = h
           /\ UNCHANGED goalOf \/ \E g \in Goals, r \in Runs :
                Taken(g, r) /\ \A h \in Goals \ {g} : goal'[h] = goal[h]
<1>1. ASSUME NEW g \in Goals, RowStep(g)
      PROVE  RowMoves(g)
  <2>1. goal[g] \in Rows
    BY DEF TypeOK
  <2>2. CASE \E r \in Runs : Taken(g, r)
    BY <2>1, <2>2 DEF Taken, RowMoves, Rows
  <2>3. CASE goal[g].status = "none" /\ goal'[g] = [goal[g] EXCEPT !.status = "pending"] /\ UNCHANGED goalOf
    BY <2>1, <2>3 DEF RowMoves, Rows
  <2>4. CASE Freed(g) /\ UNCHANGED goalOf
    BY <2>1, <2>4 DEF Freed, RowMoves, Rows
  <2>5. CASE goal'[g] = [goal[g] EXCEPT !.used = @ + 1]
    BY <2>1, <2>5 DEF RowMoves, Rows
  <2> QED
    BY <1>1, <2>2, <2>3, <2>4, <2>5 DEF RowStep
<1>2. CASE UNCHANGED <<goal, goalOf>>
  BY <1>2 DEF RowMoves
<1>3. ASSUME NEW g \in Goals, RowStep(g), goal' = [goal EXCEPT ![g] = goal'[g]]
      PROVE  /\ \A h \in Goals : RowMoves(h)
             /\ \A h \in Goals \ {g} : goal'[h] = goal[h]
             /\ UNCHANGED goalOf \/ \E r \in Runs : Taken(g, r)
  <2>1. \A h \in Goals \ {g} : goal'[h] = goal[h]
    BY <1>3 DEF TypeOK
  <2>2. UNCHANGED goalOf \/ \E r \in Runs : Taken(g, r)
    BY <1>3 DEF RowStep
  <2> QED
    BY <1>1, <1>3, <2>1, <2>2 DEF RowMoves
<1> QED
  BY <1>2, <1>3 DEF GoalStep

\* A goal that is over stays over, and is never taken for one that is not there.
LEMMA StatusesAdvance ==
    ASSUME TypeOK, GoalStep, NEW g \in Goals
    PROVE  /\ goal[g].status \in Terminal => goal'[g].status = goal[g].status
           /\ goal[g].status # "none" => goal'[g].status # "none"
BY RowsMove DEF RowMoves, Taken, Open, Terminal

\* A goal is active iff a run owns it, no second one is, and goal_id of the owner
\* names it.
LEMMA OwnershipKept ==
    ASSUME TypeOK, GoalStep, OwnedIffActive, OneActiveGoal, OwnerHasGoal
    PROVE  OwnedIffActive' /\ OneActiveGoal' /\ OwnerHasGoal'
<1> USE NoneAssumption, RowsMove DEF TypeOK
<1>1. OwnedIffActive'
  BY DEF OwnedIffActive, RowMoves, Terminal, Open
<1>2. ASSUME NEW g \in Goals, NEW h \in Goals, g # h,
             goal'[g].status = "active", goal'[h].status = "active"
      PROVE  FALSE
  <2>1. goal'[g] = goal[g] \/ goal'[h] = goal[h]
    BY <1>2
  <2>2. ASSUME NEW k \in Goals, goal'[k].status = "active"
        PROVE  goal[k].status = "active" \/ Others(k) = {}
    <3>1. RowMoves(k)
      OBVIOUS
    <3> QED
      BY <2>2, <3>1 DEF RowMoves, Taken, Terminal
  <2> QED
    BY <1>2, <2>1, <2>2 DEF OneActiveGoal, ActiveGoals, Others
<1>3. ASSUME NEW r \in Runs, NEW g \in Goals, goal'[g].owner = r
      PROVE  goalOf'[r] = g
  <2>1. CASE Taken(g, r)
    BY <2>1 DEF Taken
  <2>2. CASE goal[g].owner = r
    <3>1. goalOf[r] = g /\ g \in ActiveGoals
      BY <2>2 DEF OwnerHasGoal, OwnedIffActive, ActiveGoals
    <3>2. ASSUME NEW h \in Goals, NEW q \in Runs, Taken(h, q), g # h PROVE FALSE
      BY <3>1, <3>2 DEF Taken, Others
    <3>3. goalOf'[r] = goalOf[r] \/ \E q \in Runs : Taken(g, q)
      BY <3>2
    <3> QED
      BY <1>3, <2>2, <3>1, <3>3 DEF Taken
  <2> QED
    BY <1>3, <2>1, <2>2 DEF RowMoves
<1> QED
  BY <1>1, <1>2, <1>3 DEF OwnerHasGoal, OneActiveGoal, ActiveGoals

-----------------------------------------------------------------------------
(* The operations in flight                                                *)

\* What an operation reads of a row of a goal that is not over.
LEMMA SeenIsReadRow ==
    ASSUME TypeOK, OwnedIffActive, NEW g \in Goals, goal[g].status \in Open
    PROVE  ReadRow(Seen(g)) /\ Seen(g).owner = goal[g].owner /\ Seen(g).status = goal[g].status
<1>1. goal[g] \in Rows
  BY DEF TypeOK
<1> QED
  BY <1>1 DEF Seen, ReadRow, Rows, OwnedIffActive

\* A record built by Op is an operation in flight with these fields.
LEMMA OpFields ==
    ASSUME NEW k, NEW r, NEW g, NEW row, NEW arg
    PROVE  LET o == Op(k, r, g, row, arg)
           IN  /\ o = Op(o.kind, o.run, o.goal, o.row, o.arg)
               /\ o.kind = k /\ o.run = r /\ o.goal = g /\ o.row = row /\ o.arg = arg
BY DEF Op

\* Absent is not the row of any goal in use.
LEMMA AbsentNotRead == \A row : ReadRow(row) => row # Absent
BY DEF ReadRow, Absent, Open

\* Every operation that comes up carries what its kind needs.
LEMMA ShapesKept ==
    ASSUME TypeOK, Shapes, OwnedIffActive, AbsentIsEmpty, Fresh, Next
    PROVE  Shapes'
<1> USE DEF TypeOK, AnyRun, AnyGoal
<1>1. ASSUME NEW p, OpShape(p), ops' \subseteq ops \cup {p} PROVE Shapes'
  BY <1>1 DEF Shapes
<1>2. ASSUME ops' \subseteq ops PROVE Shapes'
  BY <1>2 DEF Shapes
<1>3. ASSUME NEW g \in Goals, CreateUserInitiated(g) \/ CompactRead(g) PROVE Shapes'
  <2>1. CASE CreateUserInitiated(g)
    <3> DEFINE p == Op("repair", NoRun, g, Absent, 1)
    <3>1. OpShape(p)
      BY OpFields DEF OpShape, Kinds, StartKinds, Pauses
    <3> QED
      BY <1>1, <2>1, <3>1 DEF CreateUserInitiated, Begin
  <2>2. CASE CompactRead(g)
    <3> DEFINE p == Op("compact", NoRun, g, Seen(g), 0)
    <3>1. OpShape(p)
      BY <2>2, OpFields, SeenIsReadRow DEF CompactRead, OpShape, Kinds, Pauses, Open
    <3> QED
      BY <1>1, <2>2, <3>1 DEF CompactRead, Begin
  <2> QED
    BY <1>3, <2>1, <2>2
<1>4. ASSUME NEW g \in Goals, NEW r \in AnyRun, CancelRead(r, g) PROVE Shapes'
  <2> DEFINE p == Op("cancel", r, g, Seen(g), 0)
  <2>1. OpShape(p)
    BY <1>4, OpFields, SeenIsReadRow DEF CancelRead, OpShape, Kinds, ReaderKinds, Pauses
  <2> QED
    BY <1>1, <1>4, <2>1 DEF CancelRead, Begin
<1>5. ASSUME ContinueGoal PROVE Shapes'
  <2> DEFINE p == Op("repair", NoRun, NoGoal, Absent, 1)
  <2>1. OpShape(p)
    BY OpFields DEF OpShape, Kinds, StartKinds, Pauses
  <2> QED
    BY <1>1, <1>5, <2>1 DEF ContinueGoal, Begin
<1>6. ASSUME NEW r \in Runs, NEW g \in Goals \cup {NoGoal}, StartRun(r, g) PROVE Shapes'
  <2> DEFINE p == Op("repair", r, g, Absent, IF g = NoGoal THEN 1 ELSE 2)
  <2>1. OpShape(p)
    BY OpFields, NoneAssumption DEF OpShape, Kinds, StartKinds, Pauses
  <2> QED
    BY <1>1, <1>6, <2>1 DEF StartRun, Begin
<1>7. ASSUME NEW r \in Runs,
             \/ CancelRun(r) \/ FinishEvent(r) \/ RootErrorEvent(r) \/ WorkerErrorEvent(r)
             \/ ProcessDies(r) \/ ReconcileRun(r)
      PROVE  Shapes'
  <2>1. ASSUME NEW k \in {"pause", "terminal"}, NEW a, ops' \subseteq ops \cup {Op(k, r, NoGoal, Absent, a)}
        PROVE  Shapes'
    <3>1. OpShape(Op(k, r, NoGoal, Absent, a))
      BY OpFields DEF OpShape, Kinds, ReaderKinds, Pauses
    <3> QED
      BY <1>1, <2>1, <3>1
  <2> QED
    BY <1>7, <2>1 DEF CancelRun, FinishEvent, RootErrorEvent, WorkerErrorEvent, ProcessDies,
                      ReconcileRun, Begin
<1>8. ASSUME NEW r \in Runs, NEW g \in Goals, WritePending(r, g) \/ WriteRead(r, g) PROVE Shapes'
  <2> DEFINE p == Op("write", r, g, Absent, 0)
  <2>1. OpShape(p)
    BY OpFields DEF OpShape, Kinds, ReaderKinds, Pauses
  <2> QED
    BY <1>1, <1>2, <1>8, <2>1 DEF WritePending, WriteRead, Begin
<1>9. ASSUME NEW r \in Runs, NEW g \in Goals, NEW b \in BOOLEAN, UpdateRead(r, g, b) PROVE Shapes'
  <2> DEFINE p == Op("update", r, g, Seen(g), b)
  <2>1. goal[g].owner \in {NoRun, r}
    BY <1>9 DEF UpdateRead, OwnedIffActive
  <2>2. OpShape(p)
    BY <1>9, <2>1, OpFields, SeenIsReadRow DEF UpdateRead, OpShape, Kinds, ReaderKinds, Pauses
  <2> QED
    BY <1>1, <1>9, <2>2 DEF UpdateRead, Begin
<1>10. ASSUME NEW r \in Runs, NEW g \in Goals, NEW s \in {"succeeded", "failed"}, CompleteRead(r, g, s)
       PROVE  Shapes'
  <2> DEFINE p == Op("complete", r, g, Seen(g), s)
  <2>1. OpShape(p)
    BY OpFields DEF OpShape, Kinds, ReaderKinds, Pauses, Terminal
  <2> QED
    BY <1>1, <1>10, <2>1 DEF CompleteRead, Begin
<1>11. ASSUME NEW r \in Runs, NEW g \in Goals, NEW i \in Segments, SegmentRecord(r, g, i) PROVE Shapes'
  <2>1. PICK a \in BOOLEAN : ops' \subseteq ops \cup {Op("segment", r, g, Absent, a)}
    BY <1>11 DEF SegmentRecord, Begin
  <2>2. OpShape(Op("segment", r, g, Absent, a))
    BY OpFields DEF OpShape, Kinds, ReaderKinds, Pauses
  <2> QED
    BY <1>1, <2>1, <2>2
<1>12. ASSUME NEW o \in ops, RepairRead(o) \/ RepairWrite(o) PROVE Shapes'
  <2>1. OpShape(o) /\ o.kind = "repair"
    BY <1>12 DEF Shapes, RepairRead, RepairWrite
  <2>2. CASE AfterRepair(o)
    <3>1. CASE Become(o, Op("repair", o.run, o.goal, Absent, 1))
      <4>1. OpShape(Op("repair", o.run, o.goal, Absent, 1))
        BY <2>1, OpFields DEF OpShape, Kinds, StartKinds, Pauses
      <4> QED
        BY <1>1, <3>1, <4>1 DEF Become
    <3>2. CASE Become(o, Op("create", o.run, o.goal, Absent, 0)) /\ o.goal # NoGoal
      <4>1. OpShape(Op("create", o.run, o.goal, Absent, 0))
        BY <2>1, <3>2, OpFields DEF OpShape, Kinds, StartKinds, Pauses
      <4> QED
        BY <1>1, <3>2, <4>1 DEF Become
    <3>3. CASE End(o)
      BY <1>2, <3>3 DEF End
    <3>4. CASE /\ o.arg # 2 /\ ~(o.arg = 1 /\ o.goal # NoGoal /\ goal[o.goal] = Absent)
               /\ ~(o.arg = 1 /\ o.goal = NoGoal /\ o.run = NoRun)
               /\ Become(o, Op("bind", o.run, o.goal, Absent, 0))
      <4>1. o.run \in Runs
        BY <2>1, <3>4 DEF OpShape, Fresh, AbsentIsEmpty
      <4>2. OpShape(Op("bind", o.run, o.goal, Absent, 0))
        BY <2>1, <4>1, OpFields DEF OpShape, Kinds, StartKinds, Pauses
      <4> QED
        BY <1>1, <3>4, <4>2 DEF Become
    <3> QED
      BY <2>1, <2>2, <3>1, <3>2, <3>3, <3>4 DEF AfterRepair, OpShape
  <2>3. ASSUME NEW g \in Goals, Become(o, [o EXCEPT !.row = [id |-> g, row |-> Seen(g)]]) PROVE Shapes'
    <3>1. OpShape([o EXCEPT !.row = [id |-> g, row |-> Seen(g)]])
      BY <2>1 DEF OpShape, Op, Pauses
    <3> QED
      BY <1>1, <2>3, <3>1 DEF Become
  <2> QED
    BY <1>12, <2>2, <2>3 DEF RepairRead, RepairWrite
<1>13. ASSUME NEW o \in ops, CreatePending(o) PROVE Shapes'
  <2>1. CASE o.run # NoRun /\ Become(o, Op("repair", o.run, o.goal, Absent, 1))
    <3>1. OpShape(Op("repair", o.run, o.goal, Absent, 1))
      BY OpFields DEF Shapes, OpShape, Kinds, StartKinds, Pauses
    <3> QED
      BY <1>1, <2>1, <3>1 DEF Become
  <2> QED
    BY <1>2, <1>13, <2>1 DEF CreatePending, StartFails, End
<1>14. ASSUME NEW o \in ops, BindRead(o) \/ BindWrite(o) PROVE Shapes'
  <2>1. OpShape(o) /\ o.run \in Runs /\ o.kind = "bind"
    BY <1>14 DEF BindRead, BindWrite, Shapes, OpShape
  <2>2. CASE Launch(o)
    <3>1. OpShape(Op("reply", o.run, o.goal, Absent, 0))
      BY <2>1, OpFields DEF OpShape, Kinds, StartKinds, Pauses
    <3> QED
      BY <1>1, <2>2, <3>1 DEF Launch, Become
  <2>3. CASE StartFails(o)
    BY <1>2, <2>3 DEF StartFails, End
  <2>4. CASE /\ o.goal # NoGoal /\ goal[o.goal].status \notin Terminal
             /\ ~(goal[o.goal].status = "active" /\ goal[o.goal].owner \notin {NoRun, o.run})
             /\ Become(o, [o EXCEPT !.row = Seen(o.goal)])
    <3>1. o.goal \in Goals /\ goal[o.goal].status \in Open
      BY <2>1, <2>4 DEF OpShape, Fresh, Rows
    <3>2. ReadRow(Seen(o.goal)) /\ Seen(o.goal).owner \in {NoRun, o.run}
      BY <2>4, <3>1, SeenIsReadRow DEF OwnedIffActive
    <3>3. OpShape([o EXCEPT !.row = Seen(o.goal)])
      BY <2>1, <3>1, <3>2 DEF OpShape, Op, Pauses
    <3> QED
      BY <1>1, <2>4, <3>3 DEF Become
  <2> QED
    BY <1>14, <2>2, <2>3, <2>4 DEF BindRead, BindWrite
<1>15. ASSUME NEW o \in ops, ReplyFailed(o) PROVE Shapes'
  <2>1. OpShape(Op("pauseAndEnd", o.run, NoGoal, Absent, 0))
    BY <1>15, OpFields DEF ReplyFailed, Shapes, OpShape, Kinds, StartKinds, Pauses
  <2> QED
    BY <1>1, <1>15, <2>1 DEF ReplyFailed, Become
<1>16. ASSUME NEW o \in ops, PauseRead(o) PROVE Shapes'
  <2>1. ASSUME NEW g \in Goals, Become(o, Op(o.kind, o.run, g, Seen(g), 0)) PROVE Shapes'
    <3>1. OpShape(o) /\ o.kind \in Pauses
      BY <1>16 DEF PauseRead, Shapes
    <3>2. OpShape(Op(o.kind, o.run, g, Seen(g), 0))
      BY <3>1, OpFields DEF OpShape, Pauses
    <3> QED
      BY <1>1, <2>1, <3>2 DEF Become
  <2> QED
    BY <1>2, <1>16, <2>1 DEF PauseRead, RowsOf, End
<1>17. ASSUME NEW o \in ops, TerminalRead(o) PROVE Shapes'
  <2>1. OpShape(o) /\ o.run \in Runs
    BY <1>17 DEF TerminalRead, Shapes, OpShape
  <2>2. ASSUME NEW g \in Goals, NEW a \in {"failed", "paused"},
               Become(o, Op("terminal", o.run, g, Seen(g), a))
        PROVE  Shapes'
    <3>1. OpShape(Op("terminal", o.run, g, Seen(g), a))
      BY <2>1, OpFields DEF OpShape, Kinds, ReaderKinds, Pauses
    <3> QED
      BY <1>1, <2>2, <3>1 DEF Become
  <2>3. GoalsForRun(o.run) \subseteq Goals
    BY <2>1 DEF GoalsForRun, RowsOf
  <2> QED
    BY <1>2, <1>17, <2>2, <2>3 DEF TerminalRead, End
<1>18. ASSUME NEW o \in ops,
              \/ ReplyAccepted(o) \/ PauseWrite(o) \/ CompactWrite(o) \/ WriteInsert(o)
              \/ UpdateWrite(o) \/ CancelWrite(o) \/ CompleteWrite(o) \/ SegmentWrite(o)
              \/ TerminalWrite(o)
       PROVE  Shapes'
  BY <1>2, <1>18 DEF ReplyAccepted, PauseWrite, CompactWrite, WriteInsert, UpdateWrite, CancelWrite,
                     CompleteWrite, SegmentWrite, TerminalWrite, End
<1>19. ASSUME GatewayStops \/ GatewayServes PROVE Shapes'
  BY <1>2, <1>19 DEF GatewayStops, GatewayServes
<1> QED
  BY <1>3, <1>4, <1>5, <1>6, <1>7, <1>8, <1>9, <1>10, <1>11, <1>12, <1>13, <1>14, <1>15, <1>16,
     <1>17, <1>18, <1>19 DEF Next

\* No operation on a goal that is not there sees it created by another one.
LEMMA NotThereStays ==
    ASSUME TypeOK, GoalStep, NEW o \in ops \cap ops', o.goal \in Goals,
           goal[o.goal].status = "none"
    PROVE  goal'[o.goal].status = "none"
BY DEF GoalStep, TypeOK

\* A launch, a failure or the end of a process leaves the operations of other
\* starts alone; a run finishes only while no start, tool or segment of it is open.
Undisturbed(o) ==
    /\ o.kind \in StartKinds /\ o.run # NoRun => proc'[o.run] = proc[o.run]
    /\ o.run # NoRun /\ proc'[o.run] = "finished" /\ proc[o.run] # "finished"
          => o.kind \in Pauses \cup {"reply", "terminal"}

\* No step disturbs an operation that stays under way.
LEMMA OperationsStay ==
    ASSUME TypeOK, Shapes, Starting, Next, NEW o \in ops \cap ops'
    PROVE  Undisturbed(o)
<1> USE NoneAssumption DEF TypeOK, Undisturbed
<1>1. OpShape(o) /\ (o.run # NoRun => o.run \in Runs)
  BY DEF Shapes, OpShape, AnyRun
<1>2. ASSUME UNCHANGED proc PROVE Undisturbed(o)
  BY <1>2
<1>3. ASSUME NEW q \in ops, BindRead(q) \/ BindWrite(q) PROVE Undisturbed(o)
  <2>1. CASE Launch(q)
    <3>1. o # q
      BY <1>3, <2>1 DEF BindRead, BindWrite, Launch, Become, Op
    <3>2. q.run \in Runs /\ q.kind = "bind"
      BY <1>3 DEF BindRead, BindWrite, Shapes, OpShape, AnyRun
    <3> QED
      BY <1>1, <2>1, <3>1, <3>2 DEF Launch, Starting, StartKinds
  <2> QED
    BY <1>2, <1>3, <2>1 DEF BindRead, BindWrite, StartFails
<1>4. ASSUME NEW q \in ops, ReplyFailed(q) PROVE Undisturbed(o)
  <2>1. q.run \in Runs /\ proc[q.run] # "none"
    BY <1>4 DEF ReplyFailed, Shapes, OpShape, Starting, AnyRun
  <2> QED
    BY <1>1, <1>4, <2>1 DEF ReplyFailed, Starting
<1>5. ASSUME NEW r \in Runs, FinishEvent(r) PROVE Undisturbed(o)
  BY <1>1, <1>5 DEF FinishEvent, Reader, ReaderIdle, Starting, OpShape, Kinds, StartKinds
<1>6. ASSUME NEW r \in Runs, ProcessDies(r) PROVE Undisturbed(o)
  BY <1>1, <1>6 DEF ProcessDies, Starting
<1>7. ASSUME GatewayStops PROVE Undisturbed(o)
  BY <1>7 DEF GatewayStops
<1> QED
  <2> USE <1>2
  <2>1. ASSUME NEW g \in Goals, CreateUserInitiated(g) \/ CompactRead(g) \/ CancelRead(NoRun, g)
        PROVE  Undisturbed(o)
    BY <2>1 DEF CreateUserInitiated, CompactRead, CancelRead
  <2>2. ASSUME NEW r \in Runs,
               \/ \E g \in Goals \cup {NoGoal} : StartRun(r, g)
               \/ CancelRun(r) \/ RootErrorEvent(r) \/ WorkerErrorEvent(r) \/ ReconcileRun(r)
        PROVE  Undisturbed(o)
    BY <2>2 DEF StartRun, CancelRun, RootErrorEvent, WorkerErrorEvent, ReconcileRun
  <2>3. ASSUME NEW r \in Runs, NEW g \in Goals,
               \/ WritePending(r, g) \/ WriteRead(r, g) \/ CancelRead(r, g)
               \/ \E b \in BOOLEAN : UpdateRead(r, g, b)
               \/ \E s \in {"succeeded", "failed"} : CompleteRead(r, g, s)
               \/ \E i \in Segments : SegmentRecord(r, g, i)
        PROVE  Undisturbed(o)
    <3>1. UNCHANGED proc
      BY <2>3 DEF WritePending, WriteRead, CancelRead, UpdateRead, CompleteRead, SegmentRecord
    <3> QED
      BY <3>1
  <2>4. ASSUME NEW q \in ops,
               \/ RepairRead(q) \/ RepairWrite(q) \/ CreatePending(q) \/ ReplyAccepted(q)
               \/ PauseRead(q) \/ PauseWrite(q) \/ CompactWrite(q) \/ WriteInsert(q)
               \/ UpdateWrite(q) \/ CancelWrite(q) \/ CompleteWrite(q) \/ SegmentWrite(q)
               \/ TerminalRead(q) \/ TerminalWrite(q)
        PROVE  Undisturbed(o)
    <3>1. UNCHANGED proc
      BY <2>4 DEF RepairRead, RepairWrite, CreatePending, StartFails, ReplyAccepted, PauseRead,
                  PauseWrite, CompactWrite, WriteInsert, UpdateWrite, CancelWrite, CompleteWrite,
                  SegmentWrite, TerminalRead, TerminalWrite
    <3> QED
      BY <3>1
  <2>5. ASSUME ContinueGoal \/ GatewayServes PROVE Undisturbed(o)
    BY <2>5 DEF ContinueGoal, GatewayServes
  <2> HIDE <1>2
  <2> QED
    BY <1>3, <1>4, <1>5, <1>6, <1>7, <2>1, <2>2, <2>3, <2>4, <2>5 DEF Next

\* What holds of an operation when it comes up.
ArrivesAtGoal(p) ==
    p.goal \in Goals =>
        /\ goal'[p.goal].status = "none" => \A o \in ops \cap ops' : o.goal # p.goal
        /\ p.kind \in {"create", "write"} => goal'[p.goal].status = "none"
        /\ p.kind = "repair" /\ p.run = NoRun => goal'[p.goal].status = "none"
        /\ p.kind = "bind" => goal'[p.goal].status # "none"

ArrivesAtRun(p) ==
    p.run # NoRun =>
        /\ run'[p.run] # "new"
        /\ p.kind = "reply" => proc'[p.run] # "none"
        /\ p.kind \in StartKinds =>
              /\ proc'[p.run] = "none"
              /\ \A o \in ops \cap ops' : o.kind \in StartKinds => o.run # p.run
        /\ proc'[p.run] = "finished" => p.kind \in Pauses \cup {"reply", "terminal"}

ArrivesToRepair(p) ==
    p.kind = "repair" /\ p.row # Absent =>
        p.row.id \in Goals /\ p.row.row.owner \in Runs /\ run'[p.row.row.owner] = "ended"

Arrives(p) == ArrivesAtGoal(p) /\ ArrivesAtRun(p) /\ ArrivesToRepair(p)

Arrival == \/ ops' \subseteq ops
           \/ \E p : ops' \subseteq ops \cup {p} /\ (p \notin ops => Arrives(p))

\* An operation that a tool, an event or a user begins, and which reads no more
\* than the rows: it comes up if its run has one and its goal is there or free.
LEMMA BeginsWell ==
    ASSUME TypeOK, NewRunsAreIdle, NEW k, NEW r \in AnyRun, NEW g \in AnyGoal, NEW row, NEW a,
           k \notin {"reply"} \cup StartKinds,
           r # NoRun => run'[r] # "new",
           r # NoRun => k \in Pauses \cup {"terminal"} \/ proc'[r] # "finished",
           g # NoGoal => goal'[g].status # "none" /\ k # "write",
           ops' \subseteq ops \cup {Op(k, r, g, row, a)}
    PROVE  Arrival
<1> DEFINE p == Op(k, r, g, row, a)
<1>1. ArrivesAtGoal(p)
  BY OpFields, NoneAssumption DEF ArrivesAtGoal, StartKinds, AnyGoal
<1>2. ArrivesAtRun(p)
  BY OpFields DEF ArrivesAtRun, StartKinds
<1>3. ArrivesToRepair(p)
  BY OpFields DEF ArrivesToRepair, StartKinds
<1> QED
  BY <1>1, <1>2, <1>3 DEF Arrival, Arrives

\* What a starting run does next: a step of its start takes the place of another.
LEMMA StartsGoOn ==
    ASSUME TypeOK, Shapes, AbsentIsEmpty, Fresh, NewRunsAreIdle, Starting, GoalStep, RunStep,
           NEW o \in ops, o.kind \in StartKinds, NEW k \in StartKinds, NEW row, NEW a,
           k = "create" => o.goal \in Goals /\ goal'[o.goal].status = "none",
           k = "repair" /\ o.run = NoRun => o.kind = "repair" /\ UNCHANGED goal,
           k = "bind" => o.goal = NoGoal \/ goal[o.goal].status # "none",
           k = "repair" => row = Absent,
           UNCHANGED proc, Become(o, Op(k, o.run, o.goal, row, a))
    PROVE  Arrival
<1> DEFINE p == Op(k, o.run, o.goal, row, a)
<1>0. ops' \subseteq ops \cup {p} /\ (p \notin ops => o \notin ops')
  BY DEF Become
<1>1. o.goal \in AnyGoal /\ o.run \in AnyRun
  BY DEF Shapes, OpShape
<1>2. o \notin ops' => ArrivesAtGoal(p)
  <2>1. ASSUME o.goal \in Goals, o \notin ops', goal'[o.goal].status = "none",
               NEW q \in ops \cap ops'
        PROVE  q.goal # o.goal
    BY <2>1, StatusesAdvance DEF Fresh
  <2>2. ASSUME o.goal \in Goals, k = "repair", o.run = NoRun
        PROVE  goal'[o.goal].status = "none"
    BY <2>2 DEF Fresh
  <2>3. ASSUME o.goal \in Goals, k = "bind"
        PROVE  goal'[o.goal].status # "none"
    BY <2>3, StatusesAdvance, NoneAssumption
  <2> QED
    BY <2>1, <2>2, <2>3, OpFields DEF ArrivesAtGoal, StartKinds
<1>3. o \notin ops' => ArrivesAtRun(p)
  <2>1. o.run # NoRun => run'[o.run] # "new" /\ proc'[o.run] = "none"
    BY <1>1 DEF RunStep, Starting, NewRunsAreIdle, Quiet, AnyRun
  <2> QED
    BY <2>1, OpFields DEF ArrivesAtRun, Starting, StartKinds
<1>4. ArrivesToRepair(p)
  BY OpFields DEF ArrivesToRepair
<1> QED
  BY <1>0, <1>2, <1>3, <1>4 DEF Arrival, Arrives

\* At most one operation comes up in a step, and it finds things in order.
LEMMA OperationsArrive ==
    ASSUME TypeOK, Shapes, AbsentIsEmpty, Fresh, NewRunsAreIdle, Starting, GoalStep, RunStep, Next
    PROVE  Arrival
<1> USE NoneAssumption DEF TypeOK, AnyRun, AnyGoal
<1>1. \A r \in Runs : proc[r] = "alive" /\ UNCHANGED proc
                      => run'[r] # "new" /\ proc'[r] # "finished"
  BY DEF NewRunsAreIdle, RunStep
<1>2. \A g \in Goals : goal[g].status # "none" => goal'[g].status # "none"
  BY StatusesAdvance
<1>3. ASSUME NEW g \in Goals, CreateUserInitiated(g) PROVE Arrival
  <2> DEFINE p == Op("repair", NoRun, g, Absent, 1)
  <2>1. goal'[g].status = "none" /\ \A o \in ops : o.goal # g
    BY <1>3 DEF CreateUserInitiated, New, Absent
  <2>2. Arrives(p)
    BY <2>1, OpFields DEF Arrives, ArrivesAtGoal, ArrivesAtRun, ArrivesToRepair
  <2> QED
    BY <1>3, <2>2 DEF CreateUserInitiated, Begin, Arrival
<1>4. ASSUME ContinueGoal PROVE Arrival
  <2> DEFINE p == Op("repair", NoRun, NoGoal, Absent, 1)
  <2>1. Arrives(p)
    BY OpFields DEF Arrives, ArrivesAtGoal, ArrivesAtRun, ArrivesToRepair
  <2> QED
    BY <1>4, <2>1 DEF ContinueGoal, Begin, Arrival
<1>5. ASSUME NEW r \in Runs, NEW g \in Goals \cup {NoGoal}, StartRun(r, g) PROVE Arrival
  <2> DEFINE p == Op("repair", r, g, Absent, IF g = NoGoal THEN 1 ELSE 2)
  <2>1. proc[r] = "none" /\ Quiet(r) /\ UNCHANGED <<goal, proc>> /\ run'[r] = "active"
    BY <1>5 DEF StartRun, NewRunsAreIdle
  <2>2. ArrivesAtGoal(p)
    BY <1>5, <2>1, OpFields DEF StartRun, ArrivesAtGoal, New, Absent, AbsentIsEmpty
  <2>3. ArrivesAtRun(p) /\ ArrivesToRepair(p)
    BY <2>1, OpFields DEF ArrivesAtRun, ArrivesToRepair, Quiet
  <2> QED
    BY <1>5, <2>2, <2>3 DEF StartRun, Begin, Arrival, Arrives
<1>6. ASSUME NEW r \in Runs, NEW g \in Goals, WriteRead(r, g) PROVE Arrival
  <2> DEFINE p == Op("write", r, g, Absent, 0)
  <2>1. /\ goal'[g].status = "none" /\ \A o \in ops : o.goal # g
        /\ run'[r] # "new" /\ proc'[r] # "finished"
    BY <1>1, <1>6 DEF WriteRead, Reader, New, Absent
  <2>2. ArrivesAtGoal(p)
    BY <2>1, OpFields DEF ArrivesAtGoal
  <2>3. ArrivesAtRun(p)
    BY <2>1, OpFields DEF ArrivesAtRun, StartKinds
  <2>4. ArrivesToRepair(p)
    BY OpFields DEF ArrivesToRepair
  <2> QED
    BY <1>6, <2>2, <2>3, <2>4 DEF WriteRead, Begin, Arrival, Arrives
<1>7. ASSUME NEW r \in Runs, NEW g \in Goals, NEW k \in {"update", "complete", "segment", "cancel"},
             NEW row, NEW a, Reader(r), goal[g].status # "none", UNCHANGED proc,
             ops' \subseteq ops \cup {Op(k, r, g, row, a)}
      PROVE  Arrival
  <2>1. run'[r] # "new" /\ proc'[r] # "finished" /\ goal'[g].status # "none"
    BY <1>1, <1>2, <1>7 DEF Reader
  <2>2. k \notin {"reply"} \cup StartKinds /\ k # "write" /\ r \in AnyRun /\ g \in AnyGoal
    BY DEF StartKinds
  <2> QED
    BY <1>7, <2>1, <2>2, BeginsWell
<1>8. ASSUME NEW g \in Goals, NEW k \in {"compact", "cancel"}, NEW row,
             goal[g].status # "none", ops' \subseteq ops \cup {Op(k, NoRun, g, row, 0)}
      PROVE  Arrival
  <2>1. k \notin {"reply"} \cup StartKinds /\ k # "write" /\ NoRun \in AnyRun /\ g \in AnyGoal
    BY DEF StartKinds
  <2> QED
    BY <1>2, <1>8, <2>1, BeginsWell
<1>9. ASSUME NEW r \in Runs, NEW k \in Pauses \cup {"terminal"}, NEW g \in AnyGoal, NEW row, NEW a,
             run'[r] # "new", g # NoGoal => goal[g].status # "none",
             ops' \subseteq ops \cup {Op(k, r, g, row, a)}
      PROVE  Arrival
  <2>1. k \notin {"reply"} \cup StartKinds /\ k # "write" /\ r \in AnyRun
    BY DEF StartKinds, Pauses
  <2> QED
    BY <1>2, <1>9, <2>1, BeginsWell
<1>10. ASSUME NEW o \in ops, AfterRepair(o), o.kind = "repair", UNCHANGED proc,
              \A g \in Goals : goal[g].status = "none" => goal'[g].status = "none",
              o.run = NoRun => o.arg # 2
       PROVE  Arrival
  <2>1. OpShape(o)
    BY DEF Shapes
  <2>2. CASE o.run # NoRun /\ Become(o, Op("repair", o.run, o.goal, Absent, 1))
    BY <1>10, <2>2, StartsGoOn DEF StartKinds
  <2>3. CASE o.goal # NoGoal /\ goal[o.goal] = Absent /\ Become(o, Op("create", o.run, o.goal, Absent, 0))
    <3>1. o.goal \in Goals /\ goal'[o.goal].status = "none"
      BY <1>10, <2>1, <2>3 DEF OpShape, Absent
    <3> QED
      BY <1>10, <2>3, <3>1, StartsGoOn DEF StartKinds
  <2>4. CASE /\ o.goal = NoGoal \/ goal[o.goal] # Absent
             /\ Become(o, Op("bind", o.run, o.goal, Absent, 0))
    <3>1. o.goal = NoGoal \/ goal[o.goal].status # "none"
      BY <2>1, <2>4 DEF AbsentIsEmpty, OpShape
    <3> QED
      BY <1>10, <2>4, <3>1, StartsGoOn DEF StartKinds
  <2> QED
    BY <1>10, <2>1, <2>2, <2>3, <2>4 DEF AfterRepair, OpShape, Arrival, End
<1>11. ASSUME NEW o \in ops, RepairRead(o) PROVE Arrival
  <2>1. OpShape(o)
    BY DEF Shapes
  <2>2. CASE AfterRepair(o)
    BY <1>10, <1>11, <2>1, <2>2 DEF RepairRead, OpShape
  <2>3. ASSUME NEW g \in Goals, Stale(g), Become(o, [o EXCEPT !.row = [id |-> g, row |-> Seen(g)]]),
               o.kind = "repair", UNCHANGED <<goal, run, proc>>
        PROVE  Arrival
    <3> DEFINE p == [o EXCEPT !.row = [id |-> g, row |-> Seen(g)]]
    <3>1. p.kind = "repair" /\ p.run = o.run /\ p.goal = o.goal /\ p.row = [id |-> g, row |-> Seen(g)]
      BY <2>1, <2>3 DEF OpShape, Op
    <3>2. ops' \subseteq ops \cup {p} /\ (p \notin ops => o \notin ops')
      BY <2>3 DEF Become
    <3>3. Seen(g).owner = goal[g].owner /\ goal[g].owner \in Runs /\ run'[goal[g].owner] = "ended"
      BY <2>3 DEF Stale, Seen, Rows, NewRunsAreIdle
    <3>4. ArrivesToRepair(p)
      BY <3>1, <3>3 DEF ArrivesToRepair
    <3> HIDE DEF p
    <3>5. o \notin ops' => ArrivesAtGoal(p)
      BY <2>3, <3>1 DEF ArrivesAtGoal, Fresh
    <3>6. o \notin ops' => ArrivesAtRun(p)
      BY <2>1, <2>3, <3>1 DEF ArrivesAtRun, Starting, NewRunsAreIdle, Quiet, StartKinds, OpShape
    <3> QED
      BY <3>2, <3>4, <3>5, <3>6 DEF Arrival, Arrives
  <2> QED
    BY <1>11, <2>2, <2>3 DEF RepairRead
<1>12. ASSUME NEW o \in ops, RepairWrite(o) PROVE Arrival
  <2>1. OpShape(o)
    BY DEF Shapes
  <2>2. \A g \in Goals : goal[g].status = "none" => goal'[g].status = "none"
    BY <1>12 DEF RepairWrite, Transition, Matches, Write
  <2> QED
    BY <1>10, <1>12, <2>1, <2>2 DEF RepairWrite, OpShape
<1>13. ASSUME NEW o \in ops, CreatePending(o) PROVE Arrival
  <2>1. CASE o.run # NoRun /\ Become(o, Op("repair", o.run, o.goal, Absent, 1)) /\ UNCHANGED proc
    BY <1>13, <2>1, StartsGoOn DEF StartKinds, CreatePending
  <2> QED
    BY <1>13, <2>1 DEF CreatePending, StartFails, End, Arrival
<1>14. ASSUME NEW o \in ops, BindRead(o) \/ BindWrite(o) PROVE Arrival
  <2>1. OpShape(o) /\ o.kind = "bind" /\ o.run \in Runs
    BY <1>14 DEF BindRead, BindWrite, Shapes, OpShape
  <2>2. CASE Launch(o)
    <3> DEFINE p == Op("reply", o.run, o.goal, Absent, 0)
    <3>1. run'[o.run] # "new" /\ proc'[o.run] = "alive"
      BY <2>1, <2>2 DEF Launch, NewRunsAreIdle, RunStep, Quiet
    <3>2. o.goal \in Goals => goal'[o.goal].status # "none"
      BY <1>2, <2>1 DEF Fresh
    <3>3. ArrivesAtGoal(p) /\ ArrivesToRepair(p)
      BY <3>2, OpFields DEF ArrivesAtGoal, ArrivesToRepair
    <3>4. ArrivesAtRun(p)
      BY <3>1, OpFields DEF ArrivesAtRun, StartKinds
    <3> QED
      BY <2>2, <3>3, <3>4 DEF Launch, Become, Arrival, Arrives
  <2>3. CASE StartFails(o)
    BY <2>3 DEF StartFails, End, Arrival
  <2>4. CASE /\ o.goal # NoGoal /\ UNCHANGED proc
             /\ Become(o, [o EXCEPT !.row = Seen(o.goal)])
    <3>1. [o EXCEPT !.row = Seen(o.goal)] = Op("bind", o.run, o.goal, Seen(o.goal), o.arg)
      BY <2>1 DEF OpShape, Op
    <3>2. o.goal \in Goals /\ goal[o.goal].status # "none"
      BY <2>1, <2>4 DEF OpShape, Fresh
    <3> QED
      BY <2>1, <2>4, <3>1, <3>2, StartsGoOn DEF StartKinds
  <2> QED
    BY <1>14, <2>2, <2>3, <2>4 DEF BindRead, BindWrite
<1>15. ASSUME NEW o \in ops, ReplyFailed(o) PROVE Arrival
  <2>1. o.run \in Runs /\ run'[o.run] # "new"
    BY <1>15 DEF ReplyFailed, Shapes, OpShape, NewRunsAreIdle, Quiet
  <2> QED
    BY <1>9, <1>15, <2>1 DEF ReplyFailed, Become, Pauses
<1>16. ASSUME NEW o \in ops, PauseRead(o) PROVE Arrival
  <2>1. o.run \in Runs /\ o.kind \in Pauses /\ run'[o.run] # "new"
    BY <1>16 DEF PauseRead, Shapes, OpShape, NewRunsAreIdle, Quiet, RunStep, Pauses
  <2>2. ASSUME NEW g \in Goals, goal[g].status = "active", Become(o, Op(o.kind, o.run, g, Seen(g), 0))
        PROVE  Arrival
    BY <1>9, <2>1, <2>2 DEF Become
  <2> QED
    BY <1>16, <2>1, <2>2 DEF PauseRead, RowsOf, End, Arrival
<1>17. ASSUME NEW o \in ops, TerminalRead(o) PROVE Arrival
  <2>1. o.run \in Runs /\ run'[o.run] # "new"
    BY <1>17 DEF TerminalRead, Shapes, OpShape, NewRunsAreIdle, Quiet, RunStep, Pauses
  <2>2. ASSUME NEW g \in Goals, NEW a, goal[g].status = "active",
               Become(o, Op("terminal", o.run, g, Seen(g), a))
        PROVE  Arrival
    BY <1>9, <2>1, <2>2 DEF Become
  <2>3. GoalsForRun(o.run) \subseteq Goals
    BY <2>1 DEF GoalsForRun, RowsOf
  <2> QED
    BY <1>17, <2>1, <2>2, <2>3 DEF TerminalRead, End, Arrival
<1>18. ASSUME NEW r \in Runs,
              \/ CancelRun(r) \/ FinishEvent(r) \/ RootErrorEvent(r) \/ WorkerErrorEvent(r)
              \/ ProcessDies(r) \/ ReconcileRun(r)
       PROVE  Arrival
  <2>1. run'[r] # "new"
    BY <1>18 DEF CancelRun, FinishEvent, RootErrorEvent, WorkerErrorEvent, ProcessDies, ReconcileRun,
                 Reader, NewRunsAreIdle, RunStep
  <2>2. ASSUME NEW k \in Pauses \cup {"terminal"}, NEW a,
               ops' \subseteq ops \cup {Op(k, r, NoGoal, Absent, a)}
        PROVE  Arrival
    BY <1>9, <2>1, <2>2
  <2> QED
    BY <1>18, <2>2 DEF CancelRun, FinishEvent, RootErrorEvent, WorkerErrorEvent, ProcessDies,
                       ReconcileRun, Begin, Pauses
<1>19. ASSUME NEW r \in Runs, NEW g \in Goals,
              \/ CancelRead(r, g)
              \/ \E b \in BOOLEAN : UpdateRead(r, g, b)
              \/ \E s \in {"succeeded", "failed"} : CompleteRead(r, g, s)
              \/ \E i \in Segments : SegmentRecord(r, g, i)
       PROVE  Arrival
  <2>1. CASE CancelRead(r, g)
    BY <1>7, <2>1 DEF CancelRead, Begin, Open
  <2>2. CASE \E b \in BOOLEAN : UpdateRead(r, g, b)
    BY <1>7, <2>2 DEF UpdateRead, Begin, Open
  <2>3. CASE \E s \in {"succeeded", "failed"} : CompleteRead(r, g, s)
    BY <1>7, <2>3 DEF CompleteRead, Begin
  <2>4. ASSUME NEW i \in Segments, SegmentRecord(r, g, i) PROVE Arrival
    <3>1. /\ Reader(r) /\ goal[g].status # "none" /\ UNCHANGED proc
          /\ \E a \in BOOLEAN : ops' \subseteq ops \cup {Op("segment", r, g, Absent, a)}
      BY <2>4 DEF SegmentRecord, Begin
    <3> QED
      BY <1>7, <3>1
  <2> QED
    BY <1>19, <2>1, <2>2, <2>3, <2>4
<1>20. ASSUME NEW g \in Goals, CompactRead(g) \/ CancelRead(NoRun, g) PROVE Arrival
  BY <1>8, <1>20 DEF CompactRead, CancelRead, Begin, Open
<1>21. ASSUME ops' \subseteq ops PROVE Arrival
  BY <1>21 DEF Arrival
<1>22. ASSUME NEW o \in ops,
              \/ ReplyAccepted(o) \/ PauseWrite(o) \/ CompactWrite(o) \/ WriteInsert(o)
              \/ UpdateWrite(o) \/ CancelWrite(o) \/ CompleteWrite(o) \/ SegmentWrite(o)
              \/ TerminalWrite(o)
       PROVE  Arrival
  BY <1>21, <1>22 DEF ReplyAccepted, PauseWrite, CompactWrite, WriteInsert, UpdateWrite, CancelWrite,
                      CompleteWrite, SegmentWrite, TerminalWrite, End
<1>23. ASSUME GatewayStops \/ GatewayServes \/ \E r \in Runs, g \in Goals : WritePending(r, g)
       PROVE  Arrival
  BY <1>21, <1>23 DEF GatewayStops, GatewayServes, WritePending
<1> QED
  BY <1>3, <1>4, <1>5, <1>6, <1>11, <1>12, <1>13, <1>14, <1>15, <1>16, <1>17, <1>18, <1>19, <1>20,
     <1>22, <1>23 DEF Next

\* What the operations in flight rely on is kept.
LEMMA OperationsKept ==
    ASSUME TypeOK, Shapes, RepairsOfEnded, AbsentIsEmpty, Fresh, NewRunsAreIdle, Starting,
           FinishedRunsEnd, GoalStep, RunStep, Shapes', Next
    PROVE  RepairsOfEnded' /\ Fresh' /\ NewRunsAreIdle' /\ Starting' /\ FinishedRunsEnd'
<1>1. /\ \A o \in ops' : o \in ops \/ Arrives(o)
      /\ \A o, p \in ops' : o \notin ops /\ p \notin ops => o = p
  BY OperationsArrive DEF Arrival
<1>2. \A o \in ops \cap ops' : Undisturbed(o)
  BY OperationsStay
<1>3. \A o \in ops : o.run \in AnyRun
  BY DEF Shapes, OpShape
<1>4. RepairsOfEnded'
  BY <1>1 DEF RepairsOfEnded, RunStep, Arrives, ArrivesToRepair
<1>5. Fresh'
  <2>1. ASSUME NEW o \in ops', o.goal \in Goals, goal'[o.goal].status = "none",
               NEW p \in ops', p.goal = o.goal
        PROVE  p = o
    <3>1. CASE o \in ops /\ p \in ops
      BY <2>1, <3>1, StatusesAdvance DEF Fresh
    <3> QED
      BY <1>1, <2>1, <3>1 DEF Arrives, ArrivesAtGoal
  <2>2. ASSUME NEW o \in ops', o.goal \in Goals
        PROVE  /\ o.kind \in {"create", "write"} => goal'[o.goal].status = "none"
               /\ o.kind = "repair" /\ o.run = NoRun => goal'[o.goal].status = "none"
               /\ o.kind = "bind" => goal'[o.goal].status # "none"
    <3>1. CASE o \in ops
      BY <2>2, <3>1, NotThereStays, StatusesAdvance DEF Fresh
    <3> QED
      BY <1>1, <2>2, <3>1 DEF Arrives, ArrivesAtGoal
  <2> QED
    BY <2>1, <2>2 DEF Fresh
<1>6. NewRunsAreIdle'
  <2>1. ASSUME NEW r \in Runs, run'[r] = "new"
        PROVE  /\ proc'[r] = "none" /\ \A o \in ops' : o.run # r
               /\ \A g \in Goals : goal'[g].owner # r
    <3>1. proc[r] = "none" /\ Quiet(r) /\ \A g \in Goals : goal[g].owner # r /\ run[r] = "new"
      BY <2>1 DEF RunStep, NewRunsAreIdle
    <3>2. \A o \in ops' : o.run # r
      BY <1>1, <2>1, <3>1, NoneAssumption DEF Arrives, ArrivesAtRun, Quiet
    <3>3. \A g \in Goals : goal'[g].owner # r
      <4>1. ASSUME NEW g \in Goals, goal'[g].owner = r PROVE FALSE
        <5>1. RowMoves(g)
          BY RowsMove
        <5> QED
          BY <3>1, <4>1, <5>1, NoneAssumption DEF RowMoves, Taken
      <4> QED
        BY <4>1
    <3> QED
      BY <3>1, <3>2, <3>3 DEF RunStep
  <2> QED
    BY <2>1 DEF NewRunsAreIdle, Quiet
<1>7. Starting'
  <2>1. ASSUME NEW o \in ops'
        PROVE  /\ o.kind = "reply" => proc'[o.run] # "none"
               /\ o.kind \in StartKinds /\ o.run # NoRun => proc'[o.run] = "none"
    <3>1. CASE o \in ops
      <4>1. o.kind = "reply" => o.run \in Runs
        BY <3>1 DEF Shapes, OpShape
      <4> QED
        BY <1>2, <2>1, <3>1, <4>1 DEF Starting, Undisturbed, RunStep
    <3>2. CASE o \notin ops
      <4>1. o.kind = "reply" => o.run # NoRun
        BY NoneAssumption DEF Shapes, OpShape
      <4> QED
        BY <1>1, <3>2, <4>1 DEF Arrives, ArrivesAtRun
    <3> QED
      BY <3>1, <3>2
  <2>2. ASSUME NEW o \in ops', o.kind \in StartKinds, o.run # NoRun,
               NEW p \in ops', p.kind \in StartKinds, p.run = o.run
        PROVE  p = o
    <3>1. CASE o \in ops /\ p \in ops
      BY <2>2, <3>1 DEF Starting
    <3> QED
      BY <1>1, <2>2, <3>1 DEF Arrives, ArrivesAtRun
  <2> QED
    BY <2>1, <2>2 DEF Starting
<1>8. FinishedRunsEnd'
  BY <1>1, <1>2 DEF FinishedRunsEnd, Undisturbed, Arrives, ArrivesAtRun
<1> QED
  BY <1>4, <1>5, <1>6, <1>7, <1>8

-----------------------------------------------------------------------------
(* The end of a run                                                        *)

\* A process finishes in FinishEvent only.
LEMMA FinishIsAnEvent ==
    ASSUME TypeOK, Next, NEW r \in Runs, proc'[r] = "finished"
    PROVE  \/ FinishEvent(r)
           \/ proc[r] = "finished" /\ (GatewayStops => Quiet(r))
<1> DEFINE Known == FinishEvent(r) \/ (proc[r] = "finished" /\ (GatewayStops => Quiet(r)))
<1> USE DEF TypeOK
<1>1. CASE GatewayStops
  BY <1>1 DEF GatewayStops
<1>2. CASE ~GatewayStops
  <2>1. ASSUME UNCHANGED proc PROVE Known
    BY <1>2, <2>1
  <2>2. ASSUME NEW g \in Goals, CreateUserInitiated(g) \/ CompactRead(g) \/ CancelRead(NoRun, g)
        PROVE  Known
    BY <2>1, <2>2 DEF CreateUserInitiated, CompactRead, CancelRead
  <2>3. ASSUME NEW q \in Runs,
               \/ \E g \in Goals \cup {NoGoal} : StartRun(q, g)
               \/ CancelRun(q) \/ RootErrorEvent(q) \/ WorkerErrorEvent(q) \/ ReconcileRun(q)
        PROVE  Known
    BY <2>1, <2>3 DEF StartRun, CancelRun, RootErrorEvent, WorkerErrorEvent, ReconcileRun
  <2>4. ASSUME NEW q \in Runs, FinishEvent(q) PROVE Known
    BY <1>2, <2>4 DEF FinishEvent
  <2>5. ASSUME NEW q \in Runs, ProcessDies(q) PROVE Known
    BY <1>2, <2>5 DEF ProcessDies
  <2>6. ASSUME NEW q \in Runs, NEW g \in Goals,
               \/ WritePending(q, g) \/ WriteRead(q, g) \/ CancelRead(q, g)
               \/ \E b \in BOOLEAN : UpdateRead(q, g, b)
               \/ \E s \in {"succeeded", "failed"} : CompleteRead(q, g, s)
               \/ \E i \in Segments : SegmentRecord(q, g, i)
        PROVE  Known
    <3>1. UNCHANGED proc
      BY <2>6 DEF WritePending, WriteRead, CancelRead, UpdateRead, CompleteRead, SegmentRecord
    <3> QED
      BY <2>1, <3>1
  <2>7. ASSUME NEW o \in ops, BindRead(o) \/ BindWrite(o) \/ ReplyFailed(o) PROVE Known
    BY <1>2, <2>1, <2>7 DEF BindRead, BindWrite, StartFails, Launch, ReplyFailed
  <2>8. ASSUME NEW o \in ops,
               \/ RepairRead(o) \/ RepairWrite(o) \/ CreatePending(o) \/ ReplyAccepted(o)
               \/ PauseRead(o) \/ PauseWrite(o) \/ CompactWrite(o) \/ WriteInsert(o)
               \/ UpdateWrite(o) \/ CancelWrite(o) \/ CompleteWrite(o) \/ SegmentWrite(o)
               \/ TerminalRead(o) \/ TerminalWrite(o)
        PROVE  Known
    <3>1. UNCHANGED proc
      BY <2>8 DEF RepairRead, RepairWrite, CreatePending, StartFails, ReplyAccepted, PauseRead,
                  PauseWrite, CompactWrite, WriteInsert, UpdateWrite, CancelWrite, CompleteWrite,
                  SegmentWrite, TerminalRead, TerminalWrite
    <3> QED
      BY <2>1, <3>1
  <2>9. ASSUME ContinueGoal \/ GatewayServes PROVE Known
    BY <2>1, <2>9 DEF ContinueGoal, GatewayServes
  <2> QED
    BY <1>2, <2>2, <2>3, <2>4, <2>5, <2>6, <2>7, <2>8, <2>9 DEF Next
<1> QED
  BY <1>1, <1>2

\* The handling of a terminal event takes its two steps, or the Gateway stops.
LEMMA TerminalEventsAreHandled ==
    ASSUME Next, NEW o \in ops, o.kind = "terminal"
    PROVE  o \in ops' \/ TerminalRead(o) \/ TerminalWrite(o) \/ GatewayStops
<1> DEFINE Handled == o \in ops' \/ TerminalRead(o) \/ TerminalWrite(o) \/ GatewayStops
<1>1. ASSUME ops \subseteq ops' PROVE Handled
  BY <1>1
<1>2. ASSUME NEW q \in ops, q.kind # "terminal", ops \ {q} \subseteq ops' PROVE Handled
  BY <1>2
<1>3. ASSUME NEW g \in Goals, CreateUserInitiated(g) \/ CompactRead(g) \/ CancelRead(NoRun, g)
      PROVE  Handled
  BY <1>1, <1>3 DEF CreateUserInitiated, CompactRead, CancelRead, Begin
<1>4. ASSUME NEW r \in Runs,
             \/ \E g \in Goals \cup {NoGoal} : StartRun(r, g)
             \/ CancelRun(r) \/ FinishEvent(r) \/ RootErrorEvent(r) \/ WorkerErrorEvent(r)
             \/ ProcessDies(r) \/ ReconcileRun(r)
      PROVE  Handled
  BY <1>1, <1>4 DEF StartRun, CancelRun, FinishEvent, RootErrorEvent, WorkerErrorEvent, ProcessDies,
                    ReconcileRun, Begin
<1>5. ASSUME NEW r \in Runs, NEW g \in Goals,
             \/ WritePending(r, g) \/ WriteRead(r, g) \/ CancelRead(r, g)
             \/ \E b \in BOOLEAN : UpdateRead(r, g, b)
             \/ \E s \in {"succeeded", "failed"} : CompleteRead(r, g, s)
             \/ \E i \in Segments : SegmentRecord(r, g, i)
      PROVE  Handled
  <2>1. ops \subseteq ops'
    BY <1>5 DEF WritePending, WriteRead, CancelRead, UpdateRead, CompleteRead, SegmentRecord, Begin
  <2> QED
    BY <1>1, <2>1
<1>6. ASSUME NEW q \in ops,
             \/ RepairRead(q) \/ RepairWrite(q) \/ CreatePending(q) \/ BindRead(q) \/ BindWrite(q)
             \/ ReplyAccepted(q) \/ ReplyFailed(q) \/ PauseRead(q) \/ PauseWrite(q)
             \/ CompactWrite(q) \/ WriteInsert(q) \/ UpdateWrite(q) \/ CancelWrite(q)
             \/ CompleteWrite(q) \/ SegmentWrite(q)
      PROVE  Handled
  <2>1. q.kind # "terminal"
    BY <1>6 DEF RepairRead, RepairWrite, CreatePending, BindRead, BindWrite, ReplyAccepted, ReplyFailed,
                PauseRead, PauseWrite, CompactWrite, WriteInsert, UpdateWrite, CancelWrite,
                CompleteWrite, SegmentWrite, Pauses
  <2>2. ops \ {q} \subseteq ops'
    BY <1>6 DEF RepairRead, RepairWrite, AfterRepair, CreatePending, StartFails, BindRead, BindWrite,
                Launch, ReplyAccepted, ReplyFailed, PauseRead, PauseWrite, CompactWrite, WriteInsert,
                UpdateWrite, CancelWrite, CompleteWrite, SegmentWrite, Become, End
  <2> QED
    BY <1>2, <2>1, <2>2
<1>7. ASSUME NEW q \in ops, TerminalRead(q) \/ TerminalWrite(q) PROVE Handled
  <2>1. ops \ {q} \subseteq ops'
    BY <1>7 DEF TerminalRead, TerminalWrite, Become, End
  <2> QED
    BY <1>7, <2>1
<1>8. ASSUME ContinueGoal \/ GatewayStops \/ GatewayServes PROVE Handled
  BY <1>1, <1>8 DEF ContinueGoal, GatewayServes, Begin
<1> QED
  BY <1>3, <1>4, <1>5, <1>6, <1>7, <1>8 DEF Next

\* While the goal of a finished run is its own, a terminal event is on the way.
LEMMA ReleaseKept ==
    ASSUME TypeOK, Shapes, Starting, FinishedRunsRelease, OwnedIffActive, OwnerHasGoal, GoalStep, Next
    PROVE  FinishedRunsRelease'
<1> USE NoneAssumption DEF TypeOK
<1> SUFFICES ASSUME NEW r \in Runs, NEW g \in Goals, proc'[r] = "finished", goal'[g].owner = r
             PROVE  \E o \in ops' : Releases(o, g, r)
  BY DEF FinishedRunsRelease, Releases
<1>1. CASE FinishEvent(r)
  <2> DEFINE o == Op("terminal", r, NoGoal, Absent, 0)
  <2>1. o \in ops'
    BY <1>1 DEF FinishEvent, Begin
  <2> QED
    BY <2>1, OpFields DEF Releases
<1>2. CASE proc[r] = "finished" /\ (GatewayStops => Quiet(r))
  <2>1. goal[g].owner = r
    <3>1. RowMoves(g)
      BY RowsMove
    <3> QED
      BY <1>2, <3>1 DEF RowMoves, Taken
  <2>2. PICK o \in ops : Releases(o, g, r)
    BY <1>2, <2>1 DEF FinishedRunsRelease
  <2>3. goalOf[r] = g /\ goal[g].status = "active" /\ o.kind = "terminal" /\ o.run = r
    BY <2>1, <2>2 DEF OwnerHasGoal, OwnedIffActive, Releases
  <2>4. CASE o \in ops'
    BY <2>2, <2>4
  <2>5. CASE TerminalRead(o)
    <3>1. GoalsForRun(o.run) = {g}
      BY <2>3 DEF GoalsForRun
    <3>2. PICK a : Become(o, Op("terminal", o.run, g, Seen(g), a))
      BY <2>3, <2>5, <3>1 DEF TerminalRead
    <3>3. Op("terminal", o.run, g, Seen(g), a) \in ops'
      BY <3>2 DEF Become
    <3> QED
      BY <2>3, <3>3, OpFields DEF Releases
  <2>6. CASE TerminalWrite(o)
    <3>1. o.goal = g /\ o.arg \in {"failed", "paused"}
      BY <2>2, <2>6 DEF TerminalWrite, Releases, Shapes, OpShape
    <3>2. Write(g, o.arg, NoRun, r)
      BY <2>1, <2>3, <2>6, <3>1 DEF TerminalWrite, Transition, Matches, Unique
    <3> QED
      BY <3>2 DEF Write, Rows
  <2>7. CASE GatewayStops
    BY <1>2, <2>3, <2>7 DEF Quiet
  <2> QED
    BY <2>3, <2>4, <2>5, <2>6, <2>7, TerminalEventsAreHandled
<1> QED
  BY <1>1, <1>2, FinishIsAnEvent

-----------------------------------------------------------------------------
(* Segments                                                                *)

\* A row counts the segments recorded for its goal.
LEMMA CountKept ==
    ASSUME TypeOK, GoalStep, Counted
    PROVE  Counted'
<1> USE DEF TypeOK
<1> DEFINE Of(S, g) == {s \in S : s[1] = g}
<1>1. CASE UNCHANGED <<goal, segs>>
  BY <1>1 DEF Counted, SegmentsCountedOnce
<1>2. ASSUME NEW g \in Goals, goal' = [goal EXCEPT ![g] = goal'[g]], UNCHANGED segs,
             goal'[g].used = goal[g].used
      PROVE  Counted'
  BY <1>2 DEF Counted, SegmentsCountedOnce
<1>3. ASSUME NEW g \in Goals, goal' = [goal EXCEPT ![g] = goal'[g]],
             goal'[g] = [goal[g] EXCEPT !.used = @ + 1],
             NEW r \in Runs, NEW i \in Segments, NewSegment(g, r, i), segs' = segs \cup {<<g, r, i>>}
      PROVE  Counted'
  <2>1. IsFiniteSet(segs')
    BY <1>3, FS_AddElement DEF Counted
  <2>2. ASSUME NEW h \in Goals \ {g} PROVE goal'[h].used = Cardinality(Of(segs', h))
    <3>1. Of(segs', h) = Of(segs, h) /\ goal'[h] = goal[h]
      BY <1>3
    <3> QED
      BY <3>1 DEF Counted, SegmentsCountedOnce
  <2>3. goal'[g].used = Cardinality(Of(segs', g))
    <3>1. Of(segs', g) = Of(segs, g) \cup {<<g, r, i>>} /\ <<g, r, i>> \notin Of(segs, g)
      BY <1>3 DEF NewSegment
    <3>2. IsFiniteSet(Of(segs, g))
      BY FS_Subset DEF Counted
    <3>3. Cardinality(Of(segs', g)) = Cardinality(Of(segs, g)) + 1
      BY <3>1, <3>2, FS_AddElement
    <3>4. goal[g].used = Cardinality(Of(segs, g))
      BY DEF Counted, SegmentsCountedOnce
    <3>5. goal'[g].used = goal[g].used + 1
      BY <1>3 DEF Rows
    <3> QED
      BY <3>3, <3>4, <3>5
  <2> QED
    BY <2>1, <2>2, <2>3 DEF Counted, SegmentsCountedOnce
<1>4. ASSUME NEW g \in Goals, RowStep(g)
      PROVE  \/ UNCHANGED segs /\ goal'[g].used = goal[g].used
             \/ /\ goal'[g] = [goal[g] EXCEPT !.used = @ + 1]
                /\ \E r \in Runs, i \in Segments : NewSegment(g, r, i) /\ segs' = segs \cup {<<g, r, i>>}
  <2>1. goal[g] \in Rows
    OBVIOUS
  <2>2. CASE goal[g].status = "none" /\ goal'[g] = [goal[g] EXCEPT !.status = "pending"] /\ UNCHANGED segs
    BY <2>1, <2>2 DEF Rows
  <2>3. CASE Freed(g) /\ UNCHANGED segs
    BY <2>1, <2>3 DEF Freed, Rows
  <2>4. CASE UNCHANGED segs /\ \E r \in Runs : Taken(g, r)
    BY <2>1, <2>4 DEF Taken, Rows
  <2> QED
    BY <1>4, <2>2, <2>3, <2>4 DEF RowStep
<1> QED
  <2>1. ASSUME NEW g \in Goals, RowStep(g), goal' = [goal EXCEPT ![g] = goal'[g]] PROVE Counted'
    BY <1>2, <1>3, <1>4, <2>1
  <2> QED
    BY <1>1, <2>1 DEF GoalStep

-----------------------------------------------------------------------------
(* Who may take a goal away                                                *)

\* The run of an operation, a user, a compaction, an update or a repair of a run
\* that is over.
MayTake(o, g, r) ==
    /\ o \in TakenBy(g)
    /\ \/ o.run = r
       \/ o.kind \in {"cancel", "compact", "update"}
       \/ o.kind = "repair" /\ run[r] # "active"

\* A write of a row with the owner's filter takes the goal from that owner only.
LEMMA FilteredWrite ==
    ASSUME TypeOK, NEW h \in Goals, NEW from, NEW f \in Runs, NEW s, NEW l,
           Transition(h, from, f, s, NoRun, l),
           NEW g \in Goals, NEW r \in Runs, goal[g].owner = r, goal'[g].owner # r
    PROVE  g = h /\ f = r
BY NoneAssumption DEF Transition, Matches, Write, TypeOK

\* A goal is lost to an operation that may take it.
LEMMA LossesAreOwn ==
    ASSUME TypeOK, Shapes, RepairsOfEnded, AbsentIsEmpty, Fresh, OwnedIffActive, Next,
           NEW g \in Goals, NEW r \in Runs, goal[g].owner = r, goal'[g].owner # r
    PROVE  \E o \in ops : MayTake(o, g, r)
<1> DEFINE Lost == \E o \in ops : MayTake(o, g, r)
<1> USE NoneAssumption DEF TypeOK
<1>0. goal[g].status = "active"
  BY DEF OwnedIffActive
<1>1. ASSUME NEW o \in ops, RepairWrite(o) PROVE Lost
  <2>1. /\ o.row.id \in Goals /\ o.row.row.owner \in Runs /\ run[o.row.row.owner] = "ended"
        /\ o.kind = "repair" /\ o.row # Absent
    BY <1>1 DEF RepairWrite, RepairsOfEnded
  <2>2. o.row.row.owner = r
    BY <1>1, <2>1, FilteredWrite DEF RepairWrite
  <2>3. o \notin ops'
    BY <1>1, <2>1, OpFields DEF RepairWrite, AfterRepair, Become, End
  <2> QED
    BY <2>1, <2>2, <2>3 DEF MayTake, TakenBy
<1>2. ASSUME NEW o \in ops,
             PauseWrite(o) \/ TerminalWrite(o) \/ SegmentWrite(o) \/ CompleteWrite(o)
      PROVE  Lost
  <2>1. o.goal \in Goals /\ o.run \in Runs /\ o \notin ops'
    BY <1>2 DEF PauseWrite, TerminalWrite, SegmentWrite, CompleteWrite, Shapes, OpShape, Pauses, End
  <2>2. \E from, s, l : Transition(o.goal, from, o.run, s, NoRun, l)
    <3>1. goal' # goal
      OBVIOUS
    <3> QED
      BY <1>2, <3>1 DEF PauseWrite, TerminalWrite, SegmentWrite, CompleteWrite
  <2>3. o.goal = g /\ o.run = r
    BY <2>1, <2>2, FilteredWrite
  <2> QED
    BY <2>1, <2>3 DEF MayTake, TakenBy
<1>3. ASSUME NEW o \in ops, CompactWrite(o) \/ CancelWrite(o) \/ UpdateWrite(o)
      PROVE  Lost
  <2>1. o.kind \in {"cancel", "compact", "update"} /\ o \notin ops'
    BY <1>3 DEF CompactWrite, CancelWrite, UpdateWrite, End
  <2>2. o.goal = g
    BY <1>3 DEF CompactWrite, CancelWrite, UpdateWrite, Transition, Write
  <2> QED
    BY <2>1, <2>2 DEF MayTake, TakenBy
<1>4. ASSUME NEW o \in ops, BindWrite(o) PROVE Lost
  <2>1. o.goal = g /\ goal[g].status = o.row.status /\ (o.row.owner # NoRun => o.row.owner = r)
    BY <1>4 DEF BindWrite, StartFails, Matches, Write
  <2>2. ReadRow(o.row) /\ o.row.owner \in {NoRun, o.run}
    BY <1>4 DEF BindWrite, Shapes, OpShape
  <2>3. o.run = r
    BY <1>0, <2>1, <2>2 DEF ReadRow
  <2>4. Write(g, "active", o.run, o.run)
    BY <1>4, <2>1 DEF BindWrite, StartFails
  <2> QED
    BY <2>3, <2>4 DEF Write, Rows
<1>5. ASSUME NEW o \in ops, CreatePending(o) \/ WriteInsert(o) PROVE Lost
  <2>1. o.goal \in Goals /\ goal[o.goal].status = "none"
    BY <1>5 DEF CreatePending, WriteInsert, Shapes, OpShape, Fresh
  <2>2. goal'[g] = goal[g]
    BY <1>0, <1>5, <2>1 DEF CreatePending, StartFails, WriteInsert, Write
  <2> QED
    BY <2>2
<1>6. ASSUME UNCHANGED goal PROVE Lost
  BY <1>6
<1>7. ASSUME NEW q \in Runs, NEW h \in Goals, WritePending(q, h) PROVE Lost
  BY <1>7 DEF WritePending, Rows
<1>8. ASSUME NEW q \in Runs, NEW h \in Goals, NEW i \in Segments, SegmentRecord(q, h, i) PROVE Lost
  <2>1. UNCHANGED goal \/ goal' = [goal EXCEPT ![h].used = @ + 1]
    BY <1>8 DEF SegmentRecord
  <2>2. goal[h] \in Rows
    OBVIOUS
  <2> QED
    BY <2>1, <2>2 DEF Rows
<1> QED
  <2>1. ASSUME NEW h \in Goals, CreateUserInitiated(h) \/ CompactRead(h) \/ CancelRead(NoRun, h)
        PROVE  Lost
    BY <1>6, <2>1 DEF CreateUserInitiated, CompactRead, CancelRead
  <2>2. ASSUME NEW q \in Runs,
               \/ \E h \in Goals \cup {NoGoal} : StartRun(q, h)
               \/ CancelRun(q) \/ FinishEvent(q) \/ RootErrorEvent(q) \/ WorkerErrorEvent(q)
               \/ ProcessDies(q) \/ ReconcileRun(q)
        PROVE  Lost
    BY <1>6, <2>2 DEF StartRun, CancelRun, FinishEvent, RootErrorEvent, WorkerErrorEvent, ProcessDies,
                      ReconcileRun
  <2>3. ASSUME NEW q \in Runs, NEW h \in Goals,
               \/ WriteRead(q, h) \/ CancelRead(q, h)
               \/ \E b \in BOOLEAN : UpdateRead(q, h, b)
               \/ \E s \in {"succeeded", "failed"} : CompleteRead(q, h, s)
        PROVE  Lost
    BY <1>6, <2>3 DEF WriteRead, CancelRead, UpdateRead, CompleteRead
  <2>4. ASSUME NEW o \in ops,
               \/ RepairRead(o) \/ BindRead(o) \/ ReplyAccepted(o) \/ ReplyFailed(o)
               \/ PauseRead(o) \/ TerminalRead(o)
        PROVE  Lost
    BY <1>6, <2>4 DEF RepairRead, BindRead, StartFails, ReplyAccepted, ReplyFailed, PauseRead, TerminalRead
  <2>5. ASSUME ContinueGoal \/ GatewayStops \/ GatewayServes PROVE Lost
    BY <1>6, <2>5 DEF ContinueGoal, GatewayStops, GatewayServes
  <2> QED
    BY <1>1, <1>2, <1>3, <1>4, <1>5, <1>7, <1>8, <2>1, <2>2, <2>3, <2>4, <2>5 DEF Next

-----------------------------------------------------------------------------
(* The theorems                                                            *)

\* Nothing is there before the first request.
LEMMA InitIsSafe == Init => IInv
<1> SUFFICES ASSUME Init PROVE IInv
  OBVIOUS
<1> USE NoneAssumption DEF Init, Absent
<1>1. TypeOK
  BY DEF TypeOK, Rows
<1>2. Shapes /\ RepairsOfEnded /\ Fresh /\ Starting /\ FinishedRunsEnd
  BY DEF Shapes, RepairsOfEnded, Fresh, Starting, FinishedRunsEnd
<1>3. AbsentIsEmpty /\ NewRunsAreIdle /\ FinishedRunsRelease /\ OwnerHasGoal
  BY DEF AbsentIsEmpty, NewRunsAreIdle, Quiet, FinishedRunsRelease, OwnerHasGoal
<1>4. OwnedIffActive /\ OneActiveGoal
  BY DEF OwnedIffActive, OneActiveGoal, ActiveGoals
<1>5. Counted
  <2>1. \A g \in Goals : {s \in segs : s[1] = g} = {}
    OBVIOUS
  <2> QED
    BY <2>1, FS_EmptySet DEF Counted, SegmentsCountedOnce
<1> QED
  BY <1>1, <1>2, <1>3, <1>4, <1>5 DEF IInv

\* No step disturbs the invariant.
LEMMA StepIsSafe == IInv /\ [Next]_vars => IInv'
<1> SUFFICES ASSUME IInv, [Next]_vars PROVE IInv'
  OBVIOUS
<1>1. CASE Next
  <2> USE <1>1 DEF IInv
  <2>1. GoalStep
    BY RowsChangeSingly
  <2>2. RunStep
    BY RunsAdvance
  <2>3. goal' \in [Goals -> Rows] /\ AbsentIsEmpty'
    BY <2>1, RowsKeepShape
  <2>4. Shapes'
    BY ShapesKept
  <2>5. TypeOK'
    <3>1. \A o \in ops' : o.run \in Runs \cup {NoRun} /\ o.goal \in Goals \cup {NoGoal}
      BY <2>4 DEF Shapes, OpShape, AnyRun, AnyGoal
    <3> QED
      BY <2>3, <3>1, RunsAdvance DEF TypeOK
  <2>6. OwnedIffActive' /\ OneActiveGoal' /\ OwnerHasGoal'
    BY <2>1, OwnershipKept
  <2>7. RepairsOfEnded' /\ Fresh' /\ NewRunsAreIdle' /\ Starting' /\ FinishedRunsEnd'
    BY <2>1, <2>2, <2>4, OperationsKept
  <2>8. FinishedRunsRelease'
    BY <2>1, ReleaseKept
  <2>9. Counted'
    BY <2>1, CountKept
  <2> QED
    BY <2>3, <2>4, <2>5, <2>6, <2>7, <2>8, <2>9
<1>2. CASE UNCHANGED vars
  BY <1>2 DEF vars, IInv, TypeOK, Shapes, RepairsOfEnded, AbsentIsEmpty, Fresh, NewRunsAreIdle, Quiet,
              Starting, FinishedRunsEnd, FinishedRunsRelease, Releases, OwnedIffActive, OneActiveGoal,
              ActiveGoals, OwnerHasGoal, Counted, SegmentsCountedOnce
<1> QED
  BY <1>1, <1>2

\* Every reachable state is safe.
THEOREM Safety == Spec => []IInv
BY InitIsSafe, StepIsSafe, PTL DEF Spec

\* The variables keep their types, through restarts and overlapping operations.
THEOREM TypeCorrect == Spec => []TypeOK
<1>1. IInv => TypeOK
  BY DEF IInv
<1> QED
  BY <1>1, Safety, PTL

\* active_run_id and status change together, and no session has two active goals,
\* although every writer checks first and writes later.
THEOREM GoalsAreOwned == Spec => [](OwnedIffActive /\ OneActiveGoal)
<1>1. IInv => OwnedIffActive /\ OneActiveGoal
  BY DEF IInv
<1> QED
  BY <1>1, Safety, PTL

\* A segment that RecordSegment gets twice counts once.
THEOREM SegmentsCount == Spec => []SegmentsCountedOnce
<1>1. IInv => SegmentsCountedOnce
  BY DEF IInv, Counted
<1> QED
  BY <1>1, Safety, PTL

\* Once the terminal event of a run is handled, no goal is left with the run.
THEOREM FinishReleases == Spec => []FinishReleasesGoal
<1>1. IInv => FinishReleasesGoal
  BY DEF IInv, FinishedRunsRelease, Releases, FinishReleasesGoal, Quiet
<1> QED
  BY <1>1, Safety, PTL

\* A goal that is over stays over, whatever was in flight when it ended.
THEOREM EndsAreFinal == Spec => TerminalIsFinal
<1> DEFINE Step == \A g \in Goals : goal[g].status \in Terminal
                                   => goal'[g].status = goal[g].status
<1>1. IInv /\ [Next]_vars => [Step]_vars
  BY RowsChangeSingly, StatusesAdvance DEF IInv
<1>2. TerminalIsFinal <=> [][Step]_vars
  BY DEF TerminalIsFinal
<1> HIDE DEF Step
<1> QED
  BY <1>1, <1>2, Safety, PTL DEF Spec

\* The late pause, segment or terminal event of an earlier run never takes a goal
\* from the run that has it.
THEOREM LateEventsTakeNothing == Spec => OwnerOnlyLosesToOwn
<1> DEFINE Step == \A g \in Goals, r \in Runs :
                      goal[g].owner = r /\ goal'[g].owner # r =>
                          \E o \in TakenBy(g) : \/ o.run = r
                                                \/ o.kind \in {"cancel", "compact", "update"}
                                                \/ o.kind = "repair" /\ run[r] # "active"
<1>1. IInv /\ [Next]_vars => [Step]_vars
  BY LossesAreOwn DEF IInv, MayTake
<1>2. OwnerOnlyLosesToOwn <=> [][Step]_vars
  BY DEF OwnerOnlyLosesToOwn
<1> HIDE DEF Step
<1> QED
  BY <1>1, <1>2, Safety, PTL DEF Spec
=============================================================================
