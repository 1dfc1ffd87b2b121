----------------------------- MODULE WorkerTask -----------------------------
(***************************************************************************)
(* A task given to a child process (subagent_tools.go, subagent_process.go *)
(* and the planner and skills that use the same processes): the record of  *)
(* the task, the call that starts the child's run, the child's events on   *)
(* their way through the reader's queue, the dispatcher and its channel to *)
(* the loop of Start, and what becomes of the process afterwards.          *)
(*                                                                         *)
(* One task and one process at a time: the record of an older task is only *)
(* read or removed, and WorkerPool has the pool.  A process that is let  *)
(* go is out of the model, and a one-shot task starts when no process is   *)
(* kept, so the kept one need not be modelled beside it.                   *)
(***************************************************************************)
EXTENDS Naturals, Sequences

CONSTANTS
    FanOut,         \* worker_max_fan_out: workers of one run
    MaxTasks,       \* tasks of the run: the bound of a finite run
    MaxEvents,      \* events of a child before its last: the bound of a finite run
    QueueCap,       \* events the reader queues before it drops optional ones
    ChanCap         \* capacity of the channel to Start

WorkerTaskAssumption == {FanOut, MaxTasks, MaxEvents, QueueCap, ChanCap} \subseteq Nat \ {0}

VARIABLES
    task, kind, pooled,     \* the task, who runs it, where its process comes from
    stage,                  \* where the task's goroutine is
    tctx,                   \* its context: live, cancelled or expired
    workers,                \* runWorkerCount
    record, result,         \* the task's status in the registry, and what came of it
    proc,                   \* the process: none, up or down (done is closed)
    busy, waiting, said, wrote, \* the child's run, its open request, its events, the critical ones
    queue, wake, sleeper, hand, chan,   \* eventQ, eventWake, the dispatcher, events
    saw, texts, foreign     \* critical events handled, texts among them, events of another task

job == <<task, kind, pooled, stage, tctx, workers>>
registry == <<record, result>>
child == <<proc, busy, waiting, said, wrote>>
pipe == <<queue, wake, sleeper, hand, chan>>
capture == <<saw, texts, foreign>>

Terminal == {"completed", "failed", "cancelled"}
InHand == stage \notin {"idle", "ended"}
None == [task |-> 0, no |-> 0, kind |-> "none"]
Numbers(n) == [i \in 1..n |-> i]

Init ==
    /\ task = 0 /\ kind = "none" /\ pooled = FALSE /\ stage = "idle" /\ tctx = "live" /\ workers = 0
    /\ record = "none" /\ result = "none"
    /\ proc = "none" /\ busy = 0 /\ waiting = FALSE /\ said = 0 /\ wrote = 0
    /\ queue = <<>> /\ wake = FALSE /\ sleeper = "asleep" /\ hand = None /\ chan = <<>>
    /\ saw = <<>> /\ texts = {} /\ foreign = FALSE

FreshPipe == queue' = <<>> /\ wake' = FALSE /\ sleeper' = "asleep" /\ hand' = None /\ chan' = <<>>
FreshChild(p) == proc' = p /\ busy' = 0 /\ waiting' = FALSE /\ said' = 0 /\ wrote' = 0

-----------------------------------------------------------------------------
(* The registry.                                                           *)

\* setSubAgentStatus, finishSubAgent: a status that is final stays.
Recorded(status) ==
    IF record \in Terminal \cup {"gone"} THEN record ELSE status

CanCancel == InHand /\ record \notin Terminal \cup {"gone"}
CancelContext == tctx' = IF tctx = "live" THEN "cancelled" ELSE tctx

\* agent.subagent_cancel of the Gateway.
CancelTask ==
    /\ CanCancel /\ CancelContext
    /\ UNCHANGED <<task, kind, pooled, stage, workers, registry, child, pipe, capture>>
\* subagent.cancel of the model, which marks the record at once.
CancelByParent ==
    /\ CanCancel /\ CancelContext /\ record' = Recorded("cancelled")
    /\ UNCHANGED <<task, kind, pooled, stage, workers, result, child, pipe, capture>>

\* subagent.reset.
ResetTask ==
    /\ record \notin {"none", "gone"} /\ record' = "gone"
    /\ tctx' = IF InHand /\ record \notin Terminal /\ tctx = "live" THEN "cancelled" ELSE tctx
    /\ UNCHANGED <<task, kind, pooled, stage, workers, result, child, pipe, capture>>

-----------------------------------------------------------------------------
(* A task begins.                                                          *)

Begin(k, fromPool) ==
    /\ ~InHand /\ task < MaxTasks
    /\ ~fromPool => proc # "up"
    /\ task' = task + 1 /\ kind' = k /\ pooled' = fromPool /\ tctx' = "live"
    /\ record' = (IF fromPool THEN "queued" ELSE "starting") /\ result' = "none"
    /\ saw' = <<>> /\ texts' = {} /\ foreign' = FALSE
    /\ UNCHANGED <<child, pipe>>

\* reserveWorkerFanOut counts every worker of the run, the ended ones too.
BeginWorker(fromPool) ==
    /\ workers < FanOut /\ workers' = workers + 1
    /\ stage' = "permit" /\ Begin("worker", fromPool)
BeginPlanner(fromPool) == stage' = "permit" /\ Begin("planner", fromPool) /\ UNCHANGED workers
\* A skill has a process of its own, and no permit.
BeginSkill == stage' = "process" /\ Begin("skill", FALSE) /\ UNCHANGED workers

\* The wall time of a worker; planners and skills have none.
Expire ==
    /\ InHand /\ kind = "worker" /\ tctx = "live" /\ tctx' = "expired"
    /\ UNCHANGED <<task, kind, pooled, stage, workers, registry, child, pipe, capture>>

\* Mutant of Keeps: a process is kept whatever became of its task.
KeepsAlways(outcome) == pooled
\* Only the process of a task that ended well goes back to the pool.
Keeps(outcome) == pooled /\ outcome = "completed"

\* The task returns and lets its process go.
Return(outcome) ==
    /\ stage' = "ended"
    /\ record' = Recorded(outcome)
    /\ result' = IF outcome = "completed" THEN "ok" ELSE "error"
    /\ IF Keeps(outcome) THEN UNCHANGED <<child, pipe>> ELSE FreshChild("none") /\ FreshPipe
    /\ UNCHANGED <<task, kind, pooled, tctx, workers>>

\* acquireWorkerPermit.
PermitFails == stage = "permit" /\ Return("failed") /\ UNCHANGED capture
PermitGranted ==
    /\ stage = "permit" /\ tctx = "live" /\ stage' = "process"
    /\ UNCHANGED <<task, kind, pooled, tctx, workers, registry, child, pipe, capture>>

\* newSubAgentProcess, start.
NewProcess == FreshChild("up") /\ FreshPipe

\* acquireProcessSubAgent: a kept process that answers the ping, or a new one.
GetProcess ==
    /\ stage = "process" /\ tctx = "live" /\ stage' = "call"
    /\ record' = Recorded("running")
    /\ IF pooled /\ proc = "up"
       THEN said' = 0 /\ wrote' = 0 /\ UNCHANGED <<proc, busy, waiting, pipe>>
       ELSE NewProcess
    /\ UNCHANGED <<task, kind, pooled, tctx, workers, result, capture>>
NoProcess == stage = "process" /\ Return("failed") /\ UNCHANGED capture

-----------------------------------------------------------------------------
(* Start: the call, and the loop over the child's events.                  *)

\* agent.reply is answered.
Accepted ==
    /\ stage = "call" /\ proc = "up" /\ busy = 0 /\ busy' = task /\ stage' = "watch"
    /\ UNCHANGED <<task, kind, pooled, tctx, workers, registry, proc, waiting, said, wrote, pipe, capture>>

\* A failure of Start: what the context says of it.
Failure == IF tctx = "live" \/ (kind = "worker" /\ tctx = "expired") THEN "failed" ELSE "cancelled"

\* The call fails: the context, the process, or 30 seconds.
CallFails == stage = "call" /\ Return(Failure) /\ UNCHANGED capture

\* Start's select takes any branch that is ready.
SeeDone ==
    /\ stage = "watch" /\ tctx # "live" /\ stage' = "cancelling"
    /\ UNCHANGED <<task, kind, pooled, tctx, workers, registry, child, pipe, capture>>
\* agent.cancel, answered or not: after three seconds the child is killed.  The
\* write of the call has no time limit and holds the mutex the kill needs; the
\* step takes it that the pipe to a child has room for a line.
CancelChild == stage = "cancelling" /\ Return(Failure) /\ UNCHANGED capture
SeeExit == stage = "watch" /\ proc = "down" /\ Return(Failure) /\ UNCHANGED capture

\* What a run that ended with this status is worth.
\* A report made of tool results, or none, is no report.
Usable(heard_) == heard_ = {"text"}

WorkerOutcome(status, heard_) == IF status = "completed" /\ Usable(heard_) THEN "completed" ELSE "failed"
SkillOutcome(status, heard_) == IF status = "completed" /\ heard_ # {} THEN "completed" ELSE "failed"
PlannerOutcome == IF tctx = "live" THEN "completed" ELSE "cancelled"
Outcome(status, heard_) ==
    CASE status = "cancelled" -> Failure
      [] status # "cancelled" /\ kind = "planner" -> PlannerOutcome
      [] status # "cancelled" /\ kind = "skill" -> SkillOutcome(status, heard_)
      [] status # "cancelled" /\ kind = "worker" -> WorkerOutcome(status, heard_)

Statuses == {"completed", "failed", "cancelled"}

\* The capture of a task: what it heard of its child.
Observe(e) ==
    /\ saw' = IF e.no > 0 THEN Append(saw, e.no) ELSE saw
    /\ texts' = IF e.kind \in {"text", "fallback"} THEN texts \cup {e.kind} ELSE texts
    /\ foreign' = (foreign \/ e.task # task)

SeeEvent ==
    /\ stage = "watch" /\ chan # <<>>
    /\ LET e == Head(chan) IN
       /\ Observe(e)
       /\ IF e.kind \in Statuses /\ ~Keeps(Outcome(e.kind, texts))
          THEN Return(Outcome(e.kind, texts))
          ELSE /\ chan' = Tail(chan)
               /\ IF e.kind \in Statuses
                  THEN stage' = "ended" /\ record' = Recorded("completed") /\ result' = "ok"
                  ELSE UNCHANGED <<stage, registry>>
               /\ UNCHANGED <<task, kind, pooled, tctx, workers, child, queue, wake, sleeper, hand>>

-----------------------------------------------------------------------------
(* The child, and the way of its events.                                   *)

Optional == {"usage"}

\* enqueueEvent: a full queue drops what is optional.
\* Mutant of Dropped: a full queue drops anything.
DroppedWhenFull(e) == Len(queue) >= QueueCap
Dropped(e) == e.kind \in Optional /\ Len(queue) >= QueueCap

Enqueue(e) ==
    /\ IF Dropped(e) THEN UNCHANGED <<queue, wake>> ELSE queue' = Append(queue, e) /\ wake' = TRUE
    /\ UNCHANGED <<sleeper, hand, chan>>

ChildSays(k) ==
    /\ proc = "up" /\ busy # 0 /\ ~waiting /\ said < MaxEvents
    /\ said' = said + 1 /\ wrote' = IF k \in Optional THEN wrote ELSE wrote + 1
    /\ Enqueue([task |-> busy, no |-> IF k \in Optional THEN 0 ELSE wrote + 1, kind |-> k])
    /\ UNCHANGED <<job, registry, proc, busy, waiting, capture>>

\* The finish event is the last of a run (AgentRun).
ChildFinishes(status) ==
    /\ proc = "up" /\ busy # 0 /\ ~waiting /\ busy' = 0 /\ wrote' = wrote + 1
    /\ Enqueue([task |-> busy, no |-> wrote + 1, kind |-> status])
    /\ UNCHANGED <<job, registry, proc, waiting, said, capture>>

\* The child asks the Gateway; handleRequest passes it on beside the reader, and
\* answers, if with an error, before the child's own deadline.
ChildAsks ==
    /\ proc = "up" /\ busy # 0 /\ ~waiting /\ said < MaxEvents /\ waiting' = TRUE
    /\ UNCHANGED <<job, registry, proc, busy, said, wrote, pipe, capture>>
ProxyAnswers ==
    /\ proc = "up" /\ waiting /\ waiting' = FALSE /\ said' = said + 1
    /\ UNCHANGED <<job, registry, proc, busy, wrote, pipe, capture>>

\* The process ends by itself.
ProcessEnds ==
    /\ proc = "up" /\ proc' = "down" /\ busy' = 0 /\ waiting' = FALSE
    /\ UNCHANGED <<job, registry, said, wrote, pipe, capture>>
\* The pool closes a process nobody uses.
PoolCloses ==
    /\ ~InHand /\ proc # "none" /\ FreshChild("none") /\ FreshPipe
    /\ UNCHANGED <<job, registry, capture>>

\* dispatchEvents.
Wake ==
    /\ sleeper = "asleep" /\ wake /\ sleeper' = "awake" /\ wake' = FALSE
    /\ UNCHANGED <<job, registry, child, queue, hand, chan, capture>>
Take ==
    /\ sleeper = "awake"
    /\ IF queue = <<>> THEN sleeper' = "asleep" /\ UNCHANGED <<queue, hand>>
       ELSE sleeper' = "holding" /\ hand' = Head(queue) /\ queue' = Tail(queue)
    /\ UNCHANGED <<job, registry, child, wake, chan, capture>>
Deliver ==
    /\ sleeper = "holding" /\ Len(chan) < ChanCap
    /\ chan' = Append(chan, hand) /\ hand' = None /\ sleeper' = "awake"
    /\ UNCHANGED <<job, registry, child, queue, wake, capture>>

-----------------------------------------------------------------------------
Parent ==
    \/ PermitFails \/ PermitGranted \/ GetProcess \/ NoProcess
    \/ Accepted \/ CallFails \/ SeeDone \/ CancelChild \/ SeeExit \/ SeeEvent
    \/ Wake \/ Take \/ Deliver \/ ProxyAnswers

Work ==
    \/ (\E fromPool \in BOOLEAN : BeginWorker(fromPool) \/ BeginPlanner(fromPool)) \/ BeginSkill
    \/ CancelTask \/ CancelByParent \/ ResetTask
    \/ (\E k \in {"text", "fallback", "usage"} : ChildSays(k))
    \/ (\E status \in Statuses : ChildFinishes(status))
    \/ ChildAsks \/ ProcessEnds \/ PoolCloses

TaskNext == Parent \/ Expire \/ Work

-----------------------------------------------------------------------------
(* Properties.                                                             *)

\* A worker whose report counts was heard to the end: every critical event its
\* child wrote was handled once and in order, whatever the queues dropped, and
\* nothing of an earlier task was taken for its own (subagent_process.go:399).
ReportIsWhole ==
    /\ ~foreign
    /\ stage = "ended" /\ kind = "worker" /\ result = "ok" => saw = Numbers(Len(saw)) /\ Len(saw) >= 2

\* The registry does not call a task completed that failed, nor failed one whose
\* report was used, however cancels and resets fall into it.
RecordsAgree ==
    /\ result = "ok" => record \in {"completed", "cancelled", "gone"}
    /\ result = "error" => record \in {"failed", "cancelled", "gone"}

\* Nothing lies in the queue while the dispatcher sleeps unwoken.
NothingForgotten == queue # <<>> => wake \/ sleeper # "asleep"

\* The rest every behaviour comes to: no worker's call is out, also if its child
\* hangs, for the wall time sees to it.
NoWorkerOut == kind = "worker" => ~InHand
=============================================================================
