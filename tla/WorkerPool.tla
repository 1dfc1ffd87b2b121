----------------------------- MODULE WorkerPool -----------------------------
(***************************************************************************)
(* The reusable child processes of one Agent Runtime: subagent_pool.go,    *)
(* driven by executeSubagentRun of subagent_tools.go.                      *)
(*                                                                         *)
(* A call is one worker task: it acquires a child process, runs on it and  *)
(* releases it.  Every critical section of the pool's mutex is one action; *)
(* what happens between two of them (the ping, the factory, the task) is   *)
(* an action of its own, and a child process may die at any moment.        *)
(***************************************************************************)
EXTENDS Integers, Sequences, FiniteSets

CONSTANTS
    Calls,      \* worker tasks of the runtime
    Children,   \* processes the factory may start: the bound of a finite run
    MaxLimit,   \* maxSubAgentPoolSize
    NoChild     \* a caller without a process

ASSUME LimitAssumption == MaxLimit \in Nat \ {0}
ASSUME NoChildAssumption == NoChild \notin Children

VARIABLES
    limit, active, closed,  \* the fields of subAgentProcessPool
    idle,       \* the stack of idle children
    waiters,    \* the queue of calls
    grant,      \* content of a waiter's one-slot channel
    held,       \* the child in a grant or in the hands of a call
    phase,      \* where a call is
    proc        \* what has become of a process

vars == <<limit, active, closed, idle, waiters, grant, held, phase, proc>>

Phases == {"new", "waiting", "checking", "unhealthy", "again", "starting",
           "running", "done", "failed"}

Init ==
    /\ limit \in 1 .. MaxLimit
    /\ active = 0
    /\ closed = FALSE
    /\ idle = <<>>
    /\ waiters = <<>>
    /\ grant = [c \in Calls |-> "none"]
    /\ held = [c \in Calls |-> NoChild]
    /\ phase = [c \in Calls |-> "new"]
    /\ proc = [k \in Children |-> "unborn"]

-----------------------------------------------------------------------------
Least(a, b) == IF a <= b THEN a ELSE b
Elements(s) == {s[i] : i \in DOMAIN s}
Position(s, c) == CHOOSE i \in DOMAIN s : s[i] = c
Without(s, c) ==
    SubSeq(s, 1, Position(s, c) - 1) \o SubSeq(s, Position(s, c) + 1, Len(s))
MoveTo(c, p) == phase' = [phase EXCEPT ![c] = p]

\* Mutant of Popped: the idle child handed out stays on the stack.
PoppedNone(s, n) == s

\* A stack without its n top elements.
Popped(s, n) == SubSeq(s, 1, Len(s) - n)

\* dispatchLocked.  The waiters at the front get the idle children from the top
\* of the stack, the next ones a slot each to start a child in; a closed pool
\* answers everybody with an error.  limit' and closed' are the fields as the
\* critical section leaves them.
Dispatch(act, idl, w, gr, hd) ==
    LET reuse  == IF act <= limit' THEN Least(Len(w), Len(idl)) ELSE 0
        create == IF act < limit' THEN Least(Len(w) - reuse, limit' - act) ELSE 0
        n      == IF closed' THEN Len(w) ELSE reuse + create
        place(c)  == CHOOSE i \in 1 .. n : w[i] = c
        served    == {w[i] : i \in 1 .. n}
        answer(c) == IF closed' THEN "closed"
                     ELSE IF place(c) <= reuse THEN "reuse" ELSE "create"
    IN  /\ waiters' = SubSeq(w, n + 1, Len(w))
        /\ idle' = IF closed' THEN idl ELSE Popped(idl, reuse)
        /\ active' = IF closed' THEN act ELSE act + create
        /\ grant' = [c \in Calls |-> IF c \in served THEN answer(c) ELSE gr[c]]
        /\ held' = [c \in Calls |->
                      IF c \in served /\ answer(c) = "reuse"
                      THEN idl[Len(idl) + 1 - place(c)] ELSE hd[c]]

KeepPool == UNCHANGED <<limit, closed>>

-----------------------------------------------------------------------------
\* Mutant of Enqueue: a call goes to the front of the queue.
EnqueueFirst(c) ==
    /\ phase[c] \in {"new", "again"}
    /\ ~closed
    /\ KeepPool
    /\ MoveTo(c, "waiting")
    /\ Dispatch(active, idle, <<c>> \o waiters, grant, held)
    /\ UNCHANGED proc

\* AcquireWithStart up to the select, for a fresh call and for one that lost
\* its child and its slot.
Enqueue(c) ==
    /\ phase[c] \in {"new", "again"}
    /\ ~closed
    /\ KeepPool
    /\ MoveTo(c, "waiting")
    /\ Dispatch(active, idle, Append(waiters, c), grant, held)
    /\ UNCHANGED proc

EnqueueClosed(c) ==
    /\ phase[c] \in {"new", "again"}
    /\ closed
    /\ MoveTo(c, "failed")
    /\ UNCHANGED <<limit, active, closed, idle, waiters, grant, held, proc>>

\* The select reads the grant.  onStarting only reports and is left out.
Accept(c) ==
    /\ phase[c] = "waiting"
    /\ grant[c] # "none"
    /\ MoveTo(c, CASE grant[c] = "closed" -> "failed"
                   [] grant[c] = "reuse"  -> "checking"
                   [] grant[c] = "create" -> "starting")
    /\ grant' = [grant EXCEPT ![c] = "none"]
    /\ UNCHANGED <<limit, active, closed, idle, waiters, held, proc>>

\* The ping of a reused child.  It fails when the child is dead, does not
\* answer within two seconds, or the caller was cancelled; the child is closed
\* before the lock is taken again.
PingAnswered(c) ==
    /\ phase[c] = "checking"
    /\ proc[held[c]] = "alive"
    /\ MoveTo(c, "running")
    /\ UNCHANGED <<limit, active, closed, idle, waiters, grant, held, proc>>

PingFailed(c) ==
    /\ phase[c] = "checking"
    /\ proc' = [proc EXCEPT ![held[c]] = "closed"]
    /\ held' = [held EXCEPT ![c] = NoChild]
    /\ MoveTo(c, "unhealthy")
    /\ UNCHANGED <<limit, active, closed, idle, waiters, grant>>

\* Mutant of ReplaceOrQueue: the slot kept whatever became of the limit.
ReplaceAlways(c) ==
    /\ phase[c] = "unhealthy"
    /\ KeepPool
    /\ Dispatch(active, idle, waiters, grant, held)
    /\ MoveTo(c, "starting")
    /\ UNCHANGED proc

\* The slot of the dead child is given up and taken back if the pool is open
\* and not over its limit; otherwise the call goes to the end of the queue.
ReplaceOrQueue(c) ==
    /\ phase[c] = "unhealthy"
    /\ KeepPool
    /\ LET canReplace == ~closed /\ active - 1 < limit
       IN  /\ Dispatch(IF canReplace THEN active ELSE active - 1, idle, waiters, grant, held)
           /\ MoveTo(c, IF canReplace THEN "starting" ELSE "again")
    /\ UNCHANGED proc

FactoryStarted(c, k) ==
    /\ phase[c] = "starting"
    /\ proc[k] = "unborn"
    /\ proc' = [proc EXCEPT ![k] = "alive"]
    /\ held' = [held EXCEPT ![c] = k]
    /\ MoveTo(c, "running")
    /\ UNCHANGED <<limit, active, closed, idle, waiters, grant>>

\* Mutant of FactoryFailed: the slot freed without dispatchLocked.
FactoryFailedSilent(c) ==
    /\ phase[c] = "starting"
    /\ active' = active - 1
    /\ MoveTo(c, "failed")
    /\ UNCHANGED <<limit, closed, idle, waiters, grant, held, proc>>

FactoryFailed(c) ==
    /\ phase[c] = "starting"
    /\ KeepPool
    /\ Dispatch(active - 1, idle, waiters, grant, held)
    /\ MoveTo(c, "failed")
    /\ UNCHANGED proc

-----------------------------------------------------------------------------
\* Mutant of Keeps: no look at closed.
KeepsWhenClosed(reusable) == reusable /\ active <= limit

\* Whether a returned child goes back on the stack.
Keeps(reusable) == reusable /\ ~closed /\ active <= limit

\* Mutant of SlotsAfter: the slot freed although the child stays.
SlotsAlwaysFreed(keep) == active - 1

SlotsAfter(keep) == IF keep THEN active ELSE active - 1

\* Mutant of Retire: a child neither kept nor closed.
RetireForgets(k, keep) == UNCHANGED <<proc>>

\* A child that is not kept is closed: in the code after the critical section, when
\* it is in no list of the pool and in nobody's hand any more.
Retire(k, keep) == proc' = IF keep THEN proc ELSE [proc EXCEPT ![k] = "closed"]

\* The function releaseFunc returns; sync.Once makes it run once per call.
GiveBack(c, reusable) ==
    LET keep == Keeps(reusable)
    IN  /\ KeepPool
        /\ Dispatch(SlotsAfter(keep), IF keep THEN Append(idle, held[c]) ELSE idle,
                    waiters, [grant EXCEPT ![c] = "none"], [held EXCEPT ![c] = NoChild])
        /\ Retire(held[c], keep)

\* The deferred release: reusable after a usable report, and only then.
Release(c) ==
    /\ phase[c] = "running"
    /\ \E reusable \in BOOLEAN : GiveBack(c, reusable)
    /\ MoveTo(c, "done")

\* Mutant of CancelQueued: the first waiter of the queue dropped instead.
CancelFirst(c) ==
    /\ phase[c] = "waiting"
    /\ c \in Elements(waiters)
    /\ KeepPool
    /\ Dispatch(active, idle, Tail(waiters), grant, held)
    /\ MoveTo(c, "failed")
    /\ UNCHANGED proc

\* The select reads ctx.Done and the waiter is still queued.
CancelQueued(c) ==
    /\ phase[c] = "waiting"
    /\ c \in Elements(waiters)
    /\ KeepPool
    /\ Dispatch(active, idle, Without(waiters, c), grant, held)
    /\ MoveTo(c, "failed")
    /\ UNCHANGED proc

\* Mutant of CancelGranted: a granted slot forgotten by discardGrant.
CancelForgetsSlot(c) ==
    /\ phase[c] = "waiting"
    /\ grant[c] # "none"
    /\ \/ /\ grant[c] = "reuse"
          /\ GiveBack(c, TRUE)
       \/ /\ grant[c] \in {"create", "closed"}
          /\ grant' = [grant EXCEPT ![c] = "none"]
          /\ UNCHANGED <<limit, active, closed, idle, waiters, held, proc>>
    /\ MoveTo(c, "failed")

\* The select reads ctx.Done after the grant was sent: discardGrant.
CancelGranted(c) ==
    /\ phase[c] = "waiting"
    /\ grant[c] # "none"
    /\ \/ /\ grant[c] = "reuse"
          /\ GiveBack(c, TRUE)
       \/ /\ grant[c] = "create"
          /\ KeepPool
          /\ Dispatch(active - 1, idle, waiters, [grant EXCEPT ![c] = "none"], held)
          /\ UNCHANGED proc
       \/ /\ grant[c] = "closed"
          /\ grant' = [grant EXCEPT ![c] = "none"]
          /\ UNCHANGED <<limit, active, closed, idle, waiters, held, proc>>
    /\ MoveTo(c, "failed")

-----------------------------------------------------------------------------
CloseAll(s) == proc' = [k \in Children |-> IF k \in Elements(s) THEN "closed" ELSE proc[k]]

\* Mutant of SetLimit: idle children outlive a shrink.
SetLimitKeepsIdle(n) ==
    /\ limit' = n
    /\ UNCHANGED closed
    /\ Dispatch(active, idle, waiters, grant, held)
    /\ UNCHANGED <<phase, proc>>

\* Children are closed from the top of the stack while the pool is too large.
SetLimit(n) ==
    /\ limit' = n
    /\ UNCHANGED closed
    /\ LET keep == CHOOSE i \in 0 .. Len(idle) :
                     /\ i = 0 \/ (active - (Len(idle) - i) <= n /\ i <= n)
                     /\ \A j \in i + 1 .. Len(idle) : active - (Len(idle) - j) > n \/ j > n
       IN  /\ Dispatch(active - (Len(idle) - keep), SubSeq(idle, 1, keep), waiters, grant, held)
           /\ CloseAll(SubSeq(idle, keep + 1, Len(idle)))
    /\ UNCHANGED phase

Reset ==
    /\ KeepPool
    /\ Dispatch(active - Len(idle), <<>>, waiters, grant, held)
    /\ CloseAll(idle)
    /\ UNCHANGED phase

\* Mutant of Close: the waiters left without an answer.
CloseSilent ==
    /\ ~closed
    /\ closed' = TRUE
    /\ active' = active - Len(idle)
    /\ idle' = <<>>
    /\ CloseAll(idle)
    /\ UNCHANGED <<limit, waiters, grant, held, phase>>

Close ==
    /\ ~closed
    /\ closed' = TRUE
    /\ UNCHANGED limit
    /\ Dispatch(active - Len(idle), <<>>, waiters, grant, held)
    /\ CloseAll(idle)
    /\ UNCHANGED phase

\* A child process exits on its own, in the pool or under a task.
Crash(k) ==
    /\ proc[k] = "alive"
    /\ proc' = [proc EXCEPT ![k] = "dead"]
    /\ UNCHANGED <<limit, active, closed, idle, waiters, grant, held, phase>>

Next ==
    \/ \E c \in Calls :
         \/ Enqueue(c) \/ EnqueueClosed(c) \/ Accept(c)
         \/ PingAnswered(c) \/ PingFailed(c) \/ ReplaceOrQueue(c)
         \/ \E k \in Children : FactoryStarted(c, k)
         \/ FactoryFailed(c) \/ Release(c) \/ CancelQueued(c) \/ CancelGranted(c)
    \/ \E n \in 1 .. MaxLimit : SetLimit(n)
    \/ Reset \/ Close
    \/ \E k \in Children : Crash(k)

Spec == Init /\ [][Next]_vars

\* Goroutines run, a ping and the factory end (they have deadlines), and a task
\* ends (it has a wall-time limit) and releases its child in a defer.
Fairness ==
    \A c \in Calls :
        /\ WF_vars(Accept(c))
        /\ WF_vars(PingAnswered(c) \/ PingFailed(c))
        /\ WF_vars(ReplaceOrQueue(c))
        /\ WF_vars(Enqueue(c) \/ EnqueueClosed(c))
        /\ WF_vars(FactoryFailed(c) \/ \E k \in Children : FactoryStarted(c, k))
        /\ WF_vars(Release(c))

FairSpec == Spec /\ Fairness

-----------------------------------------------------------------------------
TypeOK ==
    /\ limit \in 1 .. MaxLimit
    /\ active \in 0 .. MaxLimit
    /\ closed \in BOOLEAN
    /\ idle \in Seq(Children)
    /\ waiters \in Seq(Calls)
    /\ grant \in [Calls -> {"none", "create", "reuse", "closed"}]
    /\ held \in [Calls -> Children \cup {NoChild}]
    /\ phase \in [Calls -> Phases]
    /\ proc \in [Children -> {"unborn", "alive", "dead", "closed"}]

\* Calls a slot is set aside for.
OwnsSlot(c) ==
    \/ phase[c] \in {"checking", "unhealthy", "starting", "running"}
    \/ phase[c] = "waiting" /\ grant[c] \in {"create", "reuse"}

\* The counter and the processes agree through grants, cancellations, failed
\* pings, failed starts and resizes: a slot lost here is lost until restart.
SlotAccounting == active = Len(idle) + Cardinality({c \in Calls : OwnsSlot(c)})

\* No waiter is left beside an idle child or a free slot.
WorkConserving == waiters # <<>> => idle = <<>> /\ active >= limit /\ ~closed

\* Two tasks never share a child, and no task runs on a child that is idle.
OneOwner ==
    /\ \A i, j \in DOMAIN idle : idle[i] = idle[j] => i = j
    /\ \A c, d \in Calls : held[c] = held[d] /\ held[c] # NoChild => c = d
    /\ \A c \in Calls : held[c] \notin Elements(idle)

\* No process is left behind: whatever is alive is in the pool, on its way to a
\* caller or in use.  The children idle in a pool that closes are closed.
NoOrphan ==
    \A k \in Children : proc[k] = "alive" =>
        k \in Elements(idle) \/ \E c \in Calls : held[c] = k
ClosedPoolEmpty == closed => idle = <<>> /\ waiters = <<>>

\* A blocked caller is queued, once, or has its answer.
NoLostWakeup ==
    /\ \A i, j \in DOMAIN waiters : waiters[i] = waiters[j] => i = j
    /\ \A c \in Calls :
         (phase[c] = "waiting" /\ grant[c] = "none") <=> c \in Elements(waiters)

\* The limit is respected through every resize: idle children exist only within
\* it, right after a shrink too, and a slot to start a child in is set aside only
\* within it, whatever was resized while a ping was under way.
IdleWithinLimit == idle # <<>> => active <= limit
ToStart(c) == grant[c] = "create" \/ phase[c] = "starting"
StartsWithinLimit ==
    [][(\E c \in Calls : ToStart(c)' /\ ~ ToStart(c)) => active' <= limit']_vars
LimitRespected == []IdleWithinLimit /\ StartsWithinLimit

\* Nobody overtakes a waiter: while it stays queued, a call that was not ahead of
\* it neither gets ahead of it nor is served.
Precedes(s, c, d) == \E i, j \in DOMAIN s : i < j /\ s[i] = c /\ s[j] = d
Served(c) == grant[c] = "none" /\ grant'[c] \in {"create", "reuse"}
FifoStep ==
    \A c \in Elements(waiters) \cap Elements(waiters') : \A d \in Calls \ {c} :
        ~ Precedes(waiters, d, c) => ~ Precedes(waiters', d, c) /\ ~ Served(d)
FifoAdmission == [][FifoStep]_vars

\* Every queued call is answered as long as tasks end.
EveryWaiterLeaves ==
    \A c \in Calls : c \in Elements(waiters) ~> c \notin Elements(waiters)
=============================================================================
