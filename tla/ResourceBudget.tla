--------------------------- MODULE ResourceBudget ---------------------------
(***************************************************************************)
(* The Gateway-wide permit budget of service/resource_budget.go.  One      *)
(* instance bounds running workers, a second one bounds provider requests; *)
(* both are shared by every root run.                                      *)
(*                                                                         *)
(* A call is one invocation of Acquire together with the Release its       *)
(* client sends later.  Clients build a new permit id for every call from  *)
(* the run id and a nanosecond clock, so a call acquires once; two calls   *)
(* share a permit id when the clock did not advance between them.          *)
(*                                                                         *)
(* The slice of waiters is kept as the set of queued calls with the moment *)
(* each was appended: slice order is stamp order.  Every critical section  *)
(* of the mutex is one action.                                             *)
(***************************************************************************)
EXTENDS Naturals, FiniteSets

CONSTANTS
    Calls,      \* invocations of Acquire
    Permits,    \* permit ids
    Runs,       \* root runs
    PermitOf,   \* the permit id of a call
    RunOf,      \* the root run of a call
    Limit       \* resolveMaxWorkers() or the provider limit

ASSUME CallsAssumption  == IsFiniteSet(Calls)
ASSUME ParamsAssumption == /\ PermitOf \in [Calls -> Permits]
                           /\ RunOf \in [Calls -> Runs]
ASSUME LimitAssumption  == Limit \in Nat \ {0}
\* The permit id begins with the id of the run it is asked for.
ASSUME PermitNamesRun   ==
    \A c, d \in Calls : PermitOf[c] = PermitOf[d] => RunOf[c] = RunOf[d]

VARIABLES
    active,     \* the keys of the active map: permits that occupy capacity
    queued,     \* calls whose waiter is in the slice
    stamp,      \* when a call's waiter was appended
    clock,      \* appends so far
    result,     \* content of the waiter's one-slot channel
    phase,      \* where the call is
    ended       \* runs ReleaseRun has been called for

vars == <<active, queued, stamp, clock, result, phase, ended>>

PermitsOf(S) == {PermitOf[c] : c \in S}

Init ==
    /\ active = {}
    /\ queued = {}
    /\ stamp = [c \in Calls |-> 0]
    /\ clock = 0
    /\ result = [c \in Calls |-> "none"]
    /\ phase = [c \in Calls |-> "new"]
    /\ ended = {}

-----------------------------------------------------------------------------
\* dispatchLocked pops the head while the map is below the limit.  A call is
\* popped iff the map was still below it once everyone ahead had been popped.
\* Mutant of Ahead: the slice popped from its tail.
Behind(c, q, at) == {d \in q : at[d] > at[c]}

Ahead(c, q, at) == {d \in q : at[d] < at[c]}

\* Mutant of Admitted: `<=` in the loop condition.
AdmittedOneMore(act, q, at) ==
    {c \in q : Cardinality(act \cup PermitsOf(Ahead(c, q, at))) <= Limit}

Admitted(act, q, at) ==
    {c \in q : Cardinality(act \cup PermitsOf(Ahead(c, q, at))) < Limit}

Dispatch(act, q, at, res) ==
    LET adm == Admitted(act, q, at)
    IN  /\ active' = act \cup PermitsOf(adm)
        /\ queued' = q \ adm
        /\ result' = [c \in Calls |-> IF c \in adm THEN "granted" ELSE res[c]]

MoveTo(c, p) == phase' = [phase EXCEPT ![c] = p]

\* A permit id that is already active is granted again without a slot.
AcquireActive(c) ==
    /\ phase[c] = "new"
    /\ PermitOf[c] \in active
    /\ MoveTo(c, "holding")
    /\ UNCHANGED <<active, queued, stamp, clock, result, ended>>

AcquireQueue(c) ==
    /\ phase[c] = "new"
    /\ PermitOf[c] \notin active
    /\ stamp' = [stamp EXCEPT ![c] = clock + 1]
    /\ clock' = clock + 1
    /\ Dispatch(active, queued \cup {c}, stamp', result)
    /\ MoveTo(c, "waiting")
    /\ UNCHANGED ended

Acquire(c) == AcquireActive(c) \/ AcquireQueue(c)

\* Mutant of Receive: the answer of the channel taken for the outcome of the call.
ReceiveUnmapped(c) ==
    /\ phase[c] = "waiting"
    /\ result[c] # "none"
    /\ MoveTo(c, result[c])
    /\ result' = [result EXCEPT ![c] = "none"]
    /\ UNCHANGED <<active, queued, stamp, clock, ended>>

\* The select takes the buffered result.
Receive(c) ==
    /\ phase[c] = "waiting"
    /\ result[c] # "none"
    /\ MoveTo(c, IF result[c] = "granted" THEN "holding" ELSE "refused")
    /\ result' = [result EXCEPT ![c] = "none"]
    /\ UNCHANGED <<active, queued, stamp, clock, ended>>

\* The select takes ctx.Done while the waiter is still in the slice.
CancelQueued(c) ==
    /\ phase[c] = "waiting"
    /\ c \in queued
    /\ queued' = queued \ {c}
    /\ MoveTo(c, "refused")
    /\ UNCHANGED <<active, stamp, clock, result, ended>>

\* Mutants of CancelDecided: the permit freed and not handed on, or kept.
CancelDecidedNoDispatch(c) ==
    /\ phase[c] = "waiting"
    /\ c \notin queued
    /\ active' = active \ {PermitOf[c]}
    /\ result' = [result EXCEPT ![c] = "none"]
    /\ MoveTo(c, "refused")
    /\ UNCHANGED <<queued, stamp, clock, ended>>

CancelDecidedKeepsGrant(c) ==
    /\ phase[c] = "waiting"
    /\ c \notin queued
    /\ result' = [result EXCEPT ![c] = "none"]
    /\ MoveTo(c, "refused")
    /\ UNCHANGED <<active, queued, stamp, clock, ended>>

\* The select takes ctx.Done although a result was sent before the lock was
\* taken: the permit goes back at once.  The code does not look at the result.
CancelDecided(c) ==
    /\ phase[c] = "waiting"
    /\ c \notin queued
    /\ Dispatch(active \ {PermitOf[c]}, queued, stamp, [result EXCEPT ![c] = "none"])
    /\ MoveTo(c, "refused")
    /\ UNCHANGED <<stamp, clock, ended>>

Cancel(c) == CancelQueued(c) \/ CancelDecided(c)

\* Mutant of Release: without dispatchLocked.
ReleaseNoDispatch(c) ==
    /\ phase[c] = "holding"
    /\ active' = active \ {PermitOf[c]}
    /\ MoveTo(c, "done")
    /\ UNCHANGED <<queued, stamp, clock, result, ended>>

Release(c) ==
    /\ phase[c] = "holding"
    /\ Dispatch(active \ {PermitOf[c]}, queued, stamp, result)
    /\ MoveTo(c, "done")
    /\ UNCHANGED <<stamp, clock, ended>>

\* Mutant of CallsOf: the comparison with the run id dropped.
CallsOfAny(r) == {c \in Calls : r \in Runs}

CallsOf(r) == {c \in Calls : RunOf[c] = r}

\* Mutant of ReleaseRun: waiters filtered out of the slice and never answered.
ReleaseRunSilent(r) ==
    /\ LET gone == queued \cap CallsOf(r)
       IN  Dispatch(active \ PermitsOf(CallsOf(r)), queued \ gone, stamp, result)
    /\ ended' = ended \cup {r}
    /\ UNCHANGED <<stamp, clock, phase>>

\* A terminal event of the run: its permits are dropped, its waiters refused.
\* The event handlers call it more than once for the same run.
ReleaseRun(r) ==
    /\ LET gone == queued \cap CallsOf(r)
       IN  Dispatch(active \ PermitsOf(CallsOf(r)), queued \ gone, stamp,
                    [c \in Calls |-> IF c \in gone THEN "ended" ELSE result[c]])
    /\ ended' = ended \cup {r}
    /\ UNCHANGED <<stamp, clock, phase>>

Next ==
    \/ \E c \in Calls : Acquire(c) \/ Receive(c) \/ Cancel(c) \/ Release(c)
    \/ \E r \in Runs : ReleaseRun(r)

Spec == Init /\ [][Next]_vars

\* A goroutine blocked in the select is scheduled once a result is there, and
\* a granted worker or provider request gives its permit back: the client
\* releases in a defer, and both kinds of work have a deadline.
Fairness == \A c \in Calls : WF_vars(Receive(c)) /\ WF_vars(Release(c))

FairSpec == Spec /\ Fairness

-----------------------------------------------------------------------------
TypeOK ==
    /\ active \subseteq Permits
    /\ queued \subseteq Calls
    /\ stamp \in [Calls -> Nat]
    /\ clock \in Nat
    /\ result \in [Calls -> {"none", "granted", "ended"}]
    /\ phase \in [Calls -> {"new", "waiting", "holding", "refused", "done"}]
    /\ ended \subseteq Runs

\* No interleaving of grants, cancellations and run ends puts more permits in
\* the map than the limit.
CapacityBound == IsFiniteSet(active) /\ Cardinality(active) <= Limit

\* Every path that frees capacity, the lost cancellation race and the end of a
\* run included, hands it on: nobody waits while a slot is free.
WorkConserving == queued # {} => Cardinality(active) >= Limit

\* A blocked call is either still in the slice or has its answer in the
\* channel, never both and never neither: removal and send go together.
NoLostWakeup ==
    /\ \A c \in queued : phase[c] = "waiting"
    /\ \A c \in Calls : phase[c] = "waiting" => (c \in queued <=> result[c] = "none")

\* Whoever makes a permit active, somebody is left who will give it back: a
\* holder, or a call with a grant it has not read yet.
NoLeakedPermit ==
    \A p \in active : \E c \in Calls :
        /\ PermitOf[c] = p
        /\ \/ phase[c] = "holding"
           \/ phase[c] = "waiting" /\ result[c] = "granted"

\* No other call has the permit id of this one.
OwnPermit(c) == \A d \in Calls : PermitOf[d] = PermitOf[c] => d = c

\* Only the call itself and the end of its run take a permit away that has an id
\* of its own, so a worker of a live run never runs outside the budget.
HolderKeepsPermit ==
    \A c \in Calls : OwnPermit(c) /\ phase[c] = "holding" /\ RunOf[c] \notin ended
                    => PermitOf[c] \in active

\* The workers of live runs that hold a permit of their own never exceed the
\* limit.
LiveHolders == {c \in Calls : OwnPermit(c) /\ phase[c] = "holding" /\ RunOf[c] \notin ended}
HoldersBounded == Cardinality(LiveHolders) <= Limit

\* A grant never overtakes a call that was queued earlier.
GrantedNow(c) == result[c] # "granted" /\ result'[c] = "granted"
FifoStep ==
    \A c \in queued, d \in Calls :
        GrantedNow(d) /\ stamp[c] < stamp'[d] => c \notin queued'
FifoAdmission == [][FifoStep]_vars

\* As long as holders give their permits back, every queued call leaves the
\* queue: no grant is lost between two critical sections.
EveryWaiterLeaves == \A c \in Calls : c \in queued ~> c \notin queued
=============================================================================
