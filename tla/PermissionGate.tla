--------------------------- MODULE PermissionGate ---------------------------
(***************************************************************************)
(* One run whose tool calls ask the user for permission.  Each request is  *)
(* a goroutine of the Runtime that registers a channel, emits              *)
(* permission_required and waits for an answer, a timeout or the run's     *)
(* cancellation (runtime.go:1861).  The Gateway stores the request as a    *)
(* row, and users answer it: an answer is a JSON-RPC call over the pipe to *)
(* the Runtime, whose single reader hands it to the request's channel      *)
(* (runtime.go:1900); when the Runtime has accepted it the caller records  *)
(* the decision in the row (run.go:722).                                   *)
(*                                                                         *)
(* Permission ids are distinct, the Runtime process stays up, and the      *)
(* cancel call's own reply is left out: it changes nothing.                *)
(***************************************************************************)
EXTENDS Naturals, Sequences

CONSTANTS
    Requests,   \* the permission requests the run may make, in parallel
    Answers,    \* the permission.resolve calls users make (a bound)
    NoAnswer,   \* an empty channel, an idle reader
    Cancel      \* the agent.cancel request on the pipe

ASSUME PermissionAssumption == /\ NoAnswer \notin Answers
                               /\ Cancel \notin Answers

VARIABLES
    phase,      \* request -> where its goroutine is in requestPermission
    outcome,    \* request -> how its wait ended
    channel,    \* request -> the answer in its channel (capacity 1)
    cancelled,  \* the run's context is cancelled
    ending,     \* the run is going on, has decided to finish, or is done
    toRuntime,  \* Gateway -> Runtime pipe
    held,       \* the answer whose channel the reader has looked up
    toGateway,  \* Runtime -> Gateway pipe
    answer,     \* call -> its progress, the request it names, its decision
    row,        \* request -> status of its row
    over,       \* the Gateway has handled the terminal event
    stopped     \* a user has asked to cancel the run

runtimeVars == <<phase, outcome, channel, cancelled, ending, held>>
gatewayVars == <<answer, row, over, stopped>>
vars == <<runtimeVars, toRuntime, toGateway, gatewayVars>>

Decisions == {"approve", "deny"}
Outcomes == Decisions \union {"timeout", "cancel"}
Sent == {a \in Answers : answer[a].state # "none"}

\* The channel is in Runtime.permissions from its insertion to the deferred delete.
Registered(q) == phase[q] \in {"registered", "waiting", "leaving"}

\* Mutant of HasRoom: the channel has no buffer, so somebody must be receiving.
HasRoomUnbuffered(q) == phase[q] = "waiting" /\ channel[q] = NoAnswer

\* A send on the channel of capacity 1 goes through without a receiver.
HasRoom(q) == channel[q] = NoAnswer

Message(kind, q, a) == [kind |-> kind, req |-> q, ans |-> a]

Init ==
    /\ phase = [q \in Requests |-> "new"]
    /\ outcome = [q \in Requests |-> "none"]
    /\ channel = [q \in Requests |-> NoAnswer]
    /\ cancelled = FALSE
    /\ ending = "no"
    /\ toRuntime = <<>>
    /\ held = NoAnswer
    /\ toGateway = <<>>
    /\ answer = [a \in Answers |->
                   [state |-> "none", req |-> {}, decision |-> "deny"]]
    /\ row = [q \in Requests |-> "none"]
    /\ over = FALSE
    /\ stopped = FALSE
-----------------------------------------------------------------------------
(* The request's goroutine.                                                *)

Register(q) ==
    /\ phase[q] = "new" /\ ending = "no"
    /\ phase' = [phase EXCEPT ![q] = "registered"]
    /\ UNCHANGED <<outcome, channel, cancelled, ending, held,
                   toRuntime, toGateway, gatewayVars>>

\* A cancelled context makes emitEvent drop the event; the wait follows anyway.
Announce(q) ==
    /\ phase[q] = "registered"
    /\ phase' = [phase EXCEPT ![q] = "waiting"]
    /\ toGateway' = IF cancelled
                    THEN toGateway
                    ELSE Append(toGateway, Message("request", {q}, NoAnswer))
    /\ UNCHANGED <<outcome, channel, cancelled, ending, held,
                   toRuntime, gatewayVars>>

Leave(q, how) ==
    /\ phase[q] = "waiting"
    /\ phase' = [phase EXCEPT ![q] = "leaving"]
    /\ outcome' = [outcome EXCEPT ![q] = how]

TakeAnswer(q) ==
    /\ channel[q] # NoAnswer
    /\ Leave(q, answer[channel[q]].decision)
    /\ channel' = [channel EXCEPT ![q] = NoAnswer]
    /\ UNCHANGED <<cancelled, ending, held, toRuntime, toGateway, gatewayVars>>

Expire(q) ==
    /\ Leave(q, "timeout")
    /\ UNCHANGED <<channel, cancelled, ending, held,
                   toRuntime, toGateway, gatewayVars>>

SeeCancel(q) ==
    /\ cancelled
    /\ Leave(q, "cancel")
    /\ UNCHANGED <<channel, cancelled, ending, held,
                   toRuntime, toGateway, gatewayVars>>

Unregister(q) ==
    /\ phase[q] = "leaving"
    /\ phase' = [phase EXCEPT ![q] = "gone"]
    /\ UNCHANGED <<outcome, channel, cancelled, ending, held,
                   toRuntime, toGateway, gatewayVars>>

\* Mutant of BatchDone: the calls of the batch are not waited for.
BatchAbandoned == \E q \in Requests : phase[q] # "new"

\* The batch is awaited before the run can emit its terminal event.
BatchDone == \A q \in Requests : phase[q] \in {"new", "gone"}

FinishMessage == Message("finish", {}, NoAnswer)

\* A run that finds itself cancelled emits its finish under a fresh context.
FinishCancelled ==
    /\ ending = "no" /\ BatchDone /\ cancelled
    /\ ending' = "done"
    /\ toGateway' = Append(toGateway, FinishMessage)
    /\ UNCHANGED <<phase, outcome, channel, cancelled, held,
                   toRuntime, gatewayVars>>

\* The last look at the context before the run's own terminal event.
DecideFinish ==
    /\ ending = "no" /\ BatchDone /\ ~cancelled
    /\ ending' = "decided"
    /\ UNCHANGED <<phase, outcome, channel, cancelled, held,
                   toRuntime, toGateway, gatewayVars>>

\* emitEvent looks again, and drops the terminal event of a run cancelled since.
EmitFinish ==
    /\ ending = "decided"
    /\ ending' = "done"
    /\ toGateway' = IF cancelled THEN toGateway ELSE Append(toGateway, FinishMessage)
    /\ UNCHANGED <<phase, outcome, channel, cancelled, held,
                   toRuntime, gatewayVars>>
-----------------------------------------------------------------------------
(* The Runtime's reader: one goroutine for every line of the pipe.         *)

ReadCancel ==
    /\ held = NoAnswer
    /\ toRuntime # <<>> /\ Head(toRuntime) = Cancel
    /\ toRuntime' = Tail(toRuntime)
    /\ cancelled' = (cancelled \/ ending # "done")
    /\ UNCHANGED <<phase, outcome, channel, ending, held, toGateway, gatewayVars>>

ReadAnswer ==
    /\ held = NoAnswer
    /\ toRuntime # <<>> /\ Head(toRuntime) # Cancel
    /\ toRuntime' = Tail(toRuntime)
    /\ LET a == Head(toRuntime) IN
         IF \E q \in answer[a].req : Registered(q)
         THEN held' = a /\ UNCHANGED toGateway
         ELSE /\ toGateway' = Append(toGateway, Message("refused", {}, a))
              /\ UNCHANGED held
    /\ UNCHANGED <<phase, outcome, channel, cancelled, ending, gatewayVars>>

Deliver ==
    /\ held # NoAnswer
    /\ \E q \in answer[held].req :
         /\ HasRoom(q)
         /\ channel' = [channel EXCEPT ![q] = held]
    /\ held' = NoAnswer
    /\ toGateway' = Append(toGateway, Message("accepted", {}, held))
    /\ UNCHANGED <<phase, outcome, cancelled, ending, toRuntime, gatewayVars>>
-----------------------------------------------------------------------------
(* The Gateway: its reader, and the users' calls.                          *)

Incoming(kind) == toGateway # <<>> /\ Head(toGateway).kind = kind

ReadRequest ==
    /\ Incoming("request")
    /\ row' = [q \in Requests |->
                 IF q \in Head(toGateway).req THEN "pending" ELSE row[q]]
    /\ toGateway' = Tail(toGateway)
    /\ UNCHANGED <<runtimeVars, toRuntime, answer, over, stopped>>

\* Mutant of ClosePending: the update has no condition on the status.
CloseAll == [q \in Requests |-> IF row[q] = "none" THEN "none" ELSE "closed"]

ClosePending == [q \in Requests |-> IF row[q] = "pending" THEN "closed" ELSE row[q]]

ReadFinish ==
    /\ Incoming("finish")
    /\ over' = TRUE
    /\ row' = ClosePending
    /\ toGateway' = Tail(toGateway)
    /\ UNCHANGED <<runtimeVars, toRuntime, answer, stopped>>

\* The reply of a call that has left is dropped: its pending entry is gone.
ReadReply(kind) ==
    /\ Incoming(kind)
    /\ LET a == Head(toGateway).ans IN
         answer' = IF answer[a].state = "calling"
                   THEN [answer EXCEPT ![a].state = kind]
                   ELSE answer
    /\ toGateway' = Tail(toGateway)
    /\ UNCHANGED <<runtimeVars, toRuntime, row, over, stopped>>

\* The cards of the desktop show every request the Gateway has projected.
Resolve(a, q, d) ==
    /\ answer[a].state = "none" /\ row[q] # "none"
    /\ answer' = [answer EXCEPT ![a] =
                    [state |-> "calling", req |-> {q}, decision |-> d]]
    /\ toRuntime' = Append(toRuntime, a)
    /\ UNCHANGED <<runtimeVars, toGateway, row, over, stopped>>

\* The caller's context ends or its 30 s pass, also while the reply waits for it.
CallerLeaves(a) ==
    /\ answer[a].state \in {"calling", "accepted"}
    /\ answer' = [answer EXCEPT ![a].state = "left"]
    /\ UNCHANGED <<runtimeVars, toRuntime, toGateway, row, over, stopped>>

\* Mutant of MayRecord: the row is written before the Runtime has been asked.
MayRecordEarly(a) == answer[a].state \in {"calling", "accepted"}

\* The caller has seen the Runtime accept its answer.
MayRecord(a) == answer[a].state = "accepted"

\* Mutant of RowStatus: the decision is stored as the status.
RowStatusVerbatim(d) == IF d = "deny" THEN "denied" ELSE d

RowStatus(d) == IF d = "deny" THEN "denied" ELSE "resolved"

\* Whatever the row says by now is overwritten.
Record(a) ==
    /\ MayRecord(a)
    /\ answer' = [answer EXCEPT ![a].state = "done"]
    /\ row' = [q \in Requests |->
                 IF q \in answer[a].req THEN RowStatus(answer[a].decision) ELSE row[q]]
    /\ UNCHANGED <<runtimeVars, toRuntime, toGateway, over, stopped>>

UserCancel ==
    /\ ~stopped
    /\ stopped' = TRUE
    /\ toRuntime' = Append(toRuntime, Cancel)
    /\ UNCHANGED <<runtimeVars, toGateway, answer, row, over>>
-----------------------------------------------------------------------------
Requester(q) ==
    \/ Announce(q) \/ TakeAnswer(q) \/ Expire(q) \/ SeeCancel(q) \/ Unregister(q)
Finish == FinishCancelled \/ DecideFinish \/ EmitFinish
Reader == ReadCancel \/ ReadAnswer \/ Deliver
GatewayReader ==
    \/ ReadRequest \/ ReadFinish
    \/ \E kind \in {"accepted", "refused"} : ReadReply(kind)

Next ==
    \/ \E q \in Requests : Register(q) \/ Requester(q)
    \/ Finish
    \/ Reader
    \/ GatewayReader
    \/ \E a \in Answers : CallerLeaves(a) \/ Record(a)
    \/ \E a \in Answers, q \in Requests, d \in Decisions : Resolve(a, q, d)
    \/ UserCancel

Spec == Init /\ [][Next]_vars

\* Goroutines run and a started select ends (its timer fires); users and the
\* callers' contexts do as they like, and a run need not make a request.
FairSpec ==
    /\ Spec
    /\ WF_vars(Reader)
    /\ WF_vars(GatewayReader)
    /\ WF_vars(Finish)
    /\ \A q \in Requests : WF_vars(Requester(q))
    /\ \A a \in Answers : WF_vars(Record(a))
-----------------------------------------------------------------------------
(* Properties.                                                             *)

Messages ==
         {Message("request", {q}, NoAnswer) : q \in Requests}
    \union {FinishMessage}
    \union {Message(kind, {}, a) : kind \in {"accepted", "refused"}, a \in Answers}

\* Every variable has its type: in particular a row only ever holds one of the
\* five statuses the queries on permission_requests name.
TypeOK ==
    /\ phase \in [Requests -> {"new", "registered", "waiting", "leaving", "gone"}]
    /\ outcome \in [Requests -> Outcomes \union {"none"}]
    /\ channel \in [Requests -> Answers \union {NoAnswer}]
    /\ {cancelled, over, stopped} \subseteq BOOLEAN
    /\ ending \in {"no", "decided", "done"}
    /\ toRuntime \in Seq(Answers \union {Cancel})
    /\ held \in Answers \union {NoAnswer}
    /\ toGateway \in Seq(Messages)
    /\ \A a \in Answers :
         /\ answer[a].state \in {"none", "calling", "accepted", "refused", "done", "left"}
         /\ answer[a].decision \in Decisions
         /\ answer[a].req \in {{}} \union {{q} : q \in Requests}
    /\ row \in [Requests -> {"none", "pending", "resolved", "denied", "closed"}]

\* Once the Gateway has handled a run's terminal event no permission of it is
\* listed as pending (run.go:765): no request event is still to come after the
\* finish, whatever was timed out, cancelled or answered late.
EndedRunHasNoPending == over => \A q \in Requests : row[q] # "pending"

\* The Runtime has yet to accept the answer, or has refused it.
Unsettled(a) ==
    \/ held = a
    \/ \E i \in DOMAIN toRuntime : toRuntime[i] = a
    \/ \E i \in DOMAIN toGateway : toGateway[i] = Message("refused", {}, a)

\* A row says resolved or denied only of a request the Runtime accepted such an
\* answer for (run.go:726-730): a refused answer, one that came after the
\* request had left, never shows as the decision.
RowsShowAcceptedAnswers ==
    \A q \in Requests : row[q] \in {"resolved", "denied"} =>
        \E a \in Answers :
            /\ answer[a].req = {q} /\ answer[a].state = "done"
            /\ RowStatus(answer[a].decision) = row[q]
            /\ ~Unsettled(a)

AnswersTo(q) == {a \in Answers : answer[a].req = {q}}

Quiet ==
    /\ held = NoAnswer /\ toRuntime = <<>> /\ toGateway = <<>>
    /\ \A a \in Answers : answer[a].state \notin {"calling", "accepted"}

\* When everything has been handled, the row of a request that the tool acted
\* on shows the decision it acted on, unless its users disagreed or a caller
\* left before it had recorded its answer (run.go:722-732).
RowShowsTheDecisionTaken ==
    Quiet => \A q \in Requests :
        \/ outcome[q] \notin Decisions
        \/ row[q] = RowStatus(outcome[q])
        \/ \E a \in AnswersTo(q) : \/ answer[a].state = "left"
                                   \/ answer[a].decision # outcome[q]

AnsweredTwice == \E a, b \in Answers : a # b /\ answer[a].req = answer[b].req /\ a \in Sent

\* While no request is answered twice, every answer call gets its reply: a
\* requester that has just timed out or been cancelled does not hold up the
\* Runtime's only reader (the capacity of the channel, runtime.go:1868).
EveryAnswerReturns ==
    \A a \in Answers :
        (answer[a].state = "calling") ~> (answer[a].state # "calling" \/ AnsweredTwice)
=============================================================================
