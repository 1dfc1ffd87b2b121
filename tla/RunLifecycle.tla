----------------------------- MODULE RunLifecycle -----------------------------
(***************************************************************************)
(* Root runs between the Gateway and its Runtime processes: run.go and     *)
(* run_record.go of the Gateway over runtimeclient/client.go.              *)
(*                                                                         *)
(* A run works in a Runtime process of its own (per_run_process, the       *)
(* default) or in the shared one (single_core).  Its events travel through *)
(* a pipe; one reader per process takes a message and handles it to the    *)
(* end.  The goroutine that waits for a process and the one that started   *)
(* the run write the same rows beside the reader: what each of them has in *)
(* hand is a record of handlers.                                           *)
(*                                                                         *)
(* Left out: goals (GoalLifecycle), the order of waiting permits           *)
(* (ResourceBudget), text and tool rows, the transport of replies, and a   *)
(* compaction that finishes the records of its session (SessionStore).     *)
(***************************************************************************)
EXTENDS Naturals, Sequences, FiniteSets

CONSTANTS
    Runs, Sessions, SessionOf,
    Dedicated,  \* runs of mode per_run_process
    Shared,     \* the client of the other runs
    MaxRuns,    \* RED_PANDA_MAX_CONCURRENT_RUNS
    Permits,    \* size of the worker budget
    Setups      \* what a behaviour may be like: see SetupsAssumption

ASSUME RunsAssumption ==
    /\ SessionOf \in [Runs -> Sessions]
    /\ Dedicated \subseteq Runs
    /\ Shared \notin Runs
ASSUME LimitsAssumption == {MaxRuns, Permits} \subseteq Nat \ {0}

\* runs: the runs that start; events: events of a run before its last ones, the
\* bound of a finite run; faults: what may go wrong.
ASSUME SetupsAssumption ==
    Setups \subseteq
      [runs   : SUBSET Runs,
       events : Nat,
       faults : SUBSET {"exit", "slowReply", "workerError", "restart", "lateCancel"}]

VARIABLES
    setup,      \* the setup of this behaviour; it never changes
    row,        \* status of the run record
    perm,       \* the permission request of the run
    saved,      \* root_seq of its persisted events
    start,      \* where RunService.Start is
    client,     \* entry of perRuns: none, open or gone
    proc,       \* process of a client
    pipe,       \* messages written and not read yet
    last,       \* lastRootSeq and terminalSeen of a client
    handlers,   \* work in hand
    holds,      \* runs that hold a worker permit
    life,       \* the run inside its Runtime
    emitted,    \* nextSeq of the Runtime
    asked,      \* the run's permit, as its Runtime sees it
    up          \* the Gateway serves

rows == <<row, perm, saved, holds>>
agent == <<setup, life, emitted, asked>>
vars == <<setup, row, perm, saved, start, client, proc, pipe, last, handlers, holds,
          life, emitted, asked, up>>

Ended == {"completed", "failed", "cancelled"}
Clients == Dedicated \cup {Shared}
ClientOf(r) == IF r \in Dedicated THEN r ELSE Shared
RunsOf(c) == {r \in Runs : ClientOf(r) = c}

Init ==
    /\ setup \in Setups
    /\ row = [r \in Runs |-> "none"]
    /\ perm = [r \in Runs |-> "none"]
    /\ saved = [r \in Runs |-> {}]
    /\ start = [r \in Runs |-> "none"]
    /\ client = [r \in Dedicated |-> "none"]
    /\ proc = [c \in Clients |-> "off"]
    /\ pipe = [c \in Clients |-> <<>>]
    /\ last = [c \in Clients |-> [seq |-> 0, terminal |-> FALSE]]
    /\ handlers = {}
    /\ holds = {}
    /\ life = [r \in Runs |-> "none"]
    /\ emitted = [r \in Runs |-> 0]
    /\ asked = [r \in Runs |-> "no"]
    /\ up = TRUE

-----------------------------------------------------------------------------
(* RunService.Start                                                        *)

Running == {r \in Runs : row[r] = "running"}

\* Mutant of Admissible: the session is not looked at.
AdmissibleAnySession(r) == Cardinality(Running) < MaxRuns

Admissible(r) ==
    /\ \A q \in Running : SessionOf[q] # SessionOf[r]
    /\ Cardinality(Running) < MaxRuns

\* The critical section of startMu.
Admit(r) ==
    /\ up
    /\ r \in setup.runs
    /\ start[r] = "none"
    /\ Admissible(r)
    /\ row' = [row EXCEPT ![r] = "running"]
    /\ start' = [start EXCEPT ![r] = "reserved"]
    /\ UNCHANGED <<perm, saved, client, proc, pipe, last, handlers, holds, agent, up>>

\* A read of the conversation, the profile or the contexts fails.
PrepareFails(r) ==
    /\ start[r] = "reserved"
    /\ row' = [row EXCEPT ![r] = "failed"]
    /\ start' = [start EXCEPT ![r] = "over"]
    /\ UNCHANGED <<perm, saved, client, proc, pipe, last, handlers, holds, agent, up>>

\* Mutant of Busy: the reader hands every message to a goroutine of its own.
BusyNever(c) == c \notin Clients

Busy(c) == \E h \in handlers : h.by = "reader" /\ h.client = c

\* ReplyWithMode starts the process if it does not run (a shared one that died
\* once its old pipe is read) and sends the request.
Launch(r) ==
    LET c == ClientOf(r)
    IN  /\ start[r] = "reserved"
        /\ proc[c] = "up" \/ (pipe[c] = <<>> /\ ~Busy(c))
        /\ start' = [start EXCEPT ![r] = "calling"]
        /\ proc' = [proc EXCEPT ![c] = "up"]
        /\ client' = [q \in Dedicated |-> IF q = r THEN "open" ELSE client[q]]
        /\ life' = [life EXCEPT ![r] = "sent"]
        /\ UNCHANGED <<setup, rows, pipe, last, handlers, emitted, asked, up>>

ReplyReturns(r) ==
    /\ start[r] = "calling"
    /\ life[r] \notin {"sent", "refused"}
    /\ start' = [start EXCEPT ![r] = "over"]
    /\ UNCHANGED <<rows, client, proc, pipe, last, handlers, agent, up>>

\* A dedicated client leaves the map and is shut down; the shared Runtime keeps
\* working on the request.
Abandon(r) == [q \in Dedicated |-> IF q = r THEN "gone" ELSE client[q]]

\* The call times out, its caller goes away or the process is dead.
ReplyFails(r) ==
    /\ start[r] = "calling"
    /\ "slowReply" \in setup.faults \/ life[r] \in {"refused", "lost"}
    /\ start' = [start EXCEPT ![r] = "failing"]
    /\ client' = Abandon(r)
    /\ UNCHANGED <<rows, proc, pipe, last, handlers, agent, up>>

StartFails(r) ==
    /\ start[r] = "failing"
    /\ row' = [row EXCEPT ![r] = "failed"]
    /\ start' = [start EXCEPT ![r] = "over"]
    /\ UNCHANGED <<perm, saved, client, proc, pipe, last, handlers, holds, agent, up>>

-----------------------------------------------------------------------------
(* The Runtime                                                             *)

Alive(r) == proc[ClientOf(r)] = "up"
Put(r, m) == pipe' = [pipe EXCEPT ![ClientOf(r)] = Append(@, m)]
Message(r, type, seq, status) == [run |-> r, type |-> type, seq |-> seq, status |-> status]

AcceptRun(r) ==
    /\ Alive(r) /\ life[r] = "sent"
    /\ life' = [life EXCEPT ![r] = "working"]
    /\ UNCHANGED <<setup, rows, start, client, proc, pipe, last, handlers, emitted, asked, up>>

\* emitAgentEvent: the number is taken and the line written under one lock.
Emit(r, type, status) ==
    /\ emitted' = [emitted EXCEPT ![r] = @ + 1]
    /\ Put(r, Message(r, type, emitted[r] + 1, status))
    /\ UNCHANGED <<setup, rows, start, client, proc, last, handlers, asked, up>>

EmitEvent(r) ==
    /\ Alive(r) /\ life[r] = "working"
    /\ emitted[r] < setup.events
    /\ UNCHANGED life
    /\ \E type \in {"delta", "permission"} \cup (setup.faults \cap {"workerError"}) :
          Emit(r, type, "running")

\* An error event; the root emits its finish event next.
EmitError(r) ==
    /\ Alive(r) /\ life[r] = "working"
    /\ life' = [life EXCEPT ![r] = "ending"]
    /\ Emit(r, "error", "failed")

\* A cancelled run finishes too.
EmitFinish(r) ==
    /\ Alive(r) /\ life[r] \in {"working", "ending"}
    /\ life' = [life EXCEPT ![r] = "over"]
    /\ \E status \in IF life[r] = "ending" THEN {"failed"} ELSE Ended :
          Emit(r, "finish", status)

\* A cancel between the run's last look at its context and emitEvent's own: the
\* event is dropped and the run ends without one (PermissionGate has the race).
FinishDropped(r) ==
    /\ "lateCancel" \in setup.faults
    /\ Alive(r) /\ life[r] \in {"working", "ending"}
    /\ life' = [life EXCEPT ![r] = "over"]
    /\ UNCHANGED <<setup, rows, start, client, proc, pipe, last, handlers, emitted, asked, up>>

\* acquireWorkerPermit and the release that follows; one permit per run.
AskPermit(r) ==
    /\ Alive(r) /\ life[r] = "working"
    /\ asked[r] = "no"
    /\ asked' = [asked EXCEPT ![r] = "asked"]
    /\ Put(r, Message(r, "acquire", 0, "running"))
    /\ UNCHANGED <<setup, rows, start, client, proc, last, handlers, life, emitted, up>>

ReturnPermit(r) ==
    /\ Alive(r) /\ life[r] = "working"
    /\ asked[r] = "asked" /\ r \in holds
    /\ asked' = [asked EXCEPT ![r] = "returned"]
    /\ Put(r, Message(r, "release", 0, "running"))
    /\ UNCHANGED <<setup, rows, start, client, proc, last, handlers, life, emitted, up>>

-----------------------------------------------------------------------------
(* Messages and events in the Gateway                                      *)

\* Work in hand: who does it, how far it is, and the status read before a write.
Handler(by, c, m, pc) == [by |-> by, client |-> c, msg |-> m, pc |-> pc, seen |-> "none"]

RootTerminal == {"finish", "error", "exit"}

\* readStdout and handleNotification
Read(c) ==
    LET m == Head(pipe[c])
    IN  /\ up
        /\ pipe[c] # <<>> /\ ~Busy(c)
        /\ pipe' = [pipe EXCEPT ![c] = Tail(@)]
        /\ last' = [last EXCEPT ![c] =
                      [seq |-> IF m.seq > @.seq THEN m.seq ELSE @.seq,
                       terminal |-> @.terminal \/ m.type \in RootTerminal]]
        /\ IF m.type = "release"
           THEN holds' = holds \ {m.run} /\ UNCHANGED handlers
           ELSE /\ handlers' = handlers \cup
                     {Handler("reader", c, m, IF m.type = "acquire" THEN "wait" ELSE "save")}
                /\ UNCHANGED holds
        /\ UNCHANGED <<row, perm, saved, start, client, proc, agent, up>>

Done(h) == handlers' = handlers \ {h}
MoveOn(h, pc, seen) ==
    handlers' = (handlers \ {h}) \cup {[h EXCEPT !.pc = pc, !.seen = seen]}

\* The budget answers, or the request's thirty seconds are over.
GrantPermit(h) ==
    /\ h.pc = "wait"
    /\ Cardinality(holds) < Permits
    /\ holds' = holds \cup {h.msg.run}
    /\ Done(h)
    /\ UNCHANGED <<row, perm, saved, start, client, proc, pipe, last, agent, up>>

PermitTimesOut(h) ==
    /\ h.pc = "wait"
    /\ Done(h)
    /\ UNCHANGED <<rows, start, client, proc, pipe, last, agent, up>>

\* ReleaseRun answers the waiting requests of the run with an error.
WaitingOf(r) == {h \in handlers : h.pc = "wait" /\ h.msg.run = r}

\* SaveOnce inserts nothing when the event's id or its number is there.
Fresh(m) == m.seq \notin saved[m.run]

\* HandleRuntimeEvent saves the event and reads the record, two statements in one
\* step: nothing in between looks at either.  An event that was there goes on to
\* the callers of HandleRuntimeEvent.
Save(h) ==
    /\ h.pc = "save"
    /\ IF Fresh(h.msg)
       THEN /\ saved' = [saved EXCEPT ![h.msg.run] = @ \cup {h.msg.seq}]
            /\ MoveOn(h, "write", row[h.msg.run])
       ELSE /\ MoveOn(h, "after", "none")
            /\ UNCHANGED saved
    /\ UNCHANGED <<row, perm, start, client, proc, pipe, last, holds, agent, up>>

\* Mutant of Projected: an exit counts as the end of the work.
ProjectedExit(h) ==
    IF h.msg.type = "exit" THEN "completed"
    ELSE IF h.msg.type \in RootTerminal THEN h.msg.status ELSE h.seen

\* Mutants of Projected: only errors end a run; the event's type as the status.
ProjectedErrors(h) == IF h.msg.type \in {"error", "exit"} THEN "failed" ELSE h.seen
ProjectedType(h) == IF h.msg.type \in RootTerminal THEN h.msg.type ELSE h.seen

\* The status ProjectEvent writes back: the one it read, unless the event ends
\* the root's run.
Projected(h) == IF h.msg.type \in RootTerminal THEN h.msg.status ELSE h.seen

\* The event types that end a run for the budgets and for the permissions: the
\* role of the agent is not looked at.
Releases(m) == m.type \in RootTerminal \cup {"workerError"}

\* Mutant of ClosePending: permissions stay as they are.
ClosePendingNone(r) == perm[r]

ClosePending(r) == IF perm[r] = "pending" THEN "closed" ELSE perm[r]

\* The rest of HandleRuntimeEvent: the record, the permission, the budgets.
Write(h) ==
    LET r == h.msg.run
    IN  /\ h.pc = "write"
        /\ row' = [row EXCEPT ![r] = Projected(h)]
        /\ perm' = [perm EXCEPT ![r] = IF h.msg.type = "permission" THEN "pending"
                                       ELSE IF Releases(h.msg) THEN ClosePending(r) ELSE @]
        /\ holds' = IF Releases(h.msg) THEN holds \ {r} ELSE holds
        /\ handlers' = (handlers \ ({h} \cup IF Releases(h.msg) THEN WaitingOf(r) ELSE {}))
                         \cup {[h EXCEPT !.pc = "after", !.seen = "none"]}
        /\ UNCHANGED <<saved, start, client, proc, pipe, last, agent, up>>

\* Mutant of ReleasesClient: only a finish event takes the client away.
ReleasesClientOnFinish(h) == h.client \in Dedicated /\ h.msg.type = "finish"

\* What replyPerRun looks at: the type of the event, of whichever agent.
ReleasesClient(h) == h.client \in Dedicated /\ Releases(h.msg)

\* The callers of HandleRuntimeEvent: app.go releases the budgets of a root that
\* ended, replyPerRun takes the client from the map and shuts it down.
After(h) ==
    LET r    == h.msg.run
        root == h.msg.type \in RootTerminal
    IN  /\ h.pc = "after"
        /\ holds' = IF root THEN holds \ {r} ELSE holds
        /\ handlers' = handlers \ ({h} \cup IF root THEN WaitingOf(r) ELSE {})
        /\ client' = IF ReleasesClient(h) THEN [client EXCEPT ![h.client] = "gone"] ELSE client
        /\ UNCHANGED <<row, perm, saved, start, proc, pipe, last, agent, up>>

-----------------------------------------------------------------------------
(* Processes and the Gateway itself stop                                   *)

\* The event wait makes up when a dedicated process ends before its run did.
ExitEvent(c) == Message(c, "exit", last[c].seq + 1, "failed")

NeedsExit(c) == c \in Dedicated /\ ~last[c].terminal

\* A request that was not accepted yet is answered with an error.
Lost(r) == CASE life[r] = "sent" -> "refused"
             [] life[r] \in {"working", "ending"} -> "lost"
             [] OTHER -> life[r]

\* A process exits, by itself or shut down.  wait closes the connection: what
\* the reader had not received is lost.
ProcessExits(c) ==
    /\ up
    /\ proc[c] = "up"
    /\ "exit" \in setup.faults \/ (c \in Dedicated /\ client[c] = "gone")
    /\ proc' = [proc EXCEPT ![c] = "dead"]
    /\ \E n \in 0 .. Len(pipe[c]) : pipe' = [pipe EXCEPT ![c] = SubSeq(@, 1, n)]
    /\ life' = [r \in Runs |-> IF r \in RunsOf(c) THEN Lost(r) ELSE life[r]]
    /\ handlers' = IF NeedsExit(c) THEN handlers \cup {Handler("wait", c, ExitEvent(c), "save")}
                   ELSE handlers
    /\ last' = [last EXCEPT ![c].terminal = TRUE]
    /\ UNCHANGED <<setup, rows, start, client, emitted, asked, up>>

GatewayStops ==
    /\ "restart" \in setup.faults
    /\ up
    /\ up' = FALSE
    /\ handlers' = {}
    /\ holds' = {}
    /\ pipe' = [c \in Clients |-> <<>>]
    /\ proc' = [c \in Clients |-> IF proc[c] = "up" THEN "dead" ELSE proc[c]]
    /\ client' = [r \in Dedicated |-> IF client[r] = "open" THEN "gone" ELSE client[r]]
    /\ start' = [r \in Runs |-> IF start[r] = "none" THEN "none" ELSE "over"]
    /\ life' = [r \in Runs |-> Lost(r)]
    /\ UNCHANGED <<setup, row, perm, saved, last, emitted, asked>>

\* ReconcileStaleRuns, before the server listens.
Reconcile(r) ==
    /\ ~up /\ row[r] = "running"
    /\ row' = [row EXCEPT ![r] = "failed"]
    /\ UNCHANGED <<perm, saved, start, client, proc, pipe, last, handlers, holds, agent, up>>

GatewayServes ==
    /\ ~up /\ Running = {}
    /\ up' = TRUE
    /\ UNCHANGED <<rows, start, client, proc, pipe, last, handlers, agent>>

-----------------------------------------------------------------------------
Starting(r) ==
    Admit(r) \/ PrepareFails(r) \/ Launch(r) \/ ReplyReturns(r) \/ ReplyFails(r) \/ StartFails(r)
Working(r) ==
    AcceptRun(r) \/ EmitEvent(r) \/ EmitError(r) \/ EmitFinish(r) \/ FinishDropped(r) \/ AskPermit(r) \/ ReturnPermit(r)
Handling(h) == GrantPermit(h) \/ PermitTimesOut(h) \/ Save(h) \/ Write(h) \/ After(h)

Next ==
    \/ \E r \in Runs : Starting(r) \/ Working(r) \/ Reconcile(r)
    \/ \E c \in Clients : Read(c) \/ ProcessExits(c)
    \/ \E h \in handlers : Handling(h)
    \/ GatewayStops \/ GatewayServes

Spec == Init /\ [][Next]_vars

\* Start goes on, a Runtime accepts a request and ends a run (turns and wall
\* time are limited), readers read, and a handler has its next step.
Fairness ==
    /\ \A r \in Runs : /\ WF_vars(PrepareFails(r) \/ Launch(r) \/ StartFails(r))
                       /\ WF_vars(ReplyReturns(r))
                       /\ WF_vars(AcceptRun(r))
                       /\ WF_vars(EmitFinish(r))
    /\ \A c \in Clients : WF_vars(Read(c)) /\ WF_vars(\E h \in handlers : h.client = c /\ Handling(h))

FairSpec == Spec /\ Fairness

-----------------------------------------------------------------------------
Types == {"delta", "permission", "workerError", "error", "finish", "exit", "acquire", "release"}
Messages == [run : Runs, type : Types, seq : Nat, status : {"running"} \cup Ended]

TypeOK ==
    /\ row \in [Runs -> {"none", "running"} \cup Ended]
    /\ perm \in [Runs -> {"none", "pending", "closed"}]
    /\ saved \in [Runs -> SUBSET Nat]
    /\ start \in [Runs -> {"none", "reserved", "calling", "failing", "over"}]
    /\ client \in [Dedicated -> {"none", "open", "gone"}]
    /\ proc \in [Clients -> {"off", "up", "dead"}]
    /\ \A c \in Clients : \A i \in DOMAIN pipe[c] : pipe[c][i] \in Messages
    /\ last \in [Clients -> [seq : Nat, terminal : BOOLEAN]]
    /\ \A h \in handlers : h.msg \in Messages /\ h.client \in Clients
    /\ holds \subseteq Runs
    /\ life \in [Runs -> {"none", "sent", "working", "ending", "over", "lost", "refused"}]
    /\ up \in BOOLEAN

\* Nothing is under way for the run any more.
Quiet(r) ==
    /\ up
    /\ start[r] \in {"none", "over"}
    /\ \A h \in handlers : h.msg.run # r
    /\ \A i \in DOMAIN pipe[ClientOf(r)] : pipe[ClientOf(r)][i].run # r

\* A run reported as completed has sent its finish event: no crash, timeout,
\* late projection or restart makes a success of it.
CompletedMeansFinished == \A r \in Runs : row[r] = "completed" => life[r] = "over"

\* The clients of dead processes do not pile up in the map of per-run clients,
\* whichever of the reader, the waiter and the starter comes last.
NoDeadClient ==
    \A r \in Dedicated : proc[r] = "dead" /\ Quiet(r) => client[r] # "open"

Faultless == setup.faults = {}

\* As long as nothing fails, a run that ended never becomes running again.
NeverResumes ==
    [][\A r \in Runs : Faultless /\ row[r] \in Ended => row'[r] \in Ended]_vars

\* docs/31: the runs of a session are serial.
SessionSerial ==
    \A q, r \in Runs : q # r /\ SessionOf[q] = SessionOf[r]
                       => ~(life[q] = "working" /\ life[r] = "working")

\* As long as nothing fails, the permits of a run that ended are free again,
\* those asked for while it was ending included, and its permission request is
\* not waiting for an answer.
EndedRunHoldsNothing ==
    \A r \in Runs : Faultless /\ row[r] \in Ended /\ Quiet(r) =>
                      r \notin holds /\ perm[r] # "pending"

\* docs/35, invariant 4: "A Runtime process exit terminalizes its root run".
ExitTerminalizes == \A r \in Runs : life[r] = "lost" /\ Quiet(r) => row[r] \in Ended

\* As long as nothing fails, every admitted run ends.
EveryRunEnds == \A r \in Runs : Faultless /\ row[r] = "running" ~> row[r] \in Ended
=============================================================================
