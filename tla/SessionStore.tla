---------------------------- MODULE SessionStore ----------------------------
(***************************************************************************)
(* The messages of sessions, their forks and the summaries that stand for  *)
(* old messages: service/session.go, session_compact_summary.go and the    *)
(* repositories of sessions, messages and compactions.                     *)
(*                                                                         *)
(* Messages are appended by the reader of a run's events and by the start  *)
(* of a run: each reads the highest seq first and inserts next.  A compact *)
(* request pauses the session, plans, has the messages summarised (a call  *)
(* of up to 45 seconds) and then writes the snapshot that later runs get   *)
(* instead of the messages up to its last seq.                             *)
(***************************************************************************)
EXTENDS Naturals, FiniteSetsExt, SequencesExt, RowOrder

CONSTANTS
    StoreSessions, FirstSession,
    KeepTurns,      \* keep_tail_turns, 3 by default
    CompactRequests,    \* keep_tail_messages (0 asks for turns) and source_range
    ForkPoints,     \* values of message_seq, which nobody checks; 0 names none
    Page,           \* rows of Messages.List: 200
    ConversationLimit,  \* messages a run is given: 200
    MaxMessages,    \* messages of a behaviour, and
    MaxRequests     \* compactions and forks of one: the bounds of a finite run

CompactRequest == [keep : Nat, start : Nat, end : Nat]

StoreAssumption ==
    /\ FirstSession \in StoreSessions
    /\ {KeepTurns, Page, ConversationLimit, MaxMessages} \subseteq Nat \ {0}
    /\ MaxRequests \in Nat
    /\ CompactRequests \subseteq CompactRequest /\ ForkPoints \subseteq Nat

VARIABLES
    sess,       \* none, live or deleted
    msgs,       \* rows of a session in the order of insertion
    forked,     \* source, fork point and last copied seq of a fork
    snap,       \* the applied compaction of a session
    running,    \* sessions with an active run record
    alive,      \* sessions whose last run still emits
    appends,    \* appends between their two steps
    compact,    \* the compact request under way
    preview,    \* what the client has of an earlier preview
    fork,       \* the fork request under way
    asked,      \* compactions and forks so far
    disturbed   \* history: sessions in which a run went on after it was declared ended

storeVars == <<sess, msgs, forked, snap, running, alive, appends, compact, preview, fork, asked, disturbed>>

Nothing == [pc |-> "idle"]
NoSnap == [start |-> 0, end |-> 0, from |-> 0, covered |-> {}, faithful |-> TRUE]

Init ==
    /\ sess = [s \in StoreSessions |-> IF s = FirstSession THEN "live" ELSE "none"]
    /\ msgs = [s \in StoreSessions |-> <<>>]
    /\ forked = [s \in StoreSessions |-> [from |-> s, seq |-> 0, met |-> 0, end |-> 0]]
    /\ snap = [s \in StoreSessions |-> NoSnap]
    /\ running = {} /\ alive = {}
    /\ appends = {}
    /\ compact = Nothing /\ preview = Nothing /\ fork = Nothing
    /\ asked = 0 /\ disturbed = {}

-----------------------------------------------------------------------------
(* Messages                                                                *)

\* Rows ordered by seq; rows of one seq keep the order of insertion.
BySeq(rows) == Ordered(rows, [n \in DOMAIN rows |-> rows[n].seq])

LatestSeq(s) == Max({0} \cup {msgs[s][n].seq : n \in DOMAIN msgs[s]})

Count == FoldLeft(LAMBDA n, s : n + Len(msgs[s]), 0, SetToSeq(StoreSessions))

\* Mutant of NextSeq: the number of a message is the one of the last message.
NextSeqSame(s) == IF LatestSeq(s) = 0 THEN 1 ELSE LatestSeq(s)

\* nextSeq
NextSeq(s) == LatestSeq(s) + 1

\* An append reads the next seq.  A delta that continues the last message of
\* its run changes the text of that message only and is left out (AddOrAppend).
Continues(s, role) ==
    msgs[s] # <<>> /\ role # "user" /\ Last(BySeq(msgs[s])).role = role

BeginAppend(s, role) ==
    /\ \A a \in appends : a.session # s \/ (a.role = "user") # (role = "user")
    /\ Count + Cardinality(appends) < MaxMessages
    /\ ~Continues(s, role)
    /\ appends' = appends \cup {[session |-> s, role |-> role, seq |-> NextSeq(s)]}

\* RunService.Start: the record, and then the user's message.
StartRun(s) ==
    /\ sess[s] = "live" /\ s \notin running
    /\ BeginAppend(s, "user")
    /\ running' = running \cup {s}
    /\ UNCHANGED <<sess, msgs, forked, snap, alive, compact, preview, fork, asked, disturbed>>

\* HandleRuntimeEvent with a delta of the root or of a worker.
Delta(s) ==
    /\ s \in alive
    /\ \E role \in {"assistant", "subagent"} : BeginAppend(s, role)
    /\ UNCHANGED <<sess, msgs, forked, snap, running, alive, compact, preview, fork, asked, disturbed>>

Insert(a) ==
    /\ appends' = appends \ {a}
    /\ msgs' = [msgs EXCEPT ![a.session] = Append(@, [id |-> <<a.session, Len(@) + 1>>,
                                                      seq |-> a.seq, role |-> a.role])]
    /\ alive' = IF a.role = "user" THEN alive \cup {a.session} ELSE alive
    /\ UNCHANGED <<sess, forked, snap, running, compact, preview, fork, asked, disturbed>>

\* The terminal event comes from the same reader as the deltas.
Appending(s) == \E a \in appends : a.session = s

FinishRun(s) ==
    /\ s \in alive /\ ~Appending(s)
    /\ alive' = alive \ {s}
    /\ running' = running \ {s}
    /\ UNCHANGED <<sess, msgs, forked, snap, appends, compact, preview, fork, asked, disturbed>>

-----------------------------------------------------------------------------
(* Compaction                                                              *)

Ids(rows) == {rows[n].id : n \in DOMAIN rows}

FirstPage(rows) == SubSeq(rows, 1, Min({Len(rows), Page}))

Users(all) == {n \in DOMAIN all : all[n].role = "user"}

\* The index at which planCompactionByTurns starts the tail.
TailStart(all) ==
    LET users == Users(all)
        count == Cardinality(users)
    IN  IF count = 0 THEN Max({0, Len(all) - 2 * KeepTurns}) + 1
        ELSE IF count > KeepTurns
             THEN CHOOSE n \in users : Cardinality({m \in users : m >= n}) = KeepTurns
        ELSE IF users = {1} THEN 2
        ELSE Max(users)

\* The messages before the tail from the asked seq on, which a history of one
\* turn ignores.  With none left the range ends before the tail, at least at 1.
Summarised(all, from) ==
    {n \in 1 .. TailStart(all) - 1 : all[n].seq >= from \/ Users(all) = {1}}

\* Mutant of PlanByTurns: the record ends at the first message that is kept.
PlanByTurnsOneMore(all, from) ==
    LET head == Summarised(all, from)
    IN  [start   |-> IF head = {} THEN 1 ELSE all[Min(head)].seq,
         end     |-> all[Min({TailStart(all), Len(all)})].seq,
         covered |-> {all[n].id : n \in head}]

PlanByTurns(all, from) ==
    LET tail == TailStart(all)
        head == Summarised(all, from)
        none == Max({1, all[tail].seq - 1})
    IN  [start   |-> IF head = {} THEN none ELSE all[Min(head)].seq,
         end     |-> IF head = {} THEN none ELSE all[tail - 1].seq,
         covered |-> {all[n].id : n \in head}]

PlanByCount(all, req) ==
    LET latest == Last(all).seq
        start  == IF req.start = 0 THEN all[1].seq ELSE req.start
        till   == IF req.end > 0 THEN req.end
                  ELSE IF req.keep < latest THEN latest - req.keep ELSE latest
        end    == Max({start, till})
    IN  [start   |-> start, end |-> end,
         covered |-> {all[n].id : n \in {m \in DOMAIN all : all[m].seq \in start .. end}}]

\* The range of the record and what is summarised of it, with the start that was
\* asked for and the last message that was read.
PlanCompaction(rows, req) ==
    LET all  == FirstPage(BySeq(rows))
        plan == IF req.end > 0 \/ req.keep > 0 THEN PlanByCount(all, req)
                ELSE PlanByTurns(all, req.start)
    IN  [start |-> plan.start, end |-> plan.end, covered |-> plan.covered,
         from |-> req.start, last |-> Last(all).seq]

\* A client previews, compacts, or compacts with the summary of its preview: with
\* the request of the preview, as the desktop does, or with the range it was shown.
Kinds == {"preview", "apply", "applyPreview"}
SendsRange == [preview.req EXCEPT !.start = preview.plan.start, !.end = preview.plan.end]
Asked(kind) ==
    IF kind # "applyPreview" THEN CompactRequests
    ELSE IF preview = Nothing THEN {} ELSE {preview.req, SendsRange}

\* CompactPreview and Compact.  One compaction or fork is under way at a time: the
\* code does not exclude more, but each reads and writes rows of its own.
BeginCompact(s, req, kind) ==
    /\ compact = Nothing /\ fork = Nothing
    /\ asked < MaxRequests /\ asked' = asked + 1
    /\ sess[s] = "live"
    /\ kind = "applyPreview" => preview.session = s
    /\ compact' = [pc |-> "pausing", session |-> s, req |-> req, kind |-> kind]
    /\ UNCHANGED <<sess, msgs, forked, snap, running, alive, appends, preview, fork, disturbed>>

\* pauseSessionForCompact: no run is active any more, or the wait is over and
\* the records are finished although their runs may go on.
Paused ==
    /\ compact.pc = "pausing"
    /\ compact' = [compact EXCEPT !.pc = "planning"]
    /\ running' = running \ {compact.session}
    /\ disturbed' = IF compact.session \in running
                    THEN disturbed \cup {compact.session} ELSE disturbed
    /\ UNCHANGED <<sess, msgs, forked, snap, alive, appends, preview, fork, asked>>

\* planCompaction; a session without messages is refused.
Plan ==
    /\ compact.pc = "planning"
    /\ compact' = IF msgs[compact.session] = <<>> THEN Nothing
                  ELSE [pc |-> "summarising", session |-> compact.session, req |-> compact.req,
                        kind |-> compact.kind, count |-> Len(msgs[compact.session]),
                        plan |-> PlanCompaction(msgs[compact.session], compact.req)]
    /\ UNCHANGED <<sess, msgs, forked, snap, running, alive, appends, preview, fork, asked, disturbed>>

\* The model cannot be reached and the mode does not allow a local summary.
SummaryFails ==
    /\ compact.pc = "summarising" /\ compact.kind # "applyPreview"
    /\ compact' = Nothing
    /\ UNCHANGED <<sess, msgs, forked, snap, running, alive, appends, preview, fork, asked, disturbed>>

ReturnPreview ==
    /\ compact.pc = "summarising" /\ compact.kind = "preview"
    /\ preview' = [pc |-> "shown", session |-> compact.session, req |-> compact.req,
                   plan |-> compact.plan, count |-> compact.count]
    /\ compact' = Nothing
    /\ UNCHANGED <<sess, msgs, forked, snap, running, alive, appends, fork, asked, disturbed>>

\* The plan the summary was made for: its own, or that of an earlier preview.
Told == IF compact.kind = "applyPreview" THEN preview.plan ELSE compact.plan

\* History: the summary was made for messages that were there, and for this
\* record, for the same messages as this record, or for the range it is sent with.
Faithful ==
    /\ Told.end <= Told.last
    /\ \/ compact.kind = "apply"
       \/ compact.count = preview.count
       \/ compact.req = SendsRange

\* The transaction of Compact, taken back when the session has gone.  The range
\* of the record is the plan's; the summary may be an earlier one.
Apply ==
    /\ compact.pc = "summarising" /\ compact.kind # "preview"
    /\ snap' = IF sess[compact.session] # "live" THEN snap
               ELSE [snap EXCEPT ![compact.session] =
                       [start |-> compact.plan.start, end |-> compact.plan.end,
                        from |-> Told.from, covered |-> Told.covered, faithful |-> Faithful]]
    /\ compact' = Nothing
    /\ preview' = IF compact.kind = "applyPreview" THEN Nothing ELSE preview
    /\ UNCHANGED <<sess, msgs, forked, running, alive, appends, fork, asked, disturbed>>

-----------------------------------------------------------------------------
(* Forks and deletions                                                     *)

\* ListThroughSeq: the messages up to seq, and with 0 all messages.
Through(s, seq) ==
    LET all == BySeq(msgs[s])
    IN  IF seq = 0 THEN all
        ELSE SubSeq(all, 1, Cardinality({n \in DOMAIN all : all[n].seq <= seq}))

\* Fork reads the source, its last seq when the request names none, and the
\* messages up to there.  met is history: the last seq when the request came.
BeginFork(s, seq) ==
    /\ fork = Nothing /\ compact = Nothing
    /\ asked < MaxRequests /\ asked' = asked + 1
    /\ sess[s] = "live"
    /\ fork' = [pc |-> "reading", session |-> s, met |-> LatestSeq(s),
                seq |-> IF seq = 0 THEN LatestSeq(s) ELSE seq]
    /\ UNCHANGED <<sess, msgs, forked, snap, running, alive, appends, compact, preview, disturbed>>

\* lastMessageSeq
LastSeq(rows) == IF rows = <<>> THEN 0 ELSE Last(rows).seq

ReadFork ==
    /\ fork.pc = "reading"
    /\ LET rows == Through(fork.session, fork.seq)
       IN  fork' = [pc |-> "read", session |-> fork.session, met |-> fork.met,
                    seq |-> fork.seq, rows |-> rows, end |-> LastSeq(rows)]
    /\ UNCHANGED <<sess, msgs, forked, snap, running, alive, appends, compact, preview, asked, disturbed>>

\* Mutant of CopyToSession: copies start at zero.
CopyToSessionFromZero(rows) == [n \in DOMAIN rows |-> [rows[n] EXCEPT !.seq = n - 1]]

CopyToSession(rows) == [n \in DOMAIN rows |-> [rows[n] EXCEPT !.seq = n]]

CreateFork(t) ==
    /\ fork.pc = "read"
    /\ sess[t] = "none"
    /\ sess' = [sess EXCEPT ![t] = "live"]
    /\ msgs' = [msgs EXCEPT ![t] = CopyToSession(fork.rows)]
    /\ forked' = [forked EXCEPT ![t] = [from |-> fork.session, seq |-> fork.seq,
                                          met |-> fork.met, end |-> fork.end]]
    /\ fork' = Nothing
    /\ UNCHANGED <<snap, running, alive, appends, compact, preview, asked, disturbed>>

Delete(s) ==
    /\ sess[s] = "live"
    /\ sess' = [sess EXCEPT ![s] = "deleted"]
    /\ UNCHANGED <<msgs, forked, snap, running, alive, appends, compact, preview, fork, asked, disturbed>>

-----------------------------------------------------------------------------
Compacting == (compact # Nothing /\ (Paused \/ Plan \/ SummaryFails \/ ReturnPreview \/ Apply))
Forking == fork # Nothing /\ (ReadFork \/ \E t \in StoreSessions : CreateFork(t))

Next ==
    \/ \E s \in StoreSessions :
          \/ StartRun(s) \/ Delta(s) \/ FinishRun(s) \/ Delete(s)
          \/ \E kind \in Kinds : \E req \in Asked(kind) : BeginCompact(s, req, kind)
          \/ \E seq \in ForkPoints : BeginFork(s, seq)
    \/ \E a \in appends : Insert(a)
    \/ Compacting \/ Forking

Spec == Init /\ [][Next]_storeVars

-----------------------------------------------------------------------------
TypeOK ==
    /\ sess \in [StoreSessions -> {"none", "live", "deleted"}]
    /\ \A s \in StoreSessions : \A n \in DOMAIN msgs[s] :
          /\ msgs[s][n].seq \in Nat
          /\ msgs[s][n].role \in {"user", "assistant", "subagent"}
    /\ \A s \in StoreSessions : snap[s].end \in Nat
    /\ {running, alive, disturbed} \subseteq SUBSET StoreSessions
    /\ compact.pc \in {"idle", "pausing", "planning", "summarising"}
    /\ preview.pc \in {"idle", "shown"} /\ fork.pc \in {"idle", "reading", "read"}

Lineage(s) == {s, forked[s].from, forked[forked[s].from].from}
Calm(s) == Lineage(s) \cap disturbed = {}

\* A fork holds the messages of its source up to the last seq its lineage
\* records, and that is the fork point unless the source had not got so far when
\* the request came: a message_seq is taken as it is.
ForkIsPrefix(s) ==
    LET f == forked[s]
    IN  f.from # s =>
          /\ Ids(SubSeq(msgs[s], 1, Min({f.end, Len(msgs[s])})))
               = {r.id : r \in {q \in Range(msgs[f.from]) : q.seq <= f.end}}
          /\ f.seq > 0 => f.end \in Min({f.seq, f.met}) .. f.seq

\* The numbers of a session's messages are 1, 2, 3 and so on, although they are
\* read and used in two steps by two goroutines; and a fork is a prefix of its
\* source for good, whatever is appended while it is made and afterwards.  Both
\* hold as long as no run goes on after its record ended.
HistoryIntact ==
    \A s \in StoreSessions : Calm(s) =>
        /\ \A n \in DOMAIN msgs[s] : msgs[s][n].seq = n
        /\ ForkIsPrefix(s)

\* buildRunConversation: the latest messages behind the snapshot.
Conversation(s) == {r \in Range(msgs[s]) : r.role # "subagent"}
Later(s) == {r \in Conversation(s) : r.seq > snap[s].end}
Given(s) == {r \in Later(s) : Cardinality({q \in Later(s) : q.seq > r.seq}) < ConversationLimit}
Overlong(s) == Cardinality(Later(s)) > ConversationLimit

\* A run gets every message of the conversation itself or in the summary, but for
\* those before a start that was asked for and those the limit cuts off; and the
\* range of the record is the one that was summarised.  docs/13: a compaction
\* record describes "the summarized input range".
SummaryCoversRange ==
    \A s \in StoreSessions : Calm(s) /\ snap[s].faithful =>
        /\ \A r \in Conversation(s) \ Given(s) :
              \/ r.id \in snap[s].covered
              \/ r.seq < snap[s].from
              \/ Overlong(s) /\ r.seq > snap[s].end
        /\ snap[s].covered
             \subseteq {r.id : r \in {q \in Range(msgs[s]) : q.seq \in snap[s].start .. snap[s].end}}
=============================================================================
