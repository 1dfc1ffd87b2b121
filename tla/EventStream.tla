----------------------------- MODULE EventStream -----------------------------
(***************************************************************************)
(* The events of one run on their way to one client: saved and published   *)
(* by HandleRuntimeEvent, buffered by eventhub/hub.go, replayed and sent   *)
(* by controller/websocket.go, received by wsClient.js, over connections   *)
(* that come and go.                                                       *)
(*                                                                         *)
(* An event is its root_seq.  A session of the Gateway has two goroutines  *)
(* that send events: the one that reads requests, which replays, and the   *)
(* one that reads the hub's channel.  Each marks an event as sent first    *)
(* and puts it in the send queue later.                                    *)
(***************************************************************************)
EXTENDS Naturals, Sequences, FiniteSetsExt

CONSTANTS
    MaxEvents, MaxConnections,  \* bounds of a finite run
    Setups          \* the sizes and the timing a behaviour may have

\* hub: buffer of a hub subscription, 64 in the code; send: buffer of the send
\* queue, 128; limit: rows of a replay, 500; overlap: whether events are
\* published while a replay is under way.
Sizes == Nat \ {0}
ASSUME BoundsAssumption == {MaxEvents, MaxConnections} \subseteq Sizes
ASSUME SetupsAssumption ==
    \A s \in Setups : /\ DOMAIN s = {"hub", "send", "limit", "overlap"}
                      /\ {s.hub, s.send, s.limit} \subseteq Sizes
                      /\ s.overlap \in BOOLEAN

VARIABLES
    setup,      \* the setup of this behaviour; it never changes
    saved,      \* events in run_events
    published,  \* events Publish has seen
    connected, connections,
    subscribed, \* the session has a hub channel for the run
    chan,       \* that channel
    phase,      \* the request goroutine: idle, asked, subscribed or replaying
    cursor,     \* after_seq of the request
    replay,     \* events fetched and not looked at yet
    mark,       \* lastSentSeq
    inReplay,   \* an event marked by the replay and not queued yet, or 0
    inLive,     \* the same for the live goroutine
    queue,      \* the send queue
    received,   \* events the client has handled
    before      \* how many of them on earlier connections

server == <<subscribed, chan, phase, cursor, replay, mark, inReplay, inLive, queue>>
run == <<setup, saved, published>>
vars == <<run, connected, connections, server, received, before>>

Init ==
    /\ setup \in Setups
    /\ saved = 0 /\ published = 0
    /\ connected = FALSE /\ connections = 0
    /\ subscribed = FALSE /\ chan = <<>>
    /\ phase = "idle" /\ cursor = 0 /\ replay = <<>>
    /\ mark = 0 /\ inReplay = 0 /\ inLive = 0 /\ queue = <<>>
    /\ received = <<>> /\ before = 0

-----------------------------------------------------------------------------
(* The Gateway's side of the run                                           *)

SaveEvent ==
    /\ saved < MaxEvents /\ saved = published
    /\ setup.overlap \/ phase = "idle"
    /\ saved' = saved + 1
    /\ UNCHANGED <<setup, published, connected, connections, server, received, before>>

\* A channel send with a default case: a full buffer drops the event.
Offer(buffer, size, e) == IF Len(buffer) < size THEN Append(buffer, e) ELSE buffer

PublishEvent ==
    /\ published < saved
    /\ published' = saved
    /\ chan' = IF subscribed THEN Offer(chan, setup.hub, saved) ELSE chan
    /\ UNCHANGED <<setup, saved, connected, connections, subscribed, phase, cursor, replay, mark,
                   inReplay, inLive, queue, received, before>>

-----------------------------------------------------------------------------
(* The client                                                              *)

Connect ==
    /\ ~connected
    /\ connections < MaxConnections
    /\ connected' = TRUE
    /\ connections' = connections + 1
    /\ before' = Len(received)
    /\ UNCHANGED <<run, server, received>>

Highest == Max({0} \cup {received[i] : i \in DOMAIN received})

\* Mutant of ResumeFrom: the client forgets what it has seen.
ResumeFromStart == 0

\* lastSeen
ResumeFrom == Highest

\* run.start with subscribe, run.subscribe and run.resume.
Request ==
    /\ connected /\ phase = "idle"
    /\ setup.overlap \/ (chan = <<>> /\ inLive = 0 /\ published = saved)
    /\ phase' = "asked"
    /\ cursor' = ResumeFrom
    /\ UNCHANGED <<run, connected, connections, subscribed, chan, replay, mark,
                   inReplay, inLive, queue, received, before>>

\* The session writes; the client handles messages of its current socket only.
Deliver ==
    /\ queue # <<>>
    /\ received' = Append(received, Head(queue))
    /\ queue' = Tail(queue)
    /\ UNCHANGED <<run, connected, connections, subscribed, chan, phase, cursor,
                   replay, mark, inReplay, inLive, before>>

\* The session and all it has buffered go with the connection.
Disconnect ==
    /\ connected
    /\ connections < MaxConnections
    /\ connected' = FALSE
    /\ subscribed' = FALSE /\ chan' = <<>>
    /\ phase' = "idle" /\ cursor' = 0 /\ replay' = <<>>
    /\ mark' = 0 /\ inReplay' = 0 /\ inLive' = 0 /\ queue' = <<>>
    /\ UNCHANGED <<run, connections, received, before>>

-----------------------------------------------------------------------------
(* The session                                                             *)

\* Subscribing comes before the replay: nothing published in between is lost.
Subscribe ==
    /\ phase = "asked"
    /\ subscribed' = TRUE
    /\ phase' = "subscribed"
    /\ UNCHANGED <<run, connected, connections, chan, cursor, replay, mark,
                   inReplay, inLive, queue, received, before>>

\* Mutant of After: the event of the cursor is replayed again.
AfterInclusive(n) == [i \in 1 .. (saved + 1 - n) |-> n + i - 1]

\* The rows of ListAfter before LIMIT.
After(n) == [i \in 1 .. (saved - n) |-> n + i]

FirstRows(s) == IF Len(s) <= setup.limit THEN s ELSE SubSeq(s, 1, setup.limit)

Fetch ==
    /\ phase = "subscribed"
    /\ replay' = FirstRows(After(cursor))
    /\ phase' = "replaying"
    /\ UNCHANGED <<run, connected, connections, subscribed, chan, cursor, mark,
                   inReplay, inLive, queue, received, before>>

\* Mutant of Unsent: an event equal to the last one sent passes.
UnsentOrEqual(e) == e >= mark

\* markEventSent
Unsent(e) == e > mark

ReplayMark ==
    /\ phase = "replaying" /\ replay # <<>> /\ inReplay = 0
    /\ replay' = Tail(replay)
    /\ IF Unsent(Head(replay))
       THEN mark' = Head(replay) /\ inReplay' = Head(replay)
       ELSE UNCHANGED <<mark, inReplay>>
    /\ UNCHANGED <<run, connected, connections, subscribed, chan, phase, cursor,
                   inLive, queue, received, before>>

ReplayQueue ==
    /\ inReplay # 0
    /\ queue' = Offer(queue, setup.send, inReplay)
    /\ inReplay' = 0
    /\ UNCHANGED <<run, connected, connections, subscribed, chan, phase, cursor,
                   replay, mark, inLive, received, before>>

ReplayDone ==
    /\ phase = "replaying" /\ replay = <<>> /\ inReplay = 0
    /\ phase' = "idle"
    /\ cursor' = 0
    /\ UNCHANGED <<run, connected, connections, subscribed, chan, replay, mark,
                   inReplay, inLive, queue, received, before>>

LiveMark ==
    /\ chan # <<>> /\ inLive = 0
    /\ chan' = Tail(chan)
    /\ IF Unsent(Head(chan))
       THEN mark' = Head(chan) /\ inLive' = Head(chan)
       ELSE UNCHANGED <<mark, inLive>>
    /\ UNCHANGED <<run, connected, connections, subscribed, phase, cursor, replay,
                   inReplay, queue, received, before>>

LiveQueue ==
    /\ inLive # 0
    /\ queue' = Offer(queue, setup.send, inLive)
    /\ inLive' = 0
    /\ UNCHANGED <<run, connected, connections, subscribed, chan, phase, cursor,
                   replay, mark, inReplay, received, before>>

-----------------------------------------------------------------------------
Session == Subscribe \/ Fetch \/ ReplayMark \/ ReplayQueue \/ ReplayDone
Live == LiveMark \/ LiveQueue

Next == SaveEvent \/ PublishEvent \/ Connect \/ Request \/ Deliver \/ Disconnect \/ Session \/ Live

Spec == Init /\ [][Next]_vars

\* The handler publishes what it saved, goroutines run, the client reconnects
\* with a back-off that has a maximum and resumes after authentication.
Fairness ==
    /\ WF_vars(PublishEvent)
    /\ WF_vars(Connect) /\ WF_vars(Request) /\ WF_vars(Deliver)
    /\ WF_vars(Session) /\ WF_vars(Live)

FairSpec == Spec /\ Fairness

-----------------------------------------------------------------------------
Numbers == 1 .. MaxEvents

TypeOK ==
    /\ saved \in 0 .. MaxEvents /\ published \in 0 .. saved
    /\ connected \in BOOLEAN /\ connections \in 0 .. MaxConnections
    /\ subscribed \in BOOLEAN
    /\ chan \in Seq(Numbers) /\ Len(chan) <= setup.hub
    /\ phase \in {"idle", "asked", "subscribed", "replaying"}
    /\ cursor \in 0 .. MaxEvents
    /\ replay \in Seq(Numbers) /\ Len(replay) <= setup.limit
    /\ {mark, inReplay, inLive} \subseteq 0 .. MaxEvents
    /\ queue \in Seq(Numbers) /\ Len(queue) <= setup.send
    /\ received \in Seq(Numbers) /\ before \in 0 .. Len(received)

\* No event is sent twice on a connection, not by a replay that meets the live
\* channel and not by two replays (markEventSent).
OncePerConnection ==
    \A i, j \in before + 1 .. Len(received) : received[i] = received[j] => i = j

\* Nothing is on its way to a client that has subscribed.
Settled ==
    /\ subscribed /\ phase = "idle"
    /\ published = saved /\ chan = <<>> /\ inLive = 0 /\ queue = <<>>

\* docs/06: the Gateway replays the events after after_seq and sends live ones
\* after them.  Once all is sent, the client has every event.
NoGap == Settled => \A e \in 1 .. saved : \E i \in DOMAIN received : received[i] = e

\* The stream implements the feed as long as no event is published while a
\* replay is under way: a feed without events stands for the other setups.
Feed == INSTANCE EventFeed WITH
    saved    <- IF setup.overlap THEN 0 ELSE saved,
    received <- IF setup.overlap THEN <<>> ELSE received
ImplementsFeed == Feed!FairSpec
=============================================================================
