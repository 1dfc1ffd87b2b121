------------------------- MODULE EventStreamProofs --------------------------
(***************************************************************************)
(* Safety of EventStream for every number of events and connections and    *)
(* for every size of the buffers: no event twice on a connection; and in   *)
(* the setups whose buffers have room and whose replays meet no new event, *)
(* every step is a step of EventFeed or changes nothing there.             *)
(***************************************************************************)
EXTENDS EventStream, SequenceTheorems, WellFoundedInduction, TLAPS

-----------------------------------------------------------------------------
(* The inductive invariant                                                 *)

Known == 1 .. saved

\* TypeOK, with the events in the buffers among the saved ones.
Typed ==
    /\ setup \in Setups
    /\ saved \in 0 .. MaxEvents /\ published \in 0 .. saved
    /\ connected \in BOOLEAN /\ connections \in 0 .. MaxConnections
    /\ subscribed \in BOOLEAN
    /\ chan \in Seq(Known) /\ Len(chan) <= setup.hub
    /\ phase \in {"idle", "asked", "subscribed", "replaying"}
    /\ cursor \in 0 .. saved
    /\ replay \in Seq(Known) /\ Len(replay) <= setup.limit
    /\ mark \in 0 .. saved /\ inReplay \in 0 .. saved /\ inLive \in 0 .. saved
    /\ queue \in Seq(Known) /\ Len(queue) <= setup.send
    /\ received \in Seq(Known) /\ before \in 0 .. Len(received)

\* Without a connection there is no session, nor anything it has buffered.
NoSession ==
    ~connected => /\ ~subscribed /\ phase = "idle"
                  /\ chan = <<>> /\ replay = <<>> /\ queue = <<>>
                  /\ inReplay = 0 /\ inLive = 0

\* The events of the connection that have passed markEventSent are handled by the
\* client, in the send queue, or held by one of the two goroutines.  None of them is
\* there twice, and no event past the mark is among them.
Here == before + 1 .. Len(received)

Distinct ==
    /\ OncePerConnection
    /\ \A i, j \in 1 .. Len(queue) : queue[i] = queue[j] => i = j
    /\ \A i \in Here, j \in 1 .. Len(queue) : received[i] # queue[j]
    /\ \A i \in Here : received[i] # inReplay /\ received[i] # inLive
    /\ \A j \in 1 .. Len(queue) : queue[j] # inReplay /\ queue[j] # inLive
    /\ inReplay # 0 => inReplay # inLive
Marked ==
    connected => /\ \A i \in Here : received[i] <= mark
                 /\ \A j \in 1 .. Len(queue) : queue[j] <= mark
                 /\ inReplay <= mark /\ inLive <= mark

\* Without overlapping replays the events stand in line: handled, queued, held,
\* and then those of the hub's channel or of the replay.
Flag(e) == IF e = 0 THEN 0 ELSE 1
Past == Len(received) + Len(queue) + Flag(inReplay) + Flag(inLive)

Line ==
    /\ \A i \in 1 .. Len(received) : received[i] = i
    /\ \A i \in 1 .. Len(queue) : queue[i] = Len(received) + i
    /\ inReplay = 0 \/ inLive = 0
    /\ inReplay + inLive # 0 => inReplay + inLive = Past
    /\ Past <= saved /\ mark <= Past
    /\ mark = Past \/ Past = Len(received)
Waiting ==
    /\ saved <= published + 1
    /\ phase = "idle" => inReplay = 0 /\ replay = <<>>
    /\ phase = "idle" /\ subscribed =>
          /\ published = Past + Len(chan)
          /\ \A i \in 1 .. Len(chan) : chan[i] = Past + i
    /\ phase = "idle" /\ ~subscribed => chan = <<>> /\ inLive = 0
    /\ phase # "idle" => published = saved /\ chan = <<>> /\ inLive = 0
    /\ phase \in {"asked", "subscribed"} =>
          /\ cursor <= Past
          /\ cursor = Past \/ mark = Past
          /\ inReplay = 0 /\ replay = <<>>
    /\ phase \in {"subscribed", "replaying"} => subscribed
    /\ phase = "replaying" =>
          LET first == saved - Len(replay)
          IN  /\ \A i \in 1 .. Len(replay) : replay[i] = first + i
              /\ first <= Past
              /\ first = Past \/ mark = Past
Ordered == ~setup.overlap => Line /\ Waiting

IInv == Typed /\ NoSession /\ Distinct /\ Marked

-----------------------------------------------------------------------------
(* Buffers                                                                 *)

\* A channel send with a default case appends the event or drops it.
LEMMA OfferAppends ==
    ASSUME NEW S, NEW b \in Seq(S), NEW n \in Nat, Len(b) <= n, NEW e \in S
    PROVE  /\ Offer(b, n, e) \in Seq(S) /\ Len(Offer(b, n, e)) <= n
           /\ Offer(b, n, e) = b \/ Offer(b, n, e) = Append(b, e)
           /\ Len(b) < n => Offer(b, n, e) = Append(b, e)
BY DEF Offer

\* What Append, Head and Tail do to the members of a buffer.
LEMMA AppendMembers ==
    ASSUME NEW S, NEW b \in Seq(S), NEW e \in S
    PROVE  /\ Append(b, e) \in Seq(S) /\ Len(Append(b, e)) = Len(b) + 1
           /\ \A i \in 1 .. Len(b) : Append(b, e)[i] = b[i]
           /\ Append(b, e)[Len(b) + 1] = e
OBVIOUS

\* The first element of a buffer and the rest of it.
LEMMA TailMembers ==
    ASSUME NEW S, NEW b \in Seq(S), b # <<>>
    PROVE  /\ Head(b) = b[1] /\ Head(b) \in S
           /\ Len(b) \in Nat \ {0}
           /\ Tail(b) \in Seq(S) /\ Len(Tail(b)) = Len(b) - 1
           /\ \A i \in 1 .. Len(Tail(b)) : Tail(b)[i] = b[i + 1]
OBVIOUS

\* More saved events are known events still.
LEMMA KnownGrows ==
    ASSUME NEW m \in Nat, NEW n \in Nat, m <= n, NEW b \in Seq(1 .. m)
    PROVE  b \in Seq(1 .. n)
<1>1. \A i \in 1 .. Len(b) : b[i] \in 1 .. n
  OBVIOUS
<1>2. Len(b) \in Nat /\ b = [i \in 1 .. Len(b) |-> b[i]]
  OBVIOUS
<1> QED
  BY <1>1, <1>2

\* The rows of a replay are the events after the cursor, as many as the limit allows.
LEMMA RowsAfter ==
    ASSUME Typed
    PROVE  /\ FirstRows(After(cursor)) \in Seq(Known)
           /\ Len(FirstRows(After(cursor))) <= setup.limit
           /\ saved - cursor <= setup.limit =>
                 /\ Len(FirstRows(After(cursor))) = saved - cursor
                 /\ \A i \in 1 .. saved - cursor : FirstRows(After(cursor))[i] = cursor + i
<1> USE BoundsAssumption, SetupsAssumption DEF Typed, Known, Sizes
<1>1. saved - cursor \in Nat /\ setup.limit \in Nat \ {0}
  OBVIOUS
<1>2. /\ After(cursor) \in Seq(Known) /\ Len(After(cursor)) = saved - cursor
      /\ \A i \in 1 .. saved - cursor : After(cursor)[i] = cursor + i
  BY <1>1 DEF After
<1> HIDE DEF Known
<1>3. CASE Len(After(cursor)) <= setup.limit
  BY <1>1, <1>2, <1>3 DEF FirstRows
<1>4. CASE ~(Len(After(cursor)) <= setup.limit)
  <2>1. FirstRows(After(cursor)) = SubSeq(After(cursor), 1, setup.limit)
    BY <1>4 DEF FirstRows
  <2>2. \A i \in 1 .. setup.limit : After(cursor)[i] \in Known
    BY <1>1, <1>2, <1>4, SMTT(40)
  <2>3. /\ SubSeq(After(cursor), 1, setup.limit) \in Seq(Known)
        /\ Len(SubSeq(After(cursor), 1, setup.limit)) = setup.limit
    BY <1>1, <2>2, SubSeqProperties
  <2>4. ~(saved - cursor <= setup.limit)
    BY <1>2, <1>4
  <2> QED
    BY <1>1, <2>1, <2>3, <2>4
<1> QED
  BY <1>3, <1>4

\* A set of numbers with a bound has a greatest one.
LEMMA GreatestExists ==
    ASSUME NEW n \in Nat, NEW T \in SUBSET (0 .. n), T # {}
    PROVE  \E x \in T : \A y \in T : y <= x
<1> DEFINE U == {n - x : x \in T}
<1>1. U \subseteq Nat /\ U # {}
  <2>1. \A x \in T : n - x \in Nat
    OBVIOUS
  <2>2. PICK x \in T : TRUE
    OBVIOUS
  <2>3. n - x \in U
    OBVIOUS
  <2> QED
    BY <2>1, <2>3
<1> DEFINE R == OpToRel(<, Nat)
<1>2. PICK u \in U : \A v \in U : ~(<<v, u>> \in R)
  <2> HIDE DEF R, U
  <2> QED
    BY <1>1, NatLessThanWellFounded, WFMin DEF R
<1>3. \A v \in U : ~(v < u)
  BY <1>1, <1>2 DEF OpToRel
<1> HIDE DEF R
<1>4. PICK x \in T : u = n - x
  OBVIOUS
<1>5. ASSUME NEW y \in T PROVE y <= x
  <2>1. n - y \in U
    OBVIOUS
  <2>2. ~(n - y < n - x)
    BY <1>3, <1>4, <2>1
  <2> QED
    BY <2>2
<1> QED
  BY <1>5

\* lastSeen is an event of the client, or nothing.
LEMMA HighestIsKnown ==
    ASSUME Typed
    PROVE  Highest \in 0 .. saved /\ \A i \in 1 .. Len(received) : received[i] <= Highest
<1> DEFINE T == {0} \cup {received[i] : i \in DOMAIN received}
<1>1. T \in SUBSET (0 .. saved) /\ T # {} /\ saved \in Nat
  BY BoundsAssumption DEF Typed, Known, Sizes
<1>2. \A i \in 1 .. Len(received) : received[i] \in T
  BY DEF Typed
<1> HIDE DEF T
<1>3. \E x \in T : \A y \in T : x >= y
  BY <1>1, GreatestExists
<1>4. Max(T) \in T /\ \A y \in T : Max(T) >= y
  BY <1>3 DEF Max
<1>5. Highest = Max(T)
  BY DEF Highest, T
<1> QED
  BY <1>1, <1>2, <1>4, <1>5

-----------------------------------------------------------------------------
(* The types                                                               *)

\* Every step keeps the buffers within their sizes and their events known.
LEMMA TypesKept ==
    ASSUME Typed, Next
    PROVE  Typed'
<1> USE BoundsAssumption
<1>0. /\ saved \in Nat /\ setup.hub \in Nat /\ setup.send \in Nat /\ setup.limit \in Nat
      /\ <<>> \in Seq(Known) /\ MaxEvents \in Nat /\ MaxConnections \in Nat
  BY SetupsAssumption DEF Typed, Sizes
<1>1. CASE SaveEvent
  <2>1. saved' = saved + 1 /\ saved' \in 0 .. MaxEvents
    BY <1>0, <1>1 DEF SaveEvent, Typed
  <2>2. /\ chan \in Seq(1 .. saved') /\ replay \in Seq(1 .. saved') /\ queue \in Seq(1 .. saved')
        /\ received \in Seq(1 .. saved')
    BY <1>0, <2>1, KnownGrows DEF Typed, Known
  <2>3. \A n \in 0 .. saved : n \in 0 .. saved'
    BY <1>0, <2>1
  <2> QED
    BY <1>1, <2>1, <2>2, <2>3 DEF SaveEvent, Typed, Known, server
<1>2. CASE PublishEvent
  <2>1. saved \in Known /\ published' \in 0 .. saved
    BY <1>0, <1>2 DEF PublishEvent, Typed, Known
  <2>2. chan' \in Seq(Known) /\ Len(chan') <= setup.hub
    BY <1>0, <1>2, <2>1, OfferAppends DEF PublishEvent, Typed
  <2> QED
    BY <1>2, <2>1, <2>2 DEF PublishEvent, Typed, Known
<1>3. CASE Connect
  BY <1>0, <1>3, LenProperties DEF Connect, Typed, Known, run, server
<1>4. CASE Request
  BY <1>4, HighestIsKnown DEF Request, ResumeFrom, Typed, Known, run
<1>5. CASE Deliver
  <2>1. /\ Head(queue) \in Known /\ Tail(queue) \in Seq(Known) /\ Len(Tail(queue)) = Len(queue) - 1
        /\ Len(queue) \in Nat
    BY <1>5, TailMembers DEF Deliver, Typed
  <2>2. /\ Append(received, Head(queue)) \in Seq(Known)
        /\ Len(Append(received, Head(queue))) = Len(received) + 1 /\ Len(received) \in Nat
    BY <2>1, AppendMembers DEF Typed
  <2>3. Len(queue') <= setup.send /\ before \in 0 .. Len(received')
    BY <1>0, <1>5, <2>1, <2>2 DEF Deliver, Typed
  <2> QED
    BY <1>5, <2>1, <2>2, <2>3 DEF Deliver, Typed, Known, run
<1>6. CASE Disconnect
  <2>1. Known' = Known /\ 0 \in 0 .. saved
    BY <1>0, <1>6 DEF Disconnect, Known, run
  <2>2. Len(<<>>) <= setup.hub /\ Len(<<>>) <= setup.send /\ Len(<<>>) <= setup.limit
    BY <1>0
  <2> QED
    BY <1>0, <1>6, <2>1, <2>2 DEF Disconnect, Typed, run
<1>7. CASE Subscribe
  BY <1>7 DEF Subscribe, Typed, Known, run
<1>8. CASE Fetch
  BY <1>8, RowsAfter DEF Fetch, Typed, Known, run
<1>9. CASE ReplayMark
  <2>1. /\ Head(replay) \in Known /\ Tail(replay) \in Seq(Known) /\ Len(Tail(replay)) = Len(replay) - 1
        /\ Len(replay) \in Nat /\ Head(replay) \in 0 .. saved
    BY <1>0, <1>9, TailMembers DEF ReplayMark, Typed, Known
  <2>2. Len(replay') <= setup.limit
    BY <1>0, <1>9, <2>1 DEF ReplayMark, Typed
  <2> QED
    BY <1>9, <2>1, <2>2 DEF ReplayMark, Typed, Known, run
<1>10. CASE ReplayQueue
  <2>1. inReplay \in Known
    BY <1>0, <1>10 DEF ReplayQueue, Typed, Known
  <2>2. queue' \in Seq(Known) /\ Len(queue') <= setup.send
    BY <1>0, <1>10, <2>1, OfferAppends DEF ReplayQueue, Typed
  <2> QED
    BY <1>0, <1>10, <2>2 DEF ReplayQueue, Typed, Known, run
<1>11. CASE ReplayDone
  BY <1>0, <1>11 DEF ReplayDone, Typed, Known, run
<1>12. CASE LiveMark
  <2>1. /\ Head(chan) \in Known /\ Tail(chan) \in Seq(Known) /\ Len(Tail(chan)) = Len(chan) - 1
        /\ Len(chan) \in Nat /\ Head(chan) \in 0 .. saved
    BY <1>0, <1>12, TailMembers DEF LiveMark, Typed, Known
  <2>2. Len(chan') <= setup.hub
    BY <1>0, <1>12, <2>1 DEF LiveMark, Typed
  <2> QED
    BY <1>12, <2>1, <2>2 DEF LiveMark, Typed, Known, run
<1>13. CASE LiveQueue
  <2>1. inLive \in Known
    BY <1>0, <1>13 DEF LiveQueue, Typed, Known
  <2>2. queue' \in Seq(Known) /\ Len(queue') <= setup.send
    BY <1>0, <1>13, <2>1, OfferAppends DEF LiveQueue, Typed
  <2> QED
    BY <1>0, <1>13, <2>2 DEF LiveQueue, Typed, Known, run
<1> QED
  BY <1>1, <1>2, <1>3, <1>4, <1>5, <1>6, <1>7, <1>8, <1>9, <1>10, <1>11, <1>12, <1>13
  DEF Next, Session, Live

\* A connection that is gone has left nothing behind.
LEMMA NoSessionKept ==
    ASSUME Typed, NoSession, Next
    PROVE  NoSession'
<1>1. CASE SaveEvent \/ PublishEvent \/ Connect \/ Request
  BY <1>1 DEF NoSession, SaveEvent, PublishEvent, Connect, Request, server
<1>2. CASE Deliver \/ Disconnect
  BY <1>2 DEF NoSession, Deliver, Disconnect
<1>3. CASE Session
  BY <1>3 DEF NoSession, Session, Subscribe, Fetch, ReplayMark, ReplayQueue, ReplayDone
<1>4. CASE Live
  BY <1>4 DEF NoSession, Live, LiveMark, LiveQueue
<1> QED
  BY <1>1, <1>2, <1>3, <1>4 DEF Next

-----------------------------------------------------------------------------
(* No event twice                                                          *)

\* An event past the mark is none of those that have passed it.
LEMMA FreshIsNew ==
    ASSUME Typed, Marked, connected, NEW e \in Known, Unsent(e)
    PROVE  /\ \A i \in Here : received[i] # e /\ received[i] <= e
           /\ \A j \in 1 .. Len(queue) : queue[j] # e /\ queue[j] <= e
           /\ e # inReplay /\ e # inLive /\ inReplay <= e /\ inLive <= e
<1>1. /\ \A i \in Here : received[i] \in Nat
      /\ \A j \in 1 .. Len(queue) : queue[j] \in Nat
      /\ mark \in Nat /\ inReplay \in Nat /\ inLive \in Nat /\ e \in Nat
  BY BoundsAssumption DEF Typed, Known, Here, Sizes
<1> QED
  BY <1>1 DEF Marked, Unsent

\* A held event that leaves its goroutine is queued or dropped.
LEMMA QueueKeepsDistinct ==
    ASSUME Typed, Distinct, Marked, NEW e \in {inReplay, inLive}, e # 0,
           queue' = Offer(queue, setup.send, e),
           UNCHANGED <<connected, mark, received, before>>,
           \/ e = inReplay /\ inReplay' = 0 /\ inLive' = inLive
           \/ e = inLive /\ inLive' = 0 /\ inReplay' = inReplay
    PROVE  Distinct' /\ Marked'
<1>1. /\ e \in Known /\ setup.send \in Nat
      /\ \A i \in Here : received[i] # 0
      /\ \A j \in 1 .. Len(queue) : queue[j] # 0
  <2>1. saved \in Nat /\ setup.send \in Nat /\ Len(received) \in Nat /\ Len(queue) \in Nat
    BY BoundsAssumption, SetupsAssumption DEF Typed, Sizes
  <2>2. e \in Known
    BY <2>1 DEF Typed, Known
  <2>3. \A i \in Here : received[i] \in Known
    BY <2>1 DEF Typed, Here
  <2>4. \A j \in 1 .. Len(queue) : queue[j] \in Known
    BY <2>1 DEF Typed
  <2> QED
    BY <2>1, <2>2, <2>3, <2>4 DEF Known
<1>2. queue' = queue \/ queue' = Append(queue, e)
  <2>1. queue \in Seq(Known) /\ Len(queue) <= setup.send
    BY DEF Typed
  <2> QED
    BY <1>1, <2>1, OfferAppends
<1>5. Here' = Here /\ (connected => 0 <= mark)
  BY BoundsAssumption DEF Here, Typed, Sizes
<1>6. OncePerConnection'
  BY DEF Distinct, OncePerConnection
<1>3. CASE queue' = queue
  BY <1>1, <1>3, <1>5, <1>6 DEF Distinct, Marked
<1>4. CASE queue' = Append(queue, e)
  <2>1. /\ Len(queue') = Len(queue) + 1 /\ Len(queue) \in Nat
        /\ \A i \in 1 .. Len(queue) : queue'[i] = queue[i]
        /\ queue'[Len(queue) + 1] = e
    BY <1>1, <1>4, AppendMembers DEF Typed
  <2>2. /\ \A i \in Here : received[i] # e
        /\ \A j \in 1 .. Len(queue) : queue[j] # e
        /\ connected => e <= mark
    BY DEF Distinct, Marked
  <2>3. \A i, j \in 1 .. Len(queue') : queue'[i] = queue'[j] => i = j
    BY <2>1, <2>2 DEF Distinct
  <2>4. \A j \in 1 .. Len(queue') : queue'[j] = e \/ \E k \in 1 .. Len(queue) : queue'[j] = queue[k]
    BY <2>1
  <2>5. /\ \A i \in Here, j \in 1 .. Len(queue') : received[i] # queue'[j]
        /\ \A j \in 1 .. Len(queue') : queue'[j] # inReplay' /\ queue'[j] # inLive'
        /\ connected => \A j \in 1 .. Len(queue') : queue'[j] <= mark
    BY <1>1, <2>2, <2>4 DEF Distinct, Marked
  <2> QED
    BY <1>1, <1>5, <1>6, <2>3, <2>5 DEF Distinct, Marked
<1> QED
  BY <1>2, <1>3, <1>4

\* Events stay distinct on their way to the client.
LEMMA DistinctKept ==
    ASSUME Typed, NoSession, Distinct, Marked, Next
    PROVE  Distinct' /\ Marked'
<1>1. CASE SaveEvent \/ PublishEvent \/ Request
  BY <1>1 DEF SaveEvent, PublishEvent, Request, Distinct, Marked, OncePerConnection, Here, server
<1>2. CASE Connect
  <2>1. queue = <<>> /\ inReplay = 0 /\ inLive = 0 /\ Here' = {} /\ mark \in Nat
    BY <1>2, BoundsAssumption DEF Connect, NoSession, Here, Typed, server, Sizes
  <2> QED
    BY <1>2, <2>1 DEF Connect, Distinct, Marked, OncePerConnection, Here, server
<1>3. CASE Deliver
  <2>1. /\ Len(queue') = Len(queue) - 1 /\ Len(queue) \in Nat \ {0} /\ Head(queue) = queue[1]
        /\ \A j \in 1 .. Len(queue') : queue'[j] = queue[j + 1]
    BY <1>3, TailMembers DEF Deliver, Typed
  <2>2. /\ Len(received') = Len(received) + 1 /\ Len(received) \in Nat /\ before \in 0 .. Len(received)
        /\ \A i \in 1 .. Len(received) : received'[i] = received[i]
        /\ received'[Len(received) + 1] = queue[1]
    BY <1>3, <2>1, TailMembers, AppendMembers DEF Deliver, Typed
  <2>3. /\ \A i \in Here' : received'[i] = queue[1] \/ (i \in Here /\ received'[i] = received[i])
        /\ \A i \in Here' : i \in Here \/ i = Len(received) + 1
        /\ \A i \in Here : received[i] # queue[1]
    <3>1. \A i \in Here' : i \in Here \/ i = Len(received) + 1
      BY <1>3, <2>2 DEF Deliver, Here
    <3>2. \A i \in Here : i \in 1 .. Len(received)
      BY <2>2 DEF Here
    <3>3. 1 \in 1 .. Len(queue)
      BY <2>1
    <3> QED
      BY <2>2, <3>1, <3>2, <3>3 DEF Distinct
  <2>4. \A j \in 1 .. Len(queue') : j + 1 \in 1 .. Len(queue) /\ queue'[j] = queue[j + 1] /\ j + 1 # 1
    BY <2>1
  <2>5. OncePerConnection'
    <3>1. \A i, j \in Here' : received'[i] = received'[j] => i = j
      BY <2>2, <2>3 DEF Distinct, OncePerConnection, Here
    <3> QED
      BY <1>3, <3>1 DEF OncePerConnection, Here
  <2>6. \A i, j \in 1 .. Len(queue') : queue'[i] = queue'[j] => i = j
    BY <2>1, <2>4 DEF Distinct
  <2>7. \A i \in Here', j \in 1 .. Len(queue') : received'[i] # queue'[j]
    BY <2>1, <2>3, <2>4 DEF Distinct
  <2>8. /\ \A i \in Here' : received'[i] # inReplay /\ received'[i] # inLive
        /\ \A j \in 1 .. Len(queue') : queue'[j] # inReplay /\ queue'[j] # inLive
    BY <2>1, <2>3, <2>4 DEF Distinct
  <2>9. connected => /\ \A i \in Here' : received'[i] <= mark
                     /\ \A j \in 1 .. Len(queue') : queue'[j] <= mark
    BY <2>1, <2>3, <2>4 DEF Marked
  <2> QED
    BY <1>3, <2>5, <2>6, <2>7, <2>8, <2>9 DEF Deliver, Distinct, Marked
<1>4. CASE Disconnect
  <2>1. 0 \notin Known /\ \A i \in Here : received[i] \in Known
    BY BoundsAssumption DEF Typed, Known, Here, Sizes
  <2> QED
    BY <1>4, <2>1 DEF Disconnect, Distinct, Marked, OncePerConnection, Here
<1>5. CASE Subscribe \/ Fetch \/ ReplayDone
  BY <1>5 DEF Subscribe, Fetch, ReplayDone, Distinct, Marked, OncePerConnection, Here
<1>6. CASE ReplayMark
  <2>1. connected /\ Head(replay) \in Known
    BY <1>6, TailMembers DEF ReplayMark, NoSession, Typed
  <2>2. CASE Unsent(Head(replay))
    <3> DEFINE e == Head(replay)
    <3>1. e \in Nat /\ mark' = e /\ inReplay' = e
          /\ UNCHANGED <<connected, inLive, queue, received, before>>
      BY <1>6, <2>1, <2>2 DEF ReplayMark, Known
    <3> HIDE DEF e
    <3> QED
      BY <1>6, <2>1, <2>2, <3>1, FreshIsNew DEF Distinct, Marked, OncePerConnection, Here, e
  <2>3. CASE ~Unsent(Head(replay))
    BY <1>6, <2>3 DEF ReplayMark, Distinct, Marked, OncePerConnection, Here
  <2> QED
    BY <2>2, <2>3
<1>7. CASE ReplayQueue
  BY <1>7, QueueKeepsDistinct DEF ReplayQueue
<1>8. CASE LiveMark
  <2>1. connected /\ Head(chan) \in Known
    BY <1>8, TailMembers DEF LiveMark, NoSession, Typed
  <2>2. CASE Unsent(Head(chan))
    <3> DEFINE e == Head(chan)
    <3>1. e \in Nat /\ mark' = e /\ inLive' = e
          /\ UNCHANGED <<connected, inReplay, queue, received, before>>
      BY <1>8, <2>1, <2>2 DEF LiveMark, Known
    <3> HIDE DEF e
    <3> QED
      BY <1>8, <2>1, <2>2, <3>1, FreshIsNew DEF Distinct, Marked, OncePerConnection, Here, e
  <2>3. CASE ~Unsent(Head(chan))
    BY <1>8, <2>3 DEF LiveMark, Distinct, Marked, OncePerConnection, Here
  <2> QED
    BY <2>2, <2>3
<1>9. CASE LiveQueue
  BY <1>9, QueueKeepsDistinct DEF LiveQueue
<1> QED
  BY <1>1, <1>2, <1>3, <1>4, <1>5, <1>6, <1>7, <1>8, <1>9 DEF Next, Session, Live

-----------------------------------------------------------------------------
(* The order of the events                                                 *)

\* The buffers of the setups without overlap hold every event.
RoomForAll ==
    \A s \in Setups : ~s.overlap =>
        MaxEvents <= s.hub /\ MaxEvents <= s.send /\ MaxEvents <= s.limit

\* The numbers the steps below compute with.
LEMMA Sizing ==
    ASSUME Typed
    PROVE  /\ saved \in Nat /\ published \in Nat /\ published <= saved /\ saved <= MaxEvents
           /\ mark \in Nat /\ inReplay \in Nat /\ inLive \in Nat /\ cursor \in Nat
           /\ Len(received) \in Nat /\ Len(queue) \in Nat /\ Len(chan) \in Nat /\ Len(replay) \in Nat
           /\ setup.hub \in Nat /\ setup.send \in Nat /\ setup.limit \in Nat
           /\ Past \in Nat /\ MaxEvents \in Nat
<1>1. MaxEvents \in Nat /\ \A s \in Setups : s.hub \in Nat /\ s.send \in Nat /\ s.limit \in Nat
  BY BoundsAssumption, SetupsAssumption DEF Sizes
<1> QED
  BY <1>1 DEF Typed, Past, Flag

\* Handled in order, the last event the client has seen is the last it has handled.
LEMMA HighestInOrder ==
    ASSUME Typed, \A i \in 1 .. Len(received) : received[i] = i
    PROVE  Highest = Len(received)
<1>1. Highest \in 0 .. Len(received)
  <2> DEFINE T == {0} \cup {received[i] : i \in DOMAIN received}
  <2>1. T \subseteq 0 .. Len(received) /\ T # {}
    BY Sizing, SMTT(40) DEF Typed
  <2>2. Highest \in T
    <3>1. \E x \in T : \A y \in T : x >= y
      <4> HIDE DEF T
      <4> QED
        BY <2>1, Sizing, GreatestExists
    <3>2. Max(T) \in T
      <4> HIDE DEF T
      <4> QED
        BY <3>1 DEF Max
    <3> QED
      BY <3>2 DEF Highest
  <2> QED
    BY <2>1, <2>2
<1>2. \A i \in 1 .. Len(received) : i <= Highest
  BY HighestIsKnown
<1> QED
  BY <1>1, <1>2, Sizing

\* The event that passes the mark is the next one in line.
LEMMA NextInLine ==
    ASSUME Typed, Line, NEW n \in Nat, n <= Past, n = Past \/ mark = Past
    PROVE  /\ Unsent(n + 1) => n = Past
           /\ ~Unsent(n + 1) => mark = Past /\ n + 1 <= Past
BY Sizing DEF Line, Unsent

\* A buffer in line stays so when the next event joins it and when the first one leaves.
LEMMA LineGrows ==
    ASSUME NEW b \in Seq(Known), NEW p \in Nat, NEW e \in Known, e = p + Len(b) + 1,
           \A i \in 1 .. Len(b) : b[i] = p + i
    PROVE  \A i \in 1 .. Len(Append(b, e)) : Append(b, e)[i] = p + i
<1>1. ASSUME NEW i \in 1 .. Len(Append(b, e)) PROVE Append(b, e)[i] = p + i
  <2>1. Len(b) \in Nat /\ Len(Append(b, e)) = Len(b) + 1
    OBVIOUS
  <2>2. CASE i = Len(b) + 1
    BY <2>1, <2>2, AppendMembers
  <2>3. CASE i \in 1 .. Len(b)
    BY <2>3, AppendMembers
  <2> QED
    BY <2>1, <2>2, <2>3
<1> QED
  BY <1>1

\* A buffer of consecutive numbers is one still when its first is taken.
LEMMA LineShrinks ==
    ASSUME NEW S, NEW b \in Seq(S), b # <<>>, NEW p \in Nat,
           \A i \in 1 .. Len(b) : b[i] = p + i
    PROVE  /\ Head(b) = p + 1 /\ Len(Tail(b)) = Len(b) - 1 /\ Len(b) \in Nat \ {0}
           /\ \A i \in 1 .. Len(Tail(b)) : Tail(b)[i] = (p + 1) + i
<1>1. Head(b) = b[1] /\ Len(Tail(b)) = Len(b) - 1 /\ Len(b) \in Nat \ {0}
  BY TailMembers
<1>2. ASSUME NEW i \in 1 .. Len(Tail(b)) PROVE Tail(b)[i] = (p + 1) + i
  <2>1. Tail(b)[i] = b[i + 1] /\ i + 1 \in 1 .. Len(b) /\ i \in Nat
    BY <1>1, TailMembers
  <2> QED
    BY <2>1
<1>3. b[1] = p + 1
  BY <1>1
<1> QED
  BY <1>1, <1>2, <1>3

\* The events stay in line.
LEMMA OrderKept ==
    ASSUME RoomForAll, Typed, NoSession, Line, Waiting, ~setup.overlap, Next
    PROVE  Line' /\ Waiting'
<1>n. /\ saved \in Nat /\ published \in Nat /\ published <= saved /\ saved <= MaxEvents
      /\ mark \in Nat /\ inReplay \in Nat /\ inLive \in Nat /\ cursor \in Nat
      /\ Len(received) \in Nat /\ Len(queue) \in Nat /\ Len(chan) \in Nat /\ Len(replay) \in Nat
      /\ setup.hub \in Nat /\ setup.send \in Nat /\ setup.limit \in Nat
      /\ Past \in Nat /\ MaxEvents \in Nat
  BY Sizing
<1> USE <1>n
<1>s. /\ chan \in Seq(Known) /\ queue \in Seq(Known) /\ replay \in Seq(Known)
      /\ received \in Seq(Known)
  BY DEF Typed
<1>t. Past = Len(received) + Len(queue) + Flag(inReplay) + Flag(inLive) /\ Flag(0) = 0
  BY DEF Past, Flag
<1>0. MaxEvents <= setup.hub /\ MaxEvents <= setup.send /\ MaxEvents <= setup.limit
  BY DEF RoomForAll, Typed
<1>1. CASE SaveEvent
  BY <1>1 DEF SaveEvent, Line, Waiting, Past, server
<1>2. CASE PublishEvent
  <2>1. phase = "idle" /\ saved = published + 1 /\ saved \in Known
    BY <1>2 DEF PublishEvent, Waiting, Known
  <2>2. Line'
    BY <1>2 DEF PublishEvent, Line, Past
  <2>3. CASE ~subscribed
    BY <1>2, <2>1, <2>2, <2>3 DEF PublishEvent, Waiting
  <2>4. CASE subscribed
    <3>1. published = Past + Len(chan) /\ Len(chan) < setup.hub /\ saved = Past + Len(chan) + 1
      BY <1>0, <2>1, <2>4 DEF Waiting
    <3>2. \A i \in 1 .. Len(chan) : chan[i] = Past + i
      BY <2>1, <2>4 DEF Waiting
    <3>3. chan' = Append(chan, saved)
      <4>2. Offer(chan, setup.hub, saved) = Append(chan, saved)
        BY <3>1 DEF Offer
      <4> QED
        BY <1>2, <2>4, <4>2 DEF PublishEvent
    <3>4. Len(chan') = Len(chan) + 1
      BY <1>s, <2>1, <3>3, AppendMembers
    <3>5. Past' = Past
      BY <1>2 DEF PublishEvent, Past
    <3>6. \A i \in 1 .. Len(chan') : chan'[i] = Past + i
      <4>1. \A i \in 1 .. Len(Append(chan, saved)) : Append(chan, saved)[i] = Past + i
        BY ONLY <1>n, <1>s, <2>1, <3>1, <3>2, LineGrows
      <4> QED
        BY ONLY <3>3, <4>1
    <3>7. published' = Past' + Len(chan') /\ \A i \in 1 .. Len(chan') : chan'[i] = Past' + i
      BY ONLY <1>2, <2>1, <3>1, <3>4, <3>5, <3>6, <1>n DEF PublishEvent
    <3> QED
      BY <1>2, <2>1, <2>2, <2>4, <3>7 DEF PublishEvent, Waiting
  <2> QED
    BY <2>3, <2>4
<1>3. CASE Connect
  BY <1>3 DEF Connect, Line, Waiting, Past, run, server
<1>4. CASE Request
  <2>1. cursor' = Len(received)
    BY <1>4, HighestInOrder DEF Request, ResumeFrom, Line
  <2>2. Len(received) <= Past
    BY DEF Past, Flag
  <2>3. Line' /\ Past' = Past
    BY <1>4 DEF Request, Line, Past, run
  <2> QED
    BY <1>4, <2>1, <2>2, <2>3 DEF Request, Line, Waiting, run
<1>5. CASE Deliver
  <2>1. /\ Head(queue) = Len(received) + 1 /\ Head(queue) \in Known
        /\ Len(queue') = Len(queue) - 1 /\ Len(queue) \in Nat \ {0}
        /\ \A i \in 1 .. Len(queue') : queue'[i] = (Len(received) + 1) + i
    <3>1. queue # <<>> /\ queue' = Tail(queue)
      BY <1>5 DEF Deliver
    <3>2. \A i \in 1 .. Len(queue) : queue[i] = Len(received) + i
      BY DEF Line
    <3> QED
      BY <1>s, <3>1, <3>2, LineShrinks, TailMembers
  <2>2. received' = Append(received, Head(queue)) /\ Len(received') = Len(received) + 1
    BY <1>s, <1>5, <2>1, AppendMembers DEF Deliver
  <2>3. Past' = Past
    BY <1>5, <2>1, <2>2 DEF Deliver, Past
  <2>5. \A i \in 1 .. Len(received') : received'[i] = i
    <3>1. \A i \in 1 .. Len(received) : received[i] = 0 + i
      BY DEF Line
    <3>2. \A i \in 1 .. Len(received') : received'[i] = 0 + i
      <4>1. Head(queue) = 0 + Len(received) + 1
        BY <2>1
      <4> QED
        BY <1>s, <2>1, <2>2, <3>1, <4>1, LineGrows
    <3> QED
      BY <2>2, <3>2
  <2>6. \A i \in 1 .. Len(queue') : queue'[i] = Len(received') + i
    BY <2>1, <2>2
  <2>7. Past # Len(received)
    BY <2>1 DEF Past, Flag
  <2>8. Line'
    BY <1>5, <2>3, <2>5, <2>6, <2>7 DEF Deliver, Line, run
  <2> QED
    BY <1>5, <2>3, <2>8 DEF Deliver, Waiting, run
<1>6. CASE Disconnect
  <2>1. Past' = Len(received) /\ Len(received) <= Past
    BY <1>6 DEF Disconnect, Past, Flag
  <2> QED
    BY <1>6, <2>1 DEF Disconnect, Line, Waiting, run
<1>7. CASE Subscribe
  BY <1>7 DEF Subscribe, Line, Waiting, Past, run
<1>8. CASE Fetch
  <2>1. /\ Len(replay') = saved - cursor
        /\ \A i \in 1 .. Len(replay') : replay'[i] = cursor + i
    <3>1. saved - cursor <= setup.limit
      BY <1>0
    <3> QED
      BY <1>8, <3>1, RowsAfter DEF Fetch
  <2>2. Line' /\ Past' = Past
    BY <1>8 DEF Fetch, Line, Past, run
  <2> QED
    BY <1>8, <2>1, <2>2 DEF Fetch, Waiting, run
<1>9. CASE ReplayMark
  <2> DEFINE first == saved - Len(replay)
  <2>0. replay # <<>> /\ replay' = Tail(replay) /\ saved' = saved
    BY <1>9 DEF ReplayMark, run
  <2>1. /\ Len(replay') = Len(replay) - 1 /\ Head(replay) = replay[1] /\ Len(replay) \in Nat \ {0}
        /\ Head(replay) \in Nat \ {0}
    BY <1>s, <2>0, TailMembers DEF Known
  <2>2. /\ first <= Past /\ (first = Past \/ mark = Past)
        /\ \A i \in 1 .. Len(replay) : replay[i] = first + i
    BY <1>9 DEF ReplayMark, Waiting
  <2>3. first \in Nat /\ Head(replay) = first + 1
    <3>1. replay[1] = first + 1 /\ first \in Int
      BY <2>1, <2>2
    <3> QED
      BY <2>1, <3>1
  <2>4. /\ saved' - Len(replay') = first + 1
        /\ \A i \in 1 .. Len(replay') : replay'[i] = (first + 1) + i
    <3>1. saved' - Len(replay') = first + 1
      BY <2>0, <2>1
    <3> HIDE DEF first
    <3> QED
      BY <1>s, <2>0, <2>2, <2>3, <3>1, LineShrinks
  <2> HIDE DEF first
  <2>5. CASE Unsent(Head(replay))
    <3>1. first = Past /\ mark' = first + 1 /\ inReplay' = first + 1 /\ inLive' = 0 /\ first + 1 <= saved
      <4>1. first = Past
        BY <2>2, <2>3, <2>5, NextInLine
      <4>2. mark' = first + 1 /\ inReplay' = first + 1
        BY <1>9, <2>3, <2>5 DEF ReplayMark
      <4>3. inLive' = 0
        BY <1>9 DEF ReplayMark, Waiting
      <4>4. first + 1 <= saved
        BY <2>1 DEF first
      <4> QED
        BY <4>1, <4>2, <4>3, <4>4
    <3>2. Past' = Past + 1
      <4>1. inReplay = 0 /\ inLive = 0 /\ UNCHANGED <<received, queue>>
        BY <1>9, <3>1 DEF ReplayMark
      <4>2. inReplay' # 0
        BY <2>3, <3>1
      <4>3. Flag(inReplay') = 1 /\ Flag(inLive') = 0 /\ Flag(inReplay) = 0 /\ Flag(inLive) = 0
        BY ONLY <3>1, <4>1, <4>2 DEF Flag
      <4> QED
        BY <4>1, <4>3 DEF Past
    <3>3. Line'
      BY <1>9, <2>3, <3>1, <3>2 DEF ReplayMark, Line, run
    <3> QED
      BY <1>9, <2>3, <2>4, <3>1, <3>2, <3>3 DEF ReplayMark, Waiting, run
  <2>6. CASE ~Unsent(Head(replay))
    <3>1. mark = Past /\ first + 1 <= Past
      BY <2>2, <2>3, <2>6, NextInLine
    <3>2. Line' /\ Past' = Past
      BY <1>9, <2>6 DEF ReplayMark, Line, Past, run
    <3> QED
      BY <1>9, <2>3, <2>4, <2>6, <3>1, <3>2 DEF ReplayMark, Waiting, run
  <2> QED
    BY <2>5, <2>6
<1>10. ASSUME NEW e, e # 0, e = inReplay + inLive, inReplay' + inLive' = 0,
              inReplay' = 0, inLive' = 0, queue' = Offer(queue, setup.send, e),
              UNCHANGED <<saved, received, mark>>
       PROVE  Line' /\ Past' = Past
  <2>1. e = Past /\ Past = Len(received) + Len(queue) + 1 /\ e <= saved
    <3>1. inReplay = 0 \/ inLive = 0
      BY DEF Line
    <3>2. Flag(inReplay) + Flag(inLive) = 1
      BY <1>10, <3>1 DEF Flag
    <3>3. Past = Len(received) + Len(queue) + 1
      <4>1. Flag(inReplay) \in Nat /\ Flag(inLive) \in Nat
        BY DEF Flag
      <4> QED
        BY <3>2, <4>1 DEF Past
    <3> QED
      BY <1>10, <3>3 DEF Line
  <2>2. e \in Known /\ Len(queue) < setup.send
    BY <1>0, <2>1 DEF Known
  <2>3. queue \in Seq(Known) /\ Len(queue) <= setup.send
    BY DEF Typed
  <2>4. queue' = Append(queue, e)
    <3>1. Offer(queue, setup.send, e) = Append(queue, e)
      BY <2>2 DEF Offer
    <3> QED
      BY <1>10, <3>1
  <2>5. Len(queue') = Len(queue) + 1
    BY <2>2, <2>3, <2>4, AppendMembers
  <2>6. Past' = Past
    <3>1. Past' = Len(received) + Len(queue') + Flag(0) + Flag(0)
      BY <1>10 DEF Past
    <3> QED
      BY <1>t, <2>1, <2>5, <3>1
  <2>7. \A i \in 1 .. Len(queue') : queue'[i] = Len(received) + i
    <3>1. \A i \in 1 .. Len(queue) : queue[i] = Len(received) + i
      BY DEF Line
    <3>2. e = Len(received) + Len(queue) + 1
      BY <2>1
    <3> QED
      <4>1. \A i \in 1 .. Len(Append(queue, e)) : Append(queue, e)[i] = Len(received) + i
        BY ONLY <1>n, <2>2, <2>3, <3>1, <3>2, LineGrows
      <4> QED
        BY ONLY <2>4, <4>1
  <2>8. mark = Past
    BY <2>1 DEF Line
  <2> QED
    BY <1>10, <2>1, <2>6, <2>7, <2>8 DEF Line
<1>11. CASE ReplayQueue
  <2>1. inLive = 0
    BY <1>11 DEF ReplayQueue, Line
  <2>2. Line' /\ Past' = Past
    BY <1>10, <1>11, <2>1 DEF ReplayQueue, run
  <2> QED
    BY <1>11, <2>2 DEF ReplayQueue, Waiting, run
<1>12. CASE ReplayDone
  <2>1. saved <= Past
    BY <1>12 DEF ReplayDone, Waiting
  <2>2. Line' /\ Past' = Past
    BY <1>12 DEF ReplayDone, Line, Past, run
  <2>3. Past = published
    BY <1>12, <2>1 DEF Line, ReplayDone, Waiting
  <2> QED
    BY <1>12, <2>2, <2>3 DEF ReplayDone, Waiting, run
<1>13. CASE LiveMark
  <2>1. chan # <<>> /\ chan' = Tail(chan) /\ inLive = 0
    BY <1>13 DEF LiveMark
  <2>2. /\ phase = "idle" /\ subscribed /\ inReplay = 0
        /\ published = Past + Len(chan) /\ \A i \in 1 .. Len(chan) : chan[i] = Past + i
    BY <2>1 DEF Waiting
  <2>c. /\ Head(chan) = Past + 1 /\ Len(chan') = Len(chan) - 1 /\ Len(chan) \in Nat \ {0}
        /\ \A i \in 1 .. Len(chan') : chan'[i] = (Past + 1) + i
    BY <1>s, <2>1, <2>2, LineShrinks
  <2>3. Unsent(Head(chan))
    BY <2>c DEF Line, Unsent
  <2>4. mark' = Past + 1 /\ inLive' = Past + 1
    BY <1>13, <2>3, <2>c DEF LiveMark
  <2>5. Past' = Past + 1 /\ Past + 1 <= saved
    <3>1. inReplay' = 0 /\ inLive' # 0 /\ UNCHANGED <<received, queue>>
      BY <1>13, <2>2, <2>4 DEF LiveMark
    <3>2. Flag(inReplay') = 0 /\ Flag(inLive') = 1 /\ Flag(inReplay) = 0 /\ Flag(inLive) = 0
      BY ONLY <2>1, <2>2, <3>1 DEF Flag
    <3>3. Past' = Past + 1
      BY <3>1, <3>2 DEF Past
    <3> QED
      BY <2>2, <2>c, <3>3
  <2>6. Line'
    BY <1>13, <2>1, <2>2, <2>4, <2>5 DEF LiveMark, Line, run
  <2>7. /\ published' = Past' + Len(chan')
        /\ \A i \in 1 .. Len(chan') : chan'[i] = Past' + i
    BY <1>13, <2>2, <2>5, <2>c DEF LiveMark, run
  <2> QED
    BY <1>13, <2>2, <2>6, <2>7 DEF LiveMark, Waiting, run
<1>14. CASE LiveQueue
  <2>1. inReplay = 0
    BY <1>14 DEF LiveQueue, Line
  <2>2. Line' /\ Past' = Past
    BY <1>10, <1>14, <2>1 DEF LiveQueue, run
  <2> QED
    BY <1>14, <2>2 DEF LiveQueue, Waiting, run
<1> QED
  BY <1>1, <1>2, <1>3, <1>4, <1>5, <1>6, <1>7, <1>8, <1>9, <1>11, <1>12, <1>13, <1>14
  DEF Next, Session, Live

-----------------------------------------------------------------------------
(* The theorems                                                            *)

\* Nothing is saved, sent or handled at first.
LEMMA InitInvariant == Init => IInv /\ Ordered
<1> SUFFICES ASSUME Init PROVE IInv /\ Ordered
  OBVIOUS
<1> USE BoundsAssumption, SetupsAssumption
<1>1. /\ MaxEvents \in Nat /\ MaxConnections \in Nat
      /\ setup.hub \in Nat /\ setup.send \in Nat /\ setup.limit \in Nat
  BY DEF Init, Sizes
<1>2. \A S : <<>> \in Seq(S) /\ Len(<<>>) = 0
  OBVIOUS
<1>3. Typed
  <2>1. /\ setup \in Setups /\ saved \in 0 .. MaxEvents /\ published \in 0 .. saved
        /\ connections \in 0 .. MaxConnections /\ cursor \in 0 .. saved
        /\ mark \in 0 .. saved /\ inReplay \in 0 .. saved /\ inLive \in 0 .. saved
    BY <1>1 DEF Init
  <2>2. /\ chan \in Seq(Known) /\ Len(chan) <= setup.hub
        /\ replay \in Seq(Known) /\ Len(replay) <= setup.limit
        /\ queue \in Seq(Known) /\ Len(queue) <= setup.send
        /\ received \in Seq(Known) /\ before \in 0 .. Len(received)
    BY <1>1, <1>2 DEF Init
  <2> QED
    BY <2>1, <2>2 DEF Init, Typed
<1>4. NoSession
  BY DEF Init, NoSession
<1>5. Distinct /\ Marked
  BY DEF Init, Distinct, Marked, OncePerConnection, Here
<1>6. Past = 0
  BY DEF Init, Past, Flag
<1>7. Line /\ Waiting
  BY <1>6 DEF Init, Line, Waiting
<1> QED
  BY <1>3, <1>4, <1>5, <1>7 DEF IInv, Ordered

\* Every step keeps the invariant.
LEMMA NextInvariant == IInv /\ [Next]_vars => IInv'
<1> SUFFICES ASSUME IInv, [Next]_vars PROVE IInv'
  OBVIOUS
<1>1. CASE Next
  BY <1>1, TypesKept, NoSessionKept, DistinctKept DEF IInv
<1>2. CASE UNCHANGED vars
  BY <1>2 DEF vars, run, server, IInv, Typed, NoSession, Distinct, Marked, OncePerConnection,
              Here, Known
<1> QED
  BY <1>1, <1>2

\* A setup lasts as long as its behaviour.
LEMMA SetupStays == [Next]_vars => setup' = setup
BY DEF Next, Session, Live, SaveEvent, PublishEvent, Connect, Request, Deliver, Disconnect,
       Subscribe, Fetch, ReplayMark, ReplayQueue, ReplayDone, LiveMark, LiveQueue, vars, run

\* With room for every event the order is kept as well.
LEMMA NextOrder == ASSUME RoomForAll PROVE IInv /\ Ordered /\ [Next]_vars => Ordered'
<1> SUFFICES ASSUME IInv, Ordered, [Next]_vars, ~setup.overlap PROVE Line' /\ Waiting'
  BY SetupStays DEF Ordered
<1>1. CASE Next
  BY <1>1, OrderKept DEF IInv, Ordered
<1>2. CASE UNCHANGED vars
  BY <1>2 DEF vars, run, server, Ordered, Line, Waiting, Past
<1> QED
  BY <1>1, <1>2

\* The inductive invariant holds.
THEOREM Safety == Spec => []IInv
BY InitInvariant, NextInvariant, PTL DEF Spec

\* Buffers stay within their sizes, whatever the sizes are, and hold saved events only:
\* the channel of a hub subscription, the send queue, the rows of a replay.
THEOREM TypeCorrect == Spec => []TypeOK
<1>1. IInv => TypeOK
  <2> SUFFICES ASSUME Typed PROVE TypeOK
    BY DEF IInv
  <2>1. saved \in Nat /\ MaxEvents \in Nat /\ saved <= MaxEvents
    BY Sizing
  <2>2. /\ chan \in Seq(Numbers) /\ replay \in Seq(Numbers) /\ queue \in Seq(Numbers)
        /\ received \in Seq(Numbers)
    BY <2>1, KnownGrows DEF Typed, Known, Numbers
  <2>3. \A n \in 0 .. saved : n \in 0 .. MaxEvents
    BY <2>1
  <2> QED
    BY <2>1, <2>2, <2>3 DEF Typed, TypeOK
<1> QED
  BY <1>1, Safety, PTL

\* No event reaches the client twice on a connection, for buffers of every size: the
\* mark, the send queue and the two goroutines never hold an event the client has had
\* (markEventSent).
THEOREM EventsOncePerConnection == Spec => []OncePerConnection
<1>1. IInv => OncePerConnection
  BY DEF IInv, Distinct
<1> QED
  BY <1>1, Safety, PTL

\* What a step does to the feed: a saved event is a new event of the feed, a delivery
\* hands over the next one, and everything else changes nothing there.
LEMMA StepsOfTheFeed ==
    IInv /\ Ordered /\ [Next]_vars => [Feed!Next]_(Feed!vars)
<1> SUFFICES ASSUME IInv, Ordered, [Next]_vars PROVE [Feed!Next]_(Feed!vars)
  OBVIOUS
<1> DEFINE number == IF setup.overlap THEN 0 ELSE saved
           seen == IF setup.overlap THEN <<>> ELSE received
<1>1. setup' = setup
  BY SetupStays
<1>2. CASE setup.overlap
  <2>1. UNCHANGED <<number, seen>>
    BY <1>1, <1>2
  <2> QED
    BY <2>1 DEF Feed!vars
<1>3. CASE ~setup.overlap
  <2>0. number = saved /\ seen = received /\ number' = saved' /\ seen' = received'
    BY <1>1, <1>3
  <2>t. Typed /\ Line
    BY <1>3 DEF IInv, Ordered
  <2>1. CASE SaveEvent
    <3>1. number' = number + 1 /\ seen' = seen
      BY <2>0, <2>1 DEF SaveEvent
    <3>2. Feed!Save
      BY <3>1 DEF Feed!Save
    <3> QED
      BY <3>2 DEF Feed!Next
  <2>2. CASE Deliver
    <3>1. Len(received) < saved /\ Head(queue) = Len(received) + 1
      <4>1. queue # <<>> /\ \A i \in 1 .. Len(queue) : queue[i] = Len(received) + i
        BY <2>2, <2>t DEF Deliver, Line
      <4>2. Len(received) \in Nat /\ queue \in Seq(Known) /\ Past <= saved /\ saved \in Nat
        BY <2>t, Sizing DEF Typed, Line
      <4>3. Head(queue) = Len(received) + 1 /\ Len(queue) \in Nat \ {0}
        BY <4>1, <4>2, LineShrinks
      <4>4. Flag(inReplay) \in Nat /\ Flag(inLive) \in Nat
        BY DEF Flag
      <4> QED
        BY <4>2, <4>3, <4>4 DEF Past
    <3>2. number' = number /\ seen' = Append(seen, Len(seen) + 1) /\ Len(seen) < number
      BY <2>0, <2>2, <3>1 DEF Deliver, run
    <3>3. Feed!Receive
      BY <3>2 DEF Feed!Receive
    <3> QED
      BY <3>3 DEF Feed!Next
  <2>3. CASE PublishEvent \/ Connect \/ Request \/ Disconnect
    <3>1. UNCHANGED <<saved, received>>
      BY <2>3 DEF PublishEvent, Connect, Request, Disconnect, run
    <3> QED
      BY <2>0, <3>1 DEF Feed!vars
  <2>4. CASE Session \/ Live
    <3>1. UNCHANGED <<saved, received>>
      BY <2>4 DEF Session, Live, Subscribe, Fetch, ReplayMark, ReplayQueue, ReplayDone,
                  LiveMark, LiveQueue, run
    <3> QED
      BY <2>0, <3>1 DEF Feed!vars
  <2>5. CASE UNCHANGED vars
    BY <2>0, <2>5 DEF vars, run, Feed!vars
  <2> QED
    BY <2>1, <2>2, <2>3, <2>4, <2>5 DEF Next
<1> QED
  BY <1>2, <1>3

\* With room for every event in the buffers and in a replay, the client of a behaviour
\* without overlapping replays is handed the events in the order of root_seq, each of
\* them once and none left out, across any number of lost connections: EventFeed.
THEOREM ImplementsFeedSafety == ASSUME RoomForAll PROVE Spec => Feed!Spec
<1>1. Init => Feed!Init
  BY DEF Init, Feed!Init
<1>2. Spec => [](IInv /\ Ordered)
  BY InitInvariant, NextInvariant, NextOrder, PTL DEF Spec
<1> QED
  BY <1>1, <1>2, StepsOfTheFeed, PTL DEF Spec, Feed!Spec
=============================================================================
