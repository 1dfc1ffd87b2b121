------------------------- MODULE AgentRuntimeProofs -------------------------
(***************************************************************************)
(* The agent's side, for every batch of calls, every number of turns,      *)
(* segments, tasks, events and callers, and every capacity of the queues.  *)
(* Each part has an invariant of its own; a step of one leaves the others  *)
(* alone.                                                                  *)
(***************************************************************************)
EXTENDS MCAgentRuntime, WellFoundedInduction, TLAPS

-----------------------------------------------------------------------------
(* The line to the Gateway                                                 *)

Whats == {"none", "acquire", "release", "event", "reply", "call", "granted", "refused", "released"}
Lines == [what : Whats, who : Askers \union Callers \union {"none"}]
On(ways, line) == \E i \in DOMAIN ways : ways[i] = line
Once(way, line) == \A i, j \in DOMAIN way : way[i] = line /\ way[j] = line => i = j
\* A request is on its way to the Gateway, or handled there.
Sent(line) == rhold = line \/ granting = line \/ On(out, line)
\* An answer is on its way back.
Back(line) == chold = line \/ On(in, line)
Acquire(a) == Channel!Line("acquire", a)
Given(a) == Channel!Line("release", a)
Granted(a) == Channel!Line("granted", a)

ChannelTypes ==
    /\ {rhold, chold, serving, granting} \subseteq Lines
    /\ out \in Seq(Lines) /\ in \in Seq(Lines)
    /\ asker \in [Askers -> {"idle", "asking", "holding", "returning", "done", "failed"}]
\* A goroutine asks once: its request is in one place, or answered.
AskedOnce(a) ==
    /\ rhold = Acquire(a) => granting # Acquire(a) /\ ~On(out, Acquire(a))
    /\ granting = Acquire(a) => ~On(out, Acquire(a))
    /\ Once(out, Acquire(a))
    /\ Back(Granted(a)) => ~Sent(Acquire(a))
    /\ asker[a] = "idle" => ~Sent(Acquire(a)) /\ ~Back(Granted(a))
    /\ asker[a] \in {"holding", "returning", "done"} => ~Sent(Acquire(a))
\* What is granted is counted until the release arrives.
CountedUntilBack(a) ==
    /\ Sent(Given(a)) => asker[a] \in {"returning", "done"}
    /\ Back(Granted(a)) /\ asker[a] = "asking" => a \in held
    /\ asker[a] = "holding" => a \in held
    /\ a \in held /\ asker[a] \in {"returning", "done"} => Sent(Given(a))
ChannelInv == ChannelTypes /\ \A a \in Askers : AskedOnce(a) /\ CountedUntilBack(a)

-----------------------------------------------------------------------------
(* Tasks of child processes                                                *)

EventKinds == {"text", "fallback", "usage", "completed", "failed", "cancelled"}
Events == [task : Nat, no : Nat, kind : EventKinds]
Stages == {"idle", "permit", "process", "call", "watch", "cancelling", "ended"}
Held == IF sleeper = "holding" THEN 1 ELSE 0
\* The events between the child and the capture, the oldest first.
Behind == Len(chan) + Held
Waiting == Behind + Len(queue)
Event(i) == IF i <= Len(chan) THEN chan[i] ELSE IF i <= Behind THEN hand ELSE queue[i - Behind]

TaskTypes ==
    /\ task \in Nat /\ busy \in Nat /\ wrote \in Nat /\ stage \in Stages
    /\ kind \in {"none", "worker", "planner", "skill"} /\ (Task!InHand => kind # "none")
    /\ pooled \in BOOLEAN
    /\ chan \in Seq(Events) /\ queue \in Seq(Events)
    /\ sleeper \in {"asleep", "awake", "holding"} /\ (sleeper = "holding" => hand \in Events)
    /\ saw \in Seq(Nat) /\ texts \subseteq {"text", "fallback"}
\* What is under way is the task's own, and the finish event is the last.
OwnEvents ==
    /\ \A i \in 1 .. Waiting :
          /\ Event(i).task = task
          /\ Event(i).kind = "usage" <=> Event(i).no = 0
          /\ Event(i).kind \in Task!Statuses => i = Waiting /\ busy = 0
    /\ busy # 0 => busy = task /\ stage \in {"watch", "cancelling"}
    /\ stage \notin {"watch", "cancelling"} => Waiting = 0
\* The critical events that were not seen are under way, in order and once.
NoGap ==
    /\ \A i \in 1 .. Len(saw) : saw[i] = i
    /\ stage \in {"permit", "process", "call"} => saw = <<>> /\ texts = {}
    /\ stage = "call" => wrote = 0
    /\ texts # {} => Len(saw) >= 1
    /\ stage \in {"watch", "cancelling"} =>
          /\ Len(saw) <= wrote
          /\ \A i \in 1 .. Waiting : Event(i).no # 0 => Event(i).no \in Len(saw) + 1 .. wrote
          /\ \A i, j \in 1 .. Waiting : i < j /\ Event(i).no # 0 /\ Event(j).no # 0 =>
                Event(i).no < Event(j).no
          /\ \A n \in Len(saw) + 1 .. wrote : \E i \in 1 .. Waiting : Event(i).no = n
Reported ==
    /\ ~foreign
    /\ stage = "ended" /\ kind = "worker" /\ result = "ok" => Len(saw) >= 2
    /\ Task!InHand => result = "none" /\ record \notin {"completed", "failed"}
    /\ Task!RecordsAgree /\ Task!NothingForgotten
TaskInv == TaskTypes /\ OwnEvents /\ NoGap /\ Reported

-----------------------------------------------------------------------------
(* A root run                                                              *)

Before == {"idle", "prelude", "spawn"}
Segment == {"turn", "model", "batch", "report"}
Behindhand == {"report", "decide", "close", "settle", "finish"}
GoalRows == [id : Nat, status : {"none", "active", "ended", "paused"}, used : Nat, counted : BOOLEAN]
Snapshots == [id : Nat, bound : BOOLEAN, was : BOOLEAN, over : BOOLEAN, used : Nat]

RunTypes ==
    /\ turn \in Nat /\ seg \in Nat /\ spent \in Nat /\ limit \in {PerSegment, TurnLimit}
    /\ row \in GoalRows /\ goal \in Snapshots
    /\ batch \in Seq(Root!CallKinds) /\ next \in Nat \ {0} /\ group \in Nat
    /\ calls \in [DOMAIN batch -> {"waiting", "running", "settled"}]
    /\ {counter, written, reused, after, refused} \subseteq BOOLEAN
\* What runs is in the group that is open, one call or adjacent workers.
Groups ==
    /\ at # "batch" => batch = <<>>
    /\ Root!Working \subseteq next .. group /\ group <= Len(batch)
    /\ next < group => \A k \in next .. group : batch[k] = "worker"
\* A call stays open only if the loop was told to stop before it ended.
Opened ==
    /\ at = "batch" /\ ~Root!LoopDone => open = Root!Working
    /\ at \in Before \union {"loop", "turn", "model"} => open = {}
    /\ at \in Behindhand /\ open # {} => reason \in {"cancelled", "budget"}
    /\ at \in Before => reason = "none"
    /\ at = "exhaust" \/ reason = "budget" => clock = "over"
    /\ at = "finish" => reason # "cancelled"
\* The last event of a run that was not cancelled.
LastWord ==
    /\ at \in Before => planner = "none"
    /\ at = "finish" => Root!PlannerOver
    /\ at # "gone" => ~reused /\ (written => counter)
    /\ final = "none" => ~after
    /\ final # "none" => at \in {"leave", "gone"}
    /\ final \in {"completed", "failed"} =>
          /\ Root!PlannerOver /\ ~after /\ ~reused
          /\ open = {} \/ (final = "failed" /\ clock = "over")
\* What the run knows of its goal.
Binding ==
    /\ row.status = "active" => row.id # 0
    /\ goal.bound => goal.id # 0 /\ heard = "active"
    /\ at = "loop" /\ seg > 0 => goal.bound
    /\ at = "turn" /\ turn = 0 /\ seg > 0 => goal.bound
    /\ at \in Segment => turn <= limit /\ ~row.counted /\ (seg > 0 => limit = PerSegment)
    /\ at = "model" => turn < limit
    /\ at = "batch" => turn > 0
    /\ at \in Before => seg = 0 /\ spent = 0
\* What the turns of the goal add up to.
Budget ==
    /\ row.id # goal.id => spent = 0 \/ at \in {"settle", "finish", "leave", "gone"}
    /\ ~refused =>
          /\ row.status = "active" => row.used = spent
          /\ goal.bound /\ row.id = goal.id => spent <= goal.used
          /\ at \in Before \union Segment \union {"loop"} =>
                IF seg = 0 THEN spent = 0 ELSE spent < Total
          /\ spent < Total + PerSegment + (IF seg = 0 THEN TurnLimit ELSE 0)
RootInv == RunTypes /\ Groups /\ Opened /\ LastWord /\ Binding /\ Budget

-----------------------------------------------------------------------------
(* Proofs: the line to the Gateway                                         *)

\* A step is one of the part it belongs to.
LEMMA OnePartMoves ==
    ASSUME [Next]_vars
    PROVE  /\ Root!Next \/ UNCHANGED r_vars
           /\ Task!TaskNext \/ UNCHANGED t_vars
           /\ Channel!ChannelNext \/ UNCHANGED c_vars
  BY DEF Next, vars

\* A line is on a way that grew, or shrank, when it was the new or the old one or
\* stood there before.
LEMMA OnAWay ==
    ASSUME NEW way \in Seq(Lines), NEW line
    PROVE  /\ \A last \in Lines : On(Append(way, last), line) <=> On(way, line) \/ last = line
           /\ way # <<>> => (On(way, line) <=> On(Tail(way), line) \/ Head(way) = line)
<1>1. ASSUME NEW last \in Lines PROVE On(Append(way, last), line) <=> On(way, line) \/ last = line
  <2> DEFINE longer == Append(way, last)
  <2>1. /\ DOMAIN longer = 1 .. Len(way) + 1 /\ DOMAIN way = 1 .. Len(way) /\ Len(way) \in Nat
        /\ longer[Len(way) + 1] = last
        /\ \A i \in 1 .. Len(way) : longer[i] = way[i]
    OBVIOUS
  <2> HIDE DEF longer
  <2>2. \A i \in 1 .. Len(way) + 1 : i \in 1 .. Len(way) \/ i = Len(way) + 1
    BY <2>1
  <2>3. Len(way) + 1 \in 1 .. Len(way) + 1 /\ 1 .. Len(way) \subseteq 1 .. Len(way) + 1
    BY <2>1
  <2> QED
    BY <2>1, <2>2, <2>3 DEF On, longer
<1>2. ASSUME way # <<>> PROVE On(way, line) <=> On(Tail(way), line) \/ Head(way) = line
  <2> DEFINE rest == Tail(way)
  <2>1. /\ Len(way) \in Nat \ {0} /\ DOMAIN way = 1 .. Len(way) /\ DOMAIN rest = 1 .. Len(way) - 1
        /\ Head(way) = way[1] /\ \A i \in 1 .. Len(way) - 1 : rest[i] = way[i + 1]
    BY <1>2
  <2> HIDE DEF rest
  <2>2. \A i \in 1 .. Len(way) - 1 : i + 1 \in 1 .. Len(way)
    BY <2>1
  <2>3. \A i \in 1 .. Len(way) : i = 1 \/ (i - 1 \in 1 .. Len(way) - 1 /\ i = (i - 1) + 1)
    BY <2>1
  <2>4. 1 \in 1 .. Len(way)
    BY <2>1
  <2>5. ASSUME On(way, line) PROVE On(rest, line) \/ Head(way) = line
    <3>1. PICK i \in 1 .. Len(way) : way[i] = line
      BY <2>1, <2>5 DEF On
    <3>2. CASE i = 1
      BY <2>1, <3>1, <3>2
    <3>3. CASE i # 1
      <4>1. i - 1 \in 1 .. Len(way) - 1 /\ rest[i - 1] = line
        BY <2>1, <2>3, <3>1, <3>3
      <4> QED
        BY <2>1, <4>1 DEF On
    <3> QED
      BY <3>2, <3>3
  <2>6. On(rest, line) \/ Head(way) = line => On(way, line)
    BY <2>1, <2>2, <2>4 DEF On
  <2> QED
    BY <2>5, <2>6 DEF rest
<1> QED
  BY <1>1, <1>2

\* A line stands once on a way it was not on before, and no more when it was read.
LEMMA OnceOnAWay ==
    ASSUME NEW way \in Seq(Lines), NEW line, Once(way, line)
    PROVE  /\ \A last \in Lines : (last = line => ~On(way, line)) => Once(Append(way, last), line)
           /\ way # <<>> => Once(Tail(way), line)
           /\ way # <<>> /\ Head(way) = line => ~On(Tail(way), line)
<1>1. ASSUME NEW last \in Lines, last = line => ~On(way, line) PROVE Once(Append(way, last), line)
  <2> DEFINE longer == Append(way, last)
  <2>1. /\ DOMAIN longer = 1 .. Len(way) + 1 /\ DOMAIN way = 1 .. Len(way) /\ Len(way) \in Nat
        /\ longer[Len(way) + 1] = last
        /\ \A i \in 1 .. Len(way) : longer[i] = way[i]
    OBVIOUS
  <2> HIDE DEF longer
  <2>2. \A i \in 1 .. Len(way) + 1 : i \in 1 .. Len(way) \/ i = Len(way) + 1
    BY <2>1
  <2> QED
    BY <1>1, <2>1, <2>2 DEF Once, On, longer
<1>2. ASSUME way # <<>>
      PROVE  Once(Tail(way), line) /\ (Head(way) = line => ~On(Tail(way), line))
  <2> DEFINE rest == Tail(way)
  <2>1. /\ Len(way) \in Nat \ {0} /\ DOMAIN way = 1 .. Len(way) /\ DOMAIN rest = 1 .. Len(way) - 1
        /\ Head(way) = way[1] /\ \A i \in 1 .. Len(way) - 1 : rest[i] = way[i + 1]
    BY <1>2
  <2> HIDE DEF rest
  <2>2. \A i \in 1 .. Len(way) - 1 : i + 1 \in 1 .. Len(way) /\ i + 1 # 1 /\ i \in Nat
    BY <2>1
  <2>3. 1 \in 1 .. Len(way)
    BY <2>1
  <2>4. \A i, j \in 1 .. Len(way) - 1 : i + 1 = j + 1 => i = j
    BY <2>2
  <2>5. Once(rest, line)
    BY <2>1, <2>2, <2>4 DEF Once
  <2>6. Head(way) = line => ~On(rest, line)
    BY <2>1, <2>2, <2>3 DEF Once, On
  <2> QED
    BY <2>5, <2>6 DEF rest
<1> QED
  BY <1>1, <1>2

\* The channel keeps its invariant.
LEMMA ChannelKeeps ==
    ASSUME ChannelInv, Channel!ChannelNext \/ UNCHANGED c_vars
    PROVE  ChannelInv'
<1> USE DEF Channel!Line, Channel!Nothing, Acquire, Given, Granted
<1>t. /\ rhold \in Lines /\ chold \in Lines /\ serving \in Lines /\ granting \in Lines
      /\ out \in Seq(Lines) /\ in \in Seq(Lines)
      /\ asker \in [Askers -> {"idle", "asking", "holding", "returning", "done", "failed"}]
  BY DEF ChannelInv, ChannelTypes
<1>i. \A a \in Askers : AskedOnce(a) /\ CountedUntilBack(a)
  BY DEF ChannelInv
<1>n. Channel!Nothing \in Lines
  BY DEF Lines, Whats
<1>k. Askers \intersect Callers = {}
  BY ChannelAssumption DEF Channel!ChannelAssumption
<1> DEFINE Goal == ChannelInv'
<1>c. ASSUME ChannelTypes', \A a \in Askers : AskedOnce(a)' /\ CountedUntilBack(a)'
      PROVE  Goal
  BY <1>c DEF ChannelInv
<1>o. \A line : out # <<>> => (On(out, line) <=> On(Tail(out), line) \/ Head(out) = line)
  BY <1>t, OnAWay
<1>r. \A line : in # <<>> => (On(in, line) <=> On(Tail(in), line) \/ Head(in) = line)
  BY <1>t, OnAWay
<1>h. /\ out # <<>> => Tail(out) \in Seq(Lines) /\ Head(out) \in Lines
      /\ in # <<>> => Tail(in) \in Seq(Lines) /\ Head(in) \in Lines
  BY <1>t
<1> HIDE DEF Goal
<1>1. ASSUME Channel!RuntimeWrites PROVE Goal
  <2>1. /\ rhold # Channel!Nothing /\ out' = Append(out, rhold) /\ rhold' = Channel!Nothing
        /\ UNCHANGED <<in, chold, serving, granting, asker, held>>
    BY <1>1 DEF Channel!RuntimeWrites
  <2>2. ChannelTypes'
    BY <1>t, <1>n, <2>1 DEF ChannelTypes
  <2>3. \A line : On(out', line) <=> On(out, line) \/ rhold = line
    BY <1>t, <2>1, OnAWay
  <2>4. ASSUME NEW a \in Askers PROVE AskedOnce(a)' /\ CountedUntilBack(a)'
    <3>1. Once(out', Acquire(a))
      BY <1>t, <1>i, <2>1, OnceOnAWay DEF AskedOnce
    <3>2. Once(out, Acquire(a))'
      BY <3>1
    <3>3. AskedOnce(a)'
      BY <1>i, <2>1, <2>3, <3>2 DEF AskedOnce, Sent, Back
    <3>4. CountedUntilBack(a)'
      BY <1>i, <2>1, <2>3 DEF CountedUntilBack, Sent, Back
    <3> QED
      BY <3>3, <3>4
  <2> QED
    BY <1>c, <2>2, <2>4
<1>2. ASSUME Channel!ClientWrites PROVE Goal
  <2>1. /\ chold # Channel!Nothing /\ in' = Append(in, chold) /\ chold' = Channel!Nothing
        /\ UNCHANGED <<out, rhold, serving, granting, asker, held>>
    BY <1>2 DEF Channel!ClientWrites
  <2>2. ChannelTypes'
    BY <1>t, <1>n, <2>1 DEF ChannelTypes
  <2>3. \A line : On(in', line) <=> On(in, line) \/ chold = line
    BY <1>t, <2>1, OnAWay
  <2>4. ASSUME NEW a \in Askers PROVE AskedOnce(a)' /\ CountedUntilBack(a)'
    BY <1>i, <2>1, <2>3 DEF AskedOnce, CountedUntilBack, Sent, Back
  <2> QED
    BY <1>c, <2>2, <2>4
<1>3. ASSUME NEW b \in Askers, Channel!Ask(b) PROVE Goal
  <2>1. /\ rhold = Channel!Nothing /\ rhold' = Acquire(b) /\ asker[b] = "idle"
        /\ asker' = [asker EXCEPT ![b] = "asking"]
        /\ UNCHANGED <<out, in, chold, serving, granting, held>>
    BY <1>3 DEF Channel!Ask, Channel!RuntimeLocks
  <2>2. ChannelTypes'
    BY <1>t, <2>1 DEF ChannelTypes, Lines, Whats
  <2>3. ASSUME NEW a \in Askers PROVE AskedOnce(a)' /\ CountedUntilBack(a)'
    <3>1. CASE a = b
      BY <1>i, <1>t, <2>1, <3>1 DEF AskedOnce, CountedUntilBack, Sent, Back
    <3>2. CASE a # b
      BY <1>i, <1>t, <2>1, <3>2 DEF AskedOnce, CountedUntilBack, Sent, Back
    <3> QED
      BY <3>1, <3>2
  <2> QED
    BY <1>c, <2>2, <2>3
<1>4. ASSUME NEW b \in Askers, Channel!GiveBack(b) PROVE Goal
  <2>1. /\ rhold = Channel!Nothing /\ rhold' = Given(b) /\ asker[b] = "holding"
        /\ asker' = [asker EXCEPT ![b] = "returning"]
        /\ UNCHANGED <<out, in, chold, serving, granting, held>>
    BY <1>4 DEF Channel!GiveBack, Channel!RuntimeLocks
  <2>2. ChannelTypes'
    BY <1>t, <2>1 DEF ChannelTypes, Lines, Whats
  <2>3. ASSUME NEW a \in Askers PROVE AskedOnce(a)' /\ CountedUntilBack(a)'
    <3>1. CASE a = b
      BY <1>i, <1>t, <2>1, <3>1 DEF AskedOnce, CountedUntilBack, Sent, Back
    <3>2. CASE a # b
      BY <1>i, <1>t, <2>1, <3>2 DEF AskedOnce, CountedUntilBack, Sent, Back
    <3> QED
      BY <3>1, <3>2
  <2> QED
    BY <1>c, <2>2, <2>3
<1>5. ASSUME NEW b \in Askers, Channel!AskerGivesUp(b) PROVE Goal
  <2>1. /\ asker[b] \in {"asking", "returning"}
        /\ asker' = [asker EXCEPT ![b] = IF asker[b] = "asking" THEN "failed" ELSE "done"]
        /\ UNCHANGED <<out, in, rhold, chold, serving, granting, held>>
    BY <1>5 DEF Channel!AskerGivesUp
  <2>2. ChannelTypes'
    BY <1>t, <2>1 DEF ChannelTypes
  <2>3. ASSUME NEW a \in Askers PROVE AskedOnce(a)' /\ CountedUntilBack(a)'
    BY <1>i, <1>t, <2>1 DEF AskedOnce, CountedUntilBack, Sent, Back
  <2> QED
    BY <1>c, <2>2, <2>3
<1>6. ASSUME Channel!Announce PROVE Goal
  <2>1. /\ rhold = Channel!Nothing /\ rhold' = Channel!Line("event", "none")
        /\ UNCHANGED <<out, in, chold, serving, granting, asker, held>>
    BY <1>6 DEF Channel!Announce, Channel!RuntimeLocks
  <2>2. ChannelTypes'
    BY <1>t, <2>1 DEF ChannelTypes, Lines, Whats
  <2>3. ASSUME NEW a \in Askers PROVE AskedOnce(a)' /\ CountedUntilBack(a)'
    BY <1>i, <2>1 DEF AskedOnce, CountedUntilBack, Sent, Back
  <2> QED
    BY <1>c, <2>2, <2>3
<1>7. ASSUME Channel!ReadAnswer PROVE Goal
  <2> DEFINE b == Head(in).who
  <2>1. /\ in # <<>> /\ b \in Askers /\ in' = Tail(in)
        /\ asker' = [asker EXCEPT ![b] = Channel!Heard(b, Head(in).what)]
        /\ UNCHANGED <<out, rhold, chold, serving, granting, held>>
    BY <1>7 DEF Channel!ReadAnswer, Channel!RuntimeReads
  <2>2. Head(in) \in Lines
    BY <1>h, <2>1
  <2>h. /\ asker[b] = "asking" /\ Head(in) = Granted(b) => asker'[b] = "holding"
        /\ asker[b] = "asking" /\ Head(in) # Granted(b) => asker'[b] \in {"failed", "asking"}
        /\ asker[b] = "returning" => asker'[b] \in {"done", "returning"}
        /\ asker[b] \notin {"asking", "returning"} => asker'[b] = asker[b]
        /\ asker'[b] \in {"idle", "asking", "holding", "returning", "done", "failed"}
    <3>1. asker'[b] = Channel!Heard(b, Head(in).what)
      BY <1>t, <2>1
    <3>2. Head(in) = Granted(b) <=> Head(in).what = "granted"
      BY <2>2 DEF Lines
    <3>3. asker[b] \in {"idle", "asking", "holding", "returning", "done", "failed"}
      BY <1>t, <2>1
    <3> HIDE DEF b, Granted
    <3>4. CASE asker[b] = "asking"
      BY <3>1, <3>2, <3>4 DEF Channel!Heard
    <3>5. CASE asker[b] = "returning"
      BY <3>1, <3>5 DEF Channel!Heard
    <3>6. CASE asker[b] \notin {"asking", "returning"}
      BY <3>1, <3>3, <3>6 DEF Channel!Heard
    <3> QED
      BY <3>4, <3>5, <3>6
  <2>3. ChannelTypes'
    BY <1>t, <1>h, <2>1, <2>h DEF ChannelTypes
  <2>4. \A line : On(in, line) <=> On(in', line) \/ Head(in) = line
    BY <1>r, <2>1
  <2> HIDE DEF b
  <2>5. ASSUME NEW a \in Askers PROVE AskedOnce(a)' /\ CountedUntilBack(a)'
    <3>1. CASE a = b
      <4>1. /\ asker[a] = "asking" /\ Head(in) = Granted(a) => asker'[a] = "holding"
            /\ asker[a] = "asking" /\ Head(in) # Granted(a) => asker'[a] \in {"failed", "asking"}
            /\ asker[a] = "returning" => asker'[a] \in {"done", "returning"}
            /\ asker[a] \notin {"asking", "returning"} => asker'[a] = asker[a]
        BY <2>h, <3>1
      <4> HIDE DEF Granted
      <4>2. AskedOnce(a)'
        BY <1>i, <1>t, <2>1, <2>4, <4>1 DEF AskedOnce, Sent, Back
      <4>3. CountedUntilBack(a)'
        BY <1>i, <1>t, <2>1, <2>4, <4>1 DEF AskedOnce, CountedUntilBack, Sent, Back
      <4> QED
        BY <4>2, <4>3
    <3>2. CASE a # b
      <4>1. asker'[a] = asker[a]
        BY <1>t, <2>1, <3>2
      <4>2. AskedOnce(a)'
        BY <1>i, <2>1, <2>4, <4>1 DEF AskedOnce, Sent, Back
      <4>3. CountedUntilBack(a)'
        BY <1>i, <2>1, <2>4, <4>1 DEF CountedUntilBack, Sent, Back
      <4> QED
        BY <4>2, <4>3
    <3> QED
      BY <3>1, <3>2
  <2> QED
    BY <1>c, <2>3, <2>5
<1>8. ASSUME Channel!ReadRequest PROVE Goal
  <2>1. /\ in # <<>> /\ in' = Tail(in) /\ serving' = Head(in)
        /\ UNCHANGED <<out, rhold, chold, granting, asker, held>>
    BY <1>8 DEF Channel!ReadRequest, Channel!RuntimeReads
  <2>2. ChannelTypes'
    BY <1>t, <1>h, <2>1 DEF ChannelTypes
  <2>3. \A line : On(in', line) => On(in, line)
    BY <1>r, <2>1
  <2>4. ASSUME NEW a \in Askers PROVE AskedOnce(a)' /\ CountedUntilBack(a)'
    BY <1>i, <2>1, <2>3 DEF AskedOnce, CountedUntilBack, Sent, Back
  <2> QED
    BY <1>c, <2>2, <2>4
<1>9. ASSUME Channel!Reply PROVE Goal
  <2>1. /\ rhold = Channel!Nothing /\ rhold' = Channel!Line("reply", serving.who)
        /\ serving' = Channel!Nothing
        /\ UNCHANGED <<out, in, chold, granting, asker, held>>
    BY <1>9 DEF Channel!Reply, Channel!RuntimeLocks
  <2>2. ChannelTypes'
    BY <1>t, <1>n, <2>1 DEF ChannelTypes, Lines, Whats
  <2>3. ASSUME NEW a \in Askers PROVE AskedOnce(a)' /\ CountedUntilBack(a)'
    BY <1>i, <2>1 DEF AskedOnce, CountedUntilBack, Sent, Back
  <2> QED
    BY <1>c, <2>2, <2>3
<1>10. ASSUME NEW b \in Callers, Channel!Call(b) PROVE Goal
  <2>1. /\ chold = Channel!Nothing /\ chold' = Channel!Line("call", b)
        /\ UNCHANGED <<out, in, rhold, serving, granting, asker, held>>
    BY <1>10 DEF Channel!Call, Channel!ClientLocks
  <2>2. ChannelTypes'
    BY <1>t, <2>1 DEF ChannelTypes, Lines, Whats
  <2>3. ASSUME NEW a \in Askers PROVE AskedOnce(a)' /\ CountedUntilBack(a)'
    BY <1>i, <2>1 DEF AskedOnce, CountedUntilBack, Sent, Back
  <2> QED
    BY <1>c, <2>2, <2>3
<1>11. ASSUME Channel!ReadEvent \/ Channel!ReadReply PROVE Goal
  <2>1. /\ out # <<>> /\ out' = Tail(out) /\ Head(out).what \in {"event", "reply"}
        /\ UNCHANGED <<in, rhold, chold, serving, granting, asker, held>>
    BY <1>11 DEF Channel!ReadEvent, Channel!ReadReply, Channel!GatewayReads
  <2>2. ChannelTypes'
    BY <1>t, <1>h, <2>1 DEF ChannelTypes
  <2>3. \A line : On(out, line) <=> On(out', line) \/ Head(out) = line
    BY <1>o, <2>1
  <2>4. ASSUME NEW a \in Askers PROVE AskedOnce(a)' /\ CountedUntilBack(a)'
    <3>1. Once(out', Acquire(a))
      BY <1>t, <1>i, <2>1, OnceOnAWay DEF AskedOnce
    <3>2. Head(out) # Acquire(a) /\ Head(out) # Given(a)
      BY <2>1
    <3>3. AskedOnce(a)'
      BY <1>i, <2>1, <2>3, <3>1, <3>2 DEF AskedOnce, Sent, Back
    <3>4. CountedUntilBack(a)'
      BY <1>i, <2>1, <2>3, <3>2 DEF CountedUntilBack, Sent, Back
    <3> QED
      BY <3>3, <3>4
  <2> QED
    BY <1>c, <2>2, <2>4
<1>12. ASSUME Channel!ReadAsk PROVE Goal
  <2>1. /\ out # <<>> /\ out' = Tail(out) /\ granting = Channel!Nothing /\ granting' = Head(out)
        /\ UNCHANGED <<in, rhold, chold, serving, asker, held>>
    BY <1>12 DEF Channel!ReadAsk, Channel!GatewayReads
  <2>2. ChannelTypes'
    BY <1>t, <1>h, <2>1 DEF ChannelTypes
  <2>3. \A line : On(out, line) <=> On(out', line) \/ Head(out) = line
    BY <1>o, <2>1
  <2>4. ASSUME NEW a \in Askers PROVE AskedOnce(a)' /\ CountedUntilBack(a)'
    <3>1. Once(out', Acquire(a)) /\ (Head(out) = Acquire(a) => ~On(out', Acquire(a)))
      BY <1>t, <1>i, <2>1, OnceOnAWay, ZenonT(40) DEF AskedOnce
    <3>3. AskedOnce(a)'
      BY <1>i, <2>1, <2>3, <3>1 DEF AskedOnce, Sent, Back
    <3>4. CountedUntilBack(a)'
      BY <1>i, <2>1, <2>3 DEF CountedUntilBack, Sent, Back
    <3> QED
      BY <3>3, <3>4
  <2> QED
    BY <1>c, <2>2, <2>4
<1>13. ASSUME Channel!Grant PROVE Goal
  <2>1. /\ granting.what = "acquire" /\ chold = Channel!Nothing
        /\ chold' = Channel!Line("granted", granting.who) /\ granting' = Channel!Nothing
        /\ held' = held \union {granting.who}
        /\ UNCHANGED <<out, in, rhold, serving, asker>>
    BY <1>13 DEF Channel!Grant, Channel!ClientLocks
  <2>2. ChannelTypes'
    BY <1>t, <1>n, <2>1 DEF ChannelTypes, Lines, Whats
  <2>3. ASSUME NEW a \in Askers PROVE AskedOnce(a)' /\ CountedUntilBack(a)'
    <3>1. granting.who = a <=> granting = Acquire(a)
      BY <1>t, <2>1 DEF Lines
    <3>2. chold' = Granted(a) <=> granting = Acquire(a)
      BY <2>1, <3>1
    <3>3. granting # Given(a) /\ granting' # Acquire(a) /\ granting' # Given(a)
      BY <2>1
    <3>4. chold # Granted(a)
      BY <2>1
    <3> HIDE DEF Acquire, Granted, Given
    <3>5. AskedOnce(a)'
      BY <1>i, <2>1, <3>2, <3>3, <3>4 DEF AskedOnce, Sent, Back
    <3>6. CountedUntilBack(a)'
      BY <1>i, <2>1, <3>1, <3>2, <3>3, <3>4 DEF AskedOnce, CountedUntilBack, Sent, Back
    <3> QED
      BY <3>5, <3>6
  <2> QED
    BY <1>c, <2>2, <2>3
<1>14. ASSUME Channel!Refuse PROVE Goal
  <2>1. /\ granting.what = "acquire" /\ chold = Channel!Nothing
        /\ chold' = Channel!Line("refused", granting.who) /\ granting' = Channel!Nothing
        /\ UNCHANGED <<out, in, rhold, serving, asker, held>>
    BY <1>14 DEF Channel!Refuse, Channel!ClientLocks
  <2>2. ChannelTypes'
    BY <1>t, <1>n, <2>1 DEF ChannelTypes, Lines, Whats
  <2>3. ASSUME NEW a \in Askers PROVE AskedOnce(a)' /\ CountedUntilBack(a)'
    BY <1>i, <2>1 DEF AskedOnce, CountedUntilBack, Sent, Back
  <2> QED
    BY <1>c, <2>2, <2>3
<1>15. ASSUME Channel!Release PROVE Goal
  <2>1. /\ granting.what = "release" /\ chold = Channel!Nothing
        /\ chold' = Channel!Line("released", granting.who) /\ granting' = Channel!Nothing
        /\ held' = held \ {granting.who}
        /\ UNCHANGED <<out, in, rhold, serving, asker>>
    BY <1>15 DEF Channel!Release, Channel!ClientLocks
  <2>2. ChannelTypes'
    BY <1>t, <1>n, <2>1 DEF ChannelTypes, Lines, Whats
  <2>3. ASSUME NEW a \in Askers PROVE AskedOnce(a)' /\ CountedUntilBack(a)'
    <3>1. granting.who = a <=> granting = Given(a)
      BY <1>t, <2>1 DEF Lines
    <3>2. chold' # Granted(a) /\ chold # Granted(a) /\ granting # Acquire(a)
      BY <2>1
    <3>3. granting' # Acquire(a) /\ granting' # Given(a)
      BY <2>1
    <3> HIDE DEF Acquire, Granted, Given
    <3>5. AskedOnce(a)'
      BY <1>i, <2>1, <3>2, <3>3 DEF AskedOnce, Sent, Back
    <3>6. CountedUntilBack(a)'
      BY <1>i, <2>1, <3>1, <3>2, <3>3 DEF AskedOnce, CountedUntilBack, Sent, Back
    <3> QED
      BY <3>5, <3>6
  <2> QED
    BY <1>c, <2>2, <2>3
<1>16. ASSUME UNCHANGED <<out, in, rhold, chold, serving, granting, asker, held>> PROVE Goal
  <2>1. ChannelTypes'
    BY <1>t, <1>16 DEF ChannelTypes
  <2>2. ASSUME NEW a \in Askers PROVE AskedOnce(a)' /\ CountedUntilBack(a)'
    BY <1>i, <1>16 DEF AskedOnce, CountedUntilBack, Sent, Back
  <2> QED
    BY <1>c, <2>1, <2>2
<1>17. ASSUME \/ Channel!OthersTake \/ Channel!OthersGive \/ UNCHANGED c_vars
              \/ \E b \in Callers : Channel!CallerGivesUp(b)
       PROVE  Goal
  BY <1>16, <1>17 DEF Channel!OthersTake, Channel!OthersGive, Channel!CallerGivesUp, c_vars
<1>18. Goal
  BY <1>1, <1>2, <1>3, <1>4, <1>5, <1>6, <1>7, <1>8, <1>9, <1>10, <1>11, <1>12, <1>13, <1>14,
     <1>15, <1>17 DEF Channel!ChannelNext, Channel!Runs
<1> QED
  BY <1>18 DEF Goal

\* A behaviour starts with nothing on the way.
LEMMA ChannelStarts ==
    ASSUME Channel!Init
    PROVE  ChannelInv
<1>1. /\ out = <<>> /\ in = <<>> /\ held = {}
      /\ rhold = Channel!Nothing /\ chold = Channel!Nothing
      /\ serving = Channel!Nothing /\ granting = Channel!Nothing
      /\ asker = [a \in Askers |-> "idle"]
  BY DEF Channel!Init
<1>2. Channel!Nothing \in Lines
  BY DEF Lines, Whats, Channel!Nothing, Channel!Line
<1>3. ChannelTypes
  BY <1>1, <1>2 DEF ChannelTypes
<1>4. ASSUME NEW a \in Askers PROVE AskedOnce(a) /\ CountedUntilBack(a)
  BY <1>1 DEF AskedOnce, CountedUntilBack, Sent, Back, On, Once, Acquire, Given, Granted,
     Channel!Nothing, Channel!Line
<1> QED
  BY <1>3, <1>4 DEF ChannelInv

-----------------------------------------------------------------------------
(* Proofs: a root run                                                      *)

\* Which steps count turns and segments.
LEMMA LoopMoves ==
    ASSUME Root!Next
    PROVE  \/ UNCHANGED <<turn, seg, limit>>
           \/ Root!StartSegment \/ Root!ModelFails \/ Root!ModelStops
           \/ (\E b \in Batches : Root!ModelCalls(b))
           \/ Root!Decide \/ Root!NoTimeLeft
  BY DEF Root!Next, Root!Run, Root!loop, Root!Stay, Root!Apart, Root!Accept, Root!Prelude, Root!Spawn,
     Root!StopLoop, Root!AskModel, Root!Speak, Root!TurnsUp, Root!OpenGroup, Root!CloseGroup,
     Root!EndBatch, Root!StartCall, Root!EndCall, Root!Ends, Root!GoalTool, Root!Report, Root!Exhaust,
     Root!NoReport, Root!CloseStream, Root!Settle, Root!EmitFinish, Root!Leave, Root!PlannerStarts,
     Root!PlannerEnds, Root!Cancel, Root!Expire, Root!GoalChanges

\* Which steps change the goal, its row or what was spent.
LEMMA GoalMoves ==
    ASSUME Root!Next
    PROVE  \/ UNCHANGED <<goal, row, heard, spent, refused>>
           \/ (\E spawns \in BOOLEAN : Root!Spawn(spawns))
           \/ Root!StartSegment \/ Root!Decide \/ Root!CloseStream
           \/ (\E i \in DOMAIN calls, told \in BOOLEAN : Root!GoalTool(i, told))
           \/ (\E done, told \in BOOLEAN : Root!Report(done, told) \/ Root!Exhaust(done, told))
           \/ (\E status \in {"ended", "paused"} : Root!GoalChanges(status))
  BY DEF Root!Next, Root!Run, Root!goals, Root!Apart, Root!Accept, Root!Prelude,
     Root!StopLoop, Root!AskModel, Root!Speak, Root!TurnsUp, Root!OpenGroup, Root!CloseGroup,
     Root!EndBatch, Root!StartCall, Root!EndCall, Root!ModelFails, Root!ModelStops, Root!ModelCalls,
     Root!NoReport, Root!NoTimeLeft, Root!Settle, Root!EmitFinish, Root!Leave, Root!PlannerStarts,
     Root!PlannerEnds, Root!Cancel, Root!Expire

\* Which steps are about calls; no other begins or ends a batch.
LEMMA ToolMoves ==
    ASSUME Root!Next
    PROVE  \/ UNCHANGED Root!tools /\ (at = "batch" <=> at' = "batch")
           \/ (\E b \in Batches : Root!ModelCalls(b))
           \/ Root!OpenGroup \/ Root!CloseGroup \/ Root!EndBatch
           \/ (\E i \in DOMAIN calls : Root!StartCall(i) \/ Root!Ends(i))
  BY AgentRunAssumption
     DEF Root!AgentRunAssumption, Root!Next, Root!Run, Root!Stay, Root!Apart, Root!Accept, Root!Prelude, Root!Spawn,
     Root!StopLoop, Root!AskModel, Root!Speak, Root!TurnsUp, Root!StartSegment, Root!EndSegment,
     Root!EndCall, Root!GoalTool, Root!Report, Root!Exhaust, Root!ModelFails, Root!ModelStops,
     Root!NoReport, Root!Decide, Root!NoTimeLeft, Root!CloseStream, Root!Settle, Root!EmitFinish,
     Root!Leave, Root!PlannerStarts, Root!PlannerEnds, Root!Cancel, Root!Expire, Root!GoalChanges

\* What a step says: nothing, an event, the last one, or it forgets the count.
LEMMA WordMoves ==
    ASSUME Root!Next
    PROVE  \/ Root!Silent \/ Root!Emit \/ Root!Leave
           \/ (\E status \in {"cancelled", "failed", "completed"} : Root!Finish(status))
<1> USE DEF Root!Silent, Root!EmitUnless, Root!Synthesize
<1>1. CASE \E p \in Preludes : Root!Prelude(p)
  BY <1>1, AgentRunAssumption DEF Root!AgentRunAssumption, Root!Prelude
<1>2. CASE Root!Settle \/ Root!EmitFinish \/ Root!Leave
  BY <1>2 DEF Root!Settle, Root!EmitFinish
<1>3. CASE \E i \in DOMAIN calls :
          \/ Root!StartCall(i) \/ Root!EndCall(i) \/ \E told \in BOOLEAN : Root!GoalTool(i, told)
  BY <1>3 DEF Root!StartCall, Root!EndCall, Root!GoalTool, Root!Ends
<1>4. CASE \/ Root!AskModel \/ Root!Speak \/ Root!ModelFails \/ Root!ModelStops \/ Root!TurnsUp
           \/ (\E b \in Batches : Root!ModelCalls(b)) \/ Root!CloseStream
           \/ Root!PlannerStarts \/ Root!PlannerEnds
  BY <1>4 DEF Root!AskModel, Root!Speak, Root!ModelFails, Root!ModelStops, Root!TurnsUp,
     Root!ModelCalls, Root!CloseStream, Root!PlannerStarts, Root!PlannerEnds, Root!wire
<1>5. CASE \/ Root!Accept \/ (\E spawns \in BOOLEAN : Root!Spawn(spawns)) \/ Root!StartSegment
           \/ Root!StopLoop \/ Root!OpenGroup \/ Root!CloseGroup \/ Root!EndBatch
           \/ (\E done, told \in BOOLEAN : Root!Report(done, told) \/ Root!Exhaust(done, told))
           \/ Root!NoReport \/ Root!Decide \/ Root!NoTimeLeft
           \/ Root!Cancel \/ Root!Expire \/ \E status \in {"ended", "paused"} : Root!GoalChanges(status)
  BY <1>5 DEF Root!Accept, Root!Spawn, Root!StartSegment, Root!StopLoop, Root!OpenGroup,
     Root!CloseGroup, Root!EndBatch, Root!Report, Root!Exhaust, Root!NoReport, Root!Decide,
     Root!NoTimeLeft, Root!Cancel, Root!Expire, Root!GoalChanges, Root!wire
<1> QED
  BY <1>1, <1>2, <1>3, <1>4, <1>5 DEF Root!Next, Root!Run

\* A set of numbers has a least one.
LEMMA Least ==
    ASSUME NEW T, T \subseteq Nat, T # {}
    PROVE  \E n \in T : \A k \in T : n <= k
<1> DEFINE R == {p \in Nat \X Nat : p[1] < p[2]}
<1>1. OpToRel(<, Nat) = R
  BY DEF OpToRel
<1>2. IsWellFoundedOn(R, Nat)
  BY <1>1, NatLessThanWellFounded
<1> HIDE DEF R
<1>3. PICK n \in T : \A k \in T : ~(<<k, n>> \in R)
  BY <1>2, WFMin
<1>4. \A k \in T : ~(k < n)
  BY <1>3 DEF R
<1> QED
  BY <1>4

\* A group is one call or adjacent workers, and does not pass the end of the batch.
LEMMA GroupIsAdjacent ==
    ASSUME batch \in Seq(Root!CallKinds), NEW i \in 1 .. Len(batch)
    PROVE  /\ Root!GroupEnd(i) \in i .. Len(batch)
           /\ Root!GroupEnd(i) = i \/ \A k \in i .. Root!GroupEnd(i) : batch[k] = "worker"
<1> DEFINE T == {e \in i .. Len(batch) : e = Len(batch) \/ batch[e + 1] # "worker"}
           Good(e) == /\ \A k \in i .. e : batch[k] = "worker"
                      /\ e = Len(batch) \/ batch[e + 1] # "worker"
<1>1. CASE batch[i] # "worker"
  <2>1. Root!GroupEnd(i) = i
    BY <1>1 DEF Root!GroupEnd
  <2>2. i \in i .. Len(batch)
    OBVIOUS
  <2> QED
    BY <2>1, <2>2
<1>2. CASE batch[i] = "worker"
  <2>1. Len(batch) \in T /\ T \subseteq Nat
    OBVIOUS
  <2>2. PICK n \in T : \A k \in T : n <= k
    BY <2>1, Least
  <2>3. ASSUME NEW k \in i .. n, batch[k] # "worker" PROVE FALSE
    <3>1. k # i
      BY <1>2, <2>3
    <3>2. k - 1 \in i .. Len(batch) /\ (k - 1) + 1 = k /\ k - 1 < n /\ n \in Nat
      BY <3>1, <2>1, <2>2
    <3>3. k - 1 \in T
      BY <3>2, <2>3
    <3> QED
      BY <2>2, <3>2, <3>3
  <2>4. n \in i .. Len(batch) /\ Good(n)
    BY <2>2, <2>3
  <2> HIDE DEF Good
  <2>5. Root!GroupEnd(i) = CHOOSE e \in i .. Len(batch) : Good(e)
    BY <1>2 DEF Root!GroupEnd, Good
  <2>6. Root!GroupEnd(i) \in i .. Len(batch) /\ Good(Root!GroupEnd(i))
    BY <2>4, <2>5
  <2> QED
    BY <2>6 DEF Good
<1> QED
  BY <1>1, <1>2

\* Values keep their types.
LEMMA RunTypesKept ==
    ASSUME RootInv, Root!Next
    PROVE  RunTypes'
<1> USE DEF Root!loop, Root!tools, Root!goals, Root!wire, Root!Silent, Root!Emit, Root!EmitUnless,
        Root!Finish, Root!Stay, Root!Apart, Root!EndSegment, Root!Synthesize
<1>n. /\ TurnLimit \in Nat \ {0} /\ PerSegment \in Nat \ {0} /\ Total \in Nat \ {0}
      /\ MaxGoals \in Nat \ {0} /\ Batches \subseteq Seq(Root!CallKinds)
  BY AgentRunAssumption DEF Root!AgentRunAssumption
<1>t. /\ turn \in Nat /\ seg \in Nat /\ spent \in Nat /\ limit \in {PerSegment, TurnLimit}
      /\ row \in GoalRows /\ goal \in Snapshots
      /\ batch \in Seq(Root!CallKinds) /\ next \in Nat \ {0} /\ group \in Nat
      /\ calls \in [DOMAIN batch -> {"waiting", "running", "settled"}]
      /\ {counter, written, reused, after, refused} \subseteq BOOLEAN
  BY DEF RootInv, RunTypes
<1>1. turn' \in Nat /\ seg' \in Nat /\ limit' \in {PerSegment, TurnLimit}
  <2>1. CASE UNCHANGED <<turn, seg, limit>>
    BY <1>t, <2>1
  <2>2. CASE Root!StartSegment
    BY <1>t, <1>n, <2>2 DEF Root!StartSegment, Root!TurnsAllowed
  <2>3. CASE Root!ModelFails \/ Root!ModelStops \/ \E b \in Batches : Root!ModelCalls(b)
    BY <1>t, <2>3 DEF Root!ModelFails, Root!ModelStops, Root!ModelCalls
  <2>4. CASE Root!Decide \/ Root!NoTimeLeft
    BY <1>t, <2>4 DEF Root!Decide, Root!NoTimeLeft
  <2> QED
    BY <2>1, <2>2, <2>3, <2>4, LoopMoves
<1>2. spent' \in Nat /\ row' \in GoalRows /\ goal' \in Snapshots /\ refused' \in BOOLEAN
  <2> USE DEF GoalRows, Snapshots
  <2>p. Root!Past \in GoalRows
    BY <1>t, <1>n DEF Root!Past
  <2>l. \A r \in GoalRows, c \in BOOLEAN : Root!Learned(r, c) \in Snapshots
    BY <1>t DEF Root!Learned
  <2>c. \A c \in BOOLEAN : Root!Counted(row, turn, c) \in GoalRows
    <3>1. ASSUME NEW c \in BOOLEAN PROVE Root!Counted(row, turn, c) \in GoalRows
      <4> DEFINE used == IF row.counted THEN row.used ELSE row.used + turn
                 ends == row.status = "active" /\ (c \/ used >= Total)
      <4>1. used \in Nat
        BY <1>t
      <4> HIDE DEF used
      <4>2. Root!Counted(row, turn, c)
              = [row EXCEPT !.used = used, !.counted = TRUE, !.status = IF ends THEN "ended" ELSE @]
        BY DEF Root!Counted, used
      <4>3. (IF ends THEN "ended" ELSE row.status) \in {"none", "active", "ended", "paused"}
        BY <1>t
      <4> QED
        BY <1>t, <4>1, <4>2, <4>3
    <3> QED
      BY <3>1
  <2>1. CASE UNCHANGED <<goal, row, heard, spent, refused>>
    BY <1>t, <2>1
  <2>2. CASE \E spawns \in BOOLEAN : Root!Spawn(spawns)
    BY <1>t, <2>2 DEF Root!Spawn, Root!Seeded, Root!NoSnapshot
  <2>3. CASE Root!StartSegment \/ Root!Decide \/ Root!CloseStream
    <3>1. /\ row' = row \/ row' = [row EXCEPT !.counted = FALSE]
          /\ goal' = goal \/ goal' = Root!NoSnapshot
          /\ spent' = spent /\ refused' = refused
      BY <2>3 DEF Root!StartSegment, Root!Decide, Root!CloseStream
    <3>2. Root!NoSnapshot \in Snapshots
      BY DEF Root!NoSnapshot
    <3>3. [row EXCEPT !.counted = FALSE] \in GoalRows
      BY <1>t
    <3> HIDE DEF GoalRows, Snapshots
    <3> QED
      BY <1>t, <3>1, <3>2, <3>3
  <2>4. CASE \E status \in {"ended", "paused"} : Root!GoalChanges(status)
    BY <1>t, <2>4 DEF Root!GoalChanges
  <2>5. ASSUME NEW i \in DOMAIN calls, NEW told \in BOOLEAN, Root!GoalTool(i, told)
        PROVE  spent' \in Nat /\ row' \in GoalRows /\ goal' \in Snapshots /\ refused' \in BOOLEAN
    <3> DEFINE completes == batch[i] = "complete"
               changed == IF completes THEN [row EXCEPT !.status = "ended"]
                          ELSE [id |-> row.id + 1, status |-> "active", used |-> 0, counted |-> FALSE]
    <3>1. changed \in GoalRows
      BY <1>t
    <3>2. Root!Learned(changed, completes) \in Snapshots
      BY <2>l, <3>1
    <3>3. /\ row' = changed \/ row' = row
          /\ goal' = Root!Learned(changed, completes) \/ goal' = goal
          /\ spent' = 0 \/ spent' = spent
          /\ refused' = refused
      BY <2>5 DEF Root!GoalTool, Root!Told, Root!Untold
    <3> HIDE DEF changed, GoalRows, Snapshots
    <3> QED
      BY <1>t, <3>1, <3>2, <3>3
  <2>6. ASSUME NEW done \in BOOLEAN, NEW told \in BOOLEAN, Root!Report(done, told)
        PROVE  spent' \in Nat /\ row' \in GoalRows /\ goal' \in Snapshots /\ refused' \in BOOLEAN
    <3> DEFINE later == IF row.id = goal.id /\ done THEN Root!Counted(row, turn, FALSE) ELSE row
               seen == IF row.id = goal.id THEN later ELSE Root!Past
    <3>1. later \in GoalRows
      BY <1>t, <2>c
    <3>2. seen \in GoalRows
      BY <2>p, <3>1
    <3>3. Root!Learned(seen, FALSE) \in Snapshots
      BY <2>l, <3>2
    <3>4. Root!CountedHere \in Snapshots
      <4> DEFINE used == goal.used + turn
      <4>1. used \in Nat
        BY <1>t
      <4> HIDE DEF used
      <4>2. Root!CountedHere
              = [goal EXCEPT !.used = used, !.over = @ \/ used >= Total, !.bound = @ /\ used < Total]
        BY DEF Root!CountedHere, used
      <4>3. (goal.over \/ used >= Total) \in BOOLEAN /\ (goal.bound /\ used < Total) \in BOOLEAN
        OBVIOUS
      <4> QED
        BY <1>t, <4>1, <4>2, <4>3
    <3> HIDE DEF later
    <3>5. /\ row' = later
          /\ goal' = Root!Learned(seen, FALSE) \/ goal' = Root!CountedHere
          /\ spent' = spent + turn \/ spent' = spent
          /\ refused' \in BOOLEAN
      BY <1>t, <2>6 DEF Root!Report, Root!Told, later
    <3>6. spent' \in Nat
      BY <1>t, <3>5
    <3>7. goal' \in Snapshots
      BY <3>3, <3>4, <3>5
    <3> QED
      BY <3>1, <3>5, <3>6, <3>7
  <2>7. ASSUME NEW done \in BOOLEAN, NEW told \in BOOLEAN, Root!Exhaust(done, told)
        PROVE  spent' \in Nat /\ row' \in GoalRows /\ goal' \in Snapshots /\ refused' \in BOOLEAN
    <3> DEFINE later == IF row.id = goal.id /\ done THEN Root!Counted(row, turn, TRUE) ELSE row
               seen == IF row.id = goal.id THEN later ELSE Root!Past
    <3>1. later \in GoalRows
      BY <1>t, <2>c
    <3>2. seen \in GoalRows
      BY <2>p, <3>1
    <3>3. Root!Learned(seen, FALSE) \in Snapshots
      BY <2>l, <3>2
    <3> HIDE DEF later
    <3>5. /\ row' = later
          /\ goal' = Root!Learned(seen, FALSE) \/ goal' = goal
          /\ spent' = spent /\ refused' = refused
      BY <2>7 DEF Root!Exhaust, Root!Told, Root!Untold, later
    <3> HIDE DEF seen, GoalRows, Snapshots
    <3> QED
      BY <1>t, <3>1, <3>3, <3>5
  <2> QED
    BY <2>1, <2>2, <2>3, <2>4, <2>5, <2>6, <2>7, GoalMoves
<1>3. /\ batch' \in Seq(Root!CallKinds) /\ next' \in Nat \ {0} /\ group' \in Nat
      /\ calls' \in [DOMAIN batch' -> {"waiting", "running", "settled"}]
  <2>1. CASE UNCHANGED Root!tools
    BY <1>t, <2>1
  <2>2. CASE \E b \in Batches : Root!ModelCalls(b)
    BY <1>t, <1>n, <2>2 DEF Root!ModelCalls
  <2>3. CASE Root!OpenGroup
    <3>1. next \in 1 .. Len(batch)
      BY <1>t, <2>3 DEF Root!OpenGroup
    <3>2. Root!GroupEnd(next) \in Nat
      BY <1>t, <3>1, GroupIsAdjacent
    <3> QED
      BY <1>t, <2>3, <3>2 DEF Root!OpenGroup
  <2>4. CASE Root!CloseGroup
    BY <1>t, <2>4 DEF Root!CloseGroup
  <2>6. CASE Root!EndBatch
    <3>1. batch' = <<>> /\ calls' = <<>> /\ next' = 1 /\ group' = 0
      BY <2>6 DEF Root!EndBatch
    <3>2. DOMAIN batch' = {} /\ calls' \in [{} -> {"waiting", "running", "settled"}]
      BY <3>1
    <3> QED
      BY <3>1, <3>2
  <2>5. CASE \E i \in DOMAIN calls : Root!StartCall(i) \/ Root!Ends(i)
    <3>1. PICK i \in DOMAIN calls : Root!StartCall(i) \/ Root!Ends(i)
      BY <2>5
    <3>2. /\ UNCHANGED <<batch, next, group>>
          /\ \E s \in {"running", "settled"} : calls' = [calls EXCEPT ![i] = s]
      BY <3>1 DEF Root!StartCall, Root!Ends
    <3> QED
      BY <1>t, <3>2
  <2> QED
    BY <2>1, <2>2, <2>3, <2>4, <2>5, <2>6, ToolMoves
<1>4. {counter', written', reused', after'} \subseteq BOOLEAN
  BY <1>t, WordMoves DEF Root!Leave
<1> QED
  BY <1>1, <1>2, <1>3, <1>4 DEF RunTypes

\* What runs is within the open group.
LEMMA GroupsKept ==
    ASSUME RootInv, Root!Next
    PROVE  Groups'
<1> USE DEF Root!tools
<1>t. /\ batch \in Seq(Root!CallKinds) /\ next \in Nat \ {0} /\ group \in Nat
      /\ calls \in [DOMAIN batch -> {"waiting", "running", "settled"}]
      /\ DOMAIN calls = 1 .. Len(batch) /\ Len(batch) \in Nat
  BY DEF RootInv, RunTypes
<1>g. /\ at # "batch" => batch = <<>>
      /\ Root!Working \subseteq next .. group /\ group <= Len(batch)
      /\ next < group => \A k \in next .. group : batch[k] = "worker"
  BY DEF RootInv, Groups
<1>1. CASE UNCHANGED Root!tools /\ (at = "batch" <=> at' = "batch")
  BY <1>1, <1>g DEF Groups, Root!Working
<1>2. CASE \E b \in Batches : Root!ModelCalls(b)
  <2>1. PICK b \in Batches : Root!ModelCalls(b)
    BY <1>2
  <2>2. CASE Root!LoopDone
    <3>1. UNCHANGED Root!tools /\ at # "batch"
      BY <2>1, <2>2 DEF Root!ModelCalls
    <3> QED
      BY <3>1, <1>g DEF Groups, Root!Working
  <2>3. CASE ~Root!LoopDone
    <3>1. /\ at' = "batch" /\ batch' = b /\ next' = 1 /\ group' = 0
          /\ calls' = [i \in DOMAIN b |-> "waiting"]
      BY <2>1, <2>3 DEF Root!ModelCalls
    <3>2. b \in Seq(Root!CallKinds)
      BY AgentRunAssumption DEF Root!AgentRunAssumption
    <3>3. Root!Working' = {} /\ group' <= Len(batch') /\ ~(next' < group')
      BY <3>1, <3>2 DEF Root!Working
    <3> QED
      BY <3>1, <3>3 DEF Groups
  <2> QED
    BY <2>2, <2>3
<1>3. CASE Root!OpenGroup
  <2>1. /\ at = "batch" /\ group < next /\ next <= Len(batch) /\ group' = Root!GroupEnd(next)
        /\ UNCHANGED <<at, batch, calls, next>>
    BY <1>3 DEF Root!OpenGroup
  <2>2. next \in 1 .. Len(batch)
    BY <1>t, <2>1
  <2>3. /\ Root!GroupEnd(next) \in next .. Len(batch)
        /\ Root!GroupEnd(next) = next \/ \A k \in next .. Root!GroupEnd(next) : batch[k] = "worker"
    BY <1>t, <2>2, GroupIsAdjacent
  <2>4. group' \in next .. Len(batch) /\ (group' = next \/ \A k \in next .. group' : batch[k] = "worker")
    BY <2>1, <2>3
  <2>5. Root!Working = {}
    BY <1>t, <1>g, <2>1
  <2>6. Root!Working' = {}
    BY <2>1, <2>5 DEF Root!Working
  <2> QED
    BY <1>t, <2>1, <2>4, <2>6 DEF Groups
<1>4. CASE Root!CloseGroup
  <2>1. /\ at = "batch" /\ \A i \in next .. group : calls[i] = "settled"
        /\ next <= group /\ next' = group + 1 /\ UNCHANGED <<at, batch, calls, group>>
    BY <1>4 DEF Root!CloseGroup
  <2>2. \A i \in Root!Working : i \in next .. group /\ calls[i] = "running"
    BY <1>g DEF Root!Working
  <2>3. Root!Working = {}
    BY <2>1, <2>2
  <2>4. Root!Working' = {}
    BY <2>1, <2>3 DEF Root!Working
  <2> QED
    BY <1>t, <1>g, <2>1, <2>4 DEF Groups
<1>5. CASE Root!EndBatch
  <2>1. batch' = <<>> /\ calls' = <<>> /\ next' = 1 /\ group' = 0
    BY <1>5 DEF Root!EndBatch
  <2>2. Root!Working' = {}
    BY <2>1 DEF Root!Working
  <2> QED
    BY <2>1, <2>2 DEF Groups
<1>6. CASE \E i \in DOMAIN calls : Root!StartCall(i) \/ Root!Ends(i)
  <2>1. PICK i \in DOMAIN calls : Root!StartCall(i) \/ Root!Ends(i)
    BY <1>6
  <2>2. /\ at = "batch" /\ UNCHANGED <<at, batch, next, group>>
        /\ \/ i \in next .. group
           \/ i \in Root!Working
        /\ \E s \in {"running", "settled"} : calls' = [calls EXCEPT ![i] = s]
    BY <2>1 DEF Root!StartCall, Root!Ends, Root!Working
  <2>3. i \in next .. group
    BY <2>2, <1>g
  <2>4. Root!Working' \subseteq Root!Working \union {i}
    BY <1>t, <2>2 DEF Root!Working
  <2> QED
    BY <1>g, <2>2, <2>3, <2>4 DEF Groups
<1> QED
  BY <1>1, <1>2, <1>3, <1>4, <1>5, <1>6, ToolMoves

\* The loop stays stopped.
LEMMA StopStays ==
    ASSUME Root!Next, Root!LoopDone, at # "spawn"
    PROVE  Root!LoopDone'
<1> USE DEF Root!LoopDone, Root!Cancelled
<1>1. ctx = "cancelled" => ctx' = "cancelled"
  BY DEF Root!Next, Root!Run, Root!Stay, Root!Apart, Root!Accept, Root!Prelude, Root!Spawn,
     Root!StopLoop, Root!AskModel, Root!Speak, Root!TurnsUp, Root!StartSegment, Root!EndSegment,
     Root!OpenGroup, Root!CloseGroup, Root!EndBatch, Root!StartCall, Root!Ends, Root!ModelCalls,
     Root!EndCall, Root!GoalTool, Root!Report, Root!Exhaust, Root!ModelFails, Root!ModelStops,
     Root!NoReport, Root!Decide, Root!NoTimeLeft, Root!CloseStream, Root!Settle, Root!EmitFinish,
     Root!Leave, Root!PlannerStarts, Root!PlannerEnds, Root!Cancel, Root!Expire, Root!GoalChanges
<1>2. clock = "over" => clock' = "over"
  BY DEF Root!Next, Root!Run, Root!Stay, Root!Apart, Root!Accept, Root!Prelude, Root!Spawn,
     Root!StopLoop, Root!AskModel, Root!Speak, Root!TurnsUp, Root!StartSegment, Root!EndSegment,
     Root!OpenGroup, Root!CloseGroup, Root!EndBatch, Root!StartCall, Root!Ends, Root!ModelCalls,
     Root!EndCall, Root!GoalTool, Root!Report, Root!Exhaust, Root!ModelFails, Root!ModelStops,
     Root!NoReport, Root!Decide, Root!NoTimeLeft, Root!CloseStream, Root!Settle, Root!EmitFinish,
     Root!Leave, Root!PlannerStarts, Root!PlannerEnds, Root!Cancel, Root!Expire, Root!GoalChanges
<1> QED
  BY <1>1, <1>2

\* A call that stays open was left by a loop that was told to stop.
LEMMA OpenedKept ==
    ASSUME RootInv, Root!Next
    PROVE  Opened'
<1> USE DEF Before, Behindhand, Root!loop, Root!tools, Root!EndSegment, Root!Stay, Root!Apart
<1> DEFINE Goal == Opened'
<1>o. /\ at = "batch" /\ ~Root!LoopDone => open = Root!Working
      /\ at \in Before \union {"loop", "turn", "model"} => open = {}
      /\ at \in Behindhand /\ open # {} => reason \in {"cancelled", "budget"}
      /\ at \in Before => reason = "none"
      /\ at = "exhaust" \/ reason = "budget" => clock = "over"
      /\ at = "finish" => reason # "cancelled"
  BY DEF RootInv, Opened
<1>g. Root!Working \subseteq next .. group /\ (at # "batch" => Root!Working = {})
  <2>1. at # "batch" => batch = <<>>
    BY DEF RootInv, Groups
  <2>2. DOMAIN calls = DOMAIN batch
    BY DEF RootInv, RunTypes
  <2>3. Root!Working \subseteq next .. group
    BY DEF RootInv, Groups
  <2> QED
    BY <2>1, <2>2, <2>3 DEF Root!Working
<1>t. next \in Nat /\ group \in Nat /\ calls \in [DOMAIN batch -> {"waiting", "running", "settled"}]
  BY DEF RootInv, RunTypes
<1>s. at # "spawn" /\ ~Root!LoopDone' => ~Root!LoopDone
  BY StopStays
<1>d. Goal <=> /\ at' = "batch" /\ ~Root!LoopDone' => open' = Root!Working'
               /\ at' \in Before \union {"loop", "turn", "model"} => open' = {}
               /\ at' \in Behindhand /\ open' # {} => reason' \in {"cancelled", "budget"}
               /\ at' \in Before => reason' = "none"
               /\ at' = "exhaust" \/ reason' = "budget" => clock' = "over"
               /\ at' = "finish" => reason' # "cancelled"
  BY DEF Opened
<1> HIDE DEF Goal
<1>1. ASSUME Root!Accept \/ \E p \in Preludes : Root!Prelude(p) PROVE Goal
  BY <1>1, <1>o, <1>d, AgentRunAssumption DEF Root!AgentRunAssumption, Root!Accept, Root!Prelude
<1>2. ASSUME NEW spawns \in BOOLEAN, Root!Spawn(spawns) PROVE Goal
  BY <1>2, <1>o, <1>d DEF Root!Spawn
<1>3. ASSUME \/ Root!StartSegment \/ Root!AskModel \/ Root!Speak \/ Root!TurnsUp
             \/ Root!ModelFails \/ Root!ModelStops
      PROVE  Goal
  BY <1>3, <1>o, <1>d DEF Root!StartSegment, Root!AskModel, Root!Speak, Root!TurnsUp, Root!ModelFails,
     Root!ModelStops
<1>4. ASSUME Root!StopLoop PROVE Goal
  BY <1>4, <1>o, <1>d DEF Root!StopLoop, Root!LoopDone
<1>5. ASSUME NEW b \in Batches, Root!ModelCalls(b) PROVE Goal
  <2>1. CASE Root!LoopDone
    BY <1>5, <1>o, <1>d, <2>1 DEF Root!ModelCalls
  <2>2. CASE ~Root!LoopDone
    <3>1. at' = "batch" /\ open' = open /\ calls' = [i \in DOMAIN b |-> "waiting"]
          /\ UNCHANGED <<reason, clock>> /\ at = "model"
      BY <1>5, <2>2 DEF Root!ModelCalls
    <3>2. Root!Working' = {}
      BY <3>1 DEF Root!Working
    <3> QED
      BY <1>o, <1>d, <3>1, <3>2
  <2> QED
    BY <2>1, <2>2
<1>6. ASSUME Root!OpenGroup \/ Root!CloseGroup PROVE Goal
  <2>1. at = "batch" /\ UNCHANGED <<at, open, calls, reason, clock>>
    BY <1>6 DEF Root!OpenGroup, Root!CloseGroup
  <2>2. Root!Working' = Root!Working
    BY <2>1 DEF Root!Working
  <2> QED
    BY <1>o, <1>d, <1>s, <2>1, <2>2
<1>7. ASSUME Root!EndBatch PROVE Goal
  <2>1. Root!Working = {}
    BY <1>7, <1>g, <1>t DEF Root!EndBatch
  <2> QED
    BY <1>7, <1>o, <1>d, <2>1 DEF Root!EndBatch
<1>8. ASSUME NEW i \in DOMAIN calls, Root!StartCall(i) \/ Root!Ends(i) PROVE Goal
  <2>1. at = "batch" /\ UNCHANGED <<at, reason, clock>>
    BY <1>8 DEF Root!StartCall, Root!Ends
  <2>2. ASSUME ~Root!LoopDone, Root!StartCall(i) PROVE open' = Root!Working'
    <3>1. open' = open \union {i} /\ calls' = [calls EXCEPT ![i] = "running"]
      BY <2>2 DEF Root!StartCall
    <3>2. Root!Working' = Root!Working \union {i}
      BY <1>8, <1>t, <3>1 DEF Root!Working
    <3> QED
      BY <1>o, <2>1, <2>2, <3>1, <3>2
  <2>3. ASSUME ~Root!LoopDone, Root!Ends(i) PROVE open' = Root!Working'
    <3>1. open' = open \ {i} /\ calls' = [calls EXCEPT ![i] = "settled"]
      BY <2>3 DEF Root!Ends
    <3>2. Root!Working' = Root!Working \ {i}
      BY <1>8, <1>t, <3>1 DEF Root!Working
    <3> QED
      BY <1>o, <2>1, <2>3, <3>1, <3>2
  <2> QED
    BY <1>8, <1>o, <1>d, <1>s, <2>1, <2>2, <2>3
<1>9. ASSUME NEW i \in DOMAIN calls,
             Root!EndCall(i) \/ \E told \in BOOLEAN : Root!GoalTool(i, told)
      PROVE  Goal
  BY <1>8, <1>9 DEF Root!EndCall, Root!GoalTool
<1>10. ASSUME NEW done \in BOOLEAN, NEW told \in BOOLEAN, Root!Report(done, told) \/ Root!Exhaust(done, told)
       PROVE  Goal
  BY <1>10, <1>o, <1>d DEF Root!Report, Root!Exhaust
<1>11. ASSUME Root!NoReport \/ Root!Decide \/ Root!NoTimeLeft PROVE Goal
  <2>1. CASE Root!NoReport \/ Root!NoTimeLeft
    BY <1>o, <1>d, <2>1 DEF Root!NoReport, Root!NoTimeLeft
  <2>2. CASE Root!Decide
    <3>1. /\ at = "decide" /\ UNCHANGED <<open, reason>>
          /\ \/ at' = "exhaust" /\ clock = "over" /\ clock' = clock
             \/ at' = "loop" /\ reason \in {"no_tools", "max_turns"}
             \/ at' = "close"
          /\ clock = "over" => clock' = clock
      BY <2>2 DEF Root!Decide, Root!OutOfTime, Root!GoesOn, Root!Soft
    <3> QED
      BY <1>o, <1>d, <3>1
  <2> QED
    BY <1>11, <2>1, <2>2
<1>12. ASSUME Root!CloseStream \/ Root!Settle \/ Root!EmitFinish \/ Root!Leave PROVE Goal
  BY <1>12, <1>o, <1>d DEF Root!CloseStream, Root!Settle, Root!EmitFinish, Root!Leave
<1>13. ASSUME \/ Root!PlannerStarts \/ Root!PlannerEnds \/ Root!Cancel \/ Root!Expire
              \/ \E status \in {"ended", "paused"} : Root!GoalChanges(status)
       PROVE  Goal
  <2>1. UNCHANGED <<at, open, calls, reason>> /\ (clock' = clock \/ clock' = "over")
    BY <1>13 DEF Root!PlannerStarts, Root!PlannerEnds, Root!Cancel, Root!Expire, Root!GoalChanges
  <2>2. Root!Working' = Root!Working
    BY <2>1 DEF Root!Working
  <2> QED
    BY <1>o, <1>d, <1>s, <2>1, <2>2
<1>14. Goal
  BY <1>1, <1>2, <1>3, <1>4, <1>5, <1>6, <1>7, <1>8, <1>9, <1>10, <1>11, <1>12, <1>13
     DEF Root!Next, Root!Run
<1> QED
  BY <1>14 DEF Goal

\* A step of a run that has not come to its end is silent or an event.
LEMMA WordsKept ==
    ASSUME LastWord, Root!Silent \/ Root!Emit, UNCHANGED planner,
           at \notin {"finish", "leave", "gone"}, at' \notin Before \union {"finish", "gone"}
    PROVE  LastWord'
<1>1. CASE Root!Silent
  BY <1>1 DEF LastWord, Root!Silent, Root!wire, Root!PlannerOver
<1>2. CASE Root!Emit
  <2>1. ~reused /\ (written => counter) /\ ~after /\ final = "none"
    BY DEF LastWord
  <2>2. ~reused' /\ counter' /\ ~after' /\ final' = "none"
    BY <1>2, <2>1 DEF Root!Emit
  <2> QED
    BY <2>2 DEF LastWord
<1> QED
  BY <1>1, <1>2

\* Nothing follows the end of a run that was not cancelled.
LEMMA LastWordKept ==
    ASSUME RootInv, Root!Next
    PROVE  LastWord'
<1> USE DEF Before, Root!loop, Root!EndSegment, Root!Stay, Root!Apart,
        Root!EmitUnless, Root!Synthesize
<1> DEFINE Goal == LastWord'
<1>w. LastWord
  BY DEF RootInv
<1>o. /\ at \in Before \union {"loop", "turn", "model"} => open = {}
      /\ at \in Behindhand /\ open # {} => reason \in {"cancelled", "budget"}
      /\ at = "exhaust" \/ reason = "budget" => clock = "over"
      /\ at = "finish" => reason # "cancelled"
  BY DEF RootInv, Opened
<1>1. ASSUME Root!Accept PROVE Goal
  BY <1>1, <1>w DEF Root!Accept, LastWord, Root!wire, Root!PlannerOver
<1>2. ASSUME NEW p \in Preludes, Root!Prelude(p) PROVE Goal
  <2>1. /\ at = "prelude" /\ UNCHANGED <<planner, clock, open>> /\ at' \in {"spawn", "leave"}
        /\ \/ Root!Silent \/ Root!Emit
           \/ at' = "leave" /\ (Root!Finish("cancelled") \/ Root!Finish("failed"))
    BY <1>2, AgentRunAssumption DEF Root!AgentRunAssumption, Root!Prelude, Root!tools
  <2>s. /\ ~reused /\ (written => counter) /\ ~after /\ final = "none" /\ planner = "none"
        /\ open = {}
    BY <1>w, <1>o, <2>1 DEF LastWord
  <2>2. CASE Root!Silent
    BY <2>s, <2>1, <2>2 DEF LastWord, Root!Silent, Root!wire
  <2>4. CASE Root!Emit
    <3>1. ~reused' /\ counter' /\ ~after' /\ final' = "none"
      BY <2>s, <2>4 DEF Root!Emit
    <3> QED
      BY <2>s, <2>1, <3>1 DEF LastWord
  <2>3. CASE at' = "leave" /\ (Root!Finish("cancelled") \/ Root!Finish("failed"))
    <3>2. PICK status \in {"cancelled", "failed"} : Root!Finish(status)
      BY <2>3
    <3>3. ~reused' /\ counter'
      BY <2>s, <3>2 DEF Root!Finish
    <3>4. after' = after /\ final' = status
      BY <3>2 DEF Root!Finish
    <3>1. ~reused' /\ counter' /\ ~after' /\ final' \in {"cancelled", "failed"}
      BY <2>s, <3>3, <3>4
    <3> QED
      BY <2>s, <2>1, <2>3, <3>1 DEF LastWord, Root!PlannerOver
  <2> QED
    BY <2>1, <2>2, <2>3, <2>4
<1>3. ASSUME NEW spawns \in BOOLEAN, Root!Spawn(spawns) PROVE Goal
  BY <1>3, <1>w DEF Root!Spawn, LastWord, Root!wire, Root!PlannerOver
<1>4. ASSUME \/ Root!StartSegment \/ Root!StopLoop \/ Root!AskModel \/ Root!Speak \/ Root!TurnsUp
             \/ Root!ModelFails \/ Root!ModelStops \/ (\E b \in Batches : Root!ModelCalls(b))
             \/ Root!OpenGroup \/ Root!CloseGroup \/ Root!EndBatch
      PROVE  Goal
  <2>1. /\ Root!Silent \/ Root!Emit
        /\ UNCHANGED planner
        /\ at \notin {"finish", "leave", "gone"} /\ at' \notin Before \union {"finish", "gone"}
    BY <1>4 DEF Root!StartSegment, Root!StopLoop, Root!AskModel, Root!Speak, Root!TurnsUp,
       Root!ModelFails, Root!ModelStops, Root!ModelCalls, Root!OpenGroup, Root!CloseGroup,
       Root!EndBatch, Root!Silent
  <2> QED
    BY <1>w, <2>1, WordsKept
<1>5. ASSUME NEW i \in DOMAIN calls,
             \/ Root!StartCall(i) \/ Root!EndCall(i)
             \/ \E told \in BOOLEAN : Root!GoalTool(i, told)
      PROVE  Goal
  <2>1. /\ Root!Silent \/ Root!Emit
        /\ UNCHANGED planner
        /\ at \notin {"finish", "leave", "gone"} /\ at' \notin Before \union {"finish", "gone"}
    BY <1>5 DEF Root!StartCall, Root!EndCall, Root!GoalTool, Root!Ends
  <2> QED
    BY <1>w, <2>1, WordsKept
<1>6. ASSUME \/ \E done, told \in BOOLEAN : Root!Report(done, told) \/ Root!Exhaust(done, told)
             \/ Root!NoReport \/ Root!Decide \/ Root!NoTimeLeft \/ Root!CloseStream
      PROVE  Goal
  <2>1. /\ Root!Silent \/ Root!Emit
        /\ UNCHANGED planner
        /\ at \notin {"finish", "leave", "gone"} /\ at' \notin Before \union {"finish", "gone"}
    BY <1>6 DEF Root!Report, Root!Exhaust, Root!NoReport, Root!Decide, Root!NoTimeLeft,
       Root!CloseStream, Root!Silent
  <2> QED
    BY <1>w, <2>1, WordsKept
<1>7. ASSUME Root!Settle PROVE Goal
  <2>1. CASE reason = "cancelled" \/ (Root!Soft /\ Root!Cancelled)
    <3>1. at = "settle" /\ at' = "leave" /\ Root!Finish("cancelled") /\ UNCHANGED planner
      BY <1>7, <2>1 DEF Root!Settle
    <3> QED
      BY <1>w, <3>1 DEF LastWord, Root!Finish
  <2>2. CASE ~(reason = "cancelled" \/ (Root!Soft /\ Root!Cancelled))
    <3>1. at = "settle" /\ at' = "finish" /\ Root!Silent /\ UNCHANGED planner /\ Root!PlannerOver
      BY <1>7, <2>2 DEF Root!Settle, Root!MayFinish
    <3> QED
      BY <1>w, <3>1 DEF LastWord, Root!Silent, Root!wire, Root!PlannerOver
  <2> QED
    BY <2>1, <2>2
<1>8. ASSUME Root!EmitFinish PROVE Goal
  <2>1. CASE Root!Cancelled
    <3>1. at = "finish" /\ at' = "leave" /\ Root!Silent /\ UNCHANGED planner
      BY <1>8, <2>1 DEF Root!EmitFinish
    <3> QED
      BY <1>w, <3>1 DEF LastWord, Root!Silent, Root!wire, Root!PlannerOver
  <2>2. CASE ~Root!Cancelled
    <3>1. /\ at = "finish" /\ at' = "leave" /\ UNCHANGED <<planner, open, clock>>
          /\ Root!Finish(IF Root!Soft THEN "completed" ELSE "failed")
      BY <1>8, <2>2 DEF Root!EmitFinish, Root!tools
    <3>2. open # {} => clock = "over" /\ ~Root!Soft
      BY <1>o, <3>1 DEF Root!Soft, Behindhand
    <3> QED
      BY <1>w, <3>1, <3>2 DEF LastWord, Root!Finish, Root!PlannerOver
  <2> QED
    BY <2>1, <2>2
<1>9. ASSUME Root!Leave PROVE Goal
  BY <1>9, <1>w DEF Root!Leave, LastWord, Root!PlannerOver, Root!tools
<1>10. ASSUME Root!PlannerStarts \/ Root!PlannerEnds PROVE Goal
  <2>1. /\ Root!Silent \/ Root!Emit
        /\ UNCHANGED <<at, clock, open>>
        /\ planner \in {"starting", "working"} /\ planner' # "none"
    BY <1>10 DEF Root!PlannerStarts, Root!PlannerEnds, Root!tools
  <2>2. at \notin Before \union {"finish"} /\ final \notin {"completed", "failed"}
    BY <1>w, <2>1 DEF LastWord, Root!PlannerOver
  <2>3. CASE Root!Silent
    BY <1>w, <2>1, <2>2, <2>3 DEF LastWord, Root!Silent, Root!wire
  <2>4. CASE Root!Emit
    <3>1. /\ at # "gone" => ~reused /\ (written => counter)
          /\ final = "none" => ~after
          /\ final # "none" => at \in {"leave", "gone"}
      BY <1>w DEF LastWord
    <3>2. counter' /\ final' = final
      BY <2>4 DEF Root!Emit
    <3>3. at # "gone" => ~reused'
      BY <2>4, <3>1 DEF Root!Emit
    <3>4. final = "none" => ~after'
      BY <2>4, <3>1 DEF Root!Emit
    <3> QED
      BY <2>1, <2>2, <3>1, <3>2, <3>3, <3>4 DEF LastWord
  <2> QED
    BY <2>1, <2>3, <2>4
<1>11. ASSUME \/ Root!Cancel \/ Root!Expire
              \/ \E status \in {"ended", "paused"} : Root!GoalChanges(status)
       PROVE  Goal
  BY <1>11, <1>w DEF Root!Cancel, Root!Expire, Root!GoalChanges, LastWord, Root!wire,
     Root!PlannerOver, Root!tools
<1>12. Goal
  BY <1>1, <1>2, <1>3, <1>4, <1>5, <1>6, <1>7, <1>8, <1>9, <1>10, <1>11 DEF Root!Next, Root!Run
<1> QED
  BY <1>12 DEF Goal

\* What the run knows of its goal stays so.
LEMMA BindingKept ==
    ASSUME RootInv, Root!Next
    PROVE  Binding'
<1> USE DEF Before, Segment, Root!loop, Root!EndSegment, Root!Stay, Root!Apart, Root!goals
<1> DEFINE Goal == Binding'
<1>n. TurnLimit \in Nat \ {0} /\ PerSegment \in Nat \ {0}
  BY AgentRunAssumption DEF Root!AgentRunAssumption
<1>t. /\ turn \in Nat /\ seg \in Nat /\ spent \in Nat /\ limit \in {PerSegment, TurnLimit}
      /\ row \in GoalRows /\ goal \in Snapshots
  BY DEF RootInv, RunTypes
<1>b. Binding
  BY DEF RootInv
<1> HIDE DEF Goal
<1>1. ASSUME \/ Root!Accept \/ (\E p \in Preludes : Root!Prelude(p)) \/ Root!StopLoop \/ Root!AskModel
             \/ Root!Speak \/ Root!TurnsUp \/ Root!ModelFails \/ Root!ModelStops
             \/ (\E b \in Batches : Root!ModelCalls(b))
             \/ Root!OpenGroup \/ Root!CloseGroup \/ Root!EndBatch
      PROVE  Goal
  <2>g. UNCHANGED <<row, goal, heard, seg, limit, spent>>
    BY <1>1 DEF Root!Accept, Root!Prelude, Root!StopLoop, Root!AskModel, Root!Speak, Root!TurnsUp,
       Root!ModelFails, Root!ModelStops, Root!ModelCalls, Root!OpenGroup, Root!CloseGroup, Root!EndBatch
  <2>1. /\ at' = "loop" => at = "loop"
        /\ at' \in Before => at \in Before
        /\ at' \in Segment => at \in Segment
        /\ at' = "model" /\ at # "model" => turn < limit
        /\ at' = "batch" /\ at # "batch" => turn' = turn + 1
        /\ turn' = turn \/ (turn' = turn + 1 /\ at = "model" /\ at' # "model")
        /\ at' = "turn" => turn' = turn /\ at = "batch"
    BY <1>1, <1>t, AgentRunAssumption DEF Root!AgentRunAssumption, Root!Accept, Root!Prelude, Root!StopLoop, Root!AskModel, Root!Speak, Root!TurnsUp,
       Root!ModelFails, Root!ModelStops, Root!ModelCalls, Root!OpenGroup, Root!CloseGroup, Root!EndBatch
  <2> QED
    BY <1>b, <1>t, <1>n, <2>g, <2>1 DEF Binding, Goal
<1>2. ASSUME NEW spawns \in BOOLEAN, Root!Spawn(spawns) PROVE Goal
  BY <1>2, <1>b DEF Root!Spawn, Binding, Goal, Root!Seeded, Root!NoSnapshot
<1>3. ASSUME Root!StartSegment PROVE Goal
  <2>1. /\ at = "loop" /\ at' = "turn" /\ turn' = 0 /\ limit' = Root!TurnsAllowed
        /\ row' = [row EXCEPT !.counted = FALSE] /\ UNCHANGED <<goal, heard, seg, spent>>
    BY <1>3 DEF Root!StartSegment
  <2>2. seg > 0 => limit' = PerSegment
    BY <1>b, <2>1 DEF Binding, Root!TurnsAllowed, Root!Known
  <2>3. limit' \in Nat
    BY <1>n, <2>1 DEF Root!TurnsAllowed
  <2>4. row'.id = row.id /\ row'.status = row.status /\ ~row'.counted
    BY <1>t, <2>1 DEF GoalRows
  <2> QED
    BY <1>b, <1>t, <2>1, <2>2, <2>3, <2>4 DEF Binding, Goal
<1>4. ASSUME NEW i \in DOMAIN calls, Root!StartCall(i) \/ Root!EndCall(i) PROVE Goal
  BY <1>4, <1>b DEF Root!StartCall, Root!EndCall, Root!Ends, Binding, Goal
<1>5. ASSUME NEW i \in DOMAIN calls, NEW told \in BOOLEAN, Root!GoalTool(i, told) PROVE Goal
  <2> DEFINE completes == batch[i] = "complete"
             changed == IF completes THEN [row EXCEPT !.status = "ended"]
                        ELSE [id |-> row.id + 1, status |-> "active", used |-> 0, counted |-> FALSE]
  <2>1. /\ at = "batch" /\ UNCHANGED <<at, turn, seg, limit>>
        /\ row' = changed \/ row' = row
        /\ \/ row' = changed /\ goal' = Root!Learned(changed, completes) /\ heard' = changed.status
           \/ UNCHANGED <<goal, heard>>
    BY <1>5 DEF Root!GoalTool, Root!Ends, Root!Told, Root!Untold
  <2>2. /\ changed.status = "active" => changed.id # 0
        /\ ~row.counted => ~changed.counted
    BY <1>t DEF GoalRows
  <2> HIDE DEF changed, completes
  <2>3. Root!Learned(changed, completes).bound => Root!Learned(changed, completes).id # 0 /\ changed.status = "active"
    BY <2>2 DEF Root!Learned
  <2> QED
    BY <1>b, <2>1, <2>2, <2>3 DEF Binding, Goal
<1>6. ASSUME NEW done \in BOOLEAN, NEW told \in BOOLEAN, Root!Report(done, told) \/ Root!Exhaust(done, told)
      PROVE  Goal
  <2> DEFINE over == at = "exhaust"
             later == IF row.id = goal.id /\ done THEN Root!Counted(row, turn, over) ELSE row
             seen == IF row.id = goal.id THEN later ELSE Root!Past
  <2>1. /\ at \in {"report", "exhaust"} /\ at' \in {"decide", "close"} /\ UNCHANGED <<turn, seg, limit>>
        /\ row' = later
        /\ \/ goal' = Root!Learned(seen, FALSE) /\ heard' = seen.status
           \/ (goal' = goal \/ goal' = Root!CountedHere) /\ UNCHANGED heard
    BY <1>6 DEF Root!Report, Root!Exhaust, Root!Told, Root!Untold
  <2>2. later.id = row.id /\ (later.status = "active" => row.status = "active")
    BY <1>t DEF Root!Counted, GoalRows
  <2>3. seen.status = "active" => seen.id # 0
    BY <1>b, <2>2 DEF Binding, Root!Past
  <2> HIDE DEF seen, later, over
  <2>4. Root!Learned(seen, FALSE).bound => Root!Learned(seen, FALSE).id # 0 /\ seen.status = "active"
    BY <2>3 DEF Root!Learned
  <2>5. Root!CountedHere.id = goal.id /\ (Root!CountedHere.bound => goal.bound)
    BY <1>t DEF Root!CountedHere, Snapshots
  <2> QED
    BY <1>b, <2>1, <2>2, <2>4, <2>5 DEF Binding, Goal
<1>7. ASSUME Root!Decide PROVE Goal
  <2>1. /\ at = "decide" /\ at' \in {"exhaust", "loop", "close"} /\ UNCHANGED <<turn, goal, heard, limit>>
        /\ row' = row \/ row' = [row EXCEPT !.counted = FALSE]
        /\ at' = "loop" => goal.bound
    BY <1>7 DEF Root!Decide, Root!GoesOn
  <2>2. row'.id = row.id /\ row'.status = row.status
    BY <1>t, <2>1 DEF GoalRows
  <2> QED
    BY <1>b, <2>1, <2>2 DEF Binding, Goal
<1>8. ASSUME Root!NoReport \/ Root!NoTimeLeft \/ Root!Settle \/ Root!EmitFinish \/ Root!Leave PROVE Goal
  BY <1>8, <1>b DEF Root!NoReport, Root!NoTimeLeft, Root!Settle, Root!EmitFinish, Root!Leave, Binding, Goal
<1>9. ASSUME Root!CloseStream PROVE Goal
  BY <1>9, <1>b DEF Root!CloseStream, Root!NoSnapshot, Binding, Goal
<1>10. ASSUME Root!PlannerStarts \/ Root!PlannerEnds \/ Root!Cancel \/ Root!Expire PROVE Goal
  BY <1>10, <1>b DEF Root!PlannerStarts, Root!PlannerEnds, Root!Cancel, Root!Expire, Binding, Goal
<1>11. ASSUME NEW status \in {"ended", "paused"}, Root!GoalChanges(status) PROVE Goal
  <2>1. row'.id = row.id /\ row'.status = status /\ row'.counted = row.counted
        /\ UNCHANGED <<at, turn, seg, limit, goal, heard, spent>>
    BY <1>11, <1>t DEF Root!GoalChanges, GoalRows
  <2> QED
    BY <1>11, <1>b, <2>1 DEF Binding, Goal
<1>12. Goal
  BY <1>1, <1>2, <1>3, <1>4, <1>5, <1>6, <1>7, <1>8, <1>9, <1>10, <1>11 DEF Root!Next, Root!Run
<1> QED
  BY <1>12 DEF Goal

\* What the turns add up to stays within the budget.
LEMMA BudgetKept ==
    ASSUME RootInv, Root!Next
    PROVE  Budget'
<1> USE DEF Before, Segment, Root!loop, Root!EndSegment, Root!Stay, Root!Apart, Root!goals
<1> DEFINE Goal == Budget'
           Most == Total + PerSegment + (IF seg = 0 THEN TurnLimit ELSE 0)
<1>n. /\ TurnLimit \in Nat \ {0} /\ PerSegment \in Nat \ {0} /\ Total \in Nat \ {0}
  BY AgentRunAssumption DEF Root!AgentRunAssumption
<1>t. /\ turn \in Nat /\ seg \in Nat /\ spent \in Nat /\ limit \in {PerSegment, TurnLimit}
      /\ row \in GoalRows /\ goal \in Snapshots
  BY DEF RootInv, RunTypes
<1>b. Binding
  BY DEF RootInv
<1>u. Budget
  BY DEF RootInv
<1> HIDE DEF Goal
<1>1. ASSUME UNCHANGED <<goal, row, heard, spent, refused, seg>>,
             /\ at' \in Before \union Segment \union {"loop"} => at \in Before \union Segment \union {"loop"}
             /\ at \in {"settle", "finish", "leave", "gone"} => at' \in {"settle", "finish", "leave", "gone"}
      PROVE  Goal
  BY <1>1, <1>u DEF Budget, Goal
<1>2. ASSUME \/ Root!Accept \/ (\E p \in Preludes : Root!Prelude(p)) \/ Root!StopLoop \/ Root!AskModel
             \/ Root!Speak \/ Root!TurnsUp \/ Root!ModelFails \/ Root!ModelStops
             \/ (\E b \in Batches : Root!ModelCalls(b))
             \/ Root!OpenGroup \/ Root!CloseGroup \/ Root!EndBatch
      PROVE  Goal
  <2>g. UNCHANGED <<goal, row, heard, spent, refused, seg>>
    BY <1>2 DEF Root!Accept, Root!Prelude, Root!StopLoop, Root!AskModel, Root!Speak, Root!TurnsUp,
       Root!ModelFails, Root!ModelStops, Root!ModelCalls, Root!OpenGroup, Root!CloseGroup, Root!EndBatch
  <2>1. /\ at \in Before \union Segment \union {"loop"}
    BY <1>2 DEF Root!Accept, Root!Prelude, Root!StopLoop, Root!AskModel, Root!Speak, Root!TurnsUp,
       Root!ModelFails, Root!ModelStops, Root!ModelCalls, Root!OpenGroup, Root!CloseGroup, Root!EndBatch
  <2> QED
    BY <1>1, <2>g, <2>1
<1>3. ASSUME NEW spawns \in BOOLEAN, Root!Spawn(spawns) PROVE Goal
  <2>1. /\ at = "spawn" /\ at' = "loop" /\ goal' \in {Root!Seeded, Root!NoSnapshot}
        /\ UNCHANGED <<row, spent, refused, seg>>
    BY <1>3 DEF Root!Spawn
  <2>2. seg = 0 /\ spent = 0
    BY <1>b, <2>1 DEF Binding
  <2>3. goal'.used = 0
    BY <2>1 DEF Root!Seeded, Root!NoSnapshot
  <2> QED
    BY <1>u, <1>n, <2>1, <2>2, <2>3 DEF Budget, Goal
<1>4. ASSUME Root!StartSegment PROVE Goal
  <2>1. /\ at = "loop" /\ at' = "turn"
        /\ row' = [row EXCEPT !.counted = FALSE] /\ UNCHANGED <<goal, spent, refused, seg>>
    BY <1>4 DEF Root!StartSegment
  <2>2. row'.id = row.id /\ row'.status = row.status /\ row'.used = row.used
    BY <1>t, <2>1 DEF GoalRows
  <2> QED
    BY <1>u, <2>1, <2>2 DEF Budget, Goal
<1>5. ASSUME NEW i \in DOMAIN calls, Root!StartCall(i) \/ Root!EndCall(i) PROVE Goal
  <2>1. UNCHANGED <<at, goal, row, heard, spent, refused, seg>>
    BY <1>5 DEF Root!StartCall, Root!EndCall, Root!Ends
  <2> QED
    BY <1>1, <2>1
<1>6. ASSUME NEW i \in DOMAIN calls, NEW told \in BOOLEAN, Root!GoalTool(i, told) PROVE Goal
  <2> DEFINE completes == batch[i] = "complete"
             changed == IF completes THEN [row EXCEPT !.status = "ended"]
                        ELSE [id |-> row.id + 1, status |-> "active", used |-> 0, counted |-> FALSE]
  <2>1. at = "batch" /\ UNCHANGED <<at, seg, refused>>
    BY <1>6 DEF Root!GoalTool, Root!Ends
  <2>2. \/ UNCHANGED <<row, spent, goal>>
        \/ /\ row' = changed /\ spent' = (IF completes THEN spent ELSE 0)
           /\ goal' = Root!Learned(changed, completes) \/ goal' = goal
    BY <1>6 DEF Root!GoalTool, Root!Told, Root!Untold
  <2>3. /\ completes => changed.id = row.id /\ changed.status = "ended"
        /\ ~completes => changed.used = 0
    BY <1>t DEF GoalRows
  <2> HIDE DEF changed, completes
  <2>4. /\ Root!Learned(changed, completes).id = changed.id
        /\ Root!Learned(changed, completes).used = changed.used
        /\ Root!Learned(changed, completes).bound => ~completes
    BY DEF Root!Learned
  <2>5. CASE UNCHANGED <<row, spent, goal>>
    BY <1>u, <2>1, <2>5 DEF Budget, Goal
  <2>6. CASE /\ row' = changed /\ spent' = (IF completes THEN spent ELSE 0)
             /\ goal' = Root!Learned(changed, completes) \/ goal' = goal
    <3>1. CASE completes
      BY <1>u, <1>t, <2>1, <2>3, <2>4, <2>6, <3>1 DEF Budget, Goal
    <3>2. CASE ~completes
      <4>1. spent' = 0 /\ row'.used = 0 /\ row' = changed
        BY <2>3, <2>6, <3>2
      <4>2. goal'.used \in Nat /\ 0 <= goal'.used
        BY <1>t, <2>3, <2>4, <2>6, <3>2 DEF Snapshots
      <4> QED
        BY <1>t, <1>n, <2>1, <4>1, <4>2 DEF Budget, Goal
    <3> QED
      BY <3>1, <3>2
  <2> QED
    BY <2>2, <2>5, <2>6
<1>7. ASSUME NEW done \in BOOLEAN, NEW told \in BOOLEAN, Root!Report(done, told) PROVE Goal
  <2> DEFINE current == row.id = goal.id
             later == IF current /\ done THEN Root!Counted(row, turn, FALSE) ELSE row
             seen == IF current THEN later ELSE Root!Past
  <2>1. /\ at = "report" /\ at' = "decide" /\ (told => done) /\ UNCHANGED seg
        /\ row' = later /\ spent' = (IF current THEN spent + turn ELSE spent)
        /\ goal' = (IF told THEN Root!Learned(seen, FALSE) ELSE Root!CountedHere)
    BY <1>7 DEF Root!Report, Root!Told
  <2>2. ~refused' => ~refused /\ (current => done)
    BY <1>7 DEF Root!Report
  <2>a. at = "report" /\ at' = "decide" /\ seg' = seg
    BY <2>1
  <2>3. /\ ~row.counted /\ turn <= limit /\ (seg > 0 => limit = PerSegment)
    BY <1>b, <2>a DEF Binding
  <2>4. /\ Root!Counted(row, turn, FALSE).used = row.used + turn
        /\ Root!Counted(row, turn, FALSE).id = row.id
        /\ Root!Counted(row, turn, FALSE).status = "active" => row.status = "active"
    BY <1>t, <2>3 DEF Root!Counted, GoalRows
  <2>5. later.id = row.id /\ Root!Past.id = goal.id /\ Root!Past.status = "ended"
    BY <2>4 DEF Root!Past
  <2>c. /\ current => seen = later
        /\ current /\ done => later = Root!Counted(row, turn, FALSE)
        /\ ~current => later = row /\ seen = Root!Past
    OBVIOUS
  <2>d. seen.id = goal.id
    BY <2>5
  <2> HIDE DEF later, seen
  <2>6. /\ Root!Learned(seen, FALSE).id = goal.id
        /\ Root!Learned(seen, FALSE).used = seen.used
        /\ Root!Learned(seen, FALSE).bound => seen.status = "active"
    BY <2>d DEF Root!Learned
  <2>7. /\ Root!CountedHere.id = goal.id
        /\ Root!CountedHere.used = goal.used + turn
        /\ Root!CountedHere.bound => goal.bound
    BY <1>t DEF Root!CountedHere, Snapshots
  <2>i. row'.id = row.id /\ goal'.id = goal.id
    BY <2>1, <2>5, <2>6, <2>7
  <2>k. row.used \in Nat /\ goal.used \in Nat
    BY <1>t DEF GoalRows, Snapshots
  <2>8. row'.id # goal'.id => spent' = 0
    <3>1. row.id # goal.id => spent = 0
      BY <1>u, <2>a DEF Budget
    <3> QED
      BY <2>1, <2>i, <3>1
  <2>9. ASSUME ~refused'
        PROVE  /\ row'.status = "active" => row'.used = spent'
               /\ goal'.bound /\ row'.id = goal'.id => spent' <= goal'.used
               /\ spent' < Total + PerSegment + (IF seg' = 0 THEN TurnLimit ELSE 0)
    <3>1. ~refused /\ (current => done)
      BY <2>2, <2>9
    <3>2. /\ row.status = "active" => row.used = spent
          /\ goal.bound /\ row.id = goal.id => spent <= goal.used
          /\ IF seg = 0 THEN spent = 0 ELSE spent < Total
      BY <1>u, <2>a, <3>1 DEF Budget
    <3>3. spent' < Total + PerSegment + (IF seg' = 0 THEN TurnLimit ELSE 0)
      <4>1. spent' = spent + turn \/ spent' = spent
        BY <2>1
      <4>2. CASE seg = 0
        BY <1>t, <1>n, <2>a, <2>3, <3>2, <4>1, <4>2
      <4>3. CASE seg # 0
        BY <1>t, <1>n, <2>a, <2>3, <3>2, <4>1, <4>3
      <4> QED
        BY <4>2, <4>3
    <3>4. CASE current
      <4>1. later = Root!Counted(row, turn, FALSE) /\ seen = later /\ spent' = spent + turn
        BY <2>1, <2>c, <3>1, <3>4
      <4>2. row'.status = "active" => row'.used = spent'
        BY <2>1, <2>4, <3>2, <4>1
      <4>3. ASSUME goal'.bound PROVE spent' <= goal'.used
        <5>1. CASE told
          <6>1. goal'.used = row'.used /\ row'.status = "active"
            BY <2>1, <2>6, <4>1, <4>3, <5>1
          <6> QED
            BY <1>t, <4>1, <4>2, <6>1
        <5>2. CASE ~told
          <6>1. goal' = Root!CountedHere
            BY <2>1, <5>2
          <6>2. goal.bound /\ goal'.used = goal.used + turn
            BY <2>7, <4>3, <6>1
          <6> QED
            BY <1>t, <2>k, <3>2, <3>4, <4>1, <6>2
        <5> QED
          BY <5>1, <5>2
      <4> QED
        BY <3>3, <4>2, <4>3
    <3>5. CASE ~current
      BY <2>1, <2>c, <2>i, <3>2, <3>3, <3>5
    <3> QED
      BY <3>4, <3>5
  <2> QED
    <3>1. at' \notin Before \union Segment \union {"loop"}
      BY <2>a
    <3> QED
      BY <2>8, <2>9, <3>1 DEF Budget, Goal
<1>8. ASSUME NEW done \in BOOLEAN, NEW told \in BOOLEAN, Root!Exhaust(done, told) PROVE Goal
  <2> DEFINE current == row.id = goal.id
             later == IF current /\ done THEN Root!Counted(row, turn, TRUE) ELSE row
             seen == IF current THEN later ELSE Root!Past
  <2>1. /\ at = "exhaust" /\ at' = "close" /\ (told => done) /\ UNCHANGED <<seg, spent, refused>>
        /\ row' = later
        /\ goal' = (IF told THEN Root!Learned(seen, FALSE) ELSE goal)
    BY <1>8 DEF Root!Exhaust, Root!Told, Root!Untold
  <2>2. Root!Counted(row, turn, TRUE).id = row.id /\ Root!Counted(row, turn, TRUE).status # "active"
    BY <1>t DEF Root!Counted, GoalRows
  <2>3. Root!Past.id = goal.id /\ Root!Past.status # "active"
    BY DEF Root!Past
  <2>a. at' = "close" /\ UNCHANGED <<seg, spent, refused>> /\ (told => done)
    BY <2>1
  <2>4. seen.id = goal.id /\ (told => seen.status # "active")
    BY <2>a, <2>2, <2>3
  <2>5. later = row \/ later.status # "active"
    BY <2>2
  <2>6. later.id = row.id
    BY <2>2
  <2> HIDE DEF seen, later
  <2>7. Root!Learned(seen, FALSE).id = goal.id /\ (told => ~Root!Learned(seen, FALSE).bound)
    BY <2>4 DEF Root!Learned
  <2> QED
    <3>1. /\ row'.id = row.id /\ goal'.id = goal.id
          /\ row'.status = "active" => row' = row
          /\ goal'.bound => goal' = goal
      BY <2>1, <2>5, <2>6, <2>7
    <3>2. at \notin {"settle", "finish", "leave", "gone"}
      BY <2>1
    <3> QED
      BY <1>u, <2>a, <3>1, <3>2 DEF Budget, Goal
<1>9. ASSUME Root!Decide PROVE Goal
  <2>1. /\ at = "decide" /\ UNCHANGED <<goal, spent, refused>>
        /\ row' = row \/ row' = [row EXCEPT !.counted = FALSE]
        /\ \/ at' \in {"exhaust", "close"} /\ seg' = seg
           \/ at' = "loop" /\ goal.bound /\ goal.used < Total /\ seg' = seg + 1
    BY <1>9 DEF Root!Decide, Root!GoesOn
  <2>2. row'.id = row.id /\ row'.status = row.status /\ row'.used = row.used
    BY <1>t, <2>1 DEF GoalRows
  <2>3. CASE at' \in {"exhaust", "close"} /\ seg' = seg
    BY <1>u, <2>1, <2>2, <2>3 DEF Budget, Goal
  <2>4. CASE at' = "loop" /\ goal.bound /\ goal.used < Total /\ seg' = seg + 1
    <3>1. goal.used \in Nat
      BY <1>t DEF Snapshots
    <3>2. ~refused => spent < Total
      BY <1>u, <1>t, <1>n, <2>1, <2>4, <3>1 DEF Budget
    <3>3. seg' # 0 /\ (spent < Total => spent < Total + PerSegment + 0)
      BY <1>t, <1>n, <2>4
    <3> QED
      BY <1>u, <2>1, <2>2, <2>4, <3>2, <3>3 DEF Budget, Goal
  <2> QED
    BY <2>1, <2>3, <2>4
<1>10. ASSUME Root!NoReport \/ Root!NoTimeLeft \/ Root!Settle \/ Root!EmitFinish \/ Root!Leave PROVE Goal
  <2>1. /\ UNCHANGED <<goal, row, heard, spent, refused, seg>>
        /\ at' \notin Before \union Segment \union {"loop"}
        /\ at \in {"settle", "finish", "leave", "gone"} => at' \in {"settle", "finish", "leave", "gone"}
    BY <1>10 DEF Root!NoReport, Root!NoTimeLeft, Root!Settle, Root!EmitFinish, Root!Leave
  <2> QED
    BY <1>1, <2>1
<1>11. ASSUME Root!CloseStream PROVE Goal
  <2>1. at' = "settle" /\ UNCHANGED <<row, spent, refused, seg>> /\ ~goal'.bound
    BY <1>11 DEF Root!CloseStream, Root!NoSnapshot
  <2> QED
    BY <1>u, <2>1 DEF Budget, Goal
<1>12. ASSUME Root!PlannerStarts \/ Root!PlannerEnds \/ Root!Cancel \/ Root!Expire PROVE Goal
  <2>1. UNCHANGED <<at, goal, row, heard, spent, refused, seg>>
    BY <1>12 DEF Root!PlannerStarts, Root!PlannerEnds, Root!Cancel, Root!Expire
  <2> QED
    BY <1>1, <2>1
<1>13. ASSUME NEW status \in {"ended", "paused"}, Root!GoalChanges(status) PROVE Goal
  <2>1. row'.id = row.id /\ row'.status = status /\ UNCHANGED <<at, goal, spent, refused, seg>>
    BY <1>13, <1>t DEF Root!GoalChanges, GoalRows
  <2> QED
    BY <1>u, <1>13, <2>1 DEF Budget, Goal
<1>14. Goal
  BY <1>2, <1>3, <1>4, <1>5, <1>6, <1>7, <1>8, <1>9, <1>10, <1>11, <1>12, <1>13
     DEF Root!Next, Root!Run
<1> QED
  BY <1>14 DEF Goal

\* A run starts with nothing done.
LEMMA RootStarts ==
    ASSUME Init
    PROVE  RootInv
<1>n. TurnLimit \in Nat \ {0} /\ Total \in Nat \ {0} /\ PerSegment \in Nat \ {0}
  BY AgentRunAssumption DEF Root!AgentRunAssumption
<1>1. /\ at = "idle" /\ turn = 0 /\ seg = 0 /\ reason = "none" /\ limit = TurnLimit /\ clock = "off"
      /\ batch = <<>> /\ calls = <<>> /\ next = 1 /\ group = 0 /\ open = {}
      /\ goal = Root!NoSnapshot /\ planner = "none"
      /\ ~counter /\ ~written /\ ~reused /\ final = "none" /\ ~after
      /\ {counter, written, reused, after, refused} \subseteq BOOLEAN
      /\ heard = row.status /\ spent = 0 /\ ~refused
  BY DEF Init, Root!Init
<1>r. PICK id \in Nat, status \in {"none", "active"} :
          /\ row = [id |-> id, status |-> status, used |-> 0, counted |-> FALSE]
          /\ status = "active" => id = 1
  BY DEF Init, Root!Init
<1>2. row \in GoalRows /\ ~row.counted /\ row.used = 0 /\ (row.status = "active" => row.id # 0)
  BY <1>r DEF GoalRows
<1>3. /\ goal \in Snapshots /\ ~goal.bound /\ goal.id = 0 /\ goal.used = 0
  BY <1>1 DEF Root!NoSnapshot, Snapshots
<1>4. DOMAIN calls = {} /\ Root!Working = {}
  BY <1>1 DEF Root!Working
<1>5. RunTypes
  BY <1>n, <1>1, <1>2, <1>3, <1>4 DEF RunTypes
<1>6. Groups
  BY <1>1, <1>4 DEF Groups
<1>7. Opened
  BY <1>1 DEF Opened, Behindhand
<1>8. LastWord
  BY <1>1 DEF LastWord
<1>9. Binding
  BY <1>1, <1>2, <1>3 DEF Binding, Segment
<1>10. Budget
  BY <1>n, <1>1, <1>2, <1>3 DEF Budget
<1> QED
  BY <1>5, <1>6, <1>7, <1>8, <1>9, <1>10 DEF RootInv

\* The run keeps its invariant, and a step of another part leaves it alone.
LEMMA RootKeeps ==
    ASSUME RootInv, Root!Next \/ UNCHANGED r_vars
    PROVE  RootInv'
<1>1. CASE Root!Next
  BY <1>1, RunTypesKept, GroupsKept, OpenedKept, LastWordKept, BindingKept, BudgetKept DEF RootInv
<1>2. CASE UNCHANGED r_vars
  BY <1>2 DEF r_vars, RootInv, RunTypes, Groups, Opened, LastWord, Binding, Budget, Root!Working,
     Root!LoopDone, Root!Cancelled, Root!PlannerOver
<1> QED
  BY <1>1, <1>2

-----------------------------------------------------------------------------
(* Proofs: the task of a child process                                     *)

\* What lies between the child and the capture is a sequence.
LEMMA StreamIs ==
    ASSUME TaskTypes
    PROVE  /\ Len(chan) \in Nat /\ Len(queue) \in Nat /\ Held \in {0, 1}
           /\ Behind \in Nat /\ Waiting \in Nat
           /\ \A i \in 1 .. Waiting : Event(i) \in Events
<1>1. /\ Len(chan) \in Nat /\ Len(queue) \in Nat /\ Held \in {0, 1}
      /\ chan \in Seq(Events) /\ queue \in Seq(Events) /\ (Held = 1 => hand \in Events)
  BY DEF TaskTypes, Held
<1>2. Behind \in Nat /\ Waiting \in Nat
  BY <1>1 DEF Behind, Waiting
<1>3. ASSUME NEW i \in 1 .. Waiting PROVE Event(i) \in Events
  <2>1. CASE i <= Len(chan)
    BY <1>1, <1>3, <2>1 DEF Event
  <2>2. CASE i > Len(chan) /\ i <= Behind
    <3>1. Held = 1 /\ Event(i) = hand
      BY <1>1, <1>3, <2>2 DEF Event, Behind
    <3> QED
      BY <1>1, <3>1
  <2>3. CASE i > Behind /\ i > Len(chan)
    <3>1. Event(i) = queue[i - Behind] /\ i - Behind \in 1 .. Len(queue)
      BY <1>1, <1>2, <1>3, <2>3 DEF Event, Waiting
    <3> QED
      BY <1>1, <3>1
  <2>4. Len(chan) <= Behind
    BY <1>1 DEF Behind
  <2> QED
    BY <1>1, <1>2, <2>1, <2>2, <2>3, <2>4
<1> QED
  BY <1>1, <1>2, <1>3

\* A new event is the last of the stream.
LEMMA StreamGrows ==
    ASSUME TaskTypes, NEW e \in Events, queue' = Append(queue, e), UNCHANGED <<chan, hand, sleeper>>
    PROVE  /\ Waiting' = Waiting + 1
           /\ \A i \in 1 .. Waiting : Event(i)' = Event(i)
           /\ \A i : i = Waiting + 1 => Event(i)' = e
<1>1. /\ Len(chan) \in Nat /\ Len(queue) \in Nat /\ Held \in {0, 1} /\ Behind \in Nat
  BY StreamIs
<1>2. queue \in Seq(Events)
  BY DEF TaskTypes
<1>3. /\ Len(queue') = Len(queue) + 1 /\ queue'[Len(queue) + 1] = e
      /\ \A k \in 1 .. Len(queue) : queue'[k] = queue[k]
  BY <1>2
<1>4. Behind' = Behind
  BY DEF Behind, Held
<1>5. Waiting' = Waiting + 1
  BY <1>1, <1>3, <1>4 DEF Waiting
<1>6. ASSUME NEW i \in 1 .. Waiting PROVE Event(i)' = Event(i)
  <2>1. i > Behind => i - Behind \in 1 .. Len(queue)
    BY <1>1, <1>6 DEF Waiting
  <2> QED
    BY <1>1, <1>3, <1>4, <2>1 DEF Event
<1>7. ASSUME NEW i, i = Waiting + 1 PROVE Event(i)' = e
  <2>1. i \in Nat /\ i > Behind /\ i > Len(chan) /\ i - Behind = Len(queue) + 1
    BY <1>1, <1>7 DEF Waiting, Behind
  <2> QED
    BY <1>1, <1>3, <1>4, <2>1 DEF Event
<1> QED
  BY <1>5, <1>6, <1>7

\* The dispatcher moves an event on, and the stream is the same.
LEMMA StreamPasses ==
    ASSUME TaskTypes, Task!Wake \/ Task!Take \/ Task!Deliver
    PROVE  Waiting' = Waiting /\ \A i \in 1 .. Waiting : Event(i)' = Event(i)
<1>1. /\ Len(chan) \in Nat /\ Len(queue) \in Nat /\ chan \in Seq(Events) /\ queue \in Seq(Events)
      /\ Waiting \in Nat
  BY StreamIs DEF TaskTypes
<1>2. CASE Task!Wake \/ (Task!Take /\ queue = <<>>)
  <2>1. UNCHANGED <<chan, queue, hand>> /\ Held = 0 /\ Held' = 0
    BY <1>2 DEF Task!Wake, Task!Take, Held
  <2> QED
    BY <2>1 DEF Waiting, Behind, Event
<1>3. CASE Task!Take /\ queue # <<>>
  <2>1. /\ chan' = chan /\ Held = 0 /\ Held' = 1 /\ hand' = Head(queue) /\ queue' = Tail(queue)
    BY <1>3 DEF Task!Take, Held
  <2>2. /\ Len(queue') = Len(queue) - 1 /\ hand' = queue[1]
        /\ \A k \in 1 .. Len(queue) - 1 : queue'[k] = queue[k + 1]
    BY <1>1, <1>3, <2>1
  <2>3. Waiting' = Waiting
    <3>1. Len(queue') = Len(queue) - 1 /\ Len(chan') = Len(chan)
      BY <2>1, <2>2
    <3>2. Waiting = (Len(chan) + 0) + Len(queue) /\ Waiting' = (Len(chan) + 1) + (Len(queue) - 1)
      BY <2>1, <3>1 DEF Waiting, Behind
    <3> QED
      BY <1>1, <3>2
  <2>4. ASSUME NEW i \in 1 .. Waiting PROVE Event(i)' = Event(i)
    <3>1. CASE i <= Len(chan)
      BY <2>1, <3>1 DEF Event
    <3>2. CASE i = Len(chan) + 1
      BY <1>1, <2>1, <2>2, <3>2 DEF Event, Behind
    <3>3. CASE i > Len(chan) + 1
      <4>1. i - (Len(chan) + 1) \in 1 .. Len(queue) - 1
        BY <1>1, <2>1, <2>4, <3>3 DEF Waiting, Behind
      <4>2. Behind = Len(chan) /\ Behind' = Len(chan) + 1
        BY <1>1, <2>1 DEF Behind
      <4>5. ~(i <= Len(chan)) /\ ~(i <= Len(chan) + 1) /\ chan' = chan
        BY <1>1, <2>1, <3>3
      <4>3. Event(i)' = queue'[i - (Len(chan) + 1)] /\ Event(i) = queue[i - Len(chan)]
        BY <4>2, <4>5 DEF Event
      <4>4. (i - (Len(chan) + 1)) + 1 = i - Len(chan)
        BY <1>1
      <4> QED
        BY <2>2, <4>1, <4>3, <4>4
    <3> QED
      BY <1>1, <3>1, <3>2, <3>3
  <2> QED
    BY <2>3, <2>4
<1>4. CASE Task!Deliver
  <2>1. /\ queue' = queue /\ Held = 1 /\ Held' = 0 /\ chan' = Append(chan, hand) /\ hand \in Events
    BY <1>4 DEF Task!Deliver, Held, TaskTypes
  <2>2. /\ Len(chan') = Len(chan) + 1 /\ chan'[Len(chan) + 1] = hand
        /\ \A k \in 1 .. Len(chan) : chan'[k] = chan[k]
    BY <1>1, <2>1
  <2>3. Behind = Len(chan) + 1 /\ Behind' = Len(chan) + 1
    BY <1>1, <2>1, <2>2 DEF Behind
  <2>4. Waiting' = Waiting
    BY <2>1, <2>3 DEF Waiting
  <2>5. ASSUME NEW i \in 1 .. Waiting PROVE Event(i)' = Event(i)
    BY <1>1, <2>1, <2>2, <2>3 DEF Event
  <2> QED
    BY <2>4, <2>5
<1> QED
  BY <1>2, <1>3, <1>4

\* The loop of Start takes the oldest event.
LEMMA StreamShrinks ==
    ASSUME TaskTypes, chan # <<>>, chan' = Tail(chan), UNCHANGED <<queue, hand, sleeper>>
    PROVE  /\ Waiting \in Nat \ {0} /\ Waiting' = Waiting - 1 /\ Event(1) = Head(chan)
           /\ \A i \in 1 .. Waiting - 1 : Event(i)' = Event(i + 1)
<1>1. /\ Len(chan) \in Nat /\ Len(queue) \in Nat /\ Held \in {0, 1} /\ chan \in Seq(Events)
      /\ Waiting \in Nat
  BY StreamIs DEF TaskTypes
<1>2. /\ Len(chan) # 0 /\ Len(chan') = Len(chan) - 1 /\ Head(chan) = chan[1]
      /\ \A k \in 1 .. Len(chan) - 1 : chan'[k] = chan[k + 1]
  BY <1>1
<1>3. Behind = Len(chan) + Held /\ Behind' = Behind - 1
  BY <1>1, <1>2 DEF Behind, Held
<1>4. Waiting = Behind + Len(queue) /\ Waiting' = Waiting - 1 /\ Waiting # 0
  BY <1>1, <1>2, <1>3 DEF Waiting
<1>5. Event(1) = Head(chan)
  BY <1>1, <1>2 DEF Event
<1>6. ASSUME NEW i \in 1 .. Waiting - 1 PROVE Event(i)' = Event(i + 1)
  <2>1. CASE i <= Len(chan) - 1
    BY <1>1, <1>2, <2>1 DEF Event
  <2>2. CASE i > Len(chan) - 1
    <3>1. (i + 1) - Behind = i - (Behind - 1)
      BY <1>1, <1>3
    <3>2. (i + 1 <= Behind <=> i <= Behind - 1) /\ ~(i + 1 <= Len(chan)) /\ ~(i <= Len(chan'))
      BY <1>1, <1>2, <1>3, <2>2
    <3> QED
      BY <1>3, <3>1, <3>2 DEF Event
  <2> QED
    BY <1>1, <2>1, <2>2
<1> QED
  BY <1>1, <1>4, <1>5, <1>6

\* An empty stream keeps in order what was seen.
LEMMA NothingWaits ==
    ASSUME Waiting' = 0, busy' = 0, stage' \notin {"watch", "cancelling"},
           \A i \in 1 .. Len(saw') : saw'[i] = i, texts' # {} => Len(saw') >= 1,
           stage' \in {"permit", "process", "call"} => saw' = <<>> /\ texts' = {},
           stage' = "call" => wrote' = 0
    PROVE  OwnEvents' /\ NoGap'
  BY DEF OwnEvents, NoGap

\* A step that leaves the stream leaves its order.
LEMMA StreamStays ==
    ASSUME TaskTypes, OwnEvents, NoGap,
           Waiting' = Waiting, \A i \in 1 .. Waiting : Event(i)' = Event(i),
           UNCHANGED <<task, saw, texts, wrote>>, busy' \in {busy, 0},
           \/ stage' = stage
           \/ stage = "watch" /\ stage' = "cancelling"
           \/ stage = "permit" /\ stage' = "process"
    PROVE  OwnEvents' /\ NoGap'
<1>1. OwnEvents'
  BY DEF OwnEvents
<1>2. NoGap'
  BY DEF NoGap
<1> QED
  BY <1>1, <1>2

\* Values keep their types.
LEMMA TaskTypesKept ==
    ASSUME TaskInv, Task!TaskNext
    PROVE  TaskTypes'
<1> USE DEF Task!job, Task!registry, Task!child, Task!pipe, Task!capture, Stages
<1> DEFINE Goal == TaskTypes'
<1>t. TaskTypes
  BY DEF TaskInv
<1>y. /\ task \in Nat /\ busy \in Nat /\ wrote \in Nat /\ stage \in Stages
      /\ kind \in {"none", "worker", "planner", "skill"} /\ (Task!InHand => kind # "none")
      /\ pooled \in BOOLEAN
      /\ chan \in Seq(Events) /\ queue \in Seq(Events)
      /\ sleeper \in {"asleep", "awake", "holding"} /\ (sleeper = "holding" => hand \in Events)
      /\ saw \in Seq(Nat) /\ texts \subseteq {"text", "fallback"}
  BY <1>t DEF TaskTypes
<1>g. ASSUME task' \in Nat, stage' \in Stages, kind' \in {"none", "worker", "planner", "skill"},
             stage' \notin {"idle", "ended"} => kind' # "none",
             pooled' \in BOOLEAN, busy' \in Nat, wrote' \in Nat,
             chan' \in Seq(Events), queue' \in Seq(Events), sleeper' \in {"asleep", "awake", "holding"},
             sleeper' = "holding" => hand' \in Events, saw' \in Seq(Nat), texts' \subseteq {"text", "fallback"}
      PROVE  Goal
  BY <1>g DEF TaskTypes, Task!InHand
<1>i. stage \notin {"idle", "ended"} => kind # "none"
  BY <1>y DEF Task!InHand
<1> HIDE DEF Goal
<1>1. ASSUME NEW outcome, Task!Return(outcome), saw' \in Seq(Nat), texts' \subseteq {"text", "fallback"} PROVE Goal
  <2>1. /\ stage' = "ended" /\ UNCHANGED <<task, kind, pooled>>
        /\ \/ UNCHANGED <<busy, wrote, queue, sleeper, hand, chan>>
           \/ busy' = 0 /\ wrote' = 0 /\ queue' = <<>> /\ sleeper' = "asleep" /\ chan' = <<>>
    BY <1>1 DEF Task!Return, Task!FreshChild, Task!FreshPipe
  <2>2. CASE UNCHANGED <<busy, wrote, queue, sleeper, hand, chan>>
    BY <1>g, <1>y, <1>1, <2>1, <2>2
  <2>3. CASE busy' = 0 /\ wrote' = 0 /\ queue' = <<>> /\ sleeper' = "asleep" /\ chan' = <<>>
    BY <1>g, <1>y, <1>1, <2>1, <2>3
  <2> QED
    BY <2>1, <2>2, <2>3
<1>2. ASSUME Task!PermitFails \/ Task!NoProcess \/ Task!CallFails \/ Task!CancelChild \/ Task!SeeExit
      PROVE  Goal
  <2>1. UNCHANGED <<saw, texts>> /\ \E outcome \in {"failed", Task!Failure} : Task!Return(outcome)
    BY <1>2 DEF Task!PermitFails, Task!NoProcess, Task!CallFails, Task!CancelChild, Task!SeeExit
  <2> QED
    BY <1>1, <1>y, <2>1
<1>3. ASSUME \/ Task!PermitGranted \/ Task!SeeDone \/ Task!ProxyAnswers \/ Task!Expire \/ Task!CancelTask
             \/ Task!CancelByParent \/ Task!ResetTask \/ Task!ChildAsks \/ Task!ProcessEnds
      PROVE  Goal
  <2>1. /\ UNCHANGED <<task, kind, pooled, wrote, queue, sleeper, hand, chan, saw, texts>>
        /\ busy' \in {busy, 0}
        /\ stage' \in Stages /\ (stage' = stage \/ stage \in {"permit", "watch"})
    BY <1>3, <1>y DEF Task!PermitGranted, Task!SeeDone, Task!ProxyAnswers, Task!Expire, Task!CancelTask,
       Task!CancelByParent, Task!ResetTask, Task!ChildAsks, Task!ProcessEnds
  <2> QED
    BY <1>g, <1>y, <1>i, <2>1
<1>4. ASSUME Task!GetProcess PROVE Goal
  <2>1. /\ stage = "process" /\ stage' = "call" /\ UNCHANGED <<task, kind, pooled, saw, texts>> /\ wrote' = 0
        /\ \/ UNCHANGED <<busy, queue, sleeper, hand, chan>>
           \/ busy' = 0 /\ queue' = <<>> /\ sleeper' = "asleep" /\ chan' = <<>>
    BY <1>4 DEF Task!GetProcess, Task!NewProcess, Task!FreshChild, Task!FreshPipe
  <2>2. CASE UNCHANGED <<busy, queue, sleeper, hand, chan>>
    BY <1>g, <1>y, <1>i, <2>1, <2>2
  <2>3. CASE busy' = 0 /\ queue' = <<>> /\ sleeper' = "asleep" /\ chan' = <<>>
    BY <1>g, <1>y, <1>i, <2>1, <2>3
  <2> QED
    BY <2>1, <2>2, <2>3
<1>5. ASSUME Task!Accepted PROVE Goal
  <2>1. /\ stage = "call" /\ stage' = "watch" /\ busy' = task
        /\ UNCHANGED <<task, kind, pooled, wrote, queue, sleeper, hand, chan, saw, texts>>
    BY <1>5 DEF Task!Accepted
  <2> QED
    BY <1>g, <1>y, <1>i, <2>1
<1>6. ASSUME Task!SeeEvent PROVE Goal
  <2> DEFINE e == Head(chan)
  <2>1. stage = "watch" /\ chan # <<>> /\ e \in Events /\ Tail(chan) \in Seq(Events)
    BY <1>6, <1>y DEF Task!SeeEvent
  <2>2. /\ saw' = (IF e.no > 0 THEN Append(saw, e.no) ELSE saw)
        /\ texts' = (IF e.kind \in {"text", "fallback"} THEN texts \union {e.kind} ELSE texts)
        /\ \/ Task!Return(Task!Outcome(e.kind, texts))
           \/ /\ chan' = Tail(chan) /\ stage' \in {"ended", stage}
              /\ UNCHANGED <<task, kind, pooled, busy, wrote, queue, sleeper, hand>>
    BY <1>6 DEF Task!SeeEvent, Task!Observe
  <2>3. e.no \in Nat
    BY <2>1 DEF Events
  <2> HIDE DEF e
  <2>4. saw' \in Seq(Nat) /\ texts' \subseteq {"text", "fallback"}
    <3>1. saw' = saw \/ saw' = Append(saw, e.no)
      BY <2>2
    <3>2. saw' \in Seq(Nat)
      BY <1>y, <2>3, <3>1, SMTT(40)
    <3>3. texts' = texts \/ (texts' = texts \union {e.kind} /\ e.kind \in {"text", "fallback"})
      BY <2>2
    <3>4. texts' \subseteq {"text", "fallback"}
      BY <1>y, <3>3
    <3> QED
      BY <3>2, <3>4
  <2>5. CASE Task!Return(Task!Outcome(e.kind, texts))
    BY <1>1, <2>4, <2>5
  <2>6. CASE /\ chan' = Tail(chan) /\ stage' \in {"ended", stage}
             /\ UNCHANGED <<task, kind, pooled, busy, wrote, queue, sleeper, hand>>
    BY <1>g, <1>y, <1>i, <2>1, <2>4, <2>6
  <2> QED
    BY <2>2, <2>5, <2>6
<1>7. ASSUME Task!Wake \/ Task!Take \/ Task!Deliver PROVE Goal
  <2>1. UNCHANGED <<task, kind, pooled, stage, busy, wrote, saw, texts>>
    BY <1>7 DEF Task!Wake, Task!Take, Task!Deliver
  <2>2. /\ chan' \in Seq(Events) /\ queue' \in Seq(Events) /\ sleeper' \in {"asleep", "awake", "holding"}
        /\ (sleeper' = "holding" => hand' \in Events)
    <3>1. CASE Task!Wake \/ (Task!Take /\ queue = <<>>)
      BY <1>y, <3>1 DEF Task!Wake, Task!Take
    <3>2. CASE Task!Take /\ queue # <<>>
      <4>1. sleeper' = "holding" /\ hand' = Head(queue) /\ queue' = Tail(queue) /\ chan' = chan
        BY <3>2 DEF Task!Take
      <4>2. Head(queue) \in Events /\ Tail(queue) \in Seq(Events)
        BY <1>y, <3>2
      <4> QED
        BY <1>y, <4>1, <4>2
    <3>3. CASE Task!Deliver
      BY <1>y, <3>3 DEF Task!Deliver
    <3> QED
      BY <1>7, <3>1, <3>2, <3>3
  <2> QED
    BY <1>g, <1>y, <1>i, <2>1, <2>2
<1>8. ASSUME NEW k, NEW fromPool \in BOOLEAN, k \in {"worker", "planner", "skill"},
             Task!Begin(k, fromPool), stage' \in {"permit", "process"}
      PROVE  Goal
  <2>1. /\ task' = task + 1 /\ kind' = k /\ pooled' = fromPool /\ saw' = <<>> /\ texts' = {}
        /\ UNCHANGED <<busy, wrote, queue, sleeper, hand, chan>>
    BY <1>8 DEF Task!Begin
  <2>2. task' \in Nat /\ <<>> \in Seq(Nat)
    BY <1>y, <2>1
  <2> QED
    BY <1>g, <1>y, <1>8, <2>1, <2>2
<1>9. ASSUME \/ \E fromPool \in BOOLEAN : Task!BeginWorker(fromPool) \/ Task!BeginPlanner(fromPool)
             \/ Task!BeginSkill
      PROVE  Goal
  <2>1. \E k \in {"worker", "planner", "skill"}, fromPool \in BOOLEAN :
            Task!Begin(k, fromPool) /\ stage' \in {"permit", "process"}
    BY <1>9 DEF Task!BeginWorker, Task!BeginPlanner, Task!BeginSkill
  <2> QED
    BY <1>8, <2>1
<1>10. ASSUME NEW e \in Events, Task!Enqueue(e),
              UNCHANGED <<task, kind, pooled, stage, saw, texts>>, wrote' \in Nat, busy' \in {busy, 0}
       PROVE  Goal
  <2>1. (queue' = queue \/ queue' = Append(queue, e)) /\ UNCHANGED <<sleeper, hand, chan>>
    BY <1>10 DEF Task!Enqueue
  <2>2. queue' \in Seq(Events)
    BY <1>y, <2>1
  <2> QED
    BY <1>g, <1>y, <1>i, <1>10, <2>1, <2>2
<1>11. ASSUME NEW k \in {"text", "fallback", "usage"}, Task!ChildSays(k) PROVE Goal
  <2> DEFINE e == [task |-> busy, no |-> IF k \in Task!Optional THEN 0 ELSE wrote + 1, kind |-> k]
  <2>1. Task!Enqueue(e) /\ UNCHANGED <<task, kind, pooled, stage, saw, texts, busy>>
        /\ wrote' = IF k \in Task!Optional THEN wrote ELSE wrote + 1
    BY <1>11 DEF Task!ChildSays
  <2>2. e \in Events /\ wrote' \in Nat
    BY <1>y, <2>1 DEF Events, EventKinds
  <2> HIDE DEF e
  <2> QED
    BY <1>10, <2>1, <2>2
<1>12. ASSUME NEW status \in Task!Statuses, Task!ChildFinishes(status) PROVE Goal
  <2> DEFINE e == [task |-> busy, no |-> wrote + 1, kind |-> status]
  <2>1. Task!Enqueue(e) /\ UNCHANGED <<task, kind, pooled, stage, saw, texts>> /\ busy' = 0
        /\ wrote' = wrote + 1
    BY <1>12 DEF Task!ChildFinishes
  <2>2. e \in Events /\ wrote' \in Nat
    BY <1>y, <2>1 DEF Events, EventKinds, Task!Statuses
  <2> HIDE DEF e
  <2> QED
    BY <1>10, <2>1, <2>2
<1>13. ASSUME Task!PoolCloses PROVE Goal
  <2>1. /\ UNCHANGED <<task, kind, pooled, stage, saw, texts>>
        /\ busy' = 0 /\ wrote' = 0 /\ queue' = <<>> /\ sleeper' = "asleep" /\ chan' = <<>>
    BY <1>13 DEF Task!PoolCloses, Task!FreshChild, Task!FreshPipe
  <2> QED
    BY <1>g, <1>y, <1>i, <2>1
<1>14. Goal
  BY <1>2, <1>3, <1>4, <1>5, <1>6, <1>7, <1>9, <1>11, <1>12, <1>13
     DEF Task!TaskNext, Task!Parent, Task!Work
<1> QED
  BY <1>14 DEF Goal

\* A critical event is not dropped; it follows what the child wrote before.
LEMMA ChildWrites ==
    ASSUME TaskTypes, OwnEvents, NoGap, busy # 0, NEW e \in Events, Task!Enqueue(e),
           UNCHANGED <<task, stage, saw, texts>>, e.task = busy,
           \/ e.kind = "usage" /\ e.no = 0 /\ wrote' = wrote /\ busy' = busy
           \/ e.kind \in {"text", "fallback"} /\ e.no = wrote + 1 /\ wrote' = wrote + 1 /\ busy' = busy
           \/ e.kind \in Task!Statuses /\ e.no = wrote + 1 /\ wrote' = wrote + 1 /\ busy' = 0
    PROVE  OwnEvents' /\ NoGap'
<1>t. wrote \in Nat /\ Waiting \in Nat /\ saw \in Seq(Nat) /\ Len(saw) \in Nat /\ \A i \in 1 .. Waiting : Event(i) \in Events
  BY StreamIs DEF TaskTypes
<1>o. /\ stage \in {"watch", "cancelling"} /\ busy = task
      /\ \A i \in 1 .. Waiting :
            /\ Event(i).task = task /\ (Event(i).kind = "usage" <=> Event(i).no = 0)
            /\ Event(i).kind \notin Task!Statuses
  BY DEF OwnEvents
<1>g. /\ Len(saw) <= wrote
      /\ \A i \in 1 .. Waiting : Event(i).no # 0 => Event(i).no \in Len(saw) + 1 .. wrote
      /\ \A i, j \in 1 .. Waiting : i < j /\ Event(i).no # 0 /\ Event(j).no # 0 => Event(i).no < Event(j).no
      /\ \A n \in Len(saw) + 1 .. wrote : \E i \in 1 .. Waiting : Event(i).no = n
      /\ \A i \in 1 .. Len(saw) : saw[i] = i
      /\ texts # {} => Len(saw) >= 1
  BY <1>o DEF NoGap
<1>1. CASE Task!Dropped(e)
  <2>1. e.kind = "usage" /\ UNCHANGED <<queue, sleeper, hand, chan>>
    BY <1>1 DEF Task!Enqueue, Task!Dropped, Task!Optional
  <2>2. Waiting' = Waiting /\ \A i \in 1 .. Waiting : Event(i)' = Event(i)
    BY <2>1 DEF Waiting, Behind, Held, Event
  <2>3. UNCHANGED <<wrote, busy>>
    BY <2>1 DEF Task!Statuses
  <2> QED
    BY <2>2, <2>3, StreamStays
<1>2. CASE ~Task!Dropped(e)
  <2>1. queue' = Append(queue, e) /\ UNCHANGED <<chan, hand, sleeper>>
    BY <1>2 DEF Task!Enqueue
  <2>2. /\ Waiting' = Waiting + 1
        /\ \A i \in 1 .. Waiting : Event(i)' = Event(i)
        /\ \A i : i = Waiting + 1 => Event(i)' = e
    BY <2>1, StreamGrows
  <2>3. \A i \in 1 .. Waiting' : i \in 1 .. Waiting \/ i = Waiting'
    BY <1>t, <2>2
  <2>4. \A i : i = Waiting' => Event(i)' = e
    BY <2>2
  <2>k. e.kind = "usage" <=> e.no = 0
    BY <1>t DEF Task!Statuses
  <2>5. OwnEvents'
    <3>1. ASSUME NEW i \in 1 .. Waiting'
          PROVE  /\ Event(i)'.task = task'
                 /\ Event(i)'.kind = "usage" <=> Event(i)'.no = 0
                 /\ Event(i)'.kind \in Task!Statuses => i = Waiting' /\ busy' = 0
      <4>1. CASE i \in 1 .. Waiting
        BY <1>o, <2>2, <4>1
      <4>2. CASE i = Waiting'
        BY <1>o, <2>4, <2>k, <4>2 DEF Task!Statuses
      <4> QED
        BY <2>3, <4>1, <4>2
    <3> QED
      BY <1>o, <3>1 DEF OwnEvents
  <2>6. NoGap'
    <3>w. wrote' \in Nat /\ wrote <= wrote' /\ wrote' <= wrote + 1 /\ (e.no # 0 => e.no = wrote' /\ wrote' = wrote + 1)
          /\ (e.no = 0 => wrote' = wrote)
      BY <1>t
    <3>1. ASSUME NEW i \in 1 .. Waiting', Event(i)'.no # 0
          PROVE  Event(i)'.no \in Len(saw) + 1 .. wrote'
      <4>1. CASE i \in 1 .. Waiting
        BY <1>t, <1>g, <2>2, <3>1, <3>w, <4>1
      <4>2. CASE i = Waiting'
        <5>1. Event(i)' = e
          BY <2>4, <4>2
        <5> QED
          BY <1>t, <1>g, <3>1, <3>w, <5>1
      <4> QED
        BY <2>3, <4>1, <4>2
    <3>2. ASSUME NEW i \in 1 .. Waiting', NEW j \in 1 .. Waiting', i < j, Event(i)'.no # 0, Event(j)'.no # 0
          PROVE  Event(i)'.no < Event(j)'.no
      <4>0. i \in 1 .. Waiting
        BY <1>t, <2>2, <3>2
      <4>1. CASE j \in 1 .. Waiting
        BY <1>g, <2>2, <3>2, <4>0, <4>1
      <4>2. CASE j = Waiting'
        <5>1. Event(j)' = e /\ Event(i)' = Event(i)
          BY <2>2, <2>4, <4>0, <4>2
        <5>2. Event(i).no \in Len(saw) + 1 .. wrote
          BY <1>g, <3>2, <4>0, <5>1
        <5> QED
          BY <1>t, <3>2, <3>w, <5>1, <5>2
      <4> QED
        BY <2>3, <4>1, <4>2
    <3>3. ASSUME NEW n \in Len(saw) + 1 .. wrote' PROVE \E i \in 1 .. Waiting' : Event(i)'.no = n
      <4>1. CASE n \in Len(saw) + 1 .. wrote
        <5>1. PICK i \in 1 .. Waiting : Event(i).no = n
          BY <1>g, <4>1
        <5>2. i \in 1 .. Waiting' /\ Event(i)' = Event(i)
          BY <1>t, <2>2, <5>1
        <5> QED
          BY <5>1, <5>2
      <4>2. CASE n \notin Len(saw) + 1 .. wrote
        <5>1. n = wrote' /\ wrote' = wrote + 1
          BY <1>t, <3>3, <3>w, <4>2
        <5>2. e.no = n
          BY <3>w, <1>t, <5>1
        <5>3. \A i : i = Waiting' => i \in 1 .. Waiting' /\ Event(i)'.no = n
          BY <1>t, <2>2, <2>4, <5>2
        <5>4. \E i : i = Waiting'
          OBVIOUS
        <5> QED
          BY <5>3, <5>4
      <4> QED
        BY <4>1, <4>2
    <3>4. Len(saw) <= wrote'
      BY <1>t, <1>g, <3>w
    <3> QED
      BY <1>o, <1>g, <3>1, <3>2, <3>3, <3>4 DEF NoGap
  <2> QED
    BY <2>5, <2>6
<1> QED
  BY <1>1, <1>2

\* The events of a task stay its own, and none is missed.
LEMMA StreamKept ==
    ASSUME TaskInv, TaskTypes', Task!TaskNext
    PROVE  OwnEvents' /\ NoGap'
<1> USE DEF Task!job, Task!registry, Task!child, Task!pipe, Task!capture
<1> DEFINE Goal == OwnEvents' /\ NoGap'
           Empty == busy' = 0 /\ queue' = <<>> /\ sleeper' = "asleep" /\ chan' = <<>>
           Quiet == UNCHANGED <<queue, sleeper, hand, chan>>
<1>t. TaskTypes /\ OwnEvents /\ NoGap
  BY DEF TaskInv
<1>o. /\ busy # 0 => stage \in {"watch", "cancelling"}
      /\ stage \notin {"watch", "cancelling"} => Waiting = 0
      /\ \A i \in 1 .. Len(saw) : saw[i] = i
      /\ stage \in {"permit", "process", "call"} => saw = <<>> /\ texts = {}
      /\ texts # {} => Len(saw) >= 1
  BY <1>t DEF OwnEvents, NoGap
<1>e. ASSUME Empty PROVE Waiting' = 0
  BY <1>e DEF Waiting, Behind, Held
<1>q. ASSUME Quiet PROVE Waiting' = Waiting /\ \A i \in 1 .. Waiting : Event(i)' = Event(i)
  BY <1>q DEF Waiting, Behind, Held, Event
<1> HIDE DEF Goal
<1>1. ASSUME Empty, stage' \notin {"watch", "cancelling", "call", "permit", "process"},
             \A i \in 1 .. Len(saw') : saw'[i] = i, texts' # {} => Len(saw') >= 1
      PROVE  Goal
  BY <1>1, <1>e, NothingWaits DEF Goal
<1>2. ASSUME Task!PermitFails \/ Task!NoProcess \/ Task!CallFails \/ Task!CancelChild \/ Task!SeeExit
      PROVE  Goal
  <2>1. UNCHANGED <<saw, texts>> /\ \E outcome \in {"failed", Task!Failure} : Task!Return(outcome)
    BY <1>2 DEF Task!PermitFails, Task!NoProcess, Task!CallFails, Task!CancelChild, Task!SeeExit
  <2>2. PICK outcome \in {"failed", "cancelled"} : Task!Return(outcome)
    BY <2>1 DEF Task!Failure
  <2>3. Empty /\ stage' = "ended"
    BY <2>2 DEF Task!Return, Task!Keeps, Task!FreshChild, Task!FreshPipe
  <2> QED
    BY <1>1, <1>o, <2>1, <2>3
<1>3. ASSUME \/ Task!PermitGranted \/ Task!SeeDone \/ Task!ProxyAnswers \/ Task!Expire \/ Task!CancelTask
             \/ Task!CancelByParent \/ Task!ResetTask \/ Task!ChildAsks \/ Task!ProcessEnds
      PROVE  Goal
  <2>1. /\ Quiet /\ UNCHANGED <<task, wrote, saw, texts>> /\ busy' \in {busy, 0}
        /\ \/ stage' = stage
           \/ stage = "watch" /\ stage' = "cancelling"
           \/ stage = "permit" /\ stage' = "process"
    BY <1>3 DEF Task!PermitGranted, Task!SeeDone, Task!ProxyAnswers, Task!Expire, Task!CancelTask,
       Task!CancelByParent, Task!ResetTask, Task!ChildAsks, Task!ProcessEnds
  <2> HIDE DEF Quiet
  <2> QED
    BY <1>t, <1>q, <2>1, StreamStays DEF Goal
<1>4. ASSUME Task!Wake \/ Task!Take \/ Task!Deliver PROVE Goal
  <2>1. UNCHANGED <<task, stage, busy, wrote, saw, texts>>
    BY <1>4 DEF Task!Wake, Task!Take, Task!Deliver
  <2>2. Waiting' = Waiting /\ \A i \in 1 .. Waiting : Event(i)' = Event(i)
    BY <1>t, <1>4, StreamPasses
  <2> QED
    BY <1>t, <2>1, <2>2, StreamStays DEF Goal
<1>5. ASSUME Task!GetProcess PROVE Goal
  <2>1. stage = "process" /\ stage' = "call" /\ wrote' = 0 /\ UNCHANGED <<saw, texts>>
        /\ (Empty \/ (Quiet /\ busy' = busy))
    BY <1>5 DEF Task!GetProcess, Task!NewProcess, Task!FreshChild, Task!FreshPipe
  <2>2. Waiting' = 0 /\ busy' = 0
    BY <1>o, <1>e, <1>q, <2>1
  <2>3. saw' = <<>> /\ texts' = {} /\ Len(saw') = 0
    BY <1>o, <2>1
  <2> QED
    BY <2>1, <2>2, <2>3, NothingWaits DEF Goal
<1>6. ASSUME Task!Accepted PROVE Goal
  <2>1. /\ stage = "call" /\ stage' = "watch" /\ busy' = task /\ UNCHANGED <<task, wrote, saw, texts>> /\ Quiet
    BY <1>6 DEF Task!Accepted
  <2>2. Waiting' = 0 /\ wrote' = 0 /\ saw' = <<>> /\ texts' = {} /\ Len(saw') = 0
    BY <1>t, <1>o, <1>q, <2>1 DEF NoGap
  <2>3. OwnEvents'
    BY <2>1, <2>2 DEF OwnEvents
  <2>4. NoGap'
    BY <2>1, <2>2 DEF NoGap
  <2> QED
    BY <2>3, <2>4 DEF Goal
<1>7. ASSUME Task!SeeEvent PROVE Goal
  <2> DEFINE e == Head(chan)
  <2>1. /\ stage = "watch" /\ chan # <<>>
        /\ saw' = (IF e.no > 0 THEN Append(saw, e.no) ELSE saw)
        /\ texts' = (IF e.kind \in {"text", "fallback"} THEN texts \union {e.kind} ELSE texts)
        /\ \/ e.kind \in Task!Statuses /\ ~Task!Keeps(Task!Outcome(e.kind, texts))
              /\ Task!Return(Task!Outcome(e.kind, texts))
           \/ chan' = Tail(chan) /\ UNCHANGED <<task, busy, wrote, queue, sleeper, hand>>
              /\ stage' = (IF e.kind \in Task!Statuses THEN "ended" ELSE stage)
    BY <1>7 DEF Task!SeeEvent, Task!Observe
  <2>2. e \in Events /\ saw \in Seq(Nat) /\ Len(saw) \in Nat /\ wrote \in Nat
    BY <1>t, <2>1 DEF TaskTypes
  <2>3. Waiting \in Nat \ {0} /\ Event(1) = e
    <3>1. chan \in Seq(Events) /\ Len(chan) \in Nat \ {0} /\ Event(1) = chan[1]
      BY <1>t, <2>1 DEF TaskTypes, Event
    <3>2. Waiting \in Nat /\ Len(queue) \in Nat /\ Held \in {0, 1}
      BY <1>t, StreamIs
    <3> QED
      BY <3>1, <3>2 DEF Waiting, Behind
  <2>4. 1 \in 1 .. Waiting
    BY <2>3
  <2>5. /\ e.kind = "usage" <=> e.no = 0
        /\ e.kind \in Task!Statuses => Waiting = 1 /\ busy = 0
    BY <1>t, <2>3, <2>4 DEF OwnEvents
  <2>g. /\ \A i \in 1 .. Waiting : Event(i).no # 0 => Event(i).no \in Len(saw) + 1 .. wrote
        /\ \A i, j \in 1 .. Waiting : i < j /\ Event(i).no # 0 /\ Event(j).no # 0 => Event(i).no < Event(j).no
        /\ \A n \in Len(saw) + 1 .. wrote : \E i \in 1 .. Waiting : Event(i).no = n
        /\ Len(saw) <= wrote
    BY <1>t, <2>1 DEF NoGap
  <2>n. e.no \in Nat /\ e.kind \in EventKinds
    BY <2>2 DEF Events
  <2> HIDE DEF e
  <2>6. ASSUME e.no # 0 PROVE e.no = Len(saw) + 1
    <3>1. e.no \in Len(saw) + 1 .. wrote
      BY <2>g, <2>3, <2>4, <2>6
    <3>2. Len(saw) + 1 \in Len(saw) + 1 .. wrote
      BY <2>2, <3>1
    <3>3. PICK i \in 1 .. Waiting : Event(i).no = Len(saw) + 1
      BY <2>g, <3>2
    <3>4. CASE i = 1
      BY <2>3, <3>3, <3>4
    <3>5. CASE i # 1
      <4>1. 1 < i /\ Len(saw) + 1 # 0
        BY <2>2, <3>5
      <4>2. e.no < Len(saw) + 1
        BY <2>g, <2>3, <2>4, <2>6, <3>3, <4>1
      <4> QED
        BY <2>2, <3>1, <4>2
    <3> QED
      BY <3>4, <3>5
  <2>7. /\ Len(saw') = (IF e.no # 0 THEN Len(saw) + 1 ELSE Len(saw))
        /\ \A i \in 1 .. Len(saw') : saw'[i] = i
    <3>1. CASE e.no = 0
      <4>1. saw' = saw
        BY <2>1, <3>1
      <4> QED
        BY <1>o, <3>1, <4>1
    <3>2. CASE e.no # 0
      <4>1. saw' = Append(saw, e.no) /\ e.no = Len(saw) + 1
        BY <2>1, <2>6, <2>n, <3>2
      <4>2. /\ Len(saw') = Len(saw) + 1 /\ saw'[Len(saw) + 1] = e.no
            /\ \A i \in 1 .. Len(saw) : saw'[i] = saw[i]
        BY <2>2, <2>n, <4>1
      <4>3. \A i \in 1 .. Len(saw) + 1 : i \in 1 .. Len(saw) \/ i = Len(saw) + 1
        BY <2>2
      <4> QED
        BY <1>o, <3>2, <4>1, <4>2, <4>3
    <3> QED
      BY <3>1, <3>2
  <2>8. texts' # {} => Len(saw') >= 1
    <3>1. CASE e.kind \in {"text", "fallback"}
      <4>1. e.no # 0
        BY <2>5, <3>1
      <4> QED
        BY <2>2, <2>7, <4>1
    <3>2. CASE e.kind \notin {"text", "fallback"}
      <4>1. texts' = texts
        BY <2>1, <3>2
      <4> QED
        BY <1>o, <2>2, <2>7, <4>1
    <3> QED
      BY <3>1, <3>2
  <2>9. CASE ~Task!Keeps(Task!Outcome(e.kind, texts)) /\ Task!Return(Task!Outcome(e.kind, texts))
    <3>1. Empty /\ stage' = "ended"
      BY <2>9 DEF Task!Return, Task!FreshChild, Task!FreshPipe
    <3> QED
      BY <1>1, <2>7, <2>8, <3>1
  <2>10. CASE chan' = Tail(chan) /\ UNCHANGED <<task, busy, wrote, queue, sleeper, hand>>
              /\ stage' = (IF e.kind \in Task!Statuses THEN "ended" ELSE stage)
    <3>1. /\ Waiting' = Waiting - 1
          /\ \A i \in 1 .. Waiting - 1 : Event(i)' = Event(i + 1)
      BY <1>t, <2>1, <2>10, StreamShrinks
    <3>i. \A i \in 1 .. Waiting - 1 : i + 1 \in 1 .. Waiting /\ 1 < i + 1
      BY <2>3
    <3>2. CASE e.kind \in Task!Statuses
      <4>1. Waiting' = 0 /\ busy' = 0 /\ stage' = "ended"
        BY <2>5, <2>10, <3>1, <3>2
      <4> QED
        BY <2>7, <2>8, <4>1, NothingWaits DEF Goal
    <3>3. CASE e.kind \notin Task!Statuses
      <4>1. stage' = "watch" /\ UNCHANGED <<task, busy, wrote>>
        BY <2>1, <2>10, <3>3
      <4>2. OwnEvents'
        <5>1. ASSUME NEW i \in 1 .. Waiting'
              PROVE  /\ Event(i)'.task = task'
                     /\ Event(i)'.kind = "usage" <=> Event(i)'.no = 0
                     /\ Event(i)'.kind \in Task!Statuses => i = Waiting' /\ busy' = 0
          <6>1. i \in 1 .. Waiting - 1 /\ Event(i)' = Event(i + 1) /\ i + 1 \in 1 .. Waiting
            BY <3>1, <3>i, <5>1
          <6>2. /\ Event(i + 1).task = task
                /\ Event(i + 1).kind = "usage" <=> Event(i + 1).no = 0
                /\ Event(i + 1).kind \in Task!Statuses => i + 1 = Waiting /\ busy = 0
            BY <1>t, <6>1 DEF OwnEvents
          <6>3. i + 1 = Waiting => i = Waiting'
            BY <2>3, <3>1, <6>1
          <6> QED
            BY <4>1, <6>1, <6>2, <6>3
        <5>2. busy' # 0 => busy' = task' /\ stage' \in {"watch", "cancelling"}
          BY <1>t, <4>1 DEF OwnEvents
        <5> QED
          BY <4>1, <5>1, <5>2 DEF OwnEvents
      <4>3. NoGap'
        <5>0. Len(saw') \in Nat /\ Len(saw) <= Len(saw')
          BY <2>2, <2>7
        <5>1. Len(saw') <= wrote'
          <6>1. CASE e.no # 0
            BY <2>g, <2>2, <2>3, <2>4, <2>6, <2>7, <4>1, <6>1
          <6>2. CASE e.no = 0
            BY <2>g, <2>7, <4>1, <6>2
          <6> QED
            BY <6>1, <6>2
        <5>2. ASSUME NEW i \in 1 .. Waiting', Event(i)'.no # 0
              PROVE  Event(i)'.no \in Len(saw') + 1 .. wrote'
          <6>1. i \in 1 .. Waiting - 1 /\ Event(i)' = Event(i + 1) /\ i + 1 \in 1 .. Waiting /\ 1 < i + 1
            BY <3>1, <3>i, <5>2
          <6>2. Event(i + 1).no \in Len(saw) + 1 .. wrote
            BY <2>g, <5>2, <6>1
          <6>3. e.no # 0 => Len(saw) + 1 < Event(i + 1).no
            BY <2>g, <2>3, <2>4, <2>6, <5>2, <6>1
          <6> QED
            BY <2>2, <2>7, <4>1, <6>1, <6>2, <6>3
        <5>3. ASSUME NEW i \in 1 .. Waiting', NEW j \in 1 .. Waiting', i < j,
                     Event(i)'.no # 0, Event(j)'.no # 0
              PROVE  Event(i)'.no < Event(j)'.no
          <6>1. /\ Event(i)' = Event(i + 1) /\ i + 1 \in 1 .. Waiting
                /\ Event(j)' = Event(j + 1) /\ j + 1 \in 1 .. Waiting
            BY <3>1, <3>i, <5>3
          <6>2. i + 1 < j + 1
            BY <5>3, <2>3, <3>1
          <6> QED
            BY <2>g, <5>3, <6>1, <6>2
        <5>4. ASSUME NEW n \in Len(saw') + 1 .. wrote' PROVE \E i \in 1 .. Waiting' : Event(i)'.no = n
          <6>1. n \in Len(saw) + 1 .. wrote
            BY <2>2, <4>1, <5>0, <5>4
          <6>2. PICK j \in 1 .. Waiting : Event(j).no = n
            BY <2>g, <6>1
          <6>3. j # 1
            <7>1. ASSUME j = 1 PROVE FALSE
              <8>1. e.no = n /\ n # 0
                BY <2>2, <2>3, <6>1, <6>2, <7>1
              <8>2. n = Len(saw) + 1 /\ Len(saw') = Len(saw) + 1
                BY <2>6, <2>7, <8>1
              <8> QED
                BY <2>2, <5>4, <8>2
            <7> QED
              BY <7>1
          <6>4. j - 1 \in 1 .. Waiting - 1 /\ (j - 1) + 1 = j
            BY <2>3, <6>3
          <6>5. Event(j - 1)' = Event(j) /\ j - 1 \in 1 .. Waiting'
            BY <3>1, <6>4
          <6> QED
            BY <6>2, <6>5
        <5> QED
          BY <2>7, <2>8, <4>1, <5>1, <5>2, <5>3, <5>4 DEF NoGap
      <4> QED
        BY <4>2, <4>3 DEF Goal
    <3> QED
      BY <3>2, <3>3
  <2> QED
    BY <2>1, <2>9, <2>10
<1>8. ASSUME NEW k, NEW fromPool \in BOOLEAN, Task!Begin(k, fromPool), stage' \in {"permit", "process"}
      PROVE  Goal
  <2>1. Quiet /\ busy' = busy /\ saw' = <<>> /\ texts' = {} /\ stage \in {"idle", "ended"}
    BY <1>8 DEF Task!Begin, Task!InHand
  <2>2. Waiting' = 0 /\ busy' = 0
    BY <1>o, <1>q, <2>1
  <2>3. Len(saw') = 0
    BY <2>1
  <2> QED
    BY <1>8, <2>1, <2>2, <2>3, NothingWaits DEF Goal
<1>9. ASSUME \/ \E fromPool \in BOOLEAN : Task!BeginWorker(fromPool) \/ Task!BeginPlanner(fromPool)
             \/ Task!BeginSkill
      PROVE  Goal
  <2>1. \E k \in {"worker", "planner", "skill"}, fromPool \in BOOLEAN :
            Task!Begin(k, fromPool) /\ stage' \in {"permit", "process"}
    BY <1>9 DEF Task!BeginWorker, Task!BeginPlanner, Task!BeginSkill
  <2> QED
    BY <1>8, <2>1
<1>10. ASSUME NEW k \in {"text", "fallback", "usage"}, Task!ChildSays(k) PROVE Goal
  <2> DEFINE e == [task |-> busy, no |-> IF k \in Task!Optional THEN 0 ELSE wrote + 1, kind |-> k]
  <2>1. /\ busy # 0 /\ Task!Enqueue(e) /\ UNCHANGED <<task, stage, saw, texts, busy>>
        /\ wrote' = IF k \in Task!Optional THEN wrote ELSE wrote + 1
    BY <1>10 DEF Task!ChildSays
  <2>2. /\ e \in Events /\ e.task = busy /\ e.kind = k
        /\ e.no = (IF k \in Task!Optional THEN 0 ELSE wrote + 1)
    BY <1>t DEF TaskTypes, Events, EventKinds
  <2> HIDE DEF e
  <2>3. \/ e.kind = "usage" /\ e.no = 0 /\ wrote' = wrote /\ busy' = busy
        \/ e.kind \in {"text", "fallback"} /\ e.no = wrote + 1 /\ wrote' = wrote + 1 /\ busy' = busy
    BY <2>1, <2>2 DEF Task!Optional
  <2> QED
    BY <1>t, <2>1, <2>2, <2>3, ChildWrites DEF Goal
<1>11. ASSUME NEW status \in Task!Statuses, Task!ChildFinishes(status) PROVE Goal
  <2> DEFINE e == [task |-> busy, no |-> wrote + 1, kind |-> status]
  <2>1. /\ busy # 0 /\ Task!Enqueue(e) /\ UNCHANGED <<task, stage, saw, texts>>
        /\ busy' = 0 /\ wrote' = wrote + 1
    BY <1>11 DEF Task!ChildFinishes
  <2>2. e \in Events /\ e.task = busy /\ e.kind = status /\ e.no = wrote + 1
    BY <1>t DEF TaskTypes, Events, EventKinds, Task!Statuses
  <2> HIDE DEF e
  <2> QED
    BY <1>t, <2>1, <2>2, ChildWrites DEF Goal
<1>12. ASSUME Task!PoolCloses PROVE Goal
  <2>1. Empty /\ UNCHANGED <<stage, saw, texts>> /\ stage \in {"idle", "ended"}
    BY <1>12 DEF Task!PoolCloses, Task!FreshChild, Task!FreshPipe, Task!InHand
  <2> QED
    BY <1>1, <1>o, <2>1
<1>13. Goal
  BY <1>2, <1>3, <1>4, <1>5, <1>6, <1>7, <1>9, <1>10, <1>11, <1>12
     DEF Task!TaskNext, Task!Parent, Task!Work
<1> QED
  BY <1>13 DEF Goal

\* The record says what became of the task, and a report was heard to the end.
LEMMA ReportedKept ==
    ASSUME TaskInv, Task!TaskNext
    PROVE  Reported'
<1> USE DEF Task!job, Task!registry, Task!child, Task!pipe, Task!capture
<1> DEFINE Goal == Reported'
<1>t. TaskTypes /\ OwnEvents /\ NoGap /\ Reported
  BY DEF TaskInv
<1>r. /\ ~foreign
      /\ stage = "ended" /\ kind = "worker" /\ result = "ok" => Len(saw) >= 2
      /\ stage \notin {"idle", "ended"} => result = "none" /\ record \notin {"completed", "failed"}
      /\ result = "ok" => record \in {"completed", "cancelled", "gone"}
      /\ result = "error" => record \in {"failed", "cancelled", "gone"}
      /\ queue # <<>> => wake \/ sleeper # "asleep"
  BY <1>t DEF Reported, Task!InHand, Task!RecordsAgree, Task!NothingForgotten
<1>g. ASSUME ~foreign', stage' = "ended" /\ kind' = "worker" /\ result' = "ok" => Len(saw') >= 2,
             stage' \notin {"idle", "ended"} => result' = "none" /\ record' \notin {"completed", "failed"},
             result' = "ok" => record' \in {"completed", "cancelled", "gone"},
             result' = "error" => record' \in {"failed", "cancelled", "gone"},
             queue' # <<>> => wake' \/ sleeper' # "asleep"
      PROVE  Goal
  BY <1>g DEF Reported, Task!InHand, Task!RecordsAgree, Task!NothingForgotten
<1> HIDE DEF Goal
<1>1. ASSUME NEW outcome \in {"completed", "failed", "cancelled"}, stage \notin {"idle", "ended"},
             Task!Return(outcome), ~foreign', outcome = "completed" /\ kind = "worker" => Len(saw') >= 2
      PROVE  Goal
  <2>1. /\ stage' = "ended" /\ kind' = kind
        /\ record' = (IF record \in {"completed", "failed", "cancelled", "gone"} THEN record ELSE outcome)
        /\ result' = (IF outcome = "completed" THEN "ok" ELSE "error")
        /\ \/ UNCHANGED <<queue, wake, sleeper>>
           \/ queue' = <<>>
    BY <1>1 DEF Task!Return, Task!Recorded, Task!Terminal, Task!FreshPipe
  <2>2. record' \in {"cancelled", "gone", outcome}
    BY <1>r, <1>1, <2>1
  <2>3. queue' # <<>> => wake' \/ sleeper' # "asleep"
    BY <1>r, <2>1
  <2>4. /\ result' = "ok" => record' \in {"completed", "cancelled", "gone"}
        /\ result' = "error" => record' \in {"failed", "cancelled", "gone"}
    BY <1>1, <2>1, <2>2
  <2> QED
    BY <1>g, <1>1, <2>1, <2>3, <2>4
<1>f. Task!Failure \in {"failed", "cancelled"}
  BY DEF Task!Failure
<1>2. ASSUME Task!PermitFails \/ Task!NoProcess \/ Task!CallFails \/ Task!CancelChild \/ Task!SeeExit
      PROVE  Goal
  <2>1. /\ UNCHANGED foreign /\ stage \notin {"idle", "ended"}
        /\ \E outcome \in {"failed", Task!Failure} : Task!Return(outcome)
    BY <1>2 DEF Task!PermitFails, Task!NoProcess, Task!CallFails, Task!CancelChild, Task!SeeExit
  <2> QED
    BY <1>1, <1>f, <1>r, <2>1
<1>3. ASSUME \/ Task!PermitGranted \/ Task!Accepted \/ Task!SeeDone \/ Task!ProxyAnswers \/ Task!Expire
             \/ Task!CancelTask \/ Task!ChildAsks \/ Task!ProcessEnds
      PROVE  Goal
  <2>1. /\ UNCHANGED <<kind, record, result, queue, wake, sleeper, saw, foreign>>
        /\ stage' = stage \/ (stage \notin {"idle", "ended"} /\ stage' \notin {"idle", "ended"})
    BY <1>3 DEF Task!PermitGranted, Task!Accepted, Task!SeeDone, Task!ProxyAnswers, Task!Expire,
       Task!CancelTask, Task!ChildAsks, Task!ProcessEnds
  <2> QED
    BY <1>g, <1>r, <2>1
<1>4. ASSUME Task!CancelByParent \/ Task!ResetTask PROVE Goal
  <2>1. /\ UNCHANGED <<kind, stage, result, queue, wake, sleeper, saw, foreign>>
        /\ \/ record' = "gone"
           \/ stage \notin {"idle", "ended"} /\ record' \in {record, "cancelled"}
    BY <1>4 DEF Task!CancelByParent, Task!CanCancel, Task!ResetTask, Task!Recorded, Task!InHand
  <2> QED
    BY <1>g, <1>r, <2>1
<1>5. ASSUME Task!GetProcess PROVE Goal
  <2>1. /\ stage = "process" /\ stage' = "call" /\ UNCHANGED <<result, foreign>>
        /\ record' \in {record, "running"}
        /\ UNCHANGED <<queue, wake, sleeper>> \/ queue' = <<>>
    BY <1>5 DEF Task!GetProcess, Task!NewProcess, Task!FreshPipe, Task!Recorded
  <2>2. queue' # <<>> => wake' \/ sleeper' # "asleep"
    BY <1>r, <2>1
  <2> QED
    BY <1>g, <1>r, <2>1, <2>2
<1>6. ASSUME Task!SeeEvent PROVE Goal
  <2> DEFINE e == Head(chan)
             outcome == Task!Outcome(e.kind, texts)
  <2>1. /\ stage = "watch" /\ chan # <<>>
        /\ saw' = (IF e.no > 0 THEN Append(saw, e.no) ELSE saw)
        /\ foreign' = (foreign \/ e.task # task)
        /\ \/ e.kind \in Task!Statuses /\ ~Task!Keeps(outcome) /\ Task!Return(outcome)
           \/ /\ UNCHANGED <<kind, queue, wake, sleeper>>
              /\ \/ UNCHANGED <<stage, record, result>>
                 \/ /\ e.kind \in Task!Statuses /\ Task!Keeps(outcome)
                    /\ stage' = "ended" /\ record' = Task!Recorded("completed") /\ result' = "ok"
    BY <1>6 DEF Task!SeeEvent, Task!Observe
  <2>2. e \in Events /\ saw \in Seq(Nat) /\ Len(saw) \in Nat
    BY <1>t, <2>1 DEF TaskTypes
  <2>3. Waiting \in Nat \ {0} /\ Event(1) = e
    <3>1. chan \in Seq(Events) /\ Len(chan) \in Nat \ {0} /\ Event(1) = chan[1]
      BY <1>t, <2>1 DEF TaskTypes, Event
    <3>2. Waiting \in Nat /\ Len(queue) \in Nat /\ Held \in {0, 1}
      BY <1>t, StreamIs
    <3> QED
      BY <3>1, <3>2 DEF Waiting, Behind
  <2>4. e.task = task /\ (e.kind = "usage" <=> e.no = 0) /\ e.no \in Nat
    <3>1. 1 \in 1 .. Waiting
      BY <2>3
    <3> QED
      BY <1>t, <2>2, <2>3, <3>1 DEF OwnEvents, Events
  <2>5. ~foreign'
    BY <1>r, <2>1, <2>4
  <2>k. kind \in {"worker", "planner", "skill"}
    BY <1>t, <2>1 DEF TaskTypes, Task!InHand
  <2>o. ASSUME e.kind \in Task!Statuses PROVE outcome \in {"completed", "failed", "cancelled"}
    <3>1. CASE e.kind = "cancelled"
      BY <1>f, <3>1 DEF Task!Outcome
    <3>2. CASE e.kind # "cancelled" /\ kind = "planner"
      BY <3>2 DEF Task!Outcome, Task!PlannerOutcome
    <3>3. CASE e.kind # "cancelled" /\ kind = "skill"
      BY <3>3 DEF Task!Outcome, Task!SkillOutcome
    <3>4. CASE e.kind # "cancelled" /\ kind = "worker"
      BY <3>4 DEF Task!Outcome, Task!WorkerOutcome
    <3> QED
      BY <2>k, <3>1, <3>2, <3>3, <3>4
  <2>w. ASSUME e.kind \in Task!Statuses, outcome = "completed", kind = "worker" PROVE Len(saw') >= 2
    <3>1. texts = {"text"}
      <4>1. CASE e.kind = "cancelled"
        BY <1>f, <2>w, <4>1 DEF Task!Outcome
      <4>2. CASE e.kind # "cancelled"
        BY <2>w, <4>2 DEF Task!Outcome, Task!WorkerOutcome, Task!Usable
      <4> QED
        BY <4>1, <4>2
    <3>2. Len(saw) >= 1
      BY <1>t, <3>1 DEF NoGap
    <3>3. e.no > 0
      BY <2>4, <2>w DEF Task!Statuses
    <3>4. saw' = Append(saw, e.no)
      BY <2>1, <3>3
    <3>5. Len(saw') = Len(saw) + 1
      BY <2>2, <2>4, <3>4
    <3> QED
      BY <2>2, <3>2, <3>5
  <2> HIDE DEF e, outcome
  <2>6. CASE e.kind \in Task!Statuses /\ ~Task!Keeps(outcome) /\ Task!Return(outcome)
    <3>1. outcome \in {"completed", "failed", "cancelled"}
      BY <2>6, <2>o
    <3>2. outcome = "completed" /\ kind = "worker" => Len(saw') >= 2
      BY <2>6, <2>w
    <3>3. stage \notin {"idle", "ended"}
      BY <2>1
    <3> QED
      BY <1>1, <2>5, <2>6, <3>1, <3>2, <3>3
  <2>7. CASE UNCHANGED <<kind, queue, wake, sleeper, stage, record, result>>
    <3>1. stage' = "watch"
      BY <2>1, <2>7
    <3> QED
      BY <1>g, <1>r, <2>5, <2>7, <3>1
  <2>8. CASE /\ e.kind \in Task!Statuses /\ Task!Keeps(outcome) /\ UNCHANGED <<kind, queue, wake, sleeper>>
             /\ stage' = "ended" /\ record' = Task!Recorded("completed") /\ result' = "ok"
    <3>1. outcome = "completed"
      BY <2>8 DEF Task!Keeps
    <3>2. record' \in {"completed", "cancelled", "gone"}
      BY <1>r, <2>1, <2>8 DEF Task!Recorded, Task!Terminal
    <3>3. kind' = "worker" => Len(saw') >= 2
      BY <2>8, <2>w, <3>1
    <3> QED
      BY <1>g, <1>r, <2>5, <2>8, <3>2, <3>3
  <2> QED
    BY <2>1, <2>6, <2>7, <2>8
<1>7. ASSUME Task!Wake \/ Task!Take \/ Task!Deliver PROVE Goal
  <2>1. /\ UNCHANGED <<kind, stage, record, result, saw, foreign>>
        /\ queue' = <<>> \/ sleeper' # "asleep"
    BY <1>7 DEF Task!Wake, Task!Take, Task!Deliver
  <2> QED
    BY <1>g, <1>r, <2>1
<1>8. ASSUME NEW k, NEW fromPool \in BOOLEAN, Task!Begin(k, fromPool), stage' \in {"permit", "process"}
      PROVE  Goal
  <2>1. /\ ~foreign' /\ result' = "none" /\ record' \in {"queued", "starting"}
        /\ UNCHANGED <<queue, wake, sleeper>>
    BY <1>8 DEF Task!Begin
  <2> QED
    BY <1>g, <1>r, <1>8, <2>1
<1>9. ASSUME \/ \E fromPool \in BOOLEAN : Task!BeginWorker(fromPool) \/ Task!BeginPlanner(fromPool)
             \/ Task!BeginSkill
      PROVE  Goal
  <2>1. \E k \in {"worker", "planner", "skill"}, fromPool \in BOOLEAN :
            Task!Begin(k, fromPool) /\ stage' \in {"permit", "process"}
    BY <1>9 DEF Task!BeginWorker, Task!BeginPlanner, Task!BeginSkill
  <2> QED
    BY <1>8, <2>1
<1>10. ASSUME \/ \E k \in {"text", "fallback", "usage"} : Task!ChildSays(k)
              \/ \E status \in Task!Statuses : Task!ChildFinishes(status)
       PROVE  Goal
  <2>1. /\ UNCHANGED <<kind, stage, record, result, saw, foreign>>
        /\ UNCHANGED <<queue, wake, sleeper>> \/ wake'
    BY <1>10 DEF Task!ChildSays, Task!ChildFinishes, Task!Enqueue
  <2>2. queue' # <<>> => wake' \/ sleeper' # "asleep"
    BY <1>r, <2>1
  <2> QED
    BY <1>g, <1>r, <2>1, <2>2
<1>11. ASSUME Task!PoolCloses PROVE Goal
  <2>1. UNCHANGED <<kind, stage, record, result, saw, foreign>> /\ queue' = <<>>
    BY <1>11 DEF Task!PoolCloses, Task!FreshPipe
  <2> QED
    BY <1>g, <1>r, <2>1
<1>12. Goal
  BY <1>2, <1>3, <1>4, <1>5, <1>6, <1>7, <1>9, <1>10, <1>11
     DEF Task!TaskNext, Task!Parent, Task!Work
<1> QED
  BY <1>12 DEF Goal

\* There is no task in the beginning.
LEMMA TaskStarts ==
    ASSUME Task!Init
    PROVE  TaskInv
<1>1. /\ task = 0 /\ kind = "none" /\ pooled = FALSE /\ stage = "idle"
      /\ record = "none" /\ result = "none" /\ busy = 0 /\ wrote = 0
      /\ queue = <<>> /\ sleeper = "asleep" /\ chan = <<>> /\ saw = <<>> /\ texts = {} /\ foreign = FALSE
  BY DEF Task!Init
<1>2. TaskTypes
  <2>1. <<>> \in Seq(Events) /\ <<>> \in Seq(Nat)
    OBVIOUS
  <2> QED
    BY <1>1, <2>1 DEF TaskTypes, Stages, Task!InHand
<1>3. Waiting = 0 /\ Len(saw) = 0
  BY <1>1 DEF Waiting, Behind, Held
<1>4. OwnEvents /\ NoGap
  BY <1>1, <1>3 DEF OwnEvents, NoGap
<1>5. Reported
  BY <1>1 DEF Reported, Task!InHand, Task!RecordsAgree, Task!NothingForgotten
<1> QED
  BY <1>2, <1>4, <1>5 DEF TaskInv

\* The task keeps its invariant, and a step of another part leaves it alone.
LEMMA TaskKeeps ==
    ASSUME TaskInv, Task!TaskNext \/ UNCHANGED t_vars
    PROVE  TaskInv'
<1>1. CASE Task!TaskNext
  BY <1>1, TaskTypesKept, StreamKept, ReportedKept DEF TaskInv
<1>2. CASE UNCHANGED t_vars
  <2>1. TaskTypes /\ OwnEvents /\ NoGap /\ Reported
    BY DEF TaskInv
  <2>2. UNCHANGED <<Waiting, stage>> /\ \A i : Event(i)' = Event(i)
    BY <1>2 DEF t_vars, Waiting, Behind, Held, Event
  <2>3. TaskTypes'
    BY <1>2, <2>1 DEF t_vars, TaskTypes, Task!InHand
  <2>4. OwnEvents' /\ NoGap'
    BY <1>2, <2>1, <2>2, StreamStays DEF t_vars
  <2>5. Reported'
    BY <1>2, <2>1 DEF t_vars, Reported, Task!InHand, Task!RecordsAgree, Task!NothingForgotten
  <2> QED
    BY <2>3, <2>4, <2>5 DEF TaskInv
<1> QED
  BY <1>1, <1>2

-----------------------------------------------------------------------------
(* What holds in every behaviour                                           *)

\* Each part keeps its invariant.
LEMMA PartsAreSafe == Spec => [](RootInv /\ TaskInv /\ ChannelInv)
<1> DEFINE Inv == RootInv /\ TaskInv /\ ChannelInv
<1>1. Init => Inv
  <2>1. Init => Task!Init /\ Channel!Init
    BY DEF Init
  <2> QED
    BY <2>1, RootStarts, TaskStarts, ChannelStarts
<1>2. Inv /\ [Next]_vars => Inv'
  <2> SUFFICES ASSUME Inv, [Next]_vars PROVE Inv'
    OBVIOUS
  <2>1. RootInv'
    BY OnePartMoves, RootKeeps
  <2>2. TaskInv'
    BY OnePartMoves, TaskKeeps
  <2>3. ChannelInv'
    BY OnePartMoves, ChannelKeeps
  <2> QED
    BY <2>1, <2>2, <2>3
<1> HIDE DEF Inv
<1>3. Spec => []Inv
  BY <1>1, <1>2, PTL DEF Spec
<1> QED
  BY <1>3, PTL DEF Inv

\* The invariant of a root run: the turns, the calls, the events and the goal of
\* emitRun, executeToolBatch and runWithGoalLoop fit together in every state.
THEOREM RootIsSafe == Spec => []RootInv
  BY PartsAreSafe, PTL

\* Tools that are no workers are barriers (runtime.go:1423), and a run that
\* completed or failed has said its last, with no number used twice and no call
\* left open but by the goal's wall time.
THEOREM RunEventsInOrder == Spec => []EventsInOrder
<1>1. RootInv => EventsInOrder
  <2> SUFFICES ASSUME RootInv PROVE EventsInOrder
    OBVIOUS
  <2>t. next \in Nat /\ group \in Nat
    BY DEF RootInv, RunTypes
  <2>1. Root!Barriers
    <3>1. ASSUME NEW i \in Root!Working, NEW j \in Root!Working, NEW k \in i .. j, i # j
          PROVE  batch[k] = "worker"
      <4>1. i \in next .. group /\ j \in next .. group
        BY DEF RootInv, Groups
      <4>2. k \in next .. group /\ next < group
        BY <2>t, <3>1, <4>1
      <4> QED
        BY <4>2 DEF RootInv, Groups
    <3> QED
      BY <3>1 DEF Root!Barriers
  <2>2. Root!EndIsTheEnd
    BY DEF RootInv, LastWord, Root!EndIsTheEnd
  <2> QED
    BY <2>1, <2>2 DEF EventsInOrder
<1> QED
  BY <1>1, RootIsSafe, PTL

\* However reports of segments are lost, late or doubled, a goal costs at most a
\* segment more than its turns, the Gateway counts what was spent, and no segment
\* opens after the run was told that its goal is over (goal_loop.go:295).
THEOREM LoopStaysInItsLimits == Spec => []LoopKeepsItsLimits
<1>1. RootInv => LoopKeepsItsLimits
  <2> SUFFICES ASSUME RootInv PROVE LoopKeepsItsLimits
    OBVIOUS
  <2>1. Root!SpentWithinBudget /\ Root!CountedAsSpent
    BY DEF RootInv, Budget, Root!SpentWithinBudget, Root!CountedAsSpent
  <2>2. Root!GoalStopsRun
    BY DEF RootInv, Binding, Root!GoalStopsRun
  <2> QED
    BY <2>1, <2>2 DEF LoopKeepsItsLimits
<1> QED
  BY <1>1, RootIsSafe, PTL

\* The report of a worker that counts was heard from its first critical event to
\* the last, once and in order, whatever the queues dropped (subagent_process.go:399);
\* its record says what became of it; a permit that is counted is in use or on its
\* way back.
THEOREM WorkersAreHeardWhole == Spec => []WorkerResultsWhole
<1>1. TaskInv /\ ChannelInv => WorkerResultsWhole
  <2> SUFFICES ASSUME TaskInv, ChannelInv PROVE WorkerResultsWhole
    OBVIOUS
  <2>1. Task!ReportIsWhole
    <3>1. saw \in Seq(Nat) /\ \A i \in 1 .. Len(saw) : saw[i] = i
      BY DEF TaskInv, TaskTypes, NoGap
    <3>2. saw = Task!Numbers(Len(saw))
      BY <3>1 DEF Task!Numbers
    <3> QED
      BY <3>2 DEF TaskInv, Reported, Task!ReportIsWhole
  <2>2. Task!RecordsAgree /\ Task!NothingForgotten
    BY DEF TaskInv, Reported
  <2>3. Channel!PermitsAccounted
    BY DEF ChannelInv, CountedUntilBack, Sent, On, Given, Channel!PermitsAccounted
  <2> QED
    BY <2>1, <2>2, <2>3 DEF WorkerResultsWhole
<1> QED
  BY <1>1, PartsAreSafe, PTL
=============================================================================
