------------------------- MODULE RunLifecycleProofs -------------------------
(***************************************************************************)
(* Safety of RunLifecycle for every set of runs, of sessions and of        *)
(* clients and every setup.                                                *)
(*                                                                         *)
(* One invariant holds whatever goes wrong, and a stronger one as long as  *)
(* nothing does: there a client's one handler and its pipe are a single    *)
(* line of messages, in which nothing but a finish follows an error.       *)
(***************************************************************************)
EXTENDS RunLifecycle, SequenceTheorems, TLAPS

-----------------------------------------------------------------------------
(* What holds whatever goes wrong                                          *)

Handlers == [by : {"reader", "wait"}, client : Clients, msg : Messages,
             pc : {"wait", "save", "write", "after"},
             seen : {"none", "running"} \union Ended]

Typed ==
    /\ setup \in Setups
    /\ row \in [Runs -> {"none", "running"} \union Ended]
    /\ perm \in [Runs -> {"none", "pending", "closed"}]
    /\ saved \in [Runs -> SUBSET Nat]
    /\ start \in [Runs -> {"none", "reserved", "calling", "failing", "over"}]
    /\ client \in [Dedicated -> {"none", "open", "gone"}]
    /\ proc \in [Clients -> {"off", "up", "dead"}]
    /\ pipe \in [Clients -> Seq(Messages)]
    /\ last \in [Clients -> [seq : Nat, terminal : BOOLEAN]]
    /\ handlers \subseteq Handlers
    /\ holds \subseteq Runs
    /\ life \in [Runs -> {"none", "sent", "working", "ending", "over", "lost", "refused"}]
    /\ emitted \in [Runs -> Nat]
    /\ asked \in [Runs -> {"no", "asked", "returned"}]
    /\ up \in BOOLEAN

\* A message in a pipe, or in somebody's hand.
InPipe(c, m) == \E i \in 1 .. Len(pipe[c]) : pipe[c][i] = m
OnWay(m) == (\E c \in Clients : InPipe(c, m)) \/ \E h \in handlers : h.msg = m
IsTerminal(m) == m.type \in RootTerminal

\* A message is with the client of its run, and only requests for a permit wait.
Homed ==
    /\ \A c \in Clients : \A i \in 1 .. Len(pipe[c]) : ClientOf(pipe[c][i].run) = c
    /\ \A h \in handlers : ClientOf(h.msg.run) = h.client
    /\ \A h \in handlers : h.pc = "wait" <=> h.msg.type = "acquire"
    /\ \A h \in handlers : h.msg.type # "release"

\* "completed" is only said of a run that has sent its finish event.
Truthful ==
    /\ \A m \in Messages : OnWay(m) /\ IsTerminal(m) =>
          m.status \in Ended /\ (m.status = "completed" => life[m.run] = "over")
    /\ \A h \in handlers : h.seen = "completed" => life[h.msg.run] = "over"
    /\ \A r \in Runs : row[r] = "completed" => life[r] = "over"

\* Before its process is launched a run has left no trace.
Untouched(r) ==
    /\ client[r] = "none" /\ proc[r] = "off" /\ ~last[r].terminal /\ pipe[r] = <<>>
    /\ \A h \in handlers : h.client # r
Unlaunched ==
    \A r \in Runs : start[r] \in {"none", "reserved"} =>
        life[r] = "none" /\ (r \in Dedicated => Untouched(r))

\* The client of a process that ended its run, or died, is taken away by somebody.
Attended ==
    \A r \in Dedicated : client[r] = "open" =>
        /\ proc[r] = "dead" => last[r].terminal
        /\ last[r].terminal => \E h \in handlers : h.client = r /\ Releases(h.msg)

Always == Typed /\ Homed /\ Truthful /\ Unlaunched /\ Attended

-----------------------------------------------------------------------------
(* What holds as long as nothing goes wrong                                *)

Event(m) == m.type \notin {"acquire", "release"}

\* m was written before n.
Follows(m, n) ==
    m.run = n.run => /\ IsTerminal(m) => IsTerminal(n)
                     /\ Event(m) /\ Event(n) => m.seq < n.seq

\* A client has one handler at most, its reader's.
Alone ==
    /\ up
    /\ \A h \in handlers : h.by = "reader"
    /\ \A g, h \in handlers : g.client = h.client => g = h
    /\ \A m \in Messages : OnWay(m) => m.type \notin {"workerError", "exit"}

\* It and the pipe behind it are a line in the order of writing.
Line ==
    /\ \A c \in Clients : \A i, j \in 1 .. Len(pipe[c]) :
          i < j => Follows(pipe[c][i], pipe[c][j])
    /\ \A h \in handlers : \A i \in 1 .. Len(pipe[h.client]) : Follows(h.msg, pipe[h.client][i])
    /\ \A m \in Messages : OnWay(m) /\ Event(m) => m.seq <= emitted[m.run]

\* No number on its way has been saved.
New ==
    /\ \A r \in Runs : \A s \in saved[r] : s <= emitted[r]
    /\ \A c \in Clients : \A i \in 1 .. Len(pipe[c]) :
          Event(pipe[c][i]) => Fresh(pipe[c][i])
    /\ \A h \in handlers : h.pc = "save" => Fresh(h.msg)

\* A run says nothing before it works and nothing but its end when it is over.
Early ==
    \A r \in Runs :
        /\ start[r] = "none" => row[r] = "none"
        /\ start[r] = "reserved" => row[r] = "running"
        /\ life[r] \in {"sent", "working"} => row[r] = "running"
        /\ life[r] \in {"none", "sent"} =>
              r \notin holds /\ perm[r] # "pending" /\ \A m \in Messages : OnWay(m) => m.run # r
Late ==
    \A m \in Messages : OnWay(m) /\ IsTerminal(m) => life[m.run] # "working"

\* A run that ended holds nothing, and all that comes of it still is its end.
Closed ==
    \A r \in Runs : row[r] \in Ended =>
        /\ r \notin holds /\ perm[r] # "pending"
        /\ \A m \in Messages : OnWay(m) /\ m.run = r => IsTerminal(m)

\* A status read is the status until it is written; the clients go after that.
Current ==
    /\ \A h \in handlers : h.pc = "write" => IsTerminal(h.msg) \/ h.seen = row[h.msg.run]
    /\ \A h \in handlers : IsTerminal(h.msg) => last[h.client].terminal
    /\ \A h \in handlers : h.pc = "after" /\ IsTerminal(h.msg) => row[h.msg.run] \in Ended
    /\ \A r \in Dedicated : client[r] = "gone" => row[r] \in Ended /\ last[r].terminal
    /\ \A r \in Runs : life[r] \in {"refused", "lost"} => r \in Dedicated /\ client[r] = "gone"
    /\ \A r \in Runs : start[r] = "failing" => row[r] \in Ended

Apart ==
    \A q, r \in Runs : q # r /\ row[q] = "running" /\ row[r] = "running" => SessionOf[q] # SessionOf[r]

Calm == Alone /\ Line /\ New /\ Early /\ Late /\ Closed /\ Current /\ Apart

CalmInv == Faultless => Calm
IInv == Always /\ CalmInv

-----------------------------------------------------------------------------
(* Clients, pipes and what is in them                                      *)

\* The client of a run, and the run of a dedicated client.
LEMMA ClientFacts ==
    /\ Dedicated \subseteq Runs /\ Shared \notin Runs /\ Dedicated \subseteq Clients
    /\ \A r \in Runs : ClientOf(r) \in Clients
    /\ \A r \in Dedicated : ClientOf(r) = r
    /\ \A q \in Runs : ClientOf(q) \in Dedicated => ClientOf(q) = q
<1>1. Dedicated \subseteq Runs /\ Shared \notin Runs
  BY RunsAssumption
<1> QED
  BY <1>1 DEF Clients, ClientOf

\* A message written at the end of a pipe.
LEMMA PutDoes ==
    ASSUME Typed, NEW r \in Runs, NEW m \in Messages, Put(r, m)
    PROVE  LET c == ClientOf(r)
           IN  /\ c \in Clients /\ pipe' \in [Clients -> Seq(Messages)]
               /\ Len(pipe[c]) \in Nat /\ Len(pipe'[c]) = Len(pipe[c]) + 1
               /\ pipe'[c][Len(pipe[c]) + 1] = m
               /\ \A i \in 1 .. Len(pipe[c]) : pipe'[c][i] = pipe[c][i]
               /\ \A d \in Clients : d # c => pipe'[d] = pipe[d]
<1> DEFINE c == ClientOf(r)
<1>1. c \in Clients
  BY ClientFacts
<1>2. pipe \in [Clients -> Seq(Messages)] /\ pipe' = [pipe EXCEPT ![c] = Append(pipe[c], m)]
  BY DEF Typed, Put
<1> HIDE DEF c
<1>3. pipe[c] \in Seq(Messages) /\ Append(pipe[c], m) \in Seq(Messages)
  BY <1>1, <1>2
<1>4. pipe'[c] = Append(pipe[c], m) /\ \A d \in Clients : d # c => pipe'[d] = pipe[d]
  BY <1>1, <1>2
<1>5. /\ Len(pipe[c]) \in Nat /\ Len(pipe'[c]) = Len(pipe[c]) + 1
      /\ pipe'[c][Len(pipe[c]) + 1] = m
      /\ \A i \in 1 .. Len(pipe[c]) : pipe'[c][i] = pipe[c][i]
  BY <1>3, <1>4
<1> QED
  BY <1>1, <1>2, <1>3, <1>4, <1>5 DEF c

\* All that is on its way then is what was, and the message.
LEMMA PutAdds ==
    ASSUME Typed, NEW r \in Runs, NEW m \in Messages, Put(r, m), UNCHANGED handlers,
           NEW n, OnWay(n)'
    PROVE  OnWay(n) \/ n = m
<1> DEFINE c == ClientOf(r)
<1>1. /\ Len(pipe[c]) \in Nat /\ Len(pipe'[c]) = Len(pipe[c]) + 1
      /\ pipe'[c][Len(pipe[c]) + 1] = m
      /\ \A i \in 1 .. Len(pipe[c]) : pipe'[c][i] = pipe[c][i]
      /\ \A d \in Clients : d # c => pipe'[d] = pipe[d]
  BY PutDoes
<1> HIDE DEF c
<1>2. CASE \E h \in handlers : h.msg = n
  BY <1>2 DEF OnWay
<1>3. CASE \E d \in Clients : \E i \in 1 .. Len(pipe'[d]) : pipe'[d][i] = n
  <2>0. PICK d \in Clients : \E i \in 1 .. Len(pipe'[d]) : pipe'[d][i] = n
    BY <1>3
  <2>1. PICK i \in 1 .. Len(pipe'[d]) : pipe'[d][i] = n
    BY <2>0
  <2>2. CASE d # c
    BY <1>1, <2>1, <2>2 DEF OnWay, InPipe
  <2>3. CASE d = c
    <3>1. i \in 1 .. Len(pipe[c]) \/ i = Len(pipe[c]) + 1
      BY <1>1, <2>1, <2>3
    <3> QED
      BY <1>1, <2>1, <2>3, <3>1 DEF OnWay, InPipe
  <2> QED
    BY <2>2, <2>3
<1> QED
  BY <1>2, <1>3 DEF OnWay, InPipe

\* The first message taken out of a pipe.
LEMMA TakeDoes ==
    ASSUME Typed, NEW c \in Clients, pipe[c] # <<>>, pipe' = [pipe EXCEPT ![c] = Tail(@)]
    PROVE  /\ Head(pipe[c]) \in Messages /\ Head(pipe[c]) = pipe[c][1] /\ 1 \in 1 .. Len(pipe[c])
           /\ Len(pipe[c]) \in Nat /\ pipe' \in [Clients -> Seq(Messages)]
           /\ Len(pipe'[c]) = Len(pipe[c]) - 1
           /\ \A i \in 1 .. Len(pipe'[c]) : pipe'[c][i] = pipe[c][i + 1] /\ i + 1 \in 1 .. Len(pipe[c])
           /\ \A d \in Clients : d # c => pipe'[d] = pipe[d]
<1>1. pipe \in [Clients -> Seq(Messages)] /\ pipe[c] \in Seq(Messages)
  BY DEF Typed
<1>2. /\ Tail(pipe[c]) \in Seq(Messages) /\ Len(Tail(pipe[c])) = Len(pipe[c]) - 1
      /\ Len(pipe[c]) \in Nat /\ Len(pipe[c]) > 0
      /\ \A i \in 1 .. Len(Tail(pipe[c])) : Tail(pipe[c])[i] = pipe[c][i + 1]
  BY <1>1, HeadTailProperties
<1>3. Head(pipe[c]) = pipe[c][1] /\ Head(pipe[c]) \in Messages /\ 1 \in 1 .. Len(pipe[c])
  BY <1>1, <1>2
<1>4. pipe'[c] = Tail(pipe[c]) /\ pipe' \in [Clients -> Seq(Messages)]
      /\ \A d \in Clients : d # c => pipe'[d] = pipe[d]
  BY <1>1, <1>2
<1>5. \A i \in 1 .. Len(pipe'[c]) : i + 1 \in 1 .. Len(pipe[c])
  BY <1>2, <1>4
<1> QED
  BY <1>2, <1>3, <1>4, <1>5

\* A pipe cut short.
LEMMA CutDoes ==
    ASSUME Typed, NEW c \in Clients, NEW n \in 0 .. Len(pipe[c]),
           pipe' = [pipe EXCEPT ![c] = SubSeq(@, 1, n)]
    PROVE  /\ pipe' \in [Clients -> Seq(Messages)] /\ Len(pipe'[c]) = n
           /\ \A i \in 1 .. n : pipe'[c][i] = pipe[c][i] /\ i \in 1 .. Len(pipe[c])
           /\ \A d \in Clients : d # c => pipe'[d] = pipe[d]
<1>1. pipe \in [Clients -> Seq(Messages)] /\ pipe[c] \in Seq(Messages) /\ Len(pipe[c]) \in Nat
  BY DEF Typed
<1>2. \A i \in 1 .. n : i \in 1 .. Len(pipe[c]) /\ pipe[c][i] \in Messages
  BY <1>1
<1>3. /\ SubSeq(pipe[c], 1, n) \in Seq(Messages) /\ Len(SubSeq(pipe[c], 1, n)) = n
      /\ \A i \in 1 .. n : SubSeq(pipe[c], 1, n)[i] = pipe[c][i]
  <2>1. CASE n = 0
    <3>1. SubSeq(pipe[c], 1, n) = <<>>
      BY <2>1
    <3> QED
      BY <2>1, <3>1
  <2>2. CASE n > 0
    <3>1. n \in Nat /\ 1 <= n
      BY <1>1, <2>2
    <3>2. /\ SubSeq(pipe[c], 1, n) \in Seq(Messages)
          /\ Len(SubSeq(pipe[c], 1, n)) = (IF 1 <= n THEN n - 1 + 1 ELSE 0)
          /\ \A i \in 1 .. n - 1 + 1 : SubSeq(pipe[c], 1, n)[i] = pipe[c][1 + i - 1]
      BY <1>1, <1>2, <2>2, <3>1, SubSeqProperties
    <3>3. n - 1 + 1 = n /\ \A i \in 1 .. n : 1 + i - 1 = i
      BY <3>1
    <3> QED
      BY <3>1, <3>2, <3>3
  <2> QED
    BY <1>1, <2>1, <2>2
<1>4. pipe'[c] = SubSeq(pipe[c], 1, n) /\ pipe' \in [Clients -> Seq(Messages)]
      /\ \A d \in Clients : d # c => pipe'[d] = pipe[d]
  BY <1>1, <1>3
<1> QED
  BY <1>2, <1>3, <1>4

-----------------------------------------------------------------------------
(* The steps of Start                                                      *)

\* What is said of messages, where neither the pipes nor the handlers move.
LEMMA NothingMoves ==
    ASSUME Always, UNCHANGED <<pipe, handlers>>
    PROVE  Homed' /\ \A m : OnWay(m)' <=> OnWay(m)
  BY DEF Always, Homed, OnWay, InPipe

\* The reservation of a run.
LEMMA AdmitKeeps ==
    ASSUME Always, NEW r \in Runs, Admit(r)
    PROVE  Always'
<1>a. /\ start[r] = "none" /\ row' = [row EXCEPT ![r] = "running"]
      /\ start' = [start EXCEPT ![r] = "reserved"]
      /\ UNCHANGED <<perm, saved, client, proc, pipe, last, handlers, holds, setup, life,
                     emitted, asked, up>>
  BY DEF Admit, agent
<1>f. Typed /\ Homed /\ Truthful /\ Unlaunched /\ Attended
  BY DEF Always
<1>m. Homed' /\ \A m : OnWay(m)' <=> OnWay(m)
  BY <1>a, NothingMoves
<1>1. Typed'
  BY <1>a, <1>f DEF Typed
<1>2. Truthful'
  BY <1>a, <1>f, <1>m DEF Truthful, Typed
<1>3. Unlaunched'
  BY <1>a, <1>f DEF Unlaunched, Untouched, Typed
<1>4. Attended'
  BY <1>a, <1>f DEF Attended
<1> QED
  BY <1>m, <1>1, <1>2, <1>3, <1>4 DEF Always

\* Its preparation fails.
LEMMA PrepareFailsKeeps ==
    ASSUME Always, NEW r \in Runs, PrepareFails(r)
    PROVE  Always'
<1>a. /\ row' = [row EXCEPT ![r] = "failed"] /\ start' = [start EXCEPT ![r] = "over"]
      /\ UNCHANGED <<perm, saved, client, proc, pipe, last, handlers, holds, setup, life,
                     emitted, asked, up>>
  BY DEF PrepareFails, agent
<1>f. Typed /\ Homed /\ Truthful /\ Unlaunched /\ Attended
  BY DEF Always
<1>m. Homed' /\ \A m : OnWay(m)' <=> OnWay(m)
  BY <1>a, NothingMoves
<1>1. Typed'
  BY <1>a, <1>f DEF Typed, Ended
<1>2. Truthful'
  BY <1>a, <1>f, <1>m DEF Truthful, Typed
<1>3. Unlaunched'
  BY <1>a, <1>f DEF Unlaunched, Untouched, Typed
<1>4. Attended'
  BY <1>a, <1>f DEF Attended
<1> QED
  BY <1>m, <1>1, <1>2, <1>3, <1>4 DEF Always

\* The run is sent to a new process or to the shared one.
LEMMA LaunchKeeps ==
    ASSUME Always, NEW r \in Runs, Launch(r)
    PROVE  Always'
<1>a. /\ start[r] = "reserved" /\ start' = [start EXCEPT ![r] = "calling"]
      /\ proc' = [proc EXCEPT ![ClientOf(r)] = "up"]
      /\ client' = [q \in Dedicated |-> IF q = r THEN "open" ELSE client[q]]
      /\ life' = [life EXCEPT ![r] = "sent"]
      /\ UNCHANGED <<setup, row, perm, saved, holds, pipe, last, handlers, emitted, asked, up>>
  BY DEF Launch, rows
<1>f. Typed /\ Homed /\ Truthful /\ Unlaunched /\ Attended
  BY DEF Always
<1>m. Homed' /\ \A m : OnWay(m)' <=> OnWay(m)
  BY <1>a, NothingMoves
<1>1. Typed'
  <2>1. ClientOf(r) \in Clients
    BY ClientFacts
  <2>2. client' \in [Dedicated -> {"none", "open", "gone"}]
    BY <1>a, <1>f DEF Typed
  <2>3. proc' \in [Clients -> {"off", "up", "dead"}]
    BY <1>a, <1>f, <2>1 DEF Typed
  <2> QED
    BY <1>a, <1>f, <2>2, <2>3 DEF Typed
<1>l. life[r] = "none" /\ \A q \in Runs : q # r => life'[q] = life[q]
  BY <1>a, <1>f DEF Unlaunched, Untouched, Typed
<1>2. Truthful'
  <2>1. \A q \in Runs : life[q] = "over" => life'[q] = "over"
    BY <1>l
  <2>2. \A h \in handlers : h.msg.run \in Runs
    BY <1>f DEF Typed, Handlers, Messages
  <2>3. \A m \in Messages : m.run \in Runs
    BY DEF Messages
  <2> QED
    BY <1>a, <1>f, <1>m, <2>1, <2>2, <2>3 DEF Truthful
<1>3. Unlaunched'
  <2> SUFFICES ASSUME NEW q \in Runs, start'[q] \in {"none", "reserved"}
               PROVE  life'[q] = "none" /\ (q \in Dedicated => Untouched(q)')
    BY DEF Unlaunched, Untouched
  <2>1. q # r /\ start[q] \in {"none", "reserved"}
    BY <1>a, <1>f DEF Typed
  <2>2. q \in Dedicated => q # ClientOf(r) /\ q \in Clients
    BY <2>1, ClientFacts DEF ClientOf, Clients
  <2>3. q \in Dedicated => proc'[q] = proc[q]
    BY <1>a, <1>f, <2>2 DEF Typed
  <2> QED
    BY <1>a, <1>f, <1>l, <2>1, <2>3 DEF Unlaunched, Untouched
<1>4. Attended'
  <2> SUFFICES ASSUME NEW q \in Dedicated, client'[q] = "open"
               PROVE  /\ proc'[q] = "dead" => last'[q].terminal
                      /\ last'[q].terminal => \E h \in handlers' : h.client = q /\ Releases(h.msg)
    BY DEF Attended
  <2>1. CASE q = r
    <3>1. proc'[q] = "up" /\ ~last[q].terminal
      BY <1>a, <1>f, <2>1, ClientFacts DEF Unlaunched, Untouched, Typed
    <3> QED
      BY <1>a, <3>1
  <2>2. CASE q # r
    <3>1. q # ClientOf(r) /\ q \in Clients
      BY <2>2, ClientFacts DEF ClientOf, Clients
    <3>2. proc'[q] = proc[q] /\ client[q] = "open"
      BY <1>a, <1>f, <2>2, <3>1 DEF Typed
    <3> QED
      BY <1>a, <1>f, <3>2 DEF Attended
  <2> QED
    BY <2>1, <2>2
<1> QED
  BY <1>m, <1>1, <1>2, <1>3, <1>4 DEF Always

\* The reply comes, or fails and the client is given up.
LEMMA ReplyKeeps ==
    ASSUME Always, NEW r \in Runs, ReplyReturns(r) \/ ReplyFails(r)
    PROVE  Always'
<1>a. /\ start[r] = "calling"
      /\ start' = [start EXCEPT ![r] = "over"] \/ start' = [start EXCEPT ![r] = "failing"]
      /\ client' = client \/ client' = Abandon(r)
      /\ UNCHANGED <<row, perm, saved, holds, proc, pipe, last, handlers, setup, life,
                     emitted, asked, up>>
  BY DEF ReplyReturns, ReplyFails, rows, agent
<1>f. Typed /\ Homed /\ Truthful /\ Unlaunched /\ Attended
  BY DEF Always
<1>m. Homed' /\ \A m : OnWay(m)' <=> OnWay(m)
  BY <1>a, NothingMoves
<1>s. /\ start' \in [Runs -> {"none", "reserved", "calling", "failing", "over"}]
      /\ \A q \in Runs : start'[q] \in {"none", "reserved"} => q # r /\ start[q] = start'[q]
  BY <1>a, <1>f, SMTT(40) DEF Typed
<1>c. /\ client' \in [Dedicated -> {"none", "open", "gone"}]
      /\ \A q \in Dedicated : q # r => client'[q] = client[q]
      /\ \A q \in Dedicated : client'[q] = "open" => client[q] = "open"
  BY <1>a, <1>f DEF Typed, Abandon
<1>1. Typed'
  BY <1>a, <1>f, <1>s, <1>c DEF Typed
<1>2. Truthful'
  BY <1>a, <1>f, <1>m DEF Truthful
<1>3. Unlaunched'
  BY <1>a, <1>c, <1>f, <1>s DEF Unlaunched, Untouched
<1>4. Attended'
  BY <1>a, <1>c, <1>f DEF Attended
<1> QED
  BY <1>m, <1>1, <1>2, <1>3, <1>4 DEF Always

\* A failed start, or the sweep at startup, fails the record.
LEMMA FailKeeps ==
    ASSUME Always, NEW r \in Runs, StartFails(r) \/ Reconcile(r)
    PROVE  Always'
<1>a. /\ row' = [row EXCEPT ![r] = "failed"]
      /\ start' = [start EXCEPT ![r] = "over"] \/ start' = start
      /\ UNCHANGED <<perm, saved, client, proc, pipe, last, handlers, holds, setup, life,
                     emitted, asked, up>>
  BY DEF StartFails, Reconcile, agent
<1>f. Typed /\ Homed /\ Truthful /\ Unlaunched /\ Attended
  BY DEF Always
<1>m. Homed' /\ \A m : OnWay(m)' <=> OnWay(m)
  BY <1>a, NothingMoves
<1>1. Typed'
  BY <1>a, <1>f DEF Typed, Ended
<1>2. Truthful'
  BY <1>a, <1>f, <1>m DEF Truthful, Typed
<1>3. Unlaunched'
  BY <1>a, <1>f DEF Unlaunched, Untouched, Typed
<1>4. Attended'
  BY <1>a, <1>f DEF Attended
<1> QED
  BY <1>m, <1>1, <1>2, <1>3, <1>4 DEF Always

-----------------------------------------------------------------------------
(* The steps of the Runtime                                                *)

\* A run is taken up, or ends without a word.
LEMMA SilentKeeps ==
    ASSUME Always, NEW r \in Runs, AcceptRun(r) \/ FinishDropped(r)
    PROVE  Always'
<1>a. /\ life[r] \in {"sent", "working", "ending"}
      /\ life' = [life EXCEPT ![r] = "working"] \/ life' = [life EXCEPT ![r] = "over"]
      /\ UNCHANGED <<setup, row, perm, saved, holds, start, client, proc, pipe, last, handlers,
                     emitted, asked, up>>
  BY DEF AcceptRun, FinishDropped, rows
<1>f. Typed /\ Homed /\ Truthful /\ Unlaunched /\ Attended
  BY DEF Always
<1>m. Homed' /\ \A m : OnWay(m)' <=> OnWay(m)
  BY <1>a, NothingMoves
<1>l. /\ life' \in [Runs -> {"none", "sent", "working", "ending", "over", "lost", "refused"}]
      /\ \A q \in Runs : q # r => life'[q] = life[q]
  BY <1>a, <1>f, ZenonT(40) DEF Typed
<1>1. Typed'
  BY <1>a, <1>f, <1>l DEF Typed
<1>2. Truthful'
  <2>1. \A q \in Runs : life[q] = "over" => life'[q] = "over"
    BY <1>a, <1>l
  <2>2. \A h \in handlers : h.msg.run \in Runs
    BY <1>f DEF Typed, Handlers, Messages
  <2>3. \A m \in Messages : m.run \in Runs
    BY DEF Messages
  <2> QED
    BY <1>a, <1>f, <1>m, <2>1, <2>2, <2>3 DEF Truthful
<1>3. Unlaunched'
  BY <1>a, <1>f, <1>l DEF Unlaunched, Untouched
<1>4. Attended'
  BY <1>a, <1>f DEF Attended
<1> QED
  BY <1>m, <1>1, <1>2, <1>3, <1>4 DEF Always

\* What a run may write, and what it does to its own state.
Writes(r, m) ==
    /\ m \in Messages /\ m.run = r
    /\ Put(r, m)
    /\ life[r] \in {"working", "ending"}
    /\ life' \in [Runs -> {"none", "sent", "working", "ending", "over", "lost", "refused"}]
    /\ \A q \in Runs : q # r => life'[q] = life[q]
    /\ life'[r] \in {"working", "ending", "over"}
    /\ IsTerminal(m) => m.status \in Ended /\ (m.status = "completed" => life'[r] = "over")
    /\ emitted' \in [Runs -> Nat] /\ asked' \in [Runs -> {"no", "asked", "returned"}]
    /\ UNCHANGED <<setup, row, perm, saved, holds, start, client, proc, last, handlers, up>>
    /\ emitted' = IF Event(m) THEN [emitted EXCEPT ![r] = m.seq] ELSE emitted
    /\ Event(m) => m.seq = emitted[r] + 1
    /\ IsTerminal(m) \/ (life[r] = "working" /\ life'[r] = "working")
    /\ IsTerminal(m) => life'[r] # "working"
    /\ m.type # "exit" /\ (m.type = "workerError" => ~Faultless)

\* A message of a run that works, whatever it says.
LEMMA WritesKeeps ==
    ASSUME Always, NEW r \in Runs, NEW m, Writes(r, m)
    PROVE  Always'
<1>a. /\ m \in Messages /\ m.run = r /\ Put(r, m) /\ life[r] \in {"working", "ending"}
      /\ life' \in [Runs -> {"none", "sent", "working", "ending", "over", "lost", "refused"}]
      /\ \A q \in Runs : q # r => life'[q] = life[q]
      /\ IsTerminal(m) => m.status \in Ended /\ (m.status = "completed" => life'[r] = "over")
      /\ emitted' \in [Runs -> Nat] /\ asked' \in [Runs -> {"no", "asked", "returned"}]
      /\ UNCHANGED <<setup, row, perm, saved, holds, start, client, proc, last, handlers, up>>
  BY DEF Writes
<1>f. Typed /\ Homed /\ Truthful /\ Unlaunched /\ Attended
  BY DEF Always
<1> DEFINE c == ClientOf(r)
<1>p. /\ c \in Clients /\ pipe' \in [Clients -> Seq(Messages)]
      /\ Len(pipe[c]) \in Nat /\ Len(pipe'[c]) = Len(pipe[c]) + 1
      /\ pipe'[c][Len(pipe[c]) + 1] = m
      /\ \A i \in 1 .. Len(pipe[c]) : pipe'[c][i] = pipe[c][i]
      /\ \A d \in Clients : d # c => pipe'[d] = pipe[d]
  BY <1>a, <1>f, PutDoes
<1>m. \A n : OnWay(n)' => OnWay(n) \/ n = m
  BY <1>a, <1>f, PutAdds
<1>1. Typed'
  BY <1>a, <1>f, <1>p DEF Typed
<1>2. Homed'
  <2>1. ASSUME NEW d \in Clients, NEW i \in 1 .. Len(pipe'[d]) PROVE ClientOf(pipe'[d][i].run) = d
    <3>1. CASE d = c
      <4>1. i \in 1 .. Len(pipe[c]) \/ i = Len(pipe[c]) + 1
        BY <1>p, <3>1
      <4>2. CASE i \in 1 .. Len(pipe[c])
        BY <1>f, <1>p, <3>1, <4>2 DEF Homed
      <4>3. CASE i = Len(pipe[c]) + 1
        BY <1>a, <1>p, <3>1, <4>3
      <4> QED
        BY <4>1, <4>2, <4>3
    <3>2. CASE d # c
      BY <1>f, <1>p, <3>2 DEF Homed
    <3> QED
      BY <3>1, <3>2
  <2> QED
    BY <1>a, <1>f, <2>1 DEF Homed
<1>3. Truthful'
  <2>1. \A q \in Runs : life[q] = "over" => life'[q] = "over"
    BY <1>a
  <2>2. \A h \in handlers : h.msg.run \in Runs
    BY <1>f DEF Typed, Handlers, Messages
  <2>3. \A n \in Messages : n.run \in Runs
    BY DEF Messages
  <2>4. ASSUME NEW n \in Messages, OnWay(n)', IsTerminal(n)
        PROVE  n.status \in Ended /\ (n.status = "completed" => life'[n.run] = "over")
    <3>1. CASE OnWay(n)
      BY <1>f, <2>1, <2>3, <2>4, <3>1 DEF Truthful
    <3>2. CASE n = m
      BY <1>a, <2>4, <3>2
    <3> QED
      BY <1>m, <2>4, <3>1, <3>2
  <2>5. \A h \in handlers' : h.seen = "completed" => life'[h.msg.run] = "over"
    BY <1>a, <1>f, <2>1, <2>2 DEF Truthful
  <2>6. \A q \in Runs : row'[q] = "completed" => life'[q] = "over"
    BY <1>a, <1>f, <2>1 DEF Truthful
  <2> QED
    BY <2>4, <2>5, <2>6 DEF Truthful, IsTerminal
<1>4. Unlaunched'
  <2> SUFFICES ASSUME NEW q \in Runs, start'[q] \in {"none", "reserved"}
               PROVE  life'[q] = "none" /\ (q \in Dedicated => Untouched(q)')
    BY DEF Unlaunched, Untouched
  <2>1. life[q] = "none" /\ q # r
    BY <1>a, <1>f DEF Unlaunched, Untouched
  <2>2. q \in Dedicated => q \in Clients /\ q # c
    BY <2>1, ClientFacts
  <2> QED
    BY <1>a, <1>f, <1>p, <2>1, <2>2 DEF Unlaunched, Untouched
<1>5. Attended'
  BY <1>a, <1>f DEF Attended
<1> QED
  BY <1>1, <1>2, <1>3, <1>4, <1>5 DEF Always

\* Every event and every request of a run is such a message.
LEMMA EmitWrites ==
    ASSUME Typed, NEW r \in Runs,
           NEW type \in Types, NEW status \in {"running"} \union Ended, Emit(r, type, status),
           life[r] \in {"working", "ending"}, NEW l \in {"working", "ending", "over"},
           life' = [life EXCEPT ![r] = l],
           type \in RootTerminal => status \in Ended /\ (status = "completed" => l = "over"),
           type \notin {"acquire", "release", "exit"}, type = "workerError" => ~Faultless,
           type \in RootTerminal \/ (life[r] = "working" /\ l = "working"),
           type \in RootTerminal => l # "working"
    PROVE  Writes(r, Message(r, type, emitted[r] + 1, status))
<1> DEFINE m == Message(r, type, emitted[r] + 1, status)
<1>1. /\ m \in Messages /\ m.run = r /\ m.type = type /\ m.status = status
      /\ m.seq = emitted[r] + 1 /\ Event(m)
  BY DEF Typed, Messages, Message, Event
<1>2. /\ Put(r, m) /\ emitted' = [emitted EXCEPT ![r] = @ + 1]
      /\ UNCHANGED <<setup, row, perm, saved, holds, start, client, proc, last, handlers,
                     asked, up>>
  BY DEF Emit, rows
<1>3. /\ life' \in [Runs -> {"none", "sent", "working", "ending", "over", "lost", "refused"}]
      /\ life'[r] = l /\ \A q \in Runs : q # r => life'[q] = life[q]
  BY DEF Typed
<1>4. emitted' \in [Runs -> Nat] /\ asked' \in [Runs -> {"no", "asked", "returned"}]
  BY <1>2 DEF Typed
<1> HIDE DEF m
<1>5. Writes(r, m)
  <2>1. emitted' = IF Event(m) THEN [emitted EXCEPT ![r] = m.seq] ELSE emitted
    BY <1>1, <1>2
  <2> QED
    BY <1>1, <1>2, <1>3, <1>4, <2>1 DEF Writes, IsTerminal
<1> QED
  BY <1>5 DEF m

\* The events and the requests for permits of a run are all such messages.
LEMMA WorkWrites ==
    ASSUME Typed, NEW r \in Runs,
           \/ EmitEvent(r) \/ EmitError(r) \/ EmitFinish(r) \/ AskPermit(r) \/ ReturnPermit(r)
    PROVE  \E m : Writes(r, m)
<1>1. CASE EmitEvent(r)
  <2>1. life[r] = "working" /\ UNCHANGED life
    BY <1>1 DEF EmitEvent
  <2>2. PICK type \in {"delta", "permission"} \union (setup.faults \cap {"workerError"}) :
           Emit(r, type, "running")
    BY <1>1 DEF EmitEvent
  <2>3. /\ type \in Types /\ type \notin RootTerminal /\ type \notin {"acquire", "release", "exit"}
        /\ type = "workerError" => ~Faultless
    BY DEF Types, RootTerminal, Faultless
  <2>4. life' = [life EXCEPT ![r] = "working"]
    BY <2>1 DEF Typed
  <2> QED
    BY <2>1, <2>2, <2>3, <2>4, EmitWrites
<1>2. CASE EmitError(r)
  <2>1. "error" \in Types /\ "error" \in RootTerminal /\ "failed" \in Ended
    BY DEF Types, Ended, RootTerminal
  <2> QED
    BY <1>2, <2>1, EmitWrites DEF EmitError
<1>3. CASE EmitFinish(r)
  <2>1. "finish" \in Types /\ "finish" \in RootTerminal
    BY DEF Types, RootTerminal
  <2>2. PICK status \in IF life[r] = "ending" THEN {"failed"} ELSE Ended :
           Emit(r, "finish", status)
    BY <1>3 DEF EmitFinish
  <2>3. status \in Ended
    BY DEF Ended
  <2> QED
    BY <1>3, <2>1, <2>2, <2>3, EmitWrites DEF EmitFinish
<1>4. CASE AskPermit(r) \/ ReturnPermit(r)
  <2>1. PICK type \in {"acquire", "release"} : Put(r, Message(r, type, 0, "running"))
    BY <1>4 DEF AskPermit, ReturnPermit
  <2> DEFINE m == Message(r, type, 0, "running")
  <2>2. /\ m \in Messages /\ m.run = r /\ ~IsTerminal(m) /\ ~Event(m)
        /\ m.type \notin {"exit", "workerError"}
    BY DEF Messages, Message, Types, IsTerminal, RootTerminal, Event
  <2>3. /\ life[r] = "working" /\ UNCHANGED life
        /\ asked' \in [Runs -> {"no", "asked", "returned"}]
        /\ UNCHANGED <<setup, row, perm, saved, holds, start, client, proc, last, handlers,
                       emitted, up>>
    BY <1>4 DEF AskPermit, ReturnPermit, rows, Typed
  <2> HIDE DEF m
  <2>4. Writes(r, m)
    BY <2>1, <2>2, <2>3 DEF Writes, Typed, m
  <2> QED
    BY <2>4
<1> QED
  BY <1>1, <1>2, <1>3, <1>4

\* The steps of the Runtime keep the invariant.
LEMMA WorkingKeeps ==
    ASSUME Always, NEW r \in Runs, Working(r)
    PROVE  Always'
  BY SilentKeeps, WritesKeeps, WorkWrites DEF Working, Always

-----------------------------------------------------------------------------
(* The steps of the Gateway's handlers                                     *)

\* A reader takes the first message of its pipe.
LEMMA ReadDoes ==
    ASSUME Typed, NEW c \in Clients, Read(c)
    PROVE  LET m  == Head(pipe[c])
               pc == IF m.type = "acquire" THEN "wait" ELSE "save"
           IN  /\ m \in Messages /\ m = pipe[c][1] /\ 1 \in 1 .. Len(pipe[c]) /\ up /\ ~Busy(c)
               /\ Len(pipe[c]) \in Nat /\ pipe' \in [Clients -> Seq(Messages)]
               /\ Len(pipe'[c]) = Len(pipe[c]) - 1
               /\ \A i \in 1 .. Len(pipe'[c]) : pipe'[c][i] = pipe[c][i + 1] /\ i + 1 \in 1 .. Len(pipe[c])
               /\ \A d \in Clients : d # c => pipe'[d] = pipe[d]
               /\ \/ m.type = "release" /\ handlers' = handlers /\ holds' = holds \ {m.run}
                  \/ m.type # "release" /\ handlers' = handlers \union {Handler("reader", c, m, pc)}
                     /\ holds' = holds
               /\ last' \in [Clients -> [seq : Nat, terminal : BOOLEAN]]
               /\ \A d \in Clients : d # c => last'[d] = last[d]
               /\ last'[c].terminal <=> last[c].terminal \/ IsTerminal(m)
               /\ UNCHANGED <<row, perm, saved, start, client, proc, setup, life, emitted, asked, up>>
<1> DEFINE m == Head(pipe[c])
           pc == IF m.type = "acquire" THEN "wait" ELSE "save"
<1>1. pipe[c] # <<>> /\ pipe' = [pipe EXCEPT ![c] = Tail(@)]
  BY DEF Read
<1>2. /\ m \in Messages /\ m = pipe[c][1] /\ 1 \in 1 .. Len(pipe[c])
      /\ Len(pipe[c]) \in Nat /\ pipe' \in [Clients -> Seq(Messages)]
      /\ Len(pipe'[c]) = Len(pipe[c]) - 1
      /\ \A i \in 1 .. Len(pipe'[c]) : pipe'[c][i] = pipe[c][i + 1] /\ i + 1 \in 1 .. Len(pipe[c])
      /\ \A d \in Clients : d # c => pipe'[d] = pipe[d]
  BY <1>1, TakeDoes
<1>3. last' = [last EXCEPT ![c] = [seq |-> IF m.seq > last[c].seq THEN m.seq ELSE last[c].seq,
                                   terminal |-> last[c].terminal \/ m.type \in RootTerminal]]
  BY DEF Read
<1>4. /\ \/ m.type = "release" /\ handlers' = handlers /\ holds' = holds \ {m.run}
         \/ m.type # "release" /\ handlers' = handlers \union {Handler("reader", c, m, pc)}
            /\ holds' = holds
      /\ up /\ ~Busy(c)
      /\ UNCHANGED <<row, perm, saved, start, client, proc, setup, life, emitted, asked, up>>
  BY DEF Read, agent
<1> HIDE DEF m, pc
<1>5. /\ last' \in [Clients -> [seq : Nat, terminal : BOOLEAN]]
      /\ \A d \in Clients : d # c => last'[d] = last[d]
      /\ last'[c].terminal <=> last[c].terminal \/ IsTerminal(m)
  <2>1. m.seq \in Nat /\ last[c].seq \in Nat /\ last[c].terminal \in BOOLEAN
    BY <1>2 DEF Typed, Messages
  <2>2. last \in [Clients -> [seq : Nat, terminal : BOOLEAN]]
    BY DEF Typed
  <2> QED
    BY <1>3, <2>1, <2>2 DEF IsTerminal
<1> QED
  BY <1>2, <1>4, <1>5 DEF m, pc

\* A handler that has just begun.
LEMMA HandlerIs ==
    ASSUME NEW by \in {"reader", "wait"}, NEW c \in Clients, NEW m \in Messages,
           NEW pc \in {"wait", "save", "write", "after"}
    PROVE  /\ Handler(by, c, m, pc) \in Handlers
           /\ Handler(by, c, m, pc).by = by /\ Handler(by, c, m, pc).client = c
           /\ Handler(by, c, m, pc).msg = m /\ Handler(by, c, m, pc).pc = pc
           /\ Handler(by, c, m, pc).seen = "none"
  BY DEF Handler, Handlers

\* A reader takes a message: what is on its way was so before.
LEMMA ReadKeeps ==
    ASSUME Always, NEW c \in Clients, Read(c)
    PROVE  Always' /\ \A n : OnWay(n)' => OnWay(n)
<1>f. Typed /\ Homed /\ Truthful /\ Unlaunched /\ Attended
  BY DEF Always
<1> DEFINE m  == Head(pipe[c])
           pc == IF m.type = "acquire" THEN "wait" ELSE "save"
           g  == Handler("reader", c, m, pc)
<1>r. /\ m \in Messages /\ m = pipe[c][1] /\ 1 \in 1 .. Len(pipe[c])
      /\ Len(pipe[c]) \in Nat /\ pipe' \in [Clients -> Seq(Messages)]
      /\ Len(pipe'[c]) = Len(pipe[c]) - 1
      /\ \A i \in 1 .. Len(pipe'[c]) : pipe'[c][i] = pipe[c][i + 1] /\ i + 1 \in 1 .. Len(pipe[c])
      /\ \A d \in Clients : d # c => pipe'[d] = pipe[d]
      /\ \/ m.type = "release" /\ handlers' = handlers /\ holds' = holds \ {m.run}
         \/ m.type # "release" /\ handlers' = handlers \union {g} /\ holds' = holds
      /\ last' \in [Clients -> [seq : Nat, terminal : BOOLEAN]]
      /\ \A d \in Clients : d # c => last'[d] = last[d]
      /\ last'[c].terminal <=> last[c].terminal \/ IsTerminal(m)
      /\ UNCHANGED <<row, perm, saved, start, client, proc, setup, life, emitted, asked, up>>
  BY <1>f, ReadDoes
<1>g. /\ g \in Handlers /\ g.client = c /\ g.msg = m /\ g.pc = pc /\ g.seen = "none"
      /\ pc = "wait" <=> m.type = "acquire"
  BY <1>r, HandlerIs
<1> HIDE DEF m, pc, g
<1>h. \A h \in handlers' : h \in handlers \/ (h = g /\ m.type # "release")
  BY <1>r
<1>m. \A n : OnWay(n)' => OnWay(n)
  <2> SUFFICES ASSUME NEW n, OnWay(n)' PROVE OnWay(n)
    OBVIOUS
  <2>1. CASE \E h \in handlers' : h.msg = n
    BY <1>g, <1>h, <1>r, <2>1 DEF OnWay, InPipe
  <2>2. CASE \E d \in Clients : InPipe(d, n)'
    <3>1. PICK d \in Clients : \E i \in 1 .. Len(pipe'[d]) : pipe'[d][i] = n
      BY <2>2 DEF InPipe
    <3>2. PICK i \in 1 .. Len(pipe'[d]) : pipe'[d][i] = n
      BY <3>1
    <3>3. CASE d = c
      BY <1>r, <3>2, <3>3 DEF OnWay, InPipe
    <3>4. CASE d # c
      BY <1>r, <3>2, <3>4 DEF OnWay, InPipe
    <3> QED
      BY <3>3, <3>4
  <2> QED
    BY <2>1, <2>2 DEF OnWay
<1>1. Typed'
  <2>1. handlers' \subseteq Handlers /\ holds' \subseteq Runs
    BY <1>f, <1>g, <1>h, <1>r DEF Typed
  <2> QED
    BY <1>f, <1>r, <2>1 DEF Typed
<1>2. Homed'
  <2>1. ASSUME NEW d \in Clients, NEW i \in 1 .. Len(pipe'[d]) PROVE ClientOf(pipe'[d][i].run) = d
    <3>1. CASE d = c
      BY <1>f, <1>r, <3>1, SMTT(40) DEF Homed
    <3>2. CASE d # c
      BY <1>f, <1>r, <3>2 DEF Homed
    <3> QED
      BY <3>1, <3>2
  <2>2. ClientOf(m.run) = c
    BY <1>f, <1>r DEF Homed
  <2>3. ASSUME NEW h \in handlers'
        PROVE  /\ ClientOf(h.msg.run) = h.client /\ h.msg.type # "release"
               /\ h.pc = "wait" <=> h.msg.type = "acquire"
    BY <1>f, <1>g, <1>h, <2>2 DEF Homed
  <2> QED
    BY <2>1, <2>3 DEF Homed
<1>3. Truthful'
  <2>1. \A h \in handlers' : h.seen = "completed" => life'[h.msg.run] = "over"
    BY <1>f, <1>g, <1>h, <1>r DEF Truthful
  <2> QED
    BY <1>f, <1>m, <1>r, <2>1 DEF Truthful
<1>4. Unlaunched'
  <2> SUFFICES ASSUME NEW q \in Runs, start'[q] \in {"none", "reserved"}
               PROVE  life'[q] = "none" /\ (q \in Dedicated => Untouched(q)')
    BY DEF Unlaunched, Untouched
  <2>1. q \in Dedicated => q \in Clients /\ pipe[q] = <<>>
    BY <1>f, <1>r, ClientFacts DEF Unlaunched, Untouched
  <2>2. q \in Dedicated => q # c
    BY <1>r, <2>1
  <2> QED
    BY <1>f, <1>g, <1>h, <1>r, <2>1, <2>2 DEF Unlaunched, Untouched
<1>5. Attended'
  <2> SUFFICES ASSUME NEW q \in Dedicated, client'[q] = "open"
               PROVE  /\ proc'[q] = "dead" => last'[q].terminal
                      /\ last'[q].terminal => \E h \in handlers' : h.client = q /\ Releases(h.msg)
    BY DEF Attended
  <2>1. q \in Clients
    BY ClientFacts
  <2>2. /\ proc[q] = "dead" => last[q].terminal
        /\ last[q].terminal => \E h \in handlers : h.client = q /\ Releases(h.msg)
    BY <1>f, <1>r DEF Attended
  <2>3. \A h \in handlers : h \in handlers'
    BY <1>r
  <2>4. last[q].terminal => last'[q].terminal
    BY <1>r, <2>1
  <2>5. CASE q = c /\ IsTerminal(m)
    <3>1. g \in handlers' /\ Releases(g.msg)
      BY <1>g, <1>r, <2>5 DEF IsTerminal, Releases, RootTerminal
    <3> QED
      BY <1>g, <1>r, <2>5, <3>1
  <2>6. CASE ~(q = c /\ IsTerminal(m))
    <3>1. last'[q].terminal <=> last[q].terminal
      BY <1>r, <2>1, <2>6
    <3> QED
      BY <1>r, <2>2, <2>3, <3>1
  <2> QED
    BY <2>5, <2>6
<1> QED
  BY <1>m, <1>1, <1>2, <1>3, <1>4, <1>5 DEF Always

\* A permit is granted, or the request for it is over.
LEMMA PermitKeeps ==
    ASSUME Always, NEW h \in handlers, GrantPermit(h) \/ PermitTimesOut(h)
    PROVE  Always' /\ \A n : OnWay(n)' => OnWay(n)
<1>a. /\ h.pc = "wait" /\ handlers' = handlers \ {h}
      /\ holds' = holds \/ holds' = holds \union {h.msg.run}
      /\ UNCHANGED <<row, perm, saved, start, client, proc, pipe, last, setup, life, emitted,
                     asked, up>>
  BY DEF GrantPermit, PermitTimesOut, Done, rows, agent
<1>f. Typed /\ Homed /\ Truthful /\ Unlaunched /\ Attended
  BY DEF Always
<1>m. \A n : OnWay(n)' => OnWay(n)
  BY <1>a DEF OnWay, InPipe
<1>1. Typed'
  <2>1. h.msg.run \in Runs
    BY <1>f DEF Typed, Handlers, Messages
  <2> QED
    BY <1>a, <1>f, <2>1 DEF Typed
<1>2. Homed'
  BY <1>a, <1>f DEF Homed
<1>3. Truthful'
  BY <1>a, <1>f, <1>m DEF Truthful
<1>4. Unlaunched'
  BY <1>a, <1>f DEF Unlaunched, Untouched
<1>5. Attended'
  <2>1. ~Releases(h.msg)
    BY <1>a, <1>f DEF Homed, Releases, RootTerminal
  <2> QED
    BY <1>a, <1>f, <2>1 DEF Attended
<1> QED
  BY <1>m, <1>1, <1>2, <1>3, <1>4, <1>5 DEF Always

\* SaveOnce, and the read of the record that follows.
LEMMA SaveKeeps ==
    ASSUME Always, NEW h \in handlers, Save(h)
    PROVE  Always' /\ \A n : OnWay(n)' => OnWay(n)
<1> DEFINE r == h.msg.run
           g == [h EXCEPT !.pc = IF Fresh(h.msg) THEN "write" ELSE "after",
                          !.seen = IF Fresh(h.msg) THEN row[r] ELSE "none"]
<1>a. /\ h.pc = "save" /\ handlers' = (handlers \ {h}) \union {g}
      /\ saved' = IF Fresh(h.msg) THEN [saved EXCEPT ![r] = @ \union {h.msg.seq}] ELSE saved
      /\ UNCHANGED <<row, perm, start, client, proc, pipe, last, holds, setup, life, emitted,
                     asked, up>>
  BY DEF Save, MoveOn, agent
<1>f. Typed /\ Homed /\ Truthful /\ Unlaunched /\ Attended
  BY DEF Always
<1>g. /\ h \in Handlers /\ r \in Runs /\ h.msg.seq \in Nat
      /\ g \in Handlers /\ g.msg = h.msg /\ g.client = h.client /\ g.pc \in {"write", "after"}
      /\ g.seen = row[r] \/ g.seen = "none"
  <2>1. h \in Handlers /\ r \in Runs /\ h.msg.seq \in Nat
    BY <1>f DEF Typed, Handlers, Messages
  <2>2. row[r] \in {"none", "running"} \union Ended
    BY <1>f, <2>1 DEF Typed
  <2> QED
    BY <2>1, <2>2 DEF Handlers
<1> HIDE DEF g
<1>m. \A n : OnWay(n)' => OnWay(n)
  BY <1>a, <1>g DEF OnWay, InPipe
<1>1. Typed'
  BY <1>a, <1>f, <1>g DEF Typed
<1>2. Homed'
  <2>1. h.pc = "wait" <=> h.msg.type = "acquire"
    BY <1>f DEF Homed
  <2>2. g.pc = "wait" <=> g.msg.type = "acquire"
    BY <1>a, <1>g, <2>1
  <2> QED
    BY <1>a, <1>f, <1>g, <2>2 DEF Homed
<1>3. Truthful'
  <2>1. g.seen = "completed" => life[r] = "over"
    BY <1>f, <1>g DEF Truthful
  <2> QED
    BY <1>a, <1>f, <1>g, <1>m, <2>1 DEF Truthful
<1>4. Unlaunched'
  BY <1>a, <1>f, <1>g DEF Unlaunched, Untouched
<1>5. Attended'
  BY <1>a, <1>f, <1>g DEF Attended
<1> QED
  BY <1>m, <1>1, <1>2, <1>3, <1>4, <1>5 DEF Always

\* The record, the permission and the budgets.
LEMMA WriteKeeps ==
    ASSUME Always, NEW h \in handlers, Write(h)
    PROVE  Always' /\ \A n : OnWay(n)' => OnWay(n)
<1> DEFINE r == h.msg.run
           g == [h EXCEPT !.pc = "after", !.seen = "none"]
           gone == IF Releases(h.msg) THEN WaitingOf(r) ELSE {}
<1>a. /\ h.pc = "write" /\ handlers' = (handlers \ ({h} \union gone)) \union {g}
      /\ row' = [row EXCEPT ![r] = Projected(h)]
      /\ holds' = IF Releases(h.msg) THEN holds \ {r} ELSE holds
      /\ perm' = [perm EXCEPT ![r] = IF h.msg.type = "permission" THEN "pending"
                                     ELSE IF Releases(h.msg) THEN ClosePending(r) ELSE perm[r]]
      /\ UNCHANGED <<saved, start, client, proc, pipe, last, setup, life, emitted, asked, up>>
  BY DEF Write, agent
<1>f. Typed /\ Homed /\ Truthful /\ Unlaunched /\ Attended
  BY DEF Always
<1>g. /\ h \in Handlers /\ r \in Runs /\ h.msg \in Messages
      /\ g \in Handlers /\ g.msg = h.msg /\ g.client = h.client /\ g.pc = "after"
      /\ g.seen = "none"
  <2>1. h \in Handlers /\ r \in Runs
    BY <1>f DEF Typed, Handlers, Messages
  <2> QED
    BY <2>1 DEF Handlers
<1>w. \A k \in gone : k.pc = "wait"
  BY DEF WaitingOf
<1>o. OnWay(h.msg)
  BY DEF OnWay
<1>p. /\ Projected(h) \in {"none", "running"} \union Ended
      /\ Projected(h) = "completed" => life[r] = "over"
  <2>1. CASE IsTerminal(h.msg)
    BY <1>f, <1>g, <1>o, <2>1 DEF Truthful, Projected, IsTerminal
  <2>2. CASE ~IsTerminal(h.msg)
    BY <1>f, <1>g, <2>2 DEF Truthful, Projected, IsTerminal, Handlers
  <2> QED
    BY <2>1, <2>2
<1> HIDE DEF g, gone
<1>m. \A n : OnWay(n)' => OnWay(n)
  BY <1>a, <1>g DEF OnWay, InPipe
<1>1. Typed'
  <2>1. handlers' \subseteq Handlers /\ holds' \subseteq Runs
    BY <1>a, <1>f, <1>g DEF Typed
  <2>2. perm' \in [Runs -> {"none", "pending", "closed"}]
    BY <1>a, <1>f, <1>g DEF Typed, ClosePending
  <2>3. row' \in [Runs -> {"none", "running"} \union Ended]
    BY <1>a, <1>f, <1>p DEF Typed
  <2> QED
    BY <1>a, <1>f, <2>1, <2>2, <2>3 DEF Typed
<1>2. Homed'
  <2>1. h.pc = "wait" <=> h.msg.type = "acquire"
    BY <1>f DEF Homed
  <2>2. g.pc = "wait" <=> g.msg.type = "acquire"
    BY <1>a, <1>g, <2>1
  <2> QED
    BY <1>a, <1>f, <1>g, <2>2 DEF Homed
<1>3. Truthful'
  <2>1. \A q \in Runs : row'[q] = "completed" => life'[q] = "over"
    BY <1>a, <1>f, <1>g, <1>p DEF Truthful, Typed
  <2>2. \A k \in handlers' : k.seen = "completed" => life'[k.msg.run] = "over"
    BY <1>a, <1>f, <1>g DEF Truthful
  <2> QED
    BY <1>a, <1>f, <1>m, <2>1, <2>2 DEF Truthful
<1>4. Unlaunched'
  BY <1>a, <1>f, <1>g DEF Unlaunched, Untouched
<1>5. Attended'
  <2>1. \A k \in gone : ~Releases(k.msg)
    BY <1>f, <1>w DEF Homed, Releases, RootTerminal, WaitingOf, gone
  <2> QED
    BY <1>a, <1>f, <1>g, <2>1 DEF Attended
<1> QED
  BY <1>m, <1>1, <1>2, <1>3, <1>4, <1>5 DEF Always

\* What follows an event: the budgets of a root that ended, and its client.
LEMMA AfterKeeps ==
    ASSUME Always, NEW h \in handlers, After(h)
    PROVE  Always' /\ \A n : OnWay(n)' => OnWay(n)
<1> DEFINE r == h.msg.run
           gone == IF h.msg.type \in RootTerminal THEN WaitingOf(r) ELSE {}
<1>a. /\ h.pc = "after" /\ handlers' = handlers \ ({h} \union gone)
      /\ holds' = IF h.msg.type \in RootTerminal THEN holds \ {r} ELSE holds
      /\ client' = IF ReleasesClient(h) THEN [client EXCEPT ![h.client] = "gone"] ELSE client
      /\ UNCHANGED <<row, perm, saved, start, proc, pipe, last, setup, life, emitted, asked, up>>
  BY DEF After, agent
<1>f. Typed /\ Homed /\ Truthful /\ Unlaunched /\ Attended
  BY DEF Always
<1>w. \A k \in gone : k \in handlers /\ k.pc = "wait"
  BY DEF WaitingOf
<1> HIDE DEF gone
<1>c. /\ client' \in [Dedicated -> {"none", "open", "gone"}]
      /\ \A q \in Dedicated : q = h.client /\ Releases(h.msg) => client'[q] = "gone"
      /\ \A q \in Dedicated : client'[q] # "gone" => client'[q] = client[q]
      /\ \A q \in Dedicated : client'[q] = client[q] \/ q = h.client
  BY <1>a, <1>f DEF ReleasesClient, Typed
<1>m. \A n : OnWay(n)' => OnWay(n)
  BY <1>a DEF OnWay, InPipe
<1>1. Typed'
  BY <1>a, <1>c, <1>f DEF Typed
<1>2. Homed'
  BY <1>a, <1>f DEF Homed
<1>3. Truthful'
  BY <1>a, <1>f, <1>m DEF Truthful
<1>4. Unlaunched'
  <2> SUFFICES ASSUME NEW q \in Runs, start'[q] \in {"none", "reserved"}
               PROVE  life'[q] = "none" /\ (q \in Dedicated => Untouched(q)')
    BY DEF Unlaunched, Untouched
  <2>1. life[q] = "none" /\ (q \in Dedicated => Untouched(q))
    BY <1>a, <1>f DEF Unlaunched, Untouched
  <2>2. q \in Dedicated => client'[q] = client[q]
    BY <1>c, <2>1 DEF Untouched
  <2> QED
    BY <1>a, <2>1, <2>2 DEF Untouched
<1>5. Attended'
  <2>1. \A k \in gone : ~Releases(k.msg)
    BY <1>f, <1>w DEF Homed, Releases, RootTerminal
  <2> QED
    BY <1>a, <1>c, <1>f, <2>1 DEF Attended
<1> QED
  BY <1>m, <1>1, <1>2, <1>3, <1>4, <1>5 DEF Always

-----------------------------------------------------------------------------
(* Processes and the Gateway stop                                          *)

\* What becomes of the run of a process that is gone.
LEMMA LostIs ==
    ASSUME Typed, NEW r \in Runs
    PROVE  /\ Lost(r) \in {"none", "over", "lost", "refused"}
           /\ life[r] = "over" => Lost(r) = "over"
           /\ life[r] = "none" <=> Lost(r) = "none"
           /\ Lost(r) \in {"lost", "refused"} => life[r] # "none"
  BY DEF Typed, Lost

\* A process exits, and wait makes up an exit event where the run has not ended.
LEMMA ProcessExitsKeeps ==
    ASSUME Always, NEW c \in Clients, ProcessExits(c)
    PROVE  Always'
<1> DEFINE g == Handler("wait", c, ExitEvent(c), "save")
<1>f. Typed /\ Homed /\ Truthful /\ Unlaunched /\ Attended
  BY DEF Always
<1>a. /\ proc[c] = "up" /\ proc' = [proc EXCEPT ![c] = "dead"]
      /\ life' = [r \in Runs |-> IF r \in RunsOf(c) THEN Lost(r) ELSE life[r]]
      /\ handlers' = IF NeedsExit(c) THEN handlers \union {g} ELSE handlers
      /\ last' = [last EXCEPT ![c].terminal = TRUE]
      /\ UNCHANGED <<setup, row, perm, saved, holds, start, client, emitted, asked, up>>
  BY DEF ProcessExits, rows
<1>n. PICK n \in 0 .. Len(pipe[c]) : pipe' = [pipe EXCEPT ![c] = SubSeq(@, 1, n)]
  BY DEF ProcessExits
<1>p. /\ pipe' \in [Clients -> Seq(Messages)] /\ Len(pipe'[c]) = n
      /\ \A i \in 1 .. n : pipe'[c][i] = pipe[c][i] /\ i \in 1 .. Len(pipe[c])
      /\ \A d \in Clients : d # c => pipe'[d] = pipe[d]
  BY <1>f, <1>n, CutDoes
<1>t. /\ last' \in [Clients -> [seq : Nat, terminal : BOOLEAN]]
      /\ last'[c].terminal /\ \A d \in Clients : d # c => last'[d] = last[d]
  BY <1>a, <1>f, ZenonT(40) DEF Typed
<1>l. /\ life' \in [Runs -> {"none", "sent", "working", "ending", "over", "lost", "refused"}]
      /\ \A r \in Runs : life[r] = "over" => life'[r] = "over"
      /\ \A r \in Runs : life[r] = "none" => life'[r] = "none"
  BY <1>a, <1>f, LostIs DEF Typed
<1>e. NeedsExit(c) => /\ c \in Dedicated /\ ExitEvent(c) \in Messages /\ ExitEvent(c).run = c
                      /\ ExitEvent(c).type = "exit" /\ ExitEvent(c).status = "failed"
  <2>1. last[c].seq \in Nat /\ last[c].seq + 1 \in Nat
    BY <1>f DEF Typed
  <2> QED
    BY <2>1, ClientFacts DEF NeedsExit, ExitEvent, Message, Messages, Types, Ended
<1>g. NeedsExit(c) => /\ g \in Handlers /\ g.client = c /\ g.msg = ExitEvent(c) /\ g.pc = "save"
                      /\ g.seen = "none"
  BY <1>e, HandlerIs
<1> HIDE DEF g
<1>m. \A m : OnWay(m)' => OnWay(m) \/ (NeedsExit(c) /\ m = ExitEvent(c))
  <2> SUFFICES ASSUME NEW m, OnWay(m)' PROVE OnWay(m) \/ (NeedsExit(c) /\ m = ExitEvent(c))
    OBVIOUS
  <2>1. CASE \E h \in handlers' : h.msg = m
    BY <1>a, <1>g, <2>1 DEF OnWay
  <2>2. CASE \E d \in Clients : InPipe(d, m)'
    <3>1. PICK d \in Clients : \E i \in 1 .. Len(pipe'[d]) : pipe'[d][i] = m
      BY <2>2 DEF InPipe
    <3>2. CASE d = c
      BY <1>p, <3>1, <3>2 DEF OnWay, InPipe
    <3>3. CASE d # c
      BY <1>p, <3>1, <3>3 DEF OnWay, InPipe
    <3> QED
      BY <3>2, <3>3
  <2> QED
    BY <2>1, <2>2 DEF OnWay
<1>1. Typed'
  <2>1. handlers' \subseteq Handlers
    BY <1>a, <1>f, <1>g DEF Typed
  <2>2. proc' \in [Clients -> {"off", "up", "dead"}]
    BY <1>a, <1>f DEF Typed
  <2> QED
    BY <1>a, <1>f, <1>l, <1>p, <1>t, <2>1, <2>2 DEF Typed
<1>2. Homed'
  <2>1. ASSUME NEW d \in Clients, NEW i \in 1 .. Len(pipe'[d]) PROVE ClientOf(pipe'[d][i].run) = d
    <3>1. CASE d = c
      BY <1>f, <1>p, <3>1 DEF Homed
    <3>2. CASE d # c
      BY <1>f, <1>p, <3>2 DEF Homed
    <3> QED
      BY <3>1, <3>2
  <2>2. NeedsExit(c) => ClientOf(c) = c
    BY <1>e, ClientFacts
  <2>3. ASSUME NEW h \in handlers'
        PROVE  /\ ClientOf(h.msg.run) = h.client /\ h.msg.type # "release"
               /\ h.pc = "wait" <=> h.msg.type = "acquire"
    BY <1>a, <1>e, <1>f, <1>g, <2>2 DEF Homed
  <2> QED
    BY <2>1, <2>3 DEF Homed
<1>3. Truthful'
  <2>1. \A m \in Messages : m.run \in Runs
    BY DEF Messages
  <2>2. \A h \in handlers : h.msg.run \in Runs
    BY <1>f DEF Typed, Handlers, Messages
  <2>3. ASSUME NEW m \in Messages, OnWay(m)', IsTerminal(m)
        PROVE  m.status \in Ended /\ (m.status = "completed" => life'[m.run] = "over")
    <3>1. CASE OnWay(m)
      BY <1>f, <1>l, <2>1, <2>3, <3>1 DEF Truthful
    <3>2. CASE NeedsExit(c) /\ m = ExitEvent(c)
      BY <1>e, <3>2 DEF Ended
    <3> QED
      BY <1>m, <2>3, <3>1, <3>2
  <2>4. \A h \in handlers' : h.seen = "completed" => life'[h.msg.run] = "over"
    BY <1>a, <1>f, <1>g, <1>l, <2>2 DEF Truthful
  <2>5. \A r \in Runs : row'[r] = "completed" => life'[r] = "over"
    BY <1>a, <1>f, <1>l DEF Truthful
  <2> QED
    BY <2>3, <2>4, <2>5 DEF Truthful, IsTerminal
<1>4. Unlaunched'
  <2> SUFFICES ASSUME NEW q \in Runs, start'[q] \in {"none", "reserved"}
               PROVE  life'[q] = "none" /\ (q \in Dedicated => Untouched(q)')
    BY DEF Unlaunched
  <2>1. life[q] = "none" /\ (q \in Dedicated => Untouched(q))
    BY <1>a, <1>f DEF Unlaunched
  <2>2. q \in Dedicated => q # c /\ q \in Clients
    BY <1>a, <2>1, ClientFacts DEF Untouched
  <2>3. q \in Dedicated => \A h \in handlers' : h.client # q
    BY <1>a, <1>g, <2>1, <2>2 DEF Untouched
  <2>4. q \in Dedicated => proc'[q] = proc[q] /\ pipe'[q] = pipe[q] /\ last'[q] = last[q]
    BY <1>a, <1>f, <1>p, <1>t, <2>2 DEF Typed
  <2> QED
    BY <1>a, <1>l, <2>1, <2>3, <2>4 DEF Untouched
<1>5. Attended'
  <2> SUFFICES ASSUME NEW q \in Dedicated, client'[q] = "open"
               PROVE  /\ proc'[q] = "dead" => last'[q].terminal
                      /\ last'[q].terminal => \E h \in handlers' : h.client = q /\ Releases(h.msg)
    BY DEF Attended
  <2>1. q \in Clients /\ \A h \in handlers : h \in handlers'
    BY <1>a, ClientFacts
  <2>2. CASE q = c
    <3>1. CASE NeedsExit(c)
      <4>1. g \in handlers' /\ g.client = q /\ Releases(g.msg)
        BY <1>a, <1>e, <1>g, <2>2, <3>1 DEF Releases, RootTerminal
      <4> QED
        BY <1>t, <2>2, <4>1
    <3>2. CASE ~NeedsExit(c)
      <4>1. last[c].terminal
        BY <2>2, <3>2 DEF NeedsExit
      <4> QED
        BY <1>a, <1>f, <1>t, <2>1, <2>2, <4>1 DEF Attended
    <3> QED
      BY <3>1, <3>2
  <2>3. CASE q # c
    <3>1. proc'[q] = proc[q] /\ last'[q] = last[q]
      BY <1>a, <1>f, <1>t, <2>1, <2>3 DEF Typed
    <3> QED
      BY <1>a, <1>f, <2>1, <3>1 DEF Attended
  <2> QED
    BY <2>2, <2>3
<1> QED
  BY <1>1, <1>2, <1>3, <1>4, <1>5 DEF Always

\* A restart leaves nothing on its way.
LEMMA GatewayStopsKeeps ==
    ASSUME Always, GatewayStops
    PROVE  Always'
<1>f. Typed /\ Homed /\ Truthful /\ Unlaunched /\ Attended
  BY DEF Always
<1>a. /\ up' = FALSE /\ handlers' = {} /\ holds' = {} /\ pipe' = [c \in Clients |-> <<>>]
      /\ proc' = [c \in Clients |-> IF proc[c] = "up" THEN "dead" ELSE proc[c]]
      /\ client' = [r \in Dedicated |-> IF client[r] = "open" THEN "gone" ELSE client[r]]
      /\ start' = [r \in Runs |-> IF start[r] = "none" THEN "none" ELSE "over"]
      /\ life' = [r \in Runs |-> Lost(r)]
      /\ UNCHANGED <<setup, row, perm, saved, last, emitted, asked>>
  BY DEF GatewayStops
<1>l. /\ life' \in [Runs -> {"none", "sent", "working", "ending", "over", "lost", "refused"}]
      /\ \A r \in Runs : life[r] = "over" => life'[r] = "over"
      /\ \A r \in Runs : life[r] = "none" => life'[r] = "none"
  BY <1>a, <1>f, LostIs
<1>m. \A m : ~OnWay(m)'
  BY <1>a DEF OnWay, InPipe
<1>1. Typed'
  <2>1. pipe' \in [Clients -> Seq(Messages)]
    BY <1>a
  <2>2. proc' \in [Clients -> {"off", "up", "dead"}]
    BY <1>a, <1>f DEF Typed
  <2>3. client' \in [Dedicated -> {"none", "open", "gone"}]
    BY <1>a, <1>f DEF Typed
  <2>4. start' \in [Runs -> {"none", "reserved", "calling", "failing", "over"}]
    BY <1>a, <1>f DEF Typed
  <2>5. handlers' \subseteq Handlers /\ holds' \subseteq Runs /\ up' \in BOOLEAN
    BY <1>a
  <2> QED
    BY <1>a, <1>f, <1>l, <2>1, <2>2, <2>3, <2>4, <2>5 DEF Typed
<1>2. Homed'
  BY <1>a DEF Homed
<1>3. Truthful'
  BY <1>a, <1>f, <1>l, <1>m DEF Truthful
<1>4. Unlaunched'
  <2>1. \A c \in Dedicated : c \in Clients
    BY ClientFacts
  <2> QED
    BY <1>a, <1>f, <1>l, <2>1 DEF Unlaunched, Untouched, Typed
<1>5. Attended'
  BY <1>a, <1>f DEF Attended, Typed
<1> QED
  BY <1>1, <1>2, <1>3, <1>4, <1>5 DEF Always

\* The Gateway comes up with what the stop left.
LEMMA GatewayServesKeeps ==
    ASSUME Always, GatewayServes
    PROVE  Always'
<1>a. /\ up' = TRUE
      /\ UNCHANGED <<row, perm, saved, holds, start, client, proc, pipe, last, handlers, setup,
                     life, emitted, asked>>
  BY DEF GatewayServes, rows, agent
<1> QED
  BY <1>a, NothingMoves DEF Always, Typed, Truthful, Unlaunched, Untouched, Attended

-----------------------------------------------------------------------------
(* The theorems that hold whatever goes wrong                              *)

\* A behaviour starts with nothing on its way.
LEMMA InitAlways == Init => Always
<1> SUFFICES ASSUME Init PROVE Always
  OBVIOUS
<1>1. Typed
  BY DEF Init, Typed
<1>2. \A m : ~OnWay(m)
  BY DEF Init, OnWay, InPipe
<1>3. Homed /\ Truthful
  BY <1>2 DEF Init, Homed, Truthful
<1>4. Unlaunched /\ Attended
  BY ClientFacts DEF Init, Unlaunched, Untouched, Attended
<1> QED
  BY <1>1, <1>3, <1>4 DEF Always

\* Every step keeps what holds whatever goes wrong.
LEMMA NextAlways == Always /\ [Next]_vars => Always'
<1> SUFFICES ASSUME Always, [Next]_vars PROVE Always'
  OBVIOUS
<1>1. ASSUME NEW r \in Runs, Starting(r) \/ Working(r) \/ Reconcile(r) PROVE Always'
  BY <1>1, AdmitKeeps, PrepareFailsKeeps, LaunchKeeps, ReplyKeeps, FailKeeps, WorkingKeeps
     DEF Starting
<1>2. ASSUME NEW c \in Clients, Read(c) \/ ProcessExits(c) PROVE Always'
  BY <1>2, ReadKeeps, ProcessExitsKeeps
<1>3. ASSUME NEW h \in handlers, Handling(h) PROVE Always'
  BY <1>3, PermitKeeps, SaveKeeps, WriteKeeps, AfterKeeps DEF Handling
<1>4. CASE GatewayStops \/ GatewayServes
  BY <1>4, GatewayStopsKeeps, GatewayServesKeeps
<1>5. CASE UNCHANGED vars
  <2>1. UNCHANGED <<setup, row, perm, saved, start, client, proc, pipe, last, handlers, holds, life,
                    emitted, asked, up>>
    BY <1>5 DEF vars
  <2> QED
    BY <2>1, NothingMoves DEF Always, Typed, Truthful, Unlaunched, Untouched, Attended
<1> QED
  BY <1>1, <1>2, <1>3, <1>4, <1>5 DEF Next

\* Whatever fails, the rows, the pipes and the clients fit together.
THEOREM Integrity == Spec => []Always
  BY InitAlways, NextAlways, PTL DEF Spec

\* Every variable keeps its type.
THEOREM TypeCorrect == Spec => []TypeOK
<1>1. Always => TypeOK
  <2> SUFFICES ASSUME Typed PROVE TypeOK
    BY DEF Always
  <2>1. \A c \in Clients : \A i \in DOMAIN pipe[c] : pipe[c][i] \in Messages
    <3> SUFFICES ASSUME NEW c \in Clients PROVE \A i \in DOMAIN pipe[c] : pipe[c][i] \in Messages
      OBVIOUS
    <3>1. pipe[c] \in Seq(Messages)
      BY DEF Typed
    <3> QED
      BY <3>1
  <2>2. \A h \in handlers : h.msg \in Messages /\ h.client \in Clients
    BY DEF Typed, Handlers
  <2> QED
    BY <2>1, <2>2 DEF Typed, TypeOK
<1> QED
  BY <1>1, Integrity, PTL

\* No crash, timeout, late projection or restart makes a success of a run that has not sent
\* its finish event.
THEOREM SuccessIsFinished == Spec => []CompletedMeansFinished
<1>1. Always => CompletedMeansFinished
  BY DEF Always, Truthful, CompletedMeansFinished
<1> QED
  BY <1>1, Integrity, PTL

\* Whichever of the reader, the waiter and the starter comes last, the client of a dead
\* process does not stay in the map.
THEOREM DeadClientsLeave == Spec => []NoDeadClient
<1>1. Always => NoDeadClient
  <2> SUFFICES ASSUME Always, NEW r \in Dedicated, proc[r] = "dead", Quiet(r), client[r] = "open"
               PROVE  FALSE
    BY DEF NoDeadClient
  <2>1. PICK h \in handlers : h.client = r
    BY DEF Always, Attended
  <2>2. h.msg.run \in Runs /\ ClientOf(h.msg.run) = r
    BY <2>1 DEF Always, Typed, Homed, Handlers, Messages
  <2>3. h.msg.run = r
    BY <2>2, ClientFacts
  <2>4. h.msg.run # r
    BY ClientFacts DEF Quiet
  <2> QED
    BY <2>3, <2>4
<1> QED
  BY <1>1, Integrity, PTL

-----------------------------------------------------------------------------
(* As long as nothing goes wrong: the steps of Start                       *)

\* A run that ended has ended for good.
Stays == \A r \in Runs : row[r] \in Ended => row'[r] \in Ended

\* Where neither pipes nor handlers move, the line is what it was.
LEMMA LineStays ==
    ASSUME Always, Calm, UNCHANGED <<pipe, handlers, emitted, saved, up>>
    PROVE  Alone' /\ Line' /\ New' /\ \A m : OnWay(m)' <=> OnWay(m)
<1>1. \A m : OnWay(m)' <=> OnWay(m)
  BY NothingMoves
<1>2. Alone'
  BY <1>1 DEF Calm, Alone
<1>3. Line'
  BY <1>1 DEF Calm, Line, Follows, Event, IsTerminal
<1>4. New'
  BY DEF Calm, New, Fresh, Event
<1> QED
  BY <1>1, <1>2, <1>3, <1>4

\* What a run that was not sent yet has to its name: nothing.
LEMMA NotSentYet ==
    ASSUME Always, Calm, NEW r \in Runs, start[r] \in {"none", "reserved"}
    PROVE  /\ life[r] = "none" /\ r \notin holds /\ perm[r] # "pending"
           /\ row[r] = IF start[r] = "none" THEN "none" ELSE "running"
           /\ \A m \in Messages : OnWay(m) => m.run # r
           /\ \A h \in handlers : h.msg.run # r
           /\ r \in Dedicated => client[r] = "none"
<1>1. life[r] = "none" /\ (r \in Dedicated => client[r] = "none")
  BY DEF Always, Unlaunched, Untouched
<1>2. /\ r \notin holds /\ perm[r] # "pending" /\ \A m \in Messages : OnWay(m) => m.run # r
      /\ row[r] = IF start[r] = "none" THEN "none" ELSE "running"
  BY <1>1 DEF Calm, Early
<1>3. \A h \in handlers : OnWay(h.msg) /\ h.msg \in Messages
  BY DEF Always, Typed, Handlers, OnWay
<1> QED
  BY <1>1, <1>2, <1>3

\* Only a session in which nothing runs gets a run.
LEMMA AdmitCalm ==
    ASSUME Always, Calm, NEW r \in Runs, Admit(r)
    PROVE  Calm' /\ Stays
<1>a. /\ start[r] = "none" /\ Admissible(r) /\ row' = [row EXCEPT ![r] = "running"]
      /\ start' = [start EXCEPT ![r] = "reserved"]
      /\ UNCHANGED <<perm, saved, client, proc, pipe, last, handlers, holds, setup, life,
                     emitted, asked, up>>
  BY DEF Admit, agent
<1>f. /\ row \in [Runs -> {"none", "running"} \union Ended] /\ Early /\ Late /\ Closed /\ Current
      /\ Apart /\ start \in [Runs -> {"none", "reserved", "calling", "failing", "over"}]
      /\ \A h \in handlers : h.msg.run \in Runs
  BY DEF Always, Typed, Calm, Handlers, Messages
<1>l. Alone' /\ Line' /\ New' /\ \A m : OnWay(m)' <=> OnWay(m)
  BY <1>a, LineStays
<1>n. /\ life[r] = "none" /\ r \notin holds /\ perm[r] # "pending" /\ row[r] = "none"
      /\ \A m \in Messages : OnWay(m) => m.run # r
      /\ \A h \in handlers : h.msg.run # r
      /\ r \in Dedicated => client[r] = "none"
  BY <1>a, NotSentYet
<1>r. row'[r] = "running" /\ \A q \in Runs : q # r => row'[q] = row[q] /\ start'[q] = start[q]
  BY <1>a, <1>f
<1>e. "none" \notin Ended /\ "running" \notin Ended
  BY DEF Ended
<1>1. Early'
  BY <1>a, <1>f, <1>l, <1>n, <1>r DEF Early
<1>2. Late'
  BY <1>a, <1>f, <1>l DEF Late, IsTerminal
<1>3. Closed'
  BY <1>a, <1>e, <1>f, <1>l, <1>r DEF Closed, IsTerminal
<1>4. Current'
  BY <1>a, <1>e, <1>f, <1>n, <1>r, ClientFacts DEF Current, IsTerminal
<1>5. Apart'
  <2>1. \A q \in Runs : row[q] = "running" => SessionOf[q] # SessionOf[r]
    BY <1>a DEF Admissible, Running
  <2> QED
    BY <1>f, <1>r, <2>1 DEF Apart
<1>6. Stays
  BY <1>e, <1>n, <1>r DEF Stays
<1> QED
  BY <1>l, <1>1, <1>2, <1>3, <1>4, <1>5, <1>6 DEF Calm

\* A run whose preparation fails has left no trace.
LEMMA PrepareFailsCalm ==
    ASSUME Always, Calm, NEW r \in Runs, PrepareFails(r)
    PROVE  Calm' /\ Stays
<1>a. /\ start[r] = "reserved" /\ row' = [row EXCEPT ![r] = "failed"]
      /\ start' = [start EXCEPT ![r] = "over"]
      /\ UNCHANGED <<perm, saved, client, proc, pipe, last, handlers, holds, setup, life,
                     emitted, asked, up>>
  BY DEF PrepareFails, agent
<1>f. /\ row \in [Runs -> {"none", "running"} \union Ended] /\ Early /\ Late /\ Closed /\ Current
      /\ Apart /\ start \in [Runs -> {"none", "reserved", "calling", "failing", "over"}]
      /\ \A h \in handlers : h.msg.run \in Runs
  BY DEF Always, Typed, Calm, Handlers, Messages
<1>l. Alone' /\ Line' /\ New' /\ \A m : OnWay(m)' <=> OnWay(m)
  BY <1>a, LineStays
<1>n. /\ life[r] = "none" /\ r \notin holds /\ perm[r] # "pending" /\ row[r] = "running"
      /\ \A m \in Messages : OnWay(m) => m.run # r
      /\ \A h \in handlers : h.msg.run # r
      /\ r \in Dedicated => client[r] = "none"
  BY <1>a, NotSentYet
<1>r. /\ row'[r] = "failed" /\ start'[r] = "over"
      /\ \A q \in Runs : q # r => row'[q] = row[q] /\ start'[q] = start[q]
  BY <1>a, <1>f
<1>e. "failed" \in Ended
  BY DEF Ended
<1>1. Early'
  BY <1>a, <1>f, <1>l, <1>n, <1>r DEF Early
<1>2. Late'
  BY <1>a, <1>f, <1>l DEF Late, IsTerminal
<1>3. Closed'
  BY <1>a, <1>e, <1>f, <1>l, <1>n, <1>r DEF Closed, IsTerminal
<1>4. Current'
  BY <1>a, <1>e, <1>f, <1>n, <1>r, ClientFacts DEF Current, IsTerminal
<1>5. Apart'
  BY <1>f, <1>r DEF Apart
<1>6. Stays
  BY <1>e, <1>r DEF Stays
<1> QED
  BY <1>l, <1>1, <1>2, <1>3, <1>4, <1>5, <1>6 DEF Calm

\* The process of a run starts with nothing said.
LEMMA LaunchCalm ==
    ASSUME Always, Calm, NEW r \in Runs, Launch(r)
    PROVE  Calm' /\ Stays
<1>a. /\ start[r] = "reserved" /\ start' = [start EXCEPT ![r] = "calling"]
      /\ client' = [q \in Dedicated |-> IF q = r THEN "open" ELSE client[q]]
      /\ life' = [life EXCEPT ![r] = "sent"]
      /\ UNCHANGED <<setup, row, perm, saved, holds, pipe, last, handlers, emitted, asked, up>>
  BY DEF Launch, rows
<1>f. /\ life \in [Runs -> {"none", "sent", "working", "ending", "over", "lost", "refused"}]
      /\ Early /\ Late /\ Closed /\ Current
      /\ Apart /\ start \in [Runs -> {"none", "reserved", "calling", "failing", "over"}]
      /\ \A h \in handlers : h.msg.run \in Runs
  BY DEF Always, Typed, Calm, Handlers, Messages
<1>l. Alone' /\ Line' /\ New' /\ \A m : OnWay(m)' <=> OnWay(m)
  BY <1>a, LineStays
<1>n. /\ life[r] = "none" /\ r \notin holds /\ perm[r] # "pending" /\ row[r] = "running"
      /\ \A m \in Messages : OnWay(m) => m.run # r
      /\ \A h \in handlers : h.msg.run # r
      /\ r \in Dedicated => client[r] = "none"
  BY <1>a, NotSentYet
<1>r. /\ start'[r] = "calling" /\ life'[r] = "sent"
      /\ \A q \in Runs : q # r => start'[q] = start[q] /\ life'[q] = life[q]
  BY <1>a, <1>f
<1>1. Early'
  BY <1>a, <1>f, <1>l, <1>n, <1>r DEF Early
<1>2. Late'
  <2>1. \A m \in Messages : m.run \in Runs
    BY DEF Messages
  <2> QED
    BY <1>f, <1>l, <1>r, <2>1 DEF Late, IsTerminal
<1>3. Closed'
  BY <1>a, <1>f, <1>l DEF Closed, IsTerminal
<1>4. Current'
  BY <1>a, <1>f, <1>n, <1>r, ClientFacts DEF Current, IsTerminal
<1>5. Apart' /\ Stays
  BY <1>a, <1>f DEF Apart, Stays
<1> QED
  BY <1>l, <1>1, <1>2, <1>3, <1>4, <1>5 DEF Calm

\* The reply only fails once the run has ended and its client is gone.
LEMMA ReplyCalm ==
    ASSUME Always, Calm, Faultless, NEW r \in Runs, ReplyReturns(r) \/ ReplyFails(r)
    PROVE  Calm' /\ Stays
<1>f. /\ Early /\ Late /\ Closed /\ Current /\ Apart
      /\ start \in [Runs -> {"none", "reserved", "calling", "failing", "over"}]
      /\ client \in [Dedicated -> {"none", "open", "gone"}]
  BY DEF Always, Typed, Calm
<1>x. ReplyFails(r) => r \in Dedicated /\ client[r] = "gone" /\ row[r] \in Ended
  BY <1>f DEF ReplyFails, Faultless, Current
<1>a. /\ start' = [start EXCEPT ![r] = IF ReplyFails(r) THEN "failing" ELSE "over"]
           \/ start' = [start EXCEPT ![r] = "over"]
      /\ UNCHANGED <<row, perm, saved, holds, client, proc, pipe, last, handlers, setup, life,
                     emitted, asked, up>>
  BY <1>f, <1>x DEF ReplyReturns, ReplyFails, Abandon, rows, agent
<1>l. Alone' /\ Line' /\ New' /\ \A m : OnWay(m)' <=> OnWay(m)
  BY <1>a, LineStays
<1>r. /\ start'[r] \in {"failing", "over"} /\ (start'[r] = "failing" => row[r] \in Ended)
      /\ \A q \in Runs : q # r => start'[q] = start[q]
  BY <1>a, <1>f, <1>x
<1>1. Early'
  BY <1>a, <1>f, <1>l, <1>r DEF Early
<1>2. Late' /\ Closed'
  BY <1>a, <1>f, <1>l DEF Late, Closed, IsTerminal
<1>3. Current'
  BY <1>a, <1>f, <1>r DEF Current, IsTerminal
<1>4. Apart' /\ Stays
  BY <1>a, <1>f DEF Apart, Stays
<1> QED
  BY <1>l, <1>1, <1>2, <1>3, <1>4 DEF Calm

\* A start that failed finds its run ended.
LEMMA StartFailsCalm ==
    ASSUME Always, Calm, NEW r \in Runs, StartFails(r)
    PROVE  Calm' /\ Stays
<1>f. /\ row \in [Runs -> {"none", "running"} \union Ended] /\ Early /\ Late /\ Closed /\ Current
      /\ Apart /\ start \in [Runs -> {"none", "reserved", "calling", "failing", "over"}]
      /\ \A h \in handlers : h.msg.run \in Runs
  BY DEF Always, Typed, Calm, Handlers, Messages
<1>a. /\ start[r] = "failing" /\ row' = [row EXCEPT ![r] = "failed"]
      /\ start' = [start EXCEPT ![r] = "over"]
      /\ UNCHANGED <<perm, saved, client, proc, pipe, last, handlers, holds, setup, life,
                     emitted, asked, up>>
  BY DEF StartFails, agent
<1>l. Alone' /\ Line' /\ New' /\ \A m : OnWay(m)' <=> OnWay(m)
  BY <1>a, LineStays
<1>e. row[r] \in Ended /\ "failed" \in Ended /\ "running" \notin Ended /\ "none" \notin Ended
  BY <1>a, <1>f DEF Current, Ended
<1>r. /\ row'[r] = "failed" /\ start'[r] = "over"
      /\ \A q \in Runs : q # r => row'[q] = row[q] /\ start'[q] = start[q]
  BY <1>a, <1>f
<1>t. \A h \in handlers : h.msg.run = r => IsTerminal(h.msg)
  <2>1. \A h \in handlers : OnWay(h.msg) /\ h.msg \in Messages
    BY DEF Always, Typed, Handlers, OnWay
  <2> QED
    BY <1>e, <1>f, <2>1 DEF Closed
<1>1. Early'
  BY <1>a, <1>e, <1>f, <1>l, <1>r DEF Early
<1>2. Late'
  BY <1>a, <1>f, <1>l DEF Late, IsTerminal
<1>3. Closed'
  BY <1>a, <1>e, <1>f, <1>l, <1>r DEF Closed, IsTerminal
<1>4. Current'
  BY <1>a, <1>e, <1>f, <1>r, <1>t, ClientFacts DEF Current, IsTerminal
<1>5. Apart' /\ Stays
  BY <1>e, <1>f, <1>r DEF Apart, Stays
<1> QED
  BY <1>l, <1>1, <1>2, <1>3, <1>4, <1>5 DEF Calm

-----------------------------------------------------------------------------
(* As long as nothing goes wrong: the steps of the Runtime                 *)

\* A run is taken up before it has said anything.
LEMMA AcceptCalm ==
    ASSUME Always, Calm, NEW r \in Runs, AcceptRun(r)
    PROVE  Calm' /\ Stays
<1>f. /\ life \in [Runs -> {"none", "sent", "working", "ending", "over", "lost", "refused"}]
      /\ Early /\ Late /\ Closed /\ Current /\ Apart
  BY DEF Always, Typed, Calm
<1>a. /\ life[r] = "sent" /\ life' = [life EXCEPT ![r] = "working"]
      /\ UNCHANGED <<setup, row, perm, saved, holds, start, client, proc, pipe, last, handlers,
                     emitted, asked, up>>
  BY DEF AcceptRun, rows
<1>l. Alone' /\ Line' /\ New' /\ \A m : OnWay(m)' <=> OnWay(m)
  BY <1>a, LineStays
<1>r. life'[r] = "working" /\ \A q \in Runs : q # r => life'[q] = life[q]
  BY <1>a, <1>f
<1>1. Early'
  BY <1>a, <1>f, <1>l, <1>r DEF Early
<1>2. Late'
  <2>1. \A m \in Messages : OnWay(m) => m.run # r /\ m.run \in Runs
    BY <1>a, <1>f DEF Early, Messages
  <2> QED
    BY <1>f, <1>l, <1>r, <2>1 DEF Late, IsTerminal
<1>3. Closed'
  BY <1>a, <1>f, <1>l DEF Closed, IsTerminal
<1>4. Current'
  BY <1>a, <1>f, <1>r DEF Current, IsTerminal
<1>5. Apart' /\ Stays
  BY <1>a, <1>f DEF Apart, Stays
<1> QED
  BY <1>l, <1>1, <1>2, <1>3, <1>4, <1>5 DEF Calm

\* All that a run says comes after what it has said, and nothing after its end but its end.
LEMMA WritesCalm ==
    ASSUME Always, Calm, Faultless, NEW r \in Runs, NEW m, Writes(r, m)
    PROVE  Calm' /\ Stays
<1>f. /\ Typed /\ Homed /\ Alone /\ Line /\ New /\ Early /\ Late /\ Closed /\ Current /\ Apart
      /\ emitted \in [Runs -> Nat]
  BY DEF Always, Typed, Calm
<1>a. /\ m \in Messages /\ m.run = r /\ Put(r, m) /\ life[r] \in {"working", "ending"}
      /\ \A q \in Runs : q # r => life'[q] = life[q]
      /\ life'[r] \in {"working", "ending", "over"}
      /\ UNCHANGED <<setup, row, perm, saved, holds, start, client, proc, last, handlers, up>>
      /\ emitted' = IF Event(m) THEN [emitted EXCEPT ![r] = m.seq] ELSE emitted
      /\ Event(m) => m.seq = emitted[r] + 1
      /\ IsTerminal(m) \/ (life[r] = "working" /\ life'[r] = "working")
      /\ IsTerminal(m) => life'[r] # "working"
      /\ m.type # "exit" /\ m.type # "workerError"
  BY DEF Writes
<1> DEFINE c == ClientOf(r)
<1>p. /\ c \in Clients
      /\ Len(pipe[c]) \in Nat /\ Len(pipe'[c]) = Len(pipe[c]) + 1
      /\ pipe'[c][Len(pipe[c]) + 1] = m
      /\ \A i \in 1 .. Len(pipe[c]) : pipe'[c][i] = pipe[c][i]
      /\ \A d \in Clients : d # c => pipe'[d] = pipe[d]
  BY <1>a, <1>f, PutDoes
<1>m. \A n : OnWay(n)' => OnWay(n) \/ n = m
  BY <1>a, <1>f, PutAdds
<1> HIDE DEF c
<1>w. /\ \A h \in handlers : OnWay(h.msg) /\ h.msg \in Messages /\ h.client \in Clients
      /\ \A d \in Clients : \A i \in 1 .. Len(pipe[d]) : OnWay(pipe[d][i]) /\ pipe[d][i] \in Messages
  <2>1. \A d \in Clients : pipe[d] \in Seq(Messages)
    BY <1>f DEF Typed
  <2> QED
    BY <1>f, <2>1 DEF Typed, Handlers, OnWay, InPipe
<1>s. /\ \A n \in Messages : n.seq \in Nat /\ n.run \in Runs
      /\ emitted[r] \in Nat /\ \A q \in Runs : emitted[q] <= emitted'[q]
      /\ Event(m) => emitted'[r] = m.seq
  BY <1>a, <1>f DEF Messages
<1>b. \A n \in Messages : OnWay(n) => Follows(n, m)
  <2> SUFFICES ASSUME NEW n \in Messages, OnWay(n), n.run = r
               PROVE  /\ IsTerminal(n) => IsTerminal(m)
                      /\ Event(n) /\ Event(m) => n.seq < m.seq
    BY <1>a DEF Follows
  <2>1. IsTerminal(n) => IsTerminal(m)
    BY <1>a, <1>f DEF Late
  <2>2. Event(n) => n.seq <= emitted[r]
    BY <1>f DEF Line
  <2>3. n.seq \in Nat /\ m.seq \in Nat
    BY <1>a, <1>s
  <2> QED
    BY <1>a, <1>s, <2>1, <2>2, <2>3
<1>1. Alone'
  BY <1>a, <1>f, <1>m DEF Alone
<1>2. Line'
  <2>1. ASSUME NEW d \in Clients, NEW i \in 1 .. Len(pipe'[d]), NEW j \in 1 .. Len(pipe'[d]), i < j
        PROVE  Follows(pipe'[d][i], pipe'[d][j])
    <3>1. CASE d # c
      BY <1>f, <1>p, <2>1, <3>1 DEF Line
    <3>2. CASE d = c /\ j \in 1 .. Len(pipe[c])
      <4>1. i \in 1 .. Len(pipe[c])
        BY <1>p, <2>1, <3>2
      <4> QED
        BY <1>f, <1>p, <2>1, <3>2, <4>1 DEF Line
    <3>3. CASE d = c /\ j \notin 1 .. Len(pipe[c])
      <4>1. j = Len(pipe[c]) + 1 /\ i \in 1 .. Len(pipe[c])
        BY <1>p, <2>1, <3>3
      <4> QED
        BY <1>b, <1>p, <1>w, <3>3, <4>1
    <3> QED
      BY <3>1, <3>2, <3>3
  <2>2. ASSUME NEW h \in handlers, NEW i \in 1 .. Len(pipe'[h.client])
        PROVE  Follows(h.msg, pipe'[h.client][i])
    <3>1. CASE h.client # c \/ i \in 1 .. Len(pipe[c])
      BY <1>f, <1>p, <1>w, <3>1 DEF Line
    <3>2. CASE h.client = c /\ i \notin 1 .. Len(pipe[c])
      <4>1. i = Len(pipe[c]) + 1
        BY <1>p, <3>2
      <4> QED
        BY <1>b, <1>p, <1>w, <3>2, <4>1
    <3> QED
      BY <3>1, <3>2
  <2>3. ASSUME NEW n \in Messages, OnWay(n)', Event(n) PROVE n.seq <= emitted'[n.run]
    <3>1. CASE OnWay(n)
      <4>1. /\ n.seq <= emitted[n.run] /\ emitted[n.run] <= emitted'[n.run] /\ n.seq \in Nat
            /\ n.run \in Runs
        BY <1>f, <1>s, <2>3, <3>1 DEF Line
      <4>2. emitted[n.run] \in Nat /\ emitted'[n.run] \in Nat
        BY <1>a, <1>f, <1>s, <4>1
      <4> QED
        BY <4>1, <4>2
    <3>2. CASE n = m
      BY <1>a, <1>s, <2>3, <3>2
    <3> QED
      BY <1>m, <2>3, <3>1, <3>2
  <2> QED
    BY <1>a, <2>1, <2>2, <2>3 DEF Line, Follows, Event, IsTerminal
<1>3. New'
  <2>1. ASSUME NEW q \in Runs, NEW s \in saved[q] PROVE s <= emitted'[q]
    <3>1. s <= emitted[q] /\ emitted[q] <= emitted'[q] /\ s \in Nat
      BY <1>f, <1>s DEF New, Typed
    <3>2. emitted[q] \in Nat /\ emitted'[q] \in Nat
      BY <1>a, <1>f, <1>s
    <3> QED
      BY <3>1, <3>2
  <2>2. Event(m) => Fresh(m)
    <3> SUFFICES ASSUME Event(m), m.seq \in saved[r] PROVE FALSE
      BY <1>a DEF Fresh
    <3>1. m.seq <= emitted[r] /\ m.seq = emitted[r] + 1
      BY <1>a, <1>f DEF New
    <3> QED
      BY <1>s, <3>1
  <2>3. ASSUME NEW d \in Clients, NEW i \in 1 .. Len(pipe'[d]), Event(pipe'[d][i])
        PROVE  Fresh(pipe'[d][i])
    <3>1. CASE d # c \/ i \in 1 .. Len(pipe[c])
      BY <1>f, <1>p, <2>3, <3>1 DEF New
    <3>2. CASE d = c /\ i \notin 1 .. Len(pipe[c])
      BY <1>p, <2>2, <2>3, <3>2
    <3> QED
      BY <3>1, <3>2
  <2> QED
    BY <1>a, <1>f, <2>1, <2>3 DEF New, Fresh, Event
<1>4. Early'
  BY <1>a, <1>f, <1>m DEF Early
<1>5. Late'
  <2> SUFFICES ASSUME NEW n \in Messages, OnWay(n)', IsTerminal(n) PROVE life'[n.run] # "working"
    BY DEF Late, IsTerminal
  <2>1. CASE n = m
    BY <1>a, <2>1
  <2>2. CASE OnWay(n)
    <3>1. life[n.run] # "working" /\ n.run \in Runs
      BY <1>f, <1>s, <2>2 DEF Late
    <3> QED
      BY <1>a, <3>1
  <2> QED
    BY <1>m, <2>1, <2>2
<1>6. Closed'
  <2>1. row[r] \in Ended => IsTerminal(m)
    BY <1>a, <1>f DEF Early, Ended
  <2> QED
    BY <1>a, <1>f, <1>m, <2>1 DEF Closed, IsTerminal
<1>7. Current'
  BY <1>a, <1>f DEF Current, IsTerminal
<1>8. Apart' /\ Stays
  BY <1>a, <1>f DEF Apart, Stays
<1> QED
  BY <1>1, <1>2, <1>3, <1>4, <1>5, <1>6, <1>7, <1>8 DEF Calm

-----------------------------------------------------------------------------
(* As long as nothing goes wrong: the steps of the handlers                *)

\* The messages of a run that are with a handler's client are its own and what follows.
LEMMA BehindHandler ==
    ASSUME Always, Calm, NEW h \in handlers, NEW n, OnWay(n), n.run = h.msg.run
    PROVE  n = h.msg \/ Follows(h.msg, n)
<1>f. Homed /\ Alone /\ Line
  BY DEF Always, Calm
<1>1. CASE \E g \in handlers : g.msg = n
  BY <1>1, <1>f DEF Homed, Alone
<1>2. CASE \E d \in Clients : InPipe(d, n)
  <2>1. PICK d \in Clients : \E i \in 1 .. Len(pipe[d]) : pipe[d][i] = n
    BY <1>2 DEF InPipe
  <2>2. PICK i \in 1 .. Len(pipe[d]) : pipe[d][i] = n
    BY <2>1
  <2>3. d = h.client
    BY <1>f, <2>2 DEF Homed
  <2> QED
    BY <1>f, <2>2, <2>3 DEF Line
<1> QED
  BY <1>1, <1>2 DEF OnWay

\* The reader takes a message only when it has done with the one before.
LEMMA ReadCalm ==
    ASSUME Always, Calm, NEW c \in Clients, Read(c)
    PROVE  Calm' /\ Stays
<1>f. /\ Typed /\ Homed /\ Alone /\ Line /\ New /\ Early /\ Late /\ Closed /\ Current /\ Apart
  BY DEF Always, Calm
<1> DEFINE m  == Head(pipe[c])
           pc == IF m.type = "acquire" THEN "wait" ELSE "save"
           g  == Handler("reader", c, m, pc)
<1>r. /\ m \in Messages /\ m = pipe[c][1] /\ 1 \in 1 .. Len(pipe[c]) /\ ~Busy(c)
      /\ Len(pipe[c]) \in Nat
      /\ Len(pipe'[c]) = Len(pipe[c]) - 1
      /\ \A i \in 1 .. Len(pipe'[c]) : pipe'[c][i] = pipe[c][i + 1] /\ i + 1 \in 1 .. Len(pipe[c])
      /\ \A d \in Clients : d # c => pipe'[d] = pipe[d]
      /\ \/ m.type = "release" /\ handlers' = handlers /\ holds' = holds \ {m.run}
         \/ m.type # "release" /\ handlers' = handlers \union {g} /\ holds' = holds
      /\ \A d \in Clients : d # c => last'[d] = last[d]
      /\ last'[c].terminal <=> last[c].terminal \/ IsTerminal(m)
      /\ UNCHANGED <<row, perm, saved, start, client, proc, setup, life, emitted, asked, up>>
  BY <1>f, ReadDoes
<1>g. /\ g.client = c /\ g.msg = m /\ g.pc = pc /\ g.by = "reader" /\ pc \in {"wait", "save"}
      /\ pc = "save" <=> m.type # "acquire"
  BY <1>r, HandlerIs
<1> HIDE DEF m, pc, g
<1>h. \A h \in handlers' : h \in handlers \/ (h = g /\ m.type # "release")
  BY <1>r
<1>m. \A n : OnWay(n)' => OnWay(n)
  BY ReadKeeps
<1>b. \A h \in handlers : h.client # c /\ h.client \in Clients
  <2>1. \A h \in handlers : h.client # c
    BY <1>f, <1>r DEF Busy, Alone
  <2> QED
    BY <1>f, <2>1 DEF Typed, Handlers
<1>t. \A d \in Clients : last[d].terminal => last'[d].terminal
  BY <1>r
<1>1. Alone'
  <2>1. \A h, k \in handlers' : h.client = k.client => h = k
    BY <1>b, <1>f, <1>g, <1>h DEF Alone
  <2> QED
    BY <1>f, <1>g, <1>h, <1>m, <1>r, <2>1 DEF Alone
<1>2. Line'
  <2>1. ASSUME NEW d \in Clients, NEW i \in 1 .. Len(pipe'[d]), NEW j \in 1 .. Len(pipe'[d]), i < j
        PROVE  Follows(pipe'[d][i], pipe'[d][j])
    <3>1. CASE d # c
      BY <1>f, <1>r, <2>1, <3>1 DEF Line
    <3>2. CASE d = c
      <4>1. /\ i + 1 \in 1 .. Len(pipe[c]) /\ j + 1 \in 1 .. Len(pipe[c]) /\ i + 1 < j + 1
            /\ pipe'[d][i] = pipe[c][i + 1] /\ pipe'[d][j] = pipe[c][j + 1]
        BY <1>r, <2>1, <3>2
      <4> QED
        BY <1>f, <4>1 DEF Line
    <3> QED
      BY <3>1, <3>2
  <2>2. ASSUME NEW h \in handlers', NEW i \in 1 .. Len(pipe'[h.client])
        PROVE  Follows(h.msg, pipe'[h.client][i])
    <3>1. CASE h \in handlers
      BY <1>b, <1>f, <1>r, <3>1 DEF Line
    <3>2. CASE h = g
      <4>1. /\ i + 1 \in 1 .. Len(pipe[c]) /\ 1 < i + 1 /\ pipe'[h.client][i] = pipe[c][i + 1]
            /\ h.msg = pipe[c][1]
        BY <1>g, <1>r, <3>2
      <4> QED
        BY <1>f, <1>r, <4>1 DEF Line
    <3> QED
      BY <1>h, <3>1, <3>2
  <2>3. \A n \in Messages : OnWay(n)' /\ Event(n) => n.seq <= emitted'[n.run]
    BY <1>f, <1>m, <1>r DEF Line
  <2> QED
    BY <2>1, <2>2, <2>3 DEF Line, Follows, Event, IsTerminal
<1>3. New'
  <2>1. ASSUME NEW d \in Clients, NEW i \in 1 .. Len(pipe'[d]), Event(pipe'[d][i])
        PROVE  Fresh(pipe'[d][i])
    BY <1>f, <1>r, <2>1, ZenonT(40) DEF New
  <2>2. ASSUME NEW h \in handlers', h.pc = "save" PROVE Fresh(h.msg)
    <3>1. CASE h = g /\ m.type # "release"
      <4>1. Event(m) /\ h.msg = m
        BY <1>g, <2>2, <3>1 DEF Event
      <4> QED
        BY <1>f, <1>r, <4>1 DEF New
    <3> QED
      BY <1>f, <1>h, <2>2, <3>1 DEF New
  <2> QED
    BY <1>f, <1>r, <2>1, <2>2 DEF New, Fresh, Event
<1>4. Early' /\ Late' /\ Closed'
  <2>1. \A r \in Runs : r \in holds' => r \in holds
    BY <1>r
  <2> QED
    BY <1>f, <1>m, <1>r, <2>1 DEF Early, Late, Closed, IsTerminal
<1>5. Current'
  <2>1. \A h \in handlers' : IsTerminal(h.msg) => last'[h.client].terminal
    BY <1>b, <1>f, <1>g, <1>h, <1>r, <1>t DEF Current
  <2>2. \A h \in handlers' : h.pc \in {"write", "after"} => h \in handlers
    BY <1>g, <1>h
  <2>3. \A r \in Dedicated : client'[r] = "gone" => row'[r] \in Ended /\ last'[r].terminal
    BY <1>f, <1>r, <1>t, ClientFacts DEF Current
  <2> QED
    BY <1>f, <1>r, <2>1, <2>2, <2>3 DEF Current, IsTerminal
<1>6. Apart' /\ Stays
  BY <1>f, <1>r DEF Apart, Stays
<1> QED
  BY <1>1, <1>2, <1>3, <1>4, <1>5, <1>6 DEF Calm

\* A run that ended has no request for a permit.
LEMMA PermitCalm ==
    ASSUME Always, Calm, NEW h \in handlers, GrantPermit(h) \/ PermitTimesOut(h)
    PROVE  Calm' /\ Stays
<1>a. /\ h.pc = "wait" /\ handlers' = handlers \ {h}
      /\ holds' = holds \/ holds' = holds \union {h.msg.run}
      /\ UNCHANGED <<row, perm, saved, start, client, proc, pipe, last, setup, life, emitted,
                     asked, up>>
  BY DEF GrantPermit, PermitTimesOut, Done, rows, agent
<1>f. /\ Typed /\ Homed /\ Alone /\ Line /\ New /\ Early /\ Late /\ Closed /\ Current /\ Apart
  BY DEF Always, Calm
<1>m. \A n : OnWay(n)' => OnWay(n)
  BY PermitKeeps
<1>r. /\ h.msg \in Messages /\ h.msg.run \in Runs /\ OnWay(h.msg)
      /\ row[h.msg.run] \notin Ended /\ life[h.msg.run] \notin {"none", "sent"}
  <2>1. h.msg \in Messages /\ h.msg.run \in Runs /\ OnWay(h.msg)
    BY <1>f DEF Typed, Handlers, Messages, OnWay
  <2>2. ~IsTerminal(h.msg)
    BY <1>a, <1>f DEF Homed, IsTerminal, RootTerminal
  <2> QED
    BY <1>f, <2>1, <2>2 DEF Closed, Early
<1>1. Alone' /\ Line' /\ New'
  <2>1. Alone'
    BY <1>a, <1>f, <1>m DEF Alone
  <2>2. Line'
    BY <1>a, <1>f, <1>m DEF Line, Follows, Event, IsTerminal
  <2>3. New'
    BY <1>a, <1>f DEF New, Fresh, Event
  <2> QED
    BY <2>1, <2>2, <2>3
<1>2. Early'
  BY <1>a, <1>f, <1>m, <1>r DEF Early
<1>3. Late' /\ Closed'
  BY <1>a, <1>f, <1>m, <1>r DEF Late, Closed, IsTerminal
<1>4. Current'
  BY <1>a, <1>f DEF Current, IsTerminal
<1>5. Apart' /\ Stays
  BY <1>a, <1>f DEF Apart, Stays
<1> QED
  BY <1>1, <1>2, <1>3, <1>4, <1>5 DEF Calm

\* Every event of a line is new, and its status is read as it is.
LEMMA SaveCalm ==
    ASSUME Always, Calm, NEW h \in handlers, Save(h)
    PROVE  Calm' /\ Stays
<1> DEFINE r == h.msg.run
           g == [h EXCEPT !.pc = "write", !.seen = row[r]]
<1>f. /\ Typed /\ Homed /\ Alone /\ Line /\ New /\ Early /\ Late /\ Closed /\ Current /\ Apart
  BY DEF Always, Calm
<1>n. h.pc = "save" /\ Fresh(h.msg)
  BY <1>f DEF Save, New
<1>a. /\ handlers' = (handlers \ {h}) \union {g}
      /\ saved' = [saved EXCEPT ![r] = @ \union {h.msg.seq}]
      /\ UNCHANGED <<row, perm, start, client, proc, pipe, last, holds, setup, life, emitted,
                     asked, up>>
  BY <1>n DEF Save, MoveOn, agent
<1>g. /\ h \in Handlers /\ r \in Runs /\ h.msg.seq \in Nat /\ h.msg \in Messages /\ OnWay(h.msg)
      /\ g.msg = h.msg /\ g.client = h.client /\ g.pc = "write" /\ g.seen = row[r] /\ g.by = h.by
  BY <1>f DEF Typed, Handlers, Messages, OnWay
<1> HIDE DEF g
<1>h. \A k \in handlers' : (k \in handlers /\ k # h) \/ k = g
  BY <1>a
<1>m. \A n : OnWay(n)' => OnWay(n)
  BY SaveKeeps
<1>s. /\ Event(h.msg) /\ h.msg.seq <= emitted[r]
      /\ \A q \in Runs : q # r => saved'[q] = saved[q]
      /\ saved'[r] = saved[r] \union {h.msg.seq}
  <2>1. Event(h.msg)
    BY <1>f, <1>n DEF Homed, Event
  <2>2. h.msg.seq <= emitted[r]
    BY <1>f, <1>g, <2>1 DEF Line
  <2>3. saved \in [Runs -> SUBSET Nat]
    BY <1>f DEF Typed
  <2> QED
    BY <1>a, <1>g, <2>1, <2>2, <2>3
<1>1. Alone'
  <2>1. \A j, k \in handlers' : j.client = k.client => j = k
    BY <1>f, <1>g, <1>h DEF Alone
  <2> QED
    BY <1>a, <1>f, <1>g, <1>h, <1>m, <2>1 DEF Alone
<1>2. Line'
  <2>1. ASSUME NEW k \in handlers', NEW i \in 1 .. Len(pipe'[k.client])
        PROVE  Follows(k.msg, pipe'[k.client][i])
    BY <1>a, <1>f, <1>g, <1>h DEF Line
  <2> QED
    BY <1>a, <1>f, <1>m, <2>1 DEF Line, Follows, Event, IsTerminal
<1>3. New'
  <2>1. \A q \in Runs : \A s \in saved'[q] : s <= emitted'[q]
    BY <1>a, <1>f, <1>s DEF New
  <2>2. ASSUME NEW d \in Clients, NEW i \in 1 .. Len(pipe'[d]), Event(pipe'[d][i])
        PROVE  pipe'[d][i].seq \notin saved'[pipe'[d][i].run]
    <3> DEFINE n == pipe[d][i]
    <3>1. /\ i \in 1 .. Len(pipe[d]) /\ n = pipe'[d][i] /\ n.seq \notin saved[n.run]
          /\ ClientOf(n.run) = d /\ n \in Messages
      <4>1. i \in 1 .. Len(pipe[d]) /\ n = pipe'[d][i]
        BY <1>a
      <4>2. n \in Messages
        BY <1>f, <4>1 DEF Typed
      <4> QED
        BY <1>f, <2>2, <4>1, <4>2 DEF New, Fresh, Homed
    <3>2. n.run \in Runs /\ n.seq \in Nat
      BY <3>1 DEF Messages
    <3>3. CASE n.run = r
      <4>1. d = h.client
        BY <1>f, <3>1, <3>3 DEF Homed
      <4>2. h.msg.seq < n.seq
        BY <1>f, <1>s, <2>2, <3>1, <3>3, <4>1 DEF Line, Follows
      <4>3. n.seq # h.msg.seq
        BY <1>g, <3>2, <4>2
      <4> QED
        BY <1>s, <3>1, <3>3, <4>3
    <3>4. CASE n.run # r
      BY <1>s, <3>1, <3>2, <3>4
    <3> QED
      BY <3>3, <3>4
  <2>3. ASSUME NEW k \in handlers', k.pc = "save" PROVE k.msg.seq \notin saved'[k.msg.run]
    <3>1. k \in handlers /\ k # h
      BY <1>g, <1>h, <2>3
    <3>2. k.client # h.client /\ k.msg.run \in Runs
      BY <1>f, <3>1 DEF Alone, Typed, Handlers, Messages
    <3>3. k.msg.run # r
      BY <1>f, <3>1, <3>2 DEF Homed
    <3> QED
      BY <1>f, <1>s, <2>3, <3>1, <3>2, <3>3 DEF New, Fresh
  <2> QED
    BY <2>1, <2>2, <2>3 DEF New, Fresh, Event
<1>4. Early' /\ Late' /\ Closed'
  BY <1>a, <1>f, <1>m DEF Early, Late, Closed, IsTerminal
<1>5. Current'
  <2>1. \A k \in handlers' : k.pc = "write" => IsTerminal(k.msg) \/ k.seen = row'[k.msg.run]
    BY <1>a, <1>f, <1>g, <1>h DEF Current
  <2>2. \A k \in handlers' : IsTerminal(k.msg) => last'[k.client].terminal
    BY <1>a, <1>f, <1>g, <1>h DEF Current
  <2>3. \A k \in handlers' : k.pc = "after" => k \in handlers
    BY <1>g, <1>h
  <2> QED
    BY <1>a, <1>f, <2>1, <2>2, <2>3 DEF Current, IsTerminal
<1>6. Apart' /\ Stays
  BY <1>a, <1>f DEF Apart, Stays
<1> QED
  BY <1>1, <1>2, <1>3, <1>4, <1>5, <1>6 DEF Calm

\* The record is written as it was, or ended; and with it all that the run held.
LEMMA WriteCalm ==
    ASSUME Always, Calm, NEW h \in handlers, Write(h)
    PROVE  Calm' /\ Stays
<1> DEFINE r == h.msg.run
           g == [h EXCEPT !.pc = "after", !.seen = "none"]
           gone == IF Releases(h.msg) THEN WaitingOf(r) ELSE {}
<1>f. /\ Typed /\ Homed /\ Truthful /\ Unlaunched
      /\ Alone /\ Line /\ New /\ Early /\ Late /\ Closed /\ Current /\ Apart
      /\ row \in [Runs -> {"none", "running"} \union Ended]
      /\ perm \in [Runs -> {"none", "pending", "closed"}]
  BY DEF Always, Typed, Calm
<1>g. /\ h \in Handlers /\ r \in Runs /\ h.msg \in Messages /\ OnWay(h.msg)
      /\ g.msg = h.msg /\ g.client = h.client /\ g.pc = "after" /\ g.by = h.by
  <2>1. h \in Handlers /\ h.msg \in Messages /\ r \in Runs /\ OnWay(h.msg)
    BY <1>f DEF Typed, Handlers, Messages, OnWay
  <2> QED
    BY <2>1 DEF Handlers
<1>t. Releases(h.msg) <=> IsTerminal(h.msg)
  BY <1>f, <1>g DEF Alone, Releases, IsTerminal
<1>a. /\ h.pc = "write" /\ handlers' = (handlers \ ({h} \union gone)) \union {g}
      /\ row' = [row EXCEPT ![r] = Projected(h)]
      /\ holds' = IF Releases(h.msg) THEN holds \ {r} ELSE holds
      /\ perm' = [perm EXCEPT ![r] = IF h.msg.type = "permission" THEN "pending"
                                     ELSE IF Releases(h.msg) THEN ClosePending(r) ELSE perm[r]]
      /\ UNCHANGED <<saved, start, client, proc, pipe, last, setup, life, emitted, asked, up>>
  BY DEF Write, agent
<1>p. /\ row'[r] = Projected(h) /\ \A q \in Runs : q # r => row'[q] = row[q] /\ perm'[q] = perm[q]
      /\ IsTerminal(h.msg) => Projected(h) \in Ended
      /\ ~IsTerminal(h.msg) => Projected(h) = row[r]
  <2>1. IsTerminal(h.msg) => h.msg.status \in Ended
    BY <1>f, <1>g DEF Truthful
  <2> QED
    BY <1>a, <1>f, <1>g, <2>1 DEF Projected, Current, IsTerminal
<1>q. /\ IsTerminal(h.msg) => r \notin holds' /\ perm'[r] # "pending"
      /\ \A q \in Runs : q \in holds' => q \in holds
  <2>1. IsTerminal(h.msg) => h.msg.type # "permission"
    BY DEF IsTerminal, RootTerminal
  <2> QED
    BY <1>a, <1>f, <1>g, <1>t, <2>1 DEF ClosePending
<1> HIDE DEF g, gone
<1>h. \A k \in handlers' : (k \in handlers /\ k # h) \/ k = g
  BY <1>a
<1>m. \A n : OnWay(n)' => OnWay(n)
  BY WriteKeeps
<1>o. \A k \in handlers : k # h => k.msg.run # r /\ k.msg.run \in Runs
  BY <1>f DEF Alone, Homed, Typed, Handlers, Messages
<1>w. /\ life[r] \notin {"none", "sent"} /\ start[r] \notin {"none", "reserved"}
      /\ IsTerminal(h.msg) => life[r] # "working"
  BY <1>f, <1>g DEF Early, Unlaunched, Late
<1>s. \A q \in Runs : row[q] \in Ended => row'[q] \in Ended
  BY <1>p
<1>1. Alone'
  <2>1. \A j, k \in handlers' : j.client = k.client => j = k
    BY <1>f, <1>g, <1>h DEF Alone
  <2> QED
    BY <1>a, <1>f, <1>g, <1>h, <1>m, <2>1 DEF Alone
<1>2. Line'
  <2>1. ASSUME NEW k \in handlers', NEW i \in 1 .. Len(pipe'[k.client])
        PROVE  Follows(k.msg, pipe'[k.client][i])
    BY <1>a, <1>f, <1>g, <1>h DEF Line
  <2> QED
    BY <1>a, <1>f, <1>m, <2>1 DEF Line, Follows, Event, IsTerminal
<1>3. New'
  <2>1. \A k \in handlers' : k.pc = "save" => k \in handlers
    BY <1>g, <1>h
  <2> QED
    BY <1>a, <1>f, <2>1 DEF New, Fresh, Event
<1>4. Early'
  <2> SUFFICES ASSUME NEW q \in Runs
               PROVE  /\ start'[q] = "none" => row'[q] = "none"
                      /\ start'[q] = "reserved" => row'[q] = "running"
                      /\ life'[q] \in {"sent", "working"} => row'[q] = "running"
                      /\ life'[q] \in {"none", "sent"} =>
                            q \notin holds' /\ perm'[q] # "pending"
                            /\ \A m \in Messages : OnWay(m)' => m.run # q
    BY DEF Early
  <2>1. CASE q # r
    BY <1>a, <1>f, <1>m, <1>p, <1>q, <2>1 DEF Early
  <2>2. CASE q = r
    <3>1. life[r] = "working" => row'[r] = "running"
      BY <1>f, <1>g, <1>p, <1>w DEF Early
    <3> QED
      BY <1>a, <1>w, <2>2, <3>1
  <2> QED
    BY <2>1, <2>2
<1>5. Late'
  BY <1>a, <1>f, <1>m DEF Late, IsTerminal
<1>6. Closed'
  <2> SUFFICES ASSUME NEW q \in Runs, row'[q] \in Ended
               PROVE  /\ q \notin holds' /\ perm'[q] # "pending"
                      /\ \A m \in Messages : OnWay(m)' /\ m.run = q => IsTerminal(m)
    BY DEF Closed, IsTerminal
  <2>1. CASE q # r
    BY <1>f, <1>m, <1>p, <1>q, <2>1 DEF Closed
  <2>2. CASE q = r
    <3>1. IsTerminal(h.msg)
      BY <1>f, <1>g, <1>p, <2>2 DEF Closed
    <3>2. \A m \in Messages : OnWay(m) /\ m.run = q => IsTerminal(m)
      BY <2>2, <3>1, BehindHandler DEF Follows
    <3> QED
      BY <1>m, <1>q, <2>2, <3>1, <3>2
  <2> QED
    BY <2>1, <2>2
<1>7. Current'
  <2>1. \A k \in handlers' : k.pc = "write" => IsTerminal(k.msg) \/ k.seen = row'[k.msg.run]
    BY <1>f, <1>g, <1>h, <1>o, <1>p DEF Current
  <2>2. \A k \in handlers' : IsTerminal(k.msg) => last'[k.client].terminal
    BY <1>a, <1>f, <1>g, <1>h DEF Current
  <2>3. \A k \in handlers' : k.pc = "after" /\ IsTerminal(k.msg) => row'[k.msg.run] \in Ended
    BY <1>f, <1>g, <1>h, <1>o, <1>p DEF Current
  <2>4. \A q \in Dedicated : client'[q] = "gone" => row'[q] \in Ended /\ last'[q].terminal
    BY <1>a, <1>f, <1>s, ClientFacts DEF Current
  <2>5. \A q \in Runs : start'[q] = "failing" => row'[q] \in Ended
    BY <1>a, <1>f, <1>s DEF Current
  <2> QED
    BY <1>a, <1>f, <2>1, <2>2, <2>3, <2>4, <2>5 DEF Current, IsTerminal
<1>8. Apart'
  <2>1. \A q \in Runs : row'[q] = "running" => row[q] = "running"
    BY <1>p DEF Ended
  <2> QED
    BY <1>f, <2>1 DEF Apart
<1> QED
  BY <1>s, <1>1, <1>2, <1>3, <1>4, <1>5, <1>6, <1>7, <1>8 DEF Calm, Stays

\* The client that is taken away is one whose run has ended.
LEMMA AfterCalm ==
    ASSUME Always, Calm, NEW h \in handlers, After(h)
    PROVE  Calm' /\ Stays
<1> DEFINE r == h.msg.run
<1>f. /\ Typed /\ Homed /\ Alone /\ Line /\ New /\ Early /\ Late /\ Closed /\ Current /\ Apart
      /\ client \in [Dedicated -> {"none", "open", "gone"}]
  BY DEF Always, Typed, Calm
<1>a. /\ h.pc = "after"
      /\ holds' = IF h.msg.type \in RootTerminal THEN holds \ {r} ELSE holds
      /\ client' = IF ReleasesClient(h) THEN [client EXCEPT ![h.client] = "gone"] ELSE client
      /\ UNCHANGED <<row, perm, saved, start, proc, pipe, last, setup, life, emitted, asked, up>>
  BY DEF After, agent
<1>h. handlers' \subseteq handlers /\ \A q \in Runs : q \in holds' => q \in holds
  BY <1>a DEF After
<1>m. \A n : OnWay(n)' => OnWay(n)
  BY AfterKeeps
<1>g. h.msg \in Messages /\ r \in Runs /\ OnWay(h.msg)
  BY <1>f DEF Typed, Handlers, Messages, OnWay
<1>c. \A q \in Dedicated : /\ client[q] = "gone" => client'[q] = "gone"
                           /\ client'[q] = "gone" => row[q] \in Ended /\ last[q].terminal
  <2>1. CASE ~ReleasesClient(h)
    BY <1>a, <1>f, <2>1 DEF Current
  <2>2. CASE ReleasesClient(h)
    <3>1. h.client \in Dedicated /\ IsTerminal(h.msg)
      BY <1>f, <1>g, <2>2 DEF ReleasesClient, Releases, Alone, IsTerminal
    <3>2. r = h.client
      BY <1>f, <1>g, <3>1, ClientFacts DEF Homed
    <3>3. row[r] \in Ended /\ last[h.client].terminal
      BY <1>a, <1>f, <3>1 DEF Current
    <3>4. client' = [client EXCEPT ![h.client] = "gone"]
      BY <1>a, <2>2
    <3> QED
      BY <1>f, <3>1, <3>2, <3>3, <3>4 DEF Current
  <2> QED
    BY <2>1, <2>2
<1>1. Alone' /\ Line' /\ New'
  <2>1. Alone'
    BY <1>a, <1>f, <1>h, <1>m DEF Alone
  <2>2. Line'
    BY <1>a, <1>f, <1>h, <1>m DEF Line, Follows, Event, IsTerminal
  <2>3. New'
    BY <1>a, <1>f, <1>h DEF New, Fresh, Event
  <2> QED
    BY <2>1, <2>2, <2>3
<1>2. Early' /\ Late' /\ Closed'
  BY <1>a, <1>f, <1>h, <1>m DEF Early, Late, Closed, IsTerminal
<1>3. Current'
  BY <1>a, <1>c, <1>f, <1>h, ClientFacts DEF Current, IsTerminal
<1>4. Apart' /\ Stays
  BY <1>a, <1>f DEF Apart, Stays
<1> QED
  BY <1>1, <1>2, <1>3, <1>4 DEF Calm

-----------------------------------------------------------------------------
(* As long as nothing goes wrong: the end of a process, and the theorems   *)

\* Only the process of a run that ended is shut down: nobody makes up an exit for it.
LEMMA ProcessExitsCalm ==
    ASSUME Always, Calm, Faultless, NEW c \in Clients, ProcessExits(c)
    PROVE  Calm' /\ Stays
<1>f. /\ Typed /\ Homed /\ Alone /\ Line /\ New /\ Early /\ Late /\ Closed /\ Current /\ Apart
      /\ life \in [Runs -> {"none", "sent", "working", "ending", "over", "lost", "refused"}]
      /\ last \in [Clients -> [seq : Nat, terminal : BOOLEAN]]
  BY DEF Always, Typed, Calm
<1>c. /\ c \in Dedicated /\ c \in Runs /\ client[c] = "gone" /\ row[c] \in Ended /\ last[c].terminal
      /\ life[c] \notin {"sent", "working"}
  <2>1. c \in Dedicated /\ client[c] = "gone"
    BY DEF ProcessExits, Faultless
  <2> QED
    BY <1>f, <2>1, ClientFacts DEF Current, Early, Ended
<1>a. /\ life' = [r \in Runs |-> IF r \in RunsOf(c) THEN Lost(r) ELSE life[r]]
      /\ handlers' = handlers
      /\ last' = [last EXCEPT ![c].terminal = TRUE]
      /\ UNCHANGED <<setup, row, perm, saved, holds, start, client, emitted, asked, up>>
  BY <1>c DEF ProcessExits, rows, NeedsExit
<1>l. /\ \A r \in Runs : r # c => life'[r] = life[r]
      /\ life'[c] = life[c] \/ (life[c] = "ending" /\ life'[c] = "lost")
  <2>1. \A r \in Runs : r \in RunsOf(c) <=> r = c
    BY <1>c, ClientFacts DEF RunsOf
  <2>2. life'[c] = Lost(c) /\ \A r \in Runs : r # c => life'[r] = life[r]
    BY <1>a, <1>c, <2>1
  <2> QED
    BY <1>c, <1>f, <2>2 DEF Lost
<1>t. last' = last
  <2>1. last[c] = [last[c] EXCEPT !.terminal = TRUE]
    BY <1>c, <1>f
  <2> QED
    BY <1>a, <1>f, <2>1
<1>n. PICK n \in 0 .. Len(pipe[c]) : pipe' = [pipe EXCEPT ![c] = SubSeq(@, 1, n)]
  BY DEF ProcessExits
<1>p. /\ Len(pipe'[c]) = n
      /\ \A i \in 1 .. n : pipe'[c][i] = pipe[c][i] /\ i \in 1 .. Len(pipe[c])
      /\ \A d \in Clients : d # c => pipe'[d] = pipe[d]
  BY <1>f, <1>n, CutDoes
<1>q. \A d \in Clients : \A i \in 1 .. Len(pipe'[d]) :
         i \in 1 .. Len(pipe[d]) /\ pipe'[d][i] = pipe[d][i]
  BY <1>p
<1>m. \A m : OnWay(m)' => OnWay(m)
  BY <1>a, <1>q DEF OnWay, InPipe
<1>b. \A h \in handlers : h.client \in Clients /\ h.msg.run \in Runs
  BY <1>f DEF Typed, Handlers, Messages
<1>1. Alone'
  BY <1>a, <1>f, <1>m DEF Alone
<1>2. Line'
  <2>1. \A d \in Clients : \A i, j \in 1 .. Len(pipe'[d]) : i < j => Follows(pipe'[d][i], pipe'[d][j])
    BY <1>f, <1>q DEF Line
  <2>2. \A h \in handlers : \A i \in 1 .. Len(pipe'[h.client]) : Follows(h.msg, pipe'[h.client][i])
    BY <1>b, <1>f, <1>q DEF Line
  <2> QED
    BY <1>a, <1>f, <1>m, <2>1, <2>2 DEF Line, Follows, Event, IsTerminal
<1>3. New'
  BY <1>a, <1>f, <1>q DEF New, Fresh, Event
<1>4. Early'
  BY <1>a, <1>c, <1>f, <1>l, <1>m DEF Early
<1>5. Late'
  <2>1. \A m \in Messages : m.run \in Runs
    BY DEF Messages
  <2> QED
    BY <1>c, <1>f, <1>l, <1>m, <2>1 DEF Late, IsTerminal
<1>6. Closed'
  BY <1>a, <1>f, <1>m DEF Closed, IsTerminal
<1>7. Current'
  BY <1>a, <1>c, <1>f, <1>l, <1>t DEF Current, IsTerminal
<1>8. Apart' /\ Stays
  BY <1>a, <1>f DEF Apart, Stays
<1> QED
  BY <1>1, <1>2, <1>3, <1>4, <1>5, <1>6, <1>7, <1>8 DEF Calm

\* No behaviour starts with anything on its way.
LEMMA InitCalm == Init => Calm
<1> SUFFICES ASSUME Init PROVE Calm
  OBVIOUS
<1>1. \A m : ~OnWay(m)
  BY DEF Init, OnWay, InPipe
<1>2. Alone /\ Line /\ New
  BY <1>1 DEF Init, Alone, Line, New
<1>3. Early /\ Late /\ Closed /\ Current /\ Apart
  BY <1>1, ClientFacts DEF Init, Early, Late, Closed, Current, Apart, Ended
<1> QED
  BY <1>2, <1>3 DEF Calm

\* No step of a behaviour in which nothing fails ends the calm.
LEMMA NextCalm ==
    ASSUME Always, Calm, Faultless, [Next]_vars
    PROVE  Calm' /\ Stays
<1>1. ASSUME NEW r \in Runs, Starting(r) \/ Working(r) \/ Reconcile(r) PROVE Calm' /\ Stays
  <2>1. ~Reconcile(r) /\ ~FinishDropped(r)
    BY DEF Reconcile, FinishDropped, Faultless, Calm, Alone
  <2>2. CASE Starting(r)
    BY <2>2, AdmitCalm, PrepareFailsCalm, LaunchCalm, ReplyCalm, StartFailsCalm DEF Starting
  <2>3. CASE Working(r)
    <3>1. CASE AcceptRun(r)
      BY <3>1, AcceptCalm
    <3>2. CASE EmitEvent(r) \/ EmitError(r) \/ EmitFinish(r) \/ AskPermit(r) \/ ReturnPermit(r)
      <4>1. PICK m : Writes(r, m)
        BY <3>2, WorkWrites DEF Always
      <4> QED
        BY <4>1, WritesCalm
    <3> QED
      BY <2>1, <2>3, <3>1, <3>2 DEF Working
  <2> QED
    BY <1>1, <2>1, <2>2, <2>3
<1>2. ASSUME NEW c \in Clients, Read(c) \/ ProcessExits(c) PROVE Calm' /\ Stays
  BY <1>2, ReadCalm, ProcessExitsCalm
<1>3. ASSUME NEW h \in handlers, Handling(h) PROVE Calm' /\ Stays
  BY <1>3, PermitCalm, SaveCalm, WriteCalm, AfterCalm DEF Handling
<1>4. ~GatewayStops /\ ~GatewayServes
  BY DEF GatewayStops, GatewayServes, Faultless, Calm, Alone
<1>5. CASE UNCHANGED vars
  <2>1. UNCHANGED <<setup, row, perm, saved, start, client, proc, pipe, last, handlers, holds, life,
                    emitted, asked, up>>
    BY <1>5 DEF vars
  <2>2. Alone' /\ Line' /\ New' /\ \A m : OnWay(m)' <=> OnWay(m)
    BY <2>1, LineStays
  <2>3. Early' /\ Late' /\ Closed' /\ Current' /\ Apart'
    BY <2>1, <2>2 DEF Calm, Early, Late, Closed, Current, Apart, IsTerminal
  <2> QED
    BY <2>1, <2>2, <2>3 DEF Calm, Stays
<1> QED
  BY <1>1, <1>2, <1>3, <1>4, <1>5 DEF Next

\* What goes wrong is settled when a behaviour starts.
LEMMA FaultlessStays ==
    ASSUME [Next]_vars
    PROVE  Faultless' = Faultless
<1>1. setup' = setup
  BY DEF Next, Starting, Working, Handling, Admit, PrepareFails, Launch, ReplyReturns, ReplyFails,
         StartFails, AcceptRun, EmitEvent, EmitError, EmitFinish, Emit, FinishDropped, AskPermit,
         ReturnPermit, Read, GrantPermit, PermitTimesOut, Save, Write, After, ProcessExits,
         GatewayStops, Reconcile, GatewayServes, agent, vars
<1> QED
  BY <1>1 DEF Faultless

\* The inductive invariant: the first half whatever fails, the second where nothing does.
THEOREM Safety == Spec => []IInv
<1>1. Init => IInv
  BY InitAlways, InitCalm DEF IInv, CalmInv
<1>2. IInv /\ [Next]_vars => IInv'
  <2> SUFFICES ASSUME IInv, [Next]_vars PROVE IInv'
    OBVIOUS
  <2>1. Always'
    BY NextAlways DEF IInv
  <2>2. Faultless' => Calm'
    BY FaultlessStays, NextCalm DEF IInv, CalmInv
  <2> QED
    BY <2>1, <2>2 DEF IInv, CalmInv
<1> QED
  BY <1>1, <1>2, PTL DEF Spec

\* As long as nothing fails, no two runs of a session work at the same time: the row of a
\* run is "running" from before it works until after its last word.
THEOREM SessionsAreSerial == Spec => [](Faultless => SessionSerial)
<1>1. IInv => (Faultless => SessionSerial)
  BY DEF IInv, CalmInv, Calm, Early, Apart, SessionSerial
<1> QED
  BY <1>1, Safety, PTL

\* As long as nothing fails, a run that ended holds no permit and no pending permission,
\* whatever was still on its way when its record was written.
THEOREM EndedRunsHoldNothing == Spec => []EndedRunHoldsNothing
<1>1. IInv => EndedRunHoldsNothing
  BY DEF IInv, CalmInv, Calm, Closed, EndedRunHoldsNothing
<1> QED
  BY <1>1, Safety, PTL

\* As long as nothing fails, no late projection makes an ended run run again.
THEOREM EndedRunsStayEnded == Spec => NeverResumes
<1> DEFINE Step == \A r \in Runs : Faultless /\ row[r] \in Ended => row'[r] \in Ended
<1>1. IInv /\ [Next]_vars => [Step]_vars
  <2> SUFFICES ASSUME IInv, [Next]_vars, Faultless PROVE \A r \in Runs : row[r] \in Ended => row'[r] \in Ended
    OBVIOUS
  <2> QED
    BY NextCalm DEF IInv, CalmInv, Stays
<1>2. NeverResumes <=> [][Step]_vars
  BY DEF NeverResumes
<1> HIDE DEF Step
<1> QED
  BY <1>1, <1>2, Safety, PTL DEF Spec
=============================================================================
