------------------------ MODULE PermissionGateProofs ------------------------
(***************************************************************************)
(* Safety of PermissionGate for every set of requests and of answers: a    *)
(* run that has ended has no pending permission, a row shows an answer the *)
(* Runtime accepted, and, once all is handled, the one the tool acted on.  *)
(***************************************************************************)
EXTENDS PermissionGate, TLAPS

-----------------------------------------------------------------------------
(* The inductive invariant                                                 *)

\* What a pipe holds.  No line is on a pipe twice, so a pipe is read as a set.
On(pipe) == {pipe[i] : i \in 1 .. Len(pipe)}
NoTwice(pipe) == \A i, j \in 1 .. Len(pipe) : pipe[i] = pipe[j] => i = j
Pipe == On(toRuntime)
Wire == On(toGateway)

RequestOf(q) == Message("request", {q}, NoAnswer)
Accepting(a) == Message("accepted", {}, a)
Refusing(a) == Message("refused", {}, a)

\* TypeOK, with the type of answer as a function.
Typed ==
    /\ TypeOK
    /\ answer \in [Answers -> [state : {"none", "calling", "accepted", "refused", "done", "left"},
                               req : {{}} \union {{q} : q \in Requests},
                               decision : Decisions]]

Lines ==
    /\ NoTwice(toRuntime) /\ NoTwice(toGateway)
    /\ ~stopped => Cancel \notin Pipe

\* An answer call names a request with a row, and is in one place at most on its way
\* to the Runtime and back; a call that has its reply is nowhere.
Nowhere(a) ==
    /\ a \notin Pipe /\ held # a
    /\ Accepting(a) \notin Wire /\ Refusing(a) \notin Wire

Call(a) ==
    /\ answer[a].state = "none" => answer[a].req = {}
    /\ \A q \in answer[a].req : row[q] # "none"
    /\ answer[a].state # "none" => \E q \in Requests : answer[a].req = {q}
    /\ answer[a].state \notin {"calling", "left"} => Nowhere(a)
    /\ a \in Pipe =>
          held # a /\ Accepting(a) \notin Wire /\ Refusing(a) \notin Wire
    /\ held = a => Accepting(a) \notin Wire /\ Refusing(a) \notin Wire
    /\ Accepting(a) \in Wire => Refusing(a) \notin Wire
Calls == \A a \in Answers : Call(a)

\* A request reaches the Gateway once, before anybody can answer it.
Asks ==
    \A q \in Requests :
        /\ phase[q] \in {"new", "registered"} =>
              row[q] = "none" /\ RequestOf(q) \notin Wire
        /\ RequestOf(q) \in Wire => row[q] = "none"

\* The finish follows every request, on the pipe and in the Gateway.
Ending ==
    /\ ending # "no" => BatchDone
    /\ over \/ FinishMessage \in Wire => ending = "done"
    /\ \A i, j \in 1 .. Len(toGateway) :
          toGateway[i] = FinishMessage /\ i < j => toGateway[j].kind # "request"
    /\ over => \A q \in Requests : RequestOf(q) \notin Wire /\ row[q] # "pending"

\* The Runtime has accepted the answer, and its caller knows or will know unless it leaves.
Accepted(a) ==
    \/ answer[a].state \in {"accepted", "done", "left"}
    \/ answer[a].state = "calling" /\ Accepting(a) \in Wire

Rows ==
    \A q \in Requests : row[q] \in {"resolved", "denied"} =>
        \E a \in Answers : /\ answer[a].req = {q} /\ answer[a].state = "done"
                           /\ RowStatus(answer[a].decision) = row[q]
Shown ==
    \A a \in Answers : \A q \in answer[a].req : answer[a].state = "done" =>
        \/ row[q] = RowStatus(answer[a].decision)
        \/ \E b \in AnswersTo(q) : answer[b].decision # answer[a].decision
Taken ==
    \A q \in Requests :
        /\ channel[q] # NoAnswer => answer[channel[q]].req = {q} /\ Accepted(channel[q])
        /\ outcome[q] \in Decisions =>
              \E a \in AnswersTo(q) : Accepted(a) /\ answer[a].decision = outcome[q]

IInv == Typed /\ Lines /\ Calls /\ Asks /\ Ending /\ Rows /\ Shown /\ Taken

-----------------------------------------------------------------------------
(* Pipes                                                                   *)

\* A line that joins a pipe, and the one that leaves it.
LEMMA Joins ==
    ASSUME NEW S, NEW s \in Seq(S), NEW e \in S
    PROVE  /\ Append(s, e) \in Seq(S)
           /\ On(Append(s, e)) = On(s) \union {e}
           /\ NoTwice(s) /\ e \notin On(s) => NoTwice(Append(s, e))
<1>1. /\ Append(s, e) \in Seq(S) /\ Len(Append(s, e)) = Len(s) + 1 /\ Len(s) \in Nat
      /\ \A i \in 1 .. Len(s) : Append(s, e)[i] = s[i]
      /\ Append(s, e)[Len(s) + 1] = e
  OBVIOUS
<1>2. On(Append(s, e)) = On(s) \union {e}
  BY <1>1 DEF On
<1>3. ASSUME NoTwice(s), e \notin On(s), NEW i \in 1 .. Len(s) + 1, NEW j \in 1 .. Len(s) + 1,
             Append(s, e)[i] = Append(s, e)[j]
      PROVE  i = j
  <2>1. \A k \in 1 .. Len(s) : s[k] # e
    BY <1>3 DEF On
  <2>2. \A k \in 1 .. Len(s) + 1 : k \in 1 .. Len(s) \/ k = Len(s) + 1
    BY <1>1
  <2> QED
    BY <1>1, <1>3, <2>1, <2>2 DEF NoTwice
<1> QED
  BY <1>1, <1>2, <1>3 DEF NoTwice

\* A pipe without repetitions loses its first message and no other.
LEMMA Leaves ==
    ASSUME NEW S, NEW s \in Seq(S), s # <<>>, NoTwice(s)
    PROVE  /\ Tail(s) \in Seq(S) /\ Head(s) \in S /\ Head(s) \in On(s)
           /\ On(Tail(s)) = On(s) \ {Head(s)}
           /\ NoTwice(Tail(s))
<1>1. /\ Tail(s) \in Seq(S) /\ Len(Tail(s)) = Len(s) - 1 /\ Len(s) \in Nat \ {0}
      /\ Head(s) = s[1] /\ Head(s) \in S
      /\ \A i \in 1 .. Len(Tail(s)) : Tail(s)[i] = s[i + 1] /\ i + 1 \in 1 .. Len(s)
  OBVIOUS
<1>2. Head(s) \in On(s)
  BY <1>1 DEF On
<1>3. On(Tail(s)) = On(s) \ {Head(s)}
  <2>1. ASSUME NEW x \in On(Tail(s)) PROVE x \in On(s) /\ x # Head(s)
    <3>1. PICK i \in 1 .. Len(Tail(s)) : x = Tail(s)[i]
      BY DEF On
    <3>2. x = s[i + 1] /\ i + 1 \in 1 .. Len(s) /\ i + 1 # 1 /\ 1 \in 1 .. Len(s)
      BY <1>1, <3>1
    <3> QED
      BY <1>1, <3>2 DEF On, NoTwice
  <2>2. ASSUME NEW x \in On(s), x # Head(s) PROVE x \in On(Tail(s))
    <3>1. PICK i \in 1 .. Len(s) : x = s[i]
      BY DEF On
    <3>2. i # 1 /\ i - 1 \in 1 .. Len(Tail(s))
      BY <1>1, <2>2, <3>1
    <3>3. Tail(s)[i - 1] = s[i]
      BY <1>1, <3>2
    <3> QED
      BY <3>1, <3>2, <3>3 DEF On
  <2> QED
    BY <2>1, <2>2
<1>4. NoTwice(Tail(s))
  <2>1. ASSUME NEW i \in 1 .. Len(Tail(s)), NEW j \in 1 .. Len(Tail(s)), Tail(s)[i] = Tail(s)[j]
        PROVE  i = j
    <3>1. s[i + 1] = s[j + 1] /\ i + 1 \in 1 .. Len(s) /\ j + 1 \in 1 .. Len(s)
      BY <1>1, <2>1
    <3>2. i + 1 = j + 1
      BY <3>1 DEF NoTwice
    <3> QED
      BY <3>2
  <2> QED
    BY <2>1 DEF NoTwice
<1> QED
  BY <1>1, <1>2, <1>3, <1>4

\* The lines of the Runtime's pipe are told apart by their fields.
LEMMA LineFields ==
    /\ \A q : RequestOf(q).kind = "request" /\ RequestOf(q).req = {q}
    /\ FinishMessage.kind = "finish"
    /\ \A a : Accepting(a).kind = "accepted" /\ Accepting(a).ans = a
    /\ \A a : Refusing(a).kind = "refused" /\ Refusing(a).ans = a
BY DEF RequestOf, FinishMessage, Accepting, Refusing, Message

\* Every line of it is one of the four.
LEMMA FourLines ==
    ASSUME NEW m \in Messages
    PROVE  /\ m.kind = "request" => \E q \in Requests : m = RequestOf(q) /\ m.req = {q}
           /\ m.kind = "finish" => m = FinishMessage
           /\ m.kind = "accepted" => m.ans \in Answers /\ m = Accepting(m.ans)
           /\ m.kind = "refused" => m.ans \in Answers /\ m = Refusing(m.ans)
<1>1. CASE \E q \in Requests : m = RequestOf(q)
  BY <1>1, LineFields
<1>2. CASE m = FinishMessage
  BY <1>2, LineFields
<1>3. CASE \E a \in Answers : m = Accepting(a) \/ m = Refusing(a)
  BY <1>3, LineFields
<1>4. \/ \E q \in Requests : m = RequestOf(q)
      \/ m = FinishMessage
      \/ \E a \in Answers : m = Accepting(a) \/ m = Refusing(a)
  <2>1. CASE m \in {Message("request", {q}, NoAnswer) : q \in Requests}
    BY <2>1 DEF RequestOf
  <2>2. CASE m \in {Message(kind, {}, a) : kind \in {"accepted", "refused"}, a \in Answers}
    <3>1. PICK kind \in {"accepted", "refused"}, a \in Answers : m = Message(kind, {}, a)
      BY <2>2
    <3> QED
      BY <3>1 DEF Accepting, Refusing
  <2> QED
    BY <2>1, <2>2 DEF Messages
<1> QED
  BY <1>1, <1>2, <1>3, <1>4

\* The four kinds of lines are messages.
LEMMA LinesAreMessages ==
    /\ \A q \in Requests : RequestOf(q) \in Messages
    /\ FinishMessage \in Messages
    /\ \A a \in Answers : Accepting(a) \in Messages /\ Refusing(a) \in Messages
BY DEF Messages, RequestOf, Accepting, Refusing

-----------------------------------------------------------------------------
(* What the steps that read a pipe or write to it do                       *)

\* The event of a request goes out, unless the run is cancelled.
LEMMA AnnounceDoes ==
    ASSUME Typed, Lines, NEW q \in Requests, Announce(q), RequestOf(q) \notin Wire
    PROVE  /\ toGateway' \in Seq(Messages) /\ NoTwice(toGateway')
           /\ Wire' = IF cancelled THEN Wire ELSE Wire \union {RequestOf(q)}
<1>1. CASE cancelled
  BY <1>1 DEF Announce, Wire, Typed, TypeOK, Lines
<1>2. CASE ~cancelled
  <2>1. toGateway' = Append(toGateway, RequestOf(q)) /\ toGateway \in Seq(Messages)
    BY <1>2 DEF Announce, RequestOf, Typed, TypeOK
  <2> QED
    BY <1>2, <2>1, Joins, LinesAreMessages DEF Wire, Lines
<1> QED
  BY <1>1, <1>2

\* The finish event goes out, or is dropped.
LEMMA FinishDoes ==
    ASSUME Typed, Lines, FinishCancelled \/ EmitFinish, FinishMessage \notin Wire
    PROVE  /\ toGateway' \in Seq(Messages) /\ NoTwice(toGateway')
           /\ \/ toGateway' = toGateway /\ Wire' = Wire
              \/ toGateway' = Append(toGateway, FinishMessage) /\ Wire' = Wire \union {FinishMessage}
<1>1. CASE toGateway' = toGateway
  BY <1>1 DEF Wire, Typed, TypeOK, Lines
<1>2. CASE toGateway' = Append(toGateway, FinishMessage)
  <2>1. toGateway \in Seq(Messages)
    BY DEF Typed, TypeOK
  <2> QED
    BY <1>2, <2>1, Joins, LinesAreMessages DEF Wire, Lines
<1> QED
  BY <1>1, <1>2 DEF FinishCancelled, EmitFinish

\* The Runtime reads the cancel.
LEMMA ReadCancelDoes ==
    ASSUME Typed, Lines, ReadCancel
    PROVE  /\ toRuntime' \in Seq(Answers \union {Cancel}) /\ NoTwice(toRuntime')
           /\ Pipe' = Pipe \ {Cancel} /\ Cancel \in Pipe
<1>1. /\ toRuntime \in Seq(Answers \union {Cancel}) /\ toRuntime # <<>>
      /\ Head(toRuntime) = Cancel /\ toRuntime' = Tail(toRuntime) /\ NoTwice(toRuntime)
  BY DEF ReadCancel, Typed, TypeOK, Lines
<1> QED
  BY <1>1, Leaves DEF Pipe

\* The Runtime reads an answer: it is held for its channel, or refused at once.
LEMMA ReadAnswerDoes ==
    ASSUME Typed, Lines, Calls, ReadAnswer
    PROVE  \E a \in Answers :
             /\ a = Head(toRuntime) /\ a \in Pipe
             /\ toRuntime' \in Seq(Answers \union {Cancel}) /\ NoTwice(toRuntime')
             /\ Pipe' = Pipe \ {a}
             /\ toGateway' \in Seq(Messages) /\ NoTwice(toGateway')
             /\ \/ held' = a /\ toGateway' = toGateway /\ Wire' = Wire
                \/ /\ held' = held /\ toGateway' = Append(toGateway, Refusing(a))
                   /\ Wire' = Wire \union {Refusing(a)}
<1> DEFINE a == Head(toRuntime)
<1>1. /\ toRuntime \in Seq(Answers \union {Cancel}) /\ toRuntime # <<>> /\ a # Cancel
      /\ toRuntime' = Tail(toRuntime) /\ NoTwice(toRuntime)
  BY DEF ReadAnswer, Typed, TypeOK, Lines
<1>2. /\ a \in Answers /\ a \in Pipe /\ Pipe' = Pipe \ {a}
      /\ toRuntime' \in Seq(Answers \union {Cancel}) /\ NoTwice(toRuntime')
  BY <1>1, Leaves DEF Pipe
<1>3. Refusing(a) \notin Wire
  BY <1>2 DEF Calls, Call
<1>4. toGateway \in Seq(Messages) /\ NoTwice(toGateway)
  BY DEF Typed, TypeOK, Lines
<1>5. \/ held' = a /\ toGateway' = toGateway
      \/ held' = held /\ toGateway' = Append(toGateway, Refusing(a))
  BY DEF ReadAnswer, Refusing
<1> HIDE DEF a
<1>6. CASE held' = a /\ toGateway' = toGateway
  BY <1>2, <1>4, <1>6 DEF Wire, a
<1>7. CASE held' = held /\ toGateway' = Append(toGateway, Refusing(a))
  <2>1. /\ Wire' = Wire \union {Refusing(a)}
        /\ toGateway' \in Seq(Messages) /\ NoTwice(toGateway')
    BY <1>2, <1>3, <1>4, <1>7, Joins, LinesAreMessages DEF Wire
  <2> QED
    BY <1>2, <1>7, <2>1 DEF a
<1> QED
  BY <1>5, <1>6, <1>7

\* The answer goes into its channel and its caller is told so.
LEMMA DeliverDoes ==
    ASSUME Typed, Lines, Calls, Deliver
    PROVE  /\ held \in Answers
           /\ toGateway' \in Seq(Messages) /\ NoTwice(toGateway')
           /\ toGateway' = Append(toGateway, Accepting(held))
           /\ Wire' = Wire \union {Accepting(held)}
<1>1. /\ held \in Answers /\ toGateway \in Seq(Messages) /\ NoTwice(toGateway)
      /\ toGateway' = Append(toGateway, Accepting(held))
  BY DEF Deliver, Typed, TypeOK, Lines, Accepting
<1>2. Accepting(held) \notin Wire
  BY <1>1 DEF Calls, Call
<1> QED
  BY <1>1, <1>2, Joins, LinesAreMessages DEF Wire

\* The Gateway reads the first line and takes it from the pipe.
LEMMA ReadDoes ==
    ASSUME Typed, Lines, toGateway # <<>>, toGateway' = Tail(toGateway)
    PROVE  /\ Head(toGateway) \in Messages /\ Head(toGateway) \in Wire
           /\ Wire' = Wire \ {Head(toGateway)}
           /\ toGateway' \in Seq(Messages) /\ NoTwice(toGateway')
<1>1. toGateway \in Seq(Messages) /\ NoTwice(toGateway)
  BY DEF Typed, TypeOK, Lines
<1> QED
  BY <1>1, Leaves DEF Wire

\* The Gateway records the request of the event it reads.
LEMMA ReadRequestDoes ==
    ASSUME Typed, Lines, ReadRequest
    PROVE  \E q \in Requests :
             /\ RequestOf(q) \in Wire /\ Wire' = Wire \ {RequestOf(q)}
             /\ row' = [p \in Requests |-> IF p = q THEN "pending" ELSE row[p]]
<1>1. PICK q \in Requests : Head(toGateway) = RequestOf(q) /\ Head(toGateway).req = {q}
  BY ReadDoes, FourLines DEF ReadRequest, Incoming
<1>2. row' = [p \in Requests |-> IF p \in {q} THEN "pending" ELSE row[p]]
  BY <1>1 DEF ReadRequest
<1>3. row' = [p \in Requests |-> IF p = q THEN "pending" ELSE row[p]]
  BY <1>2
<1> QED
  BY <1>1, <1>3, ReadDoes DEF ReadRequest, Incoming

\* The Gateway reads the finish event.
LEMMA ReadFinishDoes ==
    ASSUME Typed, Lines, ReadFinish
    PROVE  Head(toGateway) = FinishMessage /\ FinishMessage \in Wire /\ Wire' = Wire \ {FinishMessage}
BY ReadDoes, FourLines DEF ReadFinish, Incoming

\* The Gateway reads a reply, and the call it answers goes on if it still waits.
LEMMA ReadReplyDoes ==
    ASSUME Typed, Lines, NEW kind \in {"accepted", "refused"}, ReadReply(kind)
    PROVE  \E a \in Answers :
             LET m == IF kind = "accepted" THEN Accepting(a) ELSE Refusing(a)
             IN  /\ m \in Wire /\ Wire' = Wire \ {m}
                 /\ answer' = IF answer[a].state = "calling"
                              THEN [answer EXCEPT ![a].state = kind]
                              ELSE answer
<1> DEFINE a == Head(toGateway).ans
           m == IF kind = "accepted" THEN Accepting(a) ELSE Refusing(a)
<1>1. Head(toGateway).kind = kind /\ toGateway # <<>> /\ toGateway' = Tail(toGateway)
  BY DEF ReadReply, Incoming
<1>2. a \in Answers /\ Head(toGateway) = m
  BY <1>1, ReadDoes, FourLines
<1>3. m \in Wire /\ Wire' = Wire \ {m}
  BY <1>1, <1>2, ReadDoes
<1>4. answer' = IF answer[a].state = "calling" THEN [answer EXCEPT ![a].state = kind] ELSE answer
  BY DEF ReadReply
<1> HIDE DEF a
<1> QED
  BY <1>2, <1>3, <1>4

\* A call of the user puts its answer into the pipe.
LEMMA ResolveDoes ==
    ASSUME Typed, Lines, Calls, NEW a \in Answers, NEW q \in Requests, NEW d \in Decisions,
           Resolve(a, q, d)
    PROVE  /\ toRuntime' \in Seq(Answers \union {Cancel}) /\ NoTwice(toRuntime')
           /\ Pipe' = Pipe \union {a}
<1>1. /\ toRuntime \in Seq(Answers \union {Cancel}) /\ NoTwice(toRuntime)
      /\ toRuntime' = Append(toRuntime, a)
  BY DEF Resolve, Typed, TypeOK, Lines
<1>2. a \notin Pipe
  BY DEF Resolve, Calls, Call, Nowhere
<1> QED
  BY <1>1, <1>2, Joins DEF Pipe

\* The cancel goes into the pipe.
LEMMA UserCancelDoes ==
    ASSUME Typed, Lines, UserCancel
    PROVE  /\ toRuntime' \in Seq(Answers \union {Cancel}) /\ NoTwice(toRuntime')
           /\ Pipe' = Pipe \union {Cancel}
<1>1. /\ toRuntime \in Seq(Answers \union {Cancel}) /\ NoTwice(toRuntime)
      /\ toRuntime' = Append(toRuntime, Cancel) /\ Cancel \notin Pipe
  BY DEF UserCancel, Typed, TypeOK, Lines
<1> QED
  BY <1>1, Joins DEF Pipe

-----------------------------------------------------------------------------
(* The types                                                               *)

\* The Runtime's side of a step is typed.
LEMMA PhasesTyped ==
    ASSUME Typed, Next
    PROVE  /\ phase' \in [Requests -> {"new", "registered", "waiting", "leaving", "gone"}]
           /\ ending' \in {"no", "decided", "done"}
           /\ {cancelled, over, stopped}' \subseteq BOOLEAN
<1> USE DEF Typed, TypeOK
<1>1. CASE \E q \in Requests : Register(q) \/ Requester(q)
  BY <1>1 DEF Register, Requester, Announce, TakeAnswer, Expire, SeeCancel, Unregister, Leave,
              gatewayVars
<1>2. CASE Finish
  BY <1>2 DEF Finish, FinishCancelled, DecideFinish, EmitFinish, gatewayVars
<1>3. CASE Reader
  BY <1>3 DEF Reader, ReadCancel, ReadAnswer, Deliver, gatewayVars
<1>4. CASE GatewayReader
  BY <1>4 DEF GatewayReader, ReadRequest, ReadFinish, ReadReply, runtimeVars
<1>5. CASE \E a \in Answers : CallerLeaves(a) \/ Record(a)
  BY <1>5 DEF CallerLeaves, Record, runtimeVars
<1>6. CASE \E a \in Answers, q \in Requests, d \in Decisions : Resolve(a, q, d)
  BY <1>6 DEF Resolve, runtimeVars
<1>7. CASE UserCancel
  BY <1>7 DEF UserCancel, runtimeVars
<1> QED
  BY <1>1, <1>2, <1>3, <1>4, <1>5, <1>6, <1>7 DEF Next

CallType == [state : {"none", "calling", "accepted", "refused", "done", "left"},
             req : {{}} \union {{q} : q \in Requests},
             decision : Decisions]

\* The calls of the user are typed after a step.
LEMMA AnswersTyped ==
    ASSUME Typed, Lines, Next
    PROVE  answer' \in [Answers -> CallType]
<1>t. answer \in [Answers -> CallType]
  BY DEF Typed, CallType
<1>0. ASSUME NEW a \in Answers, NEW s \in {"none", "calling", "accepted", "refused", "done", "left"},
             answer' = [answer EXCEPT ![a].state = s]
      PROVE  answer' \in [Answers -> CallType]
  BY <1>0, <1>t DEF CallType
<1>1. CASE GatewayReader
  <2>1. CASE ReadRequest \/ ReadFinish
    BY <1>t, <2>1 DEF ReadRequest, ReadFinish
  <2>2. ASSUME NEW kind \in {"accepted", "refused"}, ReadReply(kind)
        PROVE  answer' \in [Answers -> CallType]
    <3>1. \/ answer' = answer
          \/ \E a \in Answers : answer' = [answer EXCEPT ![a].state = kind]
      BY <2>2, ReadReplyDoes
    <3> QED
      BY <1>0, <1>t, <3>1
  <2> QED
    BY <1>1, <2>1, <2>2 DEF GatewayReader
<1>2. ASSUME NEW a \in Answers, CallerLeaves(a) \/ Record(a)
      PROVE  answer' \in [Answers -> CallType]
  BY <1>0, <1>2 DEF CallerLeaves, Record
<1>3. ASSUME NEW a \in Answers, NEW q \in Requests, NEW d \in Decisions, Resolve(a, q, d)
      PROVE  answer' \in [Answers -> CallType]
  <2>1. [state |-> "calling", req |-> {q}, decision |-> d] \in CallType
    BY DEF CallType
  <2> QED
    BY <1>3, <1>t, <2>1 DEF Resolve
<1>4. CASE UNCHANGED answer
  BY <1>t, <1>4
<1> QED
  BY <1>1, <1>2, <1>3, <1>4
  DEF Next, Register, Requester, Announce, TakeAnswer, Expire, SeeCancel, Unregister, Finish,
      FinishCancelled, DecideFinish, EmitFinish, Reader, ReadCancel, ReadAnswer, Deliver,
      UserCancel, gatewayVars

\* The channels and what is put into them are typed after a step.
LEMMA ChannelsTyped ==
    ASSUME Typed, Lines, Calls, Next
    PROVE  /\ outcome' \in [Requests -> Outcomes \union {"none"}]
           /\ channel' \in [Requests -> Answers \union {NoAnswer}]
           /\ held' \in Answers \union {NoAnswer}
<1> USE DEF Typed, TypeOK
<1>1. CASE \E q \in Requests : Register(q) \/ Announce(q) \/ Unregister(q)
  BY <1>1 DEF Register, Announce, Unregister
<1>2. ASSUME NEW q \in Requests, TakeAnswer(q) \/ Expire(q) \/ SeeCancel(q)
      PROVE  /\ outcome' \in [Requests -> Outcomes \union {"none"}]
             /\ channel' \in [Requests -> Answers \union {NoAnswer}]
             /\ held' = held
  <2>1. CASE TakeAnswer(q)
    <3>1. answer[channel[q]].decision \in Outcomes
      BY <2>1 DEF TakeAnswer, Outcomes
    <3> QED
      BY <2>1, <3>1 DEF TakeAnswer, Leave
  <2>2. CASE Expire(q) \/ SeeCancel(q)
    BY <2>2 DEF Expire, SeeCancel, Leave, Outcomes
  <2> QED
    BY <1>2, <2>1, <2>2
<1>3. CASE Finish \/ ReadCancel
  BY <1>3 DEF Finish, FinishCancelled, DecideFinish, EmitFinish, ReadCancel
<1>4. CASE ReadAnswer
  BY <1>4, ReadAnswerDoes DEF ReadAnswer
<1>5. CASE Deliver
  BY <1>5, DeliverDoes DEF Deliver
<1>6. CASE UNCHANGED runtimeVars
  BY <1>6 DEF runtimeVars
<1> QED
  BY <1>1, <1>2, <1>3, <1>4, <1>5, <1>6
  DEF Next, Requester, Reader, GatewayReader, ReadRequest, ReadFinish, ReadReply, CallerLeaves,
      Record, Resolve, UserCancel

RowType == {"none", "pending", "resolved", "denied", "closed"}

\* The rows of the Gateway are typed after a step.
LEMMA RowsTyped ==
    ASSUME Typed, Lines, Next
    PROVE  row' \in [Requests -> RowType]
<1>t. row \in [Requests -> RowType]
  BY DEF Typed, TypeOK, RowType
<1>1. CASE ReadRequest
  BY <1>t, <1>1, ReadRequestDoes DEF RowType
<1>2. CASE ReadFinish
  BY <1>t, <1>2 DEF ReadFinish, ClosePending, RowType
<1>3. ASSUME NEW a \in Answers, Record(a) PROVE row' \in [Requests -> RowType]
  <2>1. RowStatus(answer[a].decision) \in RowType
    BY DEF RowStatus, RowType
  <2> QED
    BY <1>t, <1>3, <2>1 DEF Record
<1>4. CASE UNCHANGED row
  BY <1>t, <1>4
<1> QED
  BY <1>1, <1>2, <1>3, <1>4
  DEF Next, Register, Requester, Announce, TakeAnswer, Expire, SeeCancel, Unregister, Finish,
      FinishCancelled, DecideFinish, EmitFinish, Reader, ReadCancel, ReadAnswer, Deliver,
      GatewayReader, ReadReply, CallerLeaves, Resolve, UserCancel, gatewayVars

\* No line is on a pipe twice: a request announces itself once, the finish is emitted
\* once, and an answer has one place at a time.
LEMMA PipesKept ==
    ASSUME Typed, Lines, Calls, Asks, Ending, Next
    PROVE  /\ toRuntime' \in Seq(Answers \union {Cancel}) /\ toGateway' \in Seq(Messages)
           /\ Lines'
<1>t. /\ toRuntime \in Seq(Answers \union {Cancel}) /\ toGateway \in Seq(Messages)
      /\ NoTwice(toRuntime) /\ NoTwice(toGateway) /\ (~stopped => Cancel \notin Pipe)
  BY DEF Typed, TypeOK, Lines
<1>1. CASE UNCHANGED <<toRuntime, toGateway, stopped>>
  BY <1>t, <1>1 DEF Lines, Pipe
<1>2. ASSUME NEW q \in Requests, Announce(q)
      PROVE  /\ toGateway' \in Seq(Messages) /\ NoTwice(toGateway')
             /\ UNCHANGED <<toRuntime, stopped>>
  <2>1. RequestOf(q) \notin Wire
    BY <1>2 DEF Announce, Asks
  <2> QED
    BY <1>2, <2>1, AnnounceDoes DEF Announce, gatewayVars
<1>3. CASE FinishCancelled \/ EmitFinish
  <2>1. FinishMessage \notin Wire
    BY <1>3 DEF FinishCancelled, EmitFinish, Ending
  <2>2. toGateway' \in Seq(Messages) /\ NoTwice(toGateway') /\ UNCHANGED <<toRuntime, stopped>>
    BY <1>3, <2>1, FinishDoes DEF FinishCancelled, EmitFinish, gatewayVars
  <2> QED
    BY <1>t, <2>2 DEF Lines, Pipe
<1>4. CASE ReadCancel
  <2>1. UNCHANGED <<toGateway, stopped>>
    BY <1>4 DEF ReadCancel, gatewayVars
  <2> QED
    BY <1>t, <1>4, <2>1, ReadCancelDoes DEF Lines
<1>5. CASE ReadAnswer
  <2>1. stopped' = stopped
    BY <1>5 DEF ReadAnswer, gatewayVars
  <2> QED
    BY <1>t, <1>5, <2>1, ReadAnswerDoes DEF Lines
<1>6. CASE Deliver
  <2>1. UNCHANGED <<toRuntime, stopped>>
    BY <1>6 DEF Deliver, gatewayVars
  <2> QED
    BY <1>t, <1>6, <2>1, DeliverDoes DEF Lines, Pipe
<1>7. CASE GatewayReader
  <2>1. toGateway # <<>> /\ toGateway' = Tail(toGateway) /\ UNCHANGED <<toRuntime, stopped>>
    BY <1>7 DEF GatewayReader, ReadRequest, ReadFinish, ReadReply, Incoming
  <2> QED
    BY <1>t, <2>1, ReadDoes DEF Lines, Pipe
<1>8. ASSUME NEW a \in Answers, NEW q \in Requests, NEW d \in Decisions, Resolve(a, q, d)
      PROVE  /\ toRuntime' \in Seq(Answers \union {Cancel}) /\ toGateway' \in Seq(Messages)
             /\ Lines'
  <2>1. UNCHANGED <<toGateway, stopped>> /\ a # Cancel
    BY <1>8, PermissionAssumption DEF Resolve
  <2> QED
    BY <1>t, <1>8, <2>1, ResolveDoes DEF Lines
<1>9. CASE UserCancel
  <2>1. toGateway' = toGateway /\ stopped'
    BY <1>9 DEF UserCancel
  <2> QED
    BY <1>t, <1>9, <2>1, UserCancelDoes DEF Lines
<1>10. ASSUME NEW q \in Requests, Announce(q)
       PROVE  /\ toRuntime' \in Seq(Answers \union {Cancel}) /\ toGateway' \in Seq(Messages)
              /\ Lines'
  BY <1>t, <1>2, <1>10 DEF Lines, Pipe
<1> QED
  BY <1>1, <1>3, <1>4, <1>5, <1>6, <1>7, <1>8, <1>9, <1>10
  DEF Next, Requester, Register, TakeAnswer, Expire, SeeCancel, Unregister, Finish, DecideFinish,
      Reader, CallerLeaves, Record, gatewayVars

\* Every step keeps the types.
LEMMA TypesKept ==
    ASSUME Typed, Lines, Calls, Asks, Ending, Next
    PROVE  Typed'
<1>1. answer' \in [Answers -> CallType]
  BY AnswersTyped
<1>2. \A a \in Answers :
        /\ answer'[a].state \in {"none", "calling", "accepted", "refused", "done", "left"}
        /\ answer'[a].decision \in Decisions
        /\ answer'[a].req \in {{}} \union {{q} : q \in Requests}
  BY <1>1 DEF CallType
<1>3. TypeOK'
  BY <1>2, PhasesTyped, ChannelsTyped, RowsTyped, PipesKept DEF TypeOK, RowType
<1> QED
  BY <1>1, <1>3 DEF Typed, CallType

-----------------------------------------------------------------------------
(* Answers                                                                 *)

\* The steps that change neither an answer call, nor where one is, nor its reply.
Elsewhere ==
    /\ UNCHANGED <<answer, toRuntime, held>>
    /\ \A a \in Answers : /\ Accepting(a) \in Wire' <=> Accepting(a) \in Wire
                          /\ Refusing(a) \in Wire' <=> Refusing(a) \in Wire

\* Requesters, the end of the run and the reader of events leave the calls alone.
LEMMA StepsElsewhere ==
    ASSUME Typed, Lines, Asks, Ending
    PROVE  /\ \A q \in Requests : Register(q) \/ Requester(q) => Elsewhere
           /\ Finish \/ ReadRequest \/ ReadFinish => Elsewhere
<1>1. ASSUME NEW q \in Requests,
             Register(q) \/ TakeAnswer(q) \/ Expire(q) \/ SeeCancel(q) \/ Unregister(q)
      PROVE  Elsewhere
  BY <1>1 DEF Register, TakeAnswer, Expire, SeeCancel, Unregister, gatewayVars, Elsewhere, Wire
<1>2. ASSUME NEW q \in Requests, Announce(q) PROVE Elsewhere
  <2>1. RequestOf(q) \notin Wire
    BY <1>2 DEF Announce, Asks
  <2>2. \A a \in Answers : Accepting(a) # RequestOf(q) /\ Refusing(a) # RequestOf(q)
    BY LineFields
  <2>3. Wire' = Wire \/ Wire' = Wire \union {RequestOf(q)}
    BY <1>2, <2>1, AnnounceDoes
  <2> QED
    BY <1>2, <2>2, <2>3 DEF Announce, gatewayVars, Elsewhere
<1>f. \A a \in Answers : Accepting(a) # FinishMessage /\ Refusing(a) # FinishMessage
  BY LineFields
<1>3. CASE DecideFinish
  BY <1>3 DEF DecideFinish, gatewayVars, Elsewhere, Wire
<1>4. CASE FinishCancelled \/ EmitFinish
  <2>1. FinishMessage \notin Wire
    BY <1>4 DEF FinishCancelled, EmitFinish, Ending
  <2>2. Wire' = Wire \/ Wire' = Wire \union {FinishMessage}
    BY <1>4, <2>1, FinishDoes
  <2>3. UNCHANGED <<answer, toRuntime, held>>
    BY <1>4 DEF FinishCancelled, EmitFinish, gatewayVars
  <2> QED
    BY <1>f, <2>2, <2>3 DEF Elsewhere
<1>5. CASE ReadRequest
  <2>1. PICK q \in Requests : Wire' = Wire \ {RequestOf(q)}
    BY <1>5, ReadRequestDoes
  <2>2. \A a \in Answers : Accepting(a) # RequestOf(q) /\ Refusing(a) # RequestOf(q)
    BY LineFields
  <2> QED
    BY <1>5, <2>1, <2>2 DEF ReadRequest, runtimeVars, Elsewhere
<1>6. CASE ReadFinish
  <2>1. Wire' = Wire \ {FinishMessage}
    BY <1>6, ReadFinishDoes
  <2> QED
    BY <1>f, <1>6, <2>1 DEF ReadFinish, runtimeVars, Elsewhere
<1>7. CASE Finish \/ ReadRequest \/ ReadFinish
  BY <1>3, <1>4, <1>5, <1>6, <1>7 DEF Finish
<1> QED
  BY <1>1, <1>2, <1>7 DEF Requester

\* A row, once written, is never taken back.
LEMMA RowsStay ==
    ASSUME Typed, Lines, Next, NEW q \in Requests, row[q] # "none"
    PROVE  row'[q] # "none"
<1>1. CASE ReadRequest
  BY <1>1, ReadRequestDoes
<1>2. CASE ReadFinish
  BY <1>2 DEF ReadFinish, ClosePending
<1>3. ASSUME NEW a \in Answers, Record(a) PROVE row'[q] # "none"
  BY <1>3 DEF Record, RowStatus
<1>4. CASE UNCHANGED row
  BY <1>4
<1> QED
  BY <1>1, <1>2, <1>3, <1>4
  DEF Next, Register, Requester, Announce, TakeAnswer, Expire, SeeCancel, Unregister, Finish,
      FinishCancelled, DecideFinish, EmitFinish, Reader, ReadCancel, ReadAnswer, Deliver,
      GatewayReader, ReadReply, CallerLeaves, Resolve, UserCancel, gatewayVars

\* What a step does to an answer call that has been made, and which step makes one.
LEMMA CallsMove ==
    ASSUME Typed, Lines, Calls, Asks, Ending, Next, NEW a \in Answers
    PROVE  /\ answer[a].state # "none" =>
                 /\ answer'[a].req = answer[a].req /\ answer'[a].decision = answer[a].decision
                 /\ answer'[a].state # "none"
           /\ answer[a].state = "none" =>
                 \/ answer'[a] = answer[a]
                 \/ answer'[a].state = "calling" /\ \E q \in Requests : answer'[a].req = {q}
           /\ answer[a].state = "done" => answer'[a].state = "done"
           /\ Accepted(a) => Accepted(a)'
<1>t. answer \in [Answers -> CallType]
  BY DEF Typed, CallType
<1>1. CASE Elsewhere
  BY <1>1 DEF Elsewhere, Accepted
<1>2. CASE ReadCancel \/ UserCancel
  BY <1>2 DEF ReadCancel, UserCancel, gatewayVars, runtimeVars, Accepted, Wire
<1>3. CASE ReadAnswer
  <2>1. answer' = answer
    BY <1>3 DEF ReadAnswer, gatewayVars
  <2>2. Wire \subseteq Wire'
    BY <1>3, ReadAnswerDoes
  <2> QED
    BY <2>1, <2>2 DEF Accepted
<1>4. CASE Deliver
  <2>1. answer' = answer
    BY <1>4 DEF Deliver, gatewayVars
  <2>2. Wire \subseteq Wire'
    BY <1>4, DeliverDoes
  <2> QED
    BY <2>1, <2>2 DEF Accepted
<1>5. CASE ReadReply("accepted")
  <2>1. PICK b \in Answers :
          /\ Accepting(b) \in Wire /\ Wire' = Wire \ {Accepting(b)}
          /\ answer' = IF answer[b].state = "calling"
                       THEN [answer EXCEPT ![b].state = "accepted"] ELSE answer
    BY <1>5, ReadReplyDoes
  <2>2. a # b => answer'[a] = answer[a] /\ Accepting(a) # Accepting(b)
    BY <1>t, <2>1, LineFields
  <2>3. a # b => (Accepted(a) => Accepted(a)')
    BY <2>1, <2>2 DEF Accepted
  <2>4. a = b => /\ answer'[a].req = answer[a].req /\ answer'[a].decision = answer[a].decision
                 /\ answer[a].state # "calling" => answer'[a].state = answer[a].state
                 /\ answer[a].state = "calling" => answer'[a].state = "accepted"
    BY <1>t, <2>1 DEF CallType
  <2>5. a = b => (Accepted(a) => Accepted(a)')
    BY <2>4 DEF Accepted
  <2>6. a = b => answer[a].state # "none"
    BY <2>1 DEF Calls, Call, Nowhere
  <2> QED
    BY <2>2, <2>3, <2>4, <2>5, <2>6
<1>6. CASE ReadReply("refused")
  <2>1. PICK b \in Answers :
          /\ Refusing(b) \in Wire /\ Wire' = Wire \ {Refusing(b)}
          /\ answer' = IF answer[b].state = "calling"
                       THEN [answer EXCEPT ![b].state = "refused"] ELSE answer
    BY <1>6, ReadReplyDoes
  <2>2. a # b => answer'[a] = answer[a]
    BY <1>t, <2>1
  <2>3. Accepting(a) \in Wire' <=> Accepting(a) \in Wire
    BY <2>1, LineFields
  <2>4. a = b => /\ answer'[a].req = answer[a].req /\ answer'[a].decision = answer[a].decision
                 /\ answer[a].state # "calling" => answer'[a].state = answer[a].state
                 /\ answer[a].state = "calling" => answer'[a].state = "refused"
    BY <1>t, <2>1 DEF CallType
  <2>5. a = b => answer[a].state # "none" /\ Accepting(a) \notin Wire
    BY <2>1 DEF Calls, Call, Nowhere
  <2>6. Accepted(a) => Accepted(a)'
    BY <2>2, <2>3, <2>4, <2>5 DEF Accepted
  <2> QED
    BY <2>2, <2>4, <2>5, <2>6
<1>7. ASSUME NEW b \in Answers, CallerLeaves(b) \/ Record(b)
      PROVE  /\ answer'[a].req = answer[a].req /\ answer'[a].decision = answer[a].decision
             /\ answer[a].state = "none" => answer'[a] = answer[a]
             /\ answer[a].state # "none" => answer'[a].state # "none"
             /\ answer[a].state = "done" => answer'[a].state = "done"
             /\ Accepted(a) => Accepted(a)'
  <2>1. \E s \in {"left", "done"} : answer' = [answer EXCEPT ![b].state = s]
    BY <1>7 DEF CallerLeaves, Record
  <2>2. answer[b].state \in {"calling", "accepted"} /\ Wire' = Wire
    BY <1>7 DEF CallerLeaves, Record, MayRecord, Wire
  <2>3. a # b => answer'[a] = answer[a]
    BY <1>t, <2>1
  <2>4. a = b => /\ answer'[a].req = answer[a].req /\ answer'[a].decision = answer[a].decision
                 /\ answer'[a].state \in {"left", "done"}
    BY <1>t, <2>1 DEF CallType
  <2> QED
    BY <2>2, <2>3, <2>4 DEF Accepted
<1>8. ASSUME NEW b \in Answers, NEW q \in Requests, NEW d \in Decisions, Resolve(b, q, d)
      PROVE  /\ a # b => answer'[a] = answer[a]
             /\ a = b => /\ answer[a].state = "none"
                         /\ answer'[a].state = "calling" /\ answer'[a].req = {q}
             /\ Accepted(a) => Accepted(a)'
  <2>1. /\ answer[b].state = "none" /\ Wire' = Wire
        /\ answer' = [answer EXCEPT ![b] = [state |-> "calling", req |-> {q}, decision |-> d]]
    BY <1>8 DEF Resolve, Wire
  <2>2. a # b => answer'[a] = answer[a]
    BY <1>t, <2>1
  <2>3. a = b => answer'[a] = [state |-> "calling", req |-> {q}, decision |-> d]
    BY <1>t, <2>1
  <2>4. a = b => answer'[a].state = "calling" /\ answer'[a].req = {q}
    BY <2>3
  <2> QED
    BY <2>1, <2>2, <2>4 DEF Accepted
<1>9. CASE \E q \in Requests : Register(q) \/ Requester(q)
  BY <1>1, <1>9, StepsElsewhere
<1>10. CASE Finish \/ ReadRequest \/ ReadFinish
  BY <1>1, <1>10, StepsElsewhere
<1>11. CASE \E b \in Answers : CallerLeaves(b) \/ Record(b)
  BY <1>7, <1>11
<1>12. CASE \E b \in Answers, q \in Requests, d \in Decisions : Resolve(b, q, d)
  BY <1>8, <1>12
<1> QED
  BY <1>2, <1>3, <1>4, <1>5, <1>6, <1>9, <1>10, <1>11, <1>12 DEF Next, Reader, GatewayReader

\* An answer stays in one place.
LEMMA CallsKept ==
    ASSUME Typed, Lines, Calls, Asks, Ending, Next
    PROVE  Calls'
<1> SUFFICES ASSUME NEW a \in Answers PROVE Call(a)'
  BY DEF Calls
<1>t. answer \in [Answers -> CallType]
  BY DEF Typed, CallType
<1>c. Call(a)
  BY DEF Calls
<1>r. /\ answer'[a].state = "none" => answer'[a].req = {}
      /\ answer'[a].state # "none" => \E q \in Requests : answer'[a].req = {q}
  BY <1>c, CallsMove DEF Call
<1>s. \A q \in Requests : row[q] # "none" => row'[q] # "none"
  BY RowsStay
<1> DEFINE Placed ==
      /\ answer[a].state \notin {"calling", "left"} => Nowhere(a)
      /\ a \in Pipe =>
            held # a /\ Accepting(a) \notin Wire /\ Refusing(a) \notin Wire
      /\ held = a => Accepting(a) \notin Wire /\ Refusing(a) \notin Wire
      /\ Accepting(a) \in Wire => Refusing(a) \notin Wire
<1>p. Placed
  BY <1>c DEF Call
<1>0. ASSUME \A q \in answer'[a].req : row'[q] # "none", Placed' PROVE Call(a)'
  BY <1>0, <1>r DEF Call
<1> HIDE DEF Placed
<1>q. ASSUME answer'[a].req = answer[a].req PROVE \A q \in answer'[a].req : row'[q] # "none"
  <2>1. answer[a].req \subseteq Requests
    BY <1>c DEF Call
  <2> QED
    BY <1>c, <1>q, <1>s, <2>1 DEF Call
<1>1. CASE Elsewhere
  <2>1. Placed'
    BY <1>p, <1>1 DEF Elsewhere, Placed, Nowhere, Pipe
  <2> QED
    BY <1>0, <1>q, <1>1, <2>1 DEF Elsewhere
<1>2. CASE ReadCancel
  <2>1. a # Cancel /\ UNCHANGED <<answer, held, toGateway>>
    BY <1>2, PermissionAssumption DEF ReadCancel, gatewayVars
  <2>2. Placed'
    BY <1>p, <1>2, <2>1, ReadCancelDoes DEF Placed, Nowhere, Wire
  <2> QED
    BY <1>0, <1>q, <2>1, <2>2
<1>3. CASE ReadAnswer
  <2>1. answer' = answer /\ held = NoAnswer
    BY <1>3 DEF ReadAnswer, gatewayVars
  <2>2. PICK b \in Answers :
          /\ b \in Pipe /\ Pipe' = Pipe \ {b}
          /\ \/ held' = b /\ Wire' = Wire
             \/ held' = held /\ Wire' = Wire \union {Refusing(b)}
    BY <1>3, ReadAnswerDoes
  <2>3. a # NoAnswer /\ Accepting(a) # Refusing(b) /\ (a # b => Refusing(a) # Refusing(b))
    BY PermissionAssumption, LineFields
  <2>4. Placed'
    BY <1>p, <2>1, <2>2, <2>3 DEF Placed, Nowhere
  <2> QED
    BY <1>0, <1>q, <2>1, <2>4
<1>4. CASE Deliver
  <2>1. UNCHANGED <<answer, toRuntime>> /\ held' = NoAnswer
    BY <1>4 DEF Deliver, gatewayVars
  <2>2. Wire' = Wire \union {Accepting(held)}
    BY <1>4, DeliverDoes
  <2>3. a # NoAnswer /\ Refusing(a) # Accepting(held) /\ (a # held => Accepting(a) # Accepting(held))
    BY PermissionAssumption, LineFields
  <2>4. Placed'
    BY <1>p, <2>1, <2>2, <2>3 DEF Placed, Nowhere, Pipe
  <2> QED
    BY <1>0, <1>q, <2>1, <2>4
<1>5. ASSUME NEW kind \in {"accepted", "refused"}, ReadReply(kind) PROVE Call(a)'
  <2>1. PICK b \in Answers :
          LET m == IF kind = "accepted" THEN Accepting(b) ELSE Refusing(b)
          IN  /\ m \in Wire /\ Wire' = Wire \ {m}
              /\ answer' = IF answer[b].state = "calling"
                           THEN [answer EXCEPT ![b].state = kind]
                           ELSE answer
    BY <1>5, ReadReplyDoes
  <2>2. UNCHANGED <<toRuntime, held>>
    BY <1>5 DEF ReadReply, runtimeVars
  <2>3. /\ \A x, y \in Answers : Accepting(x) # Refusing(y)
        /\ a # b => Accepting(a) # Accepting(b) /\ Refusing(a) # Refusing(b)
    BY LineFields
  <2>4. answer'[a].req = answer[a].req
    BY <1>t, <2>1 DEF CallType
  <2>5. CASE a # b
    <3>1. answer'[a] = answer[a]
      BY <1>t, <2>1, <2>5
    <3>2. Pipe' = Pipe /\ (Accepting(a) \in Wire' <=> Accepting(a) \in Wire)
          /\ (Refusing(a) \in Wire' <=> Refusing(a) \in Wire)
      BY <2>1, <2>2, <2>3, <2>5 DEF Pipe
    <3>3. Placed'
      BY <1>p, <2>2, <3>1, <3>2 DEF Placed, Nowhere
    <3> QED
      BY <1>0, <1>q, <2>4, <3>3
  <2>6. CASE a = b
    <3>1. Pipe' = Pipe /\ Accepting(a) \notin Wire' /\ Refusing(a) \notin Wire'
          /\ a \notin Pipe /\ held # a
      BY <1>p, <2>1, <2>2, <2>3, <2>6 DEF Pipe, Placed
    <3>2. Placed'
      BY <2>2, <3>1 DEF Placed, Nowhere
    <3> QED
      BY <1>0, <1>q, <2>4, <3>2
  <2> QED
    BY <2>5, <2>6
<1>6. ASSUME NEW b \in Answers, NEW q \in Requests, NEW d \in Decisions, Resolve(b, q, d)
      PROVE  Call(a)'
  <2>1. /\ answer[b].state = "none" /\ row[q] # "none" /\ UNCHANGED <<held, toGateway, row>>
        /\ answer' = [answer EXCEPT ![b] = [state |-> "calling", req |-> {q}, decision |-> d]]
        /\ Pipe' = Pipe \union {b}
    BY <1>6, ResolveDoes DEF Resolve, runtimeVars
  <2>2. CASE a # b
    <3>1. answer'[a] = answer[a] /\ (a \in Pipe' <=> a \in Pipe) /\ Wire' = Wire
      BY <1>t, <2>1, <2>2 DEF Wire
    <3>2. Placed'
      BY <1>p, <2>1, <3>1 DEF Placed, Nowhere
    <3> QED
      BY <1>0, <1>q, <3>1, <3>2
  <2>3. CASE a = b
    <3>1. answer'[a] = [state |-> "calling", req |-> {q}, decision |-> d] /\ Wire' = Wire
      BY <1>t, <2>1, <2>3 DEF Wire
    <3>2. answer'[a].state = "calling" /\ answer'[a].req = {q}
      BY <3>1
    <3>3. Placed'
      BY <1>p, <2>1, <2>3, <3>1, <3>2 DEF Placed, Nowhere
    <3> QED
      BY <1>0, <2>1, <3>2, <3>3
  <2> QED
    BY <2>2, <2>3
<1>7. ASSUME NEW b \in Answers, CallerLeaves(b) \/ Record(b) PROVE Call(a)'
  <2>1. /\ \E s \in {"left", "done"} : answer' = [answer EXCEPT ![b].state = s]
        /\ CallerLeaves(b) \/ answer[b].state = "accepted"
        /\ CallerLeaves(b) => answer' = [answer EXCEPT ![b].state = "left"]
        /\ UNCHANGED <<toRuntime, toGateway, held>>
    BY <1>7 DEF CallerLeaves, Record, MayRecord, runtimeVars
  <2>2. answer'[a].req = answer[a].req
    BY <1>t, <2>1 DEF CallType
  <2>3. \/ answer'[a].state = answer[a].state
        \/ answer'[a].state = "left"
        \/ answer[a].state = "accepted"
    BY <1>t, <2>1 DEF CallType
  <2>4. Placed'
    BY <1>p, <2>1, <2>3 DEF Placed, Nowhere, Pipe, Wire
  <2> QED
    BY <1>0, <1>q, <2>2, <2>4
<1>8. CASE UserCancel
  <2>1. a # Cancel /\ UNCHANGED <<answer, held, toGateway>>
    BY <1>8, PermissionAssumption DEF UserCancel, runtimeVars
  <2>2. Placed'
    BY <1>p, <1>8, <2>1, UserCancelDoes DEF Placed, Nowhere, Wire
  <2> QED
    BY <1>0, <1>q, <2>1, <2>2
<1>9. CASE \E q \in Requests : Register(q) \/ Requester(q)
  BY <1>1, <1>9, StepsElsewhere
<1>10. CASE Finish \/ ReadRequest \/ ReadFinish
  BY <1>1, <1>10, StepsElsewhere
<1> QED
  BY <1>2, <1>3, <1>4, <1>5, <1>6, <1>7, <1>8, <1>9, <1>10 DEF Next, Reader, GatewayReader

-----------------------------------------------------------------------------
(* Requests and the end of the run                                         *)

\* A request is announced once, and nobody answers it before the Gateway has it.
LEMMA AsksKept ==
    ASSUME Typed, Lines, Calls, Asks, Ending, Next
    PROVE  Asks'
<1> SUFFICES ASSUME NEW q \in Requests
             PROVE  /\ phase'[q] \in {"new", "registered"} =>
                          row'[q] = "none" /\ RequestOf(q) \notin Wire'
                    /\ RequestOf(q) \in Wire' => row'[q] = "none"
  BY DEF Asks
<1>t. phase \in [Requests -> {"new", "registered", "waiting", "leaving", "gone"}]
  BY DEF Typed, TypeOK
<1>a. /\ phase[q] \in {"new", "registered"} => row[q] = "none" /\ RequestOf(q) \notin Wire
      /\ RequestOf(q) \in Wire => row[q] = "none"
  BY DEF Asks
<1>d. /\ \A p : p # q => RequestOf(p) # RequestOf(q)
      /\ RequestOf(q) # FinishMessage
      /\ \A a : Accepting(a) # RequestOf(q) /\ Refusing(a) # RequestOf(q)
  <2>1. \A p : RequestOf(p).req = {p}
    BY LineFields
  <2>2. \A p : p # q => {p} # {q}
    OBVIOUS
  <2>3. \A p : p # q => RequestOf(p) # RequestOf(q)
    BY <2>1, <2>2
  <2> QED
    BY <2>3, LineFields
<1>1. ASSUME NEW p \in Requests,
             Register(p) \/ TakeAnswer(p) \/ Expire(p) \/ SeeCancel(p) \/ Unregister(p)
      PROVE  /\ phase'[q] \in {"new", "registered"} => phase[q] \in {"new", "registered"}
             /\ UNCHANGED <<row, Wire>>
  BY <1>t, <1>1 DEF Register, TakeAnswer, Expire, SeeCancel, Unregister, Leave, gatewayVars, Wire
<1>2. ASSUME NEW p \in Requests, Announce(p)
      PROVE  /\ phase'[q] \in {"new", "registered"} =>
                   row'[q] = "none" /\ RequestOf(q) \notin Wire'
             /\ RequestOf(q) \in Wire' => row'[q] = "none"
  <2>1. RequestOf(p) \notin Wire /\ phase[p] = "registered" /\ row' = row
    BY <1>2 DEF Announce, Asks, gatewayVars
  <2>2. Wire' = Wire \/ Wire' = Wire \union {RequestOf(p)}
    BY <1>2, <2>1, AnnounceDoes
  <2>3. phase'[p] = "waiting" /\ (p # q => phase'[q] = phase[q])
    BY <1>t, <1>2 DEF Announce
  <2> QED
    BY <1>a, <1>d, <2>1, <2>2, <2>3
<1>3. CASE DecideFinish
  BY <1>a, <1>3 DEF DecideFinish, gatewayVars, Wire
<1>4. CASE FinishCancelled \/ EmitFinish
  <2>1. FinishMessage \notin Wire /\ UNCHANGED <<phase, row>>
    BY <1>4 DEF FinishCancelled, EmitFinish, Ending, gatewayVars
  <2> QED
    BY <1>a, <1>d, <1>4, <2>1, FinishDoes
<1>5. CASE ReadRequest
  <2>1. PICK p \in Requests :
          /\ RequestOf(p) \in Wire /\ Wire' = Wire \ {RequestOf(p)}
          /\ row' = [x \in Requests |-> IF x = p THEN "pending" ELSE row[x]]
    BY <1>5, ReadRequestDoes
  <2>2. phase' = phase /\ (p # q => row'[q] = row[q])
    BY <1>5, <2>1 DEF ReadRequest, runtimeVars
  <2>3. CASE p # q
    BY <1>a, <1>d, <2>1, <2>2, <2>3
  <2>4. CASE p = q
    BY <1>a, <2>1, <2>2, <2>4
  <2> QED
    BY <2>3, <2>4
<1>6. CASE ReadFinish
  <2>1. phase' = phase /\ (row[q] = "none" => row'[q] = "none")
    BY <1>6 DEF ReadFinish, ClosePending, runtimeVars
  <2> QED
    BY <1>a, <1>6, <2>1, ReadFinishDoes
<1>7. ASSUME NEW kind \in {"accepted", "refused"}, ReadReply(kind)
      PROVE  UNCHANGED <<phase, row>> /\ Wire' \subseteq Wire
  BY <1>7, ReadReplyDoes DEF ReadReply, runtimeVars
<1>8. CASE ReadAnswer
  <2>1. UNCHANGED <<phase, row>>
    BY <1>8 DEF ReadAnswer, gatewayVars
  <2> QED
    BY <1>a, <1>d, <1>8, <2>1, ReadAnswerDoes
<1>9. CASE Deliver
  <2>1. UNCHANGED <<phase, row>>
    BY <1>9 DEF Deliver, gatewayVars
  <2> QED
    BY <1>a, <1>d, <1>9, <2>1, DeliverDoes
<1>10. CASE ReadCancel \/ UserCancel
  BY <1>a, <1>10 DEF ReadCancel, UserCancel, gatewayVars, runtimeVars, Wire
<1>11. ASSUME NEW a \in Answers, CallerLeaves(a)
       PROVE  UNCHANGED <<phase, row, Wire>>
  BY <1>11 DEF CallerLeaves, runtimeVars, Wire
<1>12. ASSUME NEW a \in Answers, NEW p \in Requests, NEW d \in Decisions, Resolve(a, p, d)
       PROVE  UNCHANGED <<phase, row, Wire>>
  BY <1>12 DEF Resolve, runtimeVars, Wire
<1>13. ASSUME NEW a \in Answers, Record(a)
       PROVE  UNCHANGED <<phase, Wire>> /\ (row[q] = "none" => row'[q] = "none")
  <2>1. row[q] = "none" => q \notin answer[a].req
    BY DEF Calls, Call
  <2> QED
    BY <1>13, <2>1 DEF Record, runtimeVars, Wire
<1> QED
  BY <1>a, <1>1, <1>2, <1>3, <1>4, <1>5, <1>6, <1>7, <1>8, <1>9, <1>10, <1>11, <1>12, <1>13
  DEF Next, Requester, Finish, Reader, GatewayReader

\* The finish stays behind every request.
FinishLast(pipe) ==
    \A i, j \in 1 .. Len(pipe) : pipe[i] = FinishMessage /\ i < j => pipe[j].kind # "request"

\* No request follows the finish event through the pipe.
LEMMA FinishStaysLast ==
    ASSUME NEW s \in Seq(Messages), FinishLast(s)
    PROVE  /\ s # <<>> => FinishLast(Tail(s))
           /\ \A m \in Messages : m.kind # "request" \/ FinishMessage \notin On(s)
                                  => FinishLast(Append(s, m))
           /\ s # <<>> /\ Head(s) = FinishMessage =>
                 \A q : RequestOf(q) \notin On(Tail(s))
<1>1. ASSUME s # <<>>
      PROVE  /\ Len(Tail(s)) = Len(s) - 1 /\ Len(s) \in Nat \ {0} /\ Head(s) = s[1]
             /\ \A i \in 1 .. Len(Tail(s)) : Tail(s)[i] = s[i + 1] /\ i + 1 \in 1 .. Len(s)
                                             /\ i \in Nat /\ 1 < i + 1
  BY <1>1
<1>2. ASSUME s # <<>> PROVE FinishLast(Tail(s))
  <2>1. ASSUME NEW i \in 1 .. Len(Tail(s)), NEW j \in 1 .. Len(Tail(s)),
               Tail(s)[i] = FinishMessage, i < j
        PROVE  Tail(s)[j].kind # "request"
    <3>1. s[i + 1] = FinishMessage /\ i + 1 < j + 1 /\ i + 1 \in 1 .. Len(s)
          /\ j + 1 \in 1 .. Len(s) /\ Tail(s)[j] = s[j + 1]
      BY <1>1, <1>2, <2>1
    <3> QED
      BY <3>1 DEF FinishLast
  <2> QED
    BY <2>1 DEF FinishLast
<1>3. ASSUME NEW m \in Messages, m.kind # "request" \/ FinishMessage \notin On(s),
             NEW i \in 1 .. Len(Append(s, m)), NEW j \in 1 .. Len(Append(s, m)),
             Append(s, m)[i] = FinishMessage, i < j
      PROVE  Append(s, m)[j].kind # "request"
  <2>1. /\ Len(Append(s, m)) = Len(s) + 1 /\ Len(s) \in Nat /\ i \in 1 .. Len(s)
        /\ Append(s, m)[i] = s[i] /\ (j = Len(s) + 1 \/ j \in 1 .. Len(s))
    BY <1>3
  <2>2. FinishMessage \in On(s)
    BY <1>3, <2>1 DEF On
  <2>3. CASE j = Len(s) + 1
    BY <1>3, <2>1, <2>2, <2>3
  <2>4. CASE j \in 1 .. Len(s)
    <3>1. Append(s, m)[j] = s[j]
      BY <2>1, <2>4
    <3> QED
      BY <1>3, <2>1, <2>4, <3>1 DEF FinishLast
  <2> QED
    BY <2>1, <2>3, <2>4
<1>4. ASSUME s # <<>>, Head(s) = FinishMessage, NEW q PROVE RequestOf(q) \notin On(Tail(s))
  <2>1. SUFFICES ASSUME NEW i \in 1 .. Len(Tail(s)), Tail(s)[i] = RequestOf(q) PROVE FALSE
    BY DEF On
  <2>2. s[1] = FinishMessage /\ 1 \in 1 .. Len(s) /\ i + 1 \in 1 .. Len(s) /\ 1 < i + 1
        /\ s[i + 1] = RequestOf(q)
    BY <1>1, <1>4, <2>1
  <2> QED
    BY <2>2, LineFields DEF FinishLast
<1>5. \A m \in Messages : m.kind # "request" \/ FinishMessage \notin On(s)
                          => FinishLast(Append(s, m))
  BY <1>3 DEF FinishLast
<1> QED
  BY <1>2, <1>4, <1>5

\* The run ends after its requests.
LEMMA EndingKept ==
    ASSUME Typed, Lines, Calls, Asks, Ending, Next
    PROVE  Ending'
<1>t. /\ phase \in [Requests -> {"new", "registered", "waiting", "leaving", "gone"}]
      /\ toGateway \in Seq(Messages)
  BY DEF Typed, TypeOK
<1>f. FinishLast(toGateway)
  BY DEF Ending, FinishLast
<1>d. /\ \A q : RequestOf(q) # FinishMessage /\ RequestOf(q).kind = "request"
      /\ \A a : /\ Accepting(a) # FinishMessage /\ Refusing(a) # FinishMessage
                /\ Accepting(a).kind # "request" /\ Refusing(a).kind # "request"
                /\ \A q : Accepting(a) # RequestOf(q) /\ Refusing(a) # RequestOf(q)
      /\ FinishMessage.kind # "request"
  BY LineFields
<1> DEFINE Batch == ending # "no" => BatchDone
           Done == over \/ FinishMessage \in Wire => ending = "done"
           Clear == over => \A q \in Requests : RequestOf(q) \notin Wire /\ row[q] # "pending"
<1>0. Batch /\ Done /\ Clear
  BY DEF Ending
<1>e. ASSUME Batch', Done', FinishLast(toGateway'), Clear' PROVE Ending'
  BY <1>e DEF Ending, FinishLast
<1> HIDE DEF Batch, Done, Clear
<1>1. ASSUME NEW q \in Requests, Register(q) \/ Requester(q) PROVE Batch'
  <2>1. ending # "no" => \A p \in Requests : phase[p] \in {"new", "gone"}
    BY <1>0 DEF Batch, BatchDone
  <2> QED
    BY <1>1, <2>1 DEF Register, Requester, Announce, TakeAnswer, Expire, SeeCancel, Unregister,
                      Leave, Batch, BatchDone
<1>2. ASSUME NEW q \in Requests,
             Register(q) \/ TakeAnswer(q) \/ Expire(q) \/ SeeCancel(q) \/ Unregister(q)
      PROVE  Ending'
  <2>1. Batch'
    BY <1>1, <1>2 DEF Requester
  <2>2. UNCHANGED <<ending, over, row, toGateway>>
    BY <1>2 DEF Register, TakeAnswer, Expire, SeeCancel, Unregister, gatewayVars
  <2> QED
    BY <1>0, <1>e, <1>f, <2>1, <2>2 DEF Done, Clear, Wire
<1>3. ASSUME NEW q \in Requests, Announce(q) PROVE Ending'
  <2>1. Batch' /\ RequestOf(q) \notin Wire /\ UNCHANGED <<ending, over, row>>
    BY <1>1, <1>3 DEF Requester, Announce, gatewayVars, Asks
  <2>2. ending = "no" /\ ~over /\ FinishMessage \notin Wire
    BY <1>0, <1>3 DEF Announce, Batch, BatchDone, Done
  <2>3. Done' /\ Clear'
    BY <1>d, <1>3, <2>1, <2>2, AnnounceDoes DEF Done, Clear
  <2>4. FinishLast(toGateway')
    <3>1. toGateway' = toGateway \/ toGateway' = Append(toGateway, RequestOf(q))
      BY <1>3 DEF Announce, RequestOf
    <3>2. FinishLast(Append(toGateway, RequestOf(q)))
      BY <1>f, <1>t, <2>2, FinishStaysLast, LinesAreMessages DEF Wire
    <3> QED
      BY <1>f, <3>1, <3>2
  <2> QED
    BY <1>e, <2>1, <2>3, <2>4
<1>4. CASE DecideFinish
  BY <1>0, <1>4, <1>e, <1>f DEF DecideFinish, gatewayVars, Batch, Done, Clear, BatchDone, Wire
<1>5. CASE FinishCancelled \/ EmitFinish
  <2>1. /\ FinishMessage \notin Wire /\ ~over /\ over' = over /\ ending' = "done"
        /\ BatchDone /\ phase' = phase
    BY <1>0, <1>5 DEF FinishCancelled, EmitFinish, gatewayVars, Done, Batch
  <2>2. Batch' /\ Done' /\ Clear'
    BY <2>1 DEF Batch, BatchDone, Done, Clear
  <2>3. FinishLast(Append(toGateway, FinishMessage))
    BY <1>d, <1>f, <1>t, FinishStaysLast, LinesAreMessages
  <2> QED
    BY <1>5, <1>e, <1>f, <2>1, <2>2, <2>3, FinishDoes
<1>6. CASE ReadCancel \/ UserCancel
  BY <1>0, <1>6, <1>e, <1>f
  DEF ReadCancel, UserCancel, gatewayVars, runtimeVars, Batch, Done, Clear, BatchDone, Wire
<1>7. CASE ReadAnswer
  <2>1. UNCHANGED <<phase, ending, over, row>>
    BY <1>7 DEF ReadAnswer, gatewayVars
  <2>2. PICK a \in Answers :
          \/ toGateway' = toGateway /\ Wire' = Wire
          \/ toGateway' = Append(toGateway, Refusing(a)) /\ Wire' = Wire \union {Refusing(a)}
    BY <1>7, ReadAnswerDoes
  <2>3. FinishLast(Append(toGateway, Refusing(a)))
    BY <1>d, <1>f, <1>t, FinishStaysLast, LinesAreMessages
  <2>4. Batch' /\ Done' /\ Clear'
    BY <1>0, <1>d, <2>1, <2>2 DEF Batch, BatchDone, Done, Clear
  <2> QED
    BY <1>e, <1>f, <2>2, <2>3, <2>4
<1>8. CASE Deliver
  <2>1. UNCHANGED <<phase, ending, over, row>>
    BY <1>8 DEF Deliver, gatewayVars
  <2>2. /\ held \in Answers /\ toGateway' = Append(toGateway, Accepting(held))
        /\ Wire' = Wire \union {Accepting(held)}
    BY <1>8, DeliverDoes
  <2>3. FinishLast(Append(toGateway, Accepting(held)))
    BY <1>d, <1>f, <1>t, <2>2, FinishStaysLast, LinesAreMessages
  <2>4. Batch' /\ Done' /\ Clear'
    BY <1>0, <1>d, <2>1, <2>2 DEF Batch, BatchDone, Done, Clear
  <2> QED
    BY <1>e, <2>2, <2>3, <2>4
<1>9. ASSUME toGateway # <<>>, toGateway' = Tail(toGateway) PROVE FinishLast(toGateway')
  BY <1>f, <1>t, <1>9, FinishStaysLast
<1>10. CASE ReadRequest
  <2>1. PICK q \in Requests :
          /\ RequestOf(q) \in Wire /\ Wire' = Wire \ {RequestOf(q)}
          /\ row' = [x \in Requests |-> IF x = q THEN "pending" ELSE row[x]]
    BY <1>10, ReadRequestDoes
  <2>2. UNCHANGED <<phase, ending, over>> /\ ~over
    BY <1>0, <1>10, <2>1 DEF ReadRequest, runtimeVars, Clear
  <2>3. Batch' /\ Done' /\ Clear'
    BY <1>0, <2>1, <2>2 DEF Batch, BatchDone, Done, Clear
  <2> QED
    BY <1>9, <1>10, <1>e, <2>3 DEF ReadRequest, Incoming
<1>11. CASE ReadFinish
  <2>1. /\ Head(toGateway) = FinishMessage /\ FinishMessage \in Wire
        /\ toGateway # <<>> /\ toGateway' = Tail(toGateway) /\ UNCHANGED <<phase, ending>>
    BY <1>11, ReadFinishDoes DEF ReadFinish, Incoming, runtimeVars
  <2>2. \A q \in Requests : RequestOf(q) \notin Wire'
    BY <1>f, <1>t, <2>1, FinishStaysLast DEF Wire
  <2>3. \A q \in Requests : row'[q] # "pending"
    BY <1>11 DEF ReadFinish, ClosePending
  <2>4. Batch' /\ Done' /\ Clear'
    BY <1>0, <2>1, <2>2, <2>3 DEF Batch, BatchDone, Done, Clear
  <2> QED
    BY <1>9, <1>e, <2>1, <2>4
<1>12. ASSUME NEW kind \in {"accepted", "refused"}, ReadReply(kind) PROVE Ending'
  <2>1. /\ Wire' \subseteq Wire /\ UNCHANGED <<phase, ending, over, row>>
        /\ toGateway # <<>> /\ toGateway' = Tail(toGateway)
    BY <1>12, ReadReplyDoes DEF ReadReply, Incoming, runtimeVars
  <2>2. Batch' /\ Done' /\ Clear'
    BY <1>0, <2>1 DEF Batch, BatchDone, Done, Clear
  <2> QED
    BY <1>9, <1>e, <2>1, <2>2
<1>13. ASSUME NEW a \in Answers, CallerLeaves(a) \/ Record(a) PROVE Ending'
  <2>1. UNCHANGED <<phase, ending, over, toGateway>>
    BY <1>13 DEF CallerLeaves, Record, runtimeVars
  <2>2. \A q \in Requests : row[q] # "pending" => row'[q] # "pending"
    BY <1>13 DEF CallerLeaves, Record, RowStatus
  <2> QED
    BY <1>0, <1>e, <1>f, <2>1, <2>2 DEF Batch, BatchDone, Done, Clear, Wire
<1>14. ASSUME NEW a \in Answers, NEW q \in Requests, NEW d \in Decisions, Resolve(a, q, d)
       PROVE  Ending'
  BY <1>0, <1>14, <1>e, <1>f DEF Resolve, runtimeVars, Batch, BatchDone, Done, Clear, Wire
<1> QED
  BY <1>2, <1>3, <1>4, <1>5, <1>6, <1>7, <1>8, <1>10, <1>11, <1>12, <1>13, <1>14
  DEF Next, Requester, Finish, Reader, GatewayReader

-----------------------------------------------------------------------------
(* Rows and outcomes                                                       *)

\* What becomes of a row: it is created once, closed while it is pending, or says
\* what a caller records whose answer has been accepted.
LEMMA RowMoves ==
    ASSUME Typed, Lines, Asks, Next, NEW q \in Requests
    PROVE  \/ row'[q] = row[q] /\ \A a \in Answers : Record(a) => q \notin answer[a].req
           \/ row[q] = "none" /\ row'[q] = "pending"
           \/ row[q] = "pending" /\ row'[q] = "closed"
           \/ \E a \in Answers : Record(a) /\ q \in answer[a].req
                                 /\ row'[q] = RowStatus(answer[a].decision)
<1>t. answer \in [Answers -> CallType]
  BY DEF Typed, CallType
<1>1. CASE \E a \in Answers : Record(a)
  <2>1. CASE \E a \in Answers : Record(a) /\ q \in answer[a].req
    BY <2>1 DEF Record
  <2>2. CASE \A a \in Answers : Record(a) => q \notin answer[a].req
    BY <1>1, <2>2 DEF Record
  <2> QED
    BY <2>1, <2>2
<1>2. CASE ReadRequest
  BY <1>1, <1>2, ReadRequestDoes DEF Asks
<1>3. CASE ReadFinish
  BY <1>1, <1>3 DEF ReadFinish, ClosePending
<1>4. CASE UNCHANGED row
  BY <1>1, <1>4
<1> QED
  BY <1>1, <1>2, <1>3, <1>4
  DEF Next, Register, Requester, Announce, TakeAnswer, Expire, SeeCancel, Unregister, Finish,
      FinishCancelled, DecideFinish, EmitFinish, Reader, ReadCancel, ReadAnswer, Deliver,
      GatewayReader, ReadReply, CallerLeaves, Resolve, UserCancel, gatewayVars

\* A call is done when it has recorded its answer.
LEMMA RecordDoes ==
    ASSUME Typed, Lines, Calls, Asks, Ending, Next, NEW a \in Answers
    PROVE  /\ Record(a) => answer'[a].state = "done" /\ answer[a].state = "accepted"
           /\ answer'[a].state = "done" => answer[a].state = "done" \/ Record(a)
<1>t. answer \in [Answers -> CallType]
  BY DEF Typed, CallType
<1>1. Record(a) => answer'[a].state = "done" /\ answer[a].state = "accepted"
  BY <1>t DEF Record, MayRecord, CallType
<1>2. ASSUME NEW b \in Answers,
             NEW s \in {"none", "calling", "accepted", "refused", "done", "left"},
             answer' = [answer EXCEPT ![b].state = s]
      PROVE  answer'[a].state = answer[a].state \/ (a = b /\ answer'[a].state = s)
  <2>1. a # b => answer'[a] = answer[a]
    BY <1>2, <1>t
  <2>2. a = b => answer'[a].state = s
    BY <1>2, <1>t DEF CallType
  <2> QED
    BY <2>1, <2>2
<1>3. ASSUME answer'[a].state = "done", answer[a].state # "done" PROVE Record(a)
  <2>1. CASE UNCHANGED answer
    BY <1>3, <2>1
  <2>2. ASSUME NEW kind \in {"accepted", "refused"}, ReadReply(kind) PROVE FALSE
    BY <1>2, <1>3, <2>2, ReadReplyDoes
  <2>3. ASSUME NEW b \in Answers, CallerLeaves(b) PROVE FALSE
    BY <1>2, <1>3, <2>3 DEF CallerLeaves
  <2>4. ASSUME NEW b \in Answers, Record(b) PROVE Record(a)
    BY <1>2, <1>3, <2>4 DEF Record
  <2>5. ASSUME NEW b \in Answers, NEW q \in Requests, NEW d \in Decisions, Resolve(b, q, d)
        PROVE  FALSE
    <3>1. \/ answer'[a] = answer[a]
          \/ answer'[a] = [state |-> "calling", req |-> {q}, decision |-> d]
      BY <1>t, <2>5 DEF Resolve
    <3> QED
      BY <1>3, <3>1
  <2> QED
    BY <2>1, <2>2, <2>3, <2>4, <2>5
    DEF Next, Register, Requester, Announce, TakeAnswer, Expire, SeeCancel, Unregister, Finish,
        FinishCancelled, DecideFinish, EmitFinish, Reader, ReadCancel, ReadAnswer, Deliver,
        GatewayReader, ReadRequest, ReadFinish, UserCancel, gatewayVars, runtimeVars
<1> QED
  BY <1>1, <1>3

\* A row that says resolved or denied keeps an answer that says the same.
LEMMA RowsKept ==
    ASSUME Typed, Lines, Calls, Asks, Ending, Rows, Next
    PROVE  Rows'
<1> SUFFICES ASSUME NEW q \in Requests, row'[q] \in {"resolved", "denied"}
             PROVE  \E a \in Answers : /\ answer'[a].req = {q} /\ answer'[a].state = "done"
                                       /\ RowStatus(answer'[a].decision) = row'[q]
  BY DEF Rows, RowStatus
<1>1. CASE row'[q] = row[q]
  <2>1. PICK a \in Answers : /\ answer[a].req = {q} /\ answer[a].state = "done"
                             /\ RowStatus(answer[a].decision) = row[q]
    BY <1>1 DEF Rows
  <2>2. answer'[a].req = {q} /\ answer'[a].decision = answer[a].decision /\ answer'[a].state = "done"
    BY <2>1, CallsMove
  <2> QED
    BY <1>1, <2>1, <2>2
<1>2. ASSUME NEW a \in Answers, Record(a), q \in answer[a].req,
             row'[q] = RowStatus(answer[a].decision)
      PROVE  \E b \in Answers : /\ answer'[b].req = {q} /\ answer'[b].state = "done"
                                /\ RowStatus(answer'[b].decision) = row'[q]
  <2>1. answer[a].state = "accepted" /\ answer'[a].state = "done"
    BY <1>2, RecordDoes
  <2>2. answer[a].req = {q}
    BY <1>2, <2>1 DEF Calls, Call
  <2>3. answer'[a].req = {q} /\ answer'[a].decision = answer[a].decision
    BY <2>1, <2>2, CallsMove
  <2> QED
    BY <1>2, <2>1, <2>3
<1> QED
  BY <1>1, <1>2, RowMoves

\* What a caller has recorded stays in the row, unless answers disagree.
LEMMA ShownKept ==
    ASSUME Typed, Lines, Calls, Asks, Ending, Shown, Next
    PROVE  Shown'
<1> SUFFICES ASSUME NEW a \in Answers, NEW q \in answer'[a].req, answer'[a].state = "done"
             PROVE  \/ row'[q] = RowStatus(answer'[a].decision)
                    \/ \E b \in Answers : /\ answer'[b].req = {q}
                                          /\ answer'[b].decision # answer'[a].decision
  BY DEF Shown, AnswersTo, RowStatus
<1>1. answer[a].state = "done" \/ Record(a)
  BY RecordDoes
<1>2. answer[a].state # "none"
  BY <1>1, RecordDoes
<1>3. answer'[a].req = answer[a].req /\ answer'[a].decision = answer[a].decision
  BY <1>2, CallsMove
<1>4. q \in Requests /\ answer[a].req = {q} /\ row[q] # "none"
  BY <1>2, <1>3 DEF Calls, Call
<1>5. ASSUME NEW b \in Answers, answer[b].req = {q}
      PROVE  answer'[b].req = {q} /\ answer'[b].decision = answer[b].decision
  <2>1. answer[b].state # "none"
    BY <1>5 DEF Calls, Call
  <2> QED
    BY <1>5, <2>1, CallsMove
<1>6. CASE \E b \in Answers : answer[b].req = {q} /\ answer[b].decision # answer[a].decision
  BY <1>3, <1>5, <1>6
<1>7. CASE \A b \in Answers : answer[b].req = {q} => answer[b].decision = answer[a].decision
  <2>1. ASSUME NEW b \in Answers, Record(b), q \in answer[b].req,
               row'[q] = RowStatus(answer[b].decision)
        PROVE  row'[q] = RowStatus(answer[a].decision)
    <3>1. answer[b].req = {q}
      BY <2>1, RecordDoes DEF Calls, Call
    <3> QED
      BY <1>7, <2>1, <3>1
  <2>2. CASE answer[a].state = "done"
    <3>1. row[q] = RowStatus(answer[a].decision)
      BY <1>3, <1>7, <2>2 DEF Shown, AnswersTo
    <3>2. row[q] # "pending"
      BY <3>1 DEF RowStatus
    <3>3. row'[q] = RowStatus(answer[a].decision)
      BY <1>4, <2>1, <3>1, <3>2, RowMoves
    <3> QED
      BY <1>3, <3>3
  <2>3. CASE Record(a)
    <3>1. row'[q] = RowStatus(answer[a].decision)
      BY <1>4, <2>3 DEF Record
    <3> QED
      BY <1>3, <3>1
  <2> QED
    BY <1>1, <2>2, <2>3
<1> QED
  BY <1>6, <1>7

\* The answer a tool acts on has been accepted.
LEMMA TakenKept ==
    ASSUME Typed, Lines, Calls, Asks, Ending, Taken, Next
    PROVE  Taken'
<1> SUFFICES ASSUME NEW q \in Requests
             PROVE  /\ channel'[q] # NoAnswer =>
                          answer'[channel'[q]].req = {q} /\ Accepted(channel[q])'
                    /\ outcome'[q] \in Decisions =>
                          \E a \in Answers : /\ answer'[a].req = {q} /\ Accepted(a)'
                                             /\ answer'[a].decision = outcome'[q]
  BY DEF Taken, AnswersTo, Decisions
<1>t. /\ channel \in [Requests -> Answers \union {NoAnswer}]
      /\ outcome \in [Requests -> Outcomes \union {"none"}]
  BY DEF Typed, TypeOK
<1>1. ASSUME NEW a \in Answers, Accepted(a), answer[a].req = {q}
      PROVE  answer'[a].req = {q} /\ Accepted(a)' /\ answer'[a].decision = answer[a].decision
  <2>1. answer[a].state # "none"
    BY <1>1 DEF Accepted
  <2> QED
    BY <1>1, <2>1, CallsMove
<1>2. ASSUME channel'[q] # NoAnswer
      PROVE  answer'[channel'[q]].req = {q} /\ Accepted(channel[q])'
  <2>1. CASE channel'[q] = channel[q]
    <3>1. channel[q] \in Answers /\ answer[channel[q]].req = {q} /\ Accepted(channel[q])
      BY <1>2, <1>t, <2>1 DEF Taken
    <3>2. ASSUME NEW a \in Answers, a = channel[q] PROVE answer'[a].req = {q} /\ Accepted(a)'
      BY <1>1, <3>1, <3>2
    <3> QED
      BY <2>1, <3>1, <3>2 DEF Accepted
  <2>2. CASE Deliver
    <3>1. PICK p \in answer[held].req : channel' = [channel EXCEPT ![p] = held]
      BY <2>2 DEF Deliver
    <3>2. held \in Answers /\ Wire' = Wire \union {Accepting(held)} /\ answer' = answer
      BY <2>2, DeliverDoes DEF Deliver, gatewayVars
    <3>3. answer[held].state \in {"calling", "left"} /\ answer[held].req = {p}
      BY <3>2 DEF Calls, Call, Nowhere
    <3>4. CASE p = q
      <4>1. channel'[q] = held
        BY <1>t, <3>1, <3>4
      <4>2. answer'[held].req = {q} /\ answer'[held].state \in {"calling", "left"}
            /\ Accepting(held) \in Wire'
        BY <3>2, <3>3, <3>4
      <4> QED
        BY <4>1, <4>2 DEF Accepted
    <3>5. CASE p # q
      BY <1>t, <2>1, <3>1, <3>5
    <3> QED
      BY <3>4, <3>5
  <2>3. ASSUME NEW p \in Requests, TakeAnswer(p) PROVE channel'[q] = channel[q]
    BY <1>2, <1>t, <2>3 DEF TakeAnswer
  <2>4. CASE UNCHANGED channel
    BY <2>1, <2>4
  <2> QED
    BY <2>1, <2>2, <2>3, <2>4
    DEF Next, Register, Requester, Announce, Expire, SeeCancel, Unregister, Finish,
        FinishCancelled, DecideFinish, EmitFinish, Reader, ReadCancel, ReadAnswer,
        GatewayReader, ReadRequest, ReadFinish, ReadReply, CallerLeaves, Record, Resolve,
        UserCancel, runtimeVars
<1>3. ASSUME outcome'[q] \in Decisions
      PROVE  \E a \in Answers : /\ answer'[a].req = {q} /\ Accepted(a)'
                                /\ answer'[a].decision = outcome'[q]
  <2>1. CASE outcome'[q] = outcome[q]
    <3>1. PICK a \in Answers : answer[a].req = {q} /\ Accepted(a) /\ answer[a].decision = outcome[q]
      BY <1>3, <2>1 DEF Taken, AnswersTo
    <3> QED
      BY <1>1, <2>1, <3>1
  <2>2. ASSUME NEW p \in Requests, TakeAnswer(p)
        PROVE  \/ outcome'[q] = outcome[q]
               \/ \E a \in Answers : /\ answer[a].req = {q} /\ Accepted(a)
                                     /\ answer[a].decision = outcome'[q]
    <3>1. /\ channel[p] # NoAnswer
          /\ outcome' = [outcome EXCEPT ![p] = answer[channel[p]].decision]
      BY <2>2 DEF TakeAnswer, Leave
    <3>2. CASE p = q
      BY <1>t, <3>1, <3>2 DEF Taken
    <3>3. CASE p # q
      BY <1>t, <3>1, <3>3
    <3> QED
      BY <3>2, <3>3
  <2>3. ASSUME NEW p \in Requests, Expire(p) \/ SeeCancel(p)
        PROVE  outcome'[q] = outcome[q]
    BY <1>3, <1>t, <2>3 DEF Expire, SeeCancel, Leave, Decisions
  <2>4. ASSUME NEW p \in Requests, TakeAnswer(p)
        PROVE  \E a \in Answers : /\ answer'[a].req = {q} /\ Accepted(a)'
                                  /\ answer'[a].decision = outcome'[q]
    BY <1>1, <2>1, <2>2, <2>4
  <2>5. CASE UNCHANGED outcome
    BY <2>1, <2>5
  <2> QED
    BY <2>1, <2>3, <2>4, <2>5
    DEF Next, Register, Requester, Announce, Unregister, Finish,
        FinishCancelled, DecideFinish, EmitFinish, Reader, ReadCancel, ReadAnswer, Deliver,
        GatewayReader, ReadRequest, ReadFinish, ReadReply, CallerLeaves, Record, Resolve,
        UserCancel, runtimeVars
<1> QED
  BY <1>2, <1>3

-----------------------------------------------------------------------------
(* The theorems                                                            *)

\* A behaviour starts with empty pipes and no rows.
LEMMA InitInvariant == Init => IInv
<1> SUFFICES ASSUME Init PROVE IInv
  OBVIOUS
<1>1. /\ toRuntime = <<>> /\ toGateway = <<>> /\ Len(<<>>) = 0 /\ \A S : <<>> \in Seq(S)
      /\ Pipe = {} /\ Wire = {}
  BY DEF Init, Pipe, Wire, On
<1>2. \A a \in Answers : /\ answer[a].state = "none" /\ answer[a].req = {}
                         /\ answer[a].decision = "deny"
  BY DEF Init
<1>3. answer \in [Answers -> CallType]
  BY DEF Init, CallType, Decisions
<1>4. Typed
  <2>1. TypeOK
    BY <1>1, <1>2 DEF Init, TypeOK, Decisions
  <2> QED
    BY <1>3, <2>1 DEF Typed, CallType
<1>5. Lines
  BY <1>1 DEF Lines, NoTwice
<1>6. Calls
  BY <1>1, <1>2, PermissionAssumption DEF Init, Calls, Call, Nowhere
<1>7. Asks /\ Ending
  BY <1>1 DEF Init, Asks, Ending
<1>8. Rows /\ Shown
  BY <1>2 DEF Init, Rows, Shown
<1>9. Taken
  BY DEF Init, Taken, Decisions
<1> QED
  BY <1>4, <1>5, <1>6, <1>7, <1>8, <1>9 DEF IInv

\* Every step keeps the invariant.
LEMMA NextInvariant == IInv /\ [Next]_vars => IInv'
<1> SUFFICES ASSUME IInv, [Next]_vars PROVE IInv'
  OBVIOUS
<1>1. CASE Next
  BY <1>1, TypesKept, PipesKept, CallsKept, AsksKept, EndingKept, RowsKept, ShownKept, TakenKept
  DEF IInv
<1>2. CASE UNCHANGED vars
  <2>1. /\ UNCHANGED <<phase, outcome, channel, cancelled, ending, held, toRuntime, toGateway>>
        /\ UNCHANGED <<answer, row, over, stopped>>
    BY <1>2 DEF vars, runtimeVars, gatewayVars
  <2>2. Typed' /\ Lines' /\ Calls'
    BY <2>1 DEF IInv, Typed, TypeOK, Lines, Calls, Call, Nowhere, Pipe, Wire
  <2>3. Asks' /\ Ending'
    BY <2>1 DEF IInv, Asks, Ending, BatchDone, Wire
  <2>4. Rows' /\ Shown'
    BY <2>1 DEF IInv, Rows, Shown, AnswersTo
  <2>5. Taken'
    <3>1. \A a : Accepted(a)' = Accepted(a)
      BY <2>1 DEF Accepted, Wire
    <3> QED
      BY <2>1, <3>1 DEF IInv, Taken, AnswersTo, Accepted, Wire
  <2> QED
    BY <2>2, <2>3, <2>4, <2>5 DEF IInv
<1> QED
  BY <1>1, <1>2

\* The inductive invariant holds.
THEOREM Safety == Spec => []IInv
BY InitInvariant, NextInvariant, PTL DEF Spec

\* Every variable keeps its type; a row holds one of the statuses the queries name.
THEOREM TypeCorrect == Spec => []TypeOK
<1>1. IInv => TypeOK
  BY DEF IInv, Typed
<1> QED
  BY <1>1, Safety, PTL

\* However many requests a run makes, none of its rows is pending once the Gateway has
\* handled its terminal event (run.go:765).
THEOREM NoPendingAfterTheEnd == Spec => []EndedRunHasNoPending
<1>1. IInv => EndedRunHasNoPending
  BY DEF IInv, Ending, EndedRunHasNoPending
<1> QED
  BY <1>1, Safety, PTL

\* A row says resolved or denied only of a request the Runtime accepted such an answer
\* for: an answer still under way, or refused, is not among them (run.go:726-730).
THEOREM RowsAreAccepted == Spec => []RowsShowAcceptedAnswers
<1>1. IInv => RowsShowAcceptedAnswers
  <2> SUFFICES ASSUME IInv, NEW q \in Requests, row[q] \in {"resolved", "denied"}
               PROVE  \E a \in Answers :
                        /\ answer[a].req = {q} /\ answer[a].state = "done"
                        /\ RowStatus(answer[a].decision) = row[q]
                        /\ ~Unsettled(a)
    BY DEF RowsShowAcceptedAnswers
  <2>1. PICK a \in Answers : /\ answer[a].req = {q} /\ answer[a].state = "done"
                             /\ RowStatus(answer[a].decision) = row[q]
    BY DEF IInv, Rows
  <2>2. Nowhere(a)
    BY <2>1 DEF IInv, Calls, Call
  <2>3. /\ DOMAIN toRuntime = 1 .. Len(toRuntime)
        /\ DOMAIN toGateway = 1 .. Len(toGateway)
    BY DEF IInv, Typed, TypeOK
  <2>4. ~Unsettled(a)
    BY <2>2, <2>3 DEF Nowhere, Unsettled, Pipe, Wire, On, Refusing
  <2> QED
    BY <2>1, <2>4
<1> QED
  BY <1>1, Safety, PTL

\* Once everything has been handled, the row of a request the tool acted on shows the
\* decision it acted on, unless users disagreed or a caller left early (run.go:722-732).
THEOREM RowsShowDecisions == Spec => []RowShowsTheDecisionTaken
<1>1. IInv => RowShowsTheDecisionTaken
  <2> SUFFICES ASSUME IInv, Quiet, NEW q \in Requests, outcome[q] \in Decisions,
                      \A a \in AnswersTo(q) : /\ answer[a].state # "left"
                                              /\ answer[a].decision = outcome[q]
               PROVE  row[q] = RowStatus(outcome[q])
    BY DEF RowShowsTheDecisionTaken
  <2>1. PICK a \in AnswersTo(q) : Accepted(a) /\ answer[a].decision = outcome[q]
    BY DEF IInv, Taken
  <2>2. answer[a].state = "done" /\ a \in Answers /\ answer[a].req = {q}
    BY <2>1 DEF Quiet, Accepted, AnswersTo
  <2>3. \/ row[q] = RowStatus(answer[a].decision)
        \/ \E b \in AnswersTo(q) : answer[b].decision # answer[a].decision
    BY <2>2 DEF IInv, Shown
  <2> QED
    BY <2>1, <2>3
<1> QED
  BY <1>1, Safety, PTL
=============================================================================
