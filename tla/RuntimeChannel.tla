--------------------------- MODULE RuntimeChannel ---------------------------
(***************************************************************************)
(* The line between a Gateway and one Runtime.  Both ends call each other; *)
(* each end has one reader, which handles what it reads before it reads on *)
(* (Serve and handleLine of runtime.go, readStdout of client.go), and one  *)
(* mutex, held while a line is written (writeResponse, writeNotification,  *)
(* callGateway; call, writeRuntimeResponse) and needed to deliver an       *)
(* answer or an event.  The Runtime's goroutines ask for permits and give  *)
(* them back; the Gateway's reader itself waits for a permit to be free.   *)
(*                                                                         *)
(* Left out: what is said, and the death of the Runtime (RunLifecycle).    *)
(***************************************************************************)
EXTENDS Naturals, Sequences, FiniteSets

CONSTANTS
    Askers,     \* goroutines of the Runtime that want a permit
    Callers,    \* goroutines of the Gateway that call the Runtime
    Free,       \* permits of the budget
    OutCap,     \* lines the way to the Gateway holds
    InCap,      \* lines the way to the Runtime holds
    MaxLoose    \* events of the Runtime: the bound of a finite run

ChannelAssumption ==
    /\ Askers \cap Callers = {} /\ {Free, OutCap, InCap, MaxLoose} \subseteq Nat
    \* The system's buffers hold many lines.
    /\ OutCap > 0 /\ InCap >= Cardinality(Askers) + Cardinality(Callers)

VARIABLES
    out, in,    \* the two ways
    rhold,      \* the line written under the Runtime's mutex, or none
    chold,      \* the line written under the client's mutex, or none
    serving,    \* the request the Runtime's reader handles, or none
    granting,   \* the request the Gateway's reader handles, or none
    asker,      \* gatewayPending, as the askers see it
    caller,     \* the client's pending, as the callers see it
    held,       \* permits the Gateway counts
    others,     \* permits of other runs
    loose       \* events written

Line(what, who) == [what |-> what, who |-> who]
Nothing == Line("none", "none")

Init ==
    /\ out = <<>> /\ in = <<>> /\ rhold = Nothing /\ chold = Nothing
    /\ serving = Nothing /\ granting = Nothing
    /\ asker = [a \in Askers |-> "idle"] /\ caller = [c \in Callers |-> "idle"]
    /\ held = {} /\ others = 0 /\ loose = 0

-----------------------------------------------------------------------------
(* Writing.                                                                *)

RuntimeLocks(line) == rhold = Nothing /\ rhold' = line
ClientLocks(line) == chold = Nothing /\ chold' = line

RuntimeWrites ==
    /\ rhold # Nothing /\ Len(out) < OutCap
    /\ out' = Append(out, rhold) /\ rhold' = Nothing
    /\ UNCHANGED <<in, chold, serving, granting, asker, caller, held, others, loose>>
ClientWrites ==
    /\ chold # Nothing /\ Len(in) < InCap
    /\ in' = Append(in, chold) /\ chold' = Nothing
    /\ UNCHANGED <<out, rhold, serving, granting, asker, caller, held, others, loose>>

-----------------------------------------------------------------------------
(* The Runtime.                                                            *)

\* callGateway: acquireProviderPermit, and the release it returns.
Ask(a) ==
    /\ asker[a] = "idle" /\ RuntimeLocks(Line("acquire", a))
    /\ asker' = [asker EXCEPT ![a] = "asking"]
    /\ UNCHANGED <<out, in, chold, serving, granting, caller, held, others, loose>>
GiveBack(a) ==
    /\ asker[a] = "holding" /\ RuntimeLocks(Line("release", a))
    /\ asker' = [asker EXCEPT ![a] = "returning"]
    /\ UNCHANGED <<out, in, chold, serving, granting, caller, held, others, loose>>

\* The caller's context, or its timer, which starts when the line is out; leaving
\* gatewayPending takes the mutex.
AskerGivesUp(a) ==
    /\ asker[a] \in {"asking", "returning"} /\ rhold = Nothing
    /\ asker' = [asker EXCEPT ![a] = IF @ = "asking" THEN "failed" ELSE "done"]
    /\ UNCHANGED <<out, in, rhold, chold, serving, granting, caller, held, others, loose>>

\* writeNotification.
Announce ==
    /\ loose < MaxLoose /\ loose' = loose + 1 /\ RuntimeLocks(Line("event", "none"))
    /\ UNCHANGED <<out, in, chold, serving, granting, asker, caller, held, others>>

\* The reader is free: it handles no request, nor writes the answer to one.
RuntimeReads == in # <<>> /\ serving = Nothing /\ rhold.what # "reply"

\* handleGatewayResponse: an answer nobody waits for any more is dropped.
Heard(a, what) ==
    CASE asker[a] = "asking" /\ what = "granted" -> "holding"
      [] asker[a] = "asking" /\ what = "refused" -> "failed"
      [] asker[a] = "returning" /\ what = "released" -> "done"
      [] OTHER -> asker[a]
ReadAnswer ==
    /\ RuntimeReads /\ Head(in).who \in Askers /\ rhold = Nothing
    /\ asker' = [asker EXCEPT ![Head(in).who] = Heard(Head(in).who, Head(in).what)]
    /\ in' = Tail(in)
    /\ UNCHANGED <<out, rhold, chold, serving, granting, caller, held, others, loose>>

\* handleLine: a request is served before the next line is read, however long
\* it takes (mcp.discover, core.shutdown).
ReadRequest ==
    /\ RuntimeReads /\ Head(in).who \in Callers
    /\ serving' = Head(in) /\ in' = Tail(in)
    /\ UNCHANGED <<out, rhold, chold, granting, asker, caller, held, others, loose>>
Reply ==
    /\ serving # Nothing /\ RuntimeLocks(Line("reply", serving.who)) /\ serving' = Nothing
    /\ UNCHANGED <<out, in, chold, granting, asker, caller, held, others, loose>>

-----------------------------------------------------------------------------
(* The Gateway.                                                            *)

Call(c) ==
    /\ caller[c] = "idle" /\ ClientLocks(Line("call", c))
    /\ caller' = [caller EXCEPT ![c] = "calling"]
    /\ UNCHANGED <<out, in, rhold, serving, granting, asker, held, others, loose>>
CallerGivesUp(c) ==
    /\ caller[c] = "calling" /\ chold = Nothing
    /\ caller' = [caller EXCEPT ![c] = "done"]
    /\ UNCHANGED <<out, in, rhold, chold, serving, granting, asker, held, others, loose>>

Answers == {"granted", "refused", "released"}
GatewayReads == out # <<>> /\ granting = Nothing /\ chold.what \notin Answers

\* handleNotification and the delivery of a reply take the client's mutex.
ReadEvent ==
    /\ GatewayReads /\ Head(out).what = "event" /\ chold = Nothing /\ out' = Tail(out)
    /\ UNCHANGED <<in, rhold, chold, serving, granting, asker, caller, held, others, loose>>
ReadReply ==
    /\ GatewayReads /\ Head(out).what = "reply" /\ chold = Nothing /\ out' = Tail(out)
    /\ caller' = [caller EXCEPT ![Head(out).who] = "done"]
    /\ UNCHANGED <<in, rhold, chold, serving, granting, asker, held, others, loose>>
ReadAsk ==
    /\ GatewayReads /\ Head(out).what \in {"acquire", "release"}
    /\ granting' = Head(out) /\ out' = Tail(out)
    /\ UNCHANGED <<in, rhold, chold, serving, asker, caller, held, others, loose>>

\* handleRequest: the budget grants, or the 30 seconds of the request are over.
Grant ==
    /\ granting.what = "acquire" /\ Cardinality(held) + others < Free
    /\ ClientLocks(Line("granted", granting.who)) /\ held' = held \cup {granting.who}
    /\ granting' = Nothing
    /\ UNCHANGED <<out, in, rhold, serving, asker, caller, others, loose>>
\* Mutant of Refuse: the reader waits for a permit without a limit.
RefuseNever == FALSE /\ UNCHANGED <<out, in, rhold, chold, serving, granting, asker, caller, held, others, loose>>
Refuse ==
    /\ granting.what = "acquire" /\ ClientLocks(Line("refused", granting.who))
    /\ granting' = Nothing
    /\ UNCHANGED <<out, in, rhold, serving, asker, caller, held, others, loose>>
Release ==
    /\ granting.what = "release" /\ ClientLocks(Line("released", granting.who))
    /\ held' = held \ {granting.who} /\ granting' = Nothing
    /\ UNCHANGED <<out, in, rhold, serving, asker, caller, others, loose>>

\* Other runs, over Runtimes of their own.
OthersTake ==
    /\ Cardinality(held) + others < Free /\ others' = others + 1
    /\ UNCHANGED <<out, in, rhold, chold, serving, granting, asker, caller, held, loose>>
OthersGive ==
    /\ others > 0 /\ others' = others - 1
    /\ UNCHANGED <<out, in, rhold, chold, serving, granting, asker, caller, held, loose>>

-----------------------------------------------------------------------------
\* What goes on by itself: writes, readers, deadlines, permits given back.
Runs ==
    \/ RuntimeWrites \/ ClientWrites \/ ReadAnswer \/ ReadRequest \/ Reply
    \/ ReadEvent \/ ReadReply \/ ReadAsk \/ Grant \/ Refuse \/ Release
    \/ (\E a \in Askers : GiveBack(a) \/ AskerGivesUp(a))
    \/ (\E c \in Callers : CallerGivesUp(c))
ChannelNext ==
    \/ Runs \/ Announce \/ OthersTake \/ OthersGive
    \/ (\E a \in Askers : Ask(a)) \/ (\E c \in Callers : Call(c))

-----------------------------------------------------------------------------
(* Properties.                                                             *)

\* A permit the Gateway counts is wanted, held or on its way back, or its asker
\* gave up before the answer came.
PermitsAccounted ==
    \A a \in Askers :
        /\ asker[a] = "holding" => a \in held
        /\ a \in held /\ asker[a] = "done" =>
              Line("release", a) \in {rhold, granting} \cup {out[i] : i \in DOMAIN out}

\* The rest every behaviour comes to: every call of either side has returned, and a permit that is given back is free
\* again, though the release waits behind a request the Gateway's reader cannot
\* grant (client.go:584).
NobodyWaits ==
    /\ \A c \in Callers : caller[c] # "calling"
    /\ \A a \in Askers : asker[a] # "returning" /\ (asker[a] = "done" => a \notin held)
=============================================================================
