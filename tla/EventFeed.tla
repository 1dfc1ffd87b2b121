------------------------------ MODULE EventFeed ------------------------------
(***************************************************************************)
(* What the event stream of a run promises its client: the events that are *)
(* saved arrive in the order of root_seq, each of them once, and none is   *)
(* missing, whatever connections are lost on the way.                      *)
(***************************************************************************)
EXTENDS Naturals, Sequences

VARIABLES
    saved,      \* events of the run; their numbers are 1 .. saved
    received    \* numbers the client has handled

vars == <<saved, received>>

Init == saved = 0 /\ received = <<>>

Save == saved' = saved + 1 /\ UNCHANGED received

Receive ==
    /\ Len(received) < saved
    /\ received' = Append(received, Len(received) + 1)
    /\ UNCHANGED saved

Next == Save \/ Receive

Spec == Init /\ [][Next]_vars
FairSpec == Spec /\ WF_vars(Receive)
=============================================================================
