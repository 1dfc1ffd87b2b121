---------------------------- MODULE MCEventStream ----------------------------
(***************************************************************************)
(* Instances of EventStream for TLC.                                       *)
(***************************************************************************)
EXTENDS EventStream

Setup(hub, send, limit, overlap) ==
    [hub |-> hub, send |-> send, limit |-> limit, overlap |-> overlap]

\* Room for every event and replays that meet no new event; and small buffers
\* and a short replay with events at any moment.
CalmAndBusy == {Setup(4, 4, 4, FALSE), Setup(1, 2, 3, TRUE)}

\* Room for every event, and events at any moment.
RoomyAndBusy == {Setup(4, 4, 4, TRUE)}
=============================================================================
