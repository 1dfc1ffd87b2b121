----------------------------- MODULE McpServers -----------------------------
(***************************************************************************)
(* The MCP server configurations of the Gateway:                           *)
(* service/mcp_server_config.go and repository/mcp_server_config.go.       *)
(* The name of a server is the prefix of its tools.  Names are looked up   *)
(* before a row is inserted or written; an index over the rows that are    *)
(* not deleted decides.  Commands, arguments and environments are left out.*)
(***************************************************************************)
EXTENDS Naturals, FiniteSets

CONSTANTS Servers, ServerNames, Clients   \* ids, names, requests at one time

VARIABLES servers, requests
serverVars == <<servers, requests>>

NoRequest == [pc |-> "idle"]
Absent == [state |-> "none", name |-> "", enabled |-> FALSE]

Init ==
    /\ servers = [s \in Servers |-> Absent]
    /\ requests = [c \in Clients |-> NoRequest]

Live(s) == servers[s].state = "live"

\* nameExists
NameExists(name, except) == \E s \in Servers \ {except} : Live(s) /\ servers[s].name = name

\* Mutant of Unique: the index is missing and the look-up alone decides.
NotUnique(s, name) == TRUE

\* idx_mcp_server_configs_name: a write that breaks it fails.
Unique(s, name) == ~NameExists(name, s)

Put(s, row) == servers' = IF Unique(s, row.name) THEN [servers EXCEPT ![s] = row] ELSE servers

Row(name, enabled) == [state |-> "live", name |-> name, enabled |-> enabled]

\* Create looks the name up and then inserts.
BeginCreate(c, s, name, enabled) ==
    /\ requests[c] = NoRequest /\ servers[s].state = "none"
    /\ \A d \in Clients : requests[d] # NoRequest => requests[d].id # s
    /\ ~NameExists(name, s)
    /\ requests' = [requests EXCEPT ![c] = [pc |-> "write", id |-> s, row |-> Row(name, enabled)]]
    /\ UNCHANGED servers

\* The service reads the row for the fields a request leaves out.
BeginUpdate(c, s, name, enabled) ==
    /\ requests[c] = NoRequest /\ Live(s)
    /\ requests' = [requests EXCEPT ![c] = [pc |-> "based", id |-> s, row |-> Row(name, enabled)]]
    /\ UNCHANGED servers

\* The repository reads it again and looks a new name up.
ReadRow(c) ==
    LET r == requests[c] IN
    /\ r.pc = "based"
    /\ requests' = [requests EXCEPT ![c] =
          IF Live(r.id) /\ (r.row.name # servers[r.id].name => ~NameExists(r.row.name, r.id))
          THEN [r EXCEPT !.pc = "write"] ELSE NoRequest]
    /\ UNCHANGED servers

WriteRow(c) ==
    /\ requests[c].pc = "write"
    /\ Put(requests[c].id, requests[c].row)
    /\ requests' = [requests EXCEPT ![c] = NoRequest]

Delete(s) ==
    /\ Live(s)
    /\ servers' = [servers EXCEPT ![s].state = "deleted", ![s].enabled = FALSE]
    /\ UNCHANGED requests

Next ==
    \/ \E c \in Clients :
          \/ ReadRow(c) \/ WriteRow(c)
          \/ \E s \in Servers, name \in ServerNames, enabled \in BOOLEAN :
                BeginCreate(c, s, name, enabled) \/ BeginUpdate(c, s, name, enabled)
    \/ \E s \in Servers : Delete(s)

Spec == Init /\ [][Next]_serverVars

-----------------------------------------------------------------------------
\* docs/19: "Unique server name."  Two requests that both found a name free do not
\* both get it, and a deleted server that an update brings back takes no name that
\* was given away meanwhile.
ServerNamesUnique ==
    \A s, t \in Servers : Live(s) /\ Live(t) /\ servers[s].name = servers[t].name => s = t
=============================================================================
