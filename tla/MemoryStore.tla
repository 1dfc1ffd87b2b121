---------------------------- MODULE MemoryStore ----------------------------
(***************************************************************************)
(* The memory records of workspaces and sessions: service/memory.go and    *)
(* repository/memory.go of the Gateway.                                    *)
(*                                                                         *)
(* The user edits records over HTTP, agents with the memory tools; a run   *)
(* gets the active records of its session and workspace.  An update reads  *)
(* the record twice, and an agent's a third time for the ownership check;  *)
(* the row written in the end is the whole row as it was read last.        *)
(* Title, content, kind, confidence and metadata are left out.             *)
(***************************************************************************)
EXTENDS Naturals, FiniteSets, Sequences

CONSTANTS
    Agents,         \* runs that use the tools and get a context: see MemoryAssumption
    NoRoot,         \* the workspace root of a session without workspace
    NewStatuses,    \* statuses of new records
    MaxRecords,     \* records of a behaviour: the bound of a finite run
    ContextRecords  \* lines that fit in the memory context of a run

MemoryAssumption ==
    /\ \A a \in Agents : DOMAIN a = {"session", "root"} /\ a.session # NoRoot
    /\ NewStatuses \subseteq {"active", "disabled", "deleted"}
    /\ {MaxRecords, ContextRecords} \subseteq Nat \ {0}

VARIABLES
    records,    \* rows, the last updated one last
    user,       \* the update the user has under way
    agent,      \* the memory tool under way
    removed,    \* history: records whose deletion is the last thing asked of their status
    overtaken   \* history: records deleted while an update had read them and not written

memoryVars == <<records, user, agent, removed, overtaken>>

Scopes == {"session", "project", "user"}
Statuses == {"active", "disabled", "deleted"}
Unchanged == "keep"

NoOp == [pc |-> "idle"]

Init == records = <<>> /\ user = NoOp /\ agent = NoOp /\ removed = {} /\ overtaken = {}

Ids == {records[n].id : n \in DOMAIN records}
Position(id) == CHOOSE n \in DOMAIN records : records[n].id = id
Get(id) == records[Position(id)]

\* updated_at moves to the end of the order: the rows behind it close up.
Save(row) ==
    [n \in DOMAIN records |-> CASE n = Len(records) -> row
                                [] n < Position(row.id) -> records[n]
                                [] OTHER -> records[n + 1]]

-----------------------------------------------------------------------------
(* Rules of a row                                                          *)

\* validateMemoryTrace: the field the scope needs.  The run of an agent's record
\* is always there.
Traced(scope, row) ==
    /\ scope = "project" => row.root # NoRoot
    /\ scope = "session" => row.session # NoRoot

\* Mutant of Updated: any update clears deleted_at and the status with it.
UpdatedAlive(row, scope, status) ==
    [row EXCEPT !.scope = IF scope = Unchanged THEN @ ELSE scope,
                !.status = IF status = Unchanged THEN "active" ELSE status,
                !.gone = status = "deleted"]

\* The fields an update names; a status sets or clears deleted_at.
Updated(row, scope, status) ==
    [row EXCEPT !.scope = IF scope = Unchanged THEN @ ELSE scope,
                !.status = IF status = Unchanged THEN @ ELSE status,
                !.gone = IF status = Unchanged THEN @ ELSE status = "deleted"]

Live(row) == row.status # "deleted" /\ ~row.gone

\* Mutant of Owns: a record of the workspace is enough, whatever its scope.
OwnsWorkspace(a, row) == row.root = a.root /\ Live(row)

\* validateRuntimeMemoryOwnership
Owns(a, row) ==
    /\ \/ row.scope = "session" /\ row.session # NoRoot /\ row.session = a.session
       \/ row.scope = "project" /\ row.root # NoRoot /\ row.root = a.root
    /\ Live(row)

\* The query of SelectForRun.
Selected(a, row) ==
    /\ row.status = "active" /\ ~row.gone
    /\ \/ row.scope = "session" /\ a.session # NoRoot /\ row.session = a.session
       \/ row.scope = "project" /\ a.root # NoRoot /\ row.root = a.root

\* PreviewRun: records of the session first, the last updated first, up to the
\* first one that does not fit.
Context(a) ==
    LET found    == {n \in DOMAIN records : Selected(a, records[n])}
        ahead(n) == {m \in found : IF records[m].scope = records[n].scope THEN m > n
                                   ELSE records[m].scope = "session"}
    IN  {records[n] : n \in {k \in found : Cardinality(ahead(k)) < ContextRecords}}

-----------------------------------------------------------------------------
(* Creation                                                                *)

Row(scope, status, a) ==
    [id |-> Len(records) + 1, scope |-> scope, status |-> status, gone |-> status = "deleted",
     session |-> a.session, root |-> a.root]

Create(row) ==
    /\ Len(records) < MaxRecords
    /\ Traced(row.scope, row)
    /\ records' = Append(records, row)
    /\ removed' = removed \cup (IF row.gone THEN {row.id} ELSE {})
    /\ UNCHANGED overtaken

UserCreate(scope, status, a) ==
    /\ Create(Row(scope, status, a))
    /\ UNCHANGED <<user, agent>>

\* The tools are handled one at a time by the reader of the Runtime's output.
AgentCreate(scope, status, a) ==
    /\ agent = NoOp /\ scope # "user" /\ status # "deleted"
    /\ Create(Row(scope, status, a))
    /\ UNCHANGED <<user, agent>>

-----------------------------------------------------------------------------
(* Updates                                                                 *)

\* MemoryService.Update reads and validates.
UserUpdate(id, scope, status) ==
    /\ user = NoOp
    /\ Traced(IF scope = Unchanged THEN Get(id).scope ELSE scope, Get(id))
    /\ user' = [pc |-> "checked", id |-> id, by |-> "user", owned |-> Unchanged,
                scope |-> scope, status |-> status]
    /\ UNCHANGED <<records, agent, removed, overtaken>>

\* executeRuntimeMemoryUpdate and executeRuntimeMemoryDelete check the owner.
AgentUse(a, id, tool, status) ==
    /\ agent = NoOp
    /\ Owns(a, Get(id))
    /\ agent' = [pc |-> "owned", tool |-> tool, id |-> id, by |-> a, owned |-> Get(id).scope,
                 scope |-> Unchanged, status |-> status]
    /\ UNCHANGED <<records, user, removed, overtaken>>

\* The validation of MemoryService.Update, for a tool.
AgentCheck ==
    /\ agent.pc = "owned" /\ agent.tool = "update"
    /\ agent' = IF Traced(Get(agent.id).scope, Get(agent.id)) THEN [agent EXCEPT !.pc = "checked"]
                ELSE NoOp
    /\ UNCHANGED <<records, user, removed, overtaken>>

\* MemoryRepository.Update reads the row it will write.
Reading(op) ==
    [pc |-> "read", id |-> op.id, status |-> op.status,
     by |-> op.by,
     owned |-> op.owned, row |-> Updated(Get(op.id), op.scope, op.status)]

UserRead ==
    /\ user.pc = "checked"
    /\ user' = Reading(user)
    /\ UNCHANGED <<records, agent, removed, overtaken>>

AgentRead ==
    /\ agent.pc = "checked"
    /\ agent' = Reading(agent)
    /\ UNCHANGED <<records, user, removed, overtaken>>

\* An update that will write the record as it was before this step.
Overtaken(id, op) == IF op.pc = "read" /\ op.id = id THEN {id} ELSE {}

\* The whole row is written; the last status asked for is what counts.
Write(op, other) ==
    /\ op.pc = "read"
    /\ records' = Save(op.row)
    /\ removed' = CASE op.status = "deleted" -> removed \cup {op.id}
                    [] op.status = Unchanged -> removed
                    [] OTHER -> removed \ {op.id}
    /\ overtaken' = overtaken \cup (IF op.status = "deleted" THEN Overtaken(op.id, other) ELSE {})

UserSave == Write(user, agent) /\ user' = NoOp /\ UNCHANGED agent
AgentSave == Write(agent, user) /\ agent' = NoOp /\ UNCHANGED user

\* MemoryRepository.Delete: one conditional statement.
Delete(id) ==
    /\ records' = IF Get(id).gone THEN records
                  ELSE Save([Get(id) EXCEPT !.status = "deleted", !.gone = TRUE])
    /\ removed' = removed \cup {id}
    /\ overtaken' = overtaken \cup Overtaken(id, user) \cup Overtaken(id, agent)

UserDelete(id) == Delete(id) /\ UNCHANGED <<user, agent>>

AgentDelete ==
    /\ agent.pc = "owned" /\ agent.tool = "delete"
    /\ Delete(agent.id)
    /\ agent' = NoOp /\ UNCHANGED user

-----------------------------------------------------------------------------
Next ==
    \/ \E a \in Agents, scope \in Scopes, status \in NewStatuses :
          UserCreate(scope, status, a) \/ AgentCreate(scope, status, a)
    \/ \E id \in Ids :
          \/ \E scope \in Scopes \cup {Unchanged}, status \in Statuses \cup {Unchanged} :
                UserUpdate(id, scope, status)
          \/ \E a \in Agents :
                \/ AgentUse(a, id, "delete", Unchanged)
                \/ \E status \in {"active", "disabled", Unchanged} : AgentUse(a, id, "update", status)
          \/ UserDelete(id)
    \/ UserRead \/ UserSave \/ AgentCheck \/ AgentRead \/ AgentSave \/ AgentDelete

Spec == Init /\ [][Next]_memoryVars

-----------------------------------------------------------------------------
MemoryType ==
    /\ \A n \in DOMAIN records :
          /\ records[n].scope \in Scopes /\ records[n].status \in Statuses
          /\ records[n].status = "deleted" <=> records[n].gone
    /\ user.pc \in {"idle", "checked", "read"}
    /\ agent.pc \in {"idle", "owned", "checked", "read"}
    /\ overtaken \subseteq Ids /\ removed \subseteq Ids

\* docs/14: "No memory injection from deleted/disabled records."  A deleted record
\* comes back only when an update asks for a status, however updates of the user
\* and of an agent overlap with the deletion, unless one had already read it.
NoRevival ==
    \A id \in removed \ overtaken :
        /\ Get(id).gone /\ Get(id).status = "deleted"
        /\ \A a \in Agents : Get(id) \notin Context(a)

\* docs/14: "No cross-workspace project memory leakage."  A tool writes and deletes
\* only records of its session or workspace, although it writes them several reads
\* after the ownership was checked and the user may change their scope meanwhile;
\* and a record keeps the fields its scope needs.
AgentStaysInside ==
    [][/\ AgentSave \/ AgentDelete =>
             IF agent.owned = "session" THEN agent.by.session = Get(agent.id).session
             ELSE agent.owned = "project" /\ agent.by.root = Get(agent.id).root
       /\ \A n \in DOMAIN records' : Traced(records'[n].scope, records'[n])]_memoryVars
=============================================================================
