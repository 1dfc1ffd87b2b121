--------------------------- MODULE MCGatewayData ---------------------------
(***************************************************************************)
(* What the Gateway keeps for its users, one store of it at a time: the    *)
(* stores share no rows, so a behaviour of all of them is a behaviour of   *)
(* each.  part is chosen in the beginning.                                 *)
(***************************************************************************)
EXTENDS Naturals, FiniteSets

CONSTANTS Parts,
    StoreSessions, FirstSession, KeepTurns, CompactRequests, ForkPoints, Page,
    ConversationLimit, MaxMessages, MaxRequests,
    TodoSessions, Keys, None, PayloadItems, MaxPayload, MaxTodos, MaxIds, ContextLines,
    Agents, NoRoot, NewStatuses, MaxRecords, ContextRecords,
    Profiles, Editors, Servers, ServerNames, Clients,
    Definitions, Builtin, DefinitionKeys, SeedKey,
    kA, kB, s1, s2, w1

VARIABLES part,
    sess, msgs, forked, snap, running, alive, appends, compact, preview, fork, asked, disturbed,
    life, lists, nextRow, write, raced,
    records, user, agent, removed, overtaken,
    profiles, edits,
    servers, requests,
    definitions, seeding, editing, wanted, crossed

Sessions == INSTANCE SessionStore
Todos == INSTANCE TodoList
Memories == INSTANCE MemoryStore
Providers == INSTANCE ProviderProfiles
Mcp == INSTANCE McpServers
Specialists == INSTANCE AgentDefinitions

ASSUME StoreAssumption == Sessions!StoreAssumption
ASSUME TodoAssumption == Todos!TodoAssumption
ASSUME MemoryAssumption == Memories!MemoryAssumption
ASSUME DefinitionAssumption == Specialists!DefinitionAssumption

-----------------------------------------------------------------------------
\* A compaction of the desktop, one that keeps a message, and two with a range.
Request(keep, start, end) == [keep |-> keep, start |-> start, end |-> end]
SomeRequests == {Request(0, 0, 0), Request(1, 0, 0), Request(0, 2, 0), Request(0, 0, 3)}

Item(key, id, status) == [key |-> key, id |-> id, status |-> status]
Items == {Item(kA, None, "in_progress"), Item(None, kA, "completed"),
          Item(kB, 1, "in_progress"), Item(None, None, "pending")}

\* Two sessions of a workspace, and one without a workspace.
Callers == {[session |-> s1, root |-> w1], [session |-> s2, root |-> w1],
            [session |-> s2, root |-> NoRoot]}

-----------------------------------------------------------------------------
Init ==
    /\ part \in Parts
    /\ Sessions!Init /\ Todos!Init /\ Memories!Init
    /\ Providers!Init /\ Mcp!Init /\ Specialists!Init

s_vars == <<sess, msgs, forked, snap, running, alive, appends, compact, preview, fork, asked, disturbed>>
t_vars == <<life, lists, nextRow, write, raced>>
m_vars == <<records, user, agent, removed, overtaken>>
p_vars == <<profiles, edits>>
c_vars == <<servers, requests>>
d_vars == <<definitions, seeding, editing, wanted, crossed>>

Next ==
    \/ part = "sessions" /\ Sessions!Next /\ UNCHANGED <<part, t_vars, m_vars, p_vars, c_vars, d_vars>>
    \/ part = "todos" /\ Todos!Next /\ UNCHANGED <<part, s_vars, m_vars, p_vars, c_vars, d_vars>>
    \/ part = "memories" /\ Memories!Next /\ UNCHANGED <<part, s_vars, t_vars, p_vars, c_vars, d_vars>>
    \/ part = "providers" /\ Providers!Next /\ UNCHANGED <<part, s_vars, t_vars, m_vars, c_vars, d_vars>>
    \/ part = "mcp" /\ Mcp!Next /\ UNCHANGED <<part, s_vars, t_vars, m_vars, p_vars, d_vars>>
    \/ part = "specialists" /\ Specialists!Next /\ UNCHANGED <<part, s_vars, t_vars, m_vars, p_vars, c_vars>>

Spec == Init /\ [][Next]_<<part, s_vars, t_vars, m_vars, p_vars, c_vars, d_vars>>

-----------------------------------------------------------------------------
(* The properties of the stores, as their modules state them.              *)

\* Messages are numbered without gaps and forks have the messages of their source.
HistoryIntact == Sessions!HistoryIntact
\* A compaction stands for no message that was not summarised.
SummaryCoversRange == Sessions!SummaryCoversRange
\* One task in progress, unique keys, whatever a todo.write names.
WellFormedLists == Todos!WellFormedLists
\* Tasks do not outlive their session.
NoOrphanTodos == Todos!NoOrphanTodos
\* A merge deletes no task.
MergeKeepsRows == Todos!MergeKeepsRows
\* docs/30: the last task listed as in progress is the one that stays so.
LastListedWins == Todos!LastListedWins
\* A deleted memory does not come back by an update that overlaps.
NoRevival == Memories!NoRevival
\* Memory tools write records of their own session or workspace only.
AgentStaysInside == Memories!AgentStaysInside
\* One default profile, server names and agent keys that differ, under updates that
\* read before they write; and builtin specialists that keep the toggle and the
\* prompt the user saved, as long as no re-seed overlaps with the update.
SettingsSound ==
    /\ Providers!OneDefault /\ Mcp!ServerNamesUnique
    /\ Specialists!AgentKeysUnique /\ Specialists!BuiltinSettingsKept
\* A saved limit of turns outlasts the next re-seed of the builtin specialists.
OverridesKept == Specialists!OverridesKept
\* Every store keeps its rows in their types.
TypesOK == Sessions!TypeOK /\ Todos!TypeOK /\ Memories!MemoryType
=============================================================================
