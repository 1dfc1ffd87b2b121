------------------------------ MODULE TodoList ------------------------------
(***************************************************************************)
(* The task lists of sessions: service/todo.go and repository/todo.go of   *)
(* the Gateway, with the paths that end a session.                         *)
(*                                                                         *)
(* The agent writes a list with todo.write; sessions are forked, deleted   *)
(* and removed with their workspace by HTTP requests.  The requests of a   *)
(* Runtime are handled by the reader of its output, so one write is under  *)
(* way at a time.  A list is the sequence of its rows by sort_order.       *)
(* Content, priority and run ids of a row are left out.                    *)
(***************************************************************************)
EXTENDS Naturals, SequencesExt, RowOrder

CONSTANTS
    TodoSessions, FirstSession,
    Keys,           \* names an agent gives to tasks
    None,           \* an empty string
    PayloadItems,   \* items of a todo.write, see TodoAssumption
    MaxPayload,     \* items of one write
    MaxTodos,       \* todoMaxItems, 50 in the code
    MaxIds,         \* rows created in a behaviour: the bound of a finite run
    ContextLines    \* lines that fit in the task context of a run

RowIds == 1 .. MaxIds
Open == {"pending", "in_progress"}
Statuses == Open \cup {"completed", "cancelled"}

TodoAssumption ==
    /\ FirstSession \in TodoSessions
    /\ PayloadItems \subseteq [key : Keys \cup {None}, id : Keys \cup RowIds \cup {None},
                               status : Statuses]
    /\ {MaxPayload, MaxTodos, MaxIds, ContextLines} \subseteq Nat \ {0}
    /\ None \notin Keys \cup Nat

VARIABLES
    life,      \* none, live, ending or emptied (half deleted), deleted
    lists,      \* the rows of each session
    nextRow,    \* the next primary key
    write,      \* the todo.write under way; focus is the last item it wants in progress
    raced       \* history: sessions that were written or forked while they were deleted

todoVars == <<life, lists, nextRow, write, raced>>

NoWrite == [pc |-> "idle"]

Init ==
    /\ life = [s \in TodoSessions |-> IF s = FirstSession THEN "live" ELSE "none"]
    /\ lists = [s \in TodoSessions |-> <<>>]
    /\ nextRow = 1
    /\ write = NoWrite
    /\ raced = {}

-----------------------------------------------------------------------------
(* Building the list of a write                                            *)

Row(id, key, status) ==
    [id |-> id, key |-> key, status |-> status, done |-> status \notin Open]

\* byClientKey and byPK of a list.
ById(rows) == [i \in {rows[n].id : n \in DOMAIN rows} |->
                 CHOOSE r \in Range(rows) : r.id = i]
ByKey(rows) == [k \in {rows[n].key : n \in DOMAIN rows} \ {None} |->
                  (CHOOSE r \in Range(rows) : r.key = k).id]

Without(f, k) == [x \in DOMAIN f \ {k} |-> f[x]]
With(f, k, v) == [x \in DOMAIN f \cup {k} |-> IF x = k THEN v ELSE f[x]]

\* matchExistingTodoPK: the client key, the id as a client key, the id itself.
Match(item, byKey, byId) ==
    CASE item.key \in DOMAIN byKey -> byKey[item.key]
      [] item.id \in DOMAIN byKey -> byKey[item.id]
      [] item.id \in DOMAIN byId -> item.id
      [] OTHER -> None

\* A key is taken over when no other row has it.
Renames(row, item, byKey) ==
    /\ item.key \notin {None, row.key}
    /\ item.key \in DOMAIN byKey => byKey[item.key] = row.id

\* The client key of a row that did not exist.
NewKey(item, byKey, byId) ==
    IF item.key # None THEN IF item.key \in DOMAIN byKey THEN None ELSE item.key
    ELSE IF item.id \in DOMAIN byKey \cup DOMAIN byId THEN None
    ELSE item.id

\* One payload item of buildTodosMerge; acc.rows is listedOrder.
MergeItem(acc, item) ==
    LET found == Match(item, acc.byKey, acc.byId)
        old   == acc.byId[found]
        moved == found # None /\ Renames(old, item, acc.byKey)
        row   == IF found = None
                 THEN Row(acc.next, NewKey(item, acc.byKey, acc.byId), item.status)
                 ELSE Row(found, IF moved THEN item.key ELSE old.key, item.status)
        keys  == IF moved THEN Without(acc.byKey, old.key) ELSE acc.byKey
    IN  [rows  |-> Append(acc.rows, row),
         byId  |-> With(acc.byId, row.id, row),
         byKey |-> IF row.key = None THEN keys ELSE With(keys, row.key, row.id),
         next  |-> IF found = None THEN acc.next + 1 ELSE acc.next]

\* Mutant of Kept: rows that the payload does not name are dropped.
KeptNone(existing, listed) == <<>>

\* Rows that the payload did not list stay, behind the listed ones.
Kept(existing, listed) ==
    Picked(existing, {m \in DOMAIN existing : \A n \in DOMAIN listed : listed[n].id # existing[m].id})

BuildTodosMerge(existing, items, next) ==
    LET after[n \in 0 .. Len(items)] ==
            IF n = 0 THEN [rows |-> <<>>, byId |-> ById(existing), byKey |-> ByKey(existing),
                           next |-> next]
            ELSE MergeItem(after[n - 1], items[n])
        listed == after[Len(items)].rows
    IN  listed \o Kept(existing, listed)

\* The client key that a payload item asks for.
Wanted(item) == IF item.key # None THEN item.key ELSE item.id

\* Mutant of AssignKey: a key may be given twice.
AssignKeyAgain(item, seen) == Wanted(item)

\* assignClientKey; seen are the keys that earlier items asked for.
AssignKey(item, seen) == IF Wanted(item) \in seen THEN None ELSE Wanted(item)

BuildTodosReplace(items, next) ==
    [n \in DOMAIN items |->
        Row(next + n - 1, AssignKey(items[n], {Wanted(items[m]) : m \in 1 .. n - 1}),
            items[n].status)]

InProgress(rows) == {n \in DOMAIN rows : rows[n].status = "in_progress"}
LastOf(S) == CHOOSE n \in S : \A m \in S : m <= n

\* normalizeSingleInProgress: the last one of the final order stays.
Normalize(rows) ==
    [n \in DOMAIN rows |->
        IF n \in InProgress(rows) /\ n # LastOf(InProgress(rows))
        THEN Row(rows[n].id, rows[n].key, "pending") ELSE rows[n]]

\* todoStatusRank
Rank(status) ==
    CASE status = "in_progress" -> 0 [] status = "pending" -> 1
      [] status = "completed" -> 2 [] status = "cancelled" -> 3

\* FormatTodoContext: open tasks first, as many lines as fit.
Context(rows) ==
    SubSeq(Ordered(rows, [n \in DOMAIN rows |-> Rank(rows[n].status)]), 1,
           IF Len(rows) < ContextLines THEN Len(rows) ELSE ContextLines)

\* ListOpenBySession, the open tasks of a compaction summary.
OpenTasks(rows) == {r \in Range(rows) : r.status \in Open}

-----------------------------------------------------------------------------
(* todo.write                                                              *)

Payloads == UNION {[1 .. n -> PayloadItems] : n \in 0 .. MaxPayload}

NextAfter(rows) ==
    LastOf({nextRow} \cup {rows[n].id + 1 : n \in DOMAIN rows})

\* ExecuteRuntimeTool looks at the session, executeWrite builds the list.
BeginWrite(s, items, merge) ==
    LET final == IF merge THEN BuildTodosMerge(lists[s], items, nextRow)
                 ELSE BuildTodosReplace(items, nextRow)
    IN  /\ write = NoWrite
        /\ life[s] \in {"live", "emptied"}
        /\ NextAfter(final) <= MaxIds + 1
        /\ Len(final) <= MaxTodos
        /\ write' = [pc |-> "built", session |-> s, merge |-> merge, final |-> Normalize(final),
                     focus |-> LastOf({0} \cup InProgress(items))]
        /\ nextRow' = NextAfter(final)
        /\ raced' = IF life[s] = "emptied" THEN raced \cup {s} ELSE raced
        /\ UNCHANGED <<life, lists>>

\* Two rows of one primary key: the insert fails and takes the delete back.
Rejected(rows) == \E m, n \in DOMAIN rows : m # n /\ rows[m].id = rows[n].id

ReplaceSession ==
    /\ write # NoWrite
    /\ lists' = IF Rejected(write.final) THEN lists
                ELSE [lists EXCEPT ![write.session] = write.final]
    /\ write' = NoWrite
    /\ UNCHANGED <<life, nextRow, raced>>

-----------------------------------------------------------------------------
(* Sessions                                                                *)

\* CopySessionTodos inside the transaction of SessionService.Fork.
Copied(rows, next) == [n \in DOMAIN rows |-> [rows[n] EXCEPT !.id = next + n - 1]]

Fork(s, t) ==
    /\ life[s] \in {"live", "emptied"} /\ life[t] = "none"
    /\ nextRow + Len(lists[s]) <= MaxIds + 1
    /\ life' = [life EXCEPT ![t] = life[s]]
    /\ lists' = [lists EXCEPT ![t] = Copied(lists[s], nextRow)]
    /\ nextRow' = nextRow + Len(lists[s])
    /\ raced' = IF life[s] = "emptied" THEN raced \cup {t} ELSE raced
    /\ UNCHANGED write

Writing(s) == write # NoWrite /\ write.session = s

\* SessionService.Delete: the session first, its tasks next.
SoftDelete(s) ==
    /\ life[s] = "live"
    /\ life' = [life EXCEPT ![s] = "ending"]
    /\ raced' = IF Writing(s) THEN raced \cup {s} ELSE raced
    /\ UNCHANGED <<lists, nextRow, write>>

\* Mutant of Rows: the tasks of a deleted session are left behind.
RowsKept(s) == lists[s]

\* What DeleteBySession leaves.
Rows(s) == <<>>

DropTodos(s) ==
    /\ life[s] = "ending"
    /\ life' = [life EXCEPT ![s] = "deleted"]
    /\ lists' = [lists EXCEPT ![s] = Rows(s)]
    /\ UNCHANGED <<nextRow, write, raced>>

\* WorkspaceService.Remove drops the tasks of every session of the workspace
\* while its sessions can still be found, and then the sessions.
RemoveTodos ==
    /\ \E s \in TodoSessions : life[s] = "live"
    /\ \A s \in TodoSessions : life[s] # "emptied"
    /\ life' = [s \in TodoSessions |-> IF life[s] = "live" THEN "emptied" ELSE life[s]]
    /\ lists' = [s \in TodoSessions |-> Rows(s)]
    /\ raced' = raced \cup {s \in TodoSessions : Writing(s)}
    /\ UNCHANGED <<nextRow, write>>

RemoveSessions ==
    /\ \E s \in TodoSessions : life[s] = "emptied"
    /\ life' = [s \in TodoSessions |-> IF life[s] = "emptied" THEN "deleted" ELSE life[s]]
    /\ UNCHANGED <<lists, nextRow, write, raced>>

-----------------------------------------------------------------------------
Next ==
    \/ \E s \in TodoSessions, items \in Payloads, merge \in BOOLEAN : BeginWrite(s, items, merge)
    \/ ReplaceSession
    \/ \E s, t \in TodoSessions : Fork(s, t)
    \/ \E s \in TodoSessions : SoftDelete(s) \/ DropTodos(s)
    \/ RemoveTodos \/ RemoveSessions

Spec == Init /\ [][Next]_todoVars

-----------------------------------------------------------------------------
Names == Keys \cup RowIds

TypeOK ==
    /\ life \in [TodoSessions -> {"none", "live", "ending", "emptied", "deleted"}]
    /\ \A s \in TodoSessions : \A n \in DOMAIN lists[s] :
          /\ lists[s][n].id \in RowIds /\ lists[s][n].key \in Names \cup {None}
          /\ lists[s][n].status \in Statuses
    /\ nextRow \in 1 .. MaxIds + 1
    /\ raced \subseteq TodoSessions

\* docs/30: at most one task is in progress after a write.
OneInProgress(rows) == \A m, n \in InProgress(rows) : m = n

\* docs/30: a client key is unique within a session; so is a row.
KeysUnique(rows) ==
    \A m, n \in DOMAIN rows :
        m # n => rows[m].id # rows[n].id /\ (rows[m].key = rows[n].key => rows[m].key = None)

\* completed_at is set exactly on closed tasks.
ClosedAreDone(rows) == \A n \in DOMAIN rows : rows[n].done <=> rows[n].status \notin Open

\* A run is told of no closed task while an open one is left out.
ContextOpenFirst(rows) ==
    (\E n \in DOMAIN Context(rows) : Context(rows)[n].status \notin Open)
      => OpenTasks(rows) \subseteq Range(Context(rows))

\* Whatever is written, by merges and replacements that name rows by key, by id
\* or twice, and copied: lists keep their shape.
WellFormedLists ==
    \A s \in TodoSessions :
        /\ OneInProgress(lists[s]) /\ KeysUnique(lists[s])
        /\ ClosedAreDone(lists[s]) /\ ContextOpenFirst(lists[s])

\* docs/30: a merge deletes no task, neither one it does not list nor one it
\* renames or lists twice.
MergeKeepsRows ==
    [][ReplaceSession /\ write.merge =>
         LET s == write.session
             Ids(rows) == {rows[n].id : n \in DOMAIN rows}
         IN  Ids(lists[s]) \subseteq Ids(lists'[s])]_todoVars

\* docs/30: tasks do not outlive their session, whichever way it is deleted,
\* unless a write or a fork overlaps the deletion.
NoOrphanTodos == \A s \in TodoSessions \ raced : life[s] = "deleted" => lists[s] = <<>>

\* docs/30-todo-feature-design.md:337: "if >1, keep the last payload-listed
\* in_progress".
LastListedWins ==
    [][ReplaceSession /\ write.focus # 0 /\ ~Rejected(write.final) =>
         lists'[write.session][write.focus].status = "in_progress"]_todoVars
=============================================================================
