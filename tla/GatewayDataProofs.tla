-------------------------- MODULE GatewayDataProofs --------------------------
(***************************************************************************)
(* What the Gateway keeps for its users, for every number of sessions,     *)
(* tasks, records, settings and requests.  Each store has an invariant of  *)
(* its own; a step of one store leaves the others alone.                   *)
(***************************************************************************)
EXTENDS MCGatewayData, Sequences, RowOrder, FiniteSetTheorems, SequenceTheorems,
        WellFoundedInduction, TLAPS

vars == <<part, s_vars, t_vars, m_vars, p_vars, c_vars, d_vars>>

\* A step of the Gateway is one of the store it is about.
LEMMA OneStoreMoves ==
    ASSUME [Next]_vars
    PROVE  /\ Providers!Next \/ UNCHANGED p_vars
           /\ Mcp!Next \/ UNCHANGED c_vars
           /\ Specialists!Next \/ UNCHANGED d_vars
           /\ Memories!Next \/ UNCHANGED m_vars
           /\ Todos!Next \/ UNCHANGED t_vars
           /\ Sessions!Next \/ UNCHANGED s_vars
  BY DEF Next, vars

\* The first state is one of every store.
LEMMA AllStoresStart ==
    ASSUME Init
    PROVE  /\ Providers!Init /\ Mcp!Init /\ Specialists!Init
           /\ Memories!Init /\ Todos!Init /\ Sessions!Init
  BY DEF Init

-----------------------------------------------------------------------------
(* Provider profiles                                                       *)

ProfileRows == [state : {"none", "live", "deleted"}, default : BOOLEAN, active : BOOLEAN]
Edits == [pc : {"based", "read"}, id : Profiles, default : BOOLEAN, active : BOOLEAN]

\* Rows of both tables, and the property itself.
ProviderInv ==
    /\ profiles \in [Profiles -> ProfileRows]
    /\ edits \in [Editors -> {Providers!NoEdit} \union Edits]
    /\ Providers!OneDefault

\* A transaction that gives a profile the flag takes it from the others.
LEMMA WrittenDoes ==
    ASSUME ProviderInv, NEW p \in Profiles, NEW row \in ProfileRows,
           profiles' = Providers!Written(p, row)
    PROVE  /\ profiles' \in [Profiles -> ProfileRows]
           /\ \A q, r \in Profiles : Providers!HasFlag(q)' /\ Providers!HasFlag(r)' => q = r
<1>t. profiles \in [Profiles -> ProfileRows]
  BY DEF ProviderInv, Providers!OneDefault
<1>1. ASSUME NEW q \in Profiles PROVE profiles'[q] \in ProfileRows
  <2>1. profiles[q] \in ProfileRows /\ [profiles[q] EXCEPT !.default = FALSE] \in ProfileRows
    BY <1>t DEF ProfileRows
  <2> QED
    BY <2>1 DEF Providers!Written
<1>2. profiles' \in [Profiles -> ProfileRows]
  BY <1>1 DEF Providers!Written
<1>3. profiles'[p] = row
  BY DEF Providers!Written
<1>4. ASSUME NEW q \in Profiles, q # p, Providers!HasFlag(q)' PROVE Providers!HasFlag(q) /\ ~row.default
  <2>1. profiles'[q] = IF row.default /\ Providers!Live(q) THEN [profiles[q] EXCEPT !.default = FALSE]
                       ELSE profiles[q]
    BY <1>4 DEF Providers!Written
  <2>2. profiles[q] \in ProfileRows
    BY <1>t
  <2>3. CASE row.default /\ Providers!Live(q)
    BY <1>4, <2>1, <2>2, <2>3 DEF Providers!HasFlag, ProfileRows
  <2>4. CASE ~(row.default /\ Providers!Live(q))
    <3>1. profiles'[q] = profiles[q]
      BY <2>1, <2>4
    <3> QED
      BY <1>4, <2>4, <3>1 DEF Providers!HasFlag, Providers!Live
  <2> QED
    BY <2>3, <2>4
<1>5. Providers!HasFlag(p)' => row.default
  BY <1>3 DEF Providers!HasFlag
<1> QED
  BY <1>2, <1>4, <1>5 DEF ProviderInv, Providers!OneDefault

\* The profiles keep their invariant.
LEMMA ProvidersKeep ==
    ASSUME ProviderInv, Providers!Next \/ UNCHANGED p_vars
    PROVE  ProviderInv'
<1>t. /\ profiles \in [Profiles -> ProfileRows] /\ edits \in [Editors -> {Providers!NoEdit} \union Edits]
      /\ \A p, q \in Profiles : Providers!HasFlag(p) /\ Providers!HasFlag(q) => p = q
  BY DEF ProviderInv, Providers!OneDefault
<1>1. ASSUME NEW p \in Profiles, Providers!Delete(p) PROVE ProviderInv'
  <2>1. profiles' = [profiles EXCEPT ![p] = Providers!Deleted] /\ edits' = edits
    BY <1>1 DEF Providers!Delete
  <2>2. profiles' \in [Profiles -> ProfileRows]
    BY <1>t, <2>1 DEF ProfileRows, Providers!Deleted
  <2>3. \A q \in Profiles : Providers!HasFlag(q)' => Providers!HasFlag(q)
    BY <1>t, <2>1 DEF Providers!HasFlag, Providers!Live, Providers!Deleted
  <2> QED
    BY <1>t, <2>1, <2>2, <2>3 DEF ProviderInv, Providers!OneDefault
<1>2. ASSUME NEW p \in Profiles, NEW default \in BOOLEAN, Providers!Create(p, default)
      PROVE  ProviderInv'
  <2>1. [state |-> "live", default |-> default, active |-> TRUE] \in ProfileRows
    BY DEF ProfileRows
  <2>2. edits' = edits
    BY <1>2 DEF Providers!Create
  <2> QED
    BY <1>2, <1>t, <2>1, <2>2, WrittenDoes DEF Providers!Create, ProviderInv, Providers!OneDefault
<1>3. ASSUME NEW e \in Editors, Providers!ReadRow(e) PROVE ProviderInv'
  <2>1. edits[e] \in Edits
    BY <1>3, <1>t DEF Providers!ReadRow, Providers!NoEdit
  <2>2. [edits[e] EXCEPT !.pc = "read"] \in Edits
    BY <2>1 DEF Edits
  <2>3. edits' \in [Editors -> {Providers!NoEdit} \union Edits] /\ profiles' = profiles
    BY <1>3, <1>t, <2>2 DEF Providers!ReadRow
  <2> QED
    BY <1>t, <2>3 DEF ProviderInv, Providers!OneDefault, Providers!HasFlag, Providers!Live
<1>4. ASSUME NEW e \in Editors, Providers!Commit(e) PROVE ProviderInv'
  <2>1. edits[e] \in Edits
    BY <1>4, <1>t DEF Providers!Commit, Providers!NoEdit
  <2>2. /\ edits[e].id \in Profiles
        /\ [state |-> "live", default |-> edits[e].default, active |-> edits[e].active] \in ProfileRows
    BY <2>1 DEF Edits, ProfileRows
  <2>3. edits' \in [Editors -> {Providers!NoEdit} \union Edits]
    BY <1>4, <1>t DEF Providers!Commit
  <2> QED
    BY <1>4, <2>2, <2>3, WrittenDoes DEF Providers!Commit, ProviderInv, Providers!OneDefault
<1>5. ASSUME NEW e \in Editors, NEW p \in Profiles, NEW flags \in Providers!Flags,
             Providers!BeginUpdate(e, p, flags)
      PROVE  ProviderInv'
  <2>1. PICK names \in SUBSET {"default", "active"} : flags \in [names -> BOOLEAN]
    BY DEF Providers!Flags
  <2>2. profiles[p] \in ProfileRows
    BY <1>t
  <2> DEFINE edit == [pc |-> "based", id |-> p,
           default |-> IF "default" \in DOMAIN flags THEN flags["default"] ELSE profiles[p].default,
           active |-> IF "active" \in DOMAIN flags THEN flags["active"] ELSE profiles[p].active]
  <2>3. edit \in Edits
    BY <2>1, <2>2 DEF Edits, ProfileRows
  <2>4. edits' = [edits EXCEPT ![e] = edit] /\ profiles' = profiles
    BY <1>5 DEF Providers!BeginUpdate
  <2> HIDE DEF edit
  <2>5. edits' \in [Editors -> {Providers!NoEdit} \union Edits]
    BY <1>t, <2>3, <2>4
  <2> QED
    BY <1>t, <2>4, <2>5 DEF ProviderInv, Providers!OneDefault, Providers!HasFlag, Providers!Live
<1>6. CASE UNCHANGED p_vars
  BY <1>t, <1>6 DEF p_vars, ProviderInv, Providers!OneDefault, Providers!HasFlag, Providers!Live
<1> QED
  BY <1>1, <1>2, <1>3, <1>4, <1>5, <1>6 DEF Providers!Next

\* A behaviour starts without profiles.
LEMMA ProvidersStart ==
    ASSUME Providers!Init
    PROVE  ProviderInv
  BY DEF Providers!Init, ProviderInv, Providers!OneDefault, Providers!Absent, ProfileRows, Providers!HasFlag, Providers!Live

-----------------------------------------------------------------------------
(* MCP servers                                                             *)

\* The index decides, whatever was looked up.
ServerInv == servers = [s \in Servers |-> servers[s]] /\ Mcp!ServerNamesUnique

\* The servers keep their names apart.
LEMMA ServersKeep ==
    ASSUME ServerInv, Mcp!Next \/ UNCHANGED c_vars
    PROVE  ServerInv'
<1>t. servers = [s \in Servers |-> servers[s]] /\ Mcp!ServerNamesUnique
  BY DEF ServerInv
<1>1. ASSUME NEW s, NEW row, Mcp!Put(s, row) PROVE ServerInv'
  <2>1. CASE s \notin Servers \/ ~Mcp!Unique(s, row.name)
    <3>1. servers' = servers
      BY <1>1, <1>t, <2>1 DEF Mcp!Put
    <3> QED
      BY <1>t, <3>1 DEF ServerInv, Mcp!ServerNamesUnique, Mcp!Live
  <2>2. CASE s \in Servers /\ Mcp!Unique(s, row.name)
    <3>1. servers' = [servers EXCEPT ![s] = row]
      BY <1>1, <2>2 DEF Mcp!Put
    <3>2. servers'[s] = row /\ \A t \in Servers : t # s => servers'[t] = servers[t]
      BY <1>t, <2>2, <3>1
    <3>3. \A t \in Servers : t # s => ~(Mcp!Live(t) /\ servers[t].name = row.name)
      BY <2>2 DEF Mcp!Unique, Mcp!NameExists
    <3>4. servers' = [t \in Servers |-> servers'[t]]
      BY <1>t, <3>1
    <3>5. Mcp!ServerNamesUnique'
      BY <1>t, <3>2, <3>3 DEF Mcp!ServerNamesUnique, Mcp!Live
    <3> QED
      BY <3>4, <3>5 DEF ServerInv
  <2> QED
    BY <2>1, <2>2
<1>2. ASSUME NEW s \in Servers, Mcp!Delete(s) PROVE ServerInv'
  <2>1. servers' = [servers EXCEPT ![s].state = "deleted", ![s].enabled = FALSE]
    BY <1>2 DEF Mcp!Delete
  <2>2. \A t \in Servers : t # s => servers'[t] = servers[t]
    BY <1>t, <2>1
  <2>3. servers'[s] = [[servers[s] EXCEPT !.state = "deleted"] EXCEPT !.enabled = FALSE]
    BY <1>t, <2>1
  <2>4. ~Mcp!Live(s)'
    BY <2>3 DEF Mcp!Live
  <2>5. servers' = [t \in Servers |-> servers'[t]]
    BY <1>t, <2>1
  <2> QED
    BY <1>t, <2>2, <2>4, <2>5 DEF ServerInv, Mcp!ServerNamesUnique, Mcp!Live
<1>3. CASE UNCHANGED servers
  BY <1>t, <1>3 DEF ServerInv, Mcp!ServerNamesUnique, Mcp!Live
<1>4. CASE Mcp!Next
  BY <1>1, <1>2, <1>3, <1>4
     DEF Mcp!Next, Mcp!ReadRow, Mcp!WriteRow, Mcp!BeginCreate, Mcp!BeginUpdate
<1> QED
  BY <1>3, <1>4 DEF c_vars

\* A behaviour starts without servers.
LEMMA ServersStart ==
    ASSUME Mcp!Init
    PROVE  ServerInv
  BY DEF Mcp!Init, ServerInv, Mcp!ServerNamesUnique, Mcp!Live, Mcp!Absent

-----------------------------------------------------------------------------
(* Agent definitions                                                       *)

Rows == [state : {"none", "live", "deleted"}, key : DefinitionKeys \union {SeedKey},
         enabled : BOOLEAN, prompt : {"seed", "own"}, turns : {"seed", "own"}]
Updates == [pc : {"based", "read"}, id : Definitions, row : Rows]
Seedings == [pc : {"read"}, row : Rows]
Edited(d) == editing # Specialists!Idle /\ editing.id = d
Same(row) == row.enabled = wanted.enabled /\ row.prompt = wanted.prompt

DefinitionTypes ==
    /\ definitions \in [Definitions -> Rows] /\ wanted \in Rows /\ crossed \in BOOLEAN
    /\ editing \in {Specialists!Idle} \union Updates
    /\ seeding \in {Specialists!Idle} \union Seedings
\* Only the builtin definition has its key, also in the rows under way.
KeyIsReserved ==
    /\ definitions[Builtin].key = SeedKey
    /\ \A d \in Definitions : Specialists!Live(d) /\ definitions[d].key = SeedKey => d = Builtin
    /\ editing # Specialists!Idle =>
          /\ editing.row.state = "live"
          /\ editing.row.key = SeedKey <=> editing.id = Builtin
    /\ seeding # Specialists!Idle => seeding.row.state = "live" /\ seeding.row.key = SeedKey
\* What the user saved is in the row and in the row a re-seed is about to write.
SavedIsKept ==
    /\ ~Specialists!Live(Builtin) => wanted = Specialists!Seed /\ ~Edited(Builtin)
    /\ ~crossed =>
          /\ Specialists!Live(Builtin) => Same(definitions[Builtin])
          /\ seeding # Specialists!Idle => Same(seeding.row) /\ ~Edited(Builtin)
DefinitionInv == DefinitionTypes /\ KeyIsReserved /\ SavedIsKept
AgentInv == DefinitionInv /\ Specialists!AgentKeysUnique

\* A seed is a row, and a re-seed keeps the toggle and the prompt.
LEMMA SeedsAreRows ==
    /\ Specialists!Seed \in Rows /\ Specialists!Seed.state = "live"
    /\ Specialists!Seed.key = SeedKey
    /\ \A row \in Rows :
          /\ Specialists!Reseeded(row) \in Rows
          /\ Specialists!Reseeded(row).enabled = row.enabled
          /\ Specialists!Reseeded(row).prompt = row.prompt
          /\ row.state = "live" /\ row.key = SeedKey =>
                Specialists!Reseeded(row).state = "live" /\ Specialists!Reseeded(row).key = SeedKey
<1>1. /\ Specialists!Seed \in Rows /\ Specialists!Seed.state = "live"
      /\ Specialists!Seed.key = SeedKey /\ Specialists!Seed.prompt = "seed"
  BY DEF Specialists!Seed, Rows
<1>2. ASSUME NEW row \in Rows
      PROVE  /\ Specialists!Reseeded(row) \in Rows
             /\ Specialists!Reseeded(row).enabled = row.enabled
             /\ Specialists!Reseeded(row).prompt = row.prompt
             /\ row.state = "live" /\ row.key = SeedKey =>
                   Specialists!Reseeded(row).state = "live" /\ Specialists!Reseeded(row).key = SeedKey
  <2>1. CASE row.prompt # "seed"
    <3>1. Specialists!Reseeded(row) = row
      BY <2>1 DEF Specialists!Reseeded
    <3> QED
      BY <3>1
  <2>2. CASE row.prompt = "seed"
    <3>1. Specialists!Reseeded(row) = [Specialists!Seed EXCEPT !.enabled = row.enabled]
      BY <2>2 DEF Specialists!Reseeded
    <3> QED
      BY <2>2, <3>1 DEF Specialists!Seed, Rows
  <2> QED
    BY <2>1, <2>2
<1> QED
  BY <1>1, <1>2

\* A key of the builtin definition is free for it alone.
LEMMA BuiltinKeyIsFree ==
    ASSUME DefinitionInv
    PROVE  Specialists!Unique(Builtin, SeedKey)
  BY DefinitionAssumption DEF DefinitionInv, KeyIsReserved, Specialists!Unique

\* The definitions keep their invariant.
LEMMA DefinitionsKeep ==
    ASSUME DefinitionInv, Specialists!Next \/ UNCHANGED d_vars
    PROVE  DefinitionInv'
<1> USE DEF Specialists!Idle
<1>b. Builtin \in Definitions
  BY DefinitionAssumption DEF Specialists!DefinitionAssumption
<1>t. DefinitionTypes /\ KeyIsReserved /\ SavedIsKept
  BY DEF DefinitionInv
<1>1. CASE Specialists!BeginSeed
  <2>1. /\ definitions' = definitions /\ editing' = editing /\ wanted' = wanted
        /\ seeding = Specialists!Idle
    BY <1>1 DEF Specialists!BeginSeed
  <2> DEFINE row == IF Specialists!Live(Builtin) THEN Specialists!Reseeded(definitions[Builtin])
                    ELSE Specialists!Seed
  <2>2. seeding' = [pc |-> "read", row |-> row]
    BY <1>1 DEF Specialists!BeginSeed
  <2>3. row \in Rows /\ row.state = "live" /\ row.key = SeedKey
    BY <1>b, <1>t, SeedsAreRows DEF DefinitionTypes, KeyIsReserved, Specialists!Live
  <2>4. crossed' = (crossed \/ Edited(Builtin))
    BY <1>1 DEF Specialists!BeginSeed, Edited
  <2>5. ~crossed => Same(row)
    BY <1>b, <1>t, SeedsAreRows DEF DefinitionTypes, SavedIsKept, Same
  <2> HIDE DEF row
  <2>6. DefinitionTypes'
    BY <1>t, <2>1, <2>2, <2>3, <2>4 DEF DefinitionTypes, Seedings, Edited
  <2>7. KeyIsReserved'
    BY <1>t, <2>1, <2>2, <2>3 DEF KeyIsReserved, Specialists!Live
  <2>8. SavedIsKept'
    BY <1>t, <2>1, <2>2, <2>4, <2>5 DEF SavedIsKept, Same, Edited, Specialists!Live, Specialists!Seed,
       DefinitionTypes
  <2> QED
    BY <2>6, <2>7, <2>8 DEF DefinitionInv
<1>2. CASE Specialists!WriteSeed
  <2>1. /\ definitions' = [definitions EXCEPT ![Builtin] = seeding.row]
        /\ seeding' = Specialists!Idle /\ editing' = editing /\ wanted' = wanted /\ crossed' = crossed
        /\ seeding # Specialists!Idle
    BY <1>2 DEF Specialists!WriteSeed
  <2>2. seeding.row \in Rows /\ seeding.row.state = "live" /\ seeding.row.key = SeedKey
    BY <1>t, <2>1 DEF DefinitionTypes, Seedings, KeyIsReserved
  <2>3. /\ definitions'[Builtin] = seeding.row
        /\ \A d \in Definitions : d # Builtin => definitions'[d] = definitions[d]
        /\ definitions' \in [Definitions -> Rows]
    BY <1>b, <1>t, <2>1, <2>2 DEF DefinitionTypes
  <2>4. DefinitionTypes'
    BY <1>t, <2>1, <2>3 DEF DefinitionTypes
  <2>5. KeyIsReserved'
    BY <1>t, <2>1, <2>2, <2>3 DEF KeyIsReserved, Specialists!Live
  <2>6. SavedIsKept'
    BY <1>t, <2>1, <2>2, <2>3 DEF SavedIsKept, Same, Edited, Specialists!Live, Specialists!Seed
  <2> QED
    BY <2>4, <2>5, <2>6 DEF DefinitionInv
<1>3. CASE Specialists!ReadRow
  <2>1. /\ definitions' = definitions /\ seeding' = seeding /\ wanted' = wanted /\ crossed' = crossed
        /\ editing # Specialists!Idle
        /\ editing' = [editing EXCEPT !.pc = "read"] \/ editing' = Specialists!Idle
    BY <1>3 DEF Specialists!ReadRow
  <2>2. editing \in Updates
    BY <1>t, <2>1 DEF DefinitionTypes
  <2>3. \/ editing' = Specialists!Idle
        \/ editing' \in Updates /\ editing'.id = editing.id /\ editing'.row = editing.row
    BY <2>1, <2>2 DEF Updates
  <2>4. DefinitionTypes'
    BY <1>t, <2>1, <2>3 DEF DefinitionTypes
  <2>5. KeyIsReserved'
    BY <1>t, <2>1, <2>3 DEF KeyIsReserved, Specialists!Live
  <2>6. SavedIsKept'
    BY <1>t, <2>1, <2>3 DEF SavedIsKept, Same, Edited, Specialists!Live, Specialists!Seed
  <2> QED
    BY <2>4, <2>5, <2>6 DEF DefinitionInv
<1>4. CASE Specialists!WriteRow
  <2>1. /\ seeding' = seeding /\ crossed' = crossed /\ editing' = Specialists!Idle
        /\ editing # Specialists!Idle
        /\ wanted' = IF editing.id = Builtin THEN editing.row ELSE wanted
        /\ definitions' = IF Specialists!Unique(editing.id, editing.row.key)
                          THEN [definitions EXCEPT ![editing.id] = editing.row] ELSE definitions
    BY <1>4 DEF Specialists!WriteRow
  <2>2. editing.id \in Definitions /\ editing.row \in Rows
    BY <1>t, <2>1 DEF DefinitionTypes, Updates
  <2>3. /\ editing.row.state = "live"
        /\ editing.row.key = SeedKey <=> editing.id = Builtin
    BY <1>t, <2>1 DEF KeyIsReserved
  <2>4. DefinitionTypes'
    BY <1>t, <2>1, <2>2 DEF DefinitionTypes
  <2>5. editing.id = Builtin => definitions'[Builtin] = editing.row
    BY <1>b, <1>t, <2>1, <2>3, BuiltinKeyIsFree DEF DefinitionTypes, DefinitionInv
  <2>6. \A d \in Definitions : d # editing.id => definitions'[d] = definitions[d]
    BY <1>t, <2>1, <2>2 DEF DefinitionTypes
  <2>7. definitions'[editing.id] \in {definitions[editing.id], editing.row}
    BY <1>t, <2>1, <2>2 DEF DefinitionTypes
  <2>8. KeyIsReserved'
    BY <1>b, <1>t, <2>1, <2>2, <2>3, <2>5, <2>6, <2>7 DEF KeyIsReserved, Specialists!Live
  <2>9. SavedIsKept'
    <3>1. CASE editing.id = Builtin
      BY <1>t, <2>1, <2>3, <2>5, <3>1 DEF SavedIsKept, Same, Edited, Specialists!Live
    <3>2. CASE editing.id # Builtin
      BY <1>b, <1>t, <2>1, <2>6, <3>2 DEF SavedIsKept, Same, Edited, Specialists!Live, Specialists!Seed
    <3> QED
      BY <3>1, <3>2
  <2> QED
    BY <2>4, <2>8, <2>9 DEF DefinitionInv
<1>5. ASSUME NEW d \in Definitions, NEW key \in DefinitionKeys \cup {SeedKey}, NEW enabled \in BOOLEAN,
             Specialists!Create(d, key, enabled)
      PROVE  DefinitionInv'
  <2>1. /\ seeding' = seeding /\ editing' = editing /\ wanted' = wanted /\ crossed' = crossed
        /\ d # Builtin /\ key # SeedKey
    BY <1>5 DEF Specialists!Create, Specialists!Reserved
  <2> DEFINE row == [[Specialists!Seed EXCEPT !.key = key] EXCEPT !.enabled = enabled]
  <2>2. definitions' = [definitions EXCEPT ![d] = row]
    BY <1>5 DEF Specialists!Create
  <2>3. row \in Rows /\ row.key = key
    BY DEF Specialists!Seed, Rows
  <2> HIDE DEF row
  <2>4. /\ definitions' \in [Definitions -> Rows] /\ definitions'[d] = row
        /\ \A e \in Definitions : e # d => definitions'[e] = definitions[e]
    BY <1>t, <2>2, <2>3 DEF DefinitionTypes
  <2>5. DefinitionTypes'
    BY <1>t, <2>1, <2>4 DEF DefinitionTypes
  <2>6. KeyIsReserved'
    BY <1>b, <1>t, <2>1, <2>3, <2>4 DEF KeyIsReserved, Specialists!Live
  <2>7. SavedIsKept'
    BY <1>b, <1>t, <2>1, <2>4 DEF SavedIsKept, Same, Edited, Specialists!Live, Specialists!Seed
  <2> QED
    BY <2>5, <2>6, <2>7 DEF DefinitionInv
<1>6. ASSUME NEW d \in Definitions, NEW change \in {"toggle", "prompt", "turns"},
             Specialists!BeginUpdate(d, change)
      PROVE  DefinitionInv'
  <2>1. /\ definitions' = definitions /\ seeding' = seeding /\ wanted' = wanted
        /\ crossed' = (crossed \/ (d = Builtin /\ seeding # Specialists!Idle))
        /\ Specialists!Live(d)
        /\ editing' = [pc |-> "based", id |-> d, row |-> Specialists!Changed(definitions[d], change)]
    BY <1>6 DEF Specialists!BeginUpdate
  <2> DEFINE row == Specialists!Changed(definitions[d], change)
  <2>2. definitions[d] \in Rows
    BY <1>t DEF DefinitionTypes
  <2>3. row \in Rows /\ row.key = definitions[d].key /\ row.state = definitions[d].state
    BY <2>2 DEF Specialists!Changed, Rows
  <2>r. editing' = [pc |-> "based", id |-> d, row |-> row]
    BY <2>1
  <2> HIDE DEF row
  <2>4. DefinitionTypes'
    BY <1>t, <2>1, <2>3, <2>r DEF DefinitionTypes, Updates
  <2>5. KeyIsReserved'
    BY <1>t, <2>1, <2>3, <2>r DEF KeyIsReserved, Specialists!Live
  <2>6. SavedIsKept'
    <3>1. Edited(Builtin)' => d = Builtin
      BY <2>r DEF Edited
    <3>2. ~crossed' => ~crossed /\ (d # Builtin \/ seeding = Specialists!Idle)
      BY <2>1
    <3>3. /\ Specialists!Live(Builtin)' <=> Specialists!Live(Builtin)
          /\ definitions'[Builtin] = definitions[Builtin]
          /\ \A r : Same(r)' <=> Same(r)
      BY <2>1 DEF Same, Specialists!Live
    <3> QED
      BY <1>t, <2>1, <3>1, <3>2, <3>3 DEF SavedIsKept, Same, Specialists!Live, Specialists!Seed
  <2> QED
    BY <2>4, <2>5, <2>6 DEF DefinitionInv
<1>7. ASSUME NEW d \in Definitions, Specialists!Delete(d) PROVE DefinitionInv'
  <2>1. /\ seeding' = seeding /\ editing' = editing /\ wanted' = wanted /\ crossed' = crossed
        /\ d # Builtin
        /\ definitions' = [definitions EXCEPT ![d].state = "deleted"]
    BY <1>7 DEF Specialists!Delete
  <2>2. definitions[d] \in Rows
    BY <1>t DEF DefinitionTypes
  <2>3. /\ definitions'[d] = [definitions[d] EXCEPT !.state = "deleted"]
        /\ \A e \in Definitions : e # d => definitions'[e] = definitions[e]
    BY <1>t, <2>1 DEF DefinitionTypes
  <2>4. definitions'[d] \in Rows /\ definitions'[d].state = "deleted"
    BY <2>2, <2>3 DEF Rows
  <2>5. definitions' \in [Definitions -> Rows]
    BY <1>t, <2>1, <2>3, <2>4 DEF DefinitionTypes
  <2>6. DefinitionTypes'
    BY <1>t, <2>1, <2>5 DEF DefinitionTypes
  <2>7. KeyIsReserved'
    BY <1>b, <1>t, <2>1, <2>3, <2>4 DEF KeyIsReserved, Specialists!Live
  <2>8. SavedIsKept'
    BY <1>b, <1>t, <2>1, <2>3 DEF SavedIsKept, Same, Edited, Specialists!Live, Specialists!Seed
  <2> QED
    BY <2>6, <2>7, <2>8 DEF DefinitionInv
<1>8. CASE UNCHANGED d_vars
  <2>1. DefinitionTypes'
    BY <1>t, <1>8 DEF d_vars, DefinitionTypes
  <2>2. KeyIsReserved'
    BY <1>t, <1>8 DEF d_vars, KeyIsReserved, Specialists!Live
  <2>3. SavedIsKept'
    BY <1>t, <1>8 DEF d_vars, SavedIsKept, Same, Edited, Specialists!Live, Specialists!Seed
  <2> QED
    BY <2>1, <2>2, <2>3 DEF DefinitionInv
<1> QED
  BY <1>1, <1>2, <1>3, <1>4, <1>5, <1>6, <1>7, <1>8 DEF Specialists!Next

\* Writing one row leaves the keys unique if no other definition has its key.
LEMMA OneRowWritten ==
    ASSUME Specialists!AgentKeysUnique, NEW d \in Definitions,
           \A e \in Definitions : e # d => definitions'[e] = definitions[e],
           \A e \in Definitions \ {d} :
              Specialists!Live(e) => definitions[e].key # definitions'[d].key
    PROVE  Specialists!AgentKeysUnique'
  BY DEF Specialists!AgentKeysUnique, Specialists!Live

\* The unique index and the reserved keys keep the keys apart.
LEMMA KeysStayUnique ==
    ASSUME DefinitionInv, DefinitionInv', Specialists!AgentKeysUnique,
           Specialists!Next \/ UNCHANGED d_vars
    PROVE  Specialists!AgentKeysUnique'
<1>t. /\ Builtin \in Definitions
      /\ definitions \in [Definitions -> Rows] /\ definitions' \in [Definitions -> Rows]
  BY DefinitionAssumption DEF Specialists!DefinitionAssumption, DefinitionInv, DefinitionTypes
<1>1. CASE definitions' = definitions
  BY <1>1 DEF Specialists!AgentKeysUnique, Specialists!Live
<1>2. CASE Specialists!WriteSeed
  <2>1. definitions' = [definitions EXCEPT ![Builtin] = seeding.row]
    BY <1>2 DEF Specialists!WriteSeed
  <2>2. \A e \in Definitions : e # Builtin => definitions'[e] = definitions[e]
    BY <1>t, <2>1
  <2>3. /\ definitions'[Builtin].key = SeedKey
        /\ \A e \in Definitions : Specialists!Live(e) /\ definitions[e].key = SeedKey => e = Builtin
    BY DEF DefinitionInv, KeyIsReserved
  <2> QED
    BY <1>t, <2>2, <2>3, OneRowWritten
<1>3. CASE Specialists!WriteRow /\ definitions' # definitions
  <2> DEFINE d == editing.id
             row == editing.row
  <2>1. /\ definitions' = [definitions EXCEPT ![d] = row]
        /\ Specialists!Unique(d, row.key)
    BY <1>3 DEF Specialists!WriteRow
  <2>2. d \in Definitions
    BY <1>t, <1>3, <2>1 DEF Specialists!WriteRow, Specialists!Idle, DefinitionInv, DefinitionTypes, Updates
  <2> HIDE DEF d, row
  <2>3. definitions'[d] = row /\ \A e \in Definitions : e # d => definitions'[e] = definitions[e]
    BY <1>t, <2>1, <2>2
  <2> QED
    BY <2>1, <2>2, <2>3, OneRowWritten DEF Specialists!Unique
<1>4. ASSUME NEW d \in Definitions, NEW key \in DefinitionKeys \cup {SeedKey}, NEW enabled \in BOOLEAN,
             Specialists!Create(d, key, enabled)
      PROVE  Specialists!AgentKeysUnique'
  <2> DEFINE row == [[Specialists!Seed EXCEPT !.key = key] EXCEPT !.enabled = enabled]
  <2>1. definitions' = [definitions EXCEPT ![d] = row] /\ Specialists!Unique(d, key)
    BY <1>4 DEF Specialists!Create
  <2>2. row.key = key
    BY DEF Specialists!Seed
  <2> HIDE DEF row
  <2>3. definitions'[d] = row /\ \A e \in Definitions : e # d => definitions'[e] = definitions[e]
    BY <1>t, <2>1
  <2> QED
    BY <2>1, <2>2, <2>3, OneRowWritten DEF Specialists!Unique
<1>5. ASSUME NEW d \in Definitions, Specialists!Delete(d) PROVE Specialists!AgentKeysUnique'
  <2>1. definitions' = [definitions EXCEPT ![d].state = "deleted"]
    BY <1>5 DEF Specialists!Delete
  <2>2. definitions[d] \in Rows
    BY <1>t
  <2>3. /\ definitions'[d].key = definitions[d].key /\ definitions'[d].state = "deleted"
        /\ \A e \in Definitions : e # d => definitions'[e] = definitions[e]
    BY <1>t, <2>1, <2>2 DEF Rows
  <2> QED
    BY <2>3 DEF Specialists!AgentKeysUnique, Specialists!Live
<1>6. CASE UNCHANGED d_vars
  BY <1>1, <1>6 DEF d_vars
<1>7. CASE Specialists!Next
  BY <1>1, <1>2, <1>3, <1>4, <1>5, <1>7
     DEF Specialists!Next, Specialists!BeginSeed, Specialists!ReadRow, Specialists!BeginUpdate
<1> QED
  BY <1>6, <1>7

\* A behaviour starts without definitions.
LEMMA DefinitionsStart ==
    ASSUME Specialists!Init
    PROVE  AgentInv
<1>1. Builtin \in Definitions
  BY DefinitionAssumption DEF Specialists!DefinitionAssumption
<1>2. Specialists!Absent \in Rows /\ Specialists!Absent.state = "none"
      /\ Specialists!Absent.key = SeedKey
  BY DEF Specialists!Absent, Specialists!Seed, Rows
<1> QED
  BY <1>1, <1>2, SeedsAreRows DEF Specialists!Init, AgentInv, DefinitionInv, DefinitionTypes, KeyIsReserved,
     SavedIsKept, Edited, Specialists!Live, Specialists!AgentKeysUnique

-----------------------------------------------------------------------------
(* The settings of the user                                                *)

SettingsInv == ProviderInv /\ ServerInv /\ AgentInv

\* At most one default profile, and server names and agent keys that differ, whatever
\* requests and re-seeds overlap; and the toggle and the prompt that the user saved
\* for a builtin specialist, as long as no re-seed overlaps with the update.
THEOREM SettingsAreSound == Spec => []SettingsSound
<1>1. Init => SettingsInv
  BY AllStoresStart, ProvidersStart, ServersStart, DefinitionsStart DEF SettingsInv
<1>2. SettingsInv /\ [Next]_vars => SettingsInv'
  BY OneStoreMoves, ProvidersKeep, ServersKeep, DefinitionsKeep, KeysStayUnique DEF SettingsInv, AgentInv
<1>3. SettingsInv => SettingsSound
  BY DEF SettingsInv, AgentInv, SettingsSound, ProviderInv, ServerInv, DefinitionInv,
     SavedIsKept, Same, Specialists!BuiltinSettingsKept
<1> QED
  BY <1>1, <1>2, <1>3, PTL DEF Spec, vars

-----------------------------------------------------------------------------
(* Numbers, and rows in an order                                           *)

\* A set of numbers has a least one.
LEMMA Least ==
    ASSUME NEW T, T \subseteq Nat, T # {}
    PROVE  \E n \in T : \A k \in T : n <= k
<1> DEFINE R == {p \in Nat \X Nat : p[1] < p[2]}
<1>1. OpToRel(<, Nat) = R
  BY DEF OpToRel
<1>2. IsWellFoundedOn(R, Nat)
  BY <1>1, NatLessThanWellFounded
<1> HIDE DEF R
<1>3. PICK n \in T : \A k \in T : ~(<<k, n>> \in R)
  BY <1>2, WFMin
<1>4. \A k \in T : ~(k < n)
  BY <1>3 DEF R
<1> QED
  BY <1>4

\* Sets that grow one inside the other, each for one element of K and with it: their
\* sizes are the numbers from 1 to the size of K, each for one element.
LEMMA Ranks ==
    ASSUME NEW K, IsFiniteSet(K), NEW D \in [K -> SUBSET K],
           \A n \in K : n \in D[n],
           \A m, n \in K : D[m] \subseteq D[n] \/ D[n] \subseteq D[m],
           \A m, n \in K : D[m] = D[n] => m = n
    PROVE  /\ Cardinality(K) \in Nat
           /\ \A n \in K : Cardinality(D[n]) \in 1 .. Cardinality(K)
           /\ \A m, n \in K : Cardinality(D[m]) = Cardinality(D[n]) => m = n
           /\ \A m, n \in K : Cardinality(D[m]) <= Cardinality(D[n]) => D[m] \subseteq D[n]
           /\ \A i \in 1 .. Cardinality(K) : \E n \in K : Cardinality(D[n]) = i
<1> DEFINE N == Cardinality(K)
           f == [n \in K |-> Cardinality(D[n])]
<1>1. N \in Nat
  BY FS_CardinalityType
<1>2. ASSUME NEW n \in K PROVE IsFiniteSet(D[n]) /\ Cardinality(D[n]) \in 1 .. N
  <2>1. IsFiniteSet(D[n]) /\ Cardinality(D[n]) <= N
    BY FS_Subset
  <2>2. Cardinality(D[n]) \in Nat /\ Cardinality(D[n]) # 0
    BY <2>1, FS_CardinalityType, FS_EmptySet
  <2> QED
    BY <1>1, <2>1, <2>2
<1>3. ASSUME NEW m \in K, NEW n \in K, Cardinality(D[m]) <= Cardinality(D[n])
      PROVE  D[m] \subseteq D[n]
  <2>1. CASE D[n] \subseteq D[m]
    <3>1. Cardinality(D[n]) <= Cardinality(D[m]) /\ (Cardinality(D[m]) = Cardinality(D[n]) => D[m] = D[n])
      BY <1>2, <2>1, FS_Subset
    <3>2. Cardinality(D[m]) \in Nat /\ Cardinality(D[n]) \in Nat
      BY <1>2
    <3> QED
      BY <1>3, <3>1, <3>2
  <2> QED
    BY <2>1
<1>4. ASSUME NEW m \in K, NEW n \in K, Cardinality(D[m]) = Cardinality(D[n]) PROVE m = n
  <2>1. Cardinality(D[m]) \in Nat /\ Cardinality(D[n]) \in Nat
    BY <1>2
  <2>2. D[m] \subseteq D[n] /\ D[n] \subseteq D[m]
    BY <1>3, <1>4, <2>1
  <2>3. D[m] = D[n] /\ (D[m] = D[n] => m = n)
    BY <2>2
  <2> QED
    BY <2>3
<1>5. f \in Injection(K, 1 .. N)
  <2>1. f \in [K -> 1 .. N]
    BY <1>2
  <2>2. \A m, n \in K : f[m] = f[n] => m = n
    BY <1>4
  <2> QED
    BY <2>1, <2>2 DEF Injection, IsInjective
<1>6. IsFiniteSet(1 .. N) /\ Cardinality(1 .. N) = N
  BY <1>1, FS_Interval
<1>7. f \in Surjection(K, 1 .. N)
  BY <1>5, <1>6, FS_Injection
<1>8. ASSUME NEW i \in 1 .. N PROVE \E n \in K : Cardinality(D[n]) = i
  BY <1>7 DEF Surjection
<1> QED
  BY <1>1, <1>2, <1>3, <1>4, <1>8

\* The numbers of a finite set have ranks, from 1 to its size.
LEMMA BeforeRanks ==
    ASSUME NEW K \in SUBSET Nat, IsFiniteSet(K)
    PROVE  /\ Cardinality(K) \in Nat
           /\ \A n \in K : Cardinality(Before(K, n)) \in 1 .. Cardinality(K)
           /\ \A m, n \in K : Cardinality(Before(K, m)) = Cardinality(Before(K, n)) => m = n
           /\ \A i \in 1 .. Cardinality(K) : \E n \in K : Cardinality(Before(K, n)) = i
<1> DEFINE D == [n \in K |-> Before(K, n)]
<1>0. K \subseteq Nat
  OBVIOUS
<1>2. D \in [K -> SUBSET K] /\ \A n \in K : n \in D[n]
  BY <1>0 DEF Before
<1>3. ASSUME NEW m \in K, NEW n \in K
      PROVE  (D[m] \subseteq D[n] \/ D[n] \subseteq D[m]) /\ (D[m] = D[n] => m = n)
  <2>0. \A x, y, z \in K : x <= y /\ y <= z => x <= z
    BY <1>0
  <2>1. m <= n => D[m] \subseteq D[n]
    BY <2>0 DEF Before
  <2>2. n <= m => D[n] \subseteq D[m]
    BY <2>0 DEF Before
  <2>3. D[m] = D[n] => m <= n /\ n <= m
    BY <1>2 DEF Before
  <2>4. m \in Nat /\ n \in Nat
    BY <1>0
  <2> QED
    BY <2>1, <2>2, <2>3, <2>4
<1>4. \A n \in K : D[n] = Before(K, n)
  OBVIOUS
<1>a. \A m, n \in K : D[m] \subseteq D[n] \/ D[n] \subseteq D[m]
  BY <1>3
<1>b. \A m, n \in K : D[m] = D[n] => m = n
  BY <1>3
<1> HIDE DEF D
<1>5. /\ Cardinality(K) \in Nat
      /\ \A n \in K : Cardinality(D[n]) \in 1 .. Cardinality(K)
      /\ \A m, n \in K : Cardinality(D[m]) = Cardinality(D[n]) => m = n
      /\ \A i \in 1 .. Cardinality(K) : \E n \in K : Cardinality(D[n]) = i
  BY <1>2, <1>a, <1>b, Ranks
<1> QED
  BY <1>4, <1>5

\* A finite set of numbers with elements has a last one.
LEMMA LastExists ==
    ASSUME NEW K \in SUBSET Nat, IsFiniteSet(K), K # {}
    PROVE  \E n \in K : \A m \in K : m <= n
<1>1. Cardinality(K) \in Nat /\ Cardinality(K) # 0
  BY FS_EmptySet, FS_CardinalityType
<1>2. PICK n \in K : Cardinality(Before(K, n)) = Cardinality(K)
  BY <1>1, BeforeRanks
<1>3. Before(K, n) \subseteq K
  BY DEF Before
<1>4. Before(K, n) = K
  BY <1>2, <1>3, FS_Subset
<1> QED
  BY <1>4 DEF Before

\* The numbers up to n are n numbers.
LEMMA IntervalSize ==
    ASSUME NEW n \in Nat
    PROVE  IsFiniteSet(1 .. n) /\ Cardinality(1 .. n) = n
<1>1. 1 \in Int /\ n \in Int /\ (1 > n => n = 0) /\ n - 1 + 1 = n
  OBVIOUS
<1> QED
  BY <1>1, FS_Interval

\* A part of a sequence, the empty one included.
LEMMA SubSeqIs ==
    ASSUME NEW S, NEW s \in Seq(S), NEW n \in 0 .. Len(s)
    PROVE  /\ SubSeq(s, 1, n) \in Seq(S) /\ Len(SubSeq(s, 1, n)) = n
           /\ \A i \in 1 .. n : SubSeq(s, 1, n)[i] = s[i]
<1>1. \A i \in 1 .. n : s[i] \in S
  OBVIOUS
<1>2. CASE n >= 1
  BY <1>1, <1>2, SubSeqProperties
<1>3. CASE n = 0
  <2>1. SubSeq(s, 1, n) = <<>>
    BY <1>3
  <2> QED
    BY <1>3, <2>1
<1> QED
  BY <1>2, <1>3

\* A list with one more row.
LEMMA AppendIs ==
    ASSUME NEW S, NEW rows \in Seq(S), NEW row \in S
    PROVE  /\ Append(rows, row) \in Seq(S) /\ Len(rows) \in Nat
           /\ DOMAIN rows = 1 .. Len(rows) /\ DOMAIN Append(rows, row) = 1 .. Len(rows) + 1
           /\ \A n \in DOMAIN rows : Append(rows, row)[n] = rows[n]
           /\ Append(rows, row)[Len(rows) + 1] = row
  OBVIOUS

\* Rows in the order of a key: each row has its place, and keys do not go down.
LEMMA OrderedIs ==
    ASSUME NEW S, NEW rows \in Seq(S), NEW key \in [DOMAIN rows -> Nat]
    PROVE  /\ Ordered(rows, key) \in Seq(S) /\ Len(Ordered(rows, key)) = Len(rows)
           /\ \A n \in DOMAIN rows :
                 /\ Cardinality(UpTo(key, n)) \in DOMAIN rows
                 /\ Ordered(rows, key)[Cardinality(UpTo(key, n))] = rows[n]
           /\ \A i \in DOMAIN rows : \E n \in DOMAIN rows :
                 Cardinality(UpTo(key, n)) = i /\ Ordered(rows, key)[i] = rows[n]
           /\ \A m, n \in DOMAIN rows :
                 Cardinality(UpTo(key, m)) <= Cardinality(UpTo(key, n)) => key[m] <= key[n]
<1> DEFINE K == DOMAIN rows
           D == [n \in K |-> UpTo(key, n)]
<1>1. /\ IsFiniteSet(K) /\ Cardinality(K) = Len(rows) /\ Len(rows) \in Nat
      /\ K = 1 .. Len(rows)
  <2>1. K = 1 .. Len(rows) /\ Len(rows) \in Nat
    OBVIOUS
  <2>2. 1 \in Int /\ Len(rows) \in Int /\ (1 > Len(rows) => Len(rows) = 0)
    BY <2>1
  <2> QED
    BY <2>1, <2>2, FS_Interval
<1>2. D \in [K -> SUBSET K] /\ \A n \in K : n \in D[n]
  <2>1. \A n \in K : UpTo(key, n) \subseteq K /\ n \in UpTo(key, n)
    BY <1>1 DEF UpTo
  <2> QED
    BY <2>1
<1>3. ASSUME NEW m \in K, NEW n \in K
      PROVE  /\ D[m] \subseteq D[n] \/ D[n] \subseteq D[m]
             /\ D[m] = D[n] => m = n
             /\ D[m] \subseteq D[n] => key[m] <= key[n]
  <2>1. D[m] = UpTo(key, m) /\ D[n] = UpTo(key, n) /\ m \in Nat /\ n \in Nat
    BY <1>1
  <2>2. \A x, y \in K : x \in UpTo(key, y) <=> key[x] < key[y] \/ (key[x] = key[y] /\ x <= y)
    BY DEF UpTo
  <2>3. \A x, y, z \in K : x \in UpTo(key, y) /\ y \in UpTo(key, z) => x \in UpTo(key, z)
    BY <1>1, <2>2
  <2>4. m \in UpTo(key, n) \/ n \in UpTo(key, m)
    BY <1>1, <2>2
  <2>5. m \in UpTo(key, n) /\ n \in UpTo(key, m) => m = n
    BY <1>1, <2>2
  <2>6. /\ m \in UpTo(key, n) => UpTo(key, m) \subseteq UpTo(key, n)
        /\ n \in UpTo(key, m) => UpTo(key, n) \subseteq UpTo(key, m)
    BY <1>2, <2>1, <2>3
  <2>7. D[m] \subseteq D[n] => m \in UpTo(key, n)
    BY <1>2, <2>1
  <2>8. D[m] = D[n] => m = n
    BY <1>2, <2>1, <2>5
  <2>9. D[m] \subseteq D[n] => key[m] <= key[n]
    BY <2>2, <2>7
  <2> QED
    BY <2>1, <2>4, <2>6, <2>8, <2>9
<1> DEFINE R(n) == Cardinality(UpTo(key, n))
<1>4. \A n \in K : D[n] = UpTo(key, n)
  OBVIOUS
<1>a. \A m, n \in K : D[m] \subseteq D[n] \/ D[n] \subseteq D[m]
  BY <1>3
<1>b. \A m, n \in K : D[m] = D[n] => m = n
  BY <1>3
<1>d. IsFiniteSet(K) /\ Cardinality(K) = Len(rows)
  BY <1>1
<1> HIDE DEF D, K
<1>c. /\ Cardinality(K) \in Nat
      /\ \A n \in K : Cardinality(D[n]) \in 1 .. Cardinality(K)
      /\ \A m, n \in K : Cardinality(D[m]) = Cardinality(D[n]) => m = n
      /\ \A m, n \in K : Cardinality(D[m]) <= Cardinality(D[n]) => D[m] \subseteq D[n]
      /\ \A i \in 1 .. Cardinality(K) : \E n \in K : Cardinality(D[n]) = i
  BY <1>d, <1>2, <1>a, <1>b, Ranks
<1>5. /\ \A n \in K : R(n) \in 1 .. Len(rows)
      /\ \A m, n \in K : R(m) = R(n) => m = n
      /\ \A m, n \in K : R(m) <= R(n) => D[m] \subseteq D[n]
      /\ \A i \in 1 .. Len(rows) : \E n \in K : R(n) = i
  <2>1. \A n \in K : Cardinality(D[n]) = R(n)
    BY <1>4
  <2> QED
    BY <1>d, <1>c, <2>1
<1>6. \A m, n \in K : R(m) <= R(n) => key[m] <= key[n]
  BY <1>3, <1>5
<1>7. /\ DOMAIN Ordered(rows, key) = K
      /\ \A i \in K : Ordered(rows, key)[i] = rows[CHOOSE n \in K : R(n) = i]
  BY DEF Ordered, K
<1> HIDE DEF R
<1>8. ASSUME NEW n \in K PROVE R(n) \in K /\ Ordered(rows, key)[R(n)] = rows[n]
  <2>1. (CHOOSE m \in K : R(m) = R(n)) = n
    BY <1>5
  <2> QED
    BY <1>1, <1>5, <1>7, <2>1
<1>9. ASSUME NEW i \in K PROVE \E n \in K : R(n) = i /\ Ordered(rows, key)[i] = rows[n]
  BY <1>1, <1>5, <1>8
<1>10. Ordered(rows, key) \in Seq(S) /\ Len(Ordered(rows, key)) = Len(rows)
  <2>1. \A i \in 1 .. Len(rows) : Ordered(rows, key)[i] \in S
    <3>1. ASSUME NEW i \in 1 .. Len(rows) PROVE Ordered(rows, key)[i] \in S
      <4>1. PICK n \in K : Ordered(rows, key)[i] = rows[n]
        BY <1>1, <1>9
      <4>2. n \in 1 .. Len(rows)
        BY <1>1, <4>1
      <4> QED
        BY <4>1, <4>2
    <3> QED
      BY <3>1
  <2>2. Ordered(rows, key) = [i \in 1 .. Len(rows) |-> Ordered(rows, key)[i]]
    BY <1>1 DEF Ordered, K
  <2> QED
    BY <1>1, <2>1, <2>2
<1> QED
  BY <1>6, <1>8, <1>9, <1>10 DEF K, R

\* Rows that were inserted in the order of their key stay where they are.
LEMMA OrderedStays ==
    ASSUME NEW S, NEW rows \in Seq(S), NEW key \in [DOMAIN rows -> Nat],
           \A n \in DOMAIN rows : key[n] = n
    PROVE  Ordered(rows, key) = rows
<1>1. ASSUME NEW n \in DOMAIN rows PROVE Cardinality(UpTo(key, n)) = n
  <2>1. UpTo(key, n) = 1 .. n
    BY DEF UpTo
  <2> QED
    BY <2>1, FS_Interval
<1>2. ASSUME NEW i \in DOMAIN rows PROVE Ordered(rows, key)[i] = rows[i]
  BY <1>1, OrderedIs
<1>3. DOMAIN Ordered(rows, key) = DOMAIN rows
  BY DEF Ordered
<1>4. Ordered(rows, key) = [i \in DOMAIN rows |-> Ordered(rows, key)[i]]
  BY <1>3 DEF Ordered
<1> QED
  BY <1>2, <1>4

\* The row whose key is before all others comes first.
LEMMA OrderedFirst ==
    ASSUME NEW S, NEW rows \in Seq(S), NEW key \in [DOMAIN rows -> Nat], rows # <<>>,
           \A n \in DOMAIN rows : n = 1 \/ key[1] < key[n]
    PROVE  Ordered(rows, key)[1] = rows[1]
<1>1. 1 \in DOMAIN rows
  OBVIOUS
<1>2. UpTo(key, 1) = {1}
  BY <1>1 DEF UpTo
<1>3. Cardinality(UpTo(key, 1)) = 1
  BY <1>2, FS_Singleton
<1> QED
  BY <1>1, <1>3, OrderedIs

\* The rows at some positions: each of them once, and no other.
LEMMA PickedIs ==
    ASSUME NEW S, NEW rows \in Seq(S), NEW K \in SUBSET (DOMAIN rows)
    PROVE  /\ Picked(rows, K) \in Seq(S) /\ Len(Picked(rows, K)) = Cardinality(K)
           /\ \A n \in K : \E i \in DOMAIN Picked(rows, K) : Picked(rows, K)[i] = rows[n]
           /\ \A i \in DOMAIN Picked(rows, K) : \E n \in K :
                 Picked(rows, K)[i] = rows[n] /\ Cardinality(Before(K, n)) = i
<1> DEFINE R(n) == Cardinality(Before(K, n))
           N == Cardinality(K)
<1>0. K \subseteq Nat
  OBVIOUS
<1>1. IsFiniteSet(K)
  <2>1. DOMAIN rows = 1 .. Len(rows) /\ Len(rows) \in Nat
    OBVIOUS
  <2>2. IsFiniteSet(DOMAIN rows)
    BY <2>1, FS_Interval
  <2> QED
    BY <2>2, FS_Subset
<1>5. /\ N \in Nat
      /\ \A n \in K : R(n) \in 1 .. N
      /\ \A m, n \in K : R(m) = R(n) => m = n
      /\ \A i \in 1 .. N : \E n \in K : R(n) = i
  BY <1>0, <1>1, BeforeRanks
<1>6. /\ Picked(rows, K) = [i \in 1 .. N |-> Picked(rows, K)[i]]
      /\ \A i \in 1 .. N : Picked(rows, K)[i] = rows[CHOOSE n \in K : R(n) = i]
  BY DEF Picked
<1> HIDE DEF R, N
<1>7. ASSUME NEW n \in K PROVE R(n) \in 1 .. N /\ Picked(rows, K)[R(n)] = rows[n]
  <2>1. (CHOOSE m \in K : R(m) = R(n)) = n
    BY <1>5
  <2> QED
    BY <1>5, <1>6, <2>1
<1>8. ASSUME NEW i \in 1 .. N PROVE \E n \in K : Picked(rows, K)[i] = rows[n] /\ R(n) = i
  BY <1>5, <1>7
<1>9. \A i \in 1 .. N : Picked(rows, K)[i] \in S
  BY <1>8
<1>10. Picked(rows, K) \in Seq(S) /\ Len(Picked(rows, K)) = N
  BY <1>5, <1>6, <1>9
<1>11. DOMAIN Picked(rows, K) = 1 .. N
  BY <1>6
<1> QED
  BY <1>7, <1>8, <1>10, <1>11 DEF R, N

-----------------------------------------------------------------------------
(* Messages, forks and summaries                                           *)

\* Rows, appends between their read and their insert, and a fork under way.
Roles == {"user", "assistant", "subagent"}
MessageIds == StoreSessions \X Nat
Messages == [id : MessageIds, seq : Nat, role : Roles]
PendingAppends == [session : StoreSessions, role : Roles, seq : Nat]
ForkRequests ==
    {Sessions!Nothing}
      \union [pc : {"reading"}, session : StoreSessions, seq : Nat, met : Nat]
      \union [pc : {"read"}, session : StoreSessions, seq : Nat, met : Nat, end : Nat,
              rows : Seq(Messages)]
Forks == [from : StoreSessions, seq : Nat, met : Nat, end : Nat]
StoreTypes ==
    /\ sess \in [StoreSessions -> {"none", "live", "deleted"}]
    /\ msgs \in [StoreSessions -> Seq(Messages)]
    /\ forked \in [StoreSessions -> Forks]
    /\ running \in SUBSET StoreSessions /\ alive \in SUBSET StoreSessions
    /\ appends \in SUBSET PendingAppends
    /\ fork \in ForkRequests

\* Nothing is known of a session that does not exist.
Unborn ==
    \A s \in StoreSessions : sess[s] = "none" =>
        /\ msgs[s] = <<>> /\ s \notin running /\ s \notin alive
        /\ \A a \in appends : a.session # s
        /\ fork # Sessions!Nothing => fork.session # s
        /\ \A t \in StoreSessions : forked[t].from = s => t = s

\* Every history begins with what the user wrote, whatever else goes wrong.
Opens(rows) ==
    rows # <<>> => /\ rows[1].role = "user" /\ rows[1].seq = 1
                   /\ \A n \in DOMAIN rows : n # 1 => rows[n].seq >= 2
OpenedByUser ==
    /\ \A s \in StoreSessions : Opens(msgs[s])
    /\ \A s \in alive : msgs[s] # <<>>
    /\ \A a \in appends :
          IF msgs[a.session] = <<>> THEN a.role = "user" /\ a.seq = 1 ELSE a.seq >= 2
    /\ \A a, b \in appends : a.session = b.session /\ a.role = "user" /\ b.role = "user" => a = b
    /\ fork.pc = "read" /\ fork.rows # <<>> => fork.rows[1].role = "user"

\* While nobody emits for a session whose run has ended there is one writer at a time.
OneWriter ==
    \A s \in StoreSessions \ disturbed :
        /\ s \in alive => s \in running
        /\ \A n \in DOMAIN msgs[s] : msgs[s][n].seq = n
        /\ \A a, b \in appends : a.session = s /\ b.session = s => a = b
        /\ \A a \in appends : a.session = s =>
              /\ s \in running /\ a.seq = Len(msgs[s]) + 1
              /\ a.role = "user" <=> s \notin alive

\* A fork ends at its fork point, or behind what its source had when it was asked for.
Ends(f) == f.seq > 0 => f.end <= f.seq /\ (f.seq <= f.end \/ f.met <= f.end)

\* The first seq rows of a fork, made or under way, are those of its source.
SamePrefix(rows, source, seq) ==
    /\ seq <= Len(rows) /\ seq <= Len(source)
    /\ \A n \in 1 .. seq : rows[n].id = source[n].id
ForksAgree ==
    /\ fork # Sessions!Nothing /\ fork.session \notin disturbed =>
          /\ fork.met <= Len(msgs[fork.session])
          /\ fork.pc = "read" => Ends(fork) /\ SamePrefix(fork.rows, msgs[fork.session], fork.end)
    /\ \A t \in StoreSessions :
          LET s == forked[t].from
          IN  s # t /\ s \notin disturbed =>
                Ends(forked[t]) /\ SamePrefix(msgs[t], msgs[s], forked[t].end)
HistoryInv == StoreTypes /\ Unborn /\ OpenedByUser /\ OneWriter /\ ForksAgree

\* The stores sort and filter as RowOrder says.
LEMMA SessionOrder == \A rows, key : Sessions!Ordered(rows, key) = Ordered(rows, key)
  BY Zenon DEF Sessions!Ordered, Sessions!UpTo, Ordered, UpTo, Sessions!Cardinality, Cardinality

\* They count as FiniteSets does.
LEMMA SessionCount == \A S : Sessions!Cardinality(S) = Cardinality(S)
  BY DEF Sessions!Cardinality, Cardinality

\* The row with the highest seq, 0 when there is none.
LEMMA LatestIs ==
    ASSUME NEW s \in StoreSessions, msgs[s] \in Seq(Messages)
    PROVE  /\ Sessions!LatestSeq(s) \in Nat
           /\ \A n \in DOMAIN msgs[s] : msgs[s][n].seq <= Sessions!LatestSeq(s)
           /\ \/ Sessions!LatestSeq(s) = 0
              \/ \E n \in DOMAIN msgs[s] : msgs[s][n].seq = Sessions!LatestSeq(s)
<1> DEFINE rows == msgs[s]
           T == {rows[n].seq : n \in DOMAIN rows}
           S == {0} \cup T
<1>1. rows \in Seq(Messages)
  OBVIOUS
<1>2. DOMAIN rows = 1 .. Len(rows) /\ Len(rows) \in Nat /\ \A n \in DOMAIN rows : rows[n].seq \in Nat
  <2>1. \A n \in DOMAIN rows : rows[n] \in Messages
    BY <1>1
  <2> QED
    BY <1>1, <2>1 DEF Messages
<1>3. Sessions!LatestSeq(s) = Sessions!Max(S)
  BY DEF Sessions!LatestSeq
<1>4. S \in SUBSET Nat /\ 0 \in S
  BY <1>2
<1>5. IsFiniteSet(S)
  <2>1. IsFiniteSet(1 .. Len(rows))
    BY <1>2, FS_Interval
  <2> DEFINE g == [n \in 1 .. Len(rows) |-> rows[n].seq]
  <2>2. g \in Surjection(1 .. Len(rows), T)
    BY <1>2 DEF Surjection
  <2>3. IsFiniteSet(T)
    BY <2>1, <2>2, FS_Surjection
  <2> QED
    BY <2>3, FS_Singleton, FS_Union
<1> HIDE DEF S
<1>6. \E n \in S : \A m \in S : m <= n
  BY <1>4, <1>5, LastExists
<1>7. Sessions!Max(S) \in S /\ \A m \in S : m <= Sessions!Max(S)
  BY <1>4, <1>6 DEF Sessions!Max
<1> QED
  BY <1>3, <1>4, <1>7 DEF S

\* Where messages are numbered, the highest seq is the number of messages.
LEMMA LatestCounts ==
    ASSUME NEW s \in StoreSessions, msgs[s] \in Seq(Messages),
           \A n \in DOMAIN msgs[s] : msgs[s][n].seq = n
    PROVE  Sessions!LatestSeq(s) = Len(msgs[s])
<1>1. CASE msgs[s] = <<>>
  <2>1. DOMAIN msgs[s] = {} /\ Len(msgs[s]) = 0
    BY <1>1
  <2> QED
    BY <2>1, LatestIs
<1>2. CASE msgs[s] # <<>>
  <2>1. Len(msgs[s]) \in DOMAIN msgs[s] /\ Len(msgs[s]) >= 1
    BY <1>2
  <2> QED
    BY <2>1, LatestIs
<1> QED
  BY <1>1, <1>2

\* A fork request has a source, a fork point and, once read, rows.
LEMMA ForkFields ==
    ASSUME fork \in ForkRequests
    PROVE  /\ fork # Sessions!Nothing =>
                fork.session \in StoreSessions /\ fork.seq \in Nat /\ fork.met \in Nat
           /\ fork.pc = "read" =>
                fork # Sessions!Nothing /\ fork.rows \in Seq(Messages) /\ fork.end \in Nat
           /\ fork.pc = "reading" => fork # Sessions!Nothing
  BY DEF ForkRequests, Sessions!Nothing

\* Numbered rows: the row of each number stands at its place.
Counted(rows) == \A n \in DOMAIN rows : rows[n].seq = n

\* The rows of a session by seq begin with what the user wrote; numbered rows are
\* already in that order.
LEMMA BySeqIs ==
    ASSUME NEW rows \in Seq(Messages)
    PROVE  /\ Sessions!BySeq(rows) \in Seq(Messages)
           /\ Len(Sessions!BySeq(rows)) = Len(rows)
           /\ Opens(rows) /\ rows # <<>> => Sessions!BySeq(rows)[1] = rows[1]
           /\ Counted(rows) => Sessions!BySeq(rows) = rows
<1> DEFINE key == [n \in DOMAIN rows |-> rows[n].seq]
<1>1. \A n \in DOMAIN rows : rows[n] \in Messages /\ rows[n].seq \in Nat
  <2>1. \A n \in DOMAIN rows : rows[n] \in Messages
    OBVIOUS
  <2> QED
    BY <2>1 DEF Messages
<1>2. key \in [DOMAIN rows -> Nat] /\ \A n \in DOMAIN rows : key[n] = rows[n].seq
  BY <1>1
<1>3. Sessions!BySeq(rows) = Ordered(rows, key)
  BY SessionOrder DEF Sessions!BySeq
<1> HIDE DEF key
<1>4. Ordered(rows, key) \in Seq(Messages) /\ Len(Ordered(rows, key)) = Len(rows)
  BY <1>2, OrderedIs
<1>5. ASSUME Opens(rows), rows # <<>> PROVE Ordered(rows, key)[1] = rows[1]
  <2>1. \A n \in DOMAIN rows : n = 1 \/ key[1] < key[n]
    <3>1. 1 \in DOMAIN rows /\ key[1] = 1
      BY <1>2, <1>5 DEF Opens
    <3>2. \A n \in DOMAIN rows : n # 1 => key[n] >= 2
      BY <1>2, <1>5 DEF Opens
    <3> QED
      BY <1>2, <3>1, <3>2
  <2> QED
    BY <1>2, <1>5, <2>1, OrderedFirst
<1>6. ASSUME Counted(rows) PROVE Ordered(rows, key) = rows
  <2>1. \A n \in DOMAIN rows : key[n] = n
    BY <1>2, <1>6 DEF Counted
  <2> QED
    BY <1>2, <2>1, OrderedStays
<1> QED
  BY <1>3, <1>4, <1>5, <1>6

\* What a fork reads: the first rows, the one of the user among them.
LEMMA ThroughIs ==
    ASSUME NEW s \in StoreSessions, msgs[s] \in Seq(Messages), NEW q \in Nat
    PROVE  /\ Sessions!Through(s, q) \in Seq(Messages)
           /\ Opens(msgs[s]) /\ Sessions!Through(s, q) # <<>> =>
                Sessions!Through(s, q)[1].role = "user"
           /\ Counted(msgs[s]) =>
                LET out == Sessions!Through(s, q)
                IN  /\ Len(out) = IF q = 0 \/ q > Len(msgs[s]) THEN Len(msgs[s]) ELSE q
                    /\ \A n \in 1 .. Len(out) : out[n] = msgs[s][n]
<1> DEFINE rows == msgs[s]
           all == Sessions!BySeq(rows)
           K == {n \in DOMAIN all : all[n].seq <= q}
           c == Cardinality(K)
           out == Sessions!Through(s, q)
<1>1. /\ all \in Seq(Messages) /\ Len(all) = Len(rows)
      /\ Opens(rows) /\ rows # <<>> => all[1] = rows[1]
      /\ Counted(rows) => all = rows
  BY BySeqIs
<1>2. out = IF q = 0 THEN all ELSE SubSeq(all, 1, c)
  BY SessionCount DEF Sessions!Through
<1> HIDE DEF all, out
<1>3. c \in 0 .. Len(all)
  <2>1. DOMAIN all = 1 .. Len(all) /\ Len(all) \in Nat /\ K \subseteq 1 .. Len(all)
    BY <1>1
  <2>2. IsFiniteSet(1 .. Len(all)) /\ Cardinality(1 .. Len(all)) = Len(all)
    BY <2>1, IntervalSize
  <2>3. Cardinality(K) \in Nat /\ Cardinality(K) <= Len(all)
    BY <2>1, <2>2, FS_Subset, FS_CardinalityType
  <2> QED
    BY <2>1, <2>3
<1> HIDE DEF c
<1>4. SubSeq(all, 1, c) \in Seq(Messages) /\ Len(SubSeq(all, 1, c)) = c
      /\ \A i \in 1 .. c : SubSeq(all, 1, c)[i] = all[i]
  BY <1>1, <1>3, SubSeqIs
<1>5. out \in Seq(Messages)
  BY <1>1, <1>2, <1>4
<1>6. ASSUME Opens(rows), out # <<>> PROVE out[1].role = "user"
  <2>1. out[1] = all[1] /\ rows # <<>>
    <3>1. CASE q = 0
      BY <1>1, <1>2, <1>6, <3>1
    <3>2. CASE q # 0
      <4>1. c >= 1
        BY <1>2, <1>3, <1>4, <1>6, <3>2
      <4> QED
        BY <1>1, <1>2, <1>3, <1>4, <3>2, <4>1
    <3> QED
      BY <3>1, <3>2
  <2> QED
    BY <1>1, <1>6, <2>1 DEF Opens
<1> DEFINE k == IF q = 0 \/ q > Len(rows) THEN Len(rows) ELSE q
<1>7. ASSUME Counted(rows) PROVE Len(out) = k /\ \A n \in 1 .. Len(out) : out[n] = rows[n]
  <2>1. all = rows /\ Len(rows) \in Nat /\ DOMAIN rows = 1 .. Len(rows)
    BY <1>1, <1>7
  <2>2. CASE q = 0
    BY <1>2, <2>1, <2>2
  <2>3. CASE q # 0
    <3>1. K = {n \in 1 .. Len(rows) : n <= q}
      BY <1>7, <2>1 DEF Counted
    <3>2. K = 1 .. k /\ k \in Nat
      BY <2>1, <2>3, <3>1
    <3>3. c = k
      BY <3>2, IntervalSize DEF c
    <3> QED
      BY <1>2, <1>4, <2>1, <2>3, <3>3
  <2> QED
    BY <2>2, <2>3
<1> QED
  BY <1>5, <1>6, <1>7 DEF out

\* What a write of the row leaves alone: the invariant speaks of no compaction.
LEMMA HistoryFrame ==
    ASSUME HistoryInv, UNCHANGED <<sess, msgs, forked, running, alive, appends, fork, disturbed>>
    PROVE  HistoryInv'
<1>1. StoreTypes' /\ Unborn'
  BY DEF HistoryInv, StoreTypes, Unborn
<1>2. OpenedByUser'
  BY DEF HistoryInv, OpenedByUser, Opens
<1>3. OneWriter' /\ ForksAgree'
  BY DEF HistoryInv, OneWriter, ForksAgree
<1> QED
  BY <1>1, <1>2, <1>3 DEF HistoryInv

\* The append that a user starts or that a run emits, with the seq it has read.
LEMMA AppendBegins ==
    ASSUME HistoryInv, NEW s \in StoreSessions, NEW role \in Roles, sess[s] # "none",
           Sessions!BeginAppend(s, role),
           role = "user" => s \notin running /\ running' = running \cup {s},
           role # "user" => s \in alive /\ running' = running,
           UNCHANGED <<sess, msgs, forked, alive, fork, disturbed>>
    PROVE  HistoryInv'
<1> DEFINE new == [session |-> s, role |-> role, seq |-> Sessions!NextSeq(s)]
<1>t. StoreTypes /\ Unborn /\ OpenedByUser /\ OneWriter /\ ForksAgree
  BY DEF HistoryInv
<1>1. /\ appends' = appends \cup {new}
      /\ \A a \in appends : a.session # s \/ (a.role = "user") # (role = "user")
  BY DEF Sessions!BeginAppend
<1>2. msgs[s] \in Seq(Messages)
  BY <1>t DEF StoreTypes
<1>3. Sessions!NextSeq(s) = Sessions!LatestSeq(s) + 1 /\ Sessions!LatestSeq(s) \in Nat
  BY <1>2, LatestIs DEF Sessions!NextSeq
<1>4. new \in PendingAppends /\ new.session = s /\ new.role = role /\ new.seq = Sessions!LatestSeq(s) + 1
  BY <1>3 DEF PendingAppends
<1> HIDE DEF new
<1>5. running \in SUBSET StoreSessions /\ running' \in SUBSET StoreSessions /\ running \subseteq running'
      /\ running' \subseteq running \cup {s}
  BY <1>t DEF StoreTypes
<1>6. StoreTypes'
  BY <1>t, <1>1, <1>4, <1>5 DEF StoreTypes
<1>7. Unborn'
  BY <1>t, <1>1, <1>4, <1>5 DEF Unborn
<1>8. IF msgs[s] = <<>> THEN new.role = "user" /\ new.seq = 1 ELSE new.seq >= 2
  <2>1. CASE msgs[s] = <<>>
    <3>1. s \notin alive
      BY <1>t, <2>1 DEF OpenedByUser
    <3>2. DOMAIN msgs[s] = {}
      BY <2>1
    <3>3. Sessions!LatestSeq(s) = 0
      BY <1>2, <3>2, LatestIs
    <3> QED
      BY <1>4, <2>1, <3>1, <3>3
  <2>2. CASE msgs[s] # <<>>
    <3>1. 1 \in DOMAIN msgs[s] /\ msgs[s][1].seq = 1
      BY <1>t, <1>2, <2>2 DEF OpenedByUser, Opens
    <3>2. Sessions!LatestSeq(s) >= 1
      BY <1>2, <1>3, <3>1, LatestIs
    <3> QED
      BY <1>3, <1>4, <2>2, <3>2
  <2> QED
    BY <2>1, <2>2
<1>9. OpenedByUser'
  <2>1. \A r \in StoreSessions : Opens(msgs'[r])
    BY <1>t DEF OpenedByUser
  <2>2. \A a \in appends' : IF msgs'[a.session] = <<>> THEN a.role = "user" /\ a.seq = 1 ELSE a.seq >= 2
    BY <1>t, <1>1, <1>4, <1>8 DEF OpenedByUser
  <2>3. \A a, b \in appends' : a.session = b.session /\ a.role = "user" /\ b.role = "user" => a = b
    BY <1>t, <1>1, <1>4 DEF OpenedByUser
  <2> QED
    BY <1>t, <2>1, <2>2, <2>3 DEF OpenedByUser
<1>10. OneWriter'
  <2> SUFFICES ASSUME NEW r \in StoreSessions \ disturbed
               PROVE  /\ r \in alive => r \in running'
                      /\ \A n \in DOMAIN msgs[r] : msgs[r][n].seq = n
                      /\ \A a, b \in appends' : a.session = r /\ b.session = r => a = b
                      /\ \A a \in appends' : a.session = r =>
                            /\ r \in running' /\ a.seq = Len(msgs[r]) + 1
                            /\ a.role = "user" <=> r \notin alive
    BY DEF OneWriter
  <2>1. /\ r \in alive => r \in running
        /\ \A n \in DOMAIN msgs[r] : msgs[r][n].seq = n
        /\ \A a, b \in appends : a.session = r /\ b.session = r => a = b
        /\ \A a \in appends : a.session = r =>
              /\ r \in running /\ a.seq = Len(msgs[r]) + 1
              /\ a.role = "user" <=> r \notin alive
    BY <1>t DEF OneWriter
  <2>2. CASE r # s
    BY <1>1, <1>4, <1>5, <2>1, <2>2
  <2>3. CASE r = s
    <3>1. \A a \in appends : a.session # s
      BY <1>1, <2>1, <2>3
    <3>2. Sessions!LatestSeq(s) = Len(msgs[s])
      BY <1>2, <2>1, <2>3, LatestCounts
    <3>3. r \in running' /\ (role = "user" <=> r \notin alive)
      BY <2>1, <2>3
    <3> QED
      BY <1>1, <1>4, <2>1, <2>3, <3>1, <3>2, <3>3
  <2> QED
    BY <2>2, <2>3
<1>11. ForksAgree'
  BY <1>t DEF ForksAgree
<1> QED
  BY <1>6, <1>7, <1>9, <1>10, <1>11 DEF HistoryInv

\* The row that an append adds stands behind all others.
LEMMA InsertKeeps ==
    ASSUME HistoryInv, NEW a \in appends, Sessions!Insert(a)
    PROVE  HistoryInv'
<1> DEFINE s == a.session
           row == [id |-> <<s, Len(msgs[s]) + 1>>, seq |-> a.seq, role |-> a.role]
<1>t. StoreTypes /\ Unborn /\ OpenedByUser /\ OneWriter /\ ForksAgree
  BY DEF HistoryInv
<1>1. a \in PendingAppends /\ s \in StoreSessions /\ a.seq \in Nat /\ a.role \in Roles
  BY <1>t DEF StoreTypes, PendingAppends
<1>2. /\ msgs \in [StoreSessions -> Seq(Messages)] /\ msgs[s] \in Seq(Messages)
      /\ Len(msgs[s]) \in Nat
  BY <1>t, <1>1 DEF StoreTypes
<1>3. row \in Messages /\ row.seq = a.seq /\ row.role = a.role
  BY <1>1, <1>2 DEF Messages, MessageIds
<1>4. /\ msgs' = [msgs EXCEPT ![s] = Append(msgs[s], row)]
      /\ appends' = appends \ {a}
      /\ alive' = IF a.role = "user" THEN alive \cup {s} ELSE alive
      /\ UNCHANGED <<sess, forked, running, fork, disturbed>>
  BY DEF Sessions!Insert
<1> HIDE DEF row
<1>5. /\ msgs' \in [StoreSessions -> Seq(Messages)]
      /\ msgs'[s] = Append(msgs[s], row)
      /\ \A r \in StoreSessions : r # s => msgs'[r] = msgs[r]
  BY <1>1, <1>2, <1>3, <1>4
<1>6. /\ Len(msgs'[s]) = Len(msgs[s]) + 1 /\ msgs'[s] # <<>>
      /\ \A n \in DOMAIN msgs[s] : msgs'[s][n] = msgs[s][n]
      /\ msgs'[s][Len(msgs[s]) + 1] = row
      /\ DOMAIN msgs'[s] = 1 .. Len(msgs[s]) + 1
      /\ DOMAIN msgs[s] = 1 .. Len(msgs[s])
  <2> DEFINE old == msgs[s]
             new == msgs'[s]
  <2>1. old \in Seq(Messages) /\ row \in Messages /\ new = Append(old, row)
    BY <1>2, <1>3, <1>5
  <2> HIDE DEF old, new
  <2>2. /\ new \in Seq(Messages) /\ Len(old) \in Nat
        /\ DOMAIN old = 1 .. Len(old) /\ DOMAIN new = 1 .. Len(old) + 1
        /\ \A n \in DOMAIN old : new[n] = old[n]
        /\ new[Len(old) + 1] = row
    BY <2>1, AppendIs
  <2>3. Len(new) = Len(old) + 1 /\ new # <<>>
    BY <2>2
  <2> QED
    BY <2>2, <2>3 DEF old, new
<1> HIDE DEF s
<1>7. StoreTypes'
  BY <1>t, <1>1, <1>4, <1>5 DEF StoreTypes
<1>8. sess[s] # "none"
  BY <1>t, <1>1 DEF Unborn, s
<1>9. Unborn'
  BY <1>t, <1>4, <1>5, <1>8 DEF Unborn
<1>10. OpenedByUser'
  <2>1. ASSUME NEW r \in StoreSessions PROVE Opens(msgs'[r])
    <3>1. CASE r # s
      BY <1>t, <1>5, <3>1 DEF OpenedByUser
    <3>2. CASE r = s /\ msgs[s] = <<>>
      <4>1. a.role = "user" /\ a.seq = 1 /\ Len(msgs[s]) = 0
        BY <1>t, <3>2 DEF OpenedByUser, s
      <4> QED
        BY <1>3, <1>6, <3>2, <4>1 DEF Opens
    <3>3. CASE r = s /\ msgs[s] # <<>>
      <4>1. a.seq >= 2 /\ Opens(msgs[s])
        BY <1>t, <1>1, <3>3 DEF OpenedByUser, s
      <4>2. Len(msgs[s]) >= 1
        BY <1>2, <3>3
      <4>3. msgs'[s][1] = msgs[s][1]
        BY <1>2, <1>6, <4>2
      <4>4. /\ msgs[s][1].role = "user" /\ msgs[s][1].seq = 1
            /\ \A n \in DOMAIN msgs[s] : n # 1 => msgs[s][n].seq >= 2
        BY <3>3, <4>1 DEF Opens
      <4>5. ASSUME NEW n \in DOMAIN msgs'[s], n # 1 PROVE msgs'[s][n].seq >= 2
        <5>1. CASE n \in DOMAIN msgs[s]
          BY <1>6, <4>4, <4>5, <5>1
        <5>2. CASE n \notin DOMAIN msgs[s]
          <6>1. n = Len(msgs[s]) + 1
            BY <1>2, <1>6, <5>2
          <6> QED
            BY <1>3, <1>6, <4>1, <6>1
        <5> QED
          BY <5>1, <5>2
      <4> QED
        BY <3>3, <4>3, <4>4, <4>5 DEF Opens
    <3> QED
      BY <3>1, <3>2, <3>3
  <2>2. \A r \in alive' : msgs'[r] # <<>>
    BY <1>t, <1>4, <1>5, <1>6 DEF OpenedByUser, StoreTypes
  <2>3. ASSUME NEW b \in appends'
        PROVE  IF msgs'[b.session] = <<>> THEN b.role = "user" /\ b.seq = 1 ELSE b.seq >= 2
    <3>1. b \in appends /\ b # a /\ b.session \in StoreSessions
      BY <1>t, <1>4 DEF StoreTypes, PendingAppends
    <3>2. CASE b.session # s
      BY <1>t, <1>5, <3>1, <3>2 DEF OpenedByUser
    <3>3. CASE b.session = s
      <4>1. msgs[s] # <<>>
        BY <1>t, <3>1, <3>3 DEF OpenedByUser, s
      <4> QED
        BY <1>t, <1>6, <3>1, <3>3, <4>1 DEF OpenedByUser
    <3> QED
      BY <3>2, <3>3
  <2> QED
    BY <1>t, <1>4, <2>1, <2>2, <2>3 DEF OpenedByUser
<1>11. OneWriter'
  <2> SUFFICES ASSUME NEW r \in StoreSessions \ disturbed
               PROVE  /\ r \in alive' => r \in running
                      /\ \A n \in DOMAIN msgs'[r] : msgs'[r][n].seq = n
                      /\ \A b, c \in appends' : b.session = r /\ c.session = r => b = c
                      /\ \A b \in appends' : b.session = r =>
                            /\ r \in running /\ b.seq = Len(msgs'[r]) + 1
                            /\ b.role = "user" <=> r \notin alive'
    BY <1>4 DEF OneWriter
  <2>1. /\ r \in alive => r \in running
        /\ \A n \in DOMAIN msgs[r] : msgs[r][n].seq = n
        /\ \A b, c \in appends : b.session = r /\ c.session = r => b = c
        /\ \A b \in appends : b.session = r =>
              /\ r \in running /\ b.seq = Len(msgs[r]) + 1
              /\ b.role = "user" <=> r \notin alive
    BY <1>t DEF OneWriter
  <2>2. CASE r # s
    BY <1>4, <1>5, <2>1, <2>2
  <2>3. CASE r = s
    <3>1. a.seq = Len(msgs[s]) + 1 /\ s \in running /\ \A b \in appends' : b.session # s
      BY <1>4, <2>1, <2>3 DEF s
    <3>2. \A n \in DOMAIN msgs'[s] : msgs'[s][n].seq = n
      BY <1>2, <1>3, <1>6, <2>1, <2>3, <3>1
    <3> QED
      BY <2>3, <3>1, <3>2
  <2> QED
    BY <2>2, <2>3
<1>12. ASSUME NEW rows, NEW seq \in Nat, SamePrefix(rows, msgs[s], seq)
       PROVE  SamePrefix(rows, msgs'[s], seq)
  BY <1>2, <1>6, <1>12 DEF SamePrefix
<1>13. ASSUME NEW source, NEW seq \in Nat, SamePrefix(msgs[s], source, seq)
       PROVE  SamePrefix(msgs'[s], source, seq)
  <2>1. seq <= Len(msgs[s]) /\ seq <= Len(source) /\ \A n \in 1 .. seq : msgs[s][n].id = source[n].id
    BY <1>13 DEF SamePrefix
  <2>2. seq <= Len(msgs'[s])
    BY <1>2, <1>6, <2>1
  <2>a. \A n \in 1 .. seq : n \in DOMAIN msgs[s]
    BY <1>2, <1>6, <2>1
  <2>3. \A n \in 1 .. seq : msgs'[s][n] = msgs[s][n]
    BY <1>6, <2>a
  <2> QED
    BY <2>1, <2>2, <2>3 DEF SamePrefix
<1>14. ForksAgree'
  <2>1. ASSUME fork # Sessions!Nothing, fork.session \notin disturbed
        PROVE  /\ fork.met <= Len(msgs'[fork.session])
               /\ fork.pc = "read" =>
                    Ends(fork) /\ SamePrefix(fork.rows, msgs'[fork.session], fork.end)
    <3>1. /\ fork.session \in StoreSessions /\ fork.met \in Nat
          /\ fork.pc = "read" => fork.end \in Nat
      BY <1>t, <2>1, ForkFields DEF StoreTypes
    <3>2. /\ fork.met <= Len(msgs[fork.session])
          /\ fork.pc = "read" =>
                    Ends(fork) /\ SamePrefix(fork.rows, msgs[fork.session], fork.end)
      BY <1>t, <2>1 DEF ForksAgree
    <3>3. CASE fork.session # s
      BY <1>5, <3>1, <3>2, <3>3
    <3>4. CASE fork.session = s
      BY <1>2, <1>6, <1>12, <3>1, <3>2, <3>4
    <3> QED
      BY <3>3, <3>4
  <2>2. ASSUME NEW t \in StoreSessions, forked[t].from # t, forked[t].from \notin disturbed
        PROVE  Ends(forked[t]) /\ SamePrefix(msgs'[t], msgs'[forked[t].from], forked[t].end)
    <3>1. Ends(forked[t]) /\ SamePrefix(msgs[t], msgs[forked[t].from], forked[t].end)
      BY <1>t, <2>2 DEF ForksAgree
    <3>2. forked[t].from \in StoreSessions /\ forked[t].end \in Nat
      BY <1>t DEF StoreTypes, Forks
    <3>3. CASE t = s
      BY <1>5, <1>13, <2>2, <3>1, <3>2, <3>3
    <3>4. CASE forked[t].from = s
      BY <1>5, <1>12, <2>2, <3>1, <3>2, <3>4
    <3>5. CASE t # s /\ forked[t].from # s
      BY <1>5, <3>1, <3>2, <3>5
    <3> QED
      BY <3>3, <3>4, <3>5
  <2> QED
    BY <1>4, <2>1, <2>2 DEF ForksAgree
<1> QED
  BY <1>7, <1>9, <1>10, <1>11, <1>14 DEF HistoryInv

\* A pause declares a run ended, which may go on; its session is marked.
LEMMA PauseKeeps ==
    ASSUME HistoryInv, Sessions!Paused
    PROVE  HistoryInv'
<1>t. StoreTypes /\ Unborn /\ OpenedByUser /\ OneWriter /\ ForksAgree
  BY DEF HistoryInv
<1>1. /\ running' = running \ {compact.session}
      /\ disturbed' = IF compact.session \in running THEN disturbed \cup {compact.session}
                      ELSE disturbed
      /\ UNCHANGED <<sess, msgs, forked, alive, appends, fork>>
  BY DEF Sessions!Paused
<1>2. disturbed \subseteq disturbed' /\ \A s \in StoreSessions \ disturbed' : s \in running <=> s \in running'
  BY <1>1
<1>3. StoreTypes' /\ Unborn'
  BY <1>t, <1>1 DEF StoreTypes, Unborn
<1>4. OpenedByUser'
  BY <1>t, <1>1 DEF OpenedByUser
<1>5. OneWriter'
  BY <1>t, <1>1, <1>2 DEF OneWriter
<1>6. ForksAgree'
  <2>1. fork # Sessions!Nothing /\ fork.session \notin disturbed' =>
          /\ fork.met <= Len(msgs[fork.session])
          /\ fork.pc = "read" => Ends(fork) /\ SamePrefix(fork.rows, msgs[fork.session], fork.end)
    BY <1>t, <1>2 DEF ForksAgree
  <2>2. \A t \in StoreSessions :
          forked[t].from # t /\ forked[t].from \notin disturbed' =>
             Ends(forked[t]) /\ SamePrefix(msgs[t], msgs[forked[t].from], forked[t].end)
    BY <1>t, <1>2 DEF ForksAgree
  <2> QED
    BY <1>1, <2>1, <2>2 DEF ForksAgree
<1> QED
  BY <1>3, <1>4, <1>5, <1>6 DEF HistoryInv

\* The end of a run and the deletion of a session.
LEMMA EndKeeps ==
    ASSUME HistoryInv, NEW s \in StoreSessions, Sessions!FinishRun(s) \/ Sessions!Delete(s)
    PROVE  HistoryInv'
<1>t. StoreTypes /\ Unborn /\ OpenedByUser /\ OneWriter /\ ForksAgree
  BY DEF HistoryInv
<1>1. CASE Sessions!FinishRun(s)
  <2>1. /\ s \in alive /\ \A a \in appends : a.session # s
        /\ alive' = alive \ {s} /\ running' = running \ {s}
        /\ UNCHANGED <<sess, msgs, forked, appends, fork, disturbed>>
    BY <1>1 DEF Sessions!FinishRun, Sessions!Appending
  <2>2. StoreTypes' /\ Unborn'
    BY <1>t, <2>1 DEF StoreTypes, Unborn
  <2>3. OpenedByUser' /\ ForksAgree'
    BY <1>t, <2>1 DEF OpenedByUser, ForksAgree
  <2>4. OneWriter'
    BY <1>t, <2>1 DEF OneWriter
  <2> QED
    BY <2>2, <2>3, <2>4 DEF HistoryInv
<1>2. CASE Sessions!Delete(s)
  <2>1. /\ sess' = [sess EXCEPT ![s] = "deleted"]
        /\ UNCHANGED <<msgs, forked, running, alive, appends, fork, disturbed>>
    BY <1>2 DEF Sessions!Delete
  <2>2. sess' \in [StoreSessions -> {"none", "live", "deleted"}]
        /\ \A r \in StoreSessions : sess'[r] = "none" => sess[r] = "none"
    BY <1>t, <2>1 DEF StoreTypes
  <2>3. StoreTypes' /\ Unborn'
    BY <1>t, <2>1, <2>2 DEF StoreTypes, Unborn
  <2>4. OpenedByUser' /\ OneWriter' /\ ForksAgree'
    BY <1>t, <2>1 DEF OpenedByUser, OneWriter, ForksAgree
  <2> QED
    BY <2>3, <2>4 DEF HistoryInv
<1> QED
  BY <1>1, <1>2

\* A fork asks for a seq, whether its source has it or not, and reads the rows up to it.
LEMMA ForkReads ==
    ASSUME HistoryInv,
           (\E s \in StoreSessions : \E seq \in Nat : Sessions!BeginFork(s, seq))
             \/ Sessions!ReadFork
    PROVE  HistoryInv'
<1>t. StoreTypes /\ Unborn /\ OpenedByUser /\ OneWriter /\ ForksAgree
  BY DEF HistoryInv
<1>a. UNCHANGED <<sess, msgs, forked, running, alive, appends, disturbed>>
  BY DEF Sessions!BeginFork, Sessions!ReadFork
<1> DEFINE Fine == /\ fork' \in ForkRequests
                   /\ fork' # Sessions!Nothing => sess[fork'.session] # "none"
                   /\ fork'.pc = "read" /\ fork'.rows # <<>> => fork'.rows[1].role = "user"
                   /\ fork' # Sessions!Nothing /\ fork'.session \notin disturbed =>
                        /\ fork'.met <= Len(msgs[fork'.session])
                        /\ fork'.pc = "read" =>
                             Ends(fork') /\ SamePrefix(fork'.rows, msgs[fork'.session], fork'.end)
<1>1. ASSUME Fine PROVE HistoryInv'
  <2>1. StoreTypes' /\ Unborn'
    BY <1>t, <1>a, <1>1 DEF StoreTypes, Unborn
  <2>2. OpenedByUser' /\ OneWriter' /\ ForksAgree'
    BY <1>t, <1>a, <1>1 DEF OpenedByUser, OneWriter, ForksAgree
  <2> QED
    BY <2>1, <2>2 DEF HistoryInv
<1>2. ASSUME NEW s \in StoreSessions, NEW seq \in Nat, Sessions!BeginFork(s, seq)
      PROVE  Fine
  <2>1. msgs[s] \in Seq(Messages) /\ Sessions!LatestSeq(s) \in Nat
    BY <1>t, LatestIs DEF StoreTypes
  <2> DEFINE q == IF seq = 0 THEN Sessions!LatestSeq(s) ELSE seq
             met == Sessions!LatestSeq(s)
  <2>2. fork' = [pc |-> "reading", session |-> s, met |-> met, seq |-> q] /\ sess[s] = "live"
    BY <1>2 DEF Sessions!BeginFork
  <2>3. q \in Nat /\ met \in Nat
    BY <2>1
  <2>5. s \notin disturbed => met <= Len(msgs[s])
    <3>1. s \notin disturbed => met = Len(msgs[s])
      BY <1>t, <2>1, LatestCounts DEF OneWriter
    <3> QED
      BY <2>1, <3>1
  <2> HIDE DEF q, met
  <2>4. /\ fork' \in ForkRequests /\ fork'.session = s /\ fork'.met = met /\ fork'.pc = "reading"
    BY <2>2, <2>3 DEF ForkRequests
  <2> QED
    BY <2>2, <2>4, <2>5
<1>3. ASSUME Sessions!ReadFork PROVE Fine
  <2> DEFINE s == fork.session
             q == fork.seq
             rows == Sessions!Through(s, q)
             end == Sessions!LastSeq(rows)
             k == IF q = 0 \/ q > Len(msgs[s]) THEN Len(msgs[s]) ELSE q
  <2>1. /\ fork.pc = "reading" /\ fork # Sessions!Nothing
        /\ fork' = [pc |-> "read", session |-> s, met |-> fork.met, seq |-> q,
                    rows |-> rows, end |-> end]
    BY <1>3 DEF Sessions!ReadFork, Sessions!Nothing
  <2>2. /\ s \in StoreSessions /\ q \in Nat /\ fork.met \in Nat
        /\ msgs[s] \in Seq(Messages) /\ Opens(msgs[s])
    BY <1>t, <2>1, ForkFields DEF StoreTypes, OpenedByUser
  <2>3. /\ rows \in Seq(Messages)
        /\ rows # <<>> => rows[1].role = "user"
        /\ Counted(msgs[s]) => Len(rows) = k /\ \A n \in 1 .. Len(rows) : rows[n] = msgs[s][n]
    BY <2>2, ThroughIs
  <2> HIDE DEF rows
  <2>a. end \in Nat /\ (rows # <<>> => Len(rows) \in 1 .. Len(rows) /\ end = rows[Len(rows)].seq)
    <3>1. CASE rows = <<>>
      BY <3>1 DEF Sessions!LastSeq
    <3>2. CASE rows # <<>>
      <4>1. Len(rows) \in 1 .. Len(rows) /\ rows[Len(rows)] \in Messages
        BY <2>3, <3>2
      <4>2. end = rows[Len(rows)].seq
        BY <3>2 DEF Sessions!LastSeq, Sessions!Last
      <4> QED
        BY <4>1, <4>2 DEF Messages
    <3> QED
      BY <3>1, <3>2
  <2>b. Len(msgs[s]) \in Nat /\ k \in Nat /\ k <= Len(msgs[s]) /\ DOMAIN msgs[s] = 1 .. Len(msgs[s])
    BY <2>2
  <2>5. s \notin disturbed => fork.met <= Len(msgs[s]) /\ Counted(msgs[s])
    BY <1>t, <2>1, <2>2 DEF ForksAgree, OneWriter, Counted
  <2>c. ASSUME s \notin disturbed PROVE end = k
    <3>1. Len(rows) = k /\ Counted(msgs[s]) /\ \A n \in 1 .. k : rows[n] = msgs[s][n]
      BY <2>3, <2>5, <2>c
    <3>2. CASE rows = <<>>
      <4>1. end = 0
        BY <3>2 DEF Sessions!LastSeq
      <4>2. Len(rows) = 0
        BY <3>2
      <4> QED
        BY <3>1, <4>1, <4>2
    <3>3. CASE rows # <<>>
      <4>1. k \in 1 .. k /\ end = rows[k].seq
        BY <2>a, <3>1, <3>3
      <4> QED
        BY <2>b, <3>1, <4>1 DEF Counted
    <3> QED
      BY <3>2, <3>3
  <2> HIDE DEF end
  <2>4. /\ fork' \in ForkRequests /\ fork'.session = s /\ fork'.seq = q /\ fork'.pc = "read"
        /\ fork'.rows = rows /\ fork'.met = fork.met /\ fork'.end = end
    BY <2>1, <2>2, <2>3, <2>a DEF ForkRequests
  <2>6. ASSUME s \notin disturbed PROVE SamePrefix(rows, msgs[s], end)
    BY <2>3, <2>5, <2>6, <2>b, <2>c DEF SamePrefix
  <2>8. ASSUME s \notin disturbed PROVE Ends(fork')
    <3>1. fork.met <= Len(msgs[s]) /\ end = k
      BY <2>5, <2>8, <2>c
    <3> QED
      BY <2>2, <2>4, <2>b, <3>1 DEF Ends
  <2>7. sess[s] # "none"
    BY <1>t, <2>1, <2>2 DEF Unborn
  <2> HIDE DEF k
  <2> QED
    BY <2>3, <2>4, <2>5, <2>6, <2>7, <2>8
<1> HIDE DEF Fine
<1> QED
  BY <1>1, <1>2, <1>3

\* The copy is a session of its own: its rows are numbered anew and keep their source.
LEMMA CreateKeeps ==
    ASSUME HistoryInv, NEW t \in StoreSessions, Sessions!CreateFork(t)
    PROVE  HistoryInv'
<1> DEFINE copy == Sessions!CopyToSession(fork.rows)
           s == fork.session
           q == fork.seq
<1>t. StoreTypes /\ Unborn /\ OpenedByUser /\ OneWriter /\ ForksAgree
  BY DEF HistoryInv
<1>1. /\ fork.pc = "read" /\ sess[t] = "none"
      /\ sess' = [sess EXCEPT ![t] = "live"]
      /\ msgs' = [msgs EXCEPT ![t] = copy]
      /\ forked' = [forked EXCEPT ![t] = [from |-> s, seq |-> q, met |-> fork.met, end |-> fork.end]]
      /\ fork' = Sessions!Nothing
      /\ UNCHANGED <<running, alive, appends, disturbed>>
  BY DEF Sessions!CreateFork
<1>2. /\ fork # Sessions!Nothing /\ s \in StoreSessions /\ q \in Nat /\ fork.rows \in Seq(Messages)
      /\ fork.met \in Nat /\ fork.end \in Nat
  BY <1>t, <1>1, ForkFields DEF StoreTypes
<1>3. /\ copy \in Seq(Messages) /\ Len(copy) = Len(fork.rows)
      /\ \A n \in DOMAIN fork.rows : /\ copy[n].seq = n /\ copy[n].id = fork.rows[n].id
                                     /\ copy[n].role = fork.rows[n].role
      /\ DOMAIN copy = DOMAIN fork.rows
  <2>1. copy = [n \in 1 .. Len(fork.rows) |-> [fork.rows[n] EXCEPT !.seq = n]]
    BY <1>2 DEF Sessions!CopyToSession
  <2>2. \A n \in 1 .. Len(fork.rows) : fork.rows[n] \in Messages /\ n \in Nat
    BY <1>2
  <2>3. ASSUME NEW n \in 1 .. Len(fork.rows)
        PROVE  LET row == [fork.rows[n] EXCEPT !.seq = n]
               IN  /\ row \in Messages /\ row.seq = n /\ row.id = fork.rows[n].id
                   /\ row.role = fork.rows[n].role
    BY <2>2 DEF Messages
  <2>4. Len(fork.rows) \in Nat /\ DOMAIN fork.rows = 1 .. Len(fork.rows)
    BY <1>2
  <2> QED
    BY <2>1, <2>3, <2>4
<1> HIDE DEF copy
<1>4. s # t
  BY <1>t, <1>1, <1>2 DEF Unborn
<1> HIDE DEF s, q
<1>5. /\ msgs' \in [StoreSessions -> Seq(Messages)] /\ msgs'[t] = copy
      /\ \A r \in StoreSessions : r # t => msgs'[r] = msgs[r]
  BY <1>t, <1>1, <1>3 DEF StoreTypes
<1>6. /\ forked' \in [StoreSessions -> Forks]
      /\ forked'[t].from = s /\ forked'[t].seq = q
      /\ forked'[t].met = fork.met /\ forked'[t].end = fork.end
      /\ \A r \in StoreSessions : r # t => forked'[r] = forked[r]
  BY <1>t, <1>1, <1>2 DEF StoreTypes, Forks
<1>7. /\ sess' \in [StoreSessions -> {"none", "live", "deleted"}] /\ sess'[t] = "live"
      /\ \A r \in StoreSessions : r # t => sess'[r] = sess[r]
  BY <1>t, <1>1 DEF StoreTypes
<1>8. StoreTypes'
  BY <1>t, <1>1, <1>5, <1>6, <1>7 DEF StoreTypes, ForkRequests
<1>9. sess[s] # "none"
  BY <1>t, <1>2 DEF Unborn, s
<1>10. Unborn'
  <2> SUFFICES ASSUME NEW r \in StoreSessions, sess'[r] = "none"
               PROVE  /\ msgs'[r] = <<>> /\ r \notin running' /\ r \notin alive'
                      /\ \A a \in appends' : a.session # r
                      /\ \A x \in StoreSessions : forked'[x].from = r => x = r
    BY <1>1 DEF Unborn
  <2>1. r # t /\ sess[r] = "none"
    BY <1>7
  <2>2. r # s
    BY <1>9, <2>1
  <2> QED
    BY <1>t, <1>1, <1>5, <1>6, <2>1, <2>2 DEF Unborn
<1>11. t \notin alive /\ \A a \in appends : a.session # t
  BY <1>t, <1>1 DEF Unborn
<1>12. OpenedByUser'
  <2>1. copy # <<>> => copy[1].role = "user" /\ copy[1].seq = 1
    <3>1. CASE fork.rows # <<>>
      <4>1. 1 \in DOMAIN fork.rows
        BY <1>2, <3>1
      <4> QED
        BY <1>t, <1>1, <1>3, <3>1, <4>1 DEF OpenedByUser
    <3>2. CASE fork.rows = <<>>
      <4>1. Len(copy) = 0
        BY <1>3, <3>2
      <4> QED
        BY <1>3, <4>1
    <3> QED
      BY <3>1, <3>2
  <2>2. Opens(copy)
    <3>1. \A n \in DOMAIN copy : n # 1 => copy[n].seq >= 2
      BY <1>2, <1>3
    <3> QED
      BY <2>1, <3>1 DEF Opens
  <2>3. \A r \in StoreSessions : Opens(msgs'[r])
    BY <1>t, <1>5, <2>2 DEF OpenedByUser
  <2>4. \A r \in alive' : msgs'[r] # <<>>
    BY <1>t, <1>1, <1>5, <1>11 DEF OpenedByUser, StoreTypes
  <2>5. \A a \in appends' : IF msgs'[a.session] = <<>> THEN a.role = "user" /\ a.seq = 1 ELSE a.seq >= 2
    BY <1>t, <1>1, <1>5, <1>11 DEF OpenedByUser, StoreTypes, PendingAppends
  <2> QED
    BY <1>t, <1>1, <2>3, <2>4, <2>5 DEF OpenedByUser, Sessions!Nothing
<1>13. OneWriter'
  <2>1. \A n \in DOMAIN copy : copy[n].seq = n
    BY <1>3
  <2> QED
    BY <1>t, <1>1, <1>5, <1>11, <2>1 DEF OneWriter
<1>14. s \notin disturbed => Ends(forked'[t]) /\ SamePrefix(copy, msgs[s], fork.end)
  <2> SUFFICES ASSUME s \notin disturbed
               PROVE  Ends(forked'[t]) /\ SamePrefix(copy, msgs[s], fork.end)
    OBVIOUS
  <2>1. Ends(fork) /\ SamePrefix(fork.rows, msgs[s], fork.end)
    BY <1>t, <1>1, <1>2 DEF ForksAgree, s
  <2>2. \A n \in 1 .. fork.end : n \in DOMAIN fork.rows
    BY <1>2, <2>1 DEF SamePrefix
  <2>3. Ends(forked'[t])
    BY <1>6, <2>1 DEF Ends, q
  <2> QED
    BY <1>3, <2>1, <2>2, <2>3 DEF SamePrefix
<1>15. ForksAgree'
  <2> SUFFICES ASSUME NEW r \in StoreSessions, forked'[r].from # r, forked'[r].from \notin disturbed
               PROVE  Ends(forked'[r]) /\ SamePrefix(msgs'[r], msgs'[forked'[r].from], forked'[r].end)
    BY <1>1 DEF ForksAgree
  <2>1. CASE r = t
    BY <1>2, <1>4, <1>5, <1>6, <1>14, <2>1 DEF s
  <2>2. CASE r # t
    <3>1. forked'[r] = forked[r] /\ forked[r].from \in StoreSessions
      BY <1>t, <1>6, <2>2 DEF StoreTypes, Forks
    <3>2. forked[r].from # t
      BY <1>t, <1>1, <2>2 DEF Unborn
    <3> QED
      BY <1>t, <1>5, <2>2, <3>1, <3>2 DEF ForksAgree
  <2> QED
    BY <2>1, <2>2
<1> QED
  BY <1>8, <1>10, <1>12, <1>13, <1>15 DEF HistoryInv

\* The messages of all sessions keep their invariant.
LEMMA HistoryKeeps ==
    ASSUME HistoryInv, Sessions!StoreAssumption, Sessions!Next \/ UNCHANGED s_vars
    PROVE  HistoryInv'
<1>1. ASSUME NEW s \in StoreSessions, Sessions!StartRun(s) PROVE HistoryInv'
  <2>1. /\ sess[s] # "none" /\ s \notin running /\ Sessions!BeginAppend(s, "user")
        /\ running' = running \cup {s}
        /\ UNCHANGED <<sess, msgs, forked, alive, fork, disturbed>>
    BY <1>1 DEF Sessions!StartRun
  <2> QED
    BY <2>1, AppendBegins DEF Roles
<1>2. ASSUME NEW s \in StoreSessions, Sessions!Delta(s) PROVE HistoryInv'
  <2>1. /\ s \in alive
        /\ UNCHANGED <<sess, msgs, forked, running, alive, fork, disturbed>>
    BY <1>2 DEF Sessions!Delta
  <2>2. PICK role \in {"assistant", "subagent"} : Sessions!BeginAppend(s, role)
    BY <1>2 DEF Sessions!Delta
  <2>3. sess[s] # "none" /\ role \in Roles /\ role # "user"
    BY <2>1, <2>2 DEF HistoryInv, Unborn, Roles
  <2> QED
    BY <2>1, <2>2, <2>3, AppendBegins
<1>3. ASSUME NEW s \in StoreSessions, Sessions!FinishRun(s) \/ Sessions!Delete(s) PROVE HistoryInv'
  BY <1>3, EndKeeps
<1>4. ASSUME NEW a \in appends, Sessions!Insert(a) PROVE HistoryInv'
  BY <1>4, InsertKeeps
<1>5. ASSUME NEW s \in StoreSessions, NEW kind \in Sessions!Kinds, NEW req \in Sessions!Asked(kind),
             Sessions!BeginCompact(s, req, kind)
      PROVE  HistoryInv'
  BY <1>5, HistoryFrame DEF Sessions!BeginCompact
<1>6. ASSUME NEW s \in StoreSessions, NEW seq \in ForkPoints, Sessions!BeginFork(s, seq)
      PROVE  HistoryInv'
  BY <1>6, ForkReads DEF Sessions!StoreAssumption
<1>7. CASE Sessions!Compacting
  <2>1. CASE Sessions!Paused
    BY <2>1, PauseKeeps
  <2>2. CASE Sessions!Plan \/ Sessions!SummaryFails \/ Sessions!ReturnPreview \/ Sessions!Apply
    BY <2>2, HistoryFrame DEF Sessions!Plan, Sessions!SummaryFails, Sessions!ReturnPreview, Sessions!Apply
  <2> QED
    BY <1>7, <2>1, <2>2 DEF Sessions!Compacting
<1>8. CASE Sessions!Forking
  BY <1>8, ForkReads, CreateKeeps DEF Sessions!Forking
<1>9. CASE UNCHANGED s_vars
  BY <1>9, HistoryFrame DEF s_vars
<1> QED
  BY <1>1, <1>2, <1>3, <1>4, <1>5, <1>6, <1>7, <1>8, <1>9 DEF Sessions!Next

\* A behaviour starts with one session without messages.
LEMMA HistoryStart ==
    ASSUME Sessions!Init, Sessions!StoreAssumption
    PROVE  HistoryInv
<1>1. /\ sess \in [StoreSessions -> {"none", "live", "deleted"}]
      /\ msgs = [s \in StoreSessions |-> <<>>]
      /\ forked = [s \in StoreSessions |-> [from |-> s, seq |-> 0, met |-> 0, end |-> 0]]
      /\ running = {} /\ alive = {} /\ appends = {} /\ fork = Sessions!Nothing
  BY DEF Sessions!Init
<1>2. \A s \in StoreSessions : msgs[s] = <<>> /\ DOMAIN msgs[s] = {}
  BY <1>1
<1>3. StoreTypes
  BY <1>1, <1>2 DEF StoreTypes, Forks, ForkRequests
<1>4. Unborn /\ OpenedByUser /\ OneWriter /\ ForksAgree
  BY <1>1, <1>2 DEF Unborn, OpenedByUser, Opens, OneWriter, ForksAgree, Sessions!Nothing
<1> QED
  BY <1>3, <1>4 DEF HistoryInv

\* The invariant of the messages holds in every behaviour.
LEMMA HistorySafety == Spec => []HistoryInv
<1>1. Init => HistoryInv
  BY AllStoresStart, HistoryStart, StoreAssumption
<1>2. HistoryInv /\ [Next]_vars => HistoryInv'
  BY OneStoreMoves, HistoryKeeps, StoreAssumption
<1> QED
  BY <1>1, <1>2, PTL DEF Spec, vars

\* Messages of a session are numbered without gaps, by two goroutines that read a
\* number and use it later, and a fork has the messages of its source up to the
\* last seq of its lineage: up to the fork point, if the source had got there.  A
\* run of the session or of its source that went on after its end is exempt.
THEOREM HistoryStaysIntact == Spec => []HistoryIntact
<1>1. ASSUME HistoryInv, NEW s \in StoreSessions, Sessions!Calm(s)
      PROVE  (\A n \in DOMAIN msgs[s] : msgs[s][n].seq = n) /\ Sessions!ForkIsPrefix(s)
  <2> DEFINE f == forked[s].from
             q == forked[s].seq
             e == forked[s].end
             met == forked[s].met
  <2>1. s \notin disturbed /\ f \notin disturbed
    BY <1>1 DEF Sessions!Calm, Sessions!Lineage
  <2>2. /\ f \in StoreSessions /\ q \in Nat /\ e \in Nat /\ met \in Nat
        /\ msgs[f] \in Seq(Messages) /\ msgs[s] \in Seq(Messages)
    BY <1>1 DEF HistoryInv, StoreTypes, Forks
  <2>3. Counted(msgs[s]) /\ Counted(msgs[f])
    BY <1>1, <2>1, <2>2 DEF HistoryInv, OneWriter, Counted
  <2>4. ASSUME f # s
        PROVE  /\ Sessions!Ids(SubSeq(msgs[s], 1, Sessions!Min({e, Len(msgs[s])})))
                    = {r.id : r \in {x \in Sessions!Range(msgs[f]) : x.seq <= e}}
               /\ q > 0 => e \in Sessions!Min({q, met}) .. q
    <3>1. SamePrefix(msgs[s], msgs[f], e) /\ Ends(forked[s])
      BY <1>1, <2>1, <2>4 DEF HistoryInv, ForksAgree
    <3>2. e <= Len(msgs[s]) /\ e <= Len(msgs[f]) /\ Len(msgs[s]) \in Nat /\ Len(msgs[f]) \in Nat
      BY <2>2, <3>1 DEF SamePrefix
    <3>3. Sessions!Min({e, Len(msgs[s])}) = e
      BY <2>2, <3>2 DEF Sessions!Min
    <3> DEFINE b == SubSeq(msgs[s], 1, e)
               R == {x \in Sessions!Range(msgs[f]) : x.seq <= e}
    <3>4. b \in Seq(Messages) /\ Len(b) = e /\ \A n \in 1 .. e : b[n] = msgs[s][n]
      <4>1. e \in 0 .. Len(msgs[s])
        BY <2>2, <3>2
      <4> QED
        BY <2>2, <4>1, SubSeqIs
    <3> HIDE DEF b
    <3>5. Sessions!Ids(b) = {msgs[f][n].id : n \in 1 .. e}
      <4>1. DOMAIN b = 1 .. e
        BY <3>4
      <4>2. \A n \in 1 .. e : b[n].id = msgs[f][n].id
        BY <3>1, <3>4 DEF SamePrefix
      <4> QED
        BY <4>1, <4>2 DEF Sessions!Ids
    <3>6. R = {msgs[f][n] : n \in 1 .. e}
      <4>1. DOMAIN msgs[f] = 1 .. Len(msgs[f])
        BY <2>2
      <4>2. \A n \in DOMAIN msgs[f] : msgs[f][n].seq <= e <=> n \in 1 .. e
        BY <2>2, <2>3, <3>2, <4>1 DEF Counted
      <4>3. Sessions!Range(msgs[f]) = {msgs[f][n] : n \in DOMAIN msgs[f]}
        BY DEF Sessions!Range
      <4>4. 1 .. e \subseteq DOMAIN msgs[f]
        BY <2>2, <3>2, <4>1
      <4> HIDE DEF f, e
      <4> QED
        BY <4>2, <4>3, <4>4
    <3>7. {r.id : r \in R} = {msgs[f][n].id : n \in 1 .. e}
      BY <3>6
    <3>8. q > 0 => e \in Sessions!Min({q, met}) .. q
      <4>1. q > 0 => e <= q /\ (q <= e \/ met <= e)
        BY <3>1 DEF Ends
      <4> HIDE DEF q, met, e
      <4>2. CASE q <= met
        <5>1. Sessions!Min({q, met}) = q
          BY <2>2, <4>2 DEF Sessions!Min
        <5> QED
          BY <2>2, <4>1, <4>2, <5>1
      <4>3. CASE met <= q
        <5>1. Sessions!Min({q, met}) = met
          BY <2>2, <4>3 DEF Sessions!Min
        <5> QED
          BY <2>2, <4>1, <4>3, <5>1
      <4> QED
        BY <2>2, <4>2, <4>3
    <3> QED
      BY <3>3, <3>5, <3>7, <3>8 DEF b
  <2> HIDE DEF f, q, e, met
  <2>5. Sessions!ForkIsPrefix(s)
    BY <2>4 DEF Sessions!ForkIsPrefix, f, q, e, met
  <2> QED
    BY <2>3, <2>5 DEF Counted
<1>2. HistoryInv => HistoryIntact
  BY <1>1 DEF HistoryIntact, Sessions!HistoryIntact
<1> QED
  BY <1>2, HistorySafety, PTL

\* What a plan or a snapshot stands for: what was summarised is of its range, and
\* no message of its range is left out but those before the start asked for.
Describes(x, rows) ==
    /\ x.start \in Nat /\ x.end \in Nat /\ x.from \in Nat
    /\ \A id \in x.covered : \E n \in 1 .. Len(rows) : rows[n].id = id /\ x.start <= n /\ n <= x.end
Covers(x, rows) ==
    x.end <= Len(rows) /\ \A n \in 1 .. x.end : rows[n].id \in x.covered \/ n < x.from

\* A plan is one for the messages that were there when it was made.
Planned(x, rows) ==
    /\ x.count \in 1 .. Len(rows)
    /\ x.plan = Sessions!PlanCompaction(SubSeq(rows, 1, x.count), x.req)
Previewed ==
    preview # Sessions!Nothing =>
        /\ preview.session \in StoreSessions /\ sess[preview.session] # "none"
        /\ preview.session \notin disturbed => preview.req \in Sessions!CompactRequest
        /\ Planned(preview, msgs[preview.session])

\* The summary of a preview comes with one of the two requests a client can make of it.
FromPreview(session, req) ==
    preview # Sessions!Nothing /\ preview.session = session /\ req \in {preview.req, Sessions!SendsRange}
Requested ==
    compact # Sessions!Nothing =>
        /\ compact.session \in StoreSessions /\ sess[compact.session] # "none"
        /\ compact.kind \in Sessions!Kinds
        /\ compact.session \notin disturbed => compact.req \in Sessions!CompactRequest
        /\ compact.kind = "applyPreview" => FromPreview(compact.session, compact.req)
        /\ compact.pc \in {"pausing", "planning"} =>
              compact = [pc |-> compact.pc, session |-> compact.session, req |-> compact.req,
                         kind |-> compact.kind]
        /\ compact.pc = "summarising" => Planned(compact, msgs[compact.session])

\* The stored snapshots cover their ranges.
Snapped ==
    /\ snap = [s \in StoreSessions |-> snap[s]]
    /\ \A s \in StoreSessions : sess[s] = "none" => snap[s] = Sessions!NoSnap
    /\ \A s \in StoreSessions \ disturbed :
          snap[s].faithful => Describes(snap[s], msgs[s]) /\ Covers(snap[s], msgs[s])
SummariesSound == Previewed /\ Requested /\ Snapped

\* The K-th position from the end of a set of positions.
LEMMA FromTheEnd ==
    ASSUME NEW K \in SUBSET Nat, IsFiniteSet(K), NEW i \in 1 .. Cardinality(K)
    PROVE  \E n \in K : Cardinality({m \in K : m >= n}) = i
<1> DEFINE U(n) == {m \in K : m >= n}
           D == [n \in K |-> U(n)]
<1>0. \A x, y, z \in K : x <= y /\ y <= z => x <= z
  <2>1. \A x \in K : x \in Nat
    OBVIOUS
  <2> QED
    BY <2>1
<1>1. \A n \in K : n \in Nat /\ D[n] = U(n) /\ U(n) \subseteq K /\ n \in U(n)
  OBVIOUS
<1>2. D \in [K -> SUBSET K] /\ \A n \in K : n \in D[n]
  BY <1>1
<1>3. ASSUME NEW m \in K, NEW n \in K
      PROVE  (D[m] \subseteq D[n] \/ D[n] \subseteq D[m]) /\ (D[m] = D[n] => m = n)
  <2>1. m \in Nat /\ n \in Nat /\ D[m] = U(m) /\ D[n] = U(n) /\ m \in U(m) /\ n \in U(n)
    BY <1>1
  <2>2. (m \in U(n) <=> m >= n) /\ (n \in U(m) <=> n >= m)
    OBVIOUS
  <2>3. ASSUME n <= m PROVE U(m) \subseteq U(n)
    BY <1>0, <2>3
  <2>4. ASSUME m <= n PROVE U(n) \subseteq U(m)
    BY <1>0, <2>4
  <2> HIDE DEF D, U
  <2>5. D[m] = D[n] => m <= n /\ n <= m
    BY <2>1, <2>2
  <2>6. m <= n \/ n <= m
    BY <2>1
  <2> QED
    BY <2>1, <2>3, <2>4, <2>5, <2>6
<1>a. \A m, n \in K : D[m] \subseteq D[n] \/ D[n] \subseteq D[m]
  BY <1>3
<1>b. \A m, n \in K : D[m] = D[n] => m = n
  BY <1>3
<1> HIDE DEF D
<1>c. \A j \in 1 .. Cardinality(K) : \E n \in K : Cardinality(D[n]) = j
  BY <1>2, <1>a, <1>b, Ranks
<1>4. PICK n \in K : Cardinality(D[n]) = i
  BY <1>c
<1> QED
  BY <1>1, <1>4

\* A plan by turns keeps at least the last turn and starts behind the first message.
LEMMA TailIs ==
    ASSUME KeepTurns \in Nat \ {0}, NEW all \in Seq(Messages), all # <<>>, all[1].role = "user"
    PROVE  /\ Sessions!TailStart(all) \in 2 .. Len(all) + 1
           /\ Sessions!Users(all) # {1} => Sessions!TailStart(all) <= Len(all)
<1> DEFINE users == {n \in DOMAIN all : all[n].role = "user"}
           count == Cardinality(users)
           tail == Sessions!TailStart(all)
           FromEnd(n) == Cardinality({m \in users : m >= n})
<1>1. DOMAIN all = 1 .. Len(all) /\ Len(all) \in Nat /\ Len(all) >= 1
  OBVIOUS
<1>2. /\ users \subseteq 1 .. Len(all) /\ 1 \in users /\ users \in SUBSET Nat
      /\ \A n \in users : n \in Nat /\ n >= 1 /\ n <= Len(all)
  BY <1>1
<1>3. IsFiniteSet(users) /\ count \in Nat
  <2>1. IsFiniteSet(1 .. Len(all))
    BY <1>1, IntervalSize
  <2> QED
    BY <1>2, <2>1, FS_Subset, FS_CardinalityType
<1>4. count # 0
  BY <1>2, <1>3, FS_EmptySet
<1> DEFINE kept == CHOOSE n \in users : FromEnd(n) = KeepTurns
<1>5. tail = IF count > KeepTurns THEN kept ELSE IF users = {1} THEN 2 ELSE Sessions!Max(users)
  <2>1. Sessions!Cardinality(users) = count
    BY SessionCount
  <2>2. tail = IF Sessions!Cardinality(users) = 0
               THEN Sessions!Max({0, Len(all) - 2 * KeepTurns}) + 1
               ELSE IF Sessions!Cardinality(users) > KeepTurns
                    THEN kept
               ELSE IF users = {1} THEN 2 ELSE Sessions!Max(users)
    BY Zenon DEF Sessions!TailStart, Sessions!Users, Sessions!Cardinality, Cardinality
  <2> HIDE DEF users, count, tail, kept
  <2> QED
    BY <1>4, <2>1, <2>2
<1>u. Sessions!Users(all) = users
  BY DEF Sessions!Users
<1> HIDE DEF users, count, tail
<1>6. CASE count > KeepTurns
  <2>1. KeepTurns \in 1 .. count
    BY <1>3, <1>6
  <2>2. \E n \in users : FromEnd(n) = KeepTurns
    BY <1>2, <1>3, <2>1, FromTheEnd DEF count
  <2> HIDE DEF FromEnd
  <2>3. tail \in users /\ FromEnd(tail) = KeepTurns
    BY <1>5, <1>6, <2>2
  <2>4. FromEnd(1) = count
    <3>1. {m \in users : m >= 1} = users
      BY <1>2
    <3> QED
      BY <3>1 DEF FromEnd, count
  <2>5. tail # 1
    BY <1>3, <1>6, <2>3, <2>4
  <2>6. tail \in Nat /\ tail >= 1 /\ tail <= Len(all)
    BY <1>2, <2>3
  <2> QED
    BY <1>1, <2>5, <2>6 DEF tail
<1>7. CASE ~(count > KeepTurns) /\ users = {1}
  BY <1>1, <1>5, <1>7, <1>u DEF tail
<1>8. CASE ~(count > KeepTurns) /\ users # {1}
  <2>1. \E n \in users : \A m \in users : m <= n
    BY <1>2, <1>3, LastExists
  <2>2. tail \in users /\ \A m \in users : m <= tail
    BY <1>2, <1>5, <1>8, <2>1 DEF Sessions!Max
  <2>3. tail # 1
    <3>1. ASSUME tail = 1, NEW m \in users PROVE m = 1
      BY <1>2, <2>2, <3>1
    <3> QED
      BY <1>2, <1>8, <3>1
  <2>4. tail \in Nat /\ tail >= 1 /\ tail <= Len(all)
    BY <1>2, <2>2
  <2> QED
    BY <1>1, <2>3, <2>4 DEF tail
<1> QED
  BY <1>6, <1>7, <1>8 DEF tail

\* A plan, by turns or by a number of messages, covers its range, if its end was
\* not asked for beyond the last message.
LEMMA PlanCovers ==
    ASSUME NEW rows \in Seq(Messages), NEW req \in Sessions!CompactRequest,
           KeepTurns \in Nat \ {0}, Page \in Nat \ {0},
           rows # <<>>, Opens(rows), Counted(rows)
    PROVE  LET plan == Sessions!PlanCompaction(rows, req)
           IN  /\ plan.start \in Nat \ {0} /\ plan.end \in Nat /\ plan.start <= plan.end
               /\ plan.from = req.start /\ plan.last \in 1 .. Len(rows)
               /\ Describes(plan, rows)
               /\ plan.end <= plan.last => Covers(plan, rows)
<1> DEFINE len == Sessions!Min({Len(rows), Page})
           all == SubSeq(rows, 1, len)
           plan == Sessions!PlanCompaction(rows, req)
           byCount == Sessions!PlanByCount(all, req)
           byTurns == Sessions!PlanByTurns(all, req.start)
           made == IF req.end > 0 \/ req.keep > 0 THEN byCount ELSE byTurns
<1>1. Len(rows) \in Nat /\ Len(rows) >= 1 /\ DOMAIN rows = 1 .. Len(rows)
  OBVIOUS
<1>2. len \in Nat /\ len >= 1 /\ len <= Len(rows)
  BY <1>1 DEF Sessions!Min
<1> HIDE DEF len
<1>3. /\ all \in Seq(Messages) /\ Len(all) = len
      /\ \A n \in 1 .. len : all[n] = rows[n]
  BY <1>1, <1>2, SubSeqIs
<1>4. Sessions!FirstPage(Sessions!BySeq(rows)) = all
  BY BySeqIs DEF Sessions!FirstPage, len
<1> HIDE DEF all
<1>5. DOMAIN all = 1 .. len /\ all # <<>> /\ all[1].role = "user"
  <2>1. DOMAIN all = 1 .. len /\ 1 \in 1 .. len
    BY <1>2, <1>3
  <2> QED
    BY <1>3, <2>1 DEF Opens
<1>6. \A n \in 1 .. len : all[n].seq = n
  BY <1>1, <1>2, <1>3 DEF Counted
<1>7. Sessions!Last(all).seq = len
  BY <1>2, <1>3, <1>6 DEF Sessions!Last
<1>8. plan = [start |-> made.start, end |-> made.end, covered |-> made.covered,
              from |-> req.start, last |-> len]
  BY <1>4, <1>7 DEF Sessions!PlanCompaction
<1>9. req.start \in Nat /\ req.end \in Nat /\ req.keep \in Nat
  BY DEF Sessions!CompactRequest
<1> DEFINE Good(x) == /\ x.start \in Nat \ {0} /\ x.end \in Nat /\ x.start <= x.end
                      /\ \A id \in x.covered :
                            \E n \in 1 .. len : rows[n].id = id /\ x.start <= n /\ n <= x.end
                      /\ x.end <= len =>
                            \A n \in 1 .. x.end : rows[n].id \in x.covered \/ n < req.start
<1>10. ASSUME Good(made)
       PROVE  /\ plan.start \in Nat \ {0} /\ plan.end \in Nat /\ plan.start <= plan.end
              /\ plan.from = req.start /\ plan.last \in 1 .. Len(rows)
              /\ Describes(plan, rows)
              /\ plan.end <= plan.last => Covers(plan, rows)
  <2>1. /\ plan.start = made.start /\ plan.end = made.end /\ plan.covered = made.covered
        /\ plan.from = req.start /\ plan.last = len
    BY <1>8
  <2> HIDE DEF plan, made
  <2>2. Describes(plan, rows)
    <3>1. \A n \in 1 .. len : n \in 1 .. Len(rows)
      BY <1>1, <1>2
    <3> QED
      BY <1>9, <1>10, <2>1, <3>1 DEF Describes
  <2>3. plan.end <= plan.last => Covers(plan, rows)
    BY <1>1, <1>2, <1>10, <2>1 DEF Covers
  <2> QED
    BY <1>1, <1>2, <1>10, <2>1, <2>2, <2>3
<1>11. Good(byCount)
  <2> DEFINE start == IF req.start = 0 THEN all[1].seq ELSE req.start
             till == IF req.end > 0 THEN req.end
                     ELSE IF req.keep < len THEN len - req.keep ELSE len
             end == Sessions!Max({start, till})
             ids == {all[n].id : n \in {m \in DOMAIN all : all[m].seq \in start .. end}}
  <2>1. byCount = [start |-> start, end |-> end, covered |-> ids]
    BY <1>7 DEF Sessions!PlanByCount
  <2>2. start \in Nat \ {0} /\ till \in Nat /\ (req.start = 0 => start = 1)
    BY <1>2, <1>6, <1>9
  <2>3. end \in Nat /\ start <= end
    <3> HIDE DEF start, till
    <3>1. CASE start <= till
      <4>1. Sessions!Max({start, till}) = till
        BY <2>2, <3>1 DEF Sessions!Max
      <4> QED
        BY <2>2, <3>1, <4>1
    <3>2. CASE till <= start
      <4>1. Sessions!Max({start, till}) = start
        BY <2>2, <3>2 DEF Sessions!Max
      <4> QED
        BY <2>2, <4>1
    <3> QED
      BY <2>2, <3>1, <3>2
  <2>4. req.start # 0 => start = req.start
    OBVIOUS
  <2> HIDE DEF start, end
  <2>5. byCount.start = start /\ byCount.end = end /\ byCount.covered = ids
    BY <2>1
  <2>6. ASSUME NEW id \in ids
        PROVE  \E n \in 1 .. len : rows[n].id = id /\ start <= n /\ n <= end
    <3>1. PICK n \in DOMAIN all : all[n].seq \in start .. end /\ id = all[n].id
      OBVIOUS
    <3>2. n \in 1 .. len /\ n \in start .. end /\ rows[n].id = id
      BY <1>3, <1>5, <1>6, <3>1
    <3> QED
      BY <3>2
  <2>7. ASSUME end <= len, NEW n \in 1 .. end PROVE rows[n].id \in ids \/ n < req.start
    <3>1. n \in 1 .. len /\ n \in DOMAIN all /\ all[n] = rows[n] /\ all[n].seq = n
      BY <1>2, <1>3, <1>5, <1>6, <2>3, <2>7
    <3>2. CASE n >= start
      BY <2>2, <2>3, <3>1, <3>2
    <3>3. CASE n < start
      BY <1>9, <2>2, <2>4, <3>1, <3>3
    <3> QED
      BY <2>2, <3>1, <3>2, <3>3
  <2> HIDE DEF byCount, ids
  <2> QED
    BY <2>2, <2>3, <2>5, <2>6, <2>7
<1>12. Good(byTurns)
  <2> DEFINE from == req.start
             tail == Sessions!TailStart(all)
             head == Sessions!Summarised(all, from)
             lone == Sessions!Users(all) = {1}
             none == Sessions!Max({1, all[tail].seq - 1})
             start == IF head = {} THEN none ELSE all[Sessions!Min(head)].seq
             end == IF head = {} THEN none ELSE all[tail - 1].seq
             ids == {all[n].id : n \in head}
  <2>1. byTurns = [start |-> start, end |-> end, covered |-> ids]
    BY DEF Sessions!PlanByTurns
  <2>2. tail \in 2 .. len + 1 /\ (~lone => tail <= len)
    BY <1>3, <1>5, TailIs
  <2>3. head = {n \in 1 .. tail - 1 : all[n].seq >= from \/ lone}
    BY DEF Sessions!Summarised
  <2> HIDE DEF tail, lone, head
  <2>4. tail - 1 \in 1 .. len
    BY <1>2, <2>2
  <2>5. \A n \in 1 .. tail - 1 : n \in 1 .. len /\ all[n].seq = n /\ all[n] = rows[n]
    BY <1>2, <1>3, <1>6, <2>4
  <2>6. head = {n \in 1 .. tail - 1 : n >= from \/ lone}
    BY <2>3, <2>5
  <2>7. start \in Nat \ {0} /\ end = tail - 1 /\ start <= end /\ \A n \in head : start <= n
    <3>1. CASE head = {}
      <4>1. ~lone
        BY <2>4, <2>6, <3>1
      <4>2. tail \in 1 .. len /\ all[tail].seq = tail
        BY <1>2, <1>6, <2>2, <4>1
      <4>3. none = tail - 1
        BY <2>4, <4>2 DEF Sessions!Max
      <4> HIDE DEF none
      <4> QED
        BY <2>4, <3>1, <4>3
    <3>2. CASE head # {}
      <4>1. head \in SUBSET Nat
        BY <2>4, <2>6
      <4>2. \E n \in head : \A m \in head : n <= m
        BY <3>2, <4>1, Least
      <4>3. Sessions!Min(head) \in head /\ \A m \in head : Sessions!Min(head) <= m
        BY <4>2 DEF Sessions!Min
      <4>4. Sessions!Min(head) \in 1 .. tail - 1
        BY <2>6, <4>3
      <4>5. start = Sessions!Min(head) /\ end = tail - 1
        <5>1. all[Sessions!Min(head)].seq = Sessions!Min(head) /\ all[tail - 1].seq = tail - 1
          BY <2>4, <2>5, <4>4
        <5> QED
          BY <3>2, <5>1
      <4> HIDE DEF start, end
      <4> QED
        BY <2>4, <4>3, <4>4, <4>5
    <3> QED
      BY <3>1, <3>2
  <2> HIDE DEF start, end
  <2>8. byTurns.start = start /\ byTurns.end = end /\ byTurns.covered = ids
    BY <2>1
  <2>9. ASSUME NEW id \in ids
        PROVE  \E n \in 1 .. len : rows[n].id = id /\ start <= n /\ n <= end
    <3>1. PICK n \in head : id = all[n].id
      OBVIOUS
    <3>2. n \in 1 .. tail - 1 /\ start <= n
      BY <2>6, <2>7, <3>1
    <3>3. n \in 1 .. len /\ rows[n].id = id /\ n <= end
      BY <2>4, <2>5, <2>7, <3>1, <3>2
    <3> QED
      BY <3>2, <3>3
  <2>10. ASSUME NEW n \in 1 .. end PROVE rows[n].id \in ids \/ n < req.start
    <3>1. n \in 1 .. tail - 1 /\ all[n] = rows[n]
      BY <2>5, <2>7, <2>10
    <3>2. CASE n \in head
      BY <3>1, <3>2
    <3>3. CASE n \notin head
      BY <1>9, <2>4, <2>6, <3>1, <3>3
    <3> QED
      BY <3>2, <3>3
  <2> HIDE DEF byTurns, ids
  <2>11. end \in Nat
    BY <2>4, <2>7
  <2> QED
    BY <2>7, <2>8, <2>9, <2>10, <2>11
<1>13. Good(made)
  BY <1>11, <1>12
<1> QED
  BY <1>10, <1>13

\* Rows are added behind those that are there.
HistoryGrows ==
    \A s \in StoreSessions :
        /\ Len(msgs[s]) \in Nat /\ Len(msgs'[s]) \in Nat /\ Len(msgs[s]) <= Len(msgs'[s])
        /\ \A n \in 1 .. Len(msgs[s]) : msgs'[s][n] = msgs[s][n]

\* What covers its range does so when rows are added.
LEMMA CoversOn ==
    ASSUME NEW old, NEW new, NEW x, Len(old) \in Nat, Len(new) \in Nat, Len(old) <= Len(new),
           \A n \in 1 .. Len(old) : new[n] = old[n]
    PROVE  /\ Describes(x, old) => Describes(x, new)
           /\ x.end \in Nat /\ Covers(x, old) => Covers(x, new)
<1>1. ASSUME Describes(x, old) PROVE Describes(x, new)
  <2>1. ASSUME NEW id \in x.covered
        PROVE  \E n \in 1 .. Len(new) : new[n].id = id /\ x.start <= n /\ n <= x.end
    <3>1. PICK n \in 1 .. Len(old) : old[n].id = id /\ x.start <= n /\ n <= x.end
      BY <1>1 DEF Describes
    <3>2. n \in 1 .. Len(new) /\ new[n] = old[n]
      OBVIOUS
    <3> QED
      BY <3>1, <3>2
  <2> QED
    BY <1>1, <2>1 DEF Describes
<1>2. ASSUME x.end \in Nat, Covers(x, old) PROVE Covers(x, new)
  <2>1. x.end <= Len(old) /\ \A n \in 1 .. x.end : old[n].id \in x.covered \/ n < x.from
    BY <1>2 DEF Covers
  <2>2. \A n \in 1 .. x.end : n \in 1 .. Len(old)
    BY <1>2, <2>1
  <2>3. x.end <= Len(new)
    BY <1>2, <2>1
  <2> QED
    BY <2>1, <2>2, <2>3 DEF Covers
<1> QED
  BY <1>1, <1>2

\* Every step adds rows at most.
LEMMA HistoryOnlyGrows ==
    ASSUME HistoryInv, HistoryInv', Sessions!Next \/ UNCHANGED s_vars
    PROVE  /\ HistoryGrows
           /\ disturbed \subseteq disturbed'
           /\ \A s \in StoreSessions : sess'[s] = "none" => sess[s] = "none"
<1>t. /\ msgs \in [StoreSessions -> Seq(Messages)] /\ msgs' \in [StoreSessions -> Seq(Messages)]
      /\ sess \in [StoreSessions -> {"none", "live", "deleted"}]
      /\ appends \in SUBSET PendingAppends
  BY DEF HistoryInv, StoreTypes
<1>1. ASSUME msgs' = msgs PROVE HistoryGrows
  <2>1. \A s \in StoreSessions : Len(msgs[s]) \in Nat
    BY <1>t
  <2> QED
    BY <1>1, <2>1 DEF HistoryGrows
<1>2. ASSUME NEW a \in appends, Sessions!Insert(a) PROVE HistoryGrows
  <2>1. PICK row : msgs' = [msgs EXCEPT ![a.session] = Append(msgs[a.session], row)]
    BY <1>2 DEF Sessions!Insert
  <2>2. ASSUME NEW s \in StoreSessions, s # a.session PROVE msgs'[s] = msgs[s] /\ Len(msgs[s]) \in Nat
    BY <1>t, <2>1, <2>2
  <2>3. ASSUME NEW s \in StoreSessions, s = a.session
        PROVE  /\ Len(msgs[s]) \in Nat /\ Len(msgs'[s]) = Len(msgs[s]) + 1
               /\ \A n \in 1 .. Len(msgs[s]) : msgs'[s][n] = msgs[s][n]
    <3>1. msgs[s] \in Seq(Messages) /\ msgs'[s] = Append(msgs[s], row)
      BY <1>t, <2>1, <2>3
    <3> QED
      BY <3>1
  <2> QED
    BY <2>2, <2>3 DEF HistoryGrows
<1>3. ASSUME NEW t \in StoreSessions, Sessions!CreateFork(t) PROVE HistoryGrows
  <2>1. msgs' = [msgs EXCEPT ![t] = Sessions!CopyToSession(fork.rows)] /\ msgs[t] = <<>>
    BY <1>3 DEF Sessions!CreateFork, HistoryInv, Unborn
  <2>2. \A s \in StoreSessions : s # t => msgs'[s] = msgs[s]
    BY <1>t, <2>1
  <2>3. Len(msgs[t]) = 0
    BY <2>1
  <2>4. \A s \in StoreSessions : Len(msgs[s]) \in Nat /\ Len(msgs'[s]) \in Nat
    BY <1>t
  <2> QED
    BY <2>2, <2>3, <2>4 DEF HistoryGrows
<1>4. ASSUME NEW s \in StoreSessions, Sessions!Delete(s) \/ Sessions!CreateFork(s)
      PROVE  \A r \in StoreSessions : sess'[r] = "none" => sess[r] = "none"
  BY <1>t, <1>4 DEF Sessions!Delete, Sessions!CreateFork
<1>5. CASE UNCHANGED s_vars
  BY <1>1, <1>5 DEF s_vars
<1>6. CASE Sessions!Next
  <2>1. HistoryGrows
    BY <1>1, <1>2, <1>3, <1>6
       DEF Sessions!Next, Sessions!StartRun, Sessions!Delta, Sessions!FinishRun, Sessions!Delete,
           Sessions!BeginCompact, Sessions!BeginFork, Sessions!Compacting, Sessions!Forking,
           Sessions!Paused, Sessions!Plan, Sessions!SummaryFails, Sessions!ReturnPreview,
           Sessions!Apply, Sessions!ReadFork
  <2>2. disturbed \subseteq disturbed'
    BY <1>6
       DEF Sessions!Next, Sessions!StartRun, Sessions!Delta, Sessions!FinishRun, Sessions!Delete,
           Sessions!BeginCompact, Sessions!BeginFork, Sessions!Compacting, Sessions!Forking,
           Sessions!Paused, Sessions!Plan, Sessions!SummaryFails, Sessions!ReturnPreview,
           Sessions!Apply, Sessions!ReadFork, Sessions!Insert, Sessions!CreateFork
  <2>3. \A s \in StoreSessions : sess'[s] = "none" => sess[s] = "none"
    BY <1>4, <1>6
       DEF Sessions!Next, Sessions!StartRun, Sessions!Delta, Sessions!FinishRun,
           Sessions!BeginCompact, Sessions!BeginFork, Sessions!Compacting, Sessions!Forking,
           Sessions!Paused, Sessions!Plan, Sessions!SummaryFails, Sessions!ReturnPreview,
           Sessions!Apply, Sessions!ReadFork, Sessions!Insert
  <2> QED
    BY <2>1, <2>2, <2>3
<1> QED
  BY <1>5, <1>6

\* The first rows stay the first rows, and a plan for them stays their plan.
LEMMA PlannedOn ==
    ASSUME NEW old \in Seq(Messages), NEW new \in Seq(Messages), NEW x,
           Len(old) <= Len(new), \A n \in 1 .. Len(old) : new[n] = old[n], Planned(x, old)
    PROVE  Planned(x, new)
<1> DEFINE k == x.count
           a == SubSeq(old, 1, k)
           b == SubSeq(new, 1, k)
<1>1. k \in 1 .. Len(old) /\ k \in 1 .. Len(new) /\ Len(old) \in Nat /\ Len(new) \in Nat
  BY DEF Planned
<1> HIDE DEF k
<1>2. k \in 0 .. Len(old) /\ k \in 0 .. Len(new)
  BY <1>1
<1>3. a \in Seq(Messages) /\ Len(a) = k /\ \A n \in 1 .. k : a[n] = old[n]
  BY <1>2, SubSeqIs
<1>4. b \in Seq(Messages) /\ Len(b) = k /\ \A n \in 1 .. k : b[n] = new[n]
  BY <1>2, SubSeqIs
<1> HIDE DEF a, b
<1>5. \A n \in 1 .. k : b[n] = a[n]
  BY <1>1, <1>3, <1>4
<1>6. a = [n \in 1 .. k |-> a[n]] /\ b = [n \in 1 .. k |-> b[n]]
  BY <1>3, <1>4
<1>7. a = b
  BY <1>5, <1>6
<1> QED
  BY <1>1, <1>7 DEF Planned, a, b, k

\* A plan for the first rows of an undisturbed session.
LEMMA PlannedCovers ==
    ASSUME Sessions!StoreAssumption, HistoryInv, NEW s \in StoreSessions \ disturbed,
           NEW x, Planned(x, msgs[s]), x.req \in Sessions!CompactRequest
    PROVE  /\ x.plan.start \in Nat \ {0} /\ x.plan.end \in Nat /\ x.plan.start <= x.plan.end
           /\ Describes(x.plan, msgs[s])
           /\ x.plan.end <= x.plan.last => Covers(x.plan, msgs[s])
<1> DEFINE rows == msgs[s]
           k == x.count
           first == SubSeq(rows, 1, k)
<1>1. rows \in Seq(Messages) /\ Opens(rows) /\ Counted(rows) /\ Len(rows) \in Nat
  BY DEF HistoryInv, StoreTypes, OpenedByUser, OneWriter, Counted
<1>2. k \in 1 .. Len(rows) /\ x.plan = Sessions!PlanCompaction(first, x.req)
  BY DEF Planned
<1> HIDE DEF rows, k
<1>3. k \in 0 .. Len(rows) /\ k \in Nat /\ k >= 1 /\ k <= Len(rows)
  BY <1>1, <1>2
<1>4. first \in Seq(Messages) /\ Len(first) = k /\ \A n \in 1 .. k : first[n] = rows[n]
  BY <1>1, <1>3, SubSeqIs
<1> HIDE DEF first
<1>5. first # <<>> /\ DOMAIN first = 1 .. k /\ DOMAIN rows = 1 .. Len(rows)
  BY <1>1, <1>3, <1>4
<1>6. \A n \in 1 .. k : n \in DOMAIN rows
  BY <1>1, <1>3, <1>5
<1>7. Counted(first)
  BY <1>1, <1>4, <1>5, <1>6 DEF Counted
<1>8. Opens(first)
  <2>1. rows # <<>> /\ 1 \in 1 .. k
    BY <1>3, <1>5
  <2> QED
    BY <1>1, <1>4, <1>5, <1>6, <2>1 DEF Opens
<1>9. KeepTurns \in Nat \ {0} /\ Page \in Nat \ {0}
  BY DEF Sessions!StoreAssumption
<1>10. /\ x.plan.start \in Nat \ {0} /\ x.plan.end \in Nat /\ x.plan.start <= x.plan.end
       /\ Describes(x.plan, first)
       /\ x.plan.end <= x.plan.last => Covers(x.plan, first)
  BY <1>2, <1>4, <1>5, <1>7, <1>8, <1>9, PlanCovers
<1>11. \A n \in 1 .. Len(first) : rows[n] = first[n]
  BY <1>4
<1>12. /\ Describes(x.plan, first) => Describes(x.plan, rows)
       /\ x.plan.end \in Nat /\ Covers(x.plan, first) => Covers(x.plan, rows)
  BY <1>1, <1>3, <1>4, <1>11, CoversOn
<1> QED
  BY <1>10, <1>12 DEF rows

\* A range that is asked for is the range of the plan.
LEMMA RangeIsKept ==
    ASSUME NEW rows, NEW req, req.start \in Nat \ {0}, req.end \in Nat, req.start <= req.end
    PROVE  /\ Sessions!PlanCompaction(rows, req).start = req.start
           /\ Sessions!PlanCompaction(rows, req).end = req.end
<1> DEFINE all == Sessions!FirstPage(Sessions!BySeq(rows))
           byCount == Sessions!PlanByCount(all, req)
           plan == Sessions!PlanCompaction(rows, req)
<1>1. req.end > 0 /\ req.start # 0
  OBVIOUS
<1>2. Sessions!Max({req.start, req.end}) = req.end
  BY DEF Sessions!Max
<1> HIDE DEF all
<1>3. byCount.start = req.start /\ byCount.end = req.end
  BY <1>1, <1>2 DEF Sessions!PlanByCount
<1> HIDE DEF byCount
<1>4. plan.start = byCount.start /\ plan.end = byCount.end
  BY <1>1 DEF Sessions!PlanCompaction, byCount, all
<1> QED
  BY <1>3, <1>4

\* The snapshots and the request under way keep covering their ranges.
LEMMA SummariesKeep ==
    ASSUME Sessions!StoreAssumption, HistoryInv, HistoryInv', SummariesSound,
           Sessions!Next \/ UNCHANGED s_vars
    PROVE  SummariesSound'
<1>t. /\ snap = [s \in StoreSessions |-> snap[s]]
      /\ \A s \in StoreSessions : sess[s] = "none" => snap[s] = Sessions!NoSnap
      /\ \A s \in StoreSessions \ disturbed :
            snap[s].faithful => Describes(snap[s], msgs[s]) /\ Covers(snap[s], msgs[s])
  BY DEF SummariesSound, Snapped
<1>q. compact # Sessions!Nothing =>
        /\ compact.session \in StoreSessions /\ sess[compact.session] # "none"
        /\ compact.kind \in Sessions!Kinds
        /\ compact.session \notin disturbed => compact.req \in Sessions!CompactRequest
        /\ compact.kind = "applyPreview" => FromPreview(compact.session, compact.req)
        /\ compact.pc \in {"pausing", "planning"} =>
              compact = [pc |-> compact.pc, session |-> compact.session, req |-> compact.req,
                         kind |-> compact.kind]
        /\ compact.pc = "summarising" => Planned(compact, msgs[compact.session])
  BY DEF SummariesSound, Requested
<1>g. /\ HistoryGrows /\ disturbed \subseteq disturbed'
      /\ \A s \in StoreSessions : sess'[s] = "none" => sess[s] = "none"
  BY HistoryOnlyGrows
<1>m. \A s \in StoreSessions : msgs[s] \in Seq(Messages) /\ msgs'[s] \in Seq(Messages)
  BY DEF HistoryInv, StoreTypes
<1>o. ASSUME NEW s \in StoreSessions, NEW x, Planned(x, msgs[s]) PROVE Planned(x, msgs'[s])
  <2>1. Len(msgs[s]) <= Len(msgs'[s]) /\ \A n \in 1 .. Len(msgs[s]) : msgs'[s][n] = msgs[s][n]
    BY <1>g DEF HistoryGrows
  <2> QED
    BY <1>m, <1>o, <2>1, PlannedOn
<1>p. ASSUME preview' = preview PROVE Previewed'
  <2> SUFFICES ASSUME preview # Sessions!Nothing
               PROVE  /\ preview.session \in StoreSessions /\ sess'[preview.session] # "none"
                      /\ preview.session \notin disturbed' => preview.req \in Sessions!CompactRequest
                      /\ Planned(preview, msgs'[preview.session])
    BY <1>p DEF Previewed, Planned
  <2>1. /\ preview.session \in StoreSessions /\ sess[preview.session] # "none"
        /\ preview.session \notin disturbed => preview.req \in Sessions!CompactRequest
        /\ Planned(preview, msgs[preview.session])
    BY DEF SummariesSound, Previewed
  <2> QED
    BY <1>g, <1>o, <2>1
<1>s. ASSUME snap' = snap PROVE Snapped'
  <2>1. ASSUME NEW s \in StoreSessions \ disturbed', snap[s].faithful
        PROVE  Describes(snap[s], msgs'[s]) /\ Covers(snap[s], msgs'[s])
    <3>1. Describes(snap[s], msgs[s]) /\ Covers(snap[s], msgs[s]) /\ snap[s].end \in Nat
      BY <1>t, <1>g, <2>1 DEF Describes
    <3>2. /\ Len(msgs[s]) \in Nat /\ Len(msgs'[s]) \in Nat /\ Len(msgs[s]) <= Len(msgs'[s])
          /\ \A n \in 1 .. Len(msgs[s]) : msgs'[s][n] = msgs[s][n]
      BY <1>g DEF HistoryGrows
    <3> QED
      BY <3>1, <3>2, CoversOn
  <2> QED
    BY <1>t, <1>g, <1>s, <2>1 DEF Snapped, Describes, Covers
<1>n. ASSUME compact' = Sessions!Nothing PROVE Requested'
  BY <1>n DEF Requested
<1>r. ASSUME compact' = compact, preview' = preview PROVE Requested'
  <2>1. compact # Sessions!Nothing /\ compact.pc = "summarising" => Planned(compact, msgs'[compact.session])
    BY <1>q, <1>o
  <2>2. compact # Sessions!Nothing => compact.session \in StoreSessions /\ sess'[compact.session] # "none"
    BY <1>q, <1>g
  <2>3. FromPreview(compact.session, compact.req) => FromPreview(compact.session, compact.req)'
    BY <1>r DEF FromPreview, Sessions!SendsRange
  <2>4. compact' # Sessions!Nothing /\ compact'.pc = "summarising" => Planned(compact, msgs[compact.session])'
    BY <1>r, <2>1 DEF Planned
  <2> QED
    BY <1>q, <1>r, <1>g, <2>2, <2>3, <2>4 DEF Requested
<1>1. CASE UNCHANGED <<snap, compact, preview>>
  BY <1>p, <1>s, <1>r, <1>1 DEF SummariesSound
<1>2. ASSUME NEW s \in StoreSessions, NEW kind \in Sessions!Kinds, NEW req \in Sessions!Asked(kind),
             Sessions!BeginCompact(s, req, kind)
      PROVE  SummariesSound'
  <2>1. /\ compact' = [pc |-> "pausing", session |-> s, req |-> req, kind |-> kind]
        /\ sess[s] = "live"
        /\ kind = "applyPreview" => preview.session = s
        /\ UNCHANGED <<snap, sess, msgs, preview, disturbed>>
    BY <1>2 DEF Sessions!BeginCompact
  <2>2. kind = "applyPreview" => FromPreview(s, req)
    BY <2>1 DEF Sessions!Asked, FromPreview
  <2>3. ASSUME s \notin disturbed PROVE req \in Sessions!CompactRequest
    <3>1. CASE kind # "applyPreview"
      BY <3>1 DEF Sessions!Asked, Sessions!StoreAssumption
    <3>2. CASE kind = "applyPreview"
      <4>1. preview # Sessions!Nothing /\ preview.session = s /\ req \in {preview.req, Sessions!SendsRange}
        BY <2>2, <3>2 DEF FromPreview
      <4>2. preview.req \in Sessions!CompactRequest /\ Planned(preview, msgs[s])
        BY <2>3, <4>1 DEF SummariesSound, Previewed
      <4>3. preview.plan.start \in Nat /\ preview.plan.end \in Nat
        BY <2>3, <4>2, PlannedCovers
      <4>4. Sessions!SendsRange \in Sessions!CompactRequest
        BY <4>2, <4>3 DEF Sessions!SendsRange, Sessions!CompactRequest
      <4> QED
        BY <4>1, <4>2, <4>4
    <3> QED
      BY <3>1, <3>2
  <2>4. FromPreview(s, req)' <=> FromPreview(s, req)
    BY <2>1 DEF FromPreview, Sessions!SendsRange
  <2>5. /\ compact'.pc = "pausing" /\ compact'.session = s /\ compact'.req = req
        /\ compact'.kind = kind /\ sess'[s] # "none" /\ disturbed' = disturbed
    BY <2>1
  <2>6. compact'.kind = "applyPreview" => FromPreview(compact.session, compact.req)'
    BY <2>2, <2>4, <2>5 DEF FromPreview, Sessions!SendsRange
  <2>7. Requested'
    BY <2>1, <2>3, <2>5, <2>6 DEF Requested
  <2> QED
    BY <1>p, <1>s, <2>1, <2>7 DEF SummariesSound
<1>3. CASE compact # Sessions!Nothing /\ Sessions!Paused
  <2>1. /\ compact.pc = "pausing" /\ compact' = [compact EXCEPT !.pc = "planning"]
        /\ UNCHANGED <<snap, sess, preview>>
    BY <1>3 DEF Sessions!Paused
  <2> DEFINE s == compact.session
             req == compact.req
             kind == compact.kind
  <2>2. /\ compact = [pc |-> "pausing", session |-> s, req |-> req, kind |-> kind]
        /\ s \in StoreSessions /\ sess[s] # "none" /\ kind \in Sessions!Kinds
        /\ s \notin disturbed => req \in Sessions!CompactRequest
        /\ kind = "applyPreview" => FromPreview(s, req)
    BY <1>q, <1>3, <2>1
  <2> HIDE DEF s, req, kind
  <2>3. compact' = [pc |-> "planning", session |-> s, req |-> req, kind |-> kind]
    BY <2>1, <2>2
  <2>4. /\ compact'.pc = "planning" /\ compact'.session = s /\ compact'.req = req
        /\ compact'.kind = kind /\ sess'[s] # "none"
    BY <2>1, <2>2, <2>3
  <2>5. kind = "applyPreview" => FromPreview(compact.session, compact.req)'
    BY <2>1, <2>2, <2>4 DEF FromPreview, Sessions!SendsRange
  <2>6. Requested'
    BY <1>g, <2>2, <2>3, <2>4, <2>5 DEF Requested
  <2> QED
    BY <1>p, <1>s, <2>1, <2>6 DEF SummariesSound
<1>4. CASE compact # Sessions!Nothing /\ Sessions!Plan
  <2> DEFINE s == compact.session
             req == compact.req
             kind == compact.kind
             count == Len(msgs[s])
             plan == Sessions!PlanCompaction(msgs[s], req)
  <2>1. /\ UNCHANGED <<snap, sess, msgs, preview, disturbed>>
        /\ compact' = IF msgs[s] = <<>> THEN Sessions!Nothing
                      ELSE [pc |-> "summarising", session |-> s, req |-> req, kind |-> kind,
                            count |-> count, plan |-> plan]
    BY <1>4 DEF Sessions!Plan
  <2>2. /\ s \in StoreSessions /\ sess[s] # "none" /\ kind \in Sessions!Kinds
        /\ s \notin disturbed => req \in Sessions!CompactRequest
        /\ kind = "applyPreview" => FromPreview(s, req)
    BY <1>q, <1>4
  <2>3. CASE msgs[s] # <<>>
    <3>1. msgs[s] \in Seq(Messages)
      BY <1>m, <2>2
    <3>2. count \in 1 .. Len(msgs[s]) /\ SubSeq(msgs[s], 1, count) = msgs[s]
      <4> HIDE DEF s
      <4> QED
        BY <2>3, <3>1
    <3>3. Planned([pc |-> "summarising", session |-> s, req |-> req, kind |-> kind,
                   count |-> count, plan |-> plan], msgs[s])
      <4> HIDE DEF s, req, kind, count
      <4> QED
        BY <3>2 DEF Planned
    <3> HIDE DEF s, req, kind, count, plan
    <3>4. /\ compact' = [pc |-> "summarising", session |-> s, req |-> req, kind |-> kind,
                         count |-> count, plan |-> plan]
          /\ compact'.pc = "summarising" /\ compact'.session = s /\ compact'.req = req
          /\ compact'.kind = kind /\ sess'[s] # "none" /\ disturbed' = disturbed
      BY <2>1, <2>2, <2>3
    <3>5. Planned(compact, msgs[compact.session])'
      BY <2>1, <3>3, <3>4 DEF Planned
    <3>6. kind = "applyPreview" => FromPreview(compact.session, compact.req)'
      BY <2>1, <2>2, <3>4 DEF FromPreview, Sessions!SendsRange
    <3>7. Requested'
      BY <2>2, <3>4, <3>5, <3>6 DEF Requested
    <3> QED
      BY <1>p, <1>s, <2>1, <3>7 DEF SummariesSound
  <2> QED
    BY <1>p, <1>s, <1>n, <2>1, <2>3 DEF SummariesSound
<1>5. CASE Sessions!SummaryFails
  BY <1>p, <1>s, <1>n, <1>5 DEF Sessions!SummaryFails, SummariesSound
<1>6. CASE compact # Sessions!Nothing /\ Sessions!ReturnPreview
  <2> DEFINE s == compact.session
             req == compact.req
             count == compact.count
             plan == compact.plan
  <2>1. /\ compact.pc = "summarising" /\ compact' = Sessions!Nothing
        /\ UNCHANGED <<snap, sess, msgs, disturbed>>
        /\ preview' = [pc |-> "shown", session |-> s, req |-> req, plan |-> plan, count |-> count]
    BY <1>6 DEF Sessions!ReturnPreview
  <2>2. /\ s \in StoreSessions /\ sess[s] # "none" /\ Planned(compact, msgs[s])
        /\ s \notin disturbed => req \in Sessions!CompactRequest
    BY <1>q, <1>6, <2>1
  <2>3. count \in 1 .. Len(msgs[s]) /\ plan = Sessions!PlanCompaction(SubSeq(msgs[s], 1, count), req)
    BY <2>2 DEF Planned
  <2> HIDE DEF s, req, count, plan
  <2>4. /\ preview'.session = s /\ preview'.req = req /\ preview'.plan = plan
        /\ preview'.count = count /\ msgs' = msgs /\ sess' = sess /\ disturbed' = disturbed
    BY <2>1
  <2>5. Previewed'
    BY <2>2, <2>3, <2>4 DEF Previewed, Planned
  <2> QED
    BY <1>s, <1>n, <2>1, <2>5 DEF SummariesSound
<1>7. CASE compact # Sessions!Nothing /\ Sessions!Apply
  <2> DEFINE s == compact.session
             told == Sessions!Told
             row == [start |-> compact.plan.start, end |-> compact.plan.end, from |-> told.from,
                     covered |-> told.covered, faithful |-> Sessions!Faithful]
  <2>1. /\ compact.pc = "summarising" /\ compact' = Sessions!Nothing
        /\ UNCHANGED <<sess, msgs, disturbed>>
        /\ snap' = IF sess[s] # "live" THEN snap ELSE [snap EXCEPT ![s] = row]
        /\ preview' = IF compact.kind = "applyPreview" THEN Sessions!Nothing ELSE preview
        /\ compact.kind # "preview"
    BY <1>7 DEF Sessions!Apply
  <2>2. s \in StoreSessions /\ sess[s] # "none" /\ Planned(compact, msgs[s])
    BY <1>q, <1>7, <2>1
  <2>3. Previewed'
    BY <1>p, <2>1 DEF Previewed
  <2>4. ASSUME s \notin disturbed, Sessions!Faithful
        PROVE  Describes(row, msgs[s]) /\ Covers(row, msgs[s])
    <3>1. compact.req \in Sessions!CompactRequest
      BY <1>q, <1>7, <2>4
    <3>2. told.end <= told.last
      BY <2>4 DEF Sessions!Faithful
    <3>3. ASSUME told.start = compact.plan.start, told.end = compact.plan.end,
                 Describes(told, msgs[s]), Covers(told, msgs[s])
          PROVE  Describes(row, msgs[s]) /\ Covers(row, msgs[s])
      <4>1. /\ row.start = told.start /\ row.end = told.end /\ row.from = told.from
            /\ row.covered = told.covered
        BY <3>3
      <4> HIDE DEF row, told
      <4> QED
        BY <3>3, <4>1 DEF Describes, Covers
    <3>4. CASE compact.kind # "applyPreview"
      <4>1. told = compact.plan
        BY <3>4 DEF Sessions!Told
      <4>2. Describes(told, msgs[s]) /\ Covers(told, msgs[s])
        BY <2>2, <2>4, <3>1, <3>2, <4>1, PlannedCovers
      <4> QED
        BY <3>3, <4>1, <4>2
    <3>5. CASE compact.kind = "applyPreview"
      <4>1. told = preview.plan
        BY <3>5 DEF Sessions!Told
      <4>2. preview # Sessions!Nothing /\ preview.session = s
            /\ compact.req \in {preview.req, Sessions!SendsRange}
        BY <1>q, <1>7, <3>5 DEF FromPreview
      <4>3. Planned(preview, msgs[s]) /\ preview.req \in Sessions!CompactRequest
        BY <2>4, <4>2 DEF SummariesSound, Previewed
      <4>4. /\ told.start \in Nat \ {0} /\ told.end \in Nat /\ told.start <= told.end
            /\ Describes(told, msgs[s]) /\ Covers(told, msgs[s])
        BY <2>2, <2>4, <3>2, <4>1, <4>3, PlannedCovers
      <4>5. CASE compact.req = Sessions!SendsRange
        <5>1. compact.req.start = told.start /\ compact.req.end = told.end
          BY <4>1, <4>3, <4>5 DEF Sessions!SendsRange, Sessions!CompactRequest
        <5>2. compact.plan.start = told.start /\ compact.plan.end = told.end
          BY <2>2, <4>4, <5>1, RangeIsKept DEF Planned
        <5> QED
          BY <3>3, <4>4, <5>2
      <4>6. CASE compact.count = preview.count /\ compact.req = preview.req
        <5>1. compact.plan = told
          BY <2>2, <4>1, <4>3, <4>6 DEF Planned
        <5> QED
          BY <3>3, <4>4, <5>1
      <4> QED
        BY <2>4, <3>5, <4>2, <4>5, <4>6 DEF Sessions!Faithful
    <3> QED
      BY <3>4, <3>5
  <2>5. CASE sess[s] = "live"
    <3>0. row.faithful = Sessions!Faithful
      OBVIOUS
    <3> HIDE DEF row, s
    <3>1. snap' = [snap EXCEPT ![s] = row]
      BY <2>1, <2>5
    <3>2. /\ snap' = [r \in StoreSessions |-> snap'[r]] /\ snap'[s] = row
          /\ \A r \in StoreSessions : r # s => snap'[r] = snap[r]
      BY <1>t, <2>2, <3>1
    <3>3. ASSUME NEW r \in StoreSessions \ disturbed, snap'[r].faithful
          PROVE  Describes(snap'[r], msgs[r]) /\ Covers(snap'[r], msgs[r])
      <4>1. CASE r = s
        BY <2>4, <3>0, <3>2, <3>3, <4>1
      <4>2. CASE r # s
        <5>1. snap'[r] = snap[r]
          BY <3>2, <4>2
        <5> QED
          BY <1>t, <3>3, <5>1
      <4> QED
        BY <4>1, <4>2
    <3>4. \A r \in StoreSessions : sess[r] = "none" => snap'[r] = Sessions!NoSnap
      BY <1>t, <2>5, <3>2
    <3>5. Snapped'
      BY <2>1, <3>2, <3>3, <3>4 DEF Snapped, Describes, Covers
    <3> QED
      BY <1>n, <2>1, <2>3, <3>5 DEF SummariesSound
  <2>6. CASE sess[s] # "live"
    BY <1>s, <1>n, <2>1, <2>3, <2>6 DEF SummariesSound
  <2> QED
    BY <2>5, <2>6
<1>8. CASE UNCHANGED s_vars
  BY <1>1, <1>8 DEF s_vars
<1>9. CASE Sessions!Next
  BY <1>1, <1>2, <1>3, <1>4, <1>5, <1>6, <1>7, <1>9
     DEF Sessions!Next, Sessions!StartRun, Sessions!Delta, Sessions!FinishRun, Sessions!Delete,
         Sessions!BeginFork, Sessions!Compacting, Sessions!Forking, Sessions!ReadFork,
         Sessions!CreateFork, Sessions!Insert
<1> QED
  BY <1>8, <1>9

\* A behaviour starts without snapshots and without a request.
LEMMA SummariesStart ==
    ASSUME Sessions!Init
    PROVE  SummariesSound
<1>1. /\ snap = [s \in StoreSessions |-> Sessions!NoSnap]
      /\ msgs = [s \in StoreSessions |-> <<>>]
      /\ compact = Sessions!Nothing /\ preview = Sessions!Nothing
  BY DEF Sessions!Init
<1>2. \A s \in StoreSessions : snap[s] = Sessions!NoSnap /\ Len(msgs[s]) = 0
  BY <1>1
<1>3. \A s \in StoreSessions : Describes(snap[s], msgs[s]) /\ Covers(snap[s], msgs[s])
  BY <1>2 DEF Describes, Covers, Sessions!NoSnap
<1>4. Snapped
  BY <1>1, <1>2, <1>3 DEF Snapped
<1> QED
  BY <1>1, <1>4 DEF SummariesSound, Previewed, Requested

\* What is replaced by a summary was summarised: each message of the conversation
\* reaches later runs itself or in the summary of its range, but for those before
\* a start that was asked for and those behind the snapshot beyond the limit.
THEOREM SummariesCoverTheirRange == Spec => []SummaryCoversRange
<1>1. Init => SummariesSound
  BY AllStoresStart, SummariesStart
<1>2. SummariesSound /\ HistoryInv /\ HistoryInv' /\ [Next]_vars => SummariesSound'
  BY OneStoreMoves, SummariesKeep, StoreAssumption
<1>3. ASSUME HistoryInv, SummariesSound,
             NEW s \in StoreSessions, Sessions!Calm(s), snap[s].faithful
      PROVE  /\ \A r \in Sessions!Conversation(s) \ Sessions!Given(s) :
                   \/ r.id \in snap[s].covered
                   \/ r.seq < snap[s].from
                   \/ Sessions!Overlong(s) /\ r.seq > snap[s].end
             /\ snap[s].covered
                  \subseteq {r.id : r \in {q \in Sessions!Range(msgs[s]) :
                                              q.seq \in snap[s].start .. snap[s].end}}
  <2>1. s \notin disturbed
    BY <1>3 DEF Sessions!Calm, Sessions!Lineage
  <2>2. Describes(snap[s], msgs[s]) /\ Covers(snap[s], msgs[s])
    BY <1>3, <2>1 DEF SummariesSound, Snapped
  <2>3. /\ msgs[s] \in Seq(Messages) /\ DOMAIN msgs[s] = 1 .. Len(msgs[s]) /\ Len(msgs[s]) \in Nat
        /\ \A n \in DOMAIN msgs[s] : msgs[s][n].seq = n
    BY <1>3, <2>1 DEF HistoryInv, OneWriter, StoreTypes
  <2>4. snap[s].start \in Nat /\ snap[s].end \in Nat /\ snap[s].from \in Nat
    BY <2>2 DEF Describes
  <2>5. Sessions!Range(msgs[s]) = {msgs[s][n] : n \in DOMAIN msgs[s]}
    BY DEF Sessions!Range
  <2>6. ASSUME NEW r \in Sessions!Conversation(s), r.seq <= snap[s].end
        PROVE  r.id \in snap[s].covered \/ r.seq < snap[s].from
    <3>1. PICK n \in DOMAIN msgs[s] : r = msgs[s][n]
      BY <2>5 DEF Sessions!Conversation
    <3>2. r.seq = n /\ n \in 1 .. snap[s].end
      BY <2>3, <2>4, <2>6, <3>1
    <3> QED
      BY <2>2, <3>1, <3>2 DEF Covers
  <2>7. ASSUME NEW r \in Sessions!Conversation(s) \ Sessions!Given(s), ~(r.seq <= snap[s].end)
        PROVE  Sessions!Overlong(s) /\ r.seq > snap[s].end
    <3> DEFINE L == Sessions!Later(s)
               after == {q \in L : q.seq > r.seq}
    <3>1. r.seq \in Nat /\ r.seq > snap[s].end
      BY <2>3, <2>4, <2>5, <2>7 DEF Sessions!Conversation, Messages
    <3>2. r \in L
      BY <2>7, <3>1 DEF Sessions!Later
    <3>3. IsFiniteSet(L)
      <4>1. IsFiniteSet(DOMAIN msgs[s])
        BY <2>3, IntervalSize
      <4>2. IsFiniteSet({msgs[s][n] : n \in DOMAIN msgs[s]})
        <5> DEFINE rows == {msgs[s][n] : n \in DOMAIN msgs[s]}
                   at == [n \in DOMAIN msgs[s] |-> msgs[s][n]]
        <5>1. at \in Surjection(DOMAIN msgs[s], rows)
          BY DEF Surjection
        <5> QED
          BY <4>1, <5>1, FS_Surjection
      <4>3. L \subseteq {msgs[s][n] : n \in DOMAIN msgs[s]}
        BY <2>5 DEF Sessions!Later, Sessions!Conversation
      <4> QED
        BY <4>2, <4>3, FS_Subset
    <3>4. ~(Cardinality(after) < ConversationLimit)
      <4>1. Sessions!Cardinality(after) = Cardinality(after)
        BY SessionCount
      <4> QED
        BY <2>7, <3>2, <4>1 DEF Sessions!Given
    <3> HIDE DEF L
    <3>5. after \subseteq L /\ r \notin after
      BY <3>1
    <3>6. after # L
      BY <3>2, <3>5
    <3> HIDE DEF after
    <3>7. /\ Cardinality(L) \in Nat /\ Cardinality(after) \in Nat
          /\ Cardinality(after) < Cardinality(L)
      BY <3>3, <3>5, <3>6, FS_Subset, FS_CardinalityType
    <3>8. ConversationLimit \in Nat
      BY StoreAssumption DEF Sessions!StoreAssumption
    <3>9. Sessions!Cardinality(L) > ConversationLimit
      BY <3>4, <3>7, <3>8, SessionCount
    <3> QED
      BY <3>1, <3>9 DEF Sessions!Overlong, L
  <2>8. ASSUME NEW id \in snap[s].covered
        PROVE  \E r \in Sessions!Range(msgs[s]) :
                  r.seq \in snap[s].start .. snap[s].end /\ r.id = id
    <3>1. PICK n \in 1 .. Len(msgs[s]) :
             msgs[s][n].id = id /\ snap[s].start <= n /\ n <= snap[s].end
      BY <2>2 DEF Describes
    <3>2. msgs[s][n] \in Sessions!Range(msgs[s]) /\ msgs[s][n].seq \in snap[s].start .. snap[s].end
      BY <2>3, <2>4, <2>5, <3>1
    <3> QED
      BY <3>1, <3>2
  <2> QED
    BY <2>6, <2>7, <2>8
<1>4. HistoryInv /\ SummariesSound => SummaryCoversRange
  BY <1>3 DEF SummaryCoversRange, Sessions!SummaryCoversRange
<1> QED
  BY <1>1, <1>2, <1>4, HistorySafety, PTL DEF Spec, vars

-----------------------------------------------------------------------------
(* The lists of tasks                                                      *)

\* Rows as a client or the store may name them.
TodoNames == Keys \union Nat \union {None}
TodoRows == [id : Nat, key : TodoNames, status : Todos!Statuses, done : BOOLEAN]

\* A list as a write may leave it: no row and no key twice.
Shaped(rows) ==
    /\ Todos!OneInProgress(rows) /\ Todos!KeysUnique(rows) /\ Todos!ClosedAreDone(rows)

\* Rows whose ids were given out before the next one.
Issued(rows, next) == rows \in Seq(TodoRows) /\ \A n \in DOMAIN rows : rows[n].id < next

\* What is built for a write under way; a list with a row twice will be refused.
WriteFits ==
    write # Todos!NoWrite =>
        /\ write.session \in TodoSessions /\ life[write.session] # "none"
        /\ Issued(write.final, nextRow)
        /\ ~Todos!Rejected(write.final) => Shaped(write.final)
        /\ write.merge =>
             \A n \in DOMAIN lists[write.session] : \E m \in DOMAIN write.final :
                write.final[m].id = lists[write.session][n].id

\* Every list is as a write may leave it, and so is the one that is about to land.
ListInv ==
    /\ nextRow \in Nat
    /\ life = [s \in TodoSessions |-> life[s]]
    /\ lists = [s \in TodoSessions |-> lists[s]]
    /\ \A s \in TodoSessions : Issued(lists[s], nextRow) /\ Shaped(lists[s])
    /\ WriteFits

\* The walk over the first k items of a write.
Walk(f, start, items, k) ==
    f = [n \in 0 .. k |-> IF n = 0 THEN start ELSE Todos!MergeItem(f[n - 1], items[n])]

\* There is such a walk, however many items there are.
LEMMA WalkExists ==
    ASSUME NEW start, NEW items, NEW k \in Nat
    PROVE  \E f : Walk(f, start, items, k)
<1> DEFINE T == {j \in Nat : ~\E f : Walk(f, start, items, j)}
<1>1. ASSUME NEW j \in T, \A i \in T : j <= i PROVE FALSE
  <2>1. CASE j = 0
    <3>1. Walk([n \in 0 .. 0 |-> start], start, items, 0)
      BY DEF Walk
    <3> QED
      BY <2>1, <3>1
  <2>2. CASE j # 0
    <3>1. j \in Nat /\ j - 1 \in Nat /\ j - 1 \notin T
      BY <1>1, <2>2
    <3>2. PICK f : Walk(f, start, items, j - 1)
      BY <3>1
    <3> DEFINE g == [n \in 0 .. j |-> IF n = j THEN Todos!MergeItem(f[j - 1], items[j]) ELSE f[n]]
               h(x, n) == IF n = 0 THEN start ELSE Todos!MergeItem(x[n - 1], items[n])
    <3>3. \A n \in 0 .. j - 1 : f[n] = h(f, n)
      BY <3>2 DEF Walk
    <3>4. ASSUME NEW n \in 0 .. j PROVE g[n] = h(g, n)
      <4>1. CASE n = j
        <5>1. g[n] = Todos!MergeItem(f[j - 1], items[j]) /\ g[j - 1] = f[j - 1]
          BY <2>2, <3>1, <4>1
        <5> QED
          BY <2>2, <4>1, <5>1
      <4>2. CASE n # j
        <5>1. n \in 0 .. j - 1 /\ g[n] = f[n]
          BY <3>1, <4>2
        <5>2. n # 0 => g[n - 1] = f[n - 1]
          BY <3>1, <5>1
        <5> HIDE DEF g
        <5> QED
          BY <3>3, <5>1, <5>2
      <4> QED
        BY <4>1, <4>2
    <3>5. g = [n \in 0 .. j |-> g[n]]
      OBVIOUS
    <3> HIDE DEF g
    <3>6. g = [n \in 0 .. j |-> h(g, n)]
      BY <3>4, <3>5
    <3>7. Walk(g, start, items, j)
      BY <3>6 DEF Walk
    <3> QED
      BY <3>7
  <2> QED
    BY <2>1, <2>2
<1>2. T = {}
  BY <1>1, Least
<1> QED
  BY <1>2

\* The start of a merge: what the session has.
Begun(existing, next) ==
    [rows |-> <<>>, byId |-> Todos!ById(existing), byKey |-> Todos!ByKey(existing), next |-> next]

\* A merge is a walk over its items, and then the rows that it did not list.
LEMMA MergeWalks ==
    ASSUME NEW existing, NEW items \in Seq(PayloadItems), NEW next
    PROVE  \E f : /\ Walk(f, Begun(existing, next), items, Len(items))
                  /\ Todos!BuildTodosMerge(existing, items, next)
                       = f[Len(items)].rows \o Todos!Kept(existing, f[Len(items)].rows)
<1> DEFINE f == CHOOSE f : Walk(f, Begun(existing, next), items, Len(items))
<1>1. Walk(f, Begun(existing, next), items, Len(items))
  <2>1. Len(items) \in Nat
    OBVIOUS
  <2> QED
    BY <2>1, WalkExists
<1>2. Todos!BuildTodosMerge(existing, items, next)
        = f[Len(items)].rows \o Todos!Kept(existing, f[Len(items)].rows)
  BY Zenon DEF Todos!BuildTodosMerge, Walk, Begun
<1> QED
  BY <1>1, <1>2

\* A row that says of itself whether it is done.
Honest(row) == row.done <=> row.status \notin Todos!Open

\* The maps of a merge agree with the rows that it has listed and with those of the
\* session that it has not: each row is known by its id and, if it has one, its key.
Merging(acc, existing) ==
    /\ acc.rows \in Seq(TodoRows) /\ acc.next \in Nat
    /\ acc.byId = [i \in DOMAIN acc.byId |-> acc.byId[i]]
    /\ acc.byKey = [k \in DOMAIN acc.byKey |-> acc.byKey[k]]
    /\ \A i \in DOMAIN acc.byId :
          /\ i \in Nat /\ i < acc.next
          /\ acc.byId[i] \in TodoRows /\ acc.byId[i].id = i /\ Honest(acc.byId[i])
          /\ acc.byId[i].key # None =>
                acc.byId[i].key \in DOMAIN acc.byKey /\ acc.byKey[acc.byId[i].key] = i
    /\ None \notin DOMAIN acc.byKey
    /\ \A k \in DOMAIN acc.byKey : acc.byKey[k] \in DOMAIN acc.byId
    /\ \A n \in DOMAIN existing :
          /\ existing[n].id \in DOMAIN acc.byId
          /\ (\A m \in DOMAIN acc.rows : acc.rows[m].id # existing[n].id) =>
                acc.byId[existing[n].id] = existing[n]
    /\ \A n \in DOMAIN acc.rows :
          /\ acc.rows[n].id \in DOMAIN acc.byId
          /\ \/ acc.byId[acc.rows[n].id] = acc.rows[n]
             \/ \E m \in DOMAIN acc.rows : m > n /\ acc.rows[m].id = acc.rows[n].id

\* An item names a row that is known, or none of its names is in use.
LEMMA MatchIs ==
    ASSUME NEW item, NEW byKey, NEW byId, None \notin DOMAIN byId,
           \A k \in DOMAIN byKey : byKey[k] \in DOMAIN byId
    PROVE  LET found == Todos!Match(item, byKey, byId)
           IN  \/ found \in DOMAIN byId
               \/ /\ found = None /\ item.key \notin DOMAIN byKey
                  /\ item.id \notin DOMAIN byKey /\ item.id \notin DOMAIN byId
  BY DEF Todos!Match

\* An item of a merge leaves the maps and the lists in agreement.
LEMMA ItemMerges ==
    ASSUME Todos!TodoAssumption, NEW acc, NEW existing, Merging(acc, existing),
           NEW item \in PayloadItems
    PROVE  Merging(Todos!MergeItem(acc, item), existing)
<1> DEFINE found == Todos!Match(item, acc.byKey, acc.byId)
           old == acc.byId[found]
           moved == found # None /\ Todos!Renames(old, item, acc.byKey)
           row == IF found = None
                  THEN Todos!Row(acc.next, Todos!NewKey(item, acc.byKey, acc.byId), item.status)
                  ELSE Todos!Row(found, IF moved THEN item.key ELSE old.key, item.status)
           keys == IF moved THEN Todos!Without(acc.byKey, old.key) ELSE acc.byKey
           byKey == IF row.key = None THEN keys ELSE Todos!With(keys, row.key, row.id)
           byId == Todos!With(acc.byId, row.id, row)
           next == IF found = None THEN acc.next + 1 ELSE acc.next
           rows == Append(acc.rows, row)
           out == Todos!MergeItem(acc, item)
<1>m. out = [rows |-> rows, byId |-> byId, byKey |-> byKey, next |-> next]
  BY DEF Todos!MergeItem
<1>o. out.rows = rows /\ out.byId = byId /\ out.byKey = byKey /\ out.next = next
  BY <1>m
<1>t. /\ acc.rows \in Seq(TodoRows) /\ acc.next \in Nat
      /\ None \notin DOMAIN acc.byKey
      /\ \A k \in DOMAIN acc.byKey : acc.byKey[k] \in DOMAIN acc.byId
      /\ \A i \in DOMAIN acc.byId :
          /\ i \in Nat /\ i < acc.next
          /\ acc.byId[i] \in TodoRows /\ acc.byId[i].id = i /\ Honest(acc.byId[i])
          /\ acc.byId[i].key # None =>
                acc.byId[i].key \in DOMAIN acc.byKey /\ acc.byKey[acc.byId[i].key] = i
  BY DEF Merging
<1>e. /\ \A n \in DOMAIN existing :
          /\ existing[n].id \in DOMAIN acc.byId
          /\ (\A m \in DOMAIN acc.rows : acc.rows[m].id # existing[n].id) =>
                acc.byId[existing[n].id] = existing[n]
      /\ \A n \in DOMAIN acc.rows :
          /\ acc.rows[n].id \in DOMAIN acc.byId
          /\ \/ acc.byId[acc.rows[n].id] = acc.rows[n]
             \/ \E m \in DOMAIN acc.rows : m > n /\ acc.rows[m].id = acc.rows[n].id
  BY DEF Merging
<1>i. item.key \in TodoNames /\ item.id \in TodoNames /\ item.status \in Todos!Statuses /\ None \notin Nat
  BY DEF Todos!TodoAssumption, TodoNames, Todos!RowIds
<1>f. \/ found \in DOMAIN acc.byId /\ found # None /\ found \in Nat
      \/ /\ found = None /\ item.key \notin DOMAIN acc.byKey
         /\ item.id \notin DOMAIN acc.byKey /\ item.id \notin DOMAIN acc.byId
  <2>1. None \notin DOMAIN acc.byId
    BY <1>t, <1>i
  <2> QED
    BY <1>t, <1>i, <2>1, MatchIs
<1> HIDE DEF found, out
<1>1. /\ row.id = IF found = None THEN acc.next ELSE found
      /\ row.status = item.status
      /\ row.key = IF found = None THEN Todos!NewKey(item, acc.byKey, acc.byId)
                   ELSE IF moved THEN item.key ELSE old.key
      /\ Honest(row) /\ DOMAIN row = {"id", "key", "status", "done"}
  BY DEF Todos!Row, Honest
<1>2. found = None => row.key = None \/ row.key \notin DOMAIN acc.byKey
  BY <1>1, <1>f DEF Todos!NewKey
<1>3. found # None => old.id = found /\ old \in TodoRows
  BY <1>t, <1>f
<1>4. row \in TodoRows
  <2>1. row.id \in Nat
    BY <1>1, <1>f, <1>t
  <2>2. row.key \in TodoNames
    <3>1. found = None => Todos!NewKey(item, acc.byKey, acc.byId) \in TodoNames
      BY <1>i DEF Todos!NewKey, TodoNames
    <3>2. found # None => old.key \in TodoNames
      BY <1>3 DEF TodoRows
    <3> QED
      BY <1>1, <1>i, <3>1, <3>2
  <2> DEFINE key == row.key
             id == row.id
  <2>3. row = Todos!Row(id, key, item.status)
    BY <1>1 DEF Todos!Row
  <2> HIDE DEF row, key, id
  <2>4. id \in Nat /\ key \in TodoNames
    BY <2>1, <2>2 DEF key, id
  <2> QED
    BY <1>i, <2>3, <2>4 DEF Todos!Row, TodoRows
<1>5. row.id \in Nat /\ row.id < next /\ next \in Nat /\ acc.next <= next
  BY <1>1, <1>f, <1>t
<1>6. /\ DOMAIN byId = DOMAIN acc.byId \cup {row.id}
      /\ byId[row.id] = row
      /\ \A i \in DOMAIN acc.byId : i # row.id => byId[i] = acc.byId[i]
      /\ byId = [i \in DOMAIN byId |-> byId[i]]
  BY DEF Todos!With
<1> HIDE DEF row
<1>k. /\ byKey = [k \in DOMAIN byKey |-> byKey[k]]
      /\ DOMAIN byKey = IF row.key = None THEN DOMAIN keys ELSE DOMAIN keys \cup {row.key}
      /\ row.key # None => byKey[row.key] = row.id
      /\ \A k \in DOMAIN keys : k # row.key => byKey[k] = keys[k]
  <2>1. CASE row.key = None
    <3>a. acc.byKey = [k \in DOMAIN acc.byKey |-> acc.byKey[k]]
      BY DEF Merging
    <3>b. ASSUME moved PROVE keys = [k \in DOMAIN keys |-> keys[k]]
      <4>1. keys = Todos!Without(acc.byKey, old.key)
        BY <3>b
      <4> HIDE DEF keys
      <4> QED
        BY <4>1 DEF Todos!Without
    <3>c. ASSUME ~moved PROVE keys = [k \in DOMAIN keys |-> keys[k]]
      <4>1. keys = acc.byKey
        BY <3>c
      <4> HIDE DEF keys
      <4> QED
        BY <3>a, <4>1
    <3>1. byKey = keys /\ keys = [k \in DOMAIN keys |-> keys[k]]
      BY <2>1, <3>b, <3>c
    <3> QED
      BY <2>1, <3>1
  <2>2. CASE row.key # None
    BY <2>2 DEF Todos!With
  <2> QED
    BY <2>1, <2>2
<1>l. /\ DOMAIN keys = IF moved THEN DOMAIN acc.byKey \ {old.key} ELSE DOMAIN acc.byKey
      /\ \A k \in DOMAIN keys : keys[k] = acc.byKey[k]
  BY DEF Todos!Without
<1> HIDE DEF byId, keys, next
<1>7. ASSUME NEW i \in DOMAIN byId, byId[i].key # None
      PROVE  byId[i].key \in DOMAIN byKey /\ byKey[byId[i].key] = i
  <2>1. CASE i = row.id
    BY <1>6, <1>7, <1>k, <2>1
  <2>2. CASE i # row.id
    <3>1. i \in DOMAIN acc.byId /\ byId[i] = acc.byId[i]
      BY <1>6, <2>2
    <3> DEFINE k == acc.byId[i].key
    <3>2. k # None /\ k \in DOMAIN acc.byKey /\ acc.byKey[k] = i
      BY <1>7, <1>t, <3>1
    <3>3. moved => k # old.key
      <4> SUFFICES ASSUME moved, k = old.key PROVE FALSE
        OBVIOUS
      <4>1. acc.byKey[k] = found
        BY <1>f, <1>t, <3>2
      <4> QED
        BY <1>1, <2>2, <3>2, <4>1
    <3>4. k \in DOMAIN keys /\ keys[k] = acc.byKey[k]
      BY <1>l, <3>2, <3>3
    <3>5. k # row.key
      <4> SUFFICES ASSUME k = row.key PROVE FALSE
        OBVIOUS
      <4>1. CASE found = None
        BY <1>2, <3>2, <4>1
      <4>2. CASE moved
        <5>1. row.key = item.key /\ row.id = found
          BY <1>1, <4>2
        <5>2. acc.byKey[item.key] = old.id
          BY <3>2, <4>2, <5>1 DEF Todos!Renames
        <5> QED
          BY <1>3, <2>2, <3>2, <4>2, <5>1, <5>2
      <4>3. CASE found # None /\ ~moved
        <5>1. row.key = old.key /\ row.id = found
          BY <1>1, <4>3
        <5>2. acc.byKey[old.key] = found
          BY <1>f, <1>t, <3>2, <4>3, <5>1
        <5> QED
          BY <2>2, <3>2, <5>1, <5>2
      <4> QED
        BY <4>1, <4>2, <4>3
    <3> QED
      BY <1>k, <3>1, <3>2, <3>4, <3>5
  <2> QED
    BY <2>1, <2>2
<1>8. None \notin DOMAIN byKey
  BY <1>t, <1>k, <1>l
<1>9. ASSUME NEW k \in DOMAIN byKey PROVE byKey[k] \in DOMAIN byId
  <2>1. CASE k = row.key
    BY <1>6, <1>8, <1>9, <1>k, <2>1
  <2>2. CASE k # row.key
    BY <1>6, <1>9, <1>k, <1>l, <1>t, <2>2
  <2> QED
    BY <2>1, <2>2
<1>10. ASSUME NEW i \in DOMAIN byId
       PROVE  i \in Nat /\ i < next /\ byId[i] \in TodoRows /\ byId[i].id = i /\ Honest(byId[i])
  <2>1. CASE i = row.id
    BY <1>1, <1>4, <1>5, <1>6, <2>1
  <2>2. CASE i # row.id
    BY <1>5, <1>6, <1>t, <2>2
  <2> QED
    BY <2>1, <2>2
<1>11. /\ rows \in Seq(TodoRows) /\ Len(acc.rows) \in Nat
       /\ DOMAIN acc.rows = 1 .. Len(acc.rows) /\ DOMAIN rows = 1 .. Len(acc.rows) + 1
       /\ \A n \in DOMAIN acc.rows : rows[n] = acc.rows[n]
       /\ rows[Len(acc.rows) + 1] = row
  BY <1>4, <1>t, AppendIs
<1> HIDE DEF rows
<1>12. ASSUME NEW n \in DOMAIN existing
       PROVE  /\ existing[n].id \in DOMAIN byId
              /\ (\A m \in DOMAIN rows : rows[m].id # existing[n].id) => byId[existing[n].id] = existing[n]
  <2>1. existing[n].id \in DOMAIN acc.byId /\ existing[n].id \in DOMAIN byId
    BY <1>6, <1>e
  <2>2. ASSUME \A m \in DOMAIN rows : rows[m].id # existing[n].id
        PROVE  byId[existing[n].id] = existing[n]
    <3>1. existing[n].id # row.id
      BY <1>11, <2>2
    <3>2. \A m \in DOMAIN acc.rows : m \in DOMAIN rows /\ acc.rows[m].id # existing[n].id
      BY <1>11, <2>2
    <3> QED
      BY <1>6, <1>e, <2>1, <3>1, <3>2
  <2> QED
    BY <2>1, <2>2
<1>13. ASSUME NEW n \in DOMAIN rows
       PROVE  /\ rows[n].id \in DOMAIN byId
              /\ \/ byId[rows[n].id] = rows[n]
                 \/ \E m \in DOMAIN rows : m > n /\ rows[m].id = rows[n].id
  <2>1. CASE n = Len(acc.rows) + 1
    BY <1>6, <1>11, <2>1
  <2>2. CASE n # Len(acc.rows) + 1
    <3>1. n \in DOMAIN acc.rows /\ rows[n] = acc.rows[n]
      BY <1>11, <2>2
    <3>2. rows[n].id \in DOMAIN acc.byId
      BY <1>e, <3>1
    <3>3. CASE rows[n].id = row.id
      <4>1. Len(acc.rows) + 1 \in DOMAIN rows /\ Len(acc.rows) + 1 > n
        BY <1>11, <3>1
      <4> QED
        BY <1>6, <1>11, <3>3, <4>1
    <3>4. CASE rows[n].id # row.id
      <4>1. byId[rows[n].id] = acc.byId[rows[n].id]
        BY <1>6, <3>2, <3>4
      <4>2. CASE acc.byId[acc.rows[n].id] = acc.rows[n]
        BY <1>6, <3>1, <3>2, <4>1, <4>2
      <4>3. ASSUME NEW m \in DOMAIN acc.rows, m > n, acc.rows[m].id = acc.rows[n].id
            PROVE  \E x \in DOMAIN rows : x > n /\ rows[x].id = rows[n].id
        BY <1>11, <3>1, <4>3
      <4> QED
        BY <1>6, <1>e, <3>1, <3>2, <4>2, <4>3
    <3> QED
      BY <3>3, <3>4
  <2> QED
    BY <2>1, <2>2
<1> HIDE DEF byKey
<1>14. Merging(out, existing)
  BY <1>o, <1>5, <1>6, <1>k, <1>7, <1>8, <1>9, <1>10, <1>11, <1>12, <1>13 DEF Merging
<1> QED
  BY <1>14 DEF out

\* The tasks of a session are picked as RowOrder says.
LEMMA TodoPicks == \A rows, K : Todos!Picked(rows, K) = Picked(rows, K)
  BY Zenon DEF Todos!Picked, Todos!Before, Picked, Before, Todos!Cardinality, Cardinality

\* A merge starts with maps that agree with the rows of the session.
LEMMA MergeStarts ==
    ASSUME NEW existing \in Seq(TodoRows), NEW next \in Nat, Shaped(existing),
           \A n \in DOMAIN existing : existing[n].id < next
    PROVE  Merging(Begun(existing, next), existing)
<1> DEFINE acc == Begun(existing, next)
           ids == {existing[n].id : n \in DOMAIN existing}
           names == {existing[n].key : n \in DOMAIN existing} \ {None}
<1>1. \A n \in DOMAIN existing : existing[n] \in TodoRows /\ existing[n].id \in Nat
  <2>1. \A n \in DOMAIN existing : existing[n] \in TodoRows
    OBVIOUS
  <2> QED
    BY <2>1 DEF TodoRows
<1>2. \A m, n \in DOMAIN existing :
         m # n => existing[m].id # existing[n].id
                  /\ (existing[m].key = existing[n].key => existing[m].key = None)
  BY DEF Shaped, Todos!KeysUnique
<1>3. \A n \in DOMAIN existing : Honest(existing[n])
  BY DEF Shaped, Todos!ClosedAreDone, Honest
<1>4. /\ acc.rows = <<>> /\ acc.next = next
      /\ acc.byId = [i \in ids |-> CHOOSE r \in Todos!Range(existing) : r.id = i]
      /\ acc.byKey = [k \in names |-> (CHOOSE r \in Todos!Range(existing) : r.key = k).id]
  BY DEF Begun, Todos!ById, Todos!ByKey
<1> HIDE DEF acc
<1>5. ASSUME NEW n \in DOMAIN existing PROVE acc.byId[existing[n].id] = existing[n]
  <2> DEFINE i == existing[n].id
  <2>1. acc.byId[i] = CHOOSE r \in Todos!Range(existing) : r.id = i
    BY <1>4
  <2>2. existing[n] \in Todos!Range(existing)
    BY DEF Todos!Range
  <2>3. \A r \in Todos!Range(existing) : r.id = i => r = existing[n]
    BY <1>2 DEF Todos!Range
  <2> QED
    BY <2>1, <2>2, <2>3
<1>6. ASSUME NEW n \in DOMAIN existing, existing[n].key # None
      PROVE  existing[n].key \in names /\ acc.byKey[existing[n].key] = existing[n].id
  <2> DEFINE k == existing[n].key
  <2>1. k \in names
    BY <1>6
  <2>2. acc.byKey[k] = (CHOOSE r \in Todos!Range(existing) : r.key = k).id
    BY <1>4, <2>1
  <2>3. existing[n] \in Todos!Range(existing)
    BY DEF Todos!Range
  <2>4. \A r \in Todos!Range(existing) : r.key = k => r = existing[n]
    BY <1>2, <1>6 DEF Todos!Range
  <2>5. (CHOOSE r \in Todos!Range(existing) : r.key = k) = existing[n]
    BY <2>3, <2>4
  <2> QED
    BY <2>1, <2>2, <2>5
<1>7. DOMAIN acc.byId = ids /\ DOMAIN acc.byKey = names
  BY <1>4
<1>8. ASSUME NEW i \in ids
      PROVE  /\ i \in Nat /\ i < next
             /\ acc.byId[i] \in TodoRows /\ acc.byId[i].id = i /\ Honest(acc.byId[i])
             /\ acc.byId[i].key # None => acc.byId[i].key \in names /\ acc.byKey[acc.byId[i].key] = i
  <2>1. PICK n \in DOMAIN existing : i = existing[n].id
    OBVIOUS
  <2> QED
    BY <1>1, <1>3, <1>5, <1>6, <2>1
<1>9. ASSUME NEW k \in names PROVE acc.byKey[k] \in ids
  <2>1. PICK n \in DOMAIN existing : k = existing[n].key /\ k # None
    OBVIOUS
  <2> QED
    BY <1>6, <2>1
<1>10. /\ acc.byId = [i \in DOMAIN acc.byId |-> acc.byId[i]]
       /\ acc.byKey = [k \in DOMAIN acc.byKey |-> acc.byKey[k]]
  BY <1>4
<1>11. \A n \in DOMAIN existing : existing[n].id \in ids
  OBVIOUS
<1>12. None \notin names
  OBVIOUS
<1>13. acc.rows \in Seq(TodoRows) /\ DOMAIN acc.rows = {}
  BY <1>4
<1> HIDE DEF ids, names
<1>14. Merging(acc, existing)
  BY <1>4, <1>5, <1>7, <1>8, <1>9, <1>10, <1>11, <1>12, <1>13 DEF Merging
<1> QED
  BY <1>14 DEF acc

\* The maps agree after every item.
LEMMA WalkMerges ==
    ASSUME Todos!TodoAssumption, NEW existing, NEW start, Merging(start, existing),
           NEW items \in Seq(PayloadItems), NEW f, Walk(f, start, items, Len(items))
    PROVE  Merging(f[Len(items)], existing)
<1> DEFINE T == {n \in 0 .. Len(items) : ~Merging(f[n], existing)}
<1>1. Len(items) \in Nat /\ \A n \in 1 .. Len(items) : items[n] \in PayloadItems
  OBVIOUS
<1>2. ASSUME NEW n \in T, \A m \in T : n <= m PROVE FALSE
  <2>0. n \in 0 .. Len(items) /\ ~Merging(f[n], existing)
    OBVIOUS
  <2>1. CASE n = 0
    <3>1. f[0] = start
      BY <1>1 DEF Walk
    <3> QED
      BY <2>0, <2>1, <3>1
  <2>2. CASE n # 0
    <3>1. n - 1 \in 0 .. Len(items) /\ n - 1 \notin T
      BY <1>1, <1>2, <2>0, <2>2
    <3>2. Merging(f[n - 1], existing)
      BY <3>1
    <3>3. f[n] = Todos!MergeItem(f[n - 1], items[n]) /\ items[n] \in PayloadItems
      BY <1>1, <2>0, <2>2 DEF Walk
    <3> QED
      BY <2>0, <3>2, <3>3, ItemMerges
  <2> QED
    BY <2>1, <2>2
<1>3. T = {}
  <2>1. T \subseteq Nat
    OBVIOUS
  <2> QED
    BY <1>2, <2>1, Least
<1> QED
  BY <1>1, <1>3

\* Rows that may be kept: each known by its id, and no id or key twice.
Apart(rows) ==
    /\ Todos!KeysUnique(rows) /\ Todos!ClosedAreDone(rows)

\* What a merge builds: rows of this store, all of those of the session among them,
\* and, when no row is there twice, no key twice.
LEMMA MergeBuilds ==
    ASSUME Todos!TodoAssumption, NEW existing \in Seq(TodoRows), NEW next \in Nat, Shaped(existing),
           \A n \in DOMAIN existing : existing[n].id < next, NEW items \in Seq(PayloadItems)
    PROVE  LET final == Todos!BuildTodosMerge(existing, items, next)
           IN  /\ final \in Seq(TodoRows)
               /\ \A n \in DOMAIN existing : \E m \in DOMAIN final : final[m].id = existing[n].id
               /\ ~Todos!Rejected(final) => Apart(final)
<1> DEFINE final == Todos!BuildTodosMerge(existing, items, next)
<1>1. PICK f : /\ Walk(f, Begun(existing, next), items, Len(items))
               /\ final = f[Len(items)].rows \o Todos!Kept(existing, f[Len(items)].rows)
  BY MergeWalks
<1> HIDE DEF final
<1> DEFINE acc == f[Len(items)]
           listed == acc.rows
           kept == Todos!Kept(existing, listed)
<1>2. Merging(acc, existing)
  BY <1>1, MergeStarts, WalkMerges
<1> HIDE DEF acc
<1>3. /\ listed \in Seq(TodoRows)
      /\ \A i \in DOMAIN acc.byId :
          /\ acc.byId[i].id = i /\ Honest(acc.byId[i])
          /\ acc.byId[i].key # None => acc.byKey[acc.byId[i].key] = i
      /\ \A n \in DOMAIN existing :
          /\ existing[n].id \in DOMAIN acc.byId
          /\ (\A m \in DOMAIN listed : listed[m].id # existing[n].id) =>
                acc.byId[existing[n].id] = existing[n]
      /\ \A n \in DOMAIN listed :
          /\ listed[n].id \in DOMAIN acc.byId
          /\ \/ acc.byId[listed[n].id] = listed[n]
             \/ \E m \in DOMAIN listed : m > n /\ listed[m].id = listed[n].id
  BY <1>2 DEF Merging
<1> HIDE DEF listed
<1> DEFINE K == {m \in DOMAIN existing : \A n \in DOMAIN listed : listed[n].id # existing[m].id}
<1>4. kept = Picked(existing, K)
  BY TodoPicks DEF Todos!Kept
<1> HIDE DEF kept
<1>5. /\ kept \in Seq(TodoRows)
      /\ \A n \in K : \E i \in DOMAIN kept : kept[i] = existing[n]
      /\ \A i \in DOMAIN kept : \E n \in K : kept[i] = existing[n]
  <2>1. K \in SUBSET (DOMAIN existing)
    OBVIOUS
  <2> HIDE DEF K
  <2> QED
    BY <1>4, <2>1, PickedIs
<1>6. /\ final = listed \o kept /\ final \in Seq(TodoRows)
      /\ Len(listed) \in Nat /\ Len(kept) \in Nat
      /\ DOMAIN listed = 1 .. Len(listed) /\ DOMAIN kept = 1 .. Len(kept)
      /\ DOMAIN final = 1 .. Len(listed) + Len(kept)
      /\ \A n \in DOMAIN listed : final[n] = listed[n]
      /\ \A n \in DOMAIN kept : final[Len(listed) + n] = kept[n]
  <2>1. final = listed \o kept
    BY <1>1 DEF kept, listed, acc
  <2> QED
    BY <1>3, <1>5, <2>1
<1>7. ASSUME NEW n \in DOMAIN existing PROVE \E m \in DOMAIN final : final[m].id = existing[n].id
  <2>1. CASE n \in K
    <3>1. PICK i \in DOMAIN kept : kept[i] = existing[n]
      BY <1>5, <2>1
    <3>2. Len(listed) + i \in DOMAIN final
      BY <1>6
    <3> QED
      BY <1>6, <3>1, <3>2
  <2>2. CASE n \notin K
    <3>1. PICK m \in DOMAIN listed : listed[m].id = existing[n].id
      BY <2>2
    <3>2. m \in DOMAIN final
      BY <1>6
    <3> QED
      BY <1>6, <3>1, <3>2
  <2> QED
    BY <2>1, <2>2
<1>8. ASSUME ~Todos!Rejected(final) PROVE Apart(final)
  <2>1. \A m, n \in DOMAIN final : m # n => final[m].id # final[n].id
    BY <1>8 DEF Todos!Rejected
  <2>2. ASSUME NEW n \in DOMAIN final
        PROVE  final[n].id \in DOMAIN acc.byId /\ acc.byId[final[n].id] = final[n]
    <3>1. CASE n \in DOMAIN listed
      <4>1. ASSUME NEW m \in DOMAIN listed, m > n PROVE listed[m].id # listed[n].id
        <5>1. m \in DOMAIN final /\ m # n
          BY <1>6, <3>1, <4>1
        <5> QED
          BY <1>6, <2>1, <3>1, <5>1
      <4> QED
        BY <1>3, <1>6, <3>1, <4>1
    <3>2. CASE n \notin DOMAIN listed
      <4>1. n - Len(listed) \in DOMAIN kept /\ n = Len(listed) + (n - Len(listed))
        BY <1>6, <3>2
      <4>2. PICK m \in K : kept[n - Len(listed)] = existing[m]
        BY <1>5, <4>1
      <4>3. final[n] = existing[m]
        BY <1>6, <4>1, <4>2
      <4> QED
        BY <1>3, <4>3
    <3> QED
      BY <3>1, <3>2
  <2>3. ASSUME NEW m \in DOMAIN final, NEW n \in DOMAIN final, m # n, final[m].key = final[n].key
        PROVE  final[m].key = None
    <3> DEFINE i == final[m].id
               j == final[n].id
    <3>1. i \in DOMAIN acc.byId /\ acc.byId[i] = final[m] /\ j \in DOMAIN acc.byId /\ acc.byId[j] = final[n]
      BY <2>2
    <3>2. i # j
      BY <2>1, <2>3
    <3> HIDE DEF i, j
    <3>3. /\ acc.byId[i].key # None => acc.byKey[acc.byId[i].key] = i
          /\ acc.byId[j].key # None => acc.byKey[acc.byId[j].key] = j
      BY <1>3, <3>1
    <3> QED
      BY <2>3, <3>1, <3>2, <3>3
  <2>4. \A n \in DOMAIN final : Honest(final[n])
    BY <1>3, <2>2
  <2> QED
    BY <2>1, <2>3, <2>4 DEF Apart, Todos!KeysUnique, Todos!ClosedAreDone, Honest
<1> QED
  BY <1>6, <1>7, <1>8 DEF final

\* A row is done when its status says so.
LEMMA RowIs ==
    ASSUME NEW id \in Nat, NEW key \in TodoNames, NEW status \in Todos!Statuses
    PROVE  LET row == Todos!Row(id, key, status)
           IN  /\ row \in TodoRows /\ Honest(row)
               /\ row.id = id /\ row.key = key /\ row.status = status
<1> DEFINE row == Todos!Row(id, key, status)
           done == status \notin Todos!Open
<1>1. row = [id |-> id, key |-> key, status |-> status, done |-> done]
  BY DEF Todos!Row
<1>2. done \in BOOLEAN
  OBVIOUS
<1>3. row.id = id /\ row.key = key /\ row.status = status /\ row.done = done
  BY <1>1
<1>4. row.done <=> row.status \notin Todos!Open
  BY <1>3
<1> HIDE DEF done
<1>5. row \in TodoRows
  BY <1>1, <1>2 DEF TodoRows
<1> QED
  BY <1>3, <1>4, <1>5 DEF Honest

\* What a replacement builds: the items as rows with new ids, no key twice.
LEMMA ReplaceBuilds ==
    ASSUME Todos!TodoAssumption, NEW next \in Nat, NEW items \in Seq(PayloadItems)
    PROVE  LET final == Todos!BuildTodosReplace(items, next)
           IN  final \in Seq(TodoRows) /\ Apart(final)
<1> DEFINE final == Todos!BuildTodosReplace(items, next)
           seen(n) == {Todos!Wanted(items[m]) : m \in 1 .. n - 1}
           key(n) == Todos!AssignKey(items[n], seen(n))
<1>1. DOMAIN items = 1 .. Len(items) /\ Len(items) \in Nat
      /\ \A n \in 1 .. Len(items) : items[n] \in PayloadItems
  OBVIOUS
<1>2. /\ DOMAIN final = 1 .. Len(items)
      /\ final = [n \in 1 .. Len(items) |-> final[n]]
      /\ \A n \in 1 .. Len(items) : final[n] = Todos!Row(next + n - 1, key(n), items[n].status)
  BY <1>1 DEF Todos!BuildTodosReplace
<1> HIDE DEF final
<1>3. ASSUME NEW n \in 1 .. Len(items)
      PROVE  /\ Todos!Wanted(items[n]) \in TodoNames
             /\ key(n) = None \/ (key(n) = Todos!Wanted(items[n]) /\ key(n) \notin seen(n))
             /\ items[n].status \in Todos!Statuses
  <2>1. /\ items[n].key \in TodoNames /\ items[n].id \in TodoNames
        /\ items[n].status \in Todos!Statuses
    BY <1>1 DEF Todos!TodoAssumption, TodoNames, Todos!RowIds
  <2> QED
    BY <2>1 DEF Todos!Wanted, Todos!AssignKey
<1>4. ASSUME NEW m \in 1 .. Len(items), NEW n \in 1 .. Len(items), m < n, key(m) = key(n)
      PROVE  key(m) = None
  <2>1. Todos!Wanted(items[m]) \in seen(n)
    BY <1>1, <1>4
  <2> HIDE DEF seen
  <2> QED
    BY <1>3, <1>4, <2>1
<1>5. ASSUME NEW n \in 1 .. Len(items)
      PROVE  /\ final[n] \in TodoRows /\ final[n].id = next + n - 1 /\ final[n].key = key(n)
             /\ Honest(final[n])
  <2> DEFINE k == key(n)
  <2>1. k \in TodoNames /\ items[n].status \in Todos!Statuses
    BY <1>3 DEF TodoNames
  <2> DEFINE id == next + n - 1
  <2>a. final[n] = Todos!Row(id, k, items[n].status)
    BY <1>2
  <2>b. id \in Nat
    BY <1>1
  <2>2. final[n] = Todos!Row(id, k, items[n].status) /\ id \in Nat
    BY <2>a, <2>b
  <2> HIDE DEF k, id
  <2>3. final[n] \in TodoRows /\ final[n].id = id /\ final[n].key = k /\ Honest(final[n])
    BY <2>1, <2>2, RowIs
  <2> QED
    BY <2>3 DEF k, id
<1> HIDE DEF key
<1>6. final \in Seq(TodoRows)
  BY <1>1, <1>2, <1>5
<1>7. ASSUME NEW m \in DOMAIN final, NEW n \in DOMAIN final, m # n
      PROVE  final[m].id # final[n].id /\ (final[m].key = final[n].key => final[m].key = None)
  <2>1. m \in 1 .. Len(items) /\ n \in 1 .. Len(items)
    BY <1>2
  <2>2. key(m) = key(n) => key(m) = None
    BY <1>1, <1>4, <1>7, <2>1
  <2> QED
    BY <1>1, <1>5, <1>7, <2>1, <2>2
<1>8. \A n \in DOMAIN final : Honest(final[n])
  BY <1>2, <1>5
<1>9. Apart(final)
  BY <1>7, <1>8 DEF Apart, Todos!KeysUnique, Todos!ClosedAreDone, Honest
<1> QED
  BY <1>6, <1>9 DEF final

\* The last of some numbers of a finite set.
LEMMA LastIs ==
    ASSUME NEW K \in SUBSET Nat, IsFiniteSet(K), K # {}
    PROVE  Todos!LastOf(K) \in K /\ \A m \in K : m <= Todos!LastOf(K)
<1>1. \E n \in K : \A m \in K : m <= n
  BY LastExists
<1> QED
  BY <1>1 DEF Todos!LastOf

\* At most one task in progress is left, and nothing else changes.
LEMMA NormalizeIs ==
    ASSUME NEW rows \in Seq(TodoRows)
    PROVE  LET out == Todos!Normalize(rows)
           IN  /\ out \in Seq(TodoRows) /\ DOMAIN out = DOMAIN rows
               /\ \A n \in DOMAIN rows : out[n].id = rows[n].id
               /\ Apart(rows) => Shaped(out)
<1> DEFINE out == Todos!Normalize(rows)
           P == Todos!InProgress(rows)
           row(n) == Todos!Row(rows[n].id, rows[n].key, "pending")
<1>1. DOMAIN rows = 1 .. Len(rows) /\ Len(rows) \in Nat
      /\ \A n \in DOMAIN rows : rows[n] \in TodoRows
  OBVIOUS
<1>2. /\ DOMAIN out = DOMAIN rows /\ out = [n \in DOMAIN rows |-> out[n]]
      /\ \A n \in DOMAIN rows :
           out[n] = IF n \in P /\ n # Todos!LastOf(P) THEN row(n) ELSE rows[n]
  BY DEF Todos!Normalize
<1> HIDE DEF out
<1>3. ASSUME NEW n \in DOMAIN rows
      PROVE  /\ row(n) \in TodoRows /\ row(n).id = rows[n].id /\ row(n).key = rows[n].key
             /\ row(n).status = "pending" /\ Honest(row(n))
  <2> DEFINE id == rows[n].id
             key == rows[n].key
  <2>1. id \in Nat /\ key \in TodoNames /\ row(n) = Todos!Row(id, key, "pending")
    BY <1>1 DEF TodoRows
  <2>3. "pending" \in Todos!Statuses
    BY DEF Todos!Statuses, Todos!Open
  <2> HIDE DEF row, id, key
  <2>2. /\ row(n) \in TodoRows /\ row(n).id = id /\ row(n).key = key
        /\ row(n).status = "pending" /\ Honest(row(n))
    BY <2>1, <2>3, RowIs
  <2> QED
    BY <2>2 DEF id, key
<1> HIDE DEF row
<1>4. \A n \in DOMAIN rows : out[n] \in TodoRows /\ out[n].id = rows[n].id /\ out[n].key = rows[n].key
  BY <1>1, <1>2, <1>3
<1>5. out \in Seq(TodoRows)
  BY <1>1, <1>2, <1>4
<1>6. ASSUME NEW n \in Todos!InProgress(out) PROVE n = Todos!LastOf(P)
  <2>1. n \in DOMAIN rows /\ out[n].status = "in_progress"
    BY <1>2 DEF Todos!InProgress
  <2>2. ~(n \in P /\ n # Todos!LastOf(P))
    <3> SUFFICES ASSUME n \in P /\ n # Todos!LastOf(P) PROVE FALSE
      OBVIOUS
    <3>1. out[n].status = "pending"
      BY <1>2, <1>3, <2>1
    <3> QED
      BY <2>1, <3>1
  <2>3. out[n] = rows[n]
    BY <1>2, <2>1, <2>2
  <2>4. n \in P
    BY <2>1, <2>3 DEF Todos!InProgress
  <2> QED
    BY <2>2, <2>4
<1>7. Todos!OneInProgress(out)
  BY <1>6 DEF Todos!OneInProgress
<1>8. ASSUME Apart(rows) PROVE Todos!KeysUnique(out) /\ Todos!ClosedAreDone(out)
  <2>1. Todos!KeysUnique(rows) /\ \A n \in DOMAIN rows : Honest(rows[n])
    BY <1>8 DEF Apart, Todos!ClosedAreDone, Honest
  <2>2. Todos!KeysUnique(out)
    BY <1>2, <1>4, <2>1 DEF Todos!KeysUnique
  <2>3. \A n \in DOMAIN rows : Honest(out[n])
    BY <1>2, <1>3, <2>1
  <2> QED
    BY <1>2, <2>2, <2>3 DEF Todos!ClosedAreDone, Honest
<1>9. Apart(rows) => Shaped(out)
  BY <1>7, <1>8 DEF Shaped
<1> QED
  BY <1>2, <1>4, <1>5, <1>9 DEF out

\* The ids of a list are behind the next one.
LEMMA NextAfterIs ==
    ASSUME nextRow \in Nat, NEW rows \in Seq(TodoRows)
    PROVE  /\ Todos!NextAfter(rows) \in Nat /\ nextRow <= Todos!NextAfter(rows)
           /\ \A n \in DOMAIN rows : rows[n].id < Todos!NextAfter(rows)
<1> DEFINE T == {rows[n].id + 1 : n \in DOMAIN rows}
           K == {nextRow} \cup T
<1>1. DOMAIN rows = 1 .. Len(rows) /\ Len(rows) \in Nat /\ \A n \in DOMAIN rows : rows[n].id \in Nat
  <2>1. \A n \in DOMAIN rows : rows[n] \in TodoRows
    OBVIOUS
  <2> QED
    BY <2>1 DEF TodoRows
<1>2. Todos!NextAfter(rows) = Todos!LastOf(K)
  BY DEF Todos!NextAfter
<1>3. K \in SUBSET Nat /\ nextRow \in K
  BY <1>1
<1>4. IsFiniteSet(K)
  <2>1. IsFiniteSet(1 .. Len(rows))
    BY <1>1, IntervalSize
  <2> DEFINE g == [n \in 1 .. Len(rows) |-> rows[n].id + 1]
  <2>2. g \in Surjection(1 .. Len(rows), T)
    BY <1>1 DEF Surjection
  <2>3. IsFiniteSet(T)
    BY <2>1, <2>2, FS_Surjection
  <2> QED
    BY <2>3, FS_Singleton, FS_Union
<1>5. \A n \in DOMAIN rows : rows[n].id + 1 \in K
  OBVIOUS
<1>7. \A k \in K : k \in Nat
  BY <1>3
<1> HIDE DEF K
<1>6. Todos!LastOf(K) \in K /\ \A m \in K : m <= Todos!LastOf(K)
  BY <1>3, <1>4, LastIs
<1> DEFINE last == Todos!LastOf(K)
<1>8. last \in Nat /\ nextRow <= last /\ \A n \in DOMAIN rows : rows[n].id + 1 <= last
  BY <1>3, <1>5, <1>6, <1>7
<1>9. \A n \in DOMAIN rows : rows[n].id < last
  BY <1>1, <1>8
<1> QED
  BY <1>2, <1>8, <1>9

\* A fork copies the rows under new ids.
LEMMA CopiedIs ==
    ASSUME NEW rows \in Seq(TodoRows), NEW next \in Nat, Shaped(rows)
    PROVE  LET out == Todos!Copied(rows, next)
           IN  Issued(out, next + Len(rows)) /\ Shaped(out)
<1> DEFINE out == Todos!Copied(rows, next)
<1>1. DOMAIN rows = 1 .. Len(rows) /\ Len(rows) \in Nat
      /\ \A n \in DOMAIN rows : rows[n] \in TodoRows
  OBVIOUS
<1>2. /\ DOMAIN out = DOMAIN rows /\ out = [n \in DOMAIN rows |-> out[n]]
      /\ \A n \in DOMAIN rows : out[n] = [rows[n] EXCEPT !.id = next + n - 1]
  BY DEF Todos!Copied
<1> HIDE DEF out
<1>3. ASSUME NEW n \in DOMAIN rows
      PROVE  /\ out[n] \in TodoRows /\ out[n].id = next + n - 1 /\ out[n].key = rows[n].key
             /\ out[n].status = rows[n].status /\ out[n].done = rows[n].done
  <2> DEFINE id == next + n - 1
  <2>1. id \in Nat
    BY <1>1
  <2> HIDE DEF id
  <2>2. out[n] = [rows[n] EXCEPT !.id = id] /\ rows[n] \in TodoRows
    BY <1>1, <1>2 DEF id
  <2>3. /\ out[n] \in TodoRows /\ out[n].id = id /\ out[n].key = rows[n].key
        /\ out[n].status = rows[n].status /\ out[n].done = rows[n].done
    BY <2>1, <2>2 DEF TodoRows
  <2> QED
    BY <2>3 DEF id
<1>4. out \in Seq(TodoRows)
  BY <1>1, <1>2, <1>3
<1>5. \A n \in DOMAIN out : out[n].id < next + Len(rows)
  BY <1>1, <1>2, <1>3
<1>6. Todos!KeysUnique(out)
  <2>1. \A m, n \in DOMAIN rows :
           m # n => out[m].id # out[n].id /\ (out[m].key = out[n].key => out[m].key = None)
    BY <1>1, <1>3 DEF Shaped, Todos!KeysUnique
  <2> QED
    BY <1>2, <2>1 DEF Todos!KeysUnique
<1>7. Todos!OneInProgress(out)
  <2>1. Todos!InProgress(out) = Todos!InProgress(rows)
    BY <1>2, <1>3 DEF Todos!InProgress
  <2> QED
    BY <2>1 DEF Shaped, Todos!OneInProgress
<1>8. Todos!ClosedAreDone(out)
  <2>1. \A n \in DOMAIN rows : rows[n].done <=> rows[n].status \notin Todos!Open
    BY DEF Shaped, Todos!ClosedAreDone
  <2> QED
    BY <1>2, <1>3, <2>1 DEF Todos!ClosedAreDone
<1> QED
  BY <1>4, <1>5, <1>6, <1>7, <1>8 DEF Issued, Shaped, out

\* An empty list is as a write may leave it.
LEMMA EmptyIs == ASSUME NEW next PROVE Issued(<<>>, next) /\ Shaped(<<>>)
<1>1. DOMAIN <<>> = {} /\ <<>> \in Seq(TodoRows)
  OBVIOUS
<1>2. Todos!OneInProgress(<<>>) /\ Todos!KeysUnique(<<>>) /\ Todos!ClosedAreDone(<<>>)
  BY <1>1 DEF Todos!OneInProgress, Todos!InProgress, Todos!KeysUnique, Todos!ClosedAreDone
<1> QED
  BY <1>1, <1>2 DEF Issued, Shaped

\* A list stays within the ids that are given out.
LEMMA IssuedGrows ==
    ASSUME NEW rows, NEW next \in Nat, NEW more \in Nat, Issued(rows, next), next <= more
    PROVE  Issued(rows, more)
<1>1. \A n \in DOMAIN rows : rows[n].id \in Nat
  <2>1. \A n \in DOMAIN rows : rows[n] \in TodoRows
    BY DEF Issued
  <2> QED
    BY <2>1 DEF TodoRows
<1> QED
  BY <1>1 DEF Issued

\* What a todo.write builds.
LEMMA WriteBuilds ==
    ASSUME ListInv, Todos!TodoAssumption, NEW s \in TodoSessions, NEW items \in Todos!Payloads,
           NEW merge \in BOOLEAN, Todos!BeginWrite(s, items, merge)
    PROVE  ListInv'
<1> DEFINE final == IF merge THEN Todos!BuildTodosMerge(lists[s], items, nextRow)
                    ELSE Todos!BuildTodosReplace(items, nextRow)
           done == Todos!Normalize(final)
           focus == Todos!LastOf({0} \cup Todos!InProgress(items))
<1>1. /\ life[s] # "none" /\ nextRow' = Todos!NextAfter(final)
      /\ write' = [pc |-> "built", session |-> s, merge |-> merge, final |-> done, focus |-> focus]
      /\ life' = life /\ lists' = lists
  BY Zenon DEF Todos!BeginWrite
<1>2. write'.session = s /\ write'.merge = merge /\ write'.final = done
  BY <1>1
<1>3. nextRow \in Nat /\ lists[s] \in Seq(TodoRows) /\ Shaped(lists[s])
      /\ \A n \in DOMAIN lists[s] : lists[s][n].id < nextRow
  BY DEF ListInv, Issued
<1>4. items \in Seq(PayloadItems)
  BY DEF Todos!Payloads
<1>5. /\ final \in Seq(TodoRows)
      /\ ~Todos!Rejected(final) => Apart(final)
      /\ merge => \A n \in DOMAIN lists[s] : \E m \in DOMAIN final : final[m].id = lists[s][n].id
  BY <1>3, <1>4, MergeBuilds, ReplaceBuilds
<1> HIDE DEF final
<1>6. /\ done \in Seq(TodoRows) /\ DOMAIN done = DOMAIN final
      /\ \A n \in DOMAIN final : done[n].id = final[n].id
      /\ Apart(final) => Shaped(done)
  BY <1>5, NormalizeIs
<1> HIDE DEF done, focus
<1>7. Todos!Rejected(final) => Todos!Rejected(done)
  BY <1>6 DEF Todos!Rejected
<1>8. /\ nextRow' \in Nat /\ nextRow <= nextRow'
      /\ \A n \in DOMAIN final : final[n].id < nextRow'
  BY <1>1, <1>3, <1>5, NextAfterIs
<1>9. Issued(done, nextRow')
  BY <1>6, <1>8 DEF Issued
<1>10. \A t \in TodoSessions : Issued(lists[t], nextRow') /\ Shaped(lists[t])
  BY <1>3, <1>8, IssuedGrows DEF ListInv
<1>11. ~Todos!Rejected(done) => Shaped(done)
  BY <1>5, <1>6, <1>7
<1>12. merge => \A n \in DOMAIN lists[s] : \E m \in DOMAIN done : done[m].id = lists[s][n].id
  BY <1>5, <1>6
<1>13. WriteFits'
  BY <1>1, <1>2, <1>9, <1>11, <1>12 DEF WriteFits
<1> QED
  BY <1>1, <1>8, <1>10, <1>13 DEF ListInv

\* A write takes effect, or is taken back because a row is there twice.
LEMMA WriteLands ==
    ASSUME ListInv, Todos!ReplaceSession
    PROVE  ListInv'
<1>1. /\ write # Todos!NoWrite /\ write' = Todos!NoWrite /\ life' = life /\ nextRow' = nextRow
      /\ lists' = IF Todos!Rejected(write.final) THEN lists
                  ELSE [lists EXCEPT ![write.session] = write.final]
  BY DEF Todos!ReplaceSession
<1>2. /\ write.session \in TodoSessions /\ Issued(write.final, nextRow)
      /\ ~Todos!Rejected(write.final) => Shaped(write.final)
  BY <1>1 DEF ListInv, WriteFits
<1>3. \A t \in TodoSessions :
         lists'[t] = IF ~Todos!Rejected(write.final) /\ t = write.session THEN write.final ELSE lists[t]
  BY <1>1 DEF ListInv
<1>4. lists' = [t \in TodoSessions |-> lists'[t]]
  BY <1>1 DEF ListInv
<1>5. \A t \in TodoSessions : Issued(lists'[t], nextRow') /\ Shaped(lists'[t])
  BY <1>1, <1>2, <1>3 DEF ListInv
<1>6. WriteFits'
  BY <1>1 DEF WriteFits
<1> QED
  BY <1>1, <1>4, <1>5, <1>6 DEF ListInv

\* The sessions of a write and their lists, while a write goes on.
LEMMA ListsMove ==
    ASSUME ListInv, nextRow' \in Nat, nextRow <= nextRow', UNCHANGED write,
           life' = [s \in TodoSessions |-> life'[s]],
           lists' = [s \in TodoSessions |-> lists'[s]],
           \A s \in TodoSessions : life[s] # "none" => life'[s] # "none",
           \A s \in TodoSessions :
              \/ lists'[s] = lists[s] \/ lists'[s] = <<>>
              \/ life[s] = "none" /\ Issued(lists'[s], nextRow') /\ Shaped(lists'[s])
    PROVE  ListInv'
<1>1. ASSUME NEW s \in TodoSessions PROVE Issued(lists'[s], nextRow') /\ Shaped(lists'[s])
  <2>1. CASE lists'[s] = lists[s]
    BY <2>1, IssuedGrows DEF ListInv
  <2>2. CASE lists'[s] = <<>>
    BY <2>2, EmptyIs
  <2> QED
    BY <2>1, <2>2
<1>2. ASSUME write # Todos!NoWrite
      PROVE  /\ write.session \in TodoSessions /\ life'[write.session] # "none"
             /\ Issued(write.final, nextRow')
             /\ ~Todos!Rejected(write.final) => Shaped(write.final)
             /\ write.merge =>
                  \A n \in DOMAIN lists'[write.session] : \E m \in DOMAIN write.final :
                     write.final[m].id = lists'[write.session][n].id
  <2> DEFINE s == write.session
  <2>1. /\ s \in TodoSessions /\ life[s] # "none" /\ Issued(write.final, nextRow)
        /\ ~Todos!Rejected(write.final) => Shaped(write.final)
        /\ write.merge =>
             \A n \in DOMAIN lists[s] : \E m \in DOMAIN write.final :
                write.final[m].id = lists[s][n].id
    BY <1>2 DEF ListInv, WriteFits
  <2>2. lists'[s] = lists[s] \/ DOMAIN lists'[s] = {}
    <3>1. lists'[s] = lists[s] \/ lists'[s] = <<>>
      BY <2>1
    <3> QED
      BY <3>1
  <2>3. Issued(write.final, nextRow')
    BY <2>1, IssuedGrows DEF ListInv
  <2> QED
    BY <2>1, <2>2, <2>3
<1>3. WriteFits'
  BY <1>2 DEF WriteFits
<1> QED
  BY <1>1, <1>3 DEF ListInv

\* The lists keep their invariant.
LEMMA ListsKeep ==
    ASSUME ListInv, Todos!TodoAssumption, Todos!Next \/ UNCHANGED t_vars
    PROVE  ListInv'
<1>0. /\ nextRow \in Nat /\ life = [s \in TodoSessions |-> life[s]]
      /\ lists = [s \in TodoSessions |-> lists[s]]
      /\ \A s \in TodoSessions : Issued(lists[s], nextRow) /\ Shaped(lists[s])
  BY DEF ListInv
<1>1. ASSUME NEW s \in TodoSessions, NEW items \in Todos!Payloads, NEW merge \in BOOLEAN,
             Todos!BeginWrite(s, items, merge)
      PROVE  ListInv'
  BY <1>1, WriteBuilds
<1>2. CASE Todos!ReplaceSession
  BY <1>2, WriteLands
<1>3. ASSUME NEW s \in TodoSessions, NEW t \in TodoSessions, Todos!Fork(s, t) PROVE ListInv'
  <2>1. /\ life[s] # "none" /\ life[t] = "none"
        /\ life' = [life EXCEPT ![t] = life[s]]
        /\ lists' = [lists EXCEPT ![t] = Todos!Copied(lists[s], nextRow)]
        /\ nextRow' = nextRow + Len(lists[s]) /\ write' = write
    BY <1>3 DEF Todos!Fork
  <2>2. lists[s] \in Seq(TodoRows) /\ Shaped(lists[s]) /\ Len(lists[s]) \in Nat
    BY <1>0 DEF Issued
  <2>3. nextRow' \in Nat /\ nextRow <= nextRow'
    BY <1>0, <2>1, <2>2
  <2>4. /\ lists' = [r \in TodoSessions |-> lists'[r]]
        /\ lists'[t] = Todos!Copied(lists[s], nextRow)
        /\ \A r \in TodoSessions : r # t => lists'[r] = lists[r]
    BY <1>0, <2>1
  <2>5. Issued(lists'[t], nextRow') /\ Shaped(lists'[t])
    BY <1>0, <2>1, <2>2, <2>4, CopiedIs
  <2>6. /\ life' = [r \in TodoSessions |-> life'[r]]
        /\ \A r \in TodoSessions : life[r] # "none" => life'[r] # "none"
    BY <1>0, <2>1
  <2>7. \A r \in TodoSessions :
           \/ lists'[r] = lists[r] \/ lists'[r] = <<>>
           \/ life[r] = "none" /\ Issued(lists'[r], nextRow') /\ Shaped(lists'[r])
    BY <2>1, <2>4, <2>5
  <2> QED
    BY <2>1, <2>3, <2>4, <2>6, <2>7, ListsMove
<1>4. ASSUME NEW s \in TodoSessions, Todos!SoftDelete(s) PROVE ListInv'
  <2>1. /\ life' = [life EXCEPT ![s] = "ending"]
        /\ lists' = lists /\ nextRow' = nextRow /\ write' = write
    BY <1>4 DEF Todos!SoftDelete
  <2>2. /\ life' = [r \in TodoSessions |-> life'[r]]
        /\ \A r \in TodoSessions : life[r] # "none" => life'[r] # "none"
    BY <1>0, <2>1
  <2> QED
    BY <1>0, <2>1, <2>2, ListsMove
<1>5. ASSUME NEW s \in TodoSessions, Todos!DropTodos(s) PROVE ListInv'
  <2>1. /\ life' = [life EXCEPT ![s] = "deleted"]
        /\ lists' = [lists EXCEPT ![s] = <<>>] /\ nextRow' = nextRow /\ write' = write
    BY <1>5 DEF Todos!DropTodos, Todos!Rows
  <2>2. /\ life' = [r \in TodoSessions |-> life'[r]]
        /\ \A r \in TodoSessions : life[r] # "none" => life'[r] # "none"
    BY <1>0, <2>1
  <2>3. /\ lists' = [r \in TodoSessions |-> lists'[r]]
        /\ \A r \in TodoSessions : lists'[r] = lists[r] \/ lists'[r] = <<>>
    BY <1>0, <2>1
  <2> QED
    BY <1>0, <2>1, <2>2, <2>3, ListsMove
<1>6. CASE Todos!RemoveTodos
  <2>1. /\ life' = [r \in TodoSessions |-> IF life[r] = "live" THEN "emptied" ELSE life[r]]
        /\ lists' = [r \in TodoSessions |-> <<>>] /\ nextRow' = nextRow /\ write' = write
    BY <1>6 DEF Todos!RemoveTodos, Todos!Rows
  <2>2. /\ life' = [r \in TodoSessions |-> life'[r]]
        /\ \A r \in TodoSessions : life[r] # "none" => life'[r] # "none"
    BY <2>1
  <2>3. /\ lists' = [r \in TodoSessions |-> lists'[r]]
        /\ \A r \in TodoSessions : lists'[r] = <<>>
    BY <2>1
  <2> QED
    BY <1>0, <2>1, <2>2, <2>3, ListsMove
<1>7. CASE Todos!RemoveSessions
  <2>1. /\ life' = [r \in TodoSessions |-> IF life[r] = "emptied" THEN "deleted" ELSE life[r]]
        /\ lists' = lists /\ nextRow' = nextRow /\ write' = write
    BY <1>7 DEF Todos!RemoveSessions
  <2>2. /\ life' = [r \in TodoSessions |-> life'[r]]
        /\ \A r \in TodoSessions : life[r] # "none" => life'[r] # "none"
    BY <2>1
  <2> QED
    BY <1>0, <2>1, <2>2, ListsMove
<1>8. CASE UNCHANGED t_vars
  <2>1. life' = life /\ lists' = lists /\ nextRow' = nextRow /\ write' = write
    BY <1>8 DEF t_vars
  <2> QED
    BY <1>0, <2>1, ListsMove
<1> QED
  BY <1>1, <1>2, <1>3, <1>4, <1>5, <1>6, <1>7, <1>8 DEF Todos!Next

\* A behaviour starts with empty lists and no write.
LEMMA ListsStart ==
    ASSUME Todos!Init
    PROVE  ListInv
<1>1. /\ life = [s \in TodoSessions |-> life[s]] /\ lists = [s \in TodoSessions |-> <<>>]
      /\ nextRow = 1 /\ write = Todos!NoWrite
  BY DEF Todos!Init
<1>2. lists = [s \in TodoSessions |-> lists[s]] /\ \A s \in TodoSessions : lists[s] = <<>>
  BY <1>1
<1>3. \A s \in TodoSessions : Issued(lists[s], nextRow) /\ Shaped(lists[s])
  BY <1>2, EmptyIs
<1>4. WriteFits
  BY <1>1 DEF WriteFits
<1> QED
  BY <1>1, <1>2, <1>3, <1>4 DEF ListInv

\* The invariant of the lists holds in every behaviour.
LEMMA ListsSafety == Spec => []ListInv
<1>1. Init => ListInv
  BY AllStoresStart, ListsStart
<1>2. ListInv /\ [Next]_vars => ListInv'
  BY OneStoreMoves, ListsKeep, TodoAssumption
<1> QED
  BY <1>1, <1>2, PTL DEF Spec, vars

\* Tasks are sorted for a run as RowOrder says.
LEMMA TodoOrder == \A rows, key : Todos!Ordered(rows, key) = Ordered(rows, key)
  BY Zenon DEF Todos!Ordered, Todos!UpTo, Ordered, UpTo, Todos!Cardinality, Cardinality

\* The context of a run shows a closed task only when it shows every open one.
LEMMA ContextIs ==
    ASSUME Todos!TodoAssumption, NEW rows \in Seq(TodoRows)
    PROVE  Todos!ContextOpenFirst(rows)
<1> DEFINE key == [n \in DOMAIN rows |-> Todos!Rank(rows[n].status)]
           lines == IF Len(rows) < ContextLines THEN Len(rows) ELSE ContextLines
           all == Ordered(rows, key)
           shown == Todos!Context(rows)
           place(n) == Cardinality(UpTo(key, n))
<1>1. DOMAIN rows = 1 .. Len(rows) /\ Len(rows) \in Nat
      /\ \A n \in DOMAIN rows : rows[n].status \in Todos!Statuses
  <2>1. \A n \in DOMAIN rows : rows[n] \in TodoRows
    OBVIOUS
  <2> QED
    BY <2>1 DEF TodoRows
<1>2. ASSUME NEW n \in DOMAIN rows
      PROVE  /\ key[n] \in Nat
             /\ rows[n].status \in Todos!Open => key[n] <= 1
             /\ rows[n].status \notin Todos!Open => key[n] >= 2
  <2>1. key[n] = Todos!Rank(rows[n].status)
    OBVIOUS
  <2>2. rows[n].status \in {"pending", "in_progress", "completed", "cancelled"}
    BY <1>1 DEF Todos!Statuses, Todos!Open
  <2> HIDE DEF key
  <2> QED
    BY <2>1, <2>2 DEF Todos!Rank, Todos!Open
<1>3. key \in [DOMAIN rows -> Nat]
  BY <1>2
<1>4. shown = SubSeq(all, 1, lines)
  BY TodoOrder DEF Todos!Context
<1> HIDE DEF key, shown
<1>5. /\ all \in Seq(TodoRows) /\ Len(all) = Len(rows)
      /\ \A n \in DOMAIN rows : place(n) \in DOMAIN rows /\ all[place(n)] = rows[n]
      /\ \A i \in DOMAIN rows : \E n \in DOMAIN rows : place(n) = i /\ all[i] = rows[n]
      /\ \A m, n \in DOMAIN rows : place(m) <= place(n) => key[m] <= key[n]
  BY <1>3, OrderedIs
<1> HIDE DEF all, place
<1>6. lines \in 0 .. Len(all) /\ lines \in Nat /\ lines <= Len(rows)
  BY <1>1, <1>5 DEF Todos!TodoAssumption
<1> HIDE DEF lines
<1>7. /\ shown \in Seq(TodoRows) /\ DOMAIN shown = 1 .. lines
      /\ \A i \in 1 .. lines : shown[i] = all[i]
  BY <1>4, <1>5, <1>6, SubSeqIs
<1>8. ASSUME NEW i \in DOMAIN shown, shown[i].status \notin Todos!Open,
             NEW r \in Todos!OpenTasks(rows)
      PROVE  r \in Todos!Range(shown)
  <2>1. i \in 1 .. lines /\ i \in DOMAIN rows /\ all[i].status \notin Todos!Open
    BY <1>1, <1>6, <1>7, <1>8
  <2>2. PICK n \in DOMAIN rows : place(n) = i /\ all[i] = rows[n]
    BY <1>5, <2>1
  <2>3. PICK m \in DOMAIN rows : r = rows[m] /\ rows[m].status \in Todos!Open
    BY <1>8 DEF Todos!OpenTasks, Todos!Range
  <2>4. key[m] <= 1 /\ key[n] >= 2 /\ key[m] \in Nat /\ key[n] \in Nat
    BY <1>2, <2>1, <2>2, <2>3
  <2>a. place(m) \in 1 .. Len(rows) /\ place(n) \in 1 .. Len(rows)
    BY <1>1, <1>5
  <2>5. place(m) \in Nat /\ place(n) \in Nat /\ place(m) >= 1
    BY <1>1, <2>a
  <2>6. ~(place(n) <= place(m))
    <3>1. place(n) <= place(m) => key[n] <= key[m]
      BY <1>5
    <3> QED
      BY <2>4, <3>1
  <2>7. place(m) \in 1 .. lines
    BY <1>6, <2>1, <2>2, <2>5, <2>6
  <2>8. shown[place(m)] = r /\ place(m) \in DOMAIN shown
    BY <1>5, <1>7, <2>3, <2>7
  <2> QED
    BY <2>8 DEF Todos!Range
<1> QED
  BY <1>8 DEF Todos!ContextOpenFirst, shown

\* Whatever todo.write asks for, by merges that name rows by key, by id or twice and by
\* replacements, and whatever is forked: one task in progress, no row or key twice,
\* closed tasks marked as done, and open tasks first in the context of a run.
THEOREM ListsStayWellFormed == Spec => []WellFormedLists
<1>1. ASSUME ListInv PROVE WellFormedLists
  <2>1. \A s \in TodoSessions : lists[s] \in Seq(TodoRows) /\ Shaped(lists[s])
    BY <1>1 DEF ListInv, Issued
  <2>2. \A s \in TodoSessions : Todos!ContextOpenFirst(lists[s])
    BY <2>1, ContextIs, TodoAssumption
  <2> QED
    BY <2>1, <2>2 DEF WellFormedLists, Todos!WellFormedLists, Shaped
<1> QED
  BY <1>1, ListsSafety, PTL

\* A merge deletes no task, neither one that it does not list nor one that it renames
\* or lists twice.
THEOREM MergesKeepRows == Spec => MergeKeepsRows
<1> DEFINE Ids(rows) == {rows[n].id : n \in DOMAIN rows}
           Step == Todos!ReplaceSession /\ write.merge =>
                     Ids(lists[write.session]) \subseteq Ids(lists'[write.session])
<1>1. ASSUME ListInv, [Next]_vars PROVE [Step]_t_vars
  <2> SUFFICES ASSUME Todos!ReplaceSession, write.merge
               PROVE  Ids(lists[write.session]) \subseteq Ids(lists'[write.session])
    OBVIOUS
  <2>1. /\ write # Todos!NoWrite
        /\ lists' = IF Todos!Rejected(write.final) THEN lists
                    ELSE [lists EXCEPT ![write.session] = write.final]
    BY DEF Todos!ReplaceSession
  <2>2. /\ write.session \in TodoSessions
        /\ \A n \in DOMAIN lists[write.session] : \E m \in DOMAIN write.final :
              write.final[m].id = lists[write.session][n].id
    BY <1>1, <2>1 DEF ListInv, WriteFits
  <2>3. lists'[write.session] = IF Todos!Rejected(write.final) THEN lists[write.session] ELSE write.final
    BY <1>1, <2>1, <2>2 DEF ListInv
  <2> QED
    BY <2>2, <2>3
<1>2. MergeKeepsRows <=> [][Step]_t_vars
  BY DEF MergeKeepsRows, Todos!MergeKeepsRows, t_vars, Todos!todoVars
<1> HIDE DEF Step
<1> QED
  BY <1>1, <1>2, ListsSafety, PTL DEF Spec, vars

-----------------------------------------------------------------------------
(* Tasks and the end of their session                                      *)

\* Of a session that no request raced with: an emptied or deleted one has no
\* tasks, and none is written in any but a live one.
Undisturbed(s) ==
    /\ life[s] \in {"emptied", "deleted"} => lists[s] = <<>>
    /\ Todos!Writing(s) => life[s] = "live"
TodoInv ==
    /\ life = [s \in TodoSessions |-> life[s]] /\ lists = [s \in TodoSessions |-> lists[s]]
    /\ \A s \in TodoSessions \ raced : Undisturbed(s)

\* The tasks keep their invariant.
LEMMA TodosKeep ==
    ASSUME TodoInv, Todos!Next \/ UNCHANGED t_vars
    PROVE  TodoInv'
<1>t. /\ life = [s \in TodoSessions |-> life[s]] /\ lists = [s \in TodoSessions |-> lists[s]]
      /\ \A s \in TodoSessions \ raced : Undisturbed(s)
  BY DEF TodoInv
<1>1. ASSUME NEW s \in TodoSessions, NEW items, NEW merge, Todos!BeginWrite(s, items, merge)
      PROVE  TodoInv'
  <2>1. /\ life' = life /\ lists' = lists /\ write = Todos!NoWrite
        /\ life[s] \in {"live", "emptied"}
        /\ raced' = IF life[s] = "emptied" THEN raced \cup {s} ELSE raced
    BY <1>1 DEF Todos!BeginWrite
  <2>2. write'.session = s
    BY <1>1 DEF Todos!BeginWrite
  <2>3. ASSUME NEW t \in TodoSessions \ raced' PROVE Undisturbed(t)'
    <3>1. t \notin raced /\ Undisturbed(t)
      BY <1>t, <2>1, <2>3
    <3>2. Todos!Writing(t)' => life[t] = "live"
      BY <2>1, <2>2, <2>3 DEF Todos!Writing
    <3> QED
      BY <2>1, <3>1, <3>2 DEF Undisturbed
  <2> QED
    BY <1>t, <2>1, <2>3 DEF TodoInv
<1>2. CASE Todos!ReplaceSession
  <2>1. /\ life' = life /\ raced' = raced /\ write' = Todos!NoWrite /\ write # Todos!NoWrite
        /\ lists' = lists \/ lists' = [lists EXCEPT ![write.session] = write.final]
    BY <1>2 DEF Todos!ReplaceSession
  <2>2. lists' = [t \in TodoSessions |-> lists'[t]]
    BY <1>t, <2>1
  <2>3. ASSUME NEW t \in TodoSessions \ raced PROVE Undisturbed(t)'
    <3>1. Undisturbed(t)
      BY <1>t
    <3>2. ~Todos!Writing(t)'
      BY <2>1 DEF Todos!Writing
    <3>3. t # write.session => lists'[t] = lists[t]
      BY <1>t, <2>1
    <3>4. t = write.session => life[t] = "live"
      BY <2>1, <3>1 DEF Undisturbed, Todos!Writing
    <3> QED
      BY <2>1, <3>1, <3>2, <3>3, <3>4 DEF Undisturbed
  <2> QED
    BY <1>t, <2>1, <2>2, <2>3 DEF TodoInv
<1>3. ASSUME NEW s \in TodoSessions, NEW u \in TodoSessions, Todos!Fork(s, u)
      PROVE  TodoInv'
  <2>1. /\ life' = [life EXCEPT ![u] = life[s]] /\ write' = write
        /\ life[s] \in {"live", "emptied"} /\ life[u] = "none"
        /\ lists' = [lists EXCEPT ![u] = Todos!Copied(lists[s], nextRow)]
        /\ raced' = IF life[s] = "emptied" THEN raced \cup {u} ELSE raced
    BY <1>3 DEF Todos!Fork
  <2>2. lists' = [t \in TodoSessions |-> lists'[t]] /\ life' = [t \in TodoSessions |-> life'[t]]
    BY <1>t, <2>1
  <2>3. ASSUME NEW t \in TodoSessions \ raced' PROVE Undisturbed(t)'
    <3>1. t \notin raced /\ Undisturbed(t)
      BY <1>t, <2>1, <2>3
    <3>2. Todos!Writing(t)' <=> Todos!Writing(t)
      BY <2>1 DEF Todos!Writing
    <3>3. CASE t # u
      BY <1>t, <2>1, <3>1, <3>2, <3>3 DEF Undisturbed
    <3>4. CASE t = u
      <4>1. life'[t] = "live"
        BY <1>t, <2>1, <2>3, <3>4
      <4> QED
        BY <4>1 DEF Undisturbed
    <3> QED
      BY <3>3, <3>4
  <2> QED
    BY <2>2, <2>3 DEF TodoInv
<1>4. ASSUME NEW s \in TodoSessions, Todos!SoftDelete(s) PROVE TodoInv'
  <2>1. /\ life' = [life EXCEPT ![s] = "ending"] /\ write' = write /\ lists' = lists
        /\ raced' = IF Todos!Writing(s) THEN raced \cup {s} ELSE raced
    BY <1>4 DEF Todos!SoftDelete
  <2>2. life' = [t \in TodoSessions |-> life'[t]]
    BY <1>t, <2>1
  <2>3. ASSUME NEW t \in TodoSessions \ raced' PROVE Undisturbed(t)'
    <3>1. t \notin raced /\ Undisturbed(t) /\ ~(t = s /\ Todos!Writing(s))
      BY <1>t, <2>1, <2>3
    <3>2. Todos!Writing(t)' <=> Todos!Writing(t)
      BY <2>1 DEF Todos!Writing
    <3> QED
      BY <1>t, <2>1, <3>1, <3>2 DEF Undisturbed
  <2> QED
    BY <1>t, <2>1, <2>2, <2>3 DEF TodoInv
<1>5. ASSUME NEW s \in TodoSessions, Todos!DropTodos(s) PROVE TodoInv'
  <2>1. /\ life' = [life EXCEPT ![s] = "deleted"] /\ write' = write /\ raced' = raced
        /\ lists' = [lists EXCEPT ![s] = <<>>] /\ life[s] = "ending"
    BY <1>5 DEF Todos!DropTodos, Todos!Rows
  <2>2. lists' = [t \in TodoSessions |-> lists'[t]] /\ life' = [t \in TodoSessions |-> life'[t]]
    BY <1>t, <2>1
  <2>3. ASSUME NEW t \in TodoSessions \ raced PROVE Undisturbed(t)'
    <3>1. Undisturbed(t)
      BY <1>t
    <3>2. Todos!Writing(t)' <=> Todos!Writing(t)
      BY <2>1 DEF Todos!Writing
    <3> QED
      BY <1>t, <2>1, <3>1, <3>2 DEF Undisturbed
  <2> QED
    BY <2>1, <2>2, <2>3 DEF TodoInv
<1>6. CASE Todos!RemoveTodos
  <2>1. /\ life' = [t \in TodoSessions |-> IF life[t] = "live" THEN "emptied" ELSE life[t]]
        /\ write' = write /\ lists' = [t \in TodoSessions |-> <<>>]
        /\ raced' = raced \cup {t \in TodoSessions : Todos!Writing(t)}
    BY <1>6 DEF Todos!RemoveTodos, Todos!Rows
  <2>2. ASSUME NEW t \in TodoSessions \ raced' PROVE Undisturbed(t)'
    <3>1. ~Todos!Writing(t)'
      BY <2>1, <2>2 DEF Todos!Writing
    <3> QED
      BY <2>1, <3>1 DEF Undisturbed
  <2>3. lists' = [t \in TodoSessions |-> lists'[t]] /\ life' = [t \in TodoSessions |-> life'[t]]
    BY <2>1
  <2> QED
    BY <2>2, <2>3 DEF TodoInv
<1>7. CASE Todos!RemoveSessions
  <2>1. /\ life' = [t \in TodoSessions |-> IF life[t] = "emptied" THEN "deleted" ELSE life[t]]
        /\ write' = write /\ lists' = lists /\ raced' = raced
    BY <1>7 DEF Todos!RemoveSessions
  <2>2. ASSUME NEW t \in TodoSessions \ raced PROVE Undisturbed(t)'
    <3>1. Undisturbed(t)
      BY <1>t
    <3>2. Todos!Writing(t)' <=> Todos!Writing(t)
      BY <2>1 DEF Todos!Writing
    <3> QED
      BY <2>1, <3>1, <3>2 DEF Undisturbed
  <2>3. life' = [t \in TodoSessions |-> life'[t]]
    BY <2>1
  <2> QED
    BY <1>t, <2>1, <2>2, <2>3 DEF TodoInv
<1>8. CASE UNCHANGED t_vars
  BY <1>t, <1>8 DEF t_vars, TodoInv, Undisturbed, Todos!Writing
<1> QED
  BY <1>1, <1>2, <1>3, <1>4, <1>5, <1>6, <1>7, <1>8 DEF Todos!Next

\* A behaviour starts with empty lists.
LEMMA TodosStart ==
    ASSUME Todos!Init
    PROVE  TodoInv
  BY DEF Todos!Init, TodoInv, Undisturbed, Todos!Writing

\* Tasks do not outlive their session, unless a write or a fork raced with its end.
THEOREM TasksDieWithTheirSession == Spec => []NoOrphanTodos
<1>1. Init => TodoInv
  BY AllStoresStart, TodosStart
<1>2. TodoInv /\ [Next]_vars => TodoInv'
  BY OneStoreMoves, TodosKeep
<1>3. TodoInv => NoOrphanTodos
  BY DEF TodoInv, Undisturbed, NoOrphanTodos, Todos!NoOrphanTodos
<1> QED
  BY <1>1, <1>2, <1>3, PTL DEF Spec, vars

-----------------------------------------------------------------------------
(* Memory records                                                          *)

MemoryRows == [id : Nat, scope : Memories!Scopes, status : Memories!Statuses, gone : BOOLEAN,
               session : {a.session : a \in Agents}, root : {a.root : a \in Agents}]
Asked == Memories!Statuses \union {Memories!Unchanged}
UserOps == [pc : {"checked"}, id : Nat, by : {"user"}, owned : {Memories!Unchanged},
            scope : Memories!Scopes \union {Memories!Unchanged}, status : Asked]
AgentOps == [pc : {"owned", "checked"}, tool : {"update", "delete"}, id : Nat, by : Agents,
             owned : Memories!Scopes, scope : {Memories!Unchanged}, status : Asked]
ReadOps(who) == [pc : {"read"}, id : Nat, status : Asked, by : who,
                 owned : Memories!Scopes \union {Memories!Unchanged}, row : MemoryRows]

\* A deleted row has both of its marks, and any row what its scope needs.
Sound(row) ==
    /\ row.gone <=> row.status = "deleted"
    /\ Memories!Traced(row.scope, row)
\* An update under way is about a row, and the row it read is that row as it
\* was or as the update changes it.
About(op) ==
    /\ op.pc # "idle" => op.id \in Memories!Ids
    /\ op.pc = "checked" /\ op.scope # Memories!Unchanged => Memories!Traced(op.scope, Memories!Get(op.id))
    /\ op.pc = "read" =>
          /\ Sound(op.row) /\ op.row.id = op.id
          /\ op.row.session = Memories!Get(op.id).session /\ op.row.root = Memories!Get(op.id).root
          /\ op.status = "deleted" => op.row.gone
\* What an agent uses is of its session or workspace, whatever became of its scope.
Inside ==
    agent.pc # "idle" =>
        IF agent.owned = "session" THEN agent.by.session = Memories!Get(agent.id).session
        ELSE agent.owned = "project" /\ agent.by.root = Memories!Get(agent.id).root
\* An update that keeps the status of a removed record read it as removed.
KeepsRemoved(op) ==
    \A id \in removed \ overtaken :
        op.pc = "read" /\ op.id = id /\ op.status = Memories!Unchanged => op.row.gone

MemoryTypes ==
    /\ records \in Seq(MemoryRows)
    /\ user \in {Memories!NoOp} \union UserOps \union ReadOps({"user"})
    /\ agent \in {Memories!NoOp} \union AgentOps \union ReadOps(Agents)
\* Ids are given once.
Numbered ==
    /\ \A n \in DOMAIN records : records[n].id \in 1 .. Len(records)
    /\ \A m, n \in DOMAIN records : records[m].id = records[n].id => m = n
Marks == \A id \in removed \ overtaken : id \in Memories!Ids /\ Memories!Get(id).gone
MemoryInv ==
    /\ MemoryTypes /\ Numbered /\ Marks /\ Inside
    /\ \A n \in DOMAIN records : Sound(records[n])
    /\ About(user) /\ About(agent)
    /\ KeepsRemoved(user) /\ KeepsRemoved(agent)

\* A row is found by its id.
LEMMA GetFinds ==
    ASSUME MemoryTypes, Numbered
    PROVE  /\ \A n \in DOMAIN records : Memories!Position(records[n].id) = n
           /\ \A id \in Memories!Ids :
                /\ Memories!Position(id) \in DOMAIN records
                /\ Memories!Get(id) \in MemoryRows /\ Memories!Get(id).id = id
                /\ Memories!Get(id) = records[Memories!Position(id)]
<1>1. ASSUME NEW n \in DOMAIN records PROVE Memories!Position(records[n].id) = n
  BY <1>1 DEF Numbered, Memories!Position
<1>2. ASSUME NEW id \in Memories!Ids
      PROVE  /\ Memories!Position(id) \in DOMAIN records
             /\ Memories!Get(id) \in MemoryRows /\ Memories!Get(id).id = id
             /\ Memories!Get(id) = records[Memories!Position(id)]
  <2>1. PICK n \in DOMAIN records : records[n].id = id
    BY DEF Memories!Ids
  <2>2. Memories!Position(id) = n
    BY <1>1, <2>1
  <2>3. Memories!Get(id) = records[n]
    BY <2>2 DEF Memories!Get
  <2> QED
    BY <2>1, <2>2, <2>3 DEF MemoryTypes
<1> QED
  BY <1>1, <1>2

\* A row that is saved moves to the end; the others are as they were.
LEMMA SaveMoves ==
    ASSUME MemoryTypes, Numbered, NEW row \in MemoryRows, row.id \in Memories!Ids,
           records' = Memories!Save(row)
    PROVE  /\ records' \in Seq(MemoryRows) /\ Numbered' /\ Memories!Ids' = Memories!Ids
           /\ Memories!Get(row.id)' = row
           /\ \A id \in Memories!Ids : id # row.id => Memories!Get(id)' = Memories!Get(id)
           /\ \A n \in DOMAIN records' : records'[n] = row \/ \E m \in DOMAIN records : records'[n] = records[m]
<1> DEFINE p == Memories!Position(row.id)
           L == Len(records)
<1>1. /\ L \in Nat /\ DOMAIN records = 1 .. L /\ \A n \in 1 .. L : records[n] \in MemoryRows
      /\ \A n \in 1 .. L : records[n].id \in 1 .. L
      /\ \A m, n \in 1 .. L : records[m].id = records[n].id => m = n
  BY DEF MemoryTypes, Numbered
<1>2. p \in 1 .. L /\ records[p].id = row.id
  BY <1>1, GetFinds
<1>3. records' = [n \in 1 .. L |-> CASE n = L -> row
                                     [] n < p -> records[n]
                                     [] OTHER -> records[n + 1]]
  BY <1>1 DEF Memories!Save
<1> DEFINE Old(n) == IF n < p THEN n ELSE n + 1
<1> HIDE DEF p, L
<1>4. /\ records'[L] = row
      /\ \A n \in 1 .. L : n # L => Old(n) \in 1 .. L /\ Old(n) # p /\ records'[n] = records[Old(n)]
  <2>1. L \in 1 .. L
    BY <1>1, <1>2
  <2>2. records'[L] = CASE L = L -> row
                        [] L < p -> records[L]
                        [] OTHER -> records[L + 1]
    BY ONLY <1>3, <2>1
  <2>r. records'[L] = row
    <3>1. ~(L < p)
      BY <1>1, <1>2
    <3> QED
      BY <2>2, <3>1
  <2>3. ASSUME NEW n \in 1 .. L, n # L
        PROVE  Old(n) \in 1 .. L /\ Old(n) # p /\ records'[n] = records[Old(n)]
    <3>1. CASE n < p
      BY <1>1, <1>2, <1>3, <2>3, <3>1
    <3>2. CASE ~(n < p)
      BY <1>1, <1>2, <1>3, <2>3, <3>2
    <3> QED
      BY <3>1, <3>2
  <2> QED
    BY <2>r, <2>3
<1>5. records' \in [1 .. L -> MemoryRows]
  <2>1. ASSUME NEW n \in 1 .. L PROVE records'[n] \in MemoryRows
    BY <1>1, <1>4
  <2> QED
    BY <1>3, <2>1
<1>6. records' \in Seq(MemoryRows) /\ Len(records') = L /\ DOMAIN records' = 1 .. L
  BY <1>1, <1>5
<1>7. \A m, n \in 1 .. L : m # L /\ n # L /\ Old(m) = Old(n) => m = n
  BY <1>1, <1>2
<1>8. Numbered'
  <2>1. ASSUME NEW n \in 1 .. L PROVE records'[n].id \in 1 .. L
    BY <1>1, <1>2, <1>4
  <2>2. ASSUME NEW m \in 1 .. L, NEW n \in 1 .. L, records'[m].id = records'[n].id PROVE m = n
    <3>1. CASE m # L /\ n # L
      BY <1>1, <1>4, <1>7, <2>2, <3>1
    <3>2. CASE m = L /\ n # L
      BY <1>1, <1>2, <1>4, <2>2, <3>2
    <3>3. CASE m # L /\ n = L
      BY <1>1, <1>2, <1>4, <2>2, <3>3
    <3> QED
      BY <3>1, <3>2, <3>3
  <2> QED
    BY <1>6, <2>1, <2>2 DEF Numbered
<1> HIDE DEF Old
<1>9. \A q \in 1 .. L : q # p => \E n \in 1 .. L : n # L /\ records'[n] = records[q]
  <2> SUFFICES ASSUME NEW q \in 1 .. L, q # p
               PROVE  \E n \in 1 .. L : n # L /\ records'[n] = records[q]
    OBVIOUS
  <2>1. CASE q < p
    <3>1. q \in 1 .. L /\ q # L /\ Old(q) = q
      BY <1>1, <1>2, <2>1 DEF Old
    <3> QED
      BY <1>4, <3>1
  <2>2. CASE ~(q < p)
    <3>1. q - 1 \in 1 .. L /\ q - 1 # L /\ Old(q - 1) = q
      BY <1>1, <1>2, <2>2 DEF Old
    <3> QED
      BY <1>4, <3>1
  <2> QED
    BY <2>1, <2>2
<1>10. L \in 1 .. L
  BY <1>1, <1>2
<1>11. Memories!Ids' = Memories!Ids
  <2>1. ASSUME NEW i \in Memories!Ids PROVE i \in Memories!Ids'
    <3>1. PICK q \in 1 .. L : records[q].id = i
      BY <1>1 DEF Memories!Ids
    <3>2. CASE q = p
      BY <1>2, <1>4, <1>6, <1>10, <3>1, <3>2 DEF Memories!Ids
    <3>3. CASE q # p
      BY <1>6, <1>9, <3>1, <3>3 DEF Memories!Ids
    <3> QED
      BY <3>2, <3>3
  <2>2. ASSUME NEW i \in Memories!Ids' PROVE i \in Memories!Ids
    <3>1. PICK n \in 1 .. L : records'[n].id = i
      BY <1>6 DEF Memories!Ids
    <3> QED
      BY <1>1, <1>4, <3>1 DEF Memories!Ids
  <2> QED
    BY <2>1, <2>2
<1>12. ASSUME NEW n \in 1 .. L, NEW i, records'[n].id = i PROVE Memories!Get(i)' = records'[n]
  <2>1. \A m \in DOMAIN records' : records'[m].id = i => m = n
    BY <1>6, <1>8, <1>12 DEF Numbered
  <2>2. Memories!Position(i)' = n
    BY <1>6, <1>12, <2>1 DEF Memories!Position
  <2> QED
    BY <2>2 DEF Memories!Get
<1>13. Memories!Get(row.id)' = row
  <2>1. records'[L].id = row.id
    BY <1>4
  <2> QED
    BY <1>4, <1>10, <1>12, <2>1
<1>14. ASSUME NEW i \in Memories!Ids, i # row.id PROVE Memories!Get(i)' = Memories!Get(i)
  <2>1. PICK q \in 1 .. L : records[q].id = i
    BY <1>1 DEF Memories!Ids
  <2>2. Memories!Get(i) = records[q]
    BY <1>1, <2>1, GetFinds DEF Memories!Get
  <2>3. PICK n \in 1 .. L : records'[n] = records[q]
    BY <1>2, <1>9, <1>14, <2>1
  <2> QED
    BY <1>12, <2>1, <2>2, <2>3
<1>15. \A n \in DOMAIN records' : records'[n] = row \/ \E m \in DOMAIN records : records'[n] = records[m]
  BY <1>1, <1>4, <1>6
<1> QED
  BY <1>6, <1>8, <1>11, <1>13, <1>14, <1>15

\* What a step may do to the rows that others are about.
RowsStay ==
    /\ Memories!Ids \subseteq Memories!Ids'
    /\ \A id \in Memories!Ids : /\ Memories!Get(id)'.session = Memories!Get(id).session
                                /\ Memories!Get(id)'.root = Memories!Get(id).root

\* An update that does not move is still about its row.
LEMMA OpsStay ==
    ASSUME MemoryInv, RowsStay
    PROVE  /\ user' = user => About(user)'
           /\ agent' = agent => About(agent)' /\ Inside'
<1>1. About(user) /\ About(agent) /\ Inside
  BY DEF MemoryInv
<1>2. ASSUME user' = user PROVE About(user)'
  BY <1>1, <1>2 DEF About, RowsStay, Sound, Memories!Traced
<1>3. ASSUME agent' = agent PROVE About(agent)' /\ Inside'
  <2>1. About(agent)'
    BY <1>1, <1>3 DEF About, RowsStay, Sound, Memories!Traced
  <2>2. Inside'
    BY <1>1, <1>3 DEF About, RowsStay, Inside
  <2> QED
    BY <2>1, <2>2
<1> QED
  BY <1>2, <1>3

\* A new record.
LEMMA CreateDoes ==
    ASSUME MemoryInv, NEW scope \in Memories!Scopes, NEW status \in NewStatuses, NEW a \in Agents,
           Memories!Create(Memories!Row(scope, status, a))
    PROVE  /\ records' \in Seq(MemoryRows) /\ Numbered' /\ Marks' /\ RowsStay
           /\ \A n \in DOMAIN records' : Sound(records'[n])
           /\ \A op : KeepsRemoved(op) /\ (op.pc = "read" => op.id \in Memories!Ids) =>
                \A id \in removed' \ overtaken' :
                    op.pc = "read" /\ op.id = id /\ op.status = Memories!Unchanged => op.row.gone
<1> DEFINE row == Memories!Row(scope, status, a)
           L == Len(records)
<1>t. MemoryTypes /\ Numbered /\ Marks /\ \A n \in DOMAIN records : Sound(records[n])
  BY DEF MemoryInv
<1>1. /\ L \in Nat /\ DOMAIN records = 1 .. L /\ \A n \in 1 .. L : records[n] \in MemoryRows
      /\ \A n \in 1 .. L : records[n].id \in 1 .. L
      /\ \A m, n \in 1 .. L : records[m].id = records[n].id => m = n
  BY <1>t DEF MemoryTypes, Numbered
<1>2. row \in MemoryRows /\ row.id = L + 1 /\ Sound(row)
  <2>1. status \in Memories!Statuses
    BY MemoryAssumption DEF Memories!MemoryAssumption, Memories!Statuses
  <2>2. Memories!Traced(row.scope, row)
    BY DEF Memories!Create
  <2> HIDE DEF L
  <2>3. row = [id |-> L + 1, scope |-> scope, status |-> status, gone |-> status = "deleted",
               session |-> a.session, root |-> a.root]
    BY DEF Memories!Row, L
  <2> HIDE DEF row
  <2>4. row \in MemoryRows
    BY <1>1, <2>1, <2>3 DEF MemoryRows
  <2> QED
    BY <2>2, <2>3, <2>4 DEF Sound
<1>3. records' = Append(records, row)
  BY DEF Memories!Create
<1>4. removed' \subseteq removed \union (IF row.gone THEN {row.id} ELSE {}) /\ overtaken' = overtaken
  BY DEF Memories!Create
<1> HIDE DEF row
<1>5. /\ records' \in Seq(MemoryRows) /\ Len(records') = L + 1 /\ DOMAIN records' = 1 .. (L + 1)
      /\ records'[L + 1] = row /\ \A n \in 1 .. L : records'[n] = records[n]
  BY <1>t, <1>2, <1>3 DEF MemoryTypes
<1> HIDE DEF L
<1>6. Numbered'
  BY <1>1, <1>2, <1>5 DEF Numbered
<1>7. Memories!Ids' = Memories!Ids \union {L + 1} /\ L + 1 \notin Memories!Ids
  BY <1>1, <1>2, <1>5 DEF Memories!Ids
<1>8. ASSUME NEW n \in 1 .. L + 1, NEW i, records'[n].id = i PROVE Memories!Get(i)' = records'[n]
  <2>1. \A m \in DOMAIN records' : records'[m].id = i => m = n
    BY <1>5, <1>6, <1>8 DEF Numbered
  <2>2. Memories!Position(i)' = n
    BY <1>5, <1>8, <2>1 DEF Memories!Position
  <2> QED
    BY <2>2 DEF Memories!Get
<1>9. ASSUME NEW i \in Memories!Ids PROVE Memories!Get(i)' = Memories!Get(i)
  <2>1. PICK n \in 1 .. L : records[n].id = i
    BY <1>1 DEF Memories!Ids
  <2>2. Memories!Get(i) = records[n]
    BY <1>1, <1>t, <2>1, GetFinds DEF Memories!Get
  <2>3. n \in 1 .. L + 1 /\ records'[n] = records[n]
    BY <1>1, <1>5
  <2> QED
    BY <1>8, <2>1, <2>2, <2>3
<1>10. ASSUME NEW i, i = L + 1 PROVE Memories!Get(i)' = row
  BY <1>1, <1>2, <1>5, <1>8, <1>10
<1>11. RowsStay
  BY <1>7, <1>9 DEF RowsStay
<1>12. Marks'
  <2>1. ASSUME NEW i \in removed' \ overtaken' PROVE i \in Memories!Ids' /\ Memories!Get(i)'.gone
    <3>1. CASE i \in removed
      <4>1. i \in Memories!Ids /\ Memories!Get(i).gone
        BY <1>t, <1>4, <2>1, <3>1 DEF Marks
      <4> QED
        BY <1>7, <1>9, <4>1
    <3>2. CASE i \notin removed
      <4>1. i = L + 1 /\ row.gone
        BY <1>2, <1>4, <2>1, <3>2
      <4> QED
        BY <1>7, <1>10, <4>1
    <3> QED
      BY <3>1, <3>2
  <2> QED
    BY <2>1 DEF Marks
<1>13. \A n \in DOMAIN records' : Sound(records'[n])
  BY <1>t, <1>1, <1>2, <1>5
<1>14. \A op : KeepsRemoved(op) /\ (op.pc = "read" => op.id \in Memories!Ids) =>
          \A id \in removed' \ overtaken' :
              op.pc = "read" /\ op.id = id /\ op.status = Memories!Unchanged => op.row.gone
  BY <1>2, <1>4, <1>7 DEF KeepsRemoved
<1> QED
  BY <1>5, <1>6, <1>11, <1>12, <1>13, <1>14

\* What every step that saves a row does.
LEMMA SavedDoes ==
    ASSUME MemoryInv, NEW row \in MemoryRows, row.id \in Memories!Ids, Sound(row),
           row.session = Memories!Get(row.id).session, row.root = Memories!Get(row.id).root,
           records' = Memories!Save(row)
    PROVE  /\ records' \in Seq(MemoryRows) /\ Numbered' /\ RowsStay
           /\ \A n \in DOMAIN records' : Sound(records'[n])
           /\ Memories!Ids' = Memories!Ids /\ Memories!Get(row.id)' = row
           /\ \A id \in Memories!Ids : id # row.id => Memories!Get(id)' = Memories!Get(id)
<1>1. MemoryTypes /\ Numbered /\ \A n \in DOMAIN records : Sound(records[n])
  BY DEF MemoryInv
<1>2. /\ records' \in Seq(MemoryRows) /\ Numbered' /\ Memories!Ids' = Memories!Ids
      /\ Memories!Get(row.id)' = row
      /\ \A id \in Memories!Ids : id # row.id => Memories!Get(id)' = Memories!Get(id)
      /\ \A n \in DOMAIN records' : records'[n] = row \/ \E m \in DOMAIN records : records'[n] = records[m]
  BY <1>1, SaveMoves
<1>3. ASSUME NEW id \in Memories!Ids
      PROVE  /\ Memories!Get(id)'.session = Memories!Get(id).session
             /\ Memories!Get(id)'.root = Memories!Get(id).root
  <2>1. CASE id = row.id
    <3>1. Memories!Get(id)' = row /\ Memories!Get(id) = Memories!Get(row.id)
      BY <1>2, <2>1
    <3> QED
      BY <3>1
  <2>2. CASE id # row.id
    BY <1>2, <2>2
  <2> QED
    BY <2>1, <2>2
<1>4. RowsStay
  BY <1>2, <1>3 DEF RowsStay
<1>5. \A n \in DOMAIN records' : Sound(records'[n])
  BY <1>1, <1>2
<1> QED
  BY <1>2, <1>4, <1>5

\* The last read of an update is written.
LEMMA WriteDoes ==
    ASSUME MemoryInv, NEW op, NEW other, op.pc = "read", op.row \in MemoryRows, op.status \in Asked,
           About(op), KeepsRemoved(op), KeepsRemoved(other), Memories!Write(op, other)
    PROVE  /\ records' \in Seq(MemoryRows) /\ Numbered' /\ Marks' /\ RowsStay
           /\ \A n \in DOMAIN records' : Sound(records'[n])
           /\ \A id \in removed' \ overtaken' :
                other.pc = "read" /\ other.id = id /\ other.status = Memories!Unchanged => other.row.gone
<1>1. /\ Sound(op.row) /\ op.row.id = op.id /\ op.id \in Memories!Ids
      /\ op.row.session = Memories!Get(op.id).session /\ op.row.root = Memories!Get(op.id).root
      /\ op.status = "deleted" => op.row.gone
  BY DEF About
<1>2. records' = Memories!Save(op.row)
  BY DEF Memories!Write
<1>3. /\ records' \in Seq(MemoryRows) /\ Numbered' /\ RowsStay
      /\ \A n \in DOMAIN records' : Sound(records'[n])
      /\ Memories!Ids' = Memories!Ids /\ Memories!Get(op.row.id)' = op.row
      /\ \A id \in Memories!Ids : id # op.row.id => Memories!Get(id)' = Memories!Get(id)
  BY <1>1, <1>2, SavedDoes
<1>4. overtaken \subseteq overtaken'
  BY DEF Memories!Write
<1>5. /\ op.status = "deleted" =>
            /\ removed' = removed \union {op.id}
            /\ other.pc = "read" /\ other.id = op.id => op.id \in overtaken'
      /\ op.status = Memories!Unchanged => removed' = removed
      /\ op.status \notin {"deleted", Memories!Unchanged} => removed' = removed \ {op.id}
  BY DEF Memories!Write, Memories!Overtaken, Memories!Unchanged
<1>6. ASSUME NEW id \in removed' \ overtaken' PROVE id \in Memories!Ids' /\ Memories!Get(id)'.gone
  <2>1. CASE id = op.id
    <3>1. op.row.gone
      BY <1>1, <1>4, <1>5, <1>6, <2>1 DEF KeepsRemoved
    <3>2. Memories!Get(id)' = op.row
      BY <1>1, <1>3, <2>1
    <3> QED
      BY <1>1, <1>3, <2>1, <3>1, <3>2
  <2>2. CASE id # op.id
    <3>1. id \in removed \ overtaken
      BY <1>4, <1>5, <1>6, <2>2
    <3>2. id \in Memories!Ids /\ Memories!Get(id).gone
      BY <3>1 DEF MemoryInv, Marks
    <3> QED
      BY <1>1, <1>3, <2>2, <3>2
  <2> QED
    BY <2>1, <2>2
<1>7. Marks'
  BY <1>6 DEF Marks
<1>8. ASSUME NEW id \in removed' \ overtaken', other.pc = "read", other.id = id,
             other.status = Memories!Unchanged
      PROVE  other.row.gone
  <2>1. id \in removed \ overtaken
    BY <1>4, <1>5, <1>8
  <2> QED
    BY <1>8, <2>1 DEF KeepsRemoved
<1> QED
  BY <1>3, <1>7, <1>8

\* A delete.
LEMMA DeleteDoes ==
    ASSUME MemoryInv, NEW d \in Memories!Ids, Memories!Delete(d)
    PROVE  /\ records' \in Seq(MemoryRows) /\ Numbered' /\ Marks' /\ RowsStay
           /\ \A n \in DOMAIN records' : Sound(records'[n])
           /\ \A op \in {user, agent} : \A id \in removed' \ overtaken' :
                op.pc = "read" /\ op.id = id /\ op.status = Memories!Unchanged => op.row.gone
<1>t. MemoryTypes /\ Numbered /\ Marks /\ \A n \in DOMAIN records : Sound(records[n])
  BY DEF MemoryInv
<1>1. /\ removed' = removed \union {d} /\ overtaken \subseteq overtaken'
      /\ \A op \in {user, agent} : op.pc = "read" /\ op.id = d => d \in overtaken'
  BY DEF Memories!Delete, Memories!Overtaken
<1>2. Memories!Get(d) \in MemoryRows /\ Memories!Get(d).id = d /\ Sound(Memories!Get(d))
  BY <1>t, GetFinds
<1> DEFINE row == [[Memories!Get(d) EXCEPT !.status = "deleted"] EXCEPT !.gone = TRUE]
<1>3. /\ row \in MemoryRows /\ row.id = d /\ row.gone /\ row.status = "deleted"
      /\ row.session = Memories!Get(d).session /\ row.root = Memories!Get(d).root
      /\ row.scope = Memories!Get(d).scope
  BY <1>2 DEF MemoryRows, Memories!Statuses
<1>4. records' = IF Memories!Get(d).gone THEN records ELSE Memories!Save(row)
  BY DEF Memories!Delete
<1> HIDE DEF row
<1>5. Sound(row)
  BY <1>2, <1>3 DEF Sound, Memories!Traced
<1>6. /\ records' \in Seq(MemoryRows) /\ Numbered' /\ RowsStay
      /\ \A n \in DOMAIN records' : Sound(records'[n])
      /\ Memories!Ids' = Memories!Ids /\ Memories!Get(d)'.gone
      /\ \A id \in Memories!Ids : id # d => Memories!Get(id)' = Memories!Get(id)
  <2>1. CASE Memories!Get(d).gone
    <3>1. records' = records
      BY <1>4, <2>1
    <3>2. Memories!Ids' = Memories!Ids /\ \A id : Memories!Get(id)' = Memories!Get(id)
      BY <3>1 DEF Memories!Ids, Memories!Get, Memories!Position
    <3>3. records' \in Seq(MemoryRows) /\ Numbered'
      BY <1>t, <3>1 DEF MemoryTypes, Numbered
    <3>4. \A n \in DOMAIN records' : Sound(records'[n])
      BY <1>t, <3>1
    <3>5. RowsStay
      BY <3>2 DEF RowsStay
    <3> QED
      BY <2>1, <3>2, <3>3, <3>4, <3>5
  <2>2. CASE ~Memories!Get(d).gone
    <3>1. records' = Memories!Save(row)
      BY <1>4, <2>2
    <3>2. PICK r : r = row
      OBVIOUS
    <3>3. /\ r \in MemoryRows /\ r.id = d /\ r.gone /\ Sound(r) /\ r.id \in Memories!Ids
          /\ r.session = Memories!Get(r.id).session /\ r.root = Memories!Get(r.id).root
          /\ records' = Memories!Save(r)
      BY <1>3, <1>5, <3>1, <3>2
    <3>4. /\ records' \in Seq(MemoryRows) /\ Numbered' /\ RowsStay
          /\ \A n \in DOMAIN records' : Sound(records'[n])
          /\ Memories!Ids' = Memories!Ids /\ Memories!Get(r.id)' = r
          /\ \A id \in Memories!Ids : id # r.id => Memories!Get(id)' = Memories!Get(id)
      BY <3>3, SavedDoes
    <3>5. Memories!Get(d)' = r
      BY <3>3, <3>4
    <3> QED
      BY <3>3, <3>4, <3>5
  <2> QED
    BY <2>1, <2>2
<1>7. Marks'
  BY <1>t, <1>1, <1>6 DEF Marks
<1>8. ASSUME NEW op \in {user, agent}, NEW id \in removed' \ overtaken', op.pc = "read", op.id = id,
             op.status = Memories!Unchanged
      PROVE  op.row.gone
  <2>1. id \in removed \ overtaken
    BY <1>1, <1>8
  <2> QED
    BY <1>8, <2>1 DEF MemoryInv, KeepsRemoved
<1> QED
  BY <1>6, <1>7, <1>8

\* The row an update will write.
LEMMA UpdatedDoes ==
    ASSUME NEW row \in MemoryRows, Sound(row), NEW scope \in Memories!Scopes \union {Memories!Unchanged},
           NEW status \in Asked, scope # Memories!Unchanged => Memories!Traced(scope, row)
    PROVE  LET new == Memories!Updated(row, scope, status)
           IN  /\ new \in MemoryRows /\ Sound(new) /\ new.id = row.id
               /\ new.session = row.session /\ new.root = row.root
               /\ status = "deleted" => new.gone
               /\ status = Memories!Unchanged => new.gone = row.gone
<1> DEFINE new == Memories!Updated(row, scope, status)
<1>1. new = [row EXCEPT !.scope = IF scope = Memories!Unchanged THEN row.scope ELSE scope,
                        !.status = IF status = Memories!Unchanged THEN row.status ELSE status,
                        !.gone = IF status = Memories!Unchanged THEN row.gone ELSE status = "deleted"]
  BY DEF Memories!Updated
<1>2. /\ row.scope \in Memories!Scopes /\ row.status \in Memories!Statuses /\ row.gone \in BOOLEAN
      /\ status # Memories!Unchanged => status \in Memories!Statuses
      /\ scope # Memories!Unchanged => scope \in Memories!Scopes
  BY DEF MemoryRows, Asked
<1> HIDE DEF new
<1>3. /\ new \in MemoryRows
      /\ new.scope = IF scope = Memories!Unchanged THEN row.scope ELSE scope
      /\ new.status = IF status = Memories!Unchanged THEN row.status ELSE status
      /\ new.gone = IF status = Memories!Unchanged THEN row.gone ELSE status = "deleted"
      /\ new.id = row.id /\ new.session = row.session /\ new.root = row.root
  BY <1>1, <1>2 DEF MemoryRows
<1>4. new.gone <=> new.status = "deleted"
  BY <1>3 DEF Sound
<1>5. Memories!Traced(new.scope, new)
  BY <1>3 DEF Sound, Memories!Traced
<1>6. Sound(new)
  BY <1>4, <1>5 DEF Sound
<1> QED
  BY <1>3, <1>6 DEF new, Memories!Unchanged

\* A step that writes nothing.
LEMMA QuietStep ==
    ASSUME MemoryInv, UNCHANGED <<records, removed, overtaken>>
    PROVE  /\ records' \in Seq(MemoryRows) /\ Numbered' /\ Marks' /\ RowsStay
           /\ \A n \in DOMAIN records' : Sound(records'[n])
           /\ user' = user => KeepsRemoved(user)'
           /\ agent' = agent => KeepsRemoved(agent)'
<1>1. MemoryTypes /\ Numbered /\ Marks /\ \A n \in DOMAIN records : Sound(records[n])
  BY DEF MemoryInv
<1>2. Memories!Ids' = Memories!Ids /\ \A id : Memories!Get(id)' = Memories!Get(id)
  BY DEF Memories!Ids, Memories!Get, Memories!Position
<1>3. Numbered' /\ records' \in Seq(MemoryRows)
  BY <1>1 DEF Numbered, MemoryTypes
<1>4. Marks'
  BY <1>1, <1>2 DEF Marks
<1>5. RowsStay
  BY <1>2 DEF RowsStay
<1>6. /\ user' = user => KeepsRemoved(user)'
      /\ agent' = agent => KeepsRemoved(agent)'
  BY DEF MemoryInv, KeepsRemoved
<1> QED
  BY <1>1, <1>3, <1>4, <1>5, <1>6

\* The last read of an update.
LEMMA ReadDoes ==
    ASSUME MemoryInv, NEW op, NEW who, About(op), op.pc = "checked", op.by \in who, op.id \in Nat,
           op.status \in Asked, op.scope \in Memories!Scopes \union {Memories!Unchanged},
           op.owned \in Memories!Scopes \union {Memories!Unchanged}
    PROVE  LET new == Memories!Reading(op)
           IN  /\ new \in ReadOps(who) /\ About(new) /\ KeepsRemoved(new)
               /\ new.id = op.id /\ new.by = op.by /\ new.owned = op.owned
<1> DEFINE row == Memories!Updated(Memories!Get(op.id), op.scope, op.status)
           new == Memories!Reading(op)
<1>1. op.id \in Memories!Ids /\ (op.scope # Memories!Unchanged => Memories!Traced(op.scope, Memories!Get(op.id)))
  BY DEF About
<1>2. /\ Memories!Get(op.id) \in MemoryRows /\ Memories!Get(op.id).id = op.id
      /\ Sound(Memories!Get(op.id))
  BY <1>1, GetFinds DEF MemoryInv
<1>3. /\ row \in MemoryRows /\ Sound(row) /\ row.id = op.id
      /\ row.session = Memories!Get(op.id).session /\ row.root = Memories!Get(op.id).root
      /\ op.status = "deleted" => row.gone
      /\ op.status = Memories!Unchanged => row.gone = Memories!Get(op.id).gone
  BY <1>1, <1>2, UpdatedDoes
<1>4. new = [pc |-> "read", id |-> op.id, status |-> op.status, by |-> op.by, owned |-> op.owned,
             row |-> row]
  BY DEF Memories!Reading
<1> HIDE DEF new, row
<1>5. /\ new \in ReadOps(who) /\ new.pc = "read" /\ new.id = op.id /\ new.by = op.by
      /\ new.owned = op.owned /\ new.row = row /\ new.status = op.status
  BY <1>3, <1>4 DEF ReadOps
<1>6. About(new)
  BY <1>1, <1>3, <1>5 DEF About
<1>7. KeepsRemoved(new)
  BY <1>3, <1>5 DEF KeepsRemoved, MemoryInv, Marks
<1> QED
  BY <1>5, <1>6, <1>7 DEF new

\* The records and the updates under way keep their invariant.
LEMMA MemoriesKeep ==
    ASSUME MemoryInv, Memories!Next \/ UNCHANGED m_vars
    PROVE  MemoryInv'
<1>t. MemoryTypes /\ Inside /\ About(user) /\ About(agent) /\ KeepsRemoved(user) /\ KeepsRemoved(agent)
  BY DEF MemoryInv
<1> DEFINE Stored == /\ records' \in Seq(MemoryRows) /\ Numbered' /\ Marks'
                     /\ \A n \in DOMAIN records' : Sound(records'[n])
           UserFine == user' \in {Memories!NoOp} \union UserOps \union ReadOps({"user"})
                       /\ About(user)' /\ KeepsRemoved(user)'
           AgentFine == agent' \in {Memories!NoOp} \union AgentOps \union ReadOps(Agents)
                        /\ About(agent)' /\ KeepsRemoved(agent)' /\ Inside'
<1>c. Stored /\ UserFine /\ AgentFine => MemoryInv'
  BY DEF MemoryInv, MemoryTypes
<1>u. user' = Memories!NoOp => UserFine
  BY DEF About, KeepsRemoved, Memories!NoOp
<1>a. agent' = Memories!NoOp => AgentFine
  BY DEF About, KeepsRemoved, Memories!NoOp, Inside
<1>v. user' = user /\ RowsStay /\ KeepsRemoved(user)' => UserFine
  BY <1>t, OpsStay DEF MemoryTypes
<1>b. agent' = agent /\ RowsStay /\ KeepsRemoved(agent)' => AgentFine
  BY <1>t, OpsStay DEF MemoryTypes
<1>q. UNCHANGED <<records, removed, overtaken>> =>
        /\ Stored /\ RowsStay
        /\ user' = user => UserFine
        /\ agent' = agent => AgentFine
  BY <1>v, <1>b, QuietStep
<1> HIDE DEF Stored
<1>1. ASSUME NEW a \in Agents, NEW scope \in Memories!Scopes, NEW status \in NewStatuses,
             Memories!UserCreate(scope, status, a) \/ Memories!AgentCreate(scope, status, a)
      PROVE  MemoryInv'
  <2>1. user' = user /\ agent' = agent /\ Memories!Create(Memories!Row(scope, status, a))
    BY <1>1 DEF Memories!UserCreate, Memories!AgentCreate
  <2>2. /\ Stored /\ RowsStay
        /\ \A op : KeepsRemoved(op) /\ (op.pc = "read" => op.id \in Memories!Ids) =>
             \A id \in removed' \ overtaken' :
                 op.pc = "read" /\ op.id = id /\ op.status = Memories!Unchanged => op.row.gone
    BY <2>1, CreateDoes DEF Stored
  <2>3. /\ user.pc = "read" => user.id \in Memories!Ids
        /\ agent.pc = "read" => agent.id \in Memories!Ids
    BY <1>t DEF About
  <2>4. KeepsRemoved(user)' /\ KeepsRemoved(agent)'
    BY <1>t, <2>1, <2>2, <2>3 DEF KeepsRemoved
  <2> QED
    BY <1>c, <1>v, <1>b, <2>1, <2>2, <2>4
<1>2. ASSUME NEW id \in Memories!Ids, NEW scope \in Memories!Scopes \cup {Memories!Unchanged},
             NEW status \in Memories!Statuses \cup {Memories!Unchanged},
             Memories!UserUpdate(id, scope, status)
      PROVE  MemoryInv'
  <2>1. /\ UNCHANGED <<records, removed, overtaken>> /\ agent' = agent
        /\ user' = [pc |-> "checked", id |-> id, by |-> "user", owned |-> Memories!Unchanged,
                    scope |-> scope, status |-> status]
        /\ scope # Memories!Unchanged => Memories!Traced(scope, Memories!Get(id))
    BY <1>2 DEF Memories!UserUpdate
  <2>2. id \in Nat
    BY GetFinds DEF MemoryInv, MemoryRows
  <2>3. user' \in UserOps /\ user'.pc = "checked" /\ user'.id = id /\ user'.scope = scope
    BY <2>1, <2>2 DEF UserOps, Asked
  <2>4. Memories!Ids' = Memories!Ids /\ Memories!Get(id)' = Memories!Get(id)
    BY <2>1 DEF Memories!Ids, Memories!Get, Memories!Position
  <2>5. About(user)' /\ KeepsRemoved(user)'
    BY <2>1, <2>3, <2>4 DEF About, KeepsRemoved, Memories!Traced
  <2> QED
    BY <1>c, <1>q, <2>1, <2>3, <2>5
<1>3. ASSUME NEW id \in Memories!Ids, NEW a \in Agents, NEW tool \in {"delete", "update"},
             NEW status \in Asked, Memories!AgentUse(a, id, tool, status)
      PROVE  MemoryInv'
  <2>1. /\ UNCHANGED <<records, removed, overtaken>> /\ user' = user
        /\ agent' = [pc |-> "owned", tool |-> tool, id |-> id, by |-> a,
                     owned |-> Memories!Get(id).scope, scope |-> Memories!Unchanged,
                     status |-> status]
        /\ Memories!Owns(a, Memories!Get(id))
    BY <1>3 DEF Memories!AgentUse
  <2>2. id \in Nat /\ Memories!Get(id).scope \in Memories!Scopes
    BY GetFinds DEF MemoryInv, MemoryRows
  <2>3. /\ agent' \in AgentOps /\ agent'.pc = "owned" /\ agent'.id = id /\ agent'.by = a
        /\ agent'.owned = Memories!Get(id).scope
    BY <2>1, <2>2 DEF AgentOps
  <2>4. Memories!Ids' = Memories!Ids /\ Memories!Get(id)' = Memories!Get(id)
    BY <2>1 DEF Memories!Ids, Memories!Get, Memories!Position
  <2>5. About(agent)' /\ KeepsRemoved(agent)'
    BY <2>3, <2>4 DEF About, KeepsRemoved
  <2>6. Inside'
    BY <2>1, <2>3, <2>4 DEF Inside, Memories!Owns
  <2> QED
    BY <1>c, <1>q, <2>1, <2>3, <2>5, <2>6
<1>4. CASE Memories!AgentCheck
  <2>1. /\ UNCHANGED <<records, removed, overtaken>> /\ user' = user /\ agent.pc = "owned"
        /\ agent' = [agent EXCEPT !.pc = "checked"] \/ agent' = Memories!NoOp
    BY <1>4 DEF Memories!AgentCheck
  <2>2. agent \in AgentOps
    BY <1>t, <2>1 DEF MemoryTypes, Memories!NoOp, ReadOps
  <2>3. CASE agent' = [agent EXCEPT !.pc = "checked"]
    <3>1. /\ agent' \in AgentOps /\ agent'.pc = "checked" /\ agent'.id = agent.id
          /\ agent'.by = agent.by /\ agent'.owned = agent.owned
          /\ agent'.scope = Memories!Unchanged
      BY <2>2, <2>3 DEF AgentOps
    <3>2. Memories!Ids' = Memories!Ids /\ \A id : Memories!Get(id)' = Memories!Get(id)
      BY <2>1 DEF Memories!Ids, Memories!Get, Memories!Position
    <3>3. About(agent)' /\ KeepsRemoved(agent)'
      BY <1>t, <2>1, <3>1, <3>2 DEF About, KeepsRemoved
    <3>4. Inside'
      BY <1>t, <2>1, <3>1, <3>2 DEF Inside
    <3> QED
      BY <1>c, <1>q, <2>1, <3>1, <3>3, <3>4
  <2>4. CASE agent' = Memories!NoOp
    BY <1>c, <1>q, <1>a, <2>1, <2>4
  <2> QED
    BY <2>1, <2>3, <2>4
<1>5. CASE Memories!UserRead
  <2>1. /\ UNCHANGED <<records, removed, overtaken>> /\ agent' = agent /\ user.pc = "checked"
        /\ user' = Memories!Reading(user)
    BY <1>5 DEF Memories!UserRead
  <2>2. user \in UserOps
    BY <1>t, <2>1 DEF MemoryTypes, Memories!NoOp, ReadOps
  <2>3. user' \in ReadOps({"user"}) /\ About(user') /\ KeepsRemoved(user')
    BY <1>t, <2>1, <2>2, ReadDoes DEF UserOps
  <2>4. Memories!Ids' = Memories!Ids /\ \A id : Memories!Get(id)' = Memories!Get(id)
    BY <2>1 DEF Memories!Ids, Memories!Get, Memories!Position
  <2>5. About(user)' /\ KeepsRemoved(user)'
    BY <2>1, <2>3, <2>4 DEF About, KeepsRemoved
  <2> QED
    BY <1>c, <1>q, <2>1, <2>3, <2>5
<1>6. CASE Memories!AgentRead
  <2>1. /\ UNCHANGED <<records, removed, overtaken>> /\ user' = user /\ agent.pc = "checked"
        /\ agent' = Memories!Reading(agent)
    BY <1>6 DEF Memories!AgentRead
  <2>2. agent \in AgentOps
    BY <1>t, <2>1 DEF MemoryTypes, Memories!NoOp, ReadOps
  <2>3. /\ agent' \in ReadOps(Agents) /\ About(agent') /\ KeepsRemoved(agent')
        /\ agent'.id = agent.id /\ agent'.by = agent.by /\ agent'.owned = agent.owned
    BY <1>t, <2>1, <2>2, ReadDoes DEF AgentOps
  <2>4. Memories!Ids' = Memories!Ids /\ \A id : Memories!Get(id)' = Memories!Get(id)
    BY <2>1 DEF Memories!Ids, Memories!Get, Memories!Position
  <2>5. About(agent)' /\ KeepsRemoved(agent)'
    BY <2>1, <2>3, <2>4 DEF About, KeepsRemoved
  <2>6. Inside'
    BY <1>t, <2>1, <2>3, <2>4 DEF Inside
  <2> QED
    BY <1>c, <1>q, <2>1, <2>3, <2>5, <2>6
<1>7. CASE Memories!UserSave
  <2>1. Memories!Write(user, agent) /\ user' = Memories!NoOp /\ agent' = agent /\ user.pc = "read"
    BY <1>7 DEF Memories!UserSave, Memories!Write
  <2>2. user \in ReadOps({"user"})
    BY <1>t, <2>1 DEF MemoryTypes, Memories!NoOp, UserOps
  <2>3. /\ Stored /\ RowsStay
        /\ \A id \in removed' \ overtaken' :
             agent.pc = "read" /\ agent.id = id /\ agent.status = Memories!Unchanged => agent.row.gone
    BY <1>t, <2>1, <2>2, WriteDoes DEF Stored, ReadOps
  <2>4. KeepsRemoved(agent)'
    BY <2>1, <2>3 DEF KeepsRemoved
  <2> QED
    BY <1>c, <1>u, <1>b, <2>1, <2>3, <2>4
<1>8. CASE Memories!AgentSave
  <2>1. Memories!Write(agent, user) /\ agent' = Memories!NoOp /\ user' = user /\ agent.pc = "read"
    BY <1>8 DEF Memories!AgentSave, Memories!Write
  <2>2. agent \in ReadOps(Agents)
    BY <1>t, <2>1 DEF MemoryTypes, Memories!NoOp, AgentOps
  <2>3. /\ Stored /\ RowsStay
        /\ \A id \in removed' \ overtaken' :
             user.pc = "read" /\ user.id = id /\ user.status = Memories!Unchanged => user.row.gone
    BY <1>t, <2>1, <2>2, WriteDoes DEF Stored, ReadOps
  <2>4. KeepsRemoved(user)'
    BY <2>1, <2>3 DEF KeepsRemoved
  <2> QED
    BY <1>c, <1>a, <1>v, <2>1, <2>3, <2>4
<1>9. ASSUME NEW id \in Memories!Ids, Memories!Delete(id), user' = user,
             agent' = agent \/ agent' = Memories!NoOp
      PROVE  MemoryInv'
  <2>1. /\ Stored /\ RowsStay
        /\ \A op \in {user, agent} : \A i \in removed' \ overtaken' :
             op.pc = "read" /\ op.id = i /\ op.status = Memories!Unchanged => op.row.gone
    BY <1>9, DeleteDoes DEF Stored
  <2>2. KeepsRemoved(user)' /\ (agent' = agent => KeepsRemoved(agent)')
    BY <1>9, <2>1 DEF KeepsRemoved
  <2> QED
    BY <1>c, <1>a, <1>b, <1>v, <1>9, <2>1, <2>2
<1>10. ASSUME NEW id \in Memories!Ids, Memories!UserDelete(id) PROVE MemoryInv'
  BY <1>9, <1>10 DEF Memories!UserDelete
<1>11. CASE Memories!AgentDelete
  <2>1. agent.id \in Memories!Ids
    BY <1>t, <1>11 DEF About, Memories!AgentDelete
  <2> QED
    BY <1>9, <1>11, <2>1 DEF Memories!AgentDelete
<1>12. CASE UNCHANGED m_vars
  BY <1>c, <1>q, <1>12 DEF m_vars
<1> QED
  BY <1>1, <1>2, <1>3, <1>4, <1>5, <1>6, <1>7, <1>8, <1>10, <1>11, <1>12
     DEF Memories!Next, Asked, Memories!Statuses

\* A behaviour starts without records.
LEMMA MemoriesStart ==
    ASSUME Memories!Init
    PROVE  MemoryInv
<1>1. records = <<>> /\ user = Memories!NoOp /\ agent = Memories!NoOp /\ removed = {}
  BY DEF Memories!Init
<1> QED
  BY <1>1 DEF MemoryInv, MemoryTypes, Numbered, Marks, Inside, About, KeepsRemoved, Memories!NoOp

\* The invariant of the memories holds in every behaviour.
LEMMA MemoriesSafety == Spec => []MemoryInv
<1>1. Init => MemoryInv
  BY AllStoresStart, MemoriesStart
<1>2. MemoryInv /\ [Next]_vars => MemoryInv'
  BY OneStoreMoves, MemoriesKeep
<1> QED
  BY <1>1, <1>2, PTL DEF Spec, vars

\* A removed memory stays removed and out of every context, unless an update
\* overlapped with its deletion.
THEOREM MemoriesStayRemoved == Spec => []NoRevival
<1>1. ASSUME MemoryInv, NEW id \in removed \ overtaken
      PROVE  /\ Memories!Get(id).gone /\ Memories!Get(id).status = "deleted"
             /\ \A a \in Agents : Memories!Get(id) \notin Memories!Context(a)
  <2>1. id \in Memories!Ids /\ Memories!Get(id).gone
    BY <1>1 DEF MemoryInv, Marks
  <2>2. Sound(Memories!Get(id))
    BY <1>1, <2>1, GetFinds DEF MemoryInv
  <2>3. ASSUME NEW a \in Agents, NEW r \in Memories!Context(a) PROVE ~r.gone
    BY <2>3 DEF Memories!Context, Memories!Selected
  <2> QED
    BY <2>1, <2>2, <2>3 DEF Sound
<1>2. MemoryInv => NoRevival
  BY <1>1 DEF NoRevival, Memories!NoRevival
<1> QED
  BY <1>2, MemoriesSafety, PTL

\* Memory tools write and delete only what belongs to their session or
\* workspace, and every record keeps the fields its scope needs.
THEOREM AgentsStayInside == Spec => AgentStaysInside
<1> DEFINE Step == /\ Memories!AgentSave \/ Memories!AgentDelete =>
                        IF agent.owned = "session"
                        THEN agent.by.session = Memories!Get(agent.id).session
                        ELSE agent.owned = "project" /\ agent.by.root = Memories!Get(agent.id).root
                   /\ \A n \in DOMAIN records' : Memories!Traced(records'[n].scope, records'[n])
<1>1. MemoryInv /\ MemoryInv' /\ [Next]_vars => [Step]_m_vars
  <2> SUFFICES ASSUME MemoryInv, MemoryInv' PROVE Step
    OBVIOUS
  <2>1. ASSUME Memories!AgentSave \/ Memories!AgentDelete PROVE agent.pc # "idle"
    BY <2>1 DEF Memories!AgentSave, Memories!Write, Memories!AgentDelete
  <2>2. \A n \in DOMAIN records' : Memories!Traced(records'[n].scope, records'[n])
    BY DEF MemoryInv, Sound
  <2> QED
    BY <2>1, <2>2 DEF MemoryInv, Inside
<1>2. AgentStaysInside <=> [][Step]_m_vars
  BY DEF AgentStaysInside, Memories!AgentStaysInside, m_vars, Memories!memoryVars
<1> HIDE DEF Step
<1> QED
  BY <1>1, <1>2, MemoriesSafety, PTL DEF Spec, vars
=============================================================================
