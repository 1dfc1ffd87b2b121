-------------------------- MODULE AgentDefinitions --------------------------
(***************************************************************************)
(* The specialists a goal is worked on with, and agents the user adds:     *)
(* service/agent_definition.go and repository/agent_definition.go of the   *)
(* Gateway.  Every list or lookup seeds the builtin ones again: it reads   *)
(* the row with the key and writes a row of its own in its place.  An      *)
(* update of the user reads in the service and in the repository and then  *)
(* writes every field as the service read it.                              *)
(* An emptied prompt counts as the seed's.  turns stands for all the other *)
(* fields that seeding brings back: turns, names, description, tool lists. *)
(***************************************************************************)
EXTENDS Naturals, FiniteSets

CONSTANTS
    Definitions, Builtin,   \* ids, and the id of a seed
    DefinitionKeys, SeedKey \* keys of custom definitions, and the key of the seed

DefinitionAssumption == Builtin \in Definitions

VARIABLES
    definitions,
    seeding,    \* the re-seed under way, with the row it read
    editing,    \* the update of the user under way
    wanted,     \* history: what the user last saved for the builtin definition
    crossed     \* history: a re-seed and an update of the builtin one overlapped

definitionVars == <<definitions, seeding, editing, wanted, crossed>>

Idle == [pc |-> "idle"]
Seed == [state |-> "live", key |-> SeedKey, enabled |-> TRUE, prompt |-> "seed", turns |-> "seed"]
Absent == [Seed EXCEPT !.state = "none"]

Init ==
    /\ definitions = [d \in Definitions |-> Absent]
    /\ seeding = Idle /\ editing = Idle
    /\ wanted = Seed /\ crossed = FALSE

Live(d) == definitions[d].state = "live"

\* idx_agent_definitions_key
Unique(d, key) == \A e \in Definitions \ {d} : ~(Live(e) /\ definitions[e].key = key)

-----------------------------------------------------------------------------
(* EnsureBuiltins                                                          *)

\* Mutant of Reseeded: the toggle of the user is not preserved.
ReseededEnabled(row) == IF row.prompt # "seed" THEN [row EXCEPT !.enabled = TRUE] ELSE Seed

\* UpsertByKey: the toggle is kept; the rest only when the prompt was changed.
Reseeded(row) == IF row.prompt # "seed" THEN row ELSE [Seed EXCEPT !.enabled = row.enabled]

BeginSeed ==
    /\ seeding = Idle
    /\ seeding' = [pc |-> "read", row |-> IF Live(Builtin) THEN Reseeded(definitions[Builtin]) ELSE Seed]
    /\ crossed' = (crossed \/ (editing # Idle /\ editing.id = Builtin))
    /\ UNCHANGED <<definitions, editing, wanted>>

WriteSeed ==
    /\ seeding.pc = "read"
    /\ definitions' = [definitions EXCEPT ![Builtin] = seeding.row]
    /\ seeding' = Idle
    /\ UNCHANGED <<editing, wanted, crossed>>

-----------------------------------------------------------------------------
(* Requests of the user                                                    *)

\* Mutant of Reserved: the prefix of the builtin keys is not reserved.
NotReserved(key) == FALSE

\* Keys with the prefix goal- are refused.
Reserved(key) == key = SeedKey

Create(d, key, enabled) ==
    /\ definitions[d].state = "none" /\ d # Builtin
    /\ ~Reserved(key) /\ Unique(d, key)
    /\ definitions' = [definitions EXCEPT ![d] = [Seed EXCEPT !.key = key, !.enabled = enabled]]
    /\ UNCHANGED <<seeding, editing, wanted, crossed>>

\* An update names some of the fields.
Changed(row, change) ==
    [row EXCEPT !.enabled = IF change = "toggle" THEN ~@ ELSE @,
                !.prompt = IF change = "prompt" THEN "own" ELSE @,
                !.turns = IF change = "turns" THEN "own" ELSE @]

BeginUpdate(d, change) ==
    /\ editing = Idle /\ Live(d)
    /\ editing' = [pc |-> "based", id |-> d, row |-> Changed(definitions[d], change)]
    /\ crossed' = (crossed \/ (d = Builtin /\ seeding # Idle))
    /\ UNCHANGED <<definitions, seeding, wanted>>

ReadRow ==
    /\ editing.pc = "based"
    /\ editing' = IF Live(editing.id) THEN [editing EXCEPT !.pc = "read"] ELSE Idle
    /\ UNCHANGED <<definitions, seeding, wanted, crossed>>

\* A row deleted since it was read is written as one that is not deleted, unless
\* its key was taken.
WriteRow ==
    /\ editing.pc = "read"
    /\ definitions' = IF Unique(editing.id, editing.row.key)
                      THEN [definitions EXCEPT ![editing.id] = editing.row] ELSE definitions
    /\ wanted' = IF editing.id = Builtin THEN editing.row ELSE wanted
    /\ editing' = Idle
    /\ UNCHANGED <<seeding, crossed>>

\* SoftDelete refuses builtin rows.
Delete(d) ==
    /\ Live(d) /\ d # Builtin
    /\ definitions' = [definitions EXCEPT ![d].state = "deleted"]
    /\ UNCHANGED <<seeding, editing, wanted, crossed>>

Next ==
    \/ BeginSeed \/ WriteSeed \/ ReadRow \/ WriteRow
    \/ \E d \in Definitions :
          \/ \E key \in DefinitionKeys \cup {SeedKey}, enabled \in BOOLEAN : Create(d, key, enabled)
          \/ \E change \in {"toggle", "prompt", "turns"} : BeginUpdate(d, change)
          \/ Delete(d)

Spec == Init /\ [][Next]_definitionVars

-----------------------------------------------------------------------------
\* No two definitions have one key, whatever overlaps, also when the update of a
\* deleted one brings it back.
AgentKeysUnique ==
    \A d, e \in Definitions :
        Live(d) /\ Live(e) /\ definitions[d].key = definitions[e].key => d = e

\* "Preserve user toggles on re-seed of builtins": what the user saved for a
\* builtin definition, its toggle and its prompt, outlasts every list and lookup
\* that does not overlap with the update.
BuiltinSettingsKept ==
    Live(Builtin) /\ ~crossed =>
        /\ definitions[Builtin].enabled = wanted.enabled
        /\ definitions[Builtin].prompt = wanted.prompt

\* repository/agent_definition.go:66: "Keep operator overrides for prompt/max turns
\* when they differ from seed."
OverridesKept ==
    Live(Builtin) /\ ~crossed => definitions[Builtin].turns = wanted.turns
=============================================================================
