-------------------------- MODULE ProviderProfiles --------------------------
(***************************************************************************)
(* The provider profiles of the Gateway: service/provider_profile.go and   *)
(* repository/provider_profile.go.  A run without a profile of its own     *)
(* takes the default one.  An update reads the profile in the service,     *)
(* again in the repository, and then writes the whole row in a transaction *)
(* that takes the default flag from the other profiles.                    *)
(***************************************************************************)
EXTENDS Naturals

CONSTANTS Profiles, Editors   \* ids that may be created; updates at one time

VARIABLES profiles, edits
profileVars == <<profiles, edits>>

NoEdit == [pc |-> "idle"]
Absent == [state |-> "none", default |-> FALSE, active |-> FALSE]
Deleted == [state |-> "deleted", default |-> FALSE, active |-> FALSE]

Init ==
    /\ profiles = [p \in Profiles |-> Absent]
    /\ edits = [e \in Editors |-> NoEdit]

Live(p) == profiles[p].state = "live"

\* Mutant of Written: the other profiles keep their flag.
WrittenAlone(p, row) == [profiles EXCEPT ![p] = row]

\* The transactions of Create and Update: other profiles that are not deleted
\* lose the flag.
Written(p, row) ==
    [q \in Profiles |-> IF q = p THEN row
                        ELSE IF row.default /\ Live(q) THEN [profiles[q] EXCEPT !.default = FALSE]
                        ELSE profiles[q]]

Create(p, default) ==
    /\ profiles[p].state = "none"
    /\ profiles' = Written(p, [state |-> "live", default |-> default, active |-> TRUE])
    /\ UNCHANGED edits

\* ProviderProfileService.Update: flags the request leaves out are those read here.
BeginUpdate(e, p, flags) ==
    /\ edits[e] = NoEdit /\ Live(p)
    /\ edits' = [edits EXCEPT ![e] =
          [pc |-> "based", id |-> p,
           default |-> IF "default" \in DOMAIN flags THEN flags["default"] ELSE profiles[p].default,
           active |-> IF "active" \in DOMAIN flags THEN flags["active"] ELSE profiles[p].active]]
    /\ UNCHANGED profiles

\* ProviderProfileRepository.Update reads the row; a deleted one is not found.
ReadRow(e) ==
    /\ edits[e].pc = "based"
    /\ edits' = [edits EXCEPT ![e] = IF Live(@.id) THEN [@ EXCEPT !.pc = "read"] ELSE NoEdit]
    /\ UNCHANGED profiles

\* The row is written as it was read, as one that is not deleted.
Commit(e) ==
    /\ edits[e].pc = "read"
    /\ profiles' = Written(edits[e].id, [state |-> "live", default |-> edits[e].default,
                                         active |-> edits[e].active])
    /\ edits' = [edits EXCEPT ![e] = NoEdit]

Delete(p) == Live(p) /\ profiles' = [profiles EXCEPT ![p] = Deleted] /\ UNCHANGED edits

\* The flags of a request: each is given or left out.
Flags == UNION {[names -> BOOLEAN] : names \in SUBSET {"default", "active"}}

Next ==
    \/ \E p \in Profiles : Delete(p) \/ \E default \in BOOLEAN : Create(p, default)
    \/ \E e \in Editors :
          \/ ReadRow(e) \/ Commit(e)
          \/ \E p \in Profiles, flags \in Flags : BeginUpdate(e, p, flags)

Spec == Init /\ [][Next]_profileVars

-----------------------------------------------------------------------------
\* Default() takes any active profile with the flag.  There is at most one, although an
\* update writes a flag it read two reads earlier, possibly of a profile that was
\* deleted since and lives again.
HasFlag(p) == Live(p) /\ profiles[p].default
OneDefault == \A p, q \in Profiles : HasFlag(p) /\ HasFlag(q) => p = q
=============================================================================
