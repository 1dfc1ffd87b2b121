------------------------ MODULE ResourceBudgetProofs ------------------------
(***************************************************************************)
(* Safety of ResourceBudget for every number of calls, runs and permits    *)
(* and every limit.                                                        *)
(***************************************************************************)
EXTENDS ResourceBudget, FiniteSetTheorems, TLAPS

-----------------------------------------------------------------------------
(* Stamps: a non-empty set of calls has an oldest and a newest member.     *)

\* A non-empty set of waiters has one that queued first: the head of the slice.
LEMMA Oldest ==
    ASSUME NEW A \in SUBSET Calls, A # {}, NEW at \in [Calls -> Nat]
    PROVE  \E m \in A : \A c \in A : at[m] <= at[c]
<1> DEFINE Upto(m) == {c \in A : at[c] <= at[m]}
           T == {Upto(m) : m \in A}
<1>1. T \subseteq FiniteSubsetsOf(Calls)
  BY CallsAssumption, FS_Subset DEF FiniteSubsetsOf
<1>2. T # {}
  OBVIOUS
<1>3. PICK X \in T : \A Y \in T : ~ (<<Y, X>> \in StrictSubsetOrdering(Calls))
  <2> HIDE DEF T
  <2> QED
    BY <1>1, <1>2, FS_StrictSubsetOrderingWellFounded, WFMin
<1>4. PICK m \in A : X = Upto(m)
  BY <1>3
<1>5. ASSUME NEW c \in A PROVE at[m] <= at[c]
  <2>1. Upto(c) \in T /\ Upto(c) \subseteq Calls /\ Upto(m) \subseteq Calls
    OBVIOUS
  <2>2. ~ (Upto(c) \subseteq Upto(m) /\ Upto(c) # Upto(m))
    BY <1>3, <1>4, <2>1 DEF StrictSubsetOrdering
  <2>3. CASE at[c] < at[m]
    <3>1. Upto(c) \subseteq Upto(m) /\ m \in Upto(m) /\ m \notin Upto(c)
      BY <2>3
    <3> QED
      BY <3>1, <2>2
  <2> QED
    BY <2>3
<1> QED
  BY <1>5

\* A non-empty set of waiters has one that queued last.
LEMMA Newest ==
    ASSUME NEW A \in SUBSET Calls, A # {}, NEW at \in [Calls -> Nat]
    PROVE  \E m \in A : \A c \in A : at[c] <= at[m]
<1> DEFINE From(m) == {c \in A : at[m] <= at[c]}
           T == {From(m) : m \in A}
<1>1. T \subseteq FiniteSubsetsOf(Calls)
  BY CallsAssumption, FS_Subset DEF FiniteSubsetsOf
<1>2. T # {}
  BY ZenonT(40)
<1>3. PICK X \in T : \A Y \in T : ~ (<<Y, X>> \in StrictSubsetOrdering(Calls))
  <2> HIDE DEF T
  <2> QED
    BY <1>1, <1>2, FS_StrictSubsetOrderingWellFounded, WFMin
<1>4. PICK m \in A : X = From(m)
  BY <1>3
<1>5. ASSUME NEW c \in A PROVE at[c] <= at[m]
  <2>1. From(c) \in T /\ From(c) \subseteq Calls /\ From(m) \subseteq Calls
    OBVIOUS
  <2>2. ~ (From(c) \subseteq From(m) /\ From(c) # From(m))
    BY <1>3, <1>4, <2>1 DEF StrictSubsetOrdering
  <2>3. CASE at[m] < at[c]
    <3>1. From(c) \subseteq From(m) /\ m \in From(m) /\ m \notin From(c)
      BY <2>3
    <3> QED
      BY <3>1, <2>2
  <2> QED
    BY <2>3
<1> QED
  BY <1>5

-----------------------------------------------------------------------------
(* What dispatchLocked does, as a function of its arguments.               *)

\* The permits of a set of calls are finitely many keys of the active map.
LEMMA PermitsFinite ==
    ASSUME NEW S \in SUBSET Calls
    PROVE  IsFiniteSet(PermitsOf(S)) /\ PermitsOf(S) \subseteq Permits
<1>1. IsFiniteSet(S)
  BY CallsAssumption, FS_Subset
<1>2. [c \in S |-> PermitOf[c]] \in Surjection(S, PermitsOf(S))
  BY DEF Surjection, PermitsOf
<1> QED
  BY <1>1, <1>2, FS_Surjection, ParamsAssumption DEF PermitsOf

\* The loop of dispatchLocked stops at the limit: what it admits fits beside the
\* permits that are already in the map.
LEMMA GrantsStayBelowLimit ==
    ASSUME NEW act, IsFiniteSet(act), Cardinality(act) <= Limit,
           NEW q \in SUBSET Calls, NEW at \in [Calls -> Nat],
           \A c, d \in q : at[c] = at[d] => c = d
    PROVE  /\ IsFiniteSet(act \cup PermitsOf(Admitted(act, q, at)))
           /\ Cardinality(act \cup PermitsOf(Admitted(act, q, at))) <= Limit
<1> DEFINE adm == Admitted(act, q, at)
<1>0. adm \subseteq q /\ adm \subseteq Calls
  BY DEF Admitted
<1>1. IsFiniteSet(act \cup PermitsOf(adm))
  BY <1>0, PermitsFinite, FS_Union
<1>2. CASE adm = {}
  <2>1. act \cup PermitsOf(adm) = act
    BY <1>2 DEF PermitsOf
  <2> QED
    BY <1>1, <2>1
<1>3. CASE adm # {}
  <2>1. PICK m \in adm : \A c \in adm : at[c] <= at[m]
    BY <1>0, <1>3, Newest
  <2> DEFINE before == act \cup PermitsOf(Ahead(m, q, at))
  <2>2. Ahead(m, q, at) \subseteq Calls
    BY DEF Ahead
  <2>3. IsFiniteSet(before) /\ Cardinality(before) \in Nat /\ Cardinality(before) < Limit
    <3>1. IsFiniteSet(before)
      BY <2>2, PermitsFinite, FS_Union
    <3>2. Cardinality(before) < Limit
      BY <2>1 DEF Admitted
    <3> QED
      BY <3>1, <3>2, FS_CardinalityType
  <2>4. IsFiniteSet(before \cup {PermitOf[m]})
        /\ Cardinality(before \cup {PermitOf[m]}) <= Cardinality(before) + 1
    <3> HIDE DEF before
    <3>1. Cardinality(before \cup {PermitOf[m]}) =
            IF PermitOf[m] \in before THEN Cardinality(before) ELSE Cardinality(before) + 1
      BY <2>3, FS_AddElement, ZenonT(20)
    <3>2. IsFiniteSet(before \cup {PermitOf[m]})
      BY <2>3, FS_AddElement, ZenonT(20)
    <3> QED
      BY <2>3, <3>1, <3>2
  <2>5. \A c \in adm : c = m \/ c \in Ahead(m, q, at)
    BY <1>0, <2>1 DEF Ahead
  <2>6. act \cup PermitsOf(adm) \subseteq before \cup {PermitOf[m]}
    BY <2>5 DEF PermitsOf
  <2>7. Cardinality(act \cup PermitsOf(adm)) <= Cardinality(before \cup {PermitOf[m]})
    BY <2>4, <2>6, FS_Subset
  <2>8. Cardinality(act \cup PermitsOf(adm)) \in Nat
        /\ Cardinality(before \cup {PermitOf[m]}) \in Nat
    BY <1>1, <2>4, FS_CardinalityType
  <2> QED
    BY <1>1, <2>3, <2>4, <2>7, <2>8, LimitAssumption
<1> QED
  BY <1>2, <1>3

\* The loop of dispatchLocked goes on to the limit: whoever it leaves in the slice
\* finds the map full.
LEMMA NobodyWaitsBesideCapacity ==
    ASSUME NEW act, IsFiniteSet(act),
           NEW q \in SUBSET Calls, NEW at \in [Calls -> Nat],
           q \ Admitted(act, q, at) # {}
    PROVE  Cardinality(act \cup PermitsOf(Admitted(act, q, at))) >= Limit
<1> DEFINE adm == Admitted(act, q, at)
           rest == q \ adm
<1>1. adm \subseteq Calls /\ rest \in SUBSET Calls
  BY DEF Admitted
<1>2. PICK m \in rest : \A c \in rest : at[m] <= at[c]
  BY <1>1, Oldest
<1>3. Ahead(m, q, at) \subseteq adm
  BY <1>2 DEF Ahead
<1>4. act \cup PermitsOf(Ahead(m, q, at)) \subseteq act \cup PermitsOf(adm)
  BY <1>3 DEF PermitsOf
<1>5. IsFiniteSet(act \cup PermitsOf(adm))
  BY <1>1, PermitsFinite, FS_Union
<1>6. IsFiniteSet(act \cup PermitsOf(Ahead(m, q, at)))
  BY <1>4, <1>5, FS_Subset
<1>7. Cardinality(act \cup PermitsOf(Ahead(m, q, at))) <= Cardinality(act \cup PermitsOf(adm))
  BY <1>4, <1>5, FS_Subset
<1>8. ~ (Cardinality(act \cup PermitsOf(Ahead(m, q, at))) < Limit)
  BY <1>2 DEF Admitted
<1>9. Cardinality(act \cup PermitsOf(Ahead(m, q, at))) \in Nat
      /\ Cardinality(act \cup PermitsOf(adm)) \in Nat
  BY <1>5, <1>6, FS_CardinalityType
<1> QED
  BY <1>7, <1>8, <1>9, LimitAssumption
-----------------------------------------------------------------------------
(* The inductive invariant.  The stamps of queued calls are distinct and   *)
(* not from the future, so a new waiter really is the last of the slice;   *)
(* without that dispatchLocked could pop two calls for one free slot.      *)

StampsInOrder ==
    /\ \A c \in Calls : stamp[c] <= clock
    /\ \A c, d \in queued : stamp[c] = stamp[d] => c = d

\* A call that has not begun has an empty channel.
FreshChannel == \A c \in Calls : phase[c] = "new" => result[c] = "none"

\* A call that has been granted a slot and whose run is alive still owns it.
OwnerKeepsPermit ==
    \A c \in Calls :
        /\ OwnPermit(c)
        /\ RunOf[c] \notin ended
        /\ \/ phase[c] = "holding"
           \/ phase[c] = "waiting" /\ result[c] = "granted"
        => PermitOf[c] \in active

IInv ==
    /\ TypeOK
    /\ StampsInOrder
    /\ CapacityBound
    /\ WorkConserving
    /\ NoLostWakeup
    /\ FreshChannel
    /\ NoLeakedPermit
    /\ OwnerKeepsPermit

\* A dispatch keeps the types whatever it starts from.
LEMMA DispatchTyped ==
    ASSUME NEW ACTION act, NEW ACTION q, NEW ACTION at, NEW ACTION res,
           act \subseteq Permits, q \subseteq Calls,
           res \in [Calls -> {"none", "granted", "ended"}],
           Dispatch(act, q, at, res)
    PROVE  /\ active' \subseteq Permits
           /\ queued' \subseteq Calls
           /\ result' \in [Calls -> {"none", "granted", "ended"}]
<1> DEFINE adm == Admitted(act, q, at)
<1>1. adm \in SUBSET Calls
  BY DEF Admitted
<1>2. PermitsOf(adm) \subseteq Permits
  BY <1>1, PermitsFinite
<1>3. /\ active' = act \cup PermitsOf(adm)
      /\ queued' = q \ adm
      /\ result' = [c \in Calls |-> IF c \in adm THEN "granted" ELSE res[c]]
  BY DEF Dispatch
<1> HIDE DEF adm
<1> QED
  BY <1>2, <1>3

\* No step of the budget breaks a type.
LEMMA TypingStep == TypeOK /\ [Next]_vars => TypeOK'
<1> SUFFICES ASSUME TypeOK, [Next]_vars PROVE TypeOK'
  OBVIOUS
<1> USE DEF TypeOK, MoveTo
<1>1. ASSUME NEW c \in Calls, Acquire(c) PROVE TypeOK'
  <2>1. CASE AcquireActive(c)
    BY <2>1 DEF AcquireActive
  <2>2. CASE AcquireQueue(c)
    <3>1. queued \cup {c} \in SUBSET Calls
      OBVIOUS
    <3> QED
      BY <2>2, <3>1, DispatchTyped DEF AcquireQueue
  <2> QED
    BY <1>1, <2>1, <2>2 DEF Acquire
<1>2. ASSUME NEW c \in Calls, Receive(c) PROVE TypeOK'
  BY <1>2 DEF Receive
<1>3. ASSUME NEW c \in Calls, Cancel(c) PROVE TypeOK'
  <2>1. CASE CancelQueued(c)
    BY <2>1 DEF CancelQueued
  <2>2. CASE CancelDecided(c)
    <3>1. active \ {PermitOf[c]} \in SUBSET Permits
          /\ [result EXCEPT ![c] = "none"] \in [Calls -> {"none", "granted", "ended"}]
      OBVIOUS
    <3> QED
      BY <2>2, <3>1, DispatchTyped DEF CancelDecided
  <2> QED
    BY <1>3, <2>1, <2>2 DEF Cancel
<1>4. ASSUME NEW c \in Calls, Release(c) PROVE TypeOK'
  <2>1. active \ {PermitOf[c]} \in SUBSET Permits
    OBVIOUS
  <2> QED
    BY <1>4, <2>1, DispatchTyped DEF Release
<1>5. ASSUME NEW r \in Runs, ReleaseRun(r) PROVE TypeOK'
  <2> DEFINE gone == queued \cap CallsOf(r)
             res  == [c \in Calls |-> IF c \in gone THEN "ended" ELSE result[c]]
  <2>1. /\ active \ PermitsOf(CallsOf(r)) \in SUBSET Permits
        /\ queued \ gone \in SUBSET Calls
        /\ res \in [Calls -> {"none", "granted", "ended"}]
    OBVIOUS
  <2>2. Dispatch(active \ PermitsOf(CallsOf(r)), queued \ gone, stamp, res)
        /\ UNCHANGED <<stamp, clock, phase>> /\ ended' = ended \cup {r}
    BY <1>5 DEF ReleaseRun
  <2> HIDE DEF gone, res
  <2> QED
    BY <2>1, <2>2, DispatchTyped
<1>6. CASE UNCHANGED vars
  BY <1>6 DEF vars
<1> QED
  BY <1>1, <1>2, <1>3, <1>4, <1>5, <1>6 DEF Next

\* Everything the program can reach is well typed.
THEOREM Typing == Spec => []TypeOK
<1>1. Init => TypeOK
  BY DEF Init, TypeOK
<1> QED
  BY <1>1, TypingStep, PTL DEF Spec

-----------------------------------------------------------------------------
\* What a critical section hands to dispatchLocked: a map within the limit and
\* a slice in stamp order.
InOrder(act, q, at) ==
    /\ IsFiniteSet(act) /\ Cardinality(act) <= Limit
    /\ q \subseteq Calls
    /\ at \in [Calls -> Nat]
    /\ \A c, d \in q : at[c] = at[d] => c = d

\* What it gets back.
Served(act, q, res) ==
    /\ CapacityBound'
    /\ WorkConserving'
    /\ queued' \subseteq q
    /\ active' = act \cup PermitsOf(q \ queued')
    /\ \A c \in Calls : result'[c] = IF c \in q \ queued' THEN "granted" ELSE res[c]

\* The one to the other.
LEMMA DispatchEffect ==
    ASSUME NEW ACTION act, NEW ACTION q, NEW ACTION at, NEW ACTION res,
           InOrder(act, q, at), Dispatch(act, q, at, res)
    PROVE  Served(act, q, res)
<1> USE DEF InOrder
<1> DEFINE adm == Admitted(act, q, at)
<1>1. adm \subseteq q
  BY DEF Admitted
<1>2. /\ active' = act \cup PermitsOf(adm)
      /\ queued' = q \ adm
      /\ result' = [c \in Calls |-> IF c \in adm THEN "granted" ELSE res[c]]
  BY DEF Dispatch
<1>3. adm = q \ queued'
  BY <1>1, <1>2
<1>4. CapacityBound'
  BY <1>2, GrantsStayBelowLimit DEF CapacityBound
<1>5. WorkConserving'
  <2>1. queued' # {} => q \ adm # {}
    BY <1>2
  <2>2. q \ adm # {} => Cardinality(act \cup PermitsOf(adm)) >= Limit
    BY NobodyWaitsBesideCapacity
  <2> QED
    BY <1>2, <2>1, <2>2 DEF WorkConserving
<1> QED
  <2> HIDE DEF adm
  <2> QED
    BY <1>2, <1>3, <1>4, <1>5 DEF Served

\* Taking permits out of the map leaves it below the limit.
LEMMA FewerPermits ==
    ASSUME CapacityBound, NEW X
    PROVE  IsFiniteSet(active \ X) /\ Cardinality(active \ X) <= Limit
<1>1. IsFiniteSet(active \ X) /\ Cardinality(active \ X) <= Cardinality(active)
  BY FS_Subset DEF CapacityBound
<1>2. Cardinality(active \ X) \in Nat /\ Cardinality(active) \in Nat
  BY <1>1, FS_CardinalityType DEF CapacityBound
<1> QED
  BY <1>1, <1>2, LimitAssumption DEF CapacityBound

\* No critical section of resource_budget.go breaks the invariant.
LEMMA StepInvariant == IInv /\ [Next]_vars => IInv'
<1> SUFFICES ASSUME IInv, [Next]_vars PROVE IInv'
  OBVIOUS
<1>0. TypeOK'
  BY TypingStep DEF IInv
<1> USE DEF IInv
<1>1. ASSUME NEW c \in Calls, AcquireActive(c) PROVE IInv'
  <2> USE <1>1 DEF AcquireActive, MoveTo, TypeOK
  <2>1. StampsInOrder'
    BY DEF StampsInOrder
  <2>2. CapacityBound' /\ WorkConserving'
    BY DEF CapacityBound, WorkConserving
  <2>3. NoLostWakeup' /\ FreshChannel'
    BY DEF NoLostWakeup, FreshChannel
  <2>4. NoLeakedPermit'
    BY DEF NoLeakedPermit
  <2>5. OwnerKeepsPermit'
    BY DEF OwnerKeepsPermit, OwnPermit
  <2> QED
    BY <1>0, <2>1, <2>2, <2>3, <2>4, <2>5
<1>2. ASSUME NEW c \in Calls, AcquireQueue(c) PROVE IInv'
  <2> USE <1>2 DEF AcquireQueue, MoveTo, TypeOK
  <2>1. /\ queued \cup {c} \subseteq Calls
        /\ stamp' \in [Calls -> Nat]
        /\ stamp'[c] = clock + 1
        /\ \A d \in Calls \ {c} : stamp'[d] = stamp[d]
    OBVIOUS
  <2>2. \A d, e \in queued \cup {c} : stamp'[d] = stamp'[e] => d = e
    BY <2>1 DEF StampsInOrder
  <2>3. Served(active, queued \cup {c}, result)
    <3>1. InOrder(active, queued \cup {c}, stamp')
      BY <2>1, <2>2 DEF InOrder, CapacityBound
    <3>2. Dispatch(active, queued \cup {c}, stamp', result)
      OBVIOUS
    <3> QED
      BY ONLY <3>1, <3>2, DispatchEffect
  <2> USE <2>3 DEF Served
  <2>4. StampsInOrder'
    BY <2>1, <2>2, <2>3 DEF StampsInOrder
  <2>5. NoLostWakeup' /\ FreshChannel'
    BY <2>3 DEF NoLostWakeup, FreshChannel
  <2>6. NoLeakedPermit'
    BY <2>3 DEF NoLeakedPermit, NoLostWakeup, PermitsOf
  <2>7. OwnerKeepsPermit'
    BY <2>3 DEF OwnerKeepsPermit, FreshChannel, PermitsOf
  <2> QED
    BY <1>0, <2>3, <2>4, <2>5, <2>6, <2>7
<1>3. ASSUME NEW c \in Calls, Receive(c) PROVE IInv'
  <2> USE <1>3 DEF Receive, MoveTo, TypeOK
  <2>1. StampsInOrder'
    BY DEF StampsInOrder
  <2>2. CapacityBound' /\ WorkConserving'
    BY DEF CapacityBound, WorkConserving
  <2>3. NoLostWakeup' /\ FreshChannel'
    BY DEF NoLostWakeup, FreshChannel
  <2>4. NoLeakedPermit'
    BY DEF NoLeakedPermit
  <2>5. OwnerKeepsPermit'
    BY DEF OwnerKeepsPermit, OwnPermit
  <2> QED
    BY <1>0, <2>1, <2>2, <2>3, <2>4, <2>5
<1>4. ASSUME NEW c \in Calls, CancelQueued(c) PROVE IInv'
  <2> USE <1>4 DEF CancelQueued, MoveTo, TypeOK
  <2>1. StampsInOrder'
    BY DEF StampsInOrder
  <2>2. CapacityBound' /\ WorkConserving'
    BY DEF CapacityBound, WorkConserving
  <2>3. NoLostWakeup' /\ FreshChannel'
    BY DEF NoLostWakeup, FreshChannel
  <2>4. NoLeakedPermit'
    BY DEF NoLeakedPermit, NoLostWakeup
  <2>5. OwnerKeepsPermit'
    BY DEF OwnerKeepsPermit, OwnPermit
  <2> QED
    BY <1>0, <2>1, <2>2, <2>3, <2>4, <2>5
<1>5. ASSUME NEW c \in Calls, CancelDecided(c) PROVE IInv'
  <2> USE <1>5 DEF CancelDecided, MoveTo, TypeOK
  <2>1. IsFiniteSet(active \ {PermitOf[c]}) /\ Cardinality(active \ {PermitOf[c]}) <= Limit
    BY FewerPermits
  <2>2. Served(active \ {PermitOf[c]}, queued, [result EXCEPT ![c] = "none"])
    <3>1. InOrder(active \ {PermitOf[c]}, queued, stamp)
      BY <2>1 DEF InOrder, StampsInOrder
    <3>2. Dispatch(active \ {PermitOf[c]}, queued, stamp, [result EXCEPT ![c] = "none"])
      OBVIOUS
    <3> QED
      BY ONLY <3>1, <3>2, DispatchEffect
  <2> USE <2>2 DEF Served
  <2>3. StampsInOrder'
    BY <2>2 DEF StampsInOrder
  <2>4. NoLostWakeup' /\ FreshChannel'
    BY <2>2 DEF NoLostWakeup, FreshChannel
  <2>5. NoLeakedPermit'
    BY <2>2 DEF NoLeakedPermit, NoLostWakeup, PermitsOf
  <2>6. OwnerKeepsPermit'
    BY <2>2 DEF OwnerKeepsPermit, OwnPermit, PermitsOf
  <2> QED
    BY <1>0, <2>2, <2>3, <2>4, <2>5, <2>6
<1>6. ASSUME NEW c \in Calls, Release(c) PROVE IInv'
  <2> USE <1>6 DEF Release, MoveTo, TypeOK
  <2>1. IsFiniteSet(active \ {PermitOf[c]}) /\ Cardinality(active \ {PermitOf[c]}) <= Limit
    BY FewerPermits
  <2>2. Served(active \ {PermitOf[c]}, queued, result)
    <3>1. InOrder(active \ {PermitOf[c]}, queued, stamp)
      BY <2>1 DEF InOrder, StampsInOrder
    <3>2. Dispatch(active \ {PermitOf[c]}, queued, stamp, result)
      OBVIOUS
    <3> QED
      BY ONLY <3>1, <3>2, DispatchEffect
  <2> USE <2>2 DEF Served
  <2>3. StampsInOrder'
    BY <2>2 DEF StampsInOrder
  <2>4. NoLostWakeup' /\ FreshChannel'
    BY <2>2 DEF NoLostWakeup, FreshChannel
  <2>5. NoLeakedPermit'
    BY <2>2 DEF NoLeakedPermit, NoLostWakeup, PermitsOf
  <2>6. OwnerKeepsPermit'
    BY <2>2 DEF OwnerKeepsPermit, OwnPermit, PermitsOf
  <2> QED
    BY <1>0, <2>2, <2>3, <2>4, <2>5, <2>6
<1>7. ASSUME NEW r \in Runs, ReleaseRun(r) PROVE IInv'
  <2> DEFINE gone == queued \cap CallsOf(r)
             X    == PermitsOf(CallsOf(r))
             res  == [c \in Calls |-> IF c \in gone THEN "ended" ELSE result[c]]
  <2>1. /\ Dispatch(active \ X, queued \ gone, stamp, res)
        /\ ended' = ended \cup {r}
        /\ UNCHANGED <<stamp, clock, phase>>
    BY <1>7 DEF ReleaseRun
  <2>2. IsFiniteSet(active \ X) /\ Cardinality(active \ X) <= Limit
    BY FewerPermits
  <2>3. \A c \in Calls : PermitOf[c] \in X => RunOf[c] = r
    BY PermitNamesRun DEF PermitsOf, CallsOf
  <2>4. \A c \in Calls : c \notin gone => res[c] = result[c]
    OBVIOUS
  <2>5. gone \subseteq queued /\ \A c \in gone : res[c] = "ended" /\ RunOf[c] = r
    BY DEF TypeOK, CallsOf
  <2> HIDE DEF gone, X, res
  <2>6. Served(active \ X, queued \ gone, res)
    <3>1. InOrder(active \ X, queued \ gone, stamp)
      BY <2>2 DEF InOrder, StampsInOrder, TypeOK
    <3> QED
      BY ONLY <2>1, <3>1, DispatchEffect
  <2> USE <2>6 DEF Served
  <2> USE DEF TypeOK
  <2>7. StampsInOrder'
    BY <2>1, <2>6 DEF StampsInOrder
  <2>8. NoLostWakeup' /\ FreshChannel'
    BY <2>1, <2>4, <2>5, <2>6 DEF NoLostWakeup, FreshChannel
  <2>9. NoLeakedPermit'
    BY <2>1, <2>4, <2>5, <2>6 DEF NoLeakedPermit, NoLostWakeup, PermitsOf
  <2>10. OwnerKeepsPermit'
    BY <2>1, <2>3, <2>4, <2>5, <2>6 DEF OwnerKeepsPermit, PermitsOf
  <2> QED
    BY <1>0, <2>6, <2>7, <2>8, <2>9, <2>10
<1>8. CASE UNCHANGED vars
  BY <1>8 DEF vars, TypeOK, StampsInOrder, CapacityBound, WorkConserving, NoLostWakeup,
              FreshChannel, NoLeakedPermit, OwnerKeepsPermit, OwnPermit
<1> QED
  BY <1>1, <1>2, <1>3, <1>4, <1>5, <1>6, <1>7, <1>8 DEF Next, Acquire, Cancel
-----------------------------------------------------------------------------
\* The invariant holds in every reachable state.
THEOREM Safety == Spec => []IInv
<1>1. Init => IInv
  <2> SUFFICES ASSUME Init PROVE IInv
    OBVIOUS
  <2>1. IsFiniteSet(active) /\ Cardinality(active) = 0
    BY FS_EmptySet DEF Init
  <2> QED
    BY <2>1, LimitAssumption
       DEF Init, IInv, TypeOK, StampsInOrder, CapacityBound, WorkConserving, NoLostWakeup,
           FreshChannel, NoLeakedPermit, OwnerKeepsPermit
<1> QED
  BY <1>1, StepInvariant, PTL DEF Spec

\* resource_budget.go never has more than Limit permits in its map, whatever
\* the order of grants, cancellations and run ends.
THEOREM Bounded == Spec => []CapacityBound
BY Safety, PTL DEF IInv

\* Every critical section hands freed capacity on: nobody is left in the slice
\* beside a free slot.
THEOREM HandsCapacityOn == Spec => []WorkConserving
BY Safety, PTL DEF IInv

\* A blocked Acquire is in the slice or has its answer, never both or neither.
THEOREM WakesEveryWaiter == Spec => []NoLostWakeup
BY Safety, PTL DEF IInv

\* Every permit in the map has somebody who will give it back.
THEOREM PermitsHaveOwners == Spec => []NoLeakedPermit
BY Safety, PTL DEF IInv

\* A worker of a live run keeps a permit with an id of its own until it releases
\* it itself.
THEOREM OwnersKeepPermits == Spec => []HolderKeepsPermit
<1>1. IInv => HolderKeepsPermit
  BY DEF IInv, OwnerKeepsPermit, HolderKeepsPermit
<1> QED
  BY <1>1, Safety, PTL

\* No more than Limit workers of live runs hold permits of their own: holding is
\* an injection into the map.
THEOREM HoldersWithinLimit == Spec => []HoldersBounded
<1>1. IInv => HoldersBounded
  <2> SUFFICES ASSUME IInv PROVE Cardinality(LiveHolders) <= Limit
    BY DEF HoldersBounded
  <2> DEFINE H == LiveHolders
             f == [c \in H |-> PermitOf[c]]
  <2>1. IsFiniteSet(active) /\ Cardinality(active) <= Limit
    BY DEF IInv, CapacityBound
  <2>2. H \subseteq Calls /\ \A c \in H : PermitOf[c] \in active
    BY DEF IInv, OwnerKeepsPermit, LiveHolders
  <2>3. f \in Injection(H, active)
    BY <2>2 DEF Injection, IsInjective, OwnPermit, LiveHolders
  <2>4. IsFiniteSet(H) /\ Cardinality(H) <= Cardinality(active)
    <3> HIDE DEF H, f
    <3> QED
      BY <2>1, <2>3, FS_Injection
  <2>5. Cardinality(H) \in Nat /\ Cardinality(active) \in Nat
    BY <2>1, <2>4, FS_CardinalityType
  <2> QED
    BY <2>1, <2>4, <2>5, LimitAssumption
<1> QED
  BY <1>1, Safety, PTL

\* Whoever is ahead of an admitted call is admitted as well.
LEMMA AdmittedFromTheFront ==
    ASSUME NEW act, IsFiniteSet(act),
           NEW q \in SUBSET Calls, NEW at \in [Calls -> Nat],
           NEW c \in q, NEW d \in Admitted(act, q, at), at[c] < at[d]
    PROVE  c \in Admitted(act, q, at)
<1>1. act \cup PermitsOf(Ahead(c, q, at)) \subseteq act \cup PermitsOf(Ahead(d, q, at))
  BY DEF PermitsOf, Ahead, Admitted
<1>2. IsFiniteSet(act \cup PermitsOf(Ahead(d, q, at)))
  <2>1. Ahead(d, q, at) \in SUBSET Calls
    BY DEF Ahead
  <2> QED
    BY <2>1, PermitsFinite, FS_Union
<1>3. /\ IsFiniteSet(act \cup PermitsOf(Ahead(c, q, at)))
      /\ Cardinality(act \cup PermitsOf(Ahead(c, q, at)))
           <= Cardinality(act \cup PermitsOf(Ahead(d, q, at)))
  BY <1>1, <1>2, FS_Subset
<1>4. /\ Cardinality(act \cup PermitsOf(Ahead(c, q, at))) \in Nat
      /\ Cardinality(act \cup PermitsOf(Ahead(d, q, at))) \in Nat
  BY <1>2, <1>3, FS_CardinalityType
<1>5. Cardinality(act \cup PermitsOf(Ahead(d, q, at))) < Limit
  BY DEF Admitted
<1> QED
  BY <1>3, <1>4, <1>5, LimitAssumption DEF Admitted

\* A call that the dispatch grants leaves nobody behind that was before it.
InTurn(q, at, res) ==
    \A c \in q, d \in Calls :
        at[c] < at[d] /\ res[d] # "granted" /\ result'[d] = "granted" => c \notin queued'

\* A dispatch never admits a waiter and leaves one that queued before it.
LEMMA DispatchInTurn ==
    ASSUME NEW ACTION act, NEW ACTION q, NEW ACTION at, NEW ACTION res,
           InOrder(act, q, at), Dispatch(act, q, at, res)
    PROVE  InTurn(q, at, res)
<1>1. \A c \in q, d \in Admitted(act, q, at) : at[c] < at[d] => c \in Admitted(act, q, at)
  BY AdmittedFromTheFront DEF InOrder
<1> QED
  BY <1>1 DEF InTurn, Dispatch

\* A call is never granted a permit while one that was queued before it stays
\* in the slice.
THEOREM Fifo == Spec => FifoAdmission
<1>1. ASSUME IInv, Next PROVE FifoStep
  <2> SUFFICES ASSUME NEW c \in queued, NEW d \in Calls,
                      GrantedNow(d), stamp[c] < stamp'[d]
               PROVE  c \notin queued'
    BY DEF FifoStep
  <2> USE DEF GrantedNow
  <2>0. c \in Calls /\ phase[c] = "waiting" /\ TypeOK
    BY <1>1 DEF IInv, TypeOK, NoLostWakeup
  <2>1. ASSUME NEW e \in Calls, Acquire(e) PROVE c \notin queued'
    <3>1. CASE AcquireActive(e)
      BY <3>1 DEF AcquireActive
    <3>2. CASE AcquireQueue(e)
      <4>1. e # c /\ stamp'[c] = stamp[c] /\ stamp' \in [Calls -> Nat]
        BY <2>0, <3>2 DEF AcquireQueue, TypeOK
      <4>2. InOrder(active, queued \cup {e}, stamp')
        BY <1>1, <3>2 DEF InOrder, AcquireQueue, IInv, CapacityBound, StampsInOrder, TypeOK
      <4>3. Dispatch(active, queued \cup {e}, stamp', result)
        BY <3>2 DEF AcquireQueue
      <4>4. InTurn(queued \cup {e}, stamp', result)
        BY ONLY <4>2, <4>3, DispatchInTurn
      <4> QED
        BY <4>1, <4>4 DEF InTurn
    <3> QED
      BY <2>1, <3>1, <3>2 DEF Acquire
  <2>2. ASSUME NEW e \in Calls, Receive(e) PROVE c \notin queued'
    BY <2>0, <2>2 DEF Receive, TypeOK
  <2>3. ASSUME NEW e \in Calls, CancelDecided(e) \/ Release(e) PROVE c \notin queued'
    <3>1. InOrder(active \ {PermitOf[e]}, queued, stamp)
      BY <1>1, FewerPermits DEF InOrder, IInv, StampsInOrder, TypeOK
    <3>2. CASE CancelDecided(e)
      <4>1. Dispatch(active \ {PermitOf[e]}, queued, stamp, [result EXCEPT ![e] = "none"])
        BY <3>2 DEF CancelDecided
      <4>2. InTurn(queued, stamp, [result EXCEPT ![e] = "none"])
        BY ONLY <3>1, <4>1, DispatchInTurn
      <4> QED
        BY <2>0, <3>2, <4>2 DEF InTurn, CancelDecided, TypeOK
    <3>3. CASE Release(e)
      <4>1. Dispatch(active \ {PermitOf[e]}, queued, stamp, result)
        BY <3>3 DEF Release
      <4>2. InTurn(queued, stamp, result)
        BY ONLY <3>1, <4>1, DispatchInTurn
      <4> QED
        BY <3>3, <4>2 DEF InTurn, Release
    <3> QED
      BY <2>3, <3>2, <3>3
  <2>4. ASSUME NEW e \in Calls, CancelQueued(e) PROVE c \notin queued'
    BY <2>4 DEF CancelQueued
  <2>5. ASSUME NEW r \in Runs, ReleaseRun(r) PROVE c \notin queued'
    <3> DEFINE gone == queued \cap CallsOf(r)
               X    == PermitsOf(CallsOf(r))
               res  == [x \in Calls |-> IF x \in gone THEN "ended" ELSE result[x]]
    <3>1. Dispatch(active \ X, queued \ gone, stamp, res) /\ stamp' = stamp
      BY <2>5 DEF ReleaseRun
    <3>2. InOrder(active \ X, queued \ gone, stamp)
      BY <1>1, FewerPermits DEF InOrder, IInv, StampsInOrder, TypeOK
    <3>3. res[d] # "granted"
      OBVIOUS
    <3> HIDE DEF gone, X, res
    <3>4. InTurn(queued \ gone, stamp, res)
      BY ONLY <3>1, <3>2, DispatchInTurn
    <3>5. queued' \subseteq queued \ gone
      BY <3>1 DEF Dispatch
    <3> QED
      BY <3>1, <3>3, <3>4, <3>5 DEF InTurn
  <2> QED
    BY <1>1, <2>1, <2>2, <2>3, <2>4, <2>5 DEF Next, Cancel
<1>2. IInv /\ [Next]_vars => [FifoStep]_vars
  BY <1>1
<1> QED
  BY <1>2, Safety, PTL DEF Spec, FifoAdmission
=============================================================================
