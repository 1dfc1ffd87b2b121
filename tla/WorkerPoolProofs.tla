-------------------------- MODULE WorkerPoolProofs --------------------------
(***************************************************************************)
(* Safety of WorkerPool for every set of calls and of children and every   *)
(* maximal size: no slot is lost, no child is shared or left behind, no    *)
(* wakeup is lost and no waiter is left beside something it could have.    *)
(*                                                                         *)
(* A critical section of the pool changes its fields and then runs         *)
(* dispatchLocked.  Ready says what the fields are like in between, so     *)
(* that one lemma about Dispatch serves all of them.                       *)
(***************************************************************************)
EXTENDS WorkerPool, FunctionTheorems, FiniteSetTheorems, SequenceTheorems, TLAPS

-----------------------------------------------------------------------------
(* The inductive invariant                                                 *)

NoTwice(s) == \A i, j \in 1 .. Len(s) : s[i] = s[j] => i = j
In(s, x) == \E i \in 1 .. Len(s) : s[i] = x

Typed(act, idl, w, gr, hd, ph, pr) ==
    /\ act \in 0 .. MaxLimit
    /\ idl \in Seq(Children) /\ w \in Seq(Calls)
    /\ gr \in [Calls -> {"none", "create", "reuse", "closed"}]
    /\ hd \in [Calls -> Children \union {NoChild}]
    /\ ph \in [Calls -> Phases]
    /\ pr \in [Children -> {"unborn", "alive", "dead", "closed"}]

\* Calls a slot is set aside for.
Owners(gr, ph) ==
    {c \in Calls : \/ ph[c] \in {"checking", "unhealthy", "starting", "running"}
                   \/ ph[c] = "waiting" /\ gr[c] \in {"create", "reuse"}}
Slots(act, idl, gr, ph) ==
    /\ IsFiniteSet(Owners(gr, ph))
    /\ act = Len(idl) + Cardinality(Owners(gr, ph))

\* The queue holds the blocked calls without an answer, each of them once.
Queue(w, gr, ph) ==
    /\ NoTwice(w)
    /\ \A c \in Calls : (ph[c] = "waiting" /\ gr[c] = "none") <=> In(w, c)
    /\ \A c \in Calls : gr[c] # "none" => ph[c] = "waiting"

\* A child is idle once, or with one call that has been given it.
Owned(idl, gr, hd, ph) ==
    /\ \A c \in Calls : hd[c] # NoChild <=> ph[c] \in {"checking", "running"} \/ gr[c] = "reuse"
    /\ NoTwice(idl)
    /\ \A c, d \in Calls : hd[c] = hd[d] /\ hd[c] # NoChild => c = d
    /\ \A c \in Calls : ~In(idl, hd[c])

\* What lives is idle or held; what is idle or held has been started.
Living(idl, hd, pr) ==
    /\ \A k \in Children : pr[k] = "alive" => In(idl, k) \/ \E c \in Calls : hd[c] = k
    /\ \A i \in 1 .. Len(idl) : pr[idl[i]] # "unborn"
    /\ \A c \in Calls : hd[c] # NoChild => pr[hd[c]] # "unborn"

\* Idle children are within the limit, and a closed pool has none.
Fits(lim, cl, act, idl) ==
    /\ lim \in 1 .. MaxLimit /\ cl \in BOOLEAN
    /\ idl # <<>> => act <= lim /\ ~cl

Ready(lim, cl, act, idl, w, gr, hd, ph, pr) ==
    /\ Typed(act, idl, w, gr, hd, ph, pr)
    /\ Slots(act, idl, gr, ph)
    /\ Queue(w, gr, ph)
    /\ Owned(idl, gr, hd, ph)
    /\ Living(idl, hd, pr)
    /\ Fits(lim, cl, act, idl)

IInv ==
    /\ Ready(limit, closed, active, idle, waiters, grant, held, phase, proc)
    /\ WorkConserving

\* A slot to start a child in is new only within the limit.
StartsStep == (\E c \in Calls : ToStart(c)' /\ ~ToStart(c)) => active' <= limit'

-----------------------------------------------------------------------------
(* dispatchLocked                                                          *)

\* A part of a sequence, the empty one included.
LEMMA SubSeqIs ==
    ASSUME NEW S, NEW s \in Seq(S), NEW m \in 1 .. Len(s) + 1, NEW n \in 0 .. Len(s), m <= n + 1
    PROVE  /\ SubSeq(s, m, n) \in Seq(S) /\ Len(SubSeq(s, m, n)) = n + 1 - m
           /\ \A i \in 1 .. n + 1 - m : SubSeq(s, m, n)[i] = s[m + i - 1]
<1>1. \A i \in m .. n : s[i] \in S
  OBVIOUS
<1>2. CASE m <= n
  BY <1>1, <1>2, SubSeqProperties
<1>3. CASE m = n + 1
  <2>1. SubSeq(s, m, n) = <<>>
    BY <1>3
  <2> QED
    BY <1>3, <2>1
<1> QED
  BY <1>2, <1>3

\* The first r waiters get the idle children, from the top of the stack, the next ones
\* up to n a slot within the limit, and the others stay queued because neither is left.
Dispatched(act, idl, w, gr, hd, r, n) ==
    /\ idle' = SubSeq(idl, 1, Len(idl) - r)
    /\ active' = act + (n - r)
    /\ r < n => active' <= limit'
    /\ r > 0 => act <= limit'
    /\ n < Len(w) => (act <= limit' => r = Len(idl)) /\ active' >= limit'
    /\ grant' = [c \in Calls |-> IF \E i \in 1 .. r : w[i] = c THEN "reuse"
                                ELSE IF \E i \in 1 .. n : w[i] = c THEN "create" ELSE gr[c]]
    /\ held' = [c \in Calls |-> IF \E i \in 1 .. r : w[i] = c THEN held'[c] ELSE hd[c]]
    /\ \A i \in 1 .. r : held'[w[i]] = idl[Len(idl) + 1 - i]

\* A closed pool answers all of them.
Dismissed(act, idl, w, gr, hd) ==
    /\ waiters' = <<>> /\ idle' = idl /\ active' = act
    /\ held' = [c \in Calls |-> hd[c]]
    /\ grant' = [c \in Calls |-> IF In(w, c) THEN "closed" ELSE gr[c]]

\* How many of p waiters get one of q idle children, and how many a slot to start one in.
Reused(a, m, p, q) == IF a <= m THEN Least(p, q) ELSE 0
Created(a, m, p, q) == IF a < m THEN Least(p - Reused(a, m, p, q), m - a) ELSE 0

\* How dispatchLocked divides idle processes and free slots among the waiters.
LEMMA Shares ==
    ASSUME NEW a \in Nat, NEW m \in Nat, NEW p \in Nat, NEW q \in Nat
    PROVE  LET r == Reused(a, m, p, q)
               create == Created(a, m, p, q)
           IN  /\ r \in Nat /\ r <= p /\ r <= q /\ (r > 0 => a <= m)
               /\ create \in Nat /\ r + create <= p
               /\ create > 0 => a + create <= m
               /\ r + create < p => (a <= m => r = q) /\ a + create >= m
<1> DEFINE r == Reused(a, m, p, q)
           create == Created(a, m, p, q)
<1>1. r \in Nat /\ r <= p /\ r <= q /\ (r > 0 => a <= m) /\ (a <= m /\ r < p => r = q)
  BY DEF Reused, Least
<1>2. create = IF a < m THEN Least(p - r, m - a) ELSE 0
  BY DEF Created
<1> HIDE DEF r, create
<1>3. /\ create \in Nat /\ r + create <= p
      /\ create > 0 => a + create <= m
      /\ r + create < p => a + create >= m
  BY <1>1, <1>2 DEF Least
<1> QED
  BY <1>1, <1>3 DEF r, create

\* dispatchLocked serves the waiters in front and leaves the others in their order.
LEMMA DispatchDoes ==
    ASSUME NEW act \in Nat, NEW idl \in Seq(Children), NEW w \in Seq(Calls), NEW gr, NEW hd,
           NoTwice(w), limit' \in Nat, Dispatch(act, idl, w, gr, hd)
    PROVE  /\ closed' => Dismissed(act, idl, w, gr, hd)
           /\ ~closed' => \E n \in 0 .. Len(w) : \E r \in 0 .. n :
                 /\ r <= Len(idl)
                 /\ waiters' = SubSeq(w, n + 1, Len(w))
                 /\ Dispatched(act, idl, w, gr, hd, r, n)
<1> DEFINE r0 == Reused(act, limit', Len(w), Len(idl))
           create == Created(act, limit', Len(w), Len(idl))
           n == IF closed' THEN Len(w) ELSE r0 + create
           r == IF closed' THEN 0 ELSE r0
           place(c) == CHOOSE i \in 1 .. n : w[i] = c
           served == {w[i] : i \in 1 .. n}
           answer(c) == IF closed' THEN "closed"
                        ELSE IF place(c) <= r0 THEN "reuse" ELSE "create"
<1>1. /\ waiters' = SubSeq(w, n + 1, Len(w))
      /\ idle' = IF closed' THEN idl ELSE Popped(idl, r0)
      /\ active' = IF closed' THEN act ELSE act + create
      /\ grant' = [c \in Calls |-> IF c \in served THEN answer(c) ELSE gr[c]]
      /\ held' = [c \in Calls |->
                    IF c \in served /\ answer(c) = "reuse"
                    THEN idl[Len(idl) + 1 - place(c)] ELSE hd[c]]
  BY DEF Dispatch, Reused, Created
<1>0. Len(w) \in Nat /\ Len(idl) \in Nat
  OBVIOUS
<1>2. /\ Len(w) \in Nat /\ Len(idl) \in Nat
      /\ r0 \in Nat /\ r0 <= Len(w) /\ r0 <= Len(idl) /\ (r0 > 0 => act <= limit')
  BY <1>0, Shares
<1>3. /\ create \in Nat /\ r0 + create <= Len(w)
      /\ create > 0 => act + create <= limit'
      /\ r0 + create < Len(w) => (act <= limit' => r0 = Len(idl)) /\ act + create >= limit'
  BY <1>0, Shares
<1>4. n \in Nat /\ n <= Len(w) /\ r \in Nat /\ r <= n
  BY <1>2, <1>3
<1> HIDE DEF create, r0
<1>5. ASSUME NEW i \in 1 .. n PROVE place(w[i]) = i /\ w[i] \in served /\ w[i] \in Calls
  <2>1. place(w[i]) \in 1 .. n /\ w[place(w[i])] = w[i]
    OBVIOUS
  <2>2. i \in 1 .. Len(w) /\ place(w[i]) \in 1 .. Len(w)
    BY <1>4, <2>1
  <2> HIDE DEF place
  <2> QED
    BY <2>1, <2>2 DEF NoTwice
<1>6. \A c : c \in served <=> \E i \in 1 .. n : w[i] = c
  OBVIOUS
<1> HIDE DEF place, served
<1>7. CASE closed'
  <2>1. \A c \in Calls : answer(c) = "closed"
    BY <1>7
  <2>2. grant' = [c \in Calls |-> IF \E i \in 1 .. n : w[i] = c THEN "closed" ELSE gr[c]]
    BY <1>1, <1>6, <2>1
  <2>3. held' = [c \in Calls |-> hd[c]]
    BY <1>1, <2>1
  <2>4. n = Len(w) /\ waiters' = <<>>
    BY <1>1, <1>2, <1>7
  <2>5. \A c \in Calls : (\E i \in 1 .. n : w[i] = c) <=> In(w, c)
    BY <2>4 DEF In
  <2> HIDE DEF n
  <2> QED
    BY <1>1, <1>7, <2>2, <2>3, <2>4, <2>5 DEF Dismissed
<1>8. CASE ~closed'
  <2>1. /\ n = r0 + create /\ r = r0 /\ active' = act + (n - r)
        /\ idle' = SubSeq(idl, 1, Len(idl) - r)
    BY <1>1, <1>2, <1>3, <1>8 DEF Popped
  <2>2. /\ r < n => active' <= limit'
        /\ r > 0 => act <= limit'
        /\ n < Len(w) => (act <= limit' => r = Len(idl)) /\ active' >= limit'
    BY <1>2, <1>3, <2>1
  <2>3. ASSUME NEW c \in Calls
        PROVE  /\ (\E i \in 1 .. r : w[i] = c) => c \in served /\ answer(c) = "reuse"
               /\ ~(\E i \in 1 .. r : w[i] = c) /\ (\E i \in 1 .. n : w[i] = c) =>
                     c \in served /\ answer(c) = "create"
    <3>1. ASSUME NEW i \in 1 .. r, w[i] = c PROVE c \in served /\ answer(c) = "reuse"
      <4>1. i \in 1 .. n /\ i <= r0
        BY <1>2, <1>4, <2>1
      <4> QED
        BY <1>5, <1>8, <3>1, <4>1
    <3>2. ASSUME ~(\E i \in 1 .. r : w[i] = c), NEW i \in 1 .. n, w[i] = c
          PROVE  c \in served /\ answer(c) = "create"
      <4>1. ~(i <= r0)
        BY <1>2, <1>4, <2>1, <3>2
      <4> QED
        BY <1>5, <1>8, <3>2, <4>1
    <3> QED
      BY <3>1, <3>2
  <2>4. ASSUME NEW c \in Calls
        PROVE  grant'[c] = IF \E i \in 1 .. r : w[i] = c THEN "reuse"
                           ELSE IF \E i \in 1 .. n : w[i] = c THEN "create" ELSE gr[c]
    <3>1. grant'[c] = IF c \in served THEN answer(c) ELSE gr[c]
      BY <1>1
    <3> HIDE DEF answer
    <3> QED
      BY <1>4, <1>6, <2>3, <3>1
  <2>5. grant' = [c \in Calls |->
                    IF \E i \in 1 .. r : w[i] = c THEN "reuse"
                    ELSE IF \E i \in 1 .. n : w[i] = c THEN "create" ELSE gr[c]]
    <3>1. grant' = [c \in Calls |-> grant'[c]]
      BY <1>1
    <3> QED
      BY <2>4, <3>1
  <2>6. ASSUME NEW c \in Calls, ~(\E i \in 1 .. r : w[i] = c) PROVE held'[c] = hd[c]
    <3>1. ~(c \in served /\ answer(c) = "reuse")
      BY <1>6, <2>3, <2>6
    <3> HIDE DEF answer
    <3> QED
      BY <1>1, <3>1
  <2>7. held' = [c \in Calls |-> IF \E i \in 1 .. r : w[i] = c THEN held'[c] ELSE hd[c]]
    <3>1. held' = [c \in Calls |-> held'[c]]
      BY <1>1
    <3> QED
      BY <2>6, <3>1
  <2>8. ASSUME NEW i \in 1 .. r PROVE held'[w[i]] = idl[Len(idl) + 1 - i]
    <3>1. i \in 1 .. n
      BY <1>4
    <3>2. w[i] \in Calls /\ place(w[i]) = i
      BY <1>5, <3>1
    <3>3. w[i] \in served /\ answer(w[i]) = "reuse"
      BY <2>3, <3>2
    <3> HIDE DEF answer
    <3> QED
      BY <1>1, <3>2, <3>3
  <2> HIDE DEF n, r
  <2>9. r <= Len(idl)
    BY <1>2, <2>1
  <2>10. Dispatched(act, idl, w, gr, hd, r, n)
    BY <2>1, <2>2, <2>5, <2>7, <2>8 DEF Dispatched
  <2> QED
    BY <1>1, <1>2, <1>4, <1>8, <2>9, <2>10
<1> QED
  BY <1>7, <1>8

\* Calls that stand in a queue for the first time, at most once, are as many as their places.
LEMMA FirstPlaces ==
    ASSUME NEW w \in Seq(Calls), NoTwice(w), NEW n \in 0 .. Len(w)
    PROVE  /\ IsFiniteSet({w[i] : i \in 1 .. n})
           /\ Cardinality({w[i] : i \in 1 .. n}) = n
<1> DEFINE f == [i \in 1 .. n |-> w[i]]
           T == {w[i] : i \in 1 .. n}
<1>1. f \in [1 .. n -> T] /\ Len(w) \in Nat
  OBVIOUS
<1>2. ASSUME NEW i \in 1 .. n, NEW j \in 1 .. n, f[i] = f[j] PROVE i = j
  <2>1. i \in 1 .. Len(w) /\ j \in 1 .. Len(w) /\ w[i] = w[j]
    BY <1>1, <1>2
  <2> QED
    BY <2>1 DEF NoTwice
<1>3. \A t \in T : \E i \in 1 .. n : f[i] = t
  OBVIOUS
<1>4. f \in Bijection(1 .. n, T)
  <2> HIDE DEF f, T
  <2>1. f \in Injection(1 .. n, T)
    BY <1>1, <1>2, Fun_IsInj
  <2>2. f \in Surjection(1 .. n, T)
    BY <1>1, <1>3, Fun_IsSurj
  <2> QED
    BY <2>1, <2>2 DEF Bijection
<1>5. IsFiniteSet(1 .. n) /\ Cardinality(1 .. n) = n
  BY <1>1, FS_Interval
<1> HIDE DEF T
<1>6. ExistsBijection(1 .. n, T)
  BY <1>4 DEF ExistsBijection
<1> QED
  BY <1>5, <1>6, FS_Bijection DEF T

\* The size of two sets that share nothing.
LEMMA JoinSets ==
    ASSUME NEW S, NEW T, IsFiniteSet(S), IsFiniteSet(T), S \cap T = {}
    PROVE  /\ IsFiniteSet(S \union T)
           /\ Cardinality(S \union T) = Cardinality(S) + Cardinality(T)
<1>1. Cardinality(S \cap T) = 0 /\ Cardinality(S) \in Nat /\ Cardinality(T) \in Nat
  BY FS_EmptySet, FS_CardinalityType
<1>2. /\ IsFiniteSet(S \union T)
      /\ Cardinality(S \union T) = Cardinality(S) + Cardinality(T) - Cardinality(S \cap T)
  BY FS_Union
<1> QED
  BY <1>1, <1>2

\* A closed pool dismisses its waiters and keeps the rest.
LEMMA DismissedReady ==
    ASSUME NEW act, NEW idl, NEW w, NEW gr, NEW hd,
           Ready(limit', closed', act, idl, w, gr, hd, phase', proc'),
           closed', Dismissed(act, idl, w, gr, hd)
    PROVE  IInv'
<1> DEFINE ph == phase'
           pr == proc'
<1>t. Typed(act, idl, w, gr, hd, ph, pr) /\ idl = <<>>
  BY DEF Ready, Fits
<1>1. /\ waiters' = <<>> /\ idle' = idl /\ active' = act /\ held' = hd
      /\ grant' = [c \in Calls |-> IF In(w, c) THEN "closed" ELSE gr[c]]
  BY <1>t DEF Dismissed, Typed
<1>2. \A c \in Calls : In(w, c) <=> ph[c] = "waiting" /\ gr[c] = "none"
  BY DEF Ready, Queue
<1>3. Owners(grant', ph) = Owners(gr, ph)
  BY <1>1, <1>2 DEF Owners
<1>4. Typed(active', idle', waiters', grant', held', ph, pr)
  BY <1>t, <1>1 DEF Typed
<1>5. Slots(active', idle', grant', ph)
  BY <1>1, <1>3 DEF Ready, Slots
<1>6. Queue(waiters', grant', ph)
  <2>1. NoTwice(waiters') /\ \A c \in Calls : ~In(waiters', c)
    BY <1>1 DEF NoTwice, In
  <2>2. \A c \in Calls : gr[c] # "none" => ph[c] = "waiting"
    BY DEF Ready, Queue
  <2> QED
    BY <1>1, <1>2, <2>1, <2>2 DEF Queue
<1>7. Owned(idle', grant', held', ph)
  <2>1. \A c \in Calls : grant'[c] = "reuse" <=> gr[c] = "reuse"
    BY <1>1, <1>2
  <2> QED
    BY <1>1, <2>1 DEF Ready, Owned
<1>8. Living(idle', held', pr) /\ Fits(limit', closed', active', idle')
  BY <1>1 DEF Ready
<1>9. WorkConserving'
  BY <1>1 DEF WorkConserving
<1> QED
  BY <1>4, <1>5, <1>6, <1>7, <1>8, <1>9 DEF IInv, Ready

\* An open pool serves its waiters.
LEMMA DispatchedReady ==
    ASSUME NEW act, NEW idl, NEW w, NEW gr, NEW hd,
           Ready(limit', closed', act, idl, w, gr, hd, phase', proc'), ~closed',
           NEW n \in 0 .. Len(w), NEW r \in 0 .. n, r <= Len(idl),
           waiters' = SubSeq(w, n + 1, Len(w)), Dispatched(act, idl, w, gr, hd, r, n)
    PROVE  IInv'
<1> DEFINE ph == phase'
           pr == proc'
           got == {w[i] : i \in 1 .. n}
           given(c) == \E i \in 1 .. r : w[i] = c
<1>t. Typed(act, idl, w, gr, hd, ph, pr)
  BY DEF Ready
<1>n. /\ Len(w) \in Nat /\ Len(idl) \in Nat /\ act \in Nat /\ limit' \in Nat /\ limit' <= MaxLimit
      /\ n \in Nat /\ r \in Nat /\ r <= n /\ n <= Len(w) /\ act <= MaxLimit /\ MaxLimit \in Nat
      /\ idl # <<>> => act <= limit'
  BY <1>t, LimitAssumption DEF Ready, Typed, Fits
<1>g. /\ grant' = [c \in Calls |-> IF given(c) THEN "reuse" ELSE IF c \in got THEN "create" ELSE gr[c]]
      /\ held' = [c \in Calls |-> IF given(c) THEN held'[c] ELSE hd[c]]
      /\ \A i \in 1 .. r : held'[w[i]] = idl[Len(idl) + 1 - i]
  <2>1. \A c : c \in got <=> \E i \in 1 .. n : w[i] = c
    OBVIOUS
  <2> QED
    BY <2>1 DEF Dispatched
<1>c. \A c : given(c) => c \in got
  BY <1>n
<1>q. \A c \in got : c \in Calls /\ ph[c] = "waiting" /\ gr[c] = "none" /\ hd[c] = NoChild
  <2>1. \A c \in got : c \in Calls /\ In(w, c)
    BY <1>n, <1>t DEF In, Typed
  <2>2. \A c \in Calls : In(w, c) => ph[c] = "waiting" /\ gr[c] = "none"
    BY DEF Ready, Queue
  <2> QED
    BY <2>1, <2>2 DEF Ready, Owned
<1>i. /\ idle' \in Seq(Children) /\ Len(idle') = Len(idl) - r
      /\ \A i \in 1 .. Len(idl) - r : idle'[i] = idl[i]
  <2>1. idle' = SubSeq(idl, 1, Len(idl) - r) /\ idl \in Seq(Children)
    BY <1>t DEF Dispatched, Typed
  <2>2. 1 \in 1 .. Len(idl) + 1 /\ Len(idl) - r \in 0 .. Len(idl) /\ 1 <= Len(idl) - r + 1
    BY <1>n
  <2>3. /\ SubSeq(idl, 1, Len(idl) - r) \in Seq(Children)
        /\ Len(SubSeq(idl, 1, Len(idl) - r)) = Len(idl) - r + 1 - 1
        /\ \A i \in 1 .. Len(idl) - r + 1 - 1 : SubSeq(idl, 1, Len(idl) - r)[i] = idl[1 + i - 1]
    BY <2>1, <2>2, SubSeqIs
  <2> QED
    BY <1>n, <2>1, <2>3
<1>w. /\ waiters' \in Seq(Calls) /\ Len(waiters') = Len(w) - n
      /\ \A i \in 1 .. Len(w) - n : waiters'[i] = w[n + i]
  <2>1. w \in Seq(Calls) /\ n + 1 \in 1 .. Len(w) + 1 /\ Len(w) \in 0 .. Len(w) /\ n + 1 <= Len(w) + 1
    BY <1>n, <1>t DEF Typed
  <2>2. /\ SubSeq(w, n + 1, Len(w)) \in Seq(Calls)
        /\ Len(SubSeq(w, n + 1, Len(w))) = Len(w) + 1 - (n + 1)
        /\ \A i \in 1 .. Len(w) + 1 - (n + 1) : SubSeq(w, n + 1, Len(w))[i] = w[n + 1 + i - 1]
    BY <2>1, SubSeqIs
  <2>3. Len(w) + 1 - (n + 1) = Len(w) - n /\ \A i \in 1 .. Len(w) - n : n + 1 + i - 1 = n + i
    BY <1>n
  <2> QED
    BY <2>2, <2>3
<1>a. /\ active' = act + (n - r) /\ active' \in 0 .. MaxLimit
      /\ r < n => active' <= limit'
      /\ n < Len(w) => (act <= limit' => r = Len(idl)) /\ active' >= limit'
  <2>1. /\ active' = act + (n - r) /\ (r < n => active' <= limit')
        /\ n < Len(w) => (act <= limit' => r = Len(idl)) /\ active' >= limit'
    BY DEF Dispatched
  <2> QED
    BY <1>n, <2>1
\* A waiter given a child has the one at its place from the top of the stack.
<1>h. ASSUME NEW c \in Calls, given(c)
      PROVE  \E i \in 1 .. Len(idl) : i > Len(idl) - r /\ held'[c] = idl[i] /\ c = w[Len(idl) + 1 - i]
  <2>1. PICK i \in 1 .. r : w[i] = c
    BY <1>h
  <2>2. Len(idl) + 1 - i \in 1 .. Len(idl) /\ Len(idl) + 1 - i > Len(idl) - r
        /\ Len(idl) + 1 - (Len(idl) + 1 - i) = i
    BY <1>n, <2>1
  <2>3. held'[c] = idl[Len(idl) + 1 - i]
    BY <1>g, <2>1
  <2> QED
    BY <2>1, <2>2, <2>3
<1>k. \A i \in 1 .. Len(idl) : idl[i] \in Children
  BY <1>t DEF Typed
<1> HIDE DEF got, given
<1>1. Typed(active', idle', waiters', grant', held', ph, pr)
  <2>1. \A c \in Calls : held'[c] \in Children \union {NoChild}
    BY <1>g, <1>h, <1>k, <1>t DEF Typed
  <2>2. held' \in [Calls -> Children \union {NoChild}]
    <3>1. held' = [c \in Calls |-> held'[c]]
      BY <1>g
    <3> QED
      BY <2>1, <3>1
  <2>3. grant' \in [Calls -> {"none", "create", "reuse", "closed"}]
    BY <1>g, <1>t DEF Typed
  <2> QED
    BY <1>a, <1>i, <1>t, <1>w, <2>2, <2>3 DEF Typed
<1>2. Slots(active', idle', grant', ph)
  <2>1. Owners(grant', ph) = Owners(gr, ph) \union got
    <3>1. \A c \in Calls : c \notin got => grant'[c] = gr[c]
      BY <1>c, <1>g
    <3>2. \A c \in got : grant'[c] \in {"reuse", "create"} /\ c \in Calls /\ ph[c] = "waiting"
      BY <1>g, <1>q
    <3> QED
      BY <3>1, <3>2 DEF Owners
  <2>2. Owners(gr, ph) \cap got = {}
    BY <1>q DEF Owners
  <2>3. IsFiniteSet(got) /\ Cardinality(got) = n
    BY <1>t, FirstPlaces DEF Ready, Queue, Typed, got
  <2>4. IsFiniteSet(Owners(gr, ph)) /\ act = Len(idl) + Cardinality(Owners(gr, ph))
    BY DEF Ready, Slots
  <2>5. /\ IsFiniteSet(Owners(grant', ph))
        /\ Cardinality(Owners(grant', ph)) = Cardinality(Owners(gr, ph)) + n
    BY <2>1, <2>2, <2>3, <2>4, JoinSets
  <2>6. Cardinality(Owners(gr, ph)) \in Nat
    BY <2>4, FS_CardinalityType
  <2> QED
    BY <1>a, <1>i, <1>n, <2>4, <2>5, <2>6, SMTT(40) DEF Slots
<1>3. Queue(waiters', grant', ph)
  <2>0. NoTwice(w) /\ \A c \in Calls : (ph[c] = "waiting" /\ gr[c] = "none") <=> In(w, c)
    BY DEF Ready, Queue
  <2>1. NoTwice(waiters')
    <3>1. ASSUME NEW i \in 1 .. Len(w) - n, NEW j \in 1 .. Len(w) - n, waiters'[i] = waiters'[j]
          PROVE  i = j
      <4>1. w[n + i] = w[n + j] /\ n + i \in 1 .. Len(w) /\ n + j \in 1 .. Len(w)
        BY <1>n, <1>w, <3>1
      <4>2. n + i = n + j
        BY <2>0, <4>1 DEF NoTwice
      <4> QED
        BY <1>n, <4>2
    <3> QED
      BY <1>w, <3>1 DEF NoTwice
  <2>2. ASSUME NEW c \in Calls
        PROVE  In(waiters', c) <=> In(w, c) /\ c \notin got
    <3>1. ASSUME In(waiters', c) PROVE In(w, c) /\ c \notin got
      <4>1. PICK i \in 1 .. Len(w) - n : w[n + i] = c
        BY <1>w, <3>1 DEF In
      <4>2. n + i \in 1 .. Len(w) /\ \A j \in 1 .. n : j # n + i /\ j \in 1 .. Len(w)
        BY <1>n
      <4> QED
        BY <2>0, <4>1, <4>2 DEF In, NoTwice, got
    <3>2. ASSUME In(w, c), c \notin got PROVE In(waiters', c)
      <4>1. PICK i \in 1 .. Len(w) : w[i] = c
        BY <3>2 DEF In
      <4>2. ~(i \in 1 .. n)
        BY <3>2, <4>1 DEF got
      <4>3. i - n \in 1 .. Len(w) - n /\ n + (i - n) = i
        BY <1>n, <4>2
      <4>4. waiters'[i - n] = c
        BY <1>w, <4>1, <4>3
      <4> QED
        BY <1>w, <4>3, <4>4 DEF In
    <3> QED
      BY <3>1, <3>2
  <2>3. ASSUME NEW c \in Calls
        PROVE  /\ (ph[c] = "waiting" /\ grant'[c] = "none") <=> In(waiters', c)
               /\ grant'[c] # "none" => ph[c] = "waiting"
    <3>1. CASE c \in got
      <4>1. grant'[c] \in {"reuse", "create"} /\ ph[c] = "waiting"
        BY <1>g, <1>q, <3>1
      <4> QED
        BY <2>2, <3>1, <4>1
    <3>2. CASE c \notin got
      <4>1. grant'[c] = gr[c]
        BY <1>c, <1>g, <3>2
      <4>2. gr[c] # "none" => ph[c] = "waiting"
        BY DEF Ready, Queue
      <4> QED
        BY <2>0, <2>2, <3>2, <4>1, <4>2
    <3> QED
      BY <3>1, <3>2
  <2> QED
    BY <2>1, <2>3 DEF Queue
<1>o. Owned(idl, gr, hd, ph) /\ Living(idl, hd, pr)
  BY DEF Ready
<1>f. \A c \in Calls : ~given(c) => held'[c] = hd[c]
  BY <1>g
<1>4. Owned(idle', grant', held', ph)
  <2>1. ASSUME NEW c \in Calls
        PROVE  held'[c] # NoChild <=> ph[c] \in {"checking", "running"} \/ grant'[c] = "reuse"
    <3>1. CASE given(c)
      <4>1. grant'[c] = "reuse" /\ held'[c] \in Children
        BY <1>g, <1>h, <1>k, <3>1
      <4> QED
        BY <4>1, NoChildAssumption
    <3>2. CASE c \in got /\ ~given(c)
      <4>1. grant'[c] = "create" /\ held'[c] = NoChild /\ ph[c] = "waiting"
        BY <1>f, <1>g, <1>q, <3>2
      <4> QED
        BY <4>1
    <3>3. CASE c \notin got
      <4>1. grant'[c] = gr[c] /\ held'[c] = hd[c]
        BY <1>c, <1>f, <1>g, <3>3
      <4> QED
        BY <1>o, <4>1 DEF Owned
    <3> QED
      BY <3>1, <3>2, <3>3
  <2>2. NoTwice(idle')
    <3>1. \A i \in 1 .. Len(idl) - r : i \in 1 .. Len(idl)
      BY <1>n
    <3> QED
      BY <1>i, <1>o, <3>1 DEF NoTwice, Owned
  <2>3. ASSUME NEW c \in Calls, NEW d \in Calls, held'[c] = held'[d], held'[c] # NoChild
        PROVE  c = d
    <3>1. CASE given(c) /\ given(d)
      <4>1. PICK i \in 1 .. Len(idl) : held'[c] = idl[i] /\ c = w[Len(idl) + 1 - i]
        BY <1>h, <3>1
      <4>2. PICK j \in 1 .. Len(idl) : held'[d] = idl[j] /\ d = w[Len(idl) + 1 - j]
        BY <1>h, <3>1
      <4>3. i = j
        BY <1>o, <2>3, <4>1, <4>2 DEF Owned, NoTwice
      <4> QED
        BY <4>1, <4>2, <4>3
    <3>2. CASE given(c) /\ ~given(d)
      <4>1. In(idl, hd[d])
        BY <1>f, <1>h, <2>3, <3>2 DEF In
      <4> QED
        BY <1>o, <4>1 DEF Owned
    <3>3. CASE ~given(c) /\ given(d)
      <4>1. In(idl, hd[c])
        BY <1>f, <1>h, <2>3, <3>3 DEF In
      <4> QED
        BY <1>o, <4>1 DEF Owned
    <3>4. CASE ~given(c) /\ ~given(d)
      BY <1>f, <1>o, <2>3, <3>4 DEF Owned
    <3> QED
      BY <3>1, <3>2, <3>3, <3>4
  <2>4. ASSUME NEW c \in Calls, In(idle', held'[c]) PROVE FALSE
    <3>1. PICK j \in 1 .. Len(idl) - r : idl[j] = held'[c] /\ j \in 1 .. Len(idl)
      BY <1>i, <1>n, <2>4 DEF In
    <3>2. CASE given(c)
      <4>1. PICK i \in 1 .. Len(idl) : i > Len(idl) - r /\ held'[c] = idl[i]
        BY <1>h, <3>2
      <4>2. i = j
        BY <1>o, <3>1, <4>1 DEF Owned, NoTwice
      <4> QED
        BY <1>n, <3>1, <4>1, <4>2
    <3>3. CASE ~given(c)
      BY <1>f, <1>o, <3>1, <3>3 DEF Owned, In
    <3> QED
      BY <3>2, <3>3
  <2> QED
    BY <2>1, <2>2, <2>3, <2>4 DEF Owned
<1>5. Living(idle', held', pr)
  <2>1. ASSUME NEW k \in Children, pr[k] = "alive"
        PROVE  In(idle', k) \/ \E c \in Calls : held'[c] = k
    <3>1. CASE \E c \in Calls : hd[c] = k
      <4>1. PICK c \in Calls : hd[c] = k
        BY <3>1
      <4>2. hd[c] # NoChild
        BY <4>1, NoChildAssumption
      <4>3. ~given(c)
        BY <1>c, <1>q, <4>2
      <4> QED
        BY <1>f, <4>1, <4>3
    <3>2. CASE In(idl, k)
      <4>1. PICK i \in 1 .. Len(idl) : idl[i] = k
        BY <3>2 DEF In
      <4>2. CASE i <= Len(idl) - r
        <5>1. i \in 1 .. Len(idl) - r
          BY <1>n, <4>2
        <5> QED
          BY <1>i, <4>1, <5>1 DEF In
      <4>3. CASE ~(i <= Len(idl) - r)
        <5>1. Len(idl) + 1 - i \in 1 .. r /\ Len(idl) + 1 - (Len(idl) + 1 - i) = i
          BY <1>n, <4>3
        <5>2. held'[w[Len(idl) + 1 - i]] = k
          BY <1>g, <4>1, <5>1
        <5>3. w[Len(idl) + 1 - i] \in Calls
          <6>1. Len(idl) + 1 - i \in 1 .. n
            BY <1>n, <5>1
          <6>2. w[Len(idl) + 1 - i] \in got
            BY <6>1 DEF got
          <6> QED
            BY <1>q, <6>2
        <5> QED
          BY <5>2, <5>3
      <4> QED
        BY <4>2, <4>3
    <3> QED
      BY <1>o, <2>1, <3>1, <3>2 DEF Living
  <2>2. \A i \in 1 .. Len(idle') : pr[idle'[i]] # "unborn"
    <3>1. \A i \in 1 .. Len(idl) - r : i \in 1 .. Len(idl)
      BY <1>n
    <3> QED
      BY <1>i, <1>o, <3>1 DEF Living
  <2>3. \A c \in Calls : held'[c] # NoChild => pr[held'[c]] # "unborn"
    BY <1>f, <1>h, <1>o DEF Living
  <2> QED
    BY <2>1, <2>2, <2>3 DEF Living
<1>6. Fits(limit', closed', active', idle')
  <2>1. ASSUME idle' # <<>> PROVE active' <= limit'
    <3>1. idl # <<>> /\ r < Len(idl)
      BY <1>i, <1>n, <1>t, <2>1 DEF Typed
    <3> QED
      BY <1>a, <1>n, <3>1
  <2> QED
    BY <2>1 DEF Ready, Fits
<1>7. WorkConserving'
  <2>1. ASSUME waiters' # <<>> PROVE idle' = <<>> /\ active' >= limit'
    <3>1. n < Len(w)
      BY <1>n, <1>w, <2>1
    <3>2. r = Len(idl)
      <4>1. CASE act <= limit'
        BY <1>a, <3>1, <4>1
      <4>2. CASE ~(act <= limit')
        BY <1>n, <4>2
      <4> QED
        BY <4>1, <4>2
    <3>3. Len(idle') = 0
      BY <1>i, <1>n, <3>2
    <3> QED
      BY <1>a, <1>i, <3>1, <3>3
  <2> QED
    BY <2>1 DEF WorkConserving
<1> QED
  BY <1>1, <1>2, <1>3, <1>4, <1>5, <1>6, <1>7 DEF IInv, Ready

\* A dispatch takes no slot beyond the limit.
Moderate(act, gr) ==
    /\ \A d \in Calls : grant'[d] = "create" /\ gr[d] # "create" => active' <= limit'
    /\ act <= limit' => active' <= limit'

\* Who is served, or still ahead of a waiter, was ahead of it.
Orderly(w, gr) ==
    \A c \in Elements(waiters') : \A d \in Calls :
        Precedes(waiters', d, c) \/ (gr[d] = "none" /\ grant'[d] \in {"create", "reuse"})
           => Precedes(w, d, c)

\* Fields that are ready are well dispatched.
LEMMA DispatchReady ==
    ASSUME NEW act, NEW idl, NEW w, NEW gr, NEW hd,
           Ready(limit', closed', act, idl, w, gr, hd, phase', proc'),
           Dispatch(act, idl, w, gr, hd)
    PROVE  IInv' /\ Moderate(act, gr) /\ Orderly(w, gr)
<1>1. /\ act \in Nat /\ idl \in Seq(Children) /\ w \in Seq(Calls) /\ NoTwice(w)
      /\ limit' \in Nat /\ closed' \in BOOLEAN
  BY LimitAssumption DEF Ready, Typed, Queue, Fits
<1>2. CASE closed'
  <2>1. Dismissed(act, idl, w, gr, hd)
    BY <1>1, <1>2, DispatchDoes
  <2>2. Moderate(act, gr)
    BY <2>1 DEF Dismissed, Moderate
  <2>3. Orderly(w, gr)
    BY <2>1 DEF Dismissed, Orderly, Elements
  <2> QED
    BY <1>2, <2>1, <2>2, <2>3, DismissedReady
<1>3. CASE ~closed'
  <2>1. PICK n \in 0 .. Len(w) : \E r \in 0 .. n :
           /\ r <= Len(idl)
           /\ waiters' = SubSeq(w, n + 1, Len(w))
           /\ Dispatched(act, idl, w, gr, hd, r, n)
    BY <1>1, <1>3, DispatchDoes
  <2>2. PICK r \in 0 .. n :
           /\ r <= Len(idl)
           /\ waiters' = SubSeq(w, n + 1, Len(w))
           /\ Dispatched(act, idl, w, gr, hd, r, n)
    BY <2>1
  <2>3. n \in Nat /\ r \in Nat /\ r <= n
    BY <1>1, <2>2
  <2>4. r < n => active' <= limit'
    BY <2>2 DEF Dispatched
  <2>5. r = n => active' = act
    <3>1. active' = act + (n - r)
      BY <2>2 DEF Dispatched
    <3> QED
      BY <1>1, <2>3, <3>1
  <2>6. ASSUME NEW d \in Calls, grant'[d] = "create", gr[d] # "create" PROVE r < n
    <3>1. grant'[d] = IF \E i \in 1 .. r : w[i] = d THEN "reuse"
                      ELSE IF \E i \in 1 .. n : w[i] = d THEN "create" ELSE gr[d]
      BY <2>2 DEF Dispatched
    <3>2. (\E i \in 1 .. n : w[i] = d) /\ ~\E i \in 1 .. r : w[i] = d
      BY <2>6, <3>1
    <3>3. n # r
      BY <3>2
    <3> QED
      BY <2>3, <3>3
  <2>7. Moderate(act, gr)
    <3>1. act <= limit' => active' <= limit'
      BY <2>3, <2>4, <2>5
    <3> QED
      BY <2>4, <2>6, <3>1 DEF Moderate
  <2>8. /\ DOMAIN waiters' = 1 .. Len(w) - n /\ DOMAIN w = 1 .. Len(w) /\ Len(w) \in Nat
        /\ \A i \in 1 .. Len(w) - n : waiters'[i] = w[n + i]
    <3>1. n + 1 \in 1 .. Len(w) + 1 /\ Len(w) \in 0 .. Len(w) /\ n + 1 <= Len(w) + 1
      BY <1>1, <2>1
    <3>2. /\ SubSeq(w, n + 1, Len(w)) \in Seq(Calls)
          /\ Len(SubSeq(w, n + 1, Len(w))) = Len(w) + 1 - (n + 1)
          /\ \A i \in 1 .. Len(w) + 1 - (n + 1) : SubSeq(w, n + 1, Len(w))[i] = w[n + 1 + i - 1]
      BY <1>1, <3>1, SubSeqIs
    <3>3. /\ Len(w) + 1 - (n + 1) = Len(w) - n
          /\ \A i \in 1 .. Len(w) - n : n + 1 + i - 1 = n + i
      <4>1. n \in Nat /\ Len(w) \in Nat
        BY <1>1, <2>3
      <4> QED
        BY ONLY <4>1
    <3>4. ASSUME NEW i \in 1 .. Len(w) - n PROVE waiters'[i] = w[n + i]
      <4>1. SubSeq(w, n + 1, Len(w))[i] = w[n + 1 + i - 1]
        BY <3>2, <3>3
      <4> QED
        BY <2>2, <3>3, <4>1
    <3>5. DOMAIN waiters' = 1 .. Len(w) - n
      BY <2>2, <3>2, <3>3
    <3> QED
      BY <1>1, <3>4, <3>5
  <2>9. Orderly(w, gr)
    <3> SUFFICES ASSUME NEW c \in Elements(waiters'), NEW d \in Calls,
                        \/ Precedes(waiters', d, c)
                        \/ gr[d] = "none" /\ grant'[d] \in {"create", "reuse"}
                 PROVE  Precedes(w, d, c)
      BY DEF Orderly
    <3>1. CASE Precedes(waiters', d, c)
      <4>1. PICK i \in 1 .. Len(w) - n, j \in 1 .. Len(w) - n :
               i < j /\ waiters'[i] = d /\ waiters'[j] = c
        BY <2>8, <3>1 DEF Precedes
      <4>2. n + i \in 1 .. Len(w) /\ n + j \in 1 .. Len(w) /\ n + i < n + j
        BY <2>3, <2>8, <4>1
      <4> QED
        BY <2>8, <4>1, <4>2 DEF Precedes
    <3>2. CASE gr[d] = "none" /\ grant'[d] \in {"create", "reuse"}
      <4>1. grant'[d] = IF \E i \in 1 .. r : w[i] = d THEN "reuse"
                        ELSE IF \E i \in 1 .. n : w[i] = d THEN "create" ELSE gr[d]
        BY <2>2 DEF Dispatched
      <4>2. \A i \in 1 .. r : i \in 1 .. n
        BY <2>3
      <4>3. PICK i \in 1 .. n : w[i] = d
        BY <3>2, <4>1, <4>2
      <4>4. PICK j \in 1 .. Len(w) - n : waiters'[j] = c
        BY <2>8 DEF Elements
      <4>5. i \in 1 .. Len(w) /\ n + j \in 1 .. Len(w) /\ i < n + j
        BY <2>3, <2>8, <4>3, <4>4
      <4> QED
        BY <2>8, <4>3, <4>4, <4>5 DEF Precedes
    <3> QED
      BY <3>1, <3>2
  <2> QED
    BY <1>3, <2>2, <2>7, <2>9, DispatchedReady
<1> QED
  BY <1>2, <1>3

\* So a critical section that takes no slot beyond the limit for itself and puts nobody
\* ahead of a waiter keeps to the limit and to the order of the queue.
LEMMA StepsAreFair ==
    ASSUME NEW act, NEW w, NEW gr, Moderate(act, gr), Orderly(w, gr),
           \A d \in Calls : gr[d] \in {grant[d], "none"},
           \A d \in Calls : phase'[d] = "starting" => phase[d] = "starting" \/ act <= limit',
           \A c \in Elements(waiters) : \A d \in Calls :
               Precedes(w, d, c) => Precedes(waiters, d, c)
    PROVE  StartsStep /\ FifoStep
<1>1. StartsStep
  BY DEF Moderate, StartsStep, ToStart
<1>2. FifoStep
  BY DEF Orderly, FifoStep, Served
<1> QED
  BY <1>1, <1>2

-----------------------------------------------------------------------------
(* One call moves                                                          *)

One(b) == IF b THEN 1 ELSE 0

\* The slots of the other calls are those they were.
LEMMA SlotsOfOthers ==
    ASSUME NEW S, NEW T, IsFiniteSet(S), NEW c, \A d : d # c => (d \in S <=> d \in T)
    PROVE  /\ IsFiniteSet(T) /\ Cardinality(S) \in Nat /\ Cardinality(T) \in Nat
           /\ Cardinality(T) + One(c \in S) = Cardinality(S) + One(c \in T)
<1>0. Cardinality(S) \in Nat
  BY FS_CardinalityType
<1>1. CASE c \in S <=> c \in T
  <2>1. S = T
    BY <1>1
  <2> QED
    BY <1>0, <2>1
<1>2. CASE c \in S /\ c \notin T
  <2>1. T = S \ {c}
    BY <1>2
  <2>2. IsFiniteSet(T) /\ Cardinality(T) = Cardinality(S) - 1
    BY <1>2, <2>1, FS_RemoveElement
  <2>3. Cardinality(T) \in Nat
    BY <2>2, FS_CardinalityType
  <2> QED
    BY <1>0, <1>2, <2>2, <2>3 DEF One
<1>3. CASE c \notin S /\ c \in T
  <2>1. T = S \union {c}
    BY <1>3
  <2>2. IsFiniteSet(T) /\ Cardinality(T) = Cardinality(S) + 1
    BY <1>3, <2>1, FS_AddElement
  <2> QED
    BY <1>0, <1>3, <2>2 DEF One
<1> QED
  BY <1>1, <1>2, <1>3

\* What the step of one call has to see to for the fields to be ready: its own slot,
\* its own place in the queue, its own child.
OneMoves(c, act, idl, w, gr, hd) ==
    /\ Typed(act, idl, w, gr, hd, phase', proc')
    /\ UNCHANGED <<limit, closed>>
    /\ \A d \in Calls \ {c} : phase'[d] = phase[d] /\ gr[d] = grant[d] /\ hd[d] = held[d]
    /\ act + Len(idle) + One(c \in Owners(grant, phase))
         = active + Len(idl) + One(c \in Owners(gr, phase'))
    /\ NoTwice(w) /\ \A d \in Calls \ {c} : In(w, d) <=> In(waiters, d)
    /\ (phase'[c] = "waiting" /\ gr[c] = "none") <=> In(w, c)
    /\ gr[c] # "none" => phase'[c] = "waiting"
    /\ hd[c] # NoChild <=> phase'[c] \in {"checking", "running"} \/ gr[c] = "reuse"
    /\ \/ idl = idle
       \/ idl = Append(idle, held[c]) /\ held[c] # NoChild /\ hd[c] = NoChild /\ proc' = proc
    /\ \/ hd[c] \in {held[c], NoChild}
       \/ ~In(idle, hd[c]) /\ idl = idle /\ \A d \in Calls : held[d] # hd[c]
    /\ \A k \in Children :
          /\ proc'[k] = "alive" => k = hd[c] \/ In(idl, k) \/ (proc[k] = "alive" /\ k # held[c])
          /\ proc[k] # "unborn" => proc'[k] # "unborn"
    /\ hd[c] # NoChild => proc'[hd[c]] # "unborn"
    /\ idl # <<>> => act <= limit /\ ~closed

\* A step of one call that leaves the queue's order alone keeps the invariant.
LEMMA OneMovesReady ==
    ASSUME IInv, NEW c \in Calls, NEW act, NEW idl, NEW w, NEW gr, NEW hd,
           OneMoves(c, act, idl, w, gr, hd)
    PROVE  Ready(limit', closed', act, idl, w, gr, hd, phase', proc')
<1>r. /\ Typed(active, idle, waiters, grant, held, phase, proc)
      /\ Slots(active, idle, grant, phase)
      /\ Queue(waiters, grant, phase)
      /\ Owned(idle, grant, held, phase)
      /\ Living(idle, held, proc)
      /\ Fits(limit, closed, active, idle)
  BY DEF IInv, Ready
<1>t. Typed(act, idl, w, gr, hd, phase', proc') /\ UNCHANGED <<limit, closed>>
  BY DEF OneMoves
<1>d. \A d \in Calls : d # c => phase'[d] = phase[d] /\ gr[d] = grant[d] /\ hd[d] = held[d]
  BY DEF OneMoves
<1>1. Slots(act, idl, gr, phase')
  <2>1. \A d : d # c => (d \in Owners(grant, phase) <=> d \in Owners(gr, phase'))
    BY <1>d DEF Owners
  <2>2. IsFiniteSet(Owners(grant, phase)) /\ active = Len(idle) + Cardinality(Owners(grant, phase))
    BY <1>r DEF Slots
  <2>3. /\ IsFiniteSet(Owners(gr, phase'))
        /\ Cardinality(Owners(grant, phase)) \in Nat /\ Cardinality(Owners(gr, phase')) \in Nat
        /\ Cardinality(Owners(gr, phase')) + One(c \in Owners(grant, phase))
             = Cardinality(Owners(grant, phase)) + One(c \in Owners(gr, phase'))
    BY <2>1, <2>2, SlotsOfOthers
  <2>4. act + Len(idle) + One(c \in Owners(grant, phase))
          = active + Len(idl) + One(c \in Owners(gr, phase'))
    BY DEF OneMoves
  <2>5. /\ Len(idle) \in Nat /\ Len(idl) \in Nat /\ act \in Nat /\ active \in Nat
        /\ One(c \in Owners(grant, phase)) \in Nat /\ One(c \in Owners(gr, phase')) \in Nat
    BY <1>r, <1>t, LimitAssumption DEF Typed, One
  <2>6. \A a, b, l, m, x, y, s, t \in Nat :
           a = l + x /\ y + s = x + t /\ b + l + s = a + m + t => b = m + y
    OBVIOUS
  <2>7. act = Len(idl) + Cardinality(Owners(gr, phase'))
    <3> DEFINE s == One(c \in Owners(grant, phase))
               t == One(c \in Owners(gr, phase'))
               x == Cardinality(Owners(grant, phase))
               y == Cardinality(Owners(gr, phase'))
               l == Len(idle)
               m == Len(idl)
    <3>1. /\ s \in Nat /\ t \in Nat /\ x \in Nat /\ y \in Nat /\ l \in Nat /\ m \in Nat
          /\ act \in Nat /\ active \in Nat
          /\ active = l + x /\ y + s = x + t /\ act + l + s = active + m + t
      BY <2>2, <2>3, <2>4, <2>5
    <3>2. act = m + y
      <4> HIDE DEF s, t, x, y, l, m
      <4> QED
        BY ONLY <2>6, <3>1
    <3> QED
      BY <3>2
  <2> QED
    BY <2>3, <2>7 DEF Slots
<1>2. Queue(w, gr, phase')
  <2>1. \A d \in Calls : d # c => (In(w, d) <=> In(waiters, d))
    BY DEF OneMoves
  <2>2. /\ NoTwice(w)
        /\ (phase'[c] = "waiting" /\ gr[c] = "none") <=> In(w, c)
        /\ gr[c] # "none" => phase'[c] = "waiting"
    BY DEF OneMoves
  <2> QED
    BY <1>d, <1>r, <2>1, <2>2 DEF Queue
<1>h. \/ hd[c] \in {held[c], NoChild}
      \/ ~In(idle, hd[c]) /\ idl = idle /\ \A d \in Calls : held[d] # hd[c]
  BY DEF OneMoves
<1>i. /\ Len(idle) \in Nat /\ idle \in Seq(Children)
      /\ held \in [Calls -> Children \union {NoChild}]
  BY <1>r DEF Typed
<1>a. ASSUME idl # idle
      PROVE  /\ held[c] # NoChild /\ hd[c] = NoChild /\ proc' = proc
             /\ Len(idl) = Len(idle) + 1 /\ idl[Len(idle) + 1] = held[c]
             /\ \A i \in 1 .. Len(idle) : idl[i] = idle[i]
  <2>1. idl = Append(idle, held[c]) /\ held[c] # NoChild /\ hd[c] = NoChild /\ proc' = proc
    BY <1>a DEF OneMoves
  <2> QED
    BY <1>i, <2>1
<1>m. \A k : In(idl, k) <=> In(idle, k) \/ (idl # idle /\ k = held[c])
  <2>1. CASE idl = idle
    BY <2>1
  <2>2. CASE idl # idle
    BY <1>a, <1>i, <2>2 DEF In
  <2> QED
    BY <2>1, <2>2
<1>3. Owned(idl, gr, hd, phase')
  <2>1. hd[c] # NoChild <=> phase'[c] \in {"checking", "running"} \/ gr[c] = "reuse"
    BY DEF OneMoves
  <2>2. \A d \in Calls : hd[d] # NoChild <=> phase'[d] \in {"checking", "running"} \/ gr[d] = "reuse"
    BY <1>d, <1>r, <2>1 DEF Owned
  <2>3. NoTwice(idl)
    <3>1. CASE idl = idle
      BY <1>r, <3>1 DEF Owned
    <3>2. CASE idl # idle
      <4>1. \A i \in 1 .. Len(idle) : idl[i] # held[c]
        BY <1>a, <1>r, <3>2 DEF Owned, In
      <4>2. \A i \in 1 .. Len(idl) : i \in 1 .. Len(idle) \/ i = Len(idle) + 1
        BY <1>a, <1>i, <3>2
      <4> QED
        BY <1>a, <1>i, <1>r, <3>2, <4>1, <4>2 DEF Owned, NoTwice
    <3> QED
      BY <3>1, <3>2
  <2>4. \A d, e \in Calls : hd[d] = hd[e] /\ hd[d] # NoChild => d = e
    BY <1>d, <1>h, <1>r DEF Owned
  <2>5. \A d \in Calls : ~In(idl, hd[d])
    <3>1. \A d \in Calls : ~In(idle, held[d]) /\ ~In(idle, NoChild)
      BY <1>i, <1>r, NoChildAssumption DEF Owned, In
    <3>2. ASSUME NEW d \in Calls, idl # idle PROVE hd[d] # held[c]
      BY <1>a, <1>d, <1>r, <3>2 DEF Owned
    <3> QED
      BY <1>d, <1>h, <1>m, <3>1, <3>2
  <2> QED
    BY <2>2, <2>3, <2>4, <2>5 DEF Owned
<1>4. Living(idl, hd, proc')
  <2>p. /\ \A k \in Children : proc'[k] = "alive" =>
               k = hd[c] \/ In(idl, k) \/ (proc[k] = "alive" /\ k # held[c])
        /\ \A k \in Children : proc[k] # "unborn" => proc'[k] # "unborn"
        /\ hd[c] # NoChild => proc'[hd[c]] # "unborn"
    BY DEF OneMoves
  <2>1. ASSUME NEW k \in Children, proc'[k] = "alive"
        PROVE  In(idl, k) \/ \E d \in Calls : hd[d] = k
    <3>1. CASE k = hd[c]
      BY <3>1
    <3>2. CASE In(idl, k)
      BY <3>2
    <3>3. CASE proc[k] = "alive" /\ k # held[c]
      <4>1. In(idle, k) \/ \E d \in Calls : held[d] = k
        BY <1>r, <3>3 DEF Living
      <4> QED
        BY <1>d, <1>m, <3>3, <4>1
    <3> QED
      BY <2>1, <2>p, <3>1, <3>2, <3>3
  <2>2. \A i \in 1 .. Len(idle) : idle[i] \in Children /\ proc'[idle[i]] # "unborn"
    BY <1>i, <1>r, <2>p DEF Living
  <2>3. \A d \in Calls : held[d] # NoChild => held[d] \in Children /\ proc'[held[d]] # "unborn"
    BY <1>i, <1>r, <2>p DEF Living
  <2>4. \A i \in 1 .. Len(idl) : proc'[idl[i]] # "unborn"
    <3>1. CASE idl = idle
      BY <2>2, <3>1
    <3>2. CASE idl # idle
      <4>1. \A i \in 1 .. Len(idl) : i \in 1 .. Len(idle) \/ i = Len(idle) + 1
        BY <1>a, <1>i, <3>2
      <4> QED
        BY <1>a, <2>2, <2>3, <3>2, <4>1
    <3> QED
      BY <3>1, <3>2
  <2>5. \A d \in Calls : hd[d] # NoChild => proc'[hd[d]] # "unborn"
    BY <1>d, <2>3, <2>p
  <2> QED
    BY <2>1, <2>4, <2>5 DEF Living
<1>5. Fits(limit', closed', act, idl)
  <2>1. idl # <<>> => act <= limit /\ ~closed
    BY DEF OneMoves
  <2> QED
    BY <1>r, <1>t, <2>1 DEF Fits
<1> QED
  BY <1>t, <1>1, <1>2, <1>3, <1>4, <1>5 DEF Ready

\* A call that holds a slot is counted.
LEMMA OwnersCount ==
    ASSUME IInv, NEW c \in Calls, c \in Owners(grant, phase)
    PROVE  active >= Len(idle) + 1
<1>1. IsFiniteSet(Owners(grant, phase)) /\ active = Len(idle) + Cardinality(Owners(grant, phase))
  BY DEF IInv, Ready, Slots
<1>2. Cardinality(Owners(grant, phase)) \in Nat /\ Cardinality(Owners(grant, phase)) # 0
  BY <1>1, FS_CardinalityType, FS_EmptySet
<1>3. Len(idle) \in Nat
  BY DEF IInv, Ready, Typed
<1> QED
  BY <1>1, <1>2, <1>3

-----------------------------------------------------------------------------
(* The steps of a call                                                     *)

\* What the invariant says of one call.
LEMMA CallFacts ==
    ASSUME IInv, NEW c \in Calls
    PROVE  /\ Typed(active, idle, waiters, grant, held, phase, proc)
           /\ Len(idle) \in Nat /\ active \in Nat
           /\ limit \in Nat /\ limit <= MaxLimit /\ closed \in BOOLEAN
           /\ NoTwice(waiters) /\ (phase[c] = "waiting" /\ grant[c] = "none" <=> In(waiters, c))
           /\ grant[c] # "none" => phase[c] = "waiting"
           /\ held[c] # NoChild <=> phase[c] \in {"checking", "running"} \/ grant[c] = "reuse"
           /\ held[c] # NoChild => held[c] \in Children /\ proc[held[c]] # "unborn"
           /\ idle # <<>> => active <= limit /\ ~closed
           /\ NoChild \notin Children
<1>1. /\ Typed(active, idle, waiters, grant, held, phase, proc)
      /\ Queue(waiters, grant, phase) /\ Owned(idle, grant, held, phase)
      /\ Living(idle, held, proc) /\ Fits(limit, closed, active, idle)
  BY DEF IInv, Ready
<1>2. Len(idle) \in Nat /\ active \in Nat /\ limit \in Nat /\ limit <= MaxLimit /\ closed \in BOOLEAN
  BY <1>1, LimitAssumption DEF Typed, Fits
<1>3. held[c] # NoChild => held[c] \in Children
  BY <1>1 DEF Typed
<1>4. idle # <<>> => active <= limit /\ ~closed
  BY <1>1 DEF Fits
<1>5. held[c] # NoChild => proc[held[c]] # "unborn"
  BY <1>1 DEF Living
<1>6. held[c] # NoChild <=> phase[c] \in {"checking", "running"} \/ grant[c] = "reuse"
  BY <1>1 DEF Owned
<1>7. /\ NoTwice(waiters) /\ (phase[c] = "waiting" /\ grant[c] = "none" <=> In(waiters, c))
      /\ grant[c] # "none" => phase[c] = "waiting"
  BY <1>1 DEF Queue
<1> QED
  BY <1>1, <1>2, <1>3, <1>4, <1>5, <1>6, <1>7, NoChildAssumption

\* Where dispatchLocked is not run, the counters have not moved.
LEMMA NothingDispatched ==
    ASSUME IInv, NEW c \in Calls, UNCHANGED <<active, idle, waiters>>,
           ToStart(c)' => ToStart(c), ~Served(c),
           OneMoves(c, active, idle, waiters, grant', held')
    PROVE  IInv' /\ StartsStep /\ FifoStep
<1>1. UNCHANGED <<limit, closed>>
  BY DEF OneMoves
<1>2. Ready(limit', closed', active, idle, waiters, grant', held', phase', proc')
  BY OneMovesReady
<1>3. WorkConserving'
  BY <1>1 DEF IInv, WorkConserving
<1>4. \A d \in Calls : ToStart(d)' => ToStart(d)
  BY DEF OneMoves, ToStart
<1>5. \A d \in Calls : ~Served(d)
  BY DEF OneMoves, Served
<1> QED
  BY <1>2, <1>3, <1>4, <1>5 DEF IInv, StartsStep, FifoStep

\* AcquireWithStart puts the call at the end of the queue.
LEMMA EnqueueKeeps ==
    ASSUME IInv, NEW c \in Calls, Enqueue(c)
    PROVE  IInv' /\ StartsStep /\ FifoStep
<1> DEFINE w == Append(waiters, c)
<1>a. /\ phase[c] \in {"new", "again"} /\ UNCHANGED <<limit, closed, proc>>
      /\ phase' = [phase EXCEPT ![c] = "waiting"]
      /\ Dispatch(active, idle, w, grant, held)
  BY DEF Enqueue, KeepPool, MoveTo
<1>f. /\ grant[c] = "none" /\ held[c] = NoChild /\ ~In(waiters, c) /\ NoTwice(waiters)
      /\ idle # <<>> => active <= limit /\ ~closed
      /\ Typed(active, idle, waiters, grant, held, phase, proc) /\ NoChild \notin Children
  BY <1>a, CallFacts
<1>t. /\ phase' \in [Calls -> Phases] /\ phase'[c] = "waiting"
      /\ \A d \in Calls : d # c => phase'[d] = phase[d]
  BY <1>a, <1>f DEF Typed, Phases
<1>w. /\ w \in Seq(Calls) /\ Len(w) = Len(waiters) + 1 /\ w[Len(waiters) + 1] = c
      /\ Len(waiters) \in Nat /\ \A i \in 1 .. Len(waiters) : w[i] = waiters[i]
  BY <1>f DEF Typed
<1> HIDE DEF w
<1>1. Typed(active, idle, w, grant, held, phase', proc')
  BY <1>a, <1>f, <1>t, <1>w DEF Typed
<1>2. c \notin Owners(grant, phase) /\ c \notin Owners(grant, phase')
  BY <1>a, <1>f, <1>t DEF Owners
<1>i. \A i \in 1 .. Len(w) : i \in 1 .. Len(waiters) \/ i = Len(waiters) + 1
  BY <1>w
<1>3. NoTwice(w)
  BY <1>f, <1>i, <1>w DEF NoTwice, In
<1>4. In(w, c) /\ \A d \in Calls \ {c} : In(w, d) <=> In(waiters, d)
  <2>1. Len(waiters) + 1 \in 1 .. Len(w) /\ \A i \in 1 .. Len(waiters) : i \in 1 .. Len(w)
    BY <1>w
  <2> QED
    BY <1>i, <1>w, <2>1 DEF In
<1>5. OneMoves(c, active, idle, w, grant, held)
  BY <1>a, <1>f, <1>t, <1>1, <1>2, <1>3, <1>4 DEF OneMoves, Typed
<1>m. IInv' /\ Moderate(active, grant) /\ Orderly(w, grant)
  BY <1>5, <1>a, OneMovesReady, DispatchReady
<1>o. \A e \in Elements(waiters) : \A d \in Calls : Precedes(w, d, e) => Precedes(waiters, d, e)
  <2>1. DOMAIN w = 1 .. Len(w) /\ DOMAIN waiters = 1 .. Len(waiters)
    BY <1>f, <1>w DEF Typed
  <2>2. ASSUME NEW e \in Elements(waiters), NEW d \in Calls, Precedes(w, d, e)
        PROVE  Precedes(waiters, d, e)
    <3>1. e # c
      BY <1>f, <2>1 DEF Elements, In
    <3>2. PICK i \in 1 .. Len(w), j \in 1 .. Len(w) : i < j /\ w[i] = d /\ w[j] = e
      BY <2>1, <2>2 DEF Precedes
    <3>3. i \in 1 .. Len(waiters) /\ j \in 1 .. Len(waiters)
      BY <1>i, <1>w, <3>1, <3>2
    <3> QED
      BY <1>w, <2>1, <3>2, <3>3 DEF Precedes
  <2> QED
    BY <2>2
<1>s. \A d \in Calls : phase'[d] = "starting" => phase[d] = "starting" \/ active <= limit'
  BY <1>t
<1> QED
  BY <1>m, <1>o, <1>s, StepsAreFair

\* A closed pool refuses the call.
LEMMA EnqueueClosedKeeps ==
    ASSUME IInv, NEW c \in Calls, EnqueueClosed(c)
    PROVE  IInv' /\ StartsStep /\ FifoStep
<1>a. /\ phase[c] \in {"new", "again"} /\ phase' = [phase EXCEPT ![c] = "failed"]
      /\ UNCHANGED <<limit, active, closed, idle, waiters, grant, held, proc>>
  BY DEF EnqueueClosed, MoveTo
<1>f. /\ grant[c] = "none" /\ held[c] = NoChild /\ ~In(waiters, c) /\ NoTwice(waiters)
      /\ idle # <<>> => active <= limit /\ ~closed
      /\ Typed(active, idle, waiters, grant, held, phase, proc) /\ NoChild \notin Children
  BY <1>a, CallFacts
<1>t. /\ phase' \in [Calls -> Phases] /\ phase'[c] = "failed"
      /\ \A d \in Calls : d # c => phase'[d] = phase[d]
  BY <1>a, <1>f DEF Typed, Phases
<1>1. Typed(active, idle, waiters, grant', held', phase', proc')
  BY <1>a, <1>f, <1>t DEF Typed
<1>2. c \notin Owners(grant, phase) /\ c \notin Owners(grant', phase')
  BY <1>a, <1>f, <1>t DEF Owners
<1>3. OneMoves(c, active, idle, waiters, grant', held')
  BY <1>a, <1>f, <1>t, <1>1, <1>2 DEF OneMoves, Typed
<1>s. (ToStart(c)' => ToStart(c)) /\ ~Served(c)
  BY <1>a, <1>t DEF ToStart, Served
<1> QED
  BY <1>3, <1>a, <1>s, NothingDispatched

\* The select takes the answer out of the channel.
LEMMA AcceptKeeps ==
    ASSUME IInv, NEW c \in Calls, Accept(c)
    PROVE  IInv' /\ StartsStep /\ FifoStep
<1>a. /\ phase[c] = "waiting" /\ grant[c] # "none" /\ grant' = [grant EXCEPT ![c] = "none"]
      /\ UNCHANGED <<limit, active, closed, idle, waiters, held, proc>>
      /\ phase' = [phase EXCEPT ![c] = CASE grant[c] = "closed" -> "failed"
                                         [] grant[c] = "reuse"  -> "checking"
                                         [] grant[c] = "create" -> "starting"]
  BY DEF Accept, MoveTo
<1>f. /\ ~In(waiters, c) /\ NoTwice(waiters)
      /\ idle # <<>> => active <= limit /\ ~closed
      /\ held[c] # NoChild <=> grant[c] = "reuse"
      /\ held[c] # NoChild => held[c] \in Children /\ proc[held[c]] # "unborn"
      /\ Typed(active, idle, waiters, grant, held, phase, proc) /\ NoChild \notin Children
  BY <1>a, CallFacts
<1>g. grant[c] \in {"create", "reuse", "closed"}
  BY <1>a, <1>f DEF Typed
<1>t. /\ phase' \in [Calls -> Phases]
      /\ grant[c] = "closed" => phase'[c] = "failed"
      /\ grant[c] = "reuse" => phase'[c] = "checking"
      /\ grant[c] = "create" => phase'[c] = "starting"
      /\ \A d \in Calls : d # c => phase'[d] = phase[d]
  BY <1>a, <1>f, <1>g DEF Typed, Phases
<1>u. /\ grant' \in [Calls -> {"none", "create", "reuse", "closed"}] /\ grant'[c] = "none"
      /\ \A d \in Calls : d # c => grant'[d] = grant[d]
  BY <1>a, <1>f DEF Typed
<1>1. Typed(active, idle, waiters, grant', held', phase', proc')
  BY <1>a, <1>f, <1>t, <1>u DEF Typed
<1>2. c \in Owners(grant, phase) <=> c \in Owners(grant', phase')
  BY <1>a, <1>g, <1>t, <1>u DEF Owners
<1>3. OneMoves(c, active, idle, waiters, grant', held')
  <2>1. One(c \in Owners(grant, phase)) = One(c \in Owners(grant', phase'))
    BY <1>2
  <2>2. active + Len(idle) + One(c \in Owners(grant, phase))
          = active + Len(idle) + One(c \in Owners(grant', phase'))
    BY <2>1
  <2>3. (phase'[c] = "waiting" /\ grant'[c] = "none") <=> In(waiters, c)
    BY <1>f, <1>g, <1>t
  <2>4. held'[c] # NoChild <=> phase'[c] \in {"checking", "running"} \/ grant'[c] = "reuse"
    BY <1>a, <1>f, <1>g, <1>t, <1>u
  <2> QED
    BY <1>a, <1>f, <1>t, <1>u, <1>1, <2>2, <2>3, <2>4 DEF OneMoves, Typed
<1>s. (ToStart(c)' => ToStart(c)) /\ ~Served(c)
  BY <1>a, <1>g, <1>t, <1>u DEF ToStart, Served
<1> QED
  BY <1>3, <1>a, <1>s, NothingDispatched

\* A child that answers the ping goes to its call.
LEMMA PingAnsweredKeeps ==
    ASSUME IInv, NEW c \in Calls, PingAnswered(c)
    PROVE  IInv' /\ StartsStep /\ FifoStep
<1>a. /\ phase[c] = "checking" /\ phase' = [phase EXCEPT ![c] = "running"]
      /\ UNCHANGED <<limit, active, closed, idle, waiters, grant, held, proc>>
  BY DEF PingAnswered, MoveTo
<1>f. /\ grant[c] = "none" /\ held[c] # NoChild /\ ~In(waiters, c) /\ NoTwice(waiters)
      /\ idle # <<>> => active <= limit /\ ~closed
      /\ held[c] \in Children /\ proc[held[c]] # "unborn"
      /\ Typed(active, idle, waiters, grant, held, phase, proc) /\ NoChild \notin Children
  BY <1>a, CallFacts
<1>t. /\ phase' \in [Calls -> Phases] /\ phase'[c] = "running"
      /\ \A d \in Calls : d # c => phase'[d] = phase[d]
  BY <1>a, <1>f DEF Typed, Phases
<1>1. Typed(active, idle, waiters, grant', held', phase', proc')
  BY <1>a, <1>f, <1>t DEF Typed
<1>2. c \in Owners(grant, phase) /\ c \in Owners(grant', phase')
  BY <1>a, <1>t DEF Owners
<1>3. OneMoves(c, active, idle, waiters, grant', held')
  BY <1>a, <1>f, <1>t, <1>1, <1>2 DEF OneMoves, Typed
<1>s. (ToStart(c)' => ToStart(c)) /\ ~Served(c)
  BY <1>a, <1>t DEF ToStart, Served
<1> QED
  BY <1>3, <1>a, <1>s, NothingDispatched

\* A child that does not is closed before the lock is taken again.
LEMMA PingFailedKeeps ==
    ASSUME IInv, NEW c \in Calls, PingFailed(c)
    PROVE  IInv' /\ StartsStep /\ FifoStep
<1>a. /\ phase[c] = "checking" /\ phase' = [phase EXCEPT ![c] = "unhealthy"]
      /\ proc' = [proc EXCEPT ![held[c]] = "closed"] /\ held' = [held EXCEPT ![c] = NoChild]
      /\ UNCHANGED <<limit, active, closed, idle, waiters, grant>>
  BY DEF PingFailed, MoveTo
<1>f. /\ grant[c] = "none" /\ held[c] # NoChild /\ ~In(waiters, c) /\ NoTwice(waiters)
      /\ idle # <<>> => active <= limit /\ ~closed
      /\ held[c] \in Children
      /\ Typed(active, idle, waiters, grant, held, phase, proc) /\ NoChild \notin Children
  BY <1>a, CallFacts
<1>t. /\ phase' \in [Calls -> Phases] /\ phase'[c] = "unhealthy"
      /\ \A d \in Calls : d # c => phase'[d] = phase[d]
  BY <1>a, <1>f DEF Typed, Phases
<1>u. /\ held' \in [Calls -> Children \union {NoChild}] /\ held'[c] = NoChild
      /\ \A d \in Calls : d # c => held'[d] = held[d]
  BY <1>a, <1>f DEF Typed
<1>p. /\ proc' \in [Children -> {"unborn", "alive", "dead", "closed"}]
      /\ proc'[held[c]] = "closed"
      /\ \A k \in Children : k # held[c] => proc'[k] = proc[k]
  BY <1>a, <1>f DEF Typed
<1>1. Typed(active, idle, waiters, grant', held', phase', proc')
  BY <1>a, <1>f, <1>t, <1>u, <1>p DEF Typed
<1>2. c \in Owners(grant, phase) /\ c \in Owners(grant', phase')
  BY <1>a, <1>t DEF Owners
<1>4. \A k \in Children :
          /\ proc'[k] = "alive" => k = held'[c] \/ In(idle, k) \/ (proc[k] = "alive" /\ k # held[c])
          /\ proc[k] # "unborn" => proc'[k] # "unborn"
  BY <1>p
<1>3. OneMoves(c, active, idle, waiters, grant', held')
  BY <1>a, <1>f, <1>t, <1>u, <1>1, <1>2, <1>4 DEF OneMoves, Typed
<1>s. (ToStart(c)' => ToStart(c)) /\ ~Served(c)
  BY <1>a, <1>t DEF ToStart, Served
<1> QED
  BY <1>3, <1>a, <1>s, NothingDispatched

\* The factory's process is new to the pool.
LEMMA FactoryStartedKeeps ==
    ASSUME IInv, NEW c \in Calls, NEW k \in Children, FactoryStarted(c, k)
    PROVE  IInv' /\ StartsStep /\ FifoStep
<1>a. /\ phase[c] = "starting" /\ phase' = [phase EXCEPT ![c] = "running"] /\ proc[k] = "unborn"
      /\ proc' = [proc EXCEPT ![k] = "alive"] /\ held' = [held EXCEPT ![c] = k]
      /\ UNCHANGED <<limit, active, closed, idle, waiters, grant>>
  BY DEF FactoryStarted, MoveTo
<1>f. /\ grant[c] = "none" /\ held[c] = NoChild /\ ~In(waiters, c) /\ NoTwice(waiters)
      /\ idle # <<>> => active <= limit /\ ~closed
      /\ Typed(active, idle, waiters, grant, held, phase, proc) /\ NoChild \notin Children
  BY <1>a, CallFacts
<1>t. /\ phase' \in [Calls -> Phases] /\ phase'[c] = "running"
      /\ \A d \in Calls : d # c => phase'[d] = phase[d]
  BY <1>a, <1>f DEF Typed, Phases
<1>u. /\ held' \in [Calls -> Children \union {NoChild}] /\ held'[c] = k
      /\ \A d \in Calls : d # c => held'[d] = held[d]
  BY <1>a, <1>f DEF Typed
<1>p. /\ proc' \in [Children -> {"unborn", "alive", "dead", "closed"}]
      /\ proc'[k] = "alive"
      /\ \A j \in Children : j # k => proc'[j] = proc[j]
  BY <1>a, <1>f DEF Typed
<1>1. Typed(active, idle, waiters, grant', held', phase', proc')
  BY <1>a, <1>f, <1>t, <1>u, <1>p DEF Typed
<1>2. c \in Owners(grant, phase) /\ c \in Owners(grant', phase')
  BY <1>a, <1>t DEF Owners
<1>4. \A j \in Children :
          /\ proc'[j] = "alive" => j = held'[c] \/ In(idle, j) \/ (proc[j] = "alive" /\ j # held[c])
          /\ proc[j] # "unborn" => proc'[j] # "unborn"
  BY <1>f, <1>p, <1>u
<1>5. ~In(idle, k) /\ \A d \in Calls : held[d] # k
  BY <1>a, <1>f DEF IInv, Ready, Living, In
<1>3. OneMoves(c, active, idle, waiters, grant', held')
  BY <1>a, <1>f, <1>t, <1>u, <1>p, <1>1, <1>2, <1>4, <1>5 DEF OneMoves, Typed
<1>s. (ToStart(c)' => ToStart(c)) /\ ~Served(c)
  BY <1>a, <1>t DEF ToStart, Served
<1> QED
  BY <1>3, <1>a, <1>s, NothingDispatched

\* The slot of a dead child is taken again or given up.
LEMMA ReplaceOrQueueKeeps ==
    ASSUME IInv, NEW c \in Calls, ReplaceOrQueue(c)
    PROVE  IInv' /\ StartsStep /\ FifoStep
<1> DEFINE can == ~closed /\ active - 1 < limit
           act == IF can THEN active ELSE active - 1
<1>a. /\ phase[c] = "unhealthy" /\ UNCHANGED <<limit, closed, proc>>
      /\ phase' = [phase EXCEPT ![c] = IF can THEN "starting" ELSE "again"]
      /\ Dispatch(act, idle, waiters, grant, held)
  BY DEF ReplaceOrQueue, KeepPool, MoveTo
<1>f. /\ grant[c] = "none" /\ held[c] = NoChild /\ ~In(waiters, c) /\ NoTwice(waiters)
      /\ idle # <<>> => active <= limit /\ ~closed
      /\ Typed(active, idle, waiters, grant, held, phase, proc) /\ NoChild \notin Children
      /\ Len(idle) \in Nat /\ active \in Nat /\ limit \in Nat
  BY <1>a, CallFacts
<1>2. c \in Owners(grant, phase)
  BY <1>a DEF Owners
<1>n. active >= Len(idle) + 1 /\ active <= MaxLimit /\ active - 1 \in 0 .. MaxLimit
  BY <1>2, <1>f, OwnersCount, LimitAssumption DEF Typed
<1>t. /\ phase' \in [Calls -> Phases] /\ phase'[c] = (IF can THEN "starting" ELSE "again")
      /\ \A d \in Calls : d # c => phase'[d] = phase[d]
  BY <1>a, <1>f DEF Typed, Phases
<1>1. Typed(act, idle, waiters, grant, held, phase', proc')
  BY <1>a, <1>f, <1>t, <1>n DEF Typed
<1>3. can <=> c \in Owners(grant, phase')
  BY <1>f, <1>t DEF Owners
<1>4. act + Len(idle) + One(c \in Owners(grant, phase))
         = active + Len(idle) + One(c \in Owners(grant, phase'))
  BY <1>2, <1>3, <1>f DEF One
<1>6. idle # <<>> => act <= limit /\ ~closed
  BY <1>f
<1> HIDE DEF act
<1>5. OneMoves(c, act, idle, waiters, grant, held)
  BY <1>a, <1>f, <1>t, <1>1, <1>4, <1>6 DEF OneMoves, Typed
<1>m. IInv' /\ Moderate(act, grant) /\ Orderly(waiters, grant)
  BY <1>5, <1>a, OneMovesReady, DispatchReady
<1>s. \A d \in Calls : phase'[d] = "starting" => phase[d] = "starting" \/ act <= limit'
  BY <1>a, <1>f, <1>t DEF act
<1> QED
  BY <1>m, <1>s, StepsAreFair

\* A failed start gives the slot up.
LEMMA FactoryFailedKeeps ==
    ASSUME IInv, NEW c \in Calls, FactoryFailed(c)
    PROVE  IInv' /\ StartsStep /\ FifoStep
<1>a. /\ phase[c] = "starting" /\ UNCHANGED <<limit, closed, proc>>
      /\ phase' = [phase EXCEPT ![c] = "failed"]
      /\ Dispatch(active - 1, idle, waiters, grant, held)
  BY DEF FactoryFailed, KeepPool, MoveTo
<1>f. /\ grant[c] = "none" /\ held[c] = NoChild /\ ~In(waiters, c) /\ NoTwice(waiters)
      /\ idle # <<>> => active <= limit /\ ~closed
      /\ Typed(active, idle, waiters, grant, held, phase, proc) /\ NoChild \notin Children
      /\ Len(idle) \in Nat /\ active \in Nat /\ limit \in Nat
  BY <1>a, CallFacts
<1>2. c \in Owners(grant, phase)
  BY <1>a DEF Owners
<1>n. active >= Len(idle) + 1 /\ active <= MaxLimit /\ active - 1 \in 0 .. MaxLimit
  BY <1>2, <1>f, OwnersCount, LimitAssumption DEF Typed
<1>t. /\ phase' \in [Calls -> Phases] /\ phase'[c] = "failed"
      /\ \A d \in Calls : d # c => phase'[d] = phase[d]
  BY <1>a, <1>f DEF Typed, Phases
<1>1. Typed(active - 1, idle, waiters, grant, held, phase', proc')
  BY <1>a, <1>f, <1>t, <1>n DEF Typed
<1>3. c \notin Owners(grant, phase')
  BY <1>f, <1>t DEF Owners
<1>4. active - 1 + Len(idle) + One(c \in Owners(grant, phase))
         = active + Len(idle) + One(c \in Owners(grant, phase'))
  BY <1>2, <1>3, <1>f DEF One
<1>6. idle # <<>> => active - 1 <= limit /\ ~closed
  BY <1>f
<1>5. OneMoves(c, active - 1, idle, waiters, grant, held)
  BY <1>a, <1>f, <1>t, <1>1, <1>4, <1>6 DEF OneMoves, Typed
<1>m. IInv' /\ Moderate(active - 1, grant) /\ Orderly(waiters, grant)
  BY <1>5, <1>a, OneMovesReady, DispatchReady
<1>s. \A d \in Calls : phase'[d] = "starting" => phase[d] = "starting" \/ active - 1 <= limit'
  BY <1>t
<1> QED
  BY <1>m, <1>s, StepsAreFair

\* releaseFunc: the child is idle again, or closed and its slot given up.
LEMMA GiveBackKeeps ==
    ASSUME IInv, NEW c \in Calls, NEW reusable \in BOOLEAN, NEW p \in {"done", "failed"},
           held[c] # NoChild, c \in Owners(grant, phase), GiveBack(c, reusable), MoveTo(c, p)
    PROVE  IInv' /\ StartsStep /\ FifoStep
<1> DEFINE keep == Keeps(reusable)
           act == SlotsAfter(keep)
           idl == IF keep THEN Append(idle, held[c]) ELSE idle
           gr == [grant EXCEPT ![c] = "none"]
           hd == [held EXCEPT ![c] = NoChild]
<1>a. /\ UNCHANGED <<limit, closed>> /\ phase' = [phase EXCEPT ![c] = p]
      /\ Dispatch(act, idl, waiters, gr, hd)
      /\ proc' = IF keep THEN proc ELSE [proc EXCEPT ![held[c]] = "closed"]
  BY DEF GiveBack, KeepPool, MoveTo, Retire
<1>f. /\ ~In(waiters, c) /\ NoTwice(waiters) /\ held[c] \in Children
      /\ proc[held[c]] # "unborn"
      /\ idle # <<>> => active <= limit /\ ~closed
      /\ Typed(active, idle, waiters, grant, held, phase, proc) /\ NoChild \notin Children
      /\ Len(idle) \in Nat /\ active \in Nat /\ limit \in Nat
  <2>1. ~In(waiters, c)
    BY CallFacts DEF Owners
  <2> QED
    BY <2>1, CallFacts
<1>k. /\ keep => ~closed /\ active <= limit
      /\ act = IF keep THEN active ELSE active - 1
  BY DEF Keeps, SlotsAfter
<1>n. active >= Len(idle) + 1 /\ active <= MaxLimit /\ act \in 0 .. MaxLimit
  BY <1>f, <1>k, OwnersCount, LimitAssumption DEF Typed
<1>t. /\ phase' \in [Calls -> Phases] /\ phase'[c] = p
      /\ \A d \in Calls : d # c => phase'[d] = phase[d]
  BY <1>a, <1>f DEF Typed, Phases
<1>u. /\ hd \in [Calls -> Children \union {NoChild}] /\ hd[c] = NoChild
      /\ \A d \in Calls : d # c => hd[d] = held[d]
  BY <1>f DEF Typed
<1>v. /\ gr \in [Calls -> {"none", "create", "reuse", "closed"}] /\ gr[c] = "none"
      /\ \A d \in Calls : d # c => gr[d] = grant[d]
  BY <1>f DEF Typed
<1>p. /\ proc' \in [Children -> {"unborn", "alive", "dead", "closed"}]
      /\ keep => proc' = proc
      /\ ~keep => proc'[held[c]] = "closed"
      /\ \A k \in Children : k # held[c] => proc'[k] = proc[k]
  BY <1>a, <1>f DEF Typed
<1>i. /\ idl \in Seq(Children)
      /\ keep => idl = Append(idle, held[c]) /\ Len(idl) = Len(idle) + 1 /\ In(idl, held[c])
      /\ ~keep => idl = idle
  <2>1. CASE keep
    <3>1. idl = Append(idle, held[c]) /\ idle \in Seq(Children)
      BY <1>f, <2>1 DEF Typed
    <3>2. /\ idl \in Seq(Children) /\ Len(idl) = Len(idle) + 1 /\ idl[Len(idle) + 1] = held[c]
          /\ Len(idle) + 1 \in 1 .. Len(idle) + 1
      BY <1>f, <3>1
    <3> QED
      BY <2>1, <3>1, <3>2 DEF In
  <2>2. CASE ~keep
    BY <1>f, <2>2 DEF Typed
  <2> QED
    BY <2>1, <2>2
<1>3. c \notin Owners(gr, phase')
  BY <1>t DEF Owners
<1> HIDE DEF keep, act, idl, gr, hd
<1>1. Typed(act, idl, waiters, gr, hd, phase', proc')
  BY <1>f, <1>i, <1>n, <1>p, <1>t, <1>u, <1>v DEF Typed
<1>4. act + Len(idle) + One(c \in Owners(grant, phase))
         = active + Len(idl) + One(c \in Owners(gr, phase'))
  <2>1. One(c \in Owners(grant, phase)) = 1 /\ One(c \in Owners(gr, phase')) = 0
    BY <1>3 DEF One
  <2>2. CASE keep
    <3>1. act = active /\ Len(idl) = Len(idle) + 1 /\ active \in Nat /\ Len(idle) \in Nat
      BY <1>f, <1>i, <1>k, <2>2
    <3> QED
      BY ONLY <2>1, <3>1
  <2>3. CASE ~keep
    BY <1>f, <1>i, <1>k, <2>1, <2>3
  <2> QED
    BY <2>2, <2>3
<1>6. idl # <<>> => act <= limit /\ ~closed
  <2>1. CASE keep
    BY <1>f, <1>k, <2>1
  <2>2. CASE ~keep
    BY <1>f, <1>i, <1>k, <2>2
  <2> QED
    BY <2>1, <2>2
<1>7. \A k \in Children :
          /\ proc'[k] = "alive" => k = hd[c] \/ In(idl, k) \/ (proc[k] = "alive" /\ k # held[c])
          /\ proc[k] # "unborn" => proc'[k] # "unborn"
  BY <1>i, <1>p
<1>8. \/ idl = idle
      \/ idl = Append(idle, held[c]) /\ held[c] # NoChild /\ hd[c] = NoChild /\ proc' = proc
  BY <1>i, <1>p, <1>u
<1>5. OneMoves(c, act, idl, waiters, gr, hd)
  BY <1>a, <1>f, <1>t, <1>u, <1>v, <1>1, <1>4, <1>6, <1>7, <1>8 DEF OneMoves
<1>m. IInv' /\ Moderate(act, gr) /\ Orderly(waiters, gr)
  BY <1>5, <1>a, OneMovesReady, DispatchReady
<1>s. \A d \in Calls : phase'[d] = "starting" => phase[d] = "starting" \/ act <= limit'
  BY <1>t
<1> QED
  BY <1>v, <1>m, <1>s, StepsAreFair

\* The deferred release of a task that has run.
LEMMA ReleaseKeeps ==
    ASSUME IInv, NEW c \in Calls, Release(c)
    PROVE  IInv' /\ StartsStep /\ FifoStep
<1>1. held[c] # NoChild /\ c \in Owners(grant, phase)
  BY CallFacts DEF Release, Owners
<1>2. MoveTo(c, "done")
  BY DEF Release
<1>3. PICK reusable \in BOOLEAN : GiveBack(c, reusable)
  BY DEF Release
<1> QED
  BY <1>1, <1>2, <1>3, GiveBackKeeps

\* removeWaiterLocked takes one call out of the queue and no other.
LEMMA WithoutOne ==
    ASSUME NEW S, NEW s \in Seq(S), NEW c, NoTwice(s), In(s, c)
    PROVE  /\ Without(s, c) \in Seq(S) /\ NoTwice(Without(s, c))
           /\ \A d : In(Without(s, c), d) <=> In(s, d) /\ d # c
           /\ \A d, e : Precedes(Without(s, c), d, e) => Precedes(s, d, e)
<1> DEFINE p == Position(s, c)
           a == SubSeq(s, 1, p - 1)
           b == SubSeq(s, p + 1, Len(s))
           t == Without(s, c)
<1>1. DOMAIN s = 1 .. Len(s) /\ Len(s) \in Nat
  OBVIOUS
<1>2. p \in 1 .. Len(s) /\ s[p] = c
  <2>1. \E i \in DOMAIN s : s[i] = c
    BY <1>1 DEF In
  <2> QED
    BY <1>1, <2>1 DEF Position
<1> HIDE DEF p
<1>3. a \in Seq(S) /\ Len(a) = p - 1 /\ \A i \in 1 .. p - 1 : a[i] = s[i]
  <2>1. /\ a \in Seq(S) /\ Len(a) = p - 1 + 1 - 1
        /\ \A i \in 1 .. p - 1 + 1 - 1 : a[i] = s[1 + i - 1]
    BY <1>1, <1>2, SubSeqIs
  <2> QED
    BY <1>1, <1>2, <2>1
<1>4. b \in Seq(S) /\ Len(b) = Len(s) - p /\ \A i \in 1 .. Len(s) - p : b[i] = s[p + i]
  <2>1. /\ b \in Seq(S) /\ Len(b) = Len(s) + 1 - (p + 1)
        /\ \A i \in 1 .. Len(s) + 1 - (p + 1) : b[i] = s[p + 1 + i - 1]
    BY <1>1, <1>2, SubSeqIs
  <2>2. /\ Len(s) + 1 - (p + 1) = Len(s) - p
        /\ \A i \in 1 .. Len(s) - p : p + 1 + i - 1 = p + i
    <3>1. p \in Nat /\ Len(s) \in Nat
      BY <1>1, <1>2
    <3> QED
      BY ONLY <3>1
  <2>3. ASSUME NEW i \in 1 .. Len(s) - p PROVE b[i] = s[p + i]
    <3>1. b[i] = s[p + 1 + i - 1]
      BY <2>1, <2>2
    <3> QED
      BY <2>2, <3>1
  <2> QED
    BY <2>1, <2>2, <2>3
<1>5. t = a \o b
  BY DEF Without, p
<1> HIDE DEF a, b, t
<1>6. /\ t \in Seq(S) /\ Len(t) = Len(s) - 1
      /\ \A i \in 1 .. Len(s) - 1 : t[i] = IF i < p THEN s[i] ELSE s[i + 1]
  <2>1. /\ t \in Seq(S) /\ Len(t) = Len(a) + Len(b)
        /\ \A i \in 1 .. Len(a) + Len(b) : t[i] = IF i <= Len(a) THEN a[i] ELSE b[i - Len(a)]
    BY <1>3, <1>4, <1>5, ConcatProperties
  <2>2. ASSUME NEW i \in 1 .. Len(s) - 1 PROVE t[i] = IF i < p THEN s[i] ELSE s[i + 1]
    <3>1. t[i] = IF i <= p - 1 THEN a[i] ELSE b[i - (p - 1)]
      BY <1>1, <1>2, <1>3, <1>4, <2>1
    <3>2. CASE i < p
      BY <1>1, <1>2, <1>3, <3>1, <3>2
    <3>3. CASE ~(i < p)
      <4>1. i - (p - 1) \in 1 .. Len(s) - p /\ p + (i - (p - 1)) = i + 1
        BY <1>1, <1>2, <3>3
      <4> QED
        BY <1>1, <1>2, <1>4, <3>1, <3>3, <4>1
    <3> QED
      BY <3>2, <3>3
  <2> QED
    BY <1>1, <1>2, <1>3, <1>4, <2>1, <2>2
<1>7. NoTwice(t)
  <2>1. ASSUME NEW i \in 1 .. Len(s) - 1, NEW j \in 1 .. Len(s) - 1, t[i] = t[j] PROVE i = j
    <3> DEFINE at(n) == IF n < p THEN n ELSE n + 1
    <3>1. \A n \in 1 .. Len(s) - 1 : at(n) \in 1 .. Len(s) /\ t[n] = s[at(n)]
      BY <1>1, <1>6
    <3>2. at(i) = at(j)
      <4> HIDE DEF at
      <4> QED
        BY <2>1, <3>1 DEF NoTwice
    <3> QED
      BY <1>1, <1>2, <3>2
  <2> QED
    BY <1>6, <2>1 DEF NoTwice
<1>8. ASSUME NEW d PROVE In(t, d) <=> In(s, d) /\ d # c
  <2>1. ASSUME In(t, d) PROVE In(s, d) /\ d # c
    <3>1. PICK i \in 1 .. Len(s) - 1 : t[i] = d
      BY <1>6, <2>1 DEF In
    <3>2. CASE i < p
      <4>1. i \in 1 .. Len(s) /\ s[i] = d /\ i # p
        BY <1>1, <1>2, <1>6, <3>1, <3>2
      <4> QED
        BY <1>2, <4>1 DEF In, NoTwice
    <3>3. CASE ~(i < p)
      <4>1. i + 1 \in 1 .. Len(s) /\ s[i + 1] = d /\ i + 1 # p
        BY <1>1, <1>2, <1>6, <3>1, <3>3
      <4> QED
        BY <1>2, <4>1 DEF In, NoTwice
    <3> QED
      BY <3>2, <3>3
  <2>2. ASSUME In(s, d), d # c PROVE In(t, d)
    <3>1. PICK i \in 1 .. Len(s) : s[i] = d
      BY <2>2 DEF In
    <3>2. CASE i < p
      <4>1. i \in 1 .. Len(t) /\ t[i] = d
        BY <1>1, <1>2, <1>6, <3>1, <3>2
      <4> QED
        BY <4>1 DEF In
    <3>3. CASE i > p
      <4>1. i - 1 \in 1 .. Len(s) - 1 /\ ~(i - 1 < p) /\ i - 1 + 1 = i
        BY <1>1, <1>2, <3>3
      <4>2. t[i - 1] = d
        BY <1>6, <3>1, <4>1
      <4> QED
        BY <1>6, <4>1, <4>2 DEF In
    <3>4. i # p
      BY <1>2, <2>2, <3>1
    <3> QED
      BY <1>1, <1>2, <3>2, <3>3, <3>4
  <2> QED
    BY <2>1, <2>2
<1>9. ASSUME NEW d, NEW e, Precedes(t, d, e) PROVE Precedes(s, d, e)
  <2> DEFINE at(n) == IF n < p THEN n ELSE n + 1
  <2>1. \A n \in 1 .. Len(s) - 1 : at(n) \in 1 .. Len(s) /\ t[n] = s[at(n)]
    BY <1>1, <1>6
  <2>2. PICK i \in 1 .. Len(s) - 1, j \in 1 .. Len(s) - 1 : i < j /\ t[i] = d /\ t[j] = e
    <3>1. DOMAIN t = 1 .. Len(s) - 1
      BY <1>6
    <3> QED
      BY <1>9, <3>1 DEF Precedes
  <2>3. at(i) < at(j)
    BY <1>1, <1>2, <2>2
  <2> HIDE DEF at
  <2> QED
    BY <1>1, <2>1, <2>2, <2>3 DEF Precedes
<1> QED
  BY <1>6, <1>7, <1>8, <1>9 DEF t

\* A cancelled waiter leaves the queue.
LEMMA CancelQueuedKeeps ==
    ASSUME IInv, NEW c \in Calls, CancelQueued(c)
    PROVE  IInv' /\ StartsStep /\ FifoStep
<1> DEFINE w == Without(waiters, c)
<1>a. /\ phase[c] = "waiting" /\ UNCHANGED <<limit, closed, proc>>
      /\ phase' = [phase EXCEPT ![c] = "failed"]
      /\ Dispatch(active, idle, w, grant, held)
  BY DEF CancelQueued, KeepPool, MoveTo
<1>e. /\ NoTwice(waiters)
      /\ idle # <<>> => active <= limit /\ ~closed
      /\ Typed(active, idle, waiters, grant, held, phase, proc) /\ NoChild \notin Children
      /\ Len(idle) \in Nat /\ active \in Nat /\ limit \in Nat
  BY CallFacts
<1>q. In(waiters, c)
  <2>1. DOMAIN waiters = 1 .. Len(waiters)
    BY <1>e DEF Typed
  <2> QED
    BY <2>1 DEF CancelQueued, Elements, In
<1>f. grant[c] = "none" /\ held[c] = NoChild
  BY <1>a, <1>q, CallFacts
<1>w. w \in Seq(Calls) /\ NoTwice(w) /\ \A d : In(w, d) <=> In(waiters, d) /\ d # c
  <2>1. waiters \in Seq(Calls) /\ NoTwice(waiters)
    BY <1>e DEF Typed
  <2>2. /\ Without(waiters, c) \in Seq(Calls) /\ NoTwice(Without(waiters, c))
        /\ \A d : In(Without(waiters, c), d) <=> In(waiters, d) /\ d # c
    BY ONLY <1>q, <2>1, WithoutOne
  <2> QED
    BY <2>2
<1>o. \A e \in Elements(waiters) : \A d \in Calls : Precedes(w, d, e) => Precedes(waiters, d, e)
  <2>1. waiters \in Seq(Calls) /\ NoTwice(waiters)
    BY <1>e DEF Typed
  <2> QED
    BY <1>q, <2>1, WithoutOne
<1> HIDE DEF w
<1>t. /\ phase' \in [Calls -> Phases] /\ phase'[c] = "failed"
      /\ \A d \in Calls : d # c => phase'[d] = phase[d]
  BY <1>a, <1>e DEF Typed, Phases
<1>1. Typed(active, idle, w, grant, held, phase', proc')
  BY <1>a, <1>e, <1>t, <1>w DEF Typed
<1>2. c \notin Owners(grant, phase) /\ c \notin Owners(grant, phase')
  BY <1>a, <1>f, <1>t DEF Owners
<1>3. active + Len(idle) + One(c \in Owners(grant, phase))
        = active + Len(idle) + One(c \in Owners(grant, phase'))
  BY <1>2
<1>4. /\ \A d \in Calls \ {c} : In(w, d) <=> In(waiters, d)
      /\ (phase'[c] = "waiting" /\ grant[c] = "none") <=> In(w, c)
  BY <1>t, <1>w
<1>5. OneMoves(c, active, idle, w, grant, held)
  BY <1>a, <1>e, <1>f, <1>t, <1>w, <1>1, <1>3, <1>4 DEF OneMoves, Typed
<1>m. IInv' /\ Moderate(active, grant) /\ Orderly(w, grant)
  BY <1>5, <1>a, OneMovesReady, DispatchReady
<1>s. \A d \in Calls : phase'[d] = "starting" => phase[d] = "starting" \/ active <= limit'
  BY <1>t
<1> QED
  BY <1>m, <1>o, <1>s, StepsAreFair

\* discardGrant gives back what a cancelled waiter had been given.
LEMMA CancelGrantedKeeps ==
    ASSUME IInv, NEW c \in Calls, CancelGranted(c)
    PROVE  IInv' /\ StartsStep /\ FifoStep
<1> DEFINE gr == [grant EXCEPT ![c] = "none"]
<1>a. phase[c] = "waiting" /\ grant[c] # "none" /\ phase' = [phase EXCEPT ![c] = "failed"]
  BY DEF CancelGranted, MoveTo
<1>f. /\ ~In(waiters, c) /\ NoTwice(waiters)
      /\ idle # <<>> => active <= limit /\ ~closed
      /\ held[c] # NoChild <=> grant[c] = "reuse"
      /\ Typed(active, idle, waiters, grant, held, phase, proc) /\ NoChild \notin Children
      /\ Len(idle) \in Nat /\ active \in Nat /\ limit \in Nat
  BY <1>a, CallFacts
<1>t. /\ phase' \in [Calls -> Phases] /\ phase'[c] = "failed"
      /\ \A d \in Calls : d # c => phase'[d] = phase[d]
  BY <1>a, <1>f DEF Typed, Phases
<1>v. /\ gr \in [Calls -> {"none", "create", "reuse", "closed"}] /\ gr[c] = "none"
      /\ \A d \in Calls : d # c => gr[d] = grant[d]
  BY <1>f DEF Typed
<1>3. c \notin Owners(gr, phase')
  BY <1>t DEF Owners
<1> HIDE DEF gr
<1>r. CASE grant[c] = "reuse" /\ GiveBack(c, TRUE)
  <2>1. c \in Owners(grant, phase) /\ held[c] # NoChild
    BY <1>a, <1>f, <1>r DEF Owners
  <2>2. MoveTo(c, "failed")
    BY DEF CancelGranted
  <2> QED
    BY <1>r, <2>1, <2>2, GiveBackKeeps
<1>c. CASE /\ grant[c] = "create" /\ KeepPool
           /\ Dispatch(active - 1, idle, waiters, gr, held) /\ UNCHANGED proc
  <2>a. UNCHANGED <<limit, closed, proc>> /\ held[c] = NoChild
    BY <1>c, <1>f DEF KeepPool
  <2>2. c \in Owners(grant, phase)
    BY <1>a, <1>c DEF Owners
  <2>n. active >= Len(idle) + 1 /\ active <= MaxLimit /\ active - 1 \in 0 .. MaxLimit
    BY <2>2, <1>f, OwnersCount, LimitAssumption DEF Typed
  <2>1. Typed(active - 1, idle, waiters, gr, held, phase', proc')
    BY <2>a, <2>n, <1>f, <1>t, <1>v DEF Typed
  <2>4. active - 1 + Len(idle) + One(c \in Owners(grant, phase))
           = active + Len(idle) + One(c \in Owners(gr, phase'))
    BY <1>3, <2>2, <1>f DEF One
  <2>6. idle # <<>> => active - 1 <= limit /\ ~closed
    BY <1>f
  <2>5. OneMoves(c, active - 1, idle, waiters, gr, held)
    BY <2>a, <1>f, <1>t, <1>v, <2>1, <2>4, <2>6 DEF OneMoves, Typed
  <2>7. IInv' /\ Moderate(active - 1, gr) /\ Orderly(waiters, gr)
    BY <1>c, <2>5, OneMovesReady, DispatchReady
  <2>8. \A d \in Calls : phase'[d] = "starting" => phase[d] = "starting" \/ active - 1 <= limit'
    BY <1>t
  <2> QED
    BY <1>v, <2>7, <2>8, StepsAreFair
<1>x. CASE /\ grant[c] = "closed" /\ grant' = gr
           /\ UNCHANGED <<limit, active, closed, idle, waiters, held, proc>>
  <2>a. held[c] = NoChild
    BY <1>f, <1>x
  <2>1. Typed(active, idle, waiters, grant', held', phase', proc')
    BY <1>f, <1>t, <1>v, <1>x DEF Typed
  <2>2. c \notin Owners(grant, phase)
    BY <1>a, <1>x DEF Owners
  <2>3. OneMoves(c, active, idle, waiters, grant', held')
    BY <1>3, <1>f, <1>t, <1>v, <1>x, <2>a, <2>1, <2>2 DEF OneMoves, Typed
  <2>4. (ToStart(c)' => ToStart(c)) /\ ~Served(c)
    BY <1>t, <1>v, <1>x DEF ToStart, Served
  <2> QED
    BY <1>x, <2>3, <2>4, NothingDispatched
<1> QED
  BY <1>r, <1>c, <1>x DEF CancelGranted, gr

-----------------------------------------------------------------------------
(* The steps of the pool                                                   *)

\* The children above the first n of the stack are closed, their slots given up.
LEMMA TrimKeeps ==
    ASSUME IInv, NEW n \in 0 .. Len(idle), UNCHANGED phase,
           limit' \in 1 .. MaxLimit, closed' \in BOOLEAN,
           n > 0 => active - (Len(idle) - n) <= limit' /\ ~closed',
           CloseAll(SubSeq(idle, n + 1, Len(idle))),
           Dispatch(active - (Len(idle) - n), SubSeq(idle, 1, n), waiters, grant, held)
    PROVE  IInv' /\ StartsStep /\ FifoStep
<1> DEFINE act == active - (Len(idle) - n)
           idl == SubSeq(idle, 1, n)
           top == SubSeq(idle, n + 1, Len(idle))
<1>r. /\ Typed(active, idle, waiters, grant, held, phase, proc)
      /\ Slots(active, idle, grant, phase)
      /\ Queue(waiters, grant, phase)
      /\ Owned(idle, grant, held, phase)
      /\ Living(idle, held, proc)
  BY DEF IInv, Ready
<1>n. /\ Len(idle) \in Nat /\ n \in Nat /\ n <= Len(idle) /\ active \in Nat /\ active <= MaxLimit
      /\ MaxLimit \in Nat /\ idle \in Seq(Children)
  BY <1>r, LimitAssumption DEF Typed
<1>i. idl \in Seq(Children) /\ Len(idl) = n /\ \A i \in 1 .. n : idl[i] = idle[i]
  <2>1. /\ idl \in Seq(Children) /\ Len(idl) = n + 1 - 1
        /\ \A i \in 1 .. n + 1 - 1 : idl[i] = idle[1 + i - 1]
    BY <1>n, SubSeqIs
  <2>2. n + 1 - 1 = n /\ \A i \in 1 .. n : 1 + i - 1 = i
    BY <1>n
  <2> QED
    BY <2>1, <2>2
<1>j. /\ top \in Seq(Children) /\ Len(top) = Len(idle) - n
      /\ \A i \in 1 .. Len(idle) - n : top[i] = idle[n + i]
  <2>1. /\ top \in Seq(Children) /\ Len(top) = Len(idle) + 1 - (n + 1)
        /\ \A i \in 1 .. Len(idle) + 1 - (n + 1) : top[i] = idle[n + 1 + i - 1]
    BY <1>n, SubSeqIs
  <2>2. /\ Len(idle) + 1 - (n + 1) = Len(idle) - n
        /\ \A i \in 1 .. Len(idle) - n : n + 1 + i - 1 = n + i
    BY <1>n
  <2>3. ASSUME NEW i \in 1 .. Len(idle) - n PROVE top[i] = idle[n + i]
    <3>1. top[i] = idle[n + 1 + i - 1]
      BY <2>1, <2>2
    <3> QED
      BY <2>2, <3>1
  <2> QED
    BY <2>1, <2>2, <2>3
<1>c. proc' = [k \in Children |-> IF In(top, k) THEN "closed" ELSE proc[k]]
  <2>1. DOMAIN top = 1 .. Len(top)
    BY <1>j
  <2> QED
    BY <2>1 DEF CloseAll, Elements, In
<1>d. Dispatch(act, idl, waiters, grant, held)
  OBVIOUS
<1>l. n > 0 => act <= limit' /\ ~closed'
  OBVIOUS
<1>a. act = active - (Len(idle) - n)
  OBVIOUS
<1> HIDE DEF act, idl, top
<1>1. Slots(act, idl, grant, phase')
  <2>1. IsFiniteSet(Owners(grant, phase)) /\ Cardinality(Owners(grant, phase)) \in Nat
    BY <1>r, FS_CardinalityType DEF Slots
  <2>2. act = n + Cardinality(Owners(grant, phase))
    <3>1. active = Len(idle) + Cardinality(Owners(grant, phase))
      BY <1>r DEF Slots
    <3> QED
      BY <1>a, <1>n, <2>1, <3>1
  <2> QED
    BY <1>i, <2>1, <2>2 DEF Slots
<1>2. act \in 0 .. MaxLimit
  <2>1. act = n + Cardinality(Owners(grant, phase)) /\ Cardinality(Owners(grant, phase)) \in Nat
    BY <1>1, <1>i, FS_CardinalityType DEF Slots
  <2> QED
    BY <1>a, <1>n, <2>1
<1>3. Typed(act, idl, waiters, grant, held, phase', proc')
  BY <1>2, <1>c, <1>i, <1>r DEF Typed
<1>4. Queue(waiters, grant, phase')
  BY <1>r
<1>5. \A i \in 1 .. n : i \in 1 .. Len(idle)
  BY <1>n
<1>6. \A k : In(idl, k) => In(idle, k)
  BY <1>5, <1>i DEF In
<1>7. Owned(idl, grant, held, phase')
  <2>1. NoTwice(idl)
    BY <1>5, <1>i, <1>r DEF Owned, NoTwice
  <2> QED
    BY <1>6, <1>r, <2>1 DEF Owned
<1>8. Living(idl, held, proc')
  <2>1. ASSUME NEW k \in Children, proc'[k] = "alive"
        PROVE  In(idl, k) \/ \E c \in Calls : held[c] = k
    <3>1. proc[k] = "alive" /\ ~In(top, k)
      BY <1>c, <2>1
    <3>2. CASE In(idle, k)
      <4>1. PICK i \in 1 .. Len(idle) : idle[i] = k
        BY <3>2 DEF In
      <4>2. CASE i <= n
        <5>1. i \in 1 .. n
          BY <1>n, <4>2
        <5> QED
          BY <1>i, <4>1, <5>1 DEF In
      <4>3. CASE ~(i <= n)
        <5>1. i - n \in 1 .. Len(idle) - n /\ n + (i - n) = i
          BY <1>n, <4>3
        <5>2. top[i - n] = k
          BY <1>j, <4>1, <5>1
        <5> QED
          BY <1>j, <3>1, <5>1, <5>2 DEF In
      <4> QED
        BY <4>2, <4>3
    <3> QED
      BY <1>r, <3>1, <3>2 DEF Living
  <2>2. \A k \in Children : proc[k] # "unborn" => proc'[k] # "unborn"
    BY <1>c
  <2>3. \A i \in 1 .. Len(idle) : idle[i] \in Children /\ proc[idle[i]] # "unborn"
    BY <1>n, <1>r DEF Living
  <2>4. \A i \in 1 .. Len(idl) : proc'[idl[i]] # "unborn"
    BY <1>5, <1>i, <2>2, <2>3
  <2>5. \A c \in Calls : held[c] # NoChild => proc'[held[c]] # "unborn"
    BY <1>r, <2>2 DEF Living, Typed
  <2> QED
    BY <2>1, <2>4, <2>5 DEF Living
<1>9. Fits(limit', closed', act, idl)
  <2>1. idl # <<>> => n > 0
    BY <1>i, <1>n
  <2> QED
    BY <1>l, <2>1 DEF Fits
<1>m. IInv' /\ Moderate(act, grant) /\ Orderly(waiters, grant)
  BY <1>1, <1>3, <1>4, <1>7, <1>8, <1>9, <1>d, DispatchReady DEF Ready
<1> QED
  BY <1>m, StepsAreFair

\* All the idle children are closed.
LEMMA EmptyKeeps ==
    ASSUME IInv, UNCHANGED phase, limit' \in 1 .. MaxLimit, closed' \in BOOLEAN, CloseAll(idle),
           Dispatch(active - Len(idle), <<>>, waiters, grant, held)
    PROVE  IInv' /\ StartsStep /\ FifoStep
<1>1. idle \in Seq(Children) /\ Len(idle) \in Nat
  BY DEF IInv, Ready, Typed
<1>2. /\ 0 \in 0 .. Len(idle) /\ Len(idle) - 0 = Len(idle) /\ 0 + 1 = 1
      /\ SubSeq(idle, 1, 0) = <<>> /\ SubSeq(idle, 1, Len(idle)) = idle
  BY <1>1
<1> DEFINE n == 0
<1>3. n \in 0 .. Len(idle) /\ ~(n > 0)
  BY <1>2
<1>4. CloseAll(SubSeq(idle, n + 1, Len(idle)))
  <2>1. SubSeq(idle, n + 1, Len(idle)) = idle
    BY <1>2
  <2> QED
    BY <2>1
<1>5. Dispatch(active - (Len(idle) - n), SubSeq(idle, 1, n), waiters, grant, held)
  <2>1. active - (Len(idle) - n) = active - Len(idle) /\ SubSeq(idle, 1, n) = <<>>
    BY <1>2
  <2> QED
    BY <2>1
<1> HIDE DEF n
<1> QED
  BY <1>3, <1>4, <1>5, TrimKeeps

\* SetLimit closes the children above the greatest number that may stay.
LEMMA SetLimitKeeps ==
    ASSUME IInv, NEW n \in 1 .. MaxLimit, SetLimit(n)
    PROVE  IInv' /\ StartsStep /\ FifoStep
<1> DEFINE Fit(i) == i = 0 \/ (active - (Len(idle) - i) <= n /\ i <= n)
           Greatest(i) ==
               Fit(i) /\ \A j \in i + 1 .. Len(idle) : active - (Len(idle) - j) > n \/ j > n
           keep == CHOOSE i \in 0 .. Len(idle) :
                     /\ i = 0 \/ (active - (Len(idle) - i) <= n /\ i <= n)
                     /\ \A j \in i + 1 .. Len(idle) : active - (Len(idle) - j) > n \/ j > n
<1>1. /\ Len(idle) \in Nat /\ active \in Nat /\ n \in Nat
      /\ closed \in BOOLEAN
      /\ idle # <<>> => ~closed
  BY LimitAssumption DEF IInv, Ready, Typed, Fits
<1>2. \E i \in 0 .. Len(idle) : Greatest(i)
  <2> DEFINE top == n - active + Len(idle)
             m == Least(Len(idle), Least(n, top))
  <2>1. /\ m <= Len(idle) /\ m <= n /\ m <= top /\ m \in Int
        /\ m = Len(idle) \/ m = n \/ m = top
    BY <1>1 DEF Least
  <2> HIDE DEF m
  <2>2. CASE m > 0
    <3>1. m \in 0 .. Len(idle) /\ Fit(m)
      BY <1>1, <2>1, <2>2
    <3>2. \A j \in m + 1 .. Len(idle) : active - (Len(idle) - j) > n \/ j > n
      BY <1>1, <2>1, <2>2
    <3> QED
      BY <3>1, <3>2
  <2>3. CASE ~(m > 0)
    <3>1. \A j \in 0 + 1 .. Len(idle) : active - (Len(idle) - j) > n \/ j > n
      BY <1>1, <2>1, <2>3
    <3> QED
      BY <1>1, <3>1
  <2> QED
    BY <2>2, <2>3
<1>3. keep \in 0 .. Len(idle) /\ Greatest(keep)
  BY <1>2
<1>4. keep > 0 => active - (Len(idle) - keep) <= n
  BY <1>3
<1>5. /\ limit' = n /\ closed' = closed /\ UNCHANGED phase
      /\ Dispatch(active - (Len(idle) - keep), SubSeq(idle, 1, keep), waiters, grant, held)
      /\ CloseAll(SubSeq(idle, keep + 1, Len(idle)))
  BY DEF SetLimit
<1>6. keep > 0 => ~closed'
  <2>1. ASSUME keep > 0 PROVE idle # <<>>
    BY <1>1, <1>3, <2>1
  <2> QED
    BY <1>1, <1>5, <2>1
<1> HIDE DEF keep
<1>7. /\ keep \in 0 .. Len(idle) /\ UNCHANGED phase
      /\ limit' \in 1 .. MaxLimit /\ closed' \in BOOLEAN
      /\ keep > 0 => active - (Len(idle) - keep) <= limit' /\ ~closed'
  BY <1>1, <1>3, <1>4, <1>5, <1>6
<1> QED
  BY <1>5, <1>7, TrimKeeps

\* Reset and Close close them all.
LEMMA ResetKeeps ==
    ASSUME IInv, Reset \/ Close
    PROVE  IInv' /\ StartsStep /\ FifoStep
<1>1. limit \in 1 .. MaxLimit /\ closed \in BOOLEAN
  BY DEF IInv, Ready, Fits
<1>2. /\ limit' \in 1 .. MaxLimit /\ closed' \in BOOLEAN /\ UNCHANGED phase /\ CloseAll(idle)
      /\ Dispatch(active - Len(idle), <<>>, waiters, grant, held)
  BY <1>1 DEF Reset, Close, KeepPool
<1> QED
  BY <1>2, EmptyKeeps

\* A child that exits holds its place until somebody looks at it.
LEMMA CrashKeeps ==
    ASSUME IInv, NEW k \in Children, Crash(k)
    PROVE  IInv' /\ StartsStep /\ FifoStep
<1>a. /\ proc' = [proc EXCEPT ![k] = "dead"]
      /\ UNCHANGED <<limit, active, closed, idle, waiters, grant, held, phase>>
  BY DEF Crash
<1>r. /\ Typed(active, idle, waiters, grant, held, phase, proc)
      /\ Slots(active, idle, grant, phase)
      /\ Queue(waiters, grant, phase)
      /\ Owned(idle, grant, held, phase)
      /\ Living(idle, held, proc)
      /\ Fits(limit, closed, active, idle) /\ WorkConserving
  BY DEF IInv, Ready
<1>p. /\ proc' \in [Children -> {"unborn", "alive", "dead", "closed"}]
      /\ \A j \in Children : proc'[j] = "alive" => proc[j] = "alive"
      /\ \A j \in Children : proc[j] # "unborn" => proc'[j] # "unborn"
  BY <1>a, <1>r DEF Typed
<1>1. Typed(active, idle, waiters, grant, held, phase, proc')
  BY <1>p, <1>r DEF Typed
<1>2. Living(idle, held, proc')
  <2>1. \A i \in 1 .. Len(idle) : idle[i] \in Children
    BY <1>r DEF Typed
  <2>2. \A c \in Calls : held[c] # NoChild => held[c] \in Children
    BY <1>r DEF Typed
  <2> QED
    BY <1>p, <1>r, <2>1, <2>2 DEF Living
<1>3. WorkConserving'
  BY <1>a, <1>r DEF WorkConserving
<1>4. StartsStep /\ FifoStep
  BY <1>a DEF StartsStep, ToStart, FifoStep, Served
<1> QED
  BY <1>a, <1>r, <1>1, <1>2, <1>3, <1>4 DEF IInv, Ready

-----------------------------------------------------------------------------
(* The theorems                                                            *)

\* The fields as NewSubAgentProcessPool leaves them.
LEMMA InitInvariant == Init => IInv
<1> SUFFICES ASSUME Init PROVE IInv
  OBVIOUS
<1>1. Typed(active, idle, waiters, grant, held, phase, proc)
  BY LimitAssumption DEF Init, Typed, Phases
<1>2. Slots(active, idle, grant, phase)
  <2>1. Owners(grant, phase) = {}
    BY DEF Init, Owners
  <2> QED
    BY <2>1, FS_EmptySet, SMTT(40) DEF Init, Slots
<1>3. Queue(waiters, grant, phase)
  BY DEF Init, Queue, NoTwice, In
<1>4. Owned(idle, grant, held, phase)
  BY DEF Init, Owned, NoTwice, In
<1>5. Living(idle, held, proc)
  BY DEF Init, Living
<1>6. Fits(limit, closed, active, idle) /\ WorkConserving
  BY DEF Init, Fits, WorkConserving
<1> QED
  BY <1>1, <1>2, <1>3, <1>4, <1>5, <1>6 DEF IInv, Ready

\* Every critical section of the pool, and every step between two of them, keeps it.
LEMMA NextInvariant == IInv /\ [Next]_vars => IInv' /\ [StartsStep /\ FifoStep]_vars
<1> SUFFICES ASSUME IInv, [Next]_vars PROVE IInv' /\ [StartsStep /\ FifoStep]_vars
  OBVIOUS
<1>1. ASSUME NEW c \in Calls,
             \/ Enqueue(c) \/ EnqueueClosed(c) \/ Accept(c)
             \/ PingAnswered(c) \/ PingFailed(c) \/ ReplaceOrQueue(c)
             \/ \E k \in Children : FactoryStarted(c, k)
             \/ FactoryFailed(c) \/ Release(c) \/ CancelQueued(c) \/ CancelGranted(c)
      PROVE  IInv' /\ StartsStep /\ FifoStep
  BY <1>1, EnqueueKeeps, EnqueueClosedKeeps, AcceptKeeps, PingAnsweredKeeps, PingFailedKeeps,
     ReplaceOrQueueKeeps, FactoryStartedKeeps, FactoryFailedKeeps, ReleaseKeeps,
     CancelQueuedKeeps, CancelGrantedKeeps
<1>2. ASSUME NEW n \in 1 .. MaxLimit, SetLimit(n) PROVE IInv' /\ StartsStep /\ FifoStep
  BY <1>2, SetLimitKeeps
<1>3. CASE Reset \/ Close
  BY <1>3, ResetKeeps
<1>4. ASSUME NEW k \in Children, Crash(k) PROVE IInv' /\ StartsStep /\ FifoStep
  BY <1>4, CrashKeeps
<1>5. CASE UNCHANGED vars
  BY <1>5 DEF vars, IInv, Ready, Typed, Slots, Owners, Queue, Owned, Living, Fits, WorkConserving
<1> QED
  BY <1>1, <1>2, <1>3, <1>4, <1>5 DEF Next

\* The pool's bookkeeping holds together in every behaviour.
THEOREM Safety == Spec => []IInv
  BY InitInvariant, NextInvariant, PTL DEF Spec

\* Every field keeps its type.
THEOREM TypeCorrect == Spec => []TypeOK
<1>1. IInv => TypeOK
  BY DEF IInv, Ready, Typed, Fits, TypeOK
<1> QED
  BY <1>1, Safety, PTL

\* The pool's counter is the idle children and the slots set aside for calls: a slot that
\* a grant, a cancellation, a failed ping or a resize lost would be lost until restart.
THEOREM SlotsAreAccounted == Spec => []SlotAccounting
<1>1. IInv => SlotAccounting
  <2> SUFFICES ASSUME IInv PROVE SlotAccounting
    OBVIOUS
  <2>1. {c \in Calls : OwnsSlot(c)} = Owners(grant, phase)
    BY DEF OwnsSlot, Owners
  <2>2. active = Len(idle) + Cardinality(Owners(grant, phase))
    BY DEF IInv, Ready, Slots
  <2> QED
    BY <2>1, <2>2 DEF SlotAccounting
<1> QED
  BY <1>1, Safety, PTL

\* The indexes and the members of the stack and of the queue.
LEMMA Members ==
    ASSUME IInv
    PROVE  /\ DOMAIN idle = 1 .. Len(idle) /\ DOMAIN waiters = 1 .. Len(waiters)
           /\ \A k : k \in Elements(idle) <=> In(idle, k)
           /\ \A c : c \in Elements(waiters) <=> In(waiters, c)
<1>1. DOMAIN idle = 1 .. Len(idle) /\ DOMAIN waiters = 1 .. Len(waiters)
  BY DEF IInv, Ready, Typed
<1> QED
  BY <1>1 DEF Elements, In

\* No child is handed out twice: it is on the stack once, or with one call.
THEOREM ChildrenHaveOneOwner == Spec => []OneOwner
<1>1. IInv => OneOwner
  BY Members DEF IInv, Ready, Owned, NoTwice, OneOwner
<1> QED
  BY <1>1, Safety, PTL

\* No process is left behind: a living child is on the stack or with a call.
THEOREM NoChildIsOrphaned == Spec => []NoOrphan
<1>1. IInv => NoOrphan
  BY Members DEF IInv, Ready, Living, NoOrphan
<1> QED
  BY <1>1, Safety, PTL

\* A blocked call is in the queue, once, or has its answer; nobody waits beside an idle
\* child or a free slot, and a closed pool holds neither children nor waiters.
THEOREM NobodyWaitsInVain == Spec => [](NoLostWakeup /\ WorkConserving /\ ClosedPoolEmpty)
<1>1. IInv => NoLostWakeup
  BY Members DEF IInv, Ready, Queue, NoTwice, NoLostWakeup
<1>2. IInv => WorkConserving /\ ClosedPoolEmpty
  BY DEF IInv, Ready, Fits, WorkConserving, ClosedPoolEmpty
<1> QED
  BY <1>1, <1>2, Safety, PTL

\* Whatever is resized while a ping or a start is under way, idle children stay within the
\* limit and no slot is newly set aside to start a child beyond it.
THEOREM LimitIsRespected == Spec => LimitRespected
<1> DEFINE Step == (\E c \in Calls : ToStart(c)' /\ ~ToStart(c)) => active' <= limit'
<1>1. IInv => IdleWithinLimit
  BY DEF IInv, Ready, Fits, IdleWithinLimit
<1>2. IInv /\ [Next]_vars => [Step]_vars
  BY NextInvariant DEF StartsStep
<1>3. LimitRespected <=> []IdleWithinLimit /\ [][Step]_vars
  BY DEF LimitRespected, StartsWithinLimit
<1> HIDE DEF Step
<1> QED
  BY <1>1, <1>2, <1>3, Safety, PTL DEF Spec

\* Nobody overtakes a waiter, through cancellations, resizes, failed pings and releases.
THEOREM AdmissionIsFifo == Spec => FifoAdmission
<1> DEFINE Step == FifoStep
<1>1. IInv /\ [Next]_vars => [Step]_vars
  BY NextInvariant
<1>2. FifoAdmission <=> [][Step]_vars
  BY DEF FifoAdmission
<1> HIDE DEF Step
<1> QED
  BY <1>1, <1>2, Safety, PTL DEF Spec
=============================================================================
