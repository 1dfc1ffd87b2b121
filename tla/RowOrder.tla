------------------------------ MODULE RowOrder ------------------------------
(***************************************************************************)
(* What a database and a stable sort do with rows, which are sequences in  *)
(* the order of insertion: ORDER BY, sort.SliceStable and WHERE.  A row is *)
(* placed by the number of rows that are not behind it, so that nothing    *)
(* here is recursive.                                                      *)
(***************************************************************************)
EXTENDS Naturals, Sequences, FiniteSets

\* The positions that are not behind position n when rows are sorted by key.
UpTo(key, n) == {m \in DOMAIN key : key[m] < key[n] \/ (key[m] = key[n] /\ m <= n)}

\* The rows in the order of their keys; rows of one key keep their order.
Ordered(rows, key) ==
    [i \in DOMAIN rows |-> rows[CHOOSE n \in DOMAIN rows : Cardinality(UpTo(key, n)) = i]]

\* The positions of K up to n.
Before(K, n) == {m \in K : m <= n}

\* The rows at the positions of K, in their order.
Picked(rows, K) ==
    [i \in 1 .. Cardinality(K) |-> rows[CHOOSE n \in K : Cardinality(Before(K, n)) = i]]
=============================================================================
