---------------------------- MODULE Subsequences ----------------------------
(***************************************************************************)
(* The elements of a sequence that belong to a set, in their order: what a *)
(* loop that appends them to a new slice makes.  Written with ranks and    *)
(* not as a recursion, so that it can be reasoned about.                   *)
(***************************************************************************)
EXTENDS Naturals, Sequences, FiniteSets

\* Where s has elements of S.
Places(s, S) == {i \in DOMAIN s : s[i] \in S}

\* How many of the places P are up to i, and the k-th of them.
Rank(P, i) == Cardinality({j \in P : j <= i})
Nth(P, k) == CHOOSE i \in P : Rank(P, i) = k

Only(s, S) ==
  LET P == Places(s, S) IN [k \in 1 .. Cardinality(P) |-> s[Nth(P, k)]]
=============================================================================
