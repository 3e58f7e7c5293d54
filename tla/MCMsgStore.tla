----------------------------- MODULE MCMsgStore -----------------------------
(* TLC instances of MsgStore. *)
EXTENDS MsgStore, TLC

\* Two marks, read or with a fault; two reads; one of everything.
Budget(m, r, f) == [marks |-> m, reads |-> r, faults |-> f]
MCBudgets == {Budget(2, 1, 0), Budget(2, 0, 1), Budget(1, 2, 0), Budget(1, 1, 1)}

Symmetric == Permutations(Consumer) \cup Permutations(Marker) \cup Permutations(Reader)
=============================================================================
