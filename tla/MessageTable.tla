---------------------------- MODULE MessageTable ----------------------------
(***************************************************************************)
(* What the store of a conversation's messages promises: the messages, the *)
(* revocations and a user's deletions are three growing sets of seqs, and  *)
(* a write to one of them leaves the others alone, whoever else writes.    *)
(***************************************************************************)
CONSTANT Seqs
VARIABLES sent, revoked, deleted

Init == sent = {} /\ revoked = {} /\ deleted = {}

Put    == \E S \in SUBSET Seqs : sent' = sent \cup S /\ UNCHANGED <<revoked, deleted>>
Revoke == \E S \in SUBSET Seqs : revoked' = revoked \cup S /\ UNCHANGED <<sent, deleted>>
Delete == \E S \in SUBSET Seqs : deleted' = deleted \cup S /\ UNCHANGED <<sent, revoked>>

Next == Put \/ Revoke \/ Delete
Spec == Init /\ [][Next]_<<sent, revoked, deleted>>
=============================================================================
