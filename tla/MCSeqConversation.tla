-------------------------- MODULE MCSeqConversation --------------------------
(* TLC instance of SeqConversation. *)
EXTENDS SeqConversation
=============================================================================
