---------------------------- MODULE MCMsgTransfer ----------------------------
(* TLC instances of MsgTransfer. *)
EXTENDS MsgTransfer, TLC

Chats(u, v) == <<[kind |-> "chat", from |-> u], [kind |-> "chat", from |-> v]>>
Notices(n) == [i \in 1 .. n |-> [kind |-> "notice", from |-> "u"]]
Mixed(k, l) == <<[kind |-> k, from |-> "u"], [kind |-> l, from |-> "v"]>>

\* Two chat messages; a message that is only pushed before one that is stored
\* in both conversations; notifications, too many for one batch or between
\* others.
AllTopics ==
  {Chats("u", "v"), Mixed("typing", "shared"), Notices(3), Mixed("notice", "tip")}
OneChat == {Chats("u", "v")}

Procs == Permutations(Proc)
=============================================================================
