---------------------------- MODULE MCFriendSync ----------------------------
(* TLC instances of FriendSync. *)
EXTENDS FriendSync, TLC

\* All operations on one friend, and another one that is added before, in between
\* or after.
AnyAndAdd ==
  ("e" :> {"add", "remove", "remark", "pin", "profile"}) @@ ("f" :> {"add"})
=============================================================================
