--------------------------- MODULE MCOnlineStatus ---------------------------
(* TLC instances of OnlineStatus. *)
EXTENDS OnlineStatus

\* One platform that changes three times, with one fault; or two platforms that
\* change once each, with two.
Changes(m, n) == [x \in {"ios", "web"} |-> IF x = "ios" THEN m ELSE n]
MCBudgets == {[changes |-> Changes(3, 0), faults |-> 1],
              [changes |-> Changes(1, 1), faults |-> 2]}
=============================================================================
