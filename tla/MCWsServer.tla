----------------------------- MODULE MCWsServer -----------------------------
(* TLC instances of WsServer: three connections, on one gateway or on two,   *)
(* of one user or of two, with as many client objects as connections or      *)
(* fewer, so that objects are reused.                                        *)
EXTENDS WsServer

OneNode == [c \in Conn |-> "g1"]
TwoNodes == [c \in Conn |-> IF c = 2 THEN "g2" ELSE "g1"]
OneUser == [c \in Conn |-> "u"]
MixedUsers == [c \in Conn |-> IF c = 3 THEN "v" ELSE "u"]
OnePlatform == [c \in Conn |-> "ios"]
MixedPlatforms == [c \in Conn |-> CASE c = 1 -> "ios" [] c = 2 -> "android" [] c = 3 -> "windows"]
Classes == [p \in Platform |-> IF p = "windows" THEN "PC" ELSE "Mobile"]
TwoObjects == [n \in Node |-> 1 .. 2]
OneObject == [n \in Node |-> 1 .. 1]
=============================================================================
