------------------------------ MODULE MCBatcher ------------------------------
(* TLC instance of Batcher: items 1, 3 and 4 share a key.  Two keys have a   *)
(* worker each.                                                              *)
EXTENDS Batcher

Keys == {"x", "y"}
KeyOf4 == <<"x", "y", "x", "x">>
OwnWorker == [k \in Keys |-> IF k = "x" THEN 1 ELSE 2]
=============================================================================
