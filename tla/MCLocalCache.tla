---------------------------- MODULE MCLocalCache ----------------------------
(* TLC instances of LocalCache: the friendship of a and b, the black list of c. *)
EXTENDS LocalCache, TLC

Keys == {"friend", "black", "black2", "black3", "a", "b", "c"}
Unfriend == [list |-> "b", keys |-> {"a", "b"}]
Block == [list |-> "c", keys |-> {"c"}]

\* One item, each key in a slot of its own.
Single == [lists |-> "friend" :> <<"a", "b">>, slot |-> [k \in Keys |-> k],
           calls |-> {Unfriend}]

\* Two items in a slot that holds one.
Crowded == [lists |-> "friend" :> <<"a", "b">> @@ "black" :> <<"c">>,
            slot |-> [k \in Keys |-> IF k \in {"friend", "black"} THEN "items" ELSE k],
            calls |-> {Block}]

\* The same, with the key of a's list in the slot of the items.
Clash == [Crowded EXCEPT !.slot["a"] = "items"]

\* Three answers about the black list of c, the first and the last in a slot that holds one.
Blacks == {"black", "black2", "black3"}
Sharing == [lists |-> [i \in Blacks |-> <<"c">>],
            slot |-> [k \in Keys |-> IF k \in {"black", "black3"} THEN "items" ELSE k],
            calls |-> {Block}]

Deployments == {Single, Crowded, Sharing}
Clashing == {Clash}

Symmetry == Permutations(Getter)
=============================================================================
