----------------------------- MODULE KeyedQueue -----------------------------
(***************************************************************************)
(* What users of the batcher rely on: items are accepted one at a time and *)
(* handled in batches, each once, and those of a key in the order in which *)
(* they were accepted.  Nothing is said about the order between keys.      *)
(***************************************************************************)
EXTENDS Naturals, Sequences, Subsequences

CONSTANTS
  Item,       \* what is put
  Key,        \* the keys
  KeyOf       \* the key of each item, in [Item -> Key]

VARIABLES
  accepted,   \* the items accepted so far, in order
  handled     \* per key, the items handled so far, in order

queueVars == <<accepted, handled>>

\* The items of key k among those of s, in order.
OfKey(s, k) == Only(s, {i \in Item : KeyOf[i] = k})

QueueInit == accepted = <<>> /\ handled = [k \in Key |-> <<>>]

Accept(i) ==
  /\ \A n \in 1 .. Len(accepted) : accepted[n] # i
  /\ accepted' = Append(accepted, i)
  /\ UNCHANGED handled

\* The next items of k, at least one, are handled.
Handle(k) ==
  /\ \E n \in (Len(handled[k]) + 1) .. Len(OfKey(accepted, k)) :
       handled' = [handled EXCEPT ![k] = SubSeq(OfKey(accepted, k), 1, n)]
  /\ UNCHANGED accepted

QueueNext == (\E i \in Item : Accept(i)) \/ (\E k \in Key : Handle(k))

QueueSpec == QueueInit /\ [][QueueNext]_queueVars
=============================================================================
