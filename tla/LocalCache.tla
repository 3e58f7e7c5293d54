----------------------------- MODULE LocalCache -----------------------------
(***************************************************************************)
(* The cache of friend and black-list answers inside one server process    *)
(* and how it hears of changes:                                            *)
(*   pkg/localcache/{cache.go, lru/lru_lazy.go, link/link.go},             *)
(*   pkg/rpccache/{friend,subscriber}.go and                               *)
(*   pkg/common/storage/cache/redis/batch_handler.go.                      *)
(*                                                                         *)
(* An item is the answer to "is x a friend of y" or "does y block x".  It  *)
(* is computed from the lists of one or two users and linked with their    *)
(* keys.  A call that changes a list deletes its value in Redis and then   *)
(* publishes its key; every process deletes from its own cache whatever is *)
(* linked, over any number of links, with a published key.                 *)
(*                                                                         *)
(* Each slot of the cache has a lock, each item has one, which is held     *)
(* while the item is fetched, and each entry of the link table is guarded  *)
(* by a lock of its own.  Removing an item calls onEvict under the slot's  *)
(* lock, and onEvict removes what the item is linked with.                 *)
(*                                                                         *)
(* A list is the number of its last change.  Published keys all arrive.    *)
(***************************************************************************)
EXTENDS Integers, Sequences, FiniteSets, Functions

CONSTANTS
  Getter,     \* goroutines that call GetLink
  Subscriber, \* the goroutine that receives published keys
  Writer,     \* calls that change a list, in any process
  Item,       \* keys of the cache
  List,       \* keys of users' lists, only used in links
  Object,     \* bound of the model: the memory of cached items
  None,       \* no object, no goroutine, no value
  Layouts,    \* what items are linked with, slots of keys, calls that change lists
  Capacity,   \* localSlotSize: 20000
  MaxGets,    \* bound of the model: calls of GetLink
  MaxWrites   \* bound of the model: changes of the lists

ASSUME NoneAssumption ==
  None \notin Getter \cup {Subscriber} \cup Object /\ Subscriber \notin Getter
ASSUME KeyAssumption == Item \cap List = {}
\* An item is linked with a list at least; a call publishes the key of the list it changes.
ASSUME LayoutAssumption ==
  \A y \in Layouts :
    /\ DOMAIN y.lists \subseteq Item /\ \A i \in DOMAIN y.lists : y.lists[i] \in Seq(List) \ {<<>>}
    /\ \A call \in y.calls : call.list \in call.keys /\ call.keys \subseteq List
ASSUME BoundAssumption == Capacity \in Nat \ {0} /\ MaxWrites \in Nat /\ MaxGets \in Nat

Key == Item \cup List
Thread == Getter \cup {Subscriber}

VARIABLES
  layout,   \* the layout of this deployment
  list,     \* the lists in Mongo
  shared,   \* their values in Redis, None when deleted
  writer,   \* the call in progress of each writer
  queue,    \* published messages; the subscriber works on the first
  core,     \* the object of each item in the cache, or None
  object,   \* values, whether they may be used, and who holds the item's lock
  slotLock, \* who holds the lock of each key's slot
  links,    \* the link table
  getter,   \* where each call of GetLink is
  stack,    \* the removals each goroutine is in, innermost last
  handled,  \* history: the last change of each list this process has dealt with
  gets,     \* how many calls of GetLink have begun
  floor     \* history: the changes a call of GetLink has to know of

lists == <<list, shared, writer>>
cache == <<core, object, slotLock, links>>
vars == <<layout, lists, queue, cache, getter, stack, handled, floor, gets>>

NoChange == [l \in List |-> 0]
Unused == [value |-> NoChange, state |-> "empty", holder |-> None]
AtRest == [pc |-> "idle", item |-> None, object |-> None, done |-> 0, value |-> NoChange]

\* The objects a cache and calls refer to, and memory with the others cleared.
InUse(c, gs) == Range(c) \cup {gs[g].object : g \in Getter}
Swept(c, gs, os) == [o \in Object |-> IF o \in InUse(c, gs) THEN os[o] ELSE Unused]

Slot(k) == layout.slot[k]
Slots == {layout.slot[k] : k \in Key}
Lists(i) == layout.lists[i]    \* a sequence: the order of links and of reads

NoMessage == [keys |-> {}, list |-> None, change |-> 0]

Init ==
  /\ layout \in Layouts
  /\ list = NoChange /\ shared = [l \in List |-> None]
  /\ writer = [w \in Writer |-> [pc |-> "idle", note |-> NoMessage]]
  /\ queue = <<>>
  /\ core = [i \in Item |-> None]
  /\ object = [o \in Object |-> Unused]
  /\ slotLock = [s \in Slots |-> None]
  /\ links = [k \in Key |-> {}]
  /\ getter = [g \in Getter |-> AtRest]
  /\ stack = [t \in Thread |-> <<>>]
  /\ handled = NoChange
  /\ floor = [g \in Getter |-> NoChange]
  /\ gets = 0

-----------------------------------------------------------------------------
(* The calls that change a list *)

\* A friend is deleted, a user blocked or unblocked: one list changes.
Write(w, call) ==
  /\ writer[w].pc = "idle"
  /\ list[call.list] < MaxWrites
  /\ list' = [list EXCEPT ![call.list] = @ + 1]
  /\ writer' = [writer EXCEPT ![w] =
       [pc |-> "tag", note |-> [keys |-> call.keys, list |-> call.list,
                                change |-> list[call.list] + 1]]]
  /\ UNCHANGED <<layout, shared, queue, cache, getter, stack, handled, floor, gets>>

\* Mutant: the values in Redis stay.
TagNothing(w) ==
  /\ writer[w].pc = "tag"
  /\ writer' = [writer EXCEPT ![w].pc = "publish"]
  /\ UNCHANGED <<layout, list, shared, queue, cache, getter, stack, handled, floor, gets>>

\* execDel: TagAsDeletedBatch2 ...
Tag(w) ==
  /\ writer[w].pc = "tag"
  /\ shared' = [l \in List |-> IF l \in writer[w].note.keys THEN None ELSE shared[l]]
  /\ writer' = [writer EXCEPT ![w].pc = "publish"]
  /\ UNCHANGED <<layout, list, queue, cache, getter, stack, handled, floor, gets>>

\* ... and then Publish.
Publish(w) ==
  /\ writer[w].pc = "publish"
  /\ queue' = Append(queue, writer[w].note)
  /\ writer' = [writer EXCEPT ![w] = [pc |-> "idle", note |-> NoMessage]]
  /\ UNCHANGED <<layout, list, shared, cache, getter, stack, handled, floor, gets>>

-----------------------------------------------------------------------------
(* Removing items *)

\* A removal: of key, with the lock of its slot when evict holds.  front and
\* seen are the stack and the result of delKey; then seen is removed.
Removal(k, evict) == [key |-> k, evict |-> evict, front |-> {k}, seen |-> {}]

Top(t) == stack[t][Len(stack[t])]
Busy(t) == stack[t] # <<>>
Replace(t, f) == stack' = [stack EXCEPT ![t] = [@ EXCEPT ![Len(@)] = f]]
Push(t, f, e) == stack' = [stack EXCEPT ![t] = Append([@ EXCEPT ![Len(@)] = f], e)]

\* link.delKey: one step of the walk, under the lock of one entry.
Walk(t) ==
  /\ Busy(t)
  /\ \E k \in Top(t).front :
       LET f == Top(t)  seen == f.seen \cup {k} IN
       /\ Replace(t, [f EXCEPT !.seen = seen,
                               !.front = (f.front \cup links[k]) \ seen])
       /\ links' = [links EXCEPT ![k] = {}]
  /\ UNCHANGED <<layout, lists, queue, core, object, slotLock, getter, handled, floor, gets>>

\* What a removal has yet to remove; onEvict leaves its own key out.
Remaining(f) == f.seen \ (IF f.evict THEN {f.key} ELSE {})

Removing(t) == Busy(t) /\ Top(t).front = {}

Removed(f, k) == [f EXCEPT !.seen = @ \ {k}]

\* Some goroutine is about to remove the item.
Leaving(i) ==
  \E t \in Thread : \E n \in 1 .. Len(stack[t]) :
    i \in Remaining([stack[t][n] EXCEPT !.seen = @ \cup stack[t][n].front])

\* local.Del of keys of lists, which name no items: only the locks matter.
RemoveLists(t) ==
  /\ Removing(t)
  /\ LET ls == Remaining(Top(t)) \cap List IN
     /\ ls # {} /\ \A l \in ls : slotLock[Slot(l)] = None
     /\ Replace(t, [Top(t) EXCEPT !.seen = @ \ ls])
  /\ UNCHANGED <<layout, lists, queue, cache, getter, handled, floor, gets>>

\* local.Del of an item that is not in the cache.
RemoveMissing(t) ==
  /\ Removing(t)
  /\ \E i \in Remaining(Top(t)) \cap Item :
       /\ slotLock[Slot(i)] = None /\ core[i] = None
       /\ Replace(t, Removed(Top(t), i))
  /\ UNCHANGED <<layout, lists, queue, cache, getter, handled, floor, gets>>

\* Mutant: an item that is being fetched stays.
RemoveFetched(t) ==
  /\ Removing(t)
  /\ \E i \in Remaining(Top(t)) \cap Item :
       /\ slotLock[Slot(i)] = None /\ core[i] # None
       /\ IF object[core[i]].holder # None
          THEN Replace(t, Removed(Top(t), i)) /\ UNCHANGED <<core, slotLock>>
          ELSE /\ core' = [core EXCEPT ![i] = None]
               /\ slotLock' = [slotLock EXCEPT ![Slot(i)] = t]
               /\ Push(t, Removed(Top(t), i), Removal(i, TRUE))
  /\ object' = Swept(core', getter, object)
  /\ UNCHANGED <<layout, lists, queue, links, getter, handled, floor, gets>>

\* local.Del of an item: it is out of the cache, whoever holds its lock or waits
\* for it, and onEvict begins under the slot's lock.
Remove(t) ==
  /\ Removing(t)
  /\ \E i \in Remaining(Top(t)) \cap Item :
       /\ slotLock[Slot(i)] = None /\ core[i] # None
       /\ core' = [core EXCEPT ![i] = None]
       /\ slotLock' = [slotLock EXCEPT ![Slot(i)] = t]
       /\ Push(t, Removed(Top(t), i), Removal(i, TRUE))
  /\ object' = Swept(core', getter, object)
  /\ UNCHANGED <<layout, lists, queue, links, getter, handled, floor, gets>>

\* onEvict returns, and local.Del unlocks the slot.  The slot stays locked when
\* the removal made room for a new item.
EvictDone(t) ==
  /\ Removing(t) /\ Top(t).evict /\ Remaining(Top(t)) = {}
  /\ stack' = [stack EXCEPT ![t] = SubSeq(@, 1, Len(@) - 1)]
  /\ slotLock' = IF t \in Getter /\ Len(stack[t]) = 1 THEN slotLock
                 ELSE [slotLock EXCEPT ![Slot(Top(t).key)] = None]
  /\ UNCHANGED <<layout, lists, queue, core, object, links, getter, handled, floor, gets>>

-----------------------------------------------------------------------------
(* subscriberRedisDeleteCache *)

\* DelLocal with a key of the message: local.Del finds nothing, as keys of lists
\* name no items, and link.Del begins.
DelKey ==
  /\ queue # <<>> /\ ~Busy(Subscriber)
  /\ \E k \in queue[1].keys :
       /\ slotLock[Slot(k)] = None
       /\ stack' = [stack EXCEPT ![Subscriber] = <<Removal(k, FALSE)>>]
       /\ queue' = [queue EXCEPT ![1].keys = @ \ {k}]
  /\ UNCHANGED <<layout, lists, cache, getter, handled, floor, gets>>

\* Everything linked with the key is removed; after the last one the message is
\* dealt with.
DelKeyDone ==
  /\ Removing(Subscriber) /\ ~Top(Subscriber).evict /\ Remaining(Top(Subscriber)) = {}
  /\ stack' = [stack EXCEPT ![Subscriber] = <<>>]
  /\ IF queue[1].keys = {}
     THEN /\ queue' = Tail(queue)
          /\ handled' = [handled EXCEPT ![queue[1].list] =
                           IF queue[1].change > @ THEN queue[1].change ELSE @]
     ELSE UNCHANGED <<queue, handled>>
  /\ UNCHANGED <<layout, lists, cache, getter, floor, gets>>

-----------------------------------------------------------------------------
(* GetLink *)

\* The item is in the cache: wait for its lock, without that of the slot.
Find(g, i) ==
  /\ getter[g].pc = "idle" /\ gets < MaxGets
  /\ gets' = gets + 1
  /\ slotLock[Slot(i)] = None /\ core[i] # None
  /\ getter' = [getter EXCEPT ![g] =
       [AtRest EXCEPT !.pc = "wait", !.item = i, !.object = core[i]]]
  /\ floor' = [floor EXCEPT ![g] = IF Leaving(i) THEN NoChange ELSE handled]
  /\ UNCHANGED <<layout, lists, queue, cache, stack, handled>>

\* Mutant: the new item is not locked until the slot is unlocked.
AddUnlocked(g, i) ==
  /\ getter[g].pc = "idle" /\ gets < MaxGets
  /\ gets' = gets + 1
  /\ slotLock[Slot(i)] = None /\ core[i] = None
  /\ Object \ InUse(core, getter) # {}
  /\ LET o == CHOOSE n \in Object \ InUse(core, getter) : TRUE IN
       /\ core' = [core EXCEPT ![i] = o]
       /\ getter' = [getter EXCEPT ![g] =
            [AtRest EXCEPT !.pc = "add", !.item = i, !.object = o]]
  /\ floor' = [floor EXCEPT ![g] = handled]
  /\ UNCHANGED <<layout, lists, queue, object, slotLock, stack, links, handled>>

\* It is not: a new one is put in, locked, and the oldest one has to go when
\* the slot is full.  The model lets it be any of the slot's.
Add(g, i) ==
  /\ getter[g].pc = "idle" /\ gets < MaxGets
  /\ gets' = gets + 1
  /\ slotLock[Slot(i)] = None /\ core[i] = None
  /\ Object \ InUse(core, getter) # {}
  /\ LET o == CHOOSE n \in Object \ InUse(core, getter) : TRUE IN
       /\ LET full == {j \in Item : Slot(j) = Slot(i) /\ core[j] # None} IN
          IF Cardinality(full) < Capacity
          THEN /\ core' = [core EXCEPT ![i] = o]
               /\ UNCHANGED <<slotLock, stack>>
          ELSE \E j \in full :
               /\ core' = [core EXCEPT ![i] = o, ![j] = None]
               /\ slotLock' = [slotLock EXCEPT ![Slot(i)] = g]
               /\ stack' = [stack EXCEPT ![g] = <<Removal(j, TRUE)>>]
       /\ getter' = [getter EXCEPT ![g] =
            [AtRest EXCEPT !.pc = "add", !.item = i, !.object = o]]
       /\ object' = Swept(core', getter', [object EXCEPT ![o].holder = g])
  /\ floor' = [floor EXCEPT ![g] = handled]
  /\ UNCHANGED <<layout, lists, queue, links, handled>>

\* The item is in, the slot is unlocked, and the fetch begins with Link.
Added(g) ==
  /\ getter[g].pc = "add" /\ ~Busy(g)
  /\ slotLock' = [s \in Slots |-> IF slotLock[s] = g THEN None ELSE slotLock[s]]
  /\ getter' = [getter EXCEPT ![g].pc = "link"]
  /\ UNCHANGED <<layout, lists, queue, core, object, links, stack, handled, floor, gets>>

\* The item's lock is free and its value may be used.
Use(g) ==
  /\ getter[g].pc = "wait"
  /\ object[getter[g].object].holder = None
  /\ object[getter[g].object].state = "valid"
  /\ getter' = [getter EXCEPT ![g] = AtRest]
  /\ object' = Swept(core, getter', object)
  /\ floor' = [floor EXCEPT ![g] = NoChange] /\ UNCHANGED gets
  /\ UNCHANGED <<layout, lists, queue, core, slotLock, links, stack, handled>>

\* It may not: this call fetches, also when the item is out of the cache by now.
Refetch(g) ==
  /\ getter[g].pc = "wait"
  /\ object[getter[g].object].holder = None
  /\ object[getter[g].object].state # "valid"
  /\ object' = [object EXCEPT ![getter[g].object].holder = g]
  /\ getter' = [getter EXCEPT ![g].pc = "link"]
  /\ UNCHANGED <<layout, lists, queue, core, slotLock, links, stack, handled, floor, gets>>

\* The lists isFriend and isBlack link with the item.
Linked(i) == Lists(i)

\* Link: the item's own entry ...
LinkItem(g) ==
  /\ getter[g].pc = "link"
  /\ links' = [links EXCEPT ![getter[g].item] = @ \cup Range(Linked(getter[g].item))]
  /\ getter' = [getter EXCEPT ![g].pc = "back"]
  /\ UNCHANGED <<layout, lists, queue, core, object, slotLock, stack, handled, floor, gets>>

\* ... and that of each list, each under its own lock.
LinkBack(g) ==
  LET i == getter[g].item  n == getter[g].done + 1 IN
  /\ getter[g].pc = "back"
  /\ links' = [links EXCEPT ![Linked(i)[n]] = @ \cup {i}]
  /\ getter' = [getter EXCEPT ![g] =
       IF n < Len(Linked(i)) THEN [@ EXCEPT !.done = n]
       ELSE [@ EXCEPT !.pc = "fetch", !.done = 0]]
  /\ UNCHANGED <<layout, lists, queue, core, object, slotLock, stack, handled, floor, gets>>

\* CheckIn reads one list out of Redis, which loads it when it is deleted there.
ReadList(g) ==
  LET i == getter[g].item  n == getter[g].done + 1 IN
  /\ getter[g].pc = "fetch" /\ n <= Len(Lists(i))
  /\ LET l == Lists(i)[n]  v == IF shared[l] = None THEN list[l] ELSE shared[l] IN
     /\ shared' = [shared EXCEPT ![l] = v]
     /\ getter' = [getter EXCEPT ![g].done = n, ![g].value[l] = v]
  /\ UNCHANGED <<layout, list, writer, queue, cache, stack, handled, floor, gets>>

\* The answer is in the item, and the call is over.
Fetched(g) ==
  /\ getter[g].pc = "fetch" /\ getter[g].done = Len(Lists(getter[g].item))
  /\ getter' = [getter EXCEPT ![g] = AtRest]
  /\ floor' = [floor EXCEPT ![g] = NoChange] /\ UNCHANGED gets
  /\ object' = Swept(core, getter', [object EXCEPT ![getter[g].object] =
       [value |-> getter[g].value, state |-> "valid", holder |-> None]])
  /\ UNCHANGED <<layout, lists, queue, core, slotLock, links, stack, handled>>

\* localSuccessTTL is over.
Expire(i) ==
  /\ core[i] # None /\ object[core[i]].state = "valid" /\ object[core[i]].holder = None
  /\ object' = [object EXCEPT ![core[i]] = [Unused EXCEPT !.state = "expired"]]
  /\ UNCHANGED <<layout, lists, queue, core, slotLock, links, getter, stack, handled, floor, gets>>

-----------------------------------------------------------------------------

Changing(w) == (\E call \in layout.calls : Write(w, call)) \/ Tag(w) \/ Publish(w)

Removals(t) == Walk(t) \/ RemoveLists(t) \/ RemoveMissing(t) \/ Remove(t) \/ EvictDone(t)

Subscribing == DelKey \/ DelKeyDone \/ Removals(Subscriber)

Progress(g) ==
  \/ Removals(g) \/ Added(g) \/ Use(g) \/ Refetch(g)
  \/ LinkItem(g) \/ LinkBack(g) \/ ReadList(g) \/ Fetched(g)

Next ==
  \/ \E w \in Writer : Changing(w)
  \/ Subscribing
  \/ \E g \in Getter : Progress(g) \/ \E i \in DOMAIN layout.lists : Find(g, i) \/ Add(g, i)
  \/ \E i \in Item : Expire(i)

Spec == Init /\ [][Next]_vars

-----------------------------------------------------------------------------
(* Properties *)

Message == [keys : SUBSET List, list : List \cup {None}, change : 0 .. MaxWrites]
Frame == [key : Key, evict : BOOLEAN, front : SUBSET Key, seen : SUBSET Key]

\* Types; an item that a call fetches is locked by it, so that only one does.
TypeOK ==
  /\ layout \in Layouts
  /\ list \in [List -> 0 .. MaxWrites] /\ shared \in [List -> (0 .. MaxWrites) \cup {None}]
  /\ writer \in [Writer -> [pc : {"idle", "tag", "publish"}, note : Message]]
  /\ queue \in Seq(Message)
  /\ core \in [Item -> Object \cup {None}]
  /\ object \in [Object -> [value : [List -> 0 .. MaxWrites],
                            state : {"empty", "valid", "expired"},
                            holder : Getter \cup {None}]]
  /\ slotLock \in [Slots -> Thread \cup {None}]
  /\ links \in [Key -> SUBSET Key]
  /\ getter \in [Getter ->
       [pc : {"idle", "wait", "add", "link", "back", "fetch"}, item : Item \cup {None},
        object : Object \cup {None}, done : Nat, value : [List -> 0 .. MaxWrites]]]
  /\ stack \in [Thread -> Seq(Frame)]
  /\ handled \in [List -> 0 .. MaxWrites] /\ gets \in 0 .. MaxGets
  /\ floor \in [Getter -> [List -> 0 .. MaxWrites]]
  /\ \A i, j \in Item : core[i] = core[j] => i = j \/ core[i] = None
  /\ \A g \in Getter : getter[g].pc \in {"add", "link", "back", "fetch"} =>
       object[getter[g].object].holder = g

\* A change of list l is on its way to this cache.
Announced(l) ==
  \/ \E w \in Writer : writer[w].note.list = l
  \/ \E n \in 1 .. Len(queue) : queue[n].list = l

\* An answer that may be used is that of the lists as they are, or the change it
\* misses is on its way, or some goroutine is about to remove it.
Fresh ==
  \A i \in Item : core[i] # None /\ object[core[i]].state = "valid" =>
    \A l \in Range(Lists(i)) :
      \/ object[core[i]].value[l] = list[l]
      \/ Announced(l)
      \/ Leaving(i)

\* A call that began after this process dealt with a change does not return an
\* answer from before it, also when it waited for another call's fetch.  The
\* subscriber finds no link to an item that another goroutine has unlinked and
\* is about to remove: a call that finds such an item may return anything.
NeverOlder ==
  \A g \in Getter : getter[g].pc = "wait" =>
    LET o == object[getter[g].object] IN
    o.state = "valid" => \A l \in Range(Lists(getter[g].item)) : o.value[l] >= floor[g][l]

\* No goroutine waits for the lock of a slot that it holds itself.
NoSelfDeadlock ==
  \A t \in Thread :
    Removing(t) => \A k \in Remaining(Top(t)) : slotLock[Slot(k)] # t
=============================================================================
