-------------------------- MODULE LocalCacheProofs --------------------------
(***************************************************************************)
(* TLAPS proofs about LocalCache, for any goroutines, writers, items,      *)
(* lists, layouts and bounds: types are kept and an item is fetched by one *)
(* call at a time (TypeCorrect), what may be used is up to date or about   *)
(* to go (CacheIsFresh), and nobody gets an answer from before what the    *)
(* process has dealt with (NothingOlder).                                  *)
(***************************************************************************)
EXTENDS LocalCache, SequenceTheorems, TLAPS

USE NoneAssumption, KeyAssumption, BoundAssumption DEF lists, cache

-----------------------------------------------------------------------------
(* Invariants.                                                             *)

\* A call of GetLink with an object has an item of the layout; an object is of one item.
Calls ==
  /\ \A g \in Getter :
       /\ getter[g].pc = "idle" => getter[g] = AtRest
       /\ getter[g].pc # "idle" =>
            getter[g].item \in DOMAIN layout.lists /\ getter[g].object \in Object
       /\ getter[g].pc # "add" => stack[g] = <<>>
       /\ getter[g].pc \notin {"back", "fetch"} => getter[g].done = 0
       /\ getter[g].pc = "back" => getter[g].done < Len(Lists(getter[g].item))
       /\ getter[g].pc = "fetch" => getter[g].done <= Len(Lists(getter[g].item))
       /\ \A j \in Item : core[j] # None /\ core[j] = getter[g].object => j = getter[g].item
  /\ \A g, h \in Getter : getter[g].object = getter[h].object /\ getter[g].object # None =>
       getter[g].item = getter[h].item

\* Memory that nobody refers to is clear; items in the cache are of the layout.
Memory ==
  /\ \A o \in Object : o \notin InUse(core, getter) => object[o] = Unused
  /\ \A i \in Item : core[i] # None => i \in DOMAIN layout.lists

\* The removals a goroutine is in evict, but the first of the subscriber; what
\* they evict is out of the cache, and the lock of its slot theirs.
Frames ==
  /\ \A t \in Thread : \A n \in 1 .. Len(stack[t]) :
       /\ stack[t][n].evict <=> ~(t = Subscriber /\ n = 1)
       /\ stack[t][n].evict => /\ stack[t][n].key \in Item /\ core[stack[t][n].key] = None
                               /\ slotLock[Slot(stack[t][n].key)] = t
  /\ \A t \in Thread : \A m, n \in 1 .. Len(stack[t]) :
       stack[t][m].evict /\ stack[t][n].evict /\ m # n =>
         Slot(stack[t][m].key) # Slot(stack[t][n].key)
  /\ Busy(Subscriber) => queue # <<>>

\* Messages, on their way to the queue and in it, and what was dealt with.
Messages ==
  /\ \A w \in Writer : writer[w].pc # "idle" =>
       LET m == writer[w].note IN m.list \in m.keys /\ m.change \in 1 .. list[m.list]
  /\ \A n \in 1 .. Len(queue) :
       /\ queue[n].list \in List /\ queue[n].change \in 1 .. list[queue[n].list]
       /\ n # 1 => queue[n].list \in queue[n].keys
  /\ \A l \in List : handled[l] <= list[l]

\* The last change of a list was dealt with or is announced.
Newest ==
  \A l \in List :
    \/ handled[l] = list[l]
    \/ \E w \in Writer :
         writer[w].pc # "idle" /\ writer[w].note.list = l /\ writer[w].note.change = list[l]
    \/ \E n \in 1 .. Len(queue) : queue[n].list = l /\ queue[n].change = list[l]

\* Redis has nothing from before a change that was tagged.
Shared ==
  \A l \in List : shared[l] # None =>
    /\ shared[l] >= handled[l] /\ shared[l] <= list[l]
    /\ \A w \in Writer : writer[w].pc = "publish" /\ writer[w].note.list = l =>
         shared[l] >= writer[w].note.change
    /\ \A n \in 1 .. Len(queue) : queue[n].list = l => shared[l] >= queue[n].change

\* A removal walks no key twice.
Apart ==
  \A t \in Thread : \A n \in 1 .. Len(stack[t]) : stack[t][n].front \cap stack[t][n].seen = {}

\* A call fetches for object o.
Fetching(g, o) == getter[g].pc = "fetch" /\ getter[g].object = o

\* The item in the cache has, or a fetch of it has read, version v of list l.
Knows(i, l, v) ==
  /\ core[i] # None
  /\ \/ /\ object[core[i]].state = "valid" /\ l \in Range(Lists(i))
        /\ object[core[i]].value[l] = v
     \/ \E g \in Getter : /\ Fetching(g, core[i])
                          /\ \E n \in 1 .. getter[g].done : Lists(i)[n] = l
                          /\ getter[g].value[l] = v

\* The item is in the cache, and whoever fetched it has linked it with list l.
Joined(i, l) ==
  /\ core[i] # None
  /\ \/ object[core[i]].state = "valid" /\ l \in Range(Lists(i))
     \/ \E g \in Getter :
          \/ Fetching(g, core[i]) /\ l \in Range(Lists(i))
          \/ /\ getter[g].pc = "back" /\ getter[g].object = core[i]
             /\ \E n \in 1 .. getter[g].done : Lists(i)[n] = l

\* The links of list l lead to it, until somebody is about to remove it.
Links == \A i \in Item, l \in List : Joined(i, l) => i \in links[l] \/ Leaving(i)

\* What an item has is from after what was dealt with, or the item will go.
Heard ==
  \A i \in Item, l \in List, v \in 0 .. MaxWrites :
    Knows(i, l, v) => v <= list[l] /\ (v >= handled[l] \/ Leaving(i))

\* What an item has is from after the message at hand too, or the item will go,
\* once the links of the message's list were walked.
HeadWalked ==
  queue # <<>> =>
    LET m == queue[1] IN
    \/ m.list \in m.keys
    \/ Busy(Subscriber) /\ m.list \in stack[Subscriber][1].front
    \/ \A i \in Item, v \in 0 .. MaxWrites :
         Knows(i, m.list, v) => v >= m.change \/ Leaving(i)

\* What a call waits for, or another one fetches for it, is not too old for it.
Served(g) ==
  /\ \A l \in List : floor[g][l] <= handled[l]
  /\ \A h \in Getter : Fetching(h, getter[g].object) =>
       \A n \in 1 .. getter[h].done :
         getter[h].value[Lists(getter[h].item)[n]] >= floor[g][Lists(getter[h].item)[n]]

Waiting == \A g \in Getter : getter[g].pc = "wait" => Served(g)

StateInv == TypeOK /\ Calls /\ Memory /\ Frames
ListInv == Messages /\ Newest /\ Shared
CacheInv == Apart /\ Links /\ Heard /\ HeadWalked /\ Waiting /\ NeverOlder

-----------------------------------------------------------------------------
(* Effects of steps on one variable.                                       *)

\* Items of the layout are linked with a list at least.
LEMMA LayoutFacts ==
  ASSUME TypeOK
  PROVE  /\ DOMAIN layout.lists \subseteq Item
         /\ \A i \in DOMAIN layout.lists :
              /\ Lists(i) \in Seq(List) /\ Len(Lists(i)) \in Nat \ {0}
              /\ DOMAIN Lists(i) = 1 .. Len(Lists(i))
              /\ Range(Lists(i)) \subseteq List
              /\ \A n \in 1 .. Len(Lists(i)) : Lists(i)[n] \in List
              /\ \A l : l \in Range(Lists(i)) <=> \E n \in 1 .. Len(Lists(i)) : Lists(i)[n] = l
         /\ \A call \in layout.calls : call.list \in call.keys /\ call.keys \subseteq List
<1>1. layout \in Layouts
  BY DEF TypeOK
<1>2. DOMAIN layout.lists \subseteq Item /\ \A i \in DOMAIN layout.lists : Lists(i) \in Seq(List) \ {<<>>}
  BY <1>1, LayoutAssumption DEF Lists
<1>3. ASSUME NEW s \in Seq(List) \ {<<>>}
      PROVE  /\ s \in Seq(List) /\ Len(s) \in Nat \ {0} /\ DOMAIN s = 1 .. Len(s)
             /\ Range(s) \subseteq List /\ \A n \in 1 .. Len(s) : s[n] \in List
             /\ \A l : l \in Range(s) <=> \E n \in 1 .. Len(s) : s[n] = l
  <2>1. Len(s) \in Nat /\ DOMAIN s = 1 .. Len(s) /\ \A n \in 1 .. Len(s) : s[n] \in List
    OBVIOUS
  <2>2. Len(s) # 0
    BY EmptySeq
  <2> QED
    BY <2>1, <2>2 DEF Range
<1>4. \A call \in layout.calls : call.list \in call.keys /\ call.keys \subseteq List
  BY <1>1, LayoutAssumption
<1> QED
  BY <1>2, <1>3, <1>4

\* Objects in use keep what they have, and the others are clear.
LEMMA SweptIs ==
  ASSUME NEW c, NEW gs, NEW os
  PROVE  /\ Swept(c, gs, os) = [o \in Object |-> IF o \in InUse(c, gs) THEN os[o] ELSE Unused]
         /\ \A g \in Getter : gs[g].object \in InUse(c, gs)
         /\ \A i \in DOMAIN c : c[i] \in InUse(c, gs)
         /\ \A o : o \in InUse(c, gs) <=>
              (\E i \in DOMAIN c : c[i] = o) \/ (\E g \in Getter : gs[g].object = o)
BY DEF Swept, InUse, Range

\* The innermost removal moves on.
LEMMA ReplaceTop ==
  ASSUME TypeOK, NEW t \in Thread, Busy(t), NEW f \in Frame, Replace(t, f)
  PROVE  /\ stack' \in [Thread -> Seq(Frame)]
         /\ \A u \in Thread : Len(stack'[u]) = Len(stack[u]) /\ (stack'[u] = <<>> <=> stack[u] = <<>>)
         /\ \A u \in Thread : \A n \in 1 .. Len(stack[u]) :
              stack'[u][n] = IF u = t /\ n = Len(stack[t]) THEN f ELSE stack[u][n]
<1>1. stack \in [Thread -> Seq(Frame)] /\ stack[t] \in Seq(Frame) /\ stack[t] # <<>>
  BY DEF TypeOK, Busy
<1>2. Len(stack[t]) \in Nat \ {0}
  BY <1>1, EmptySeq
<1> DEFINE s == [stack[t] EXCEPT ![Len(stack[t])] = f]
<1>3. stack' = [stack EXCEPT ![t] = s]
  BY DEF Replace
<1>4. /\ s \in Seq(Frame) /\ Len(s) = Len(stack[t])
      /\ \A n \in 1 .. Len(stack[t]) : s[n] = IF n = Len(stack[t]) THEN f ELSE stack[t][n]
  BY <1>1, <1>2
<1>5. s # <<>>
  BY <1>2, <1>4
<1> HIDE DEF s
<1> QED
  BY <1>1, <1>3, <1>4, <1>5

\* Another removal begins within it.
LEMMA PushTop ==
  ASSUME TypeOK, NEW t \in Thread, Busy(t), NEW f \in Frame, NEW e \in Frame,
         Push(t, f, e)
  PROVE  /\ stack' \in [Thread -> Seq(Frame)]
         /\ Len(stack'[t]) = Len(stack[t]) + 1 /\ Len(stack[t]) \in Nat \ {0}
         /\ stack'[t][Len(stack[t]) + 1] = e /\ stack'[t][Len(stack[t])] = f
         /\ \A n \in 1 .. Len(stack[t]) - 1 : stack'[t][n] = stack[t][n]
         /\ \A u \in Thread \ {t} : stack'[u] = stack[u]
<1>1. stack \in [Thread -> Seq(Frame)] /\ stack[t] \in Seq(Frame) /\ stack[t] # <<>>
  BY DEF TypeOK, Busy
<1>2. Len(stack[t]) \in Nat \ {0}
  BY <1>1, EmptySeq
<1> DEFINE r == [stack[t] EXCEPT ![Len(stack[t])] = f]
           s == Append(r, e)
<1>3. stack' = [stack EXCEPT ![t] = s]
  BY DEF Push
<1>4. /\ r \in Seq(Frame) /\ Len(r) = Len(stack[t])
      /\ \A n \in 1 .. Len(stack[t]) : r[n] = IF n = Len(stack[t]) THEN f ELSE stack[t][n]
  BY <1>1, <1>2
<1> HIDE DEF r
<1>5. /\ s \in Seq(Frame) /\ Len(s) = Len(stack[t]) + 1 /\ s[Len(stack[t]) + 1] = e
      /\ \A n \in 1 .. Len(stack[t]) : s[n] = r[n]
  BY <1>2, <1>4
<1> HIDE DEF s
<1>6. \A n \in 1 .. Len(stack[t]) - 1 : s[n] = stack[t][n]
  BY <1>2, <1>4, <1>5
<1>7. s[Len(stack[t])] = f
  BY <1>2, <1>4, <1>5
<1>8. stack'[t] = s /\ stack' \in [Thread -> Seq(Frame)] /\ \A u \in Thread \ {t} : stack'[u] = stack[u]
  BY <1>1, <1>3, <1>5
<1> QED
  BY <1>2, <1>5, <1>6, <1>7, <1>8

\* The innermost removal ends.
LEMMA PopTop ==
  ASSUME TypeOK, NEW t \in Thread, Busy(t),
         stack' = [stack EXCEPT ![t] = SubSeq(@, 1, Len(@) - 1)]
  PROVE  /\ stack' \in [Thread -> Seq(Frame)]
         /\ Len(stack[t]) \in Nat \ {0} /\ Len(stack'[t]) = Len(stack[t]) - 1
         /\ \A n \in 1 .. Len(stack'[t]) : stack'[t][n] = stack[t][n]
         /\ \A u \in Thread \ {t} : stack'[u] = stack[u]
<1>1. stack \in [Thread -> Seq(Frame)] /\ stack[t] \in Seq(Frame) /\ stack[t] # <<>>
  BY DEF TypeOK, Busy
<1>2. Len(stack[t]) \in Nat \ {0}
  BY <1>1, EmptySeq
<1> DEFINE s == SubSeq(stack[t], 1, Len(stack[t]) - 1)
<1>3. /\ s \in Seq(Frame) /\ Len(s) = Len(stack[t]) - 1
      /\ \A n \in 1 .. Len(stack[t]) - 1 : s[n] = stack[t][n]
  <2>1. \A n \in 1 .. Len(stack[t]) - 1 : stack[t][n] \in Frame
    BY <1>1, <1>2
  <2> QED
    BY <1>2, <2>1, SubSeqProperties
<1>4. stack' = [stack EXCEPT ![t] = s]
  OBVIOUS
<1> HIDE DEF s
<1> QED
  BY <1>1, <1>2, <1>3, <1>4

\* What a busy goroutine is at.
LEMMA TopIs ==
  ASSUME TypeOK, NEW t \in Thread, Busy(t)
  PROVE  /\ Len(stack[t]) \in Nat \ {0} /\ Len(stack[t]) \in 1 .. Len(stack[t])
         /\ Top(t) = stack[t][Len(stack[t])] /\ Top(t) \in Frame
<1>1. stack[t] \in Seq(Frame) /\ stack[t] # <<>>
  BY DEF TypeOK, Busy
<1>2. Len(stack[t]) \in Nat \ {0}
  BY <1>1, EmptySeq
<1> QED
  BY <1>1, <1>2 DEF Top

-----------------------------------------------------------------------------
(* Types, calls, memory and frames.                                        *)

CallState == [pc : {"idle", "wait", "add", "link", "back", "fetch"}, item : Item \cup {None},
              object : Object \cup {None}, done : Nat, value : [List -> 0 .. MaxWrites]]

ObjectState == [value : [List -> 0 .. MaxWrites], state : {"empty", "valid", "expired"},
                holder : Getter \cup {None}]

LEMMA NothingIs ==
  /\ NoChange \in [List -> 0 .. MaxWrites] /\ \A l \in List : NoChange[l] = 0
  /\ NoMessage \in Message /\ Unused \in ObjectState /\ AtRest \in CallState
BY DEF NoChange, NoMessage, Unused, AtRest, Message, ObjectState, CallState

\* Calls do not depend on how far removals are.
LEMMA CallsKept ==
  ASSUME Calls, UNCHANGED <<layout, getter, core>>,
         \A g \in Getter : stack[g] = <<>> => stack'[g] = <<>>
  PROVE  Calls'
BY DEF Calls, Lists

LEMMA MemoryKept ==
  ASSUME Memory, UNCHANGED <<layout, getter, core, object>>
  PROVE  Memory'
BY DEF Memory, InUse

LEMMA FramesKept ==
  ASSUME Frames, UNCHANGED <<layout, stack, core, slotLock>>, queue # <<>> => queue' # <<>>
  PROVE  Frames'
BY DEF Frames, Busy, Slot

\* A step of the innermost removal.
LEMMA TopMoves ==
  ASSUME StateInv, NEW t \in Thread, Busy(t), NEW f \in Frame, Replace(t, f),
         f.key = Top(t).key, f.evict = Top(t).evict,
         UNCHANGED <<layout, getter, core, object, slotLock, queue>>
  PROVE  stack' \in [Thread -> Seq(Frame)] /\ Calls' /\ Memory' /\ Frames'
<1>1. TypeOK /\ Calls /\ Memory /\ Frames
  BY DEF StateInv
<1>2. /\ stack' \in [Thread -> Seq(Frame)]
      /\ \A u \in Thread : Len(stack'[u]) = Len(stack[u]) /\ (stack'[u] = <<>> <=> stack[u] = <<>>)
      /\ \A u \in Thread : \A n \in 1 .. Len(stack[u]) :
           stack'[u][n] = IF u = t /\ n = Len(stack[t]) THEN f ELSE stack[u][n]
  BY <1>1, ReplaceTop
<1>3. Calls' /\ Memory'
  BY <1>1, <1>2, CallsKept, MemoryKept DEF Thread
<1>4. Top(t) = stack[t][Len(stack[t])]
  BY DEF Top
<1>5. \A u \in Thread : \A n \in 1 .. Len(stack[u]) :
        stack'[u][n].key = stack[u][n].key /\ stack'[u][n].evict = stack[u][n].evict
  BY <1>2, <1>4
<1>6. Frames'
  <2>1. \A u \in Thread : \A n \in 1 .. Len(stack'[u]) :
          /\ stack'[u][n].evict <=> ~(u = Subscriber /\ n = 1)
          /\ stack'[u][n].evict => /\ stack'[u][n].key \in Item /\ core[stack'[u][n].key] = None
                                   /\ slotLock[Slot(stack'[u][n].key)] = u
    BY <1>1, <1>2, <1>5 DEF Frames
  <2>2. \A u \in Thread : \A m, n \in 1 .. Len(stack'[u]) :
          stack'[u][m].evict /\ stack'[u][n].evict /\ m # n =>
            Slot(stack'[u][m].key) # Slot(stack'[u][n].key)
    BY <1>1, <1>2, <1>5 DEF Frames
  <2>3. Busy(Subscriber)' => queue' # <<>>
    BY <1>1, <1>2 DEF Frames, Busy, Thread
  <2> QED
    BY <2>1, <2>2, <2>3 DEF Frames, Slot
<1> QED
  BY <1>2, <1>3, <1>6

LEMMA WritersState ==
  ASSUME StateInv, NEW w \in Writer, Changing(w)
  PROVE  StateInv'
<1>1. TypeOK /\ Calls /\ Memory /\ Frames
  BY DEF StateInv
<1>2. /\ UNCHANGED <<layout, cache, getter, stack, handled, floor, gets>>
      /\ queue # <<>> => queue' # <<>>
  BY <1>1 DEF Changing, Write, Tag, Publish, TypeOK
<1>3. Calls' /\ Memory' /\ Frames'
  BY <1>1, <1>2, CallsKept, MemoryKept, FramesKept
<1>4. /\ list' \in [List -> 0 .. MaxWrites] /\ shared' \in [List -> (0 .. MaxWrites) \cup {None}]
      /\ writer' \in [Writer -> [pc : {"idle", "tag", "publish"}, note : Message]]
      /\ queue' \in Seq(Message)
  <2>0. /\ list \in [List -> 0 .. MaxWrites] /\ shared \in [List -> (0 .. MaxWrites) \cup {None}]
        /\ writer \in [Writer -> [pc : {"idle", "tag", "publish"}, note : Message]]
        /\ queue \in Seq(Message)
    BY <1>1 DEF TypeOK
  <2>1. ASSUME NEW call \in layout.calls, Write(w, call) 
        PROVE  /\ list' \in [List -> 0 .. MaxWrites] /\ shared' \in [List -> (0 .. MaxWrites) \cup {None}]
               /\ writer' \in [Writer -> [pc : {"idle", "tag", "publish"}, note : Message]]
               /\ queue' \in Seq(Message)
    <3>1. call.list \in List /\ call.keys \subseteq List
      BY <1>1, LayoutFacts
    <3>2. list[call.list] + 1 \in 0 .. MaxWrites
      BY <2>0, <2>1, <3>1 DEF Write
    <3> DEFINE m == [keys |-> call.keys, list |-> call.list, change |-> list[call.list] + 1]
    <3>3. m \in Message
      BY <3>1, <3>2 DEF Message
    <3> QED
      BY <2>0, <2>1, <3>1, <3>2, <3>3 DEF Write
  <2>2. CASE Tag(w)
    BY <2>0, <2>2 DEF Tag
  <2>3. CASE Publish(w)
    BY <2>0, <2>3, NothingIs DEF Publish
  <2> QED
    BY <2>1, <2>2, <2>3 DEF Changing
<1>5. TypeOK'
  BY <1>1, <1>2, <1>4 DEF TypeOK, Slots
<1> QED
  BY <1>3, <1>5 DEF StateInv

LEMMA WalkState ==
  ASSUME StateInv, NEW t \in Thread, Walk(t)
  PROVE  StateInv'
<1>1. TypeOK /\ Calls /\ Memory /\ Frames
  BY DEF StateInv
<1>2. PICK k \in Top(t).front :
        LET f == Top(t)  seen == f.seen \cup {k} IN
        /\ Replace(t, [f EXCEPT !.seen = seen, !.front = (f.front \cup links[k]) \ seen])
        /\ links' = [links EXCEPT ![k] = {}]
  BY DEF Walk
<1>3. Top(t) \in Frame /\ k \in Key /\ links \in [Key -> SUBSET Key] /\ Busy(t)
  BY <1>1, TopIs DEF Walk, Frame, TypeOK
<1> DEFINE f == [Top(t) EXCEPT !.seen = Top(t).seen \cup {k},
                               !.front = (Top(t).front \cup links[k]) \ (Top(t).seen \cup {k})]
<1>4. f \in Frame /\ f.key = Top(t).key /\ f.evict = Top(t).evict
  BY <1>3 DEF Frame
<1>5. Replace(t, f)
  BY <1>2
<1>6. UNCHANGED <<layout, lists, queue, core, object, slotLock, getter, handled, floor, gets>>
  BY DEF Walk
<1> HIDE DEF f
<1>7. stack' \in [Thread -> Seq(Frame)] /\ Calls' /\ Memory' /\ Frames'
  BY <1>3, <1>4, <1>5, <1>6, TopMoves
<1>8. links' \in [Key -> SUBSET Key]
  BY <1>2, <1>3
<1>9. TypeOK'
  BY <1>1, <1>6, <1>7, <1>8 DEF TypeOK, Slots
<1> QED
  BY <1>7, <1>9 DEF StateInv

LEMMA RemoveNothingState ==
  ASSUME StateInv, NEW t \in Thread, RemoveLists(t) \/ RemoveMissing(t)
  PROVE  StateInv'
<1>1. TypeOK /\ Calls /\ Memory /\ Frames
  BY DEF StateInv
<1>2. PICK ks : Replace(t, [Top(t) EXCEPT !.seen = @ \ ks])
  BY DEF RemoveLists, RemoveMissing, Removed
<1>3. Top(t) \in Frame /\ Busy(t)
  BY <1>1, TopIs DEF RemoveLists, RemoveMissing, Removing
<1> DEFINE f == [Top(t) EXCEPT !.seen = @ \ ks]
<1>4. f \in Frame /\ f.key = Top(t).key /\ f.evict = Top(t).evict
  BY <1>3 DEF Frame
<1>5. Replace(t, f)
  BY <1>2
<1>6. UNCHANGED <<layout, lists, queue, cache, getter, handled, floor, gets>>
  BY DEF RemoveLists, RemoveMissing
<1> HIDE DEF f
<1>7. stack' \in [Thread -> Seq(Frame)] /\ Calls' /\ Memory' /\ Frames'
  BY <1>3, <1>4, <1>5, <1>6, TopMoves
<1>8. TypeOK'
  BY <1>1, <1>6, <1>7 DEF TypeOK, Slots
<1> QED
  BY <1>7, <1>8 DEF StateInv

\* Objects that stay in use keep what they have when others are cleared.
LEMMA SweepKeeps ==
  ASSUME NEW c \in [Item -> Object \cup {None}],
         NEW gs \in [Getter -> CallState], NEW os \in [Object -> ObjectState]
  PROVE  /\ Swept(c, gs, os) \in [Object -> ObjectState]
         /\ \A g \in Getter : gs[g].object \in Object => Swept(c, gs, os)[gs[g].object] = os[gs[g].object]
         /\ \A i \in Item : c[i] # None => Swept(c, gs, os)[c[i]] = os[c[i]]
         /\ \A o \in Object : o \notin InUse(c, gs) => Swept(c, gs, os)[o] = Unused
<1>1. DOMAIN c = Item
  OBVIOUS
<1> QED
  BY <1>1, SweptIs, NothingIs

LEMMA RemoveState ==
  ASSUME StateInv, NEW t \in Thread, Remove(t)
  PROVE  StateInv'
<1>1. TypeOK /\ Calls /\ Memory /\ Frames
  BY DEF StateInv
<1>2. /\ UNCHANGED <<layout, lists, queue, links, getter, handled, floor, gets>>
      /\ object' = Swept(core', getter, object) /\ Busy(t)
  BY DEF Remove, Removing
<1>3. PICK i \in Remaining(Top(t)) \cap Item :
       /\ slotLock[Slot(i)] = None /\ core[i] # None
       /\ core' = [core EXCEPT ![i] = None]
       /\ slotLock' = [slotLock EXCEPT ![Slot(i)] = t]
       /\ Push(t, Removed(Top(t), i), Removal(i, TRUE))
  BY DEF Remove
<1>4. Top(t) \in Frame /\ Len(stack[t]) \in Nat \ {0} /\ Top(t) = stack[t][Len(stack[t])]
  BY <1>1, <1>2, TopIs
<1> DEFINE f == Removed(Top(t), i)
           e == Removal(i, TRUE)
           n == Len(stack[t])
<1>5. f \in Frame /\ f.key = Top(t).key /\ f.evict = Top(t).evict
  BY <1>4 DEF Frame, Removed
<1>6. e \in Frame /\ e.key = i /\ e.evict
  BY DEF Frame, Removal, Key
<1>7. Push(t, f, e)
  BY <1>3
<1> HIDE DEF f, e
<1>8. /\ stack' \in [Thread -> Seq(Frame)]
      /\ Len(stack'[t]) = n + 1 /\ stack'[t][n + 1] = e /\ stack'[t][n] = f
      /\ \A m \in 1 .. n - 1 : stack'[t][m] = stack[t][m]
      /\ \A u \in Thread \ {t} : stack'[u] = stack[u]
  BY <1>1, <1>2, <1>5, <1>6, <1>7, PushTop
<1>9. /\ core' \in [Item -> Object \cup {None}] /\ slotLock' \in [Slots -> Thread \cup {None}]
      /\ core'[i] = None /\ \A j \in Item \ {i} : core'[j] = core[j]
      /\ Slot(i) \in Slots /\ slotLock'[Slot(i)] = t
      /\ \A z \in Slots \ {Slot(i)} : slotLock'[z] = slotLock[z]
  BY <1>1, <1>3 DEF TypeOK, Slots, Slot, Key
<1>10. /\ object' \in [Object -> ObjectState]
       /\ \A g \in Getter : getter[g].object \in Object => object'[getter[g].object] = object[getter[g].object]
       /\ \A j \in Item : core'[j] # None => object'[core'[j]] = object[core'[j]]
       /\ \A o \in Object : o \notin InUse(core', getter) => object'[o] = Unused
  <2>1. getter \in [Getter -> CallState] /\ object \in [Object -> ObjectState]
    BY <1>1 DEF TypeOK, CallState, ObjectState
  <2> QED
    BY <1>2, <1>9, <2>1, SweepKeeps
<1>11. Calls'
  <2>1. \A g \in Getter : stack[g] = <<>> => stack'[g] = <<>>
    BY <1>2, <1>8 DEF Busy, Thread
  <2> QED
    BY <1>1, <1>2, <1>9, <2>1 DEF Calls, Lists
<1>12. Memory'
  BY <1>1, <1>2, <1>9, <1>10 DEF Memory
<1>13. TypeOK'
  <2>1. \A j, k \in Item : core'[j] = core'[k] => j = k \/ core'[j] = None
    BY <1>1, <1>9 DEF TypeOK
  <2>2. \A g \in Getter : getter[g].pc \in {"add", "link", "back", "fetch"} =>
          object'[getter[g].object].holder = g
    <3>1. \A g \in Getter : getter[g].pc \in {"add", "link", "back", "fetch"} => getter[g].object \in Object
      BY <1>1 DEF Calls
    <3> QED
      BY <1>1, <1>10, <3>1 DEF TypeOK
  <2> QED
    BY <1>1, <1>2, <1>8, <1>9, <1>10, <2>1, <2>2 DEF TypeOK, Slots, ObjectState
<1>14. Frames'
  <2>1. \A u \in Thread : \A m \in 1 .. Len(stack[u]) :
          /\ m \in 1 .. Len(stack'[u])
          /\ stack'[u][m].key = stack[u][m].key /\ stack'[u][m].evict = stack[u][m].evict
    <3> SUFFICES ASSUME NEW u \in Thread, NEW m \in 1 .. Len(stack[u])
                 PROVE  /\ m \in 1 .. Len(stack'[u])
                        /\ stack'[u][m].key = stack[u][m].key /\ stack'[u][m].evict = stack[u][m].evict
      OBVIOUS
    <3>1. CASE u # t
      BY <1>8, <3>1
    <3>2. CASE u = t /\ m = n
      BY <1>4, <1>5, <1>8, <3>2
    <3>3. CASE u = t /\ m # n
      <4>1. m \in 1 .. n - 1 /\ m \in 1 .. n + 1
        BY <1>4, <3>3
      <4> QED
        BY <1>8, <3>3, <4>1
    <3> QED
      BY <3>1, <3>2, <3>3
  <2>2. \A u \in Thread : \A m \in 1 .. Len(stack'[u]) :
          m \in 1 .. Len(stack[u]) \/ (u = t /\ m = n + 1)
    BY <1>4, <1>8
  <2>3. /\ stack'[t][n + 1].key = i /\ stack'[t][n + 1].evict
        /\ ~(t = Subscriber /\ n + 1 = 1) /\ slotLock'[Slot(i)] = t
    BY <1>4, <1>6, <1>8, <1>9
  <2>4. ASSUME NEW u \in Thread, NEW m \in 1 .. Len(stack[u]), stack[u][m].evict
        PROVE  /\ stack[u][m].key \in Item /\ core'[stack[u][m].key] = None
               /\ slotLock'[Slot(stack[u][m].key)] = u /\ Slot(stack[u][m].key) # Slot(i)
    <3>1. /\ stack[u][m].key \in Item /\ core[stack[u][m].key] = None
          /\ slotLock[Slot(stack[u][m].key)] = u
      BY <1>1, <2>4 DEF Frames
    <3>2. Slot(stack[u][m].key) # Slot(i) /\ Slot(stack[u][m].key) \in Slots
      BY <1>3, <3>1 DEF Thread, Slots, Slot, Key
    <3> QED
      BY <1>9, <3>1, <3>2
  <2>5. \A u \in Thread : \A m \in 1 .. Len(stack'[u]) :
          /\ stack'[u][m].evict <=> ~(u = Subscriber /\ m = 1)
          /\ stack'[u][m].evict => /\ stack'[u][m].key \in Item /\ core'[stack'[u][m].key] = None
                                   /\ slotLock'[Slot(stack'[u][m].key)] = u
    <3> SUFFICES ASSUME NEW u \in Thread, NEW m \in 1 .. Len(stack'[u])
                 PROVE  /\ stack'[u][m].evict <=> ~(u = Subscriber /\ m = 1)
                        /\ stack'[u][m].evict =>
                             /\ stack'[u][m].key \in Item /\ core'[stack'[u][m].key] = None
                             /\ slotLock'[Slot(stack'[u][m].key)] = u
      OBVIOUS
    <3>1. CASE m \in 1 .. Len(stack[u])
      <4>1. stack[u][m].evict <=> ~(u = Subscriber /\ m = 1)
        BY <1>1, <3>1 DEF Frames
      <4> QED
        BY <2>1, <2>4, <3>1, <4>1
    <3>2. CASE u = t /\ m = n + 1
      BY <1>9, <2>3, <3>2
    <3> QED
      BY <2>2, <3>1, <3>2
  <2>6. \A u \in Thread : \A m, l \in 1 .. Len(stack'[u]) :
          stack'[u][m].evict /\ stack'[u][l].evict /\ m # l =>
            Slot(stack'[u][m].key) # Slot(stack'[u][l].key)
    <3> SUFFICES ASSUME NEW u \in Thread, NEW m \in 1 .. Len(stack'[u]), NEW l \in 1 .. Len(stack'[u]),
                        stack'[u][m].evict, stack'[u][l].evict, m # l
                 PROVE  Slot(stack'[u][m].key) # Slot(stack'[u][l].key)
      OBVIOUS
    <3>1. CASE m \in 1 .. Len(stack[u]) /\ l \in 1 .. Len(stack[u])
      <4>1. Slot(stack[u][m].key) # Slot(stack[u][l].key)
        BY <1>1, <2>1, <3>1 DEF Frames
      <4> QED
        BY <2>1, <3>1, <4>1
    <3>2. CASE m \in 1 .. Len(stack[u]) /\ u = t /\ l = n + 1
      BY <2>1, <2>3, <2>4, <3>2
    <3>3. CASE l \in 1 .. Len(stack[u]) /\ u = t /\ m = n + 1
      BY <2>1, <2>3, <2>4, <3>3
    <3> QED
      BY <2>2, <3>1, <3>2, <3>3
  <2>7. Busy(Subscriber)' => queue' # <<>>
    BY <1>1, <1>2, <1>8 DEF Frames, Busy, Thread
  <2> QED
    BY <1>2, <2>5, <2>6, <2>7 DEF Frames, Slot
<1> QED
  BY <1>11, <1>12, <1>13, <1>14 DEF StateInv

LEMMA EvictDoneState ==
  ASSUME StateInv, NEW t \in Thread, EvictDone(t)
  PROVE  StateInv'
<1>1. TypeOK /\ Calls /\ Memory /\ Frames
  BY DEF StateInv
<1>2. /\ UNCHANGED <<layout, lists, queue, core, object, links, getter, handled, floor, gets>>
      /\ Busy(t) /\ Top(t).evict
      /\ stack' = [stack EXCEPT ![t] = SubSeq(@, 1, Len(@) - 1)]
      /\ slotLock' = IF t \in Getter /\ Len(stack[t]) = 1 THEN slotLock
                     ELSE [slotLock EXCEPT ![Slot(Top(t).key)] = None]
  BY DEF EvictDone, Removing
<1> DEFINE n == Len(stack[t])
<1>3. /\ stack' \in [Thread -> Seq(Frame)] /\ n \in Nat \ {0} /\ Len(stack'[t]) = n - 1
      /\ \A m \in 1 .. Len(stack'[t]) : stack'[t][m] = stack[t][m]
      /\ \A u \in Thread \ {t} : stack'[u] = stack[u]
  BY <1>1, <1>2, PopTop
<1>4. Top(t) = stack[t][n]
  BY DEF Top
<1> HIDE DEF n
<1>5. \A u \in Thread : \A m \in 1 .. Len(stack'[u]) :
        /\ m \in 1 .. Len(stack[u]) /\ stack'[u][m] = stack[u][m] /\ ~(u = t /\ m = n)
  BY <1>3 DEF n
<1>6. /\ Top(t).key \in Item /\ slotLock[Slot(Top(t).key)] = t
      /\ \A m \in 1 .. n : m # n /\ stack[t][m].evict => Slot(stack[t][m].key) # Slot(Top(t).key)
  <2>1. n \in 1 .. Len(stack[t])
    BY <1>3 DEF n
  <2> QED
    BY <1>1, <1>2, <1>4, <2>1 DEF Frames, n
<1>7. slotLock' \in [Slots -> Thread \cup {None}]
  BY <1>1, <1>2 DEF TypeOK
<1>8. ASSUME NEW u \in Thread, NEW m \in 1 .. Len(stack'[u]), stack'[u][m].evict
      PROVE  slotLock'[Slot(stack'[u][m].key)] = u
  <2>1. /\ stack[u][m].key \in Item /\ slotLock[Slot(stack[u][m].key)] = u
        /\ stack'[u][m] = stack[u][m] /\ m \in 1 .. Len(stack[u])
    BY <1>1, <1>5, <1>8 DEF Frames
  <2>2. Slot(stack[u][m].key) # Slot(Top(t).key)
    <3>1. CASE u = t
      BY <1>5, <1>6, <1>8, <2>1, <3>1 DEF n
    <3>2. CASE u # t
      BY <1>6, <2>1, <3>2
    <3> QED
      BY <3>1, <3>2
  <2>3. Slot(stack[u][m].key) \in Slots
    BY <2>1 DEF Slots, Slot, Key
  <2> QED
    BY <1>1, <1>2, <2>1, <2>2, <2>3 DEF TypeOK
<1>9. \A u \in Thread : stack[u] = <<>> => stack'[u] = <<>>
  BY <1>2, <1>3 DEF Busy
<1>10. Calls' /\ Memory'
  BY <1>1, <1>2, <1>9, CallsKept, MemoryKept DEF Thread
<1>11. Frames'
  <2>1. \A u \in Thread : \A m \in 1 .. Len(stack'[u]) :
          /\ stack'[u][m].evict <=> ~(u = Subscriber /\ m = 1)
          /\ stack'[u][m].evict => /\ stack'[u][m].key \in Item /\ core[stack'[u][m].key] = None
                                   /\ slotLock'[Slot(stack'[u][m].key)] = u
    BY <1>1, <1>5, <1>8 DEF Frames
  <2>2. \A u \in Thread : \A m, l \in 1 .. Len(stack'[u]) :
          stack'[u][m].evict /\ stack'[u][l].evict /\ m # l =>
            Slot(stack'[u][m].key) # Slot(stack'[u][l].key)
    BY <1>1, <1>5 DEF Frames
  <2>3. Busy(Subscriber)' => queue' # <<>>
    BY <1>1, <1>2, <1>9 DEF Frames, Busy, Thread
  <2>4. layout' = layout /\ core' = core
    BY <1>2
  <2> QED
    BY <2>1, <2>2, <2>3, <2>4 DEF Frames, Slot
<1>12. TypeOK'
  BY <1>1, <1>2, <1>3, <1>7 DEF TypeOK, Slots
<1> QED
  BY <1>10, <1>11, <1>12 DEF StateInv

LEMMA SubscriberState ==
  ASSUME StateInv, DelKey \/ DelKeyDone
  PROVE  StateInv'
<1>1. TypeOK /\ Calls /\ Memory /\ Frames
  BY DEF StateInv
<1>2. /\ UNCHANGED <<layout, list, shared, writer, core, object, slotLock, links, getter, floor, gets>>
      /\ queue # <<>> /\ Subscriber \in Thread
  BY <1>1 DEF DelKey, DelKeyDone, Removing, Frames, Thread
<1>3. queue \in Seq(Message) /\ stack \in [Thread -> Seq(Frame)] /\ queue[1] \in Message /\ Len(queue) \in Nat \ {0}
  <2>1. queue \in Seq(Message) /\ stack \in [Thread -> Seq(Frame)]
    BY <1>1 DEF TypeOK
  <2>2. Len(queue) \in Nat \ {0}
    BY <1>2, <2>1, EmptySeq
  <2> QED
    BY <2>1, <2>2
<1>4. CASE DelKey
  <2>1. PICK k \in queue[1].keys :
          /\ stack' = [stack EXCEPT ![Subscriber] = <<Removal(k, FALSE)>>]
          /\ queue' = [queue EXCEPT ![1].keys = @ \ {k}]
    BY <1>4 DEF DelKey
  <2> DEFINE e == Removal(k, FALSE)
             s == <<e>>
  <2>2. e \in Frame /\ ~e.evict
    BY <1>3 DEF Removal, Frame, Message, Key
  <2>3. s \in Seq(Frame) /\ Len(s) = 1 /\ ~s[1].evict
    <3> HIDE DEF e
    <3>1. s[1] = e
      OBVIOUS
    <3> QED
      BY <2>2, <3>1
  <2> HIDE DEF s
  <2>4. /\ stack' \in [Thread -> Seq(Frame)] /\ stack'[Subscriber] = s
        /\ \A u \in Thread \ {Subscriber} : stack'[u] = stack[u]
    BY <1>2, <1>3, <2>1, <2>3 DEF s
  <2> DEFINE m == [queue[1] EXCEPT !.keys = @ \ {k}]
  <2>5. m \in Message
    BY <1>3 DEF Message
  <2>6. queue' = [queue EXCEPT ![1] = m]
    BY <2>1
  <2> HIDE DEF m
  <2>7. queue' \in Seq(Message) /\ Len(queue') = Len(queue)
    BY <1>3, <2>5, <2>6
  <2>8. queue' # <<>>
    BY <1>3, <2>7
  <2>9. UNCHANGED handled
    BY <1>4 DEF DelKey
  <2>10. \A g \in Getter : stack'[g] = stack[g]
    BY <2>4 DEF Thread
  <2>11. Calls' /\ Memory'
    BY <1>1, <1>2, <2>10, CallsKept, MemoryKept
  <2>12. Frames'
    <3>1. \A u \in Thread : \A n \in 1 .. Len(stack'[u]) :
            /\ stack'[u][n].evict <=> ~(u = Subscriber /\ n = 1)
            /\ stack'[u][n].evict => /\ stack'[u][n].key \in Item /\ core[stack'[u][n].key] = None
                                     /\ slotLock[Slot(stack'[u][n].key)] = u
      <4> SUFFICES ASSUME NEW u \in Thread, NEW n \in 1 .. Len(stack'[u])
                   PROVE  /\ stack'[u][n].evict <=> ~(u = Subscriber /\ n = 1)
                          /\ stack'[u][n].evict =>
                               /\ stack'[u][n].key \in Item /\ core[stack'[u][n].key] = None
                               /\ slotLock[Slot(stack'[u][n].key)] = u
        OBVIOUS
      <4>1. CASE u = Subscriber
        <5>1. n = 1 /\ stack'[u] = s
          <6>1. stack'[u] = s /\ Len(stack'[u]) = 1
            BY <2>3, <2>4, <4>1
          <6> QED
            BY <6>1
        <5> QED
          BY <2>3, <4>1, <5>1
      <4>2. CASE u # Subscriber
        BY <1>1, <2>4, <4>2 DEF Frames
      <4> QED
        BY <4>1, <4>2
    <3>2. \A u \in Thread : \A i, n \in 1 .. Len(stack'[u]) :
            stack'[u][i].evict /\ stack'[u][n].evict /\ i # n =>
              Slot(stack'[u][i].key) # Slot(stack'[u][n].key)
      <4> SUFFICES ASSUME NEW u \in Thread, NEW i \in 1 .. Len(stack'[u]), NEW n \in 1 .. Len(stack'[u]),
                          stack'[u][i].evict, stack'[u][n].evict, i # n
                   PROVE  Slot(stack'[u][i].key) # Slot(stack'[u][n].key)
        OBVIOUS
      <4>1. CASE u = Subscriber
        <5>1. i = 1 /\ n = 1
          <6>1. Len(stack'[u]) = 1
            BY <2>3, <2>4, <4>1
          <6> QED
            BY <6>1
        <5> QED
          BY <5>1
      <4>2. CASE u # Subscriber
        BY <1>1, <2>4, <4>2 DEF Frames
      <4> QED
        BY <4>1, <4>2
    <3> QED
      BY <1>2, <2>8, <3>1, <3>2 DEF Frames, Slot
  <2>13. TypeOK'
    BY <1>1, <1>2, <2>4, <2>7, <2>9 DEF TypeOK, Slots
  <2> QED
    BY <2>11, <2>12, <2>13 DEF StateInv
<1>5. CASE DelKeyDone
  <2>1. /\ stack' = [stack EXCEPT ![Subscriber] = <<>>]
        /\ \/ /\ queue' = Tail(queue)
              /\ handled' = [handled EXCEPT ![queue[1].list] =
                               IF queue[1].change > @ THEN queue[1].change ELSE @]
           \/ UNCHANGED <<queue, handled>>
    BY <1>5 DEF DelKeyDone
  <2>2. /\ stack' \in [Thread -> Seq(Frame)] /\ stack'[Subscriber] = <<>>
        /\ \A u \in Thread \ {Subscriber} : stack'[u] = stack[u]
    BY <1>2, <1>3, <2>1
  <2>3. queue' \in Seq(Message)
    <3>1. Tail(queue) \in Seq(Message)
      BY <1>2, <1>3, HeadTailProperties
    <3> QED
      BY <1>3, <2>1, <3>1
  <2>4. handled' \in [List -> 0 .. MaxWrites]
    <3>1. handled \in [List -> 0 .. MaxWrites]
      BY <1>1 DEF TypeOK
    <3>2. queue[1].change \in 0 .. MaxWrites
      BY <1>3 DEF Message
    <3> QED
      BY <2>1, <3>1, <3>2
  <2>5. \A g \in Getter : stack'[g] = stack[g]
    BY <2>2 DEF Thread
  <2>6. Calls' /\ Memory'
    BY <1>1, <1>2, <2>5, CallsKept, MemoryKept
  <2>7. Len(stack'[Subscriber]) = 0
    BY <2>2
  <2>8. \A u \in Thread : \A n \in 1 .. Len(stack'[u]) : stack'[u] = stack[u]
    BY <2>2, <2>7
  <2>9. \A u \in Thread : \A n \in 1 .. Len(stack'[u]) :
            /\ stack'[u][n].evict <=> ~(u = Subscriber /\ n = 1)
            /\ stack'[u][n].evict => /\ stack'[u][n].key \in Item /\ core[stack'[u][n].key] = None
                                     /\ slotLock[Slot(stack'[u][n].key)] = u
    BY <1>1, <2>8 DEF Frames
  <2>10. \A u \in Thread : \A i, n \in 1 .. Len(stack'[u]) :
            stack'[u][i].evict /\ stack'[u][n].evict /\ i # n =>
              Slot(stack'[u][i].key) # Slot(stack'[u][n].key)
    BY <1>1, <2>8 DEF Frames
  <2>11. ~Busy(Subscriber)'
    BY <2>2 DEF Busy
  <2>12. Frames'
    BY <1>2, <2>9, <2>10, <2>11 DEF Frames, Slot
  <2>13. TypeOK'
    BY <1>1, <1>2, <2>2, <2>3, <2>4 DEF TypeOK, Slots
  <2> QED
    BY <2>6, <2>12, <2>13 DEF StateInv
<1> QED
  BY <1>4, <1>5

\* Call g is at c next, with the same object.
Moves(g, c) ==
  /\ getter' = [getter EXCEPT ![g] = c]
  /\ c.pc \notin {"idle", "add"} /\ c.item = getter[g].item /\ c.object = getter[g].object
  /\ c.pc \notin {"back", "fetch"} => c.done = 0
  /\ c.pc = "back" => c.done < Len(Lists(c.item))
  /\ c.pc = "fetch" => c.done <= Len(Lists(c.item))

\* A call goes on with its object.
LEMMA CallMoves ==
  ASSUME StateInv, NEW g \in Getter, NEW c \in CallState, Moves(g, c),
         getter[g].pc # "idle", stack[g] = <<>>, UNCHANGED <<layout, core, stack>>
  PROVE  /\ getter' \in [Getter -> CallState] /\ Calls'
         /\ InUse(core', getter') = InUse(core, getter)
         /\ c.object \in Object
<1>0. /\ getter' = [getter EXCEPT ![g] = c]
      /\ c.pc \notin {"idle", "add"} /\ c.item = getter[g].item /\ c.object = getter[g].object
      /\ c.pc \notin {"back", "fetch"} => c.done = 0
      /\ c.pc = "back" => c.done < Len(Lists(c.item))
      /\ c.pc = "fetch" => c.done <= Len(Lists(c.item))
  BY DEF Moves
<1>1. Calls /\ getter \in [Getter -> CallState]
  BY DEF StateInv, TypeOK, CallState
<1>2. /\ getter' \in [Getter -> CallState] /\ getter'[g] = c
      /\ \A h \in Getter : h # g => getter'[h] = getter[h]
  BY <1>0, <1>1
<1>3. \A h \in Getter : getter'[h].item = getter[h].item /\ getter'[h].object = getter[h].object
  BY <1>0, <1>2
<1>4. InUse(core', getter') = InUse(core, getter)
  BY <1>3 DEF InUse
<1>5. ASSUME NEW h \in Getter
      PROVE  /\ getter'[h].pc = "idle" => getter'[h] = AtRest
             /\ getter'[h].pc # "idle" =>
                  getter'[h].item \in DOMAIN layout.lists /\ getter'[h].object \in Object
             /\ getter'[h].pc # "add" => stack[h] = <<>>
             /\ getter'[h].pc \notin {"back", "fetch"} => getter'[h].done = 0
             /\ getter'[h].pc = "back" => getter'[h].done < Len(Lists(getter'[h].item))
             /\ getter'[h].pc = "fetch" => getter'[h].done <= Len(Lists(getter'[h].item))
             /\ \A j \in Item : core[j] # None /\ core[j] = getter'[h].object => j = getter'[h].item
  <2>1. CASE h = g
    BY <1>0, <1>1, <1>2, <2>1 DEF Calls
  <2>2. CASE h # g
    BY <1>1, <1>2, <2>2 DEF Calls
  <2> QED
    BY <2>1, <2>2
<1>6. \A h, k \in Getter : getter'[h].object = getter'[k].object /\ getter'[h].object # None =>
        getter'[h].item = getter'[k].item
  BY <1>1, <1>3 DEF Calls
<1>7. Calls'
  BY <1>5, <1>6 DEF Calls, Lists
<1> QED
  BY <1>0, <1>1, <1>2, <1>4, <1>7 DEF Calls

\* A call is over.
LEMMA CallEnds ==
  ASSUME StateInv, NEW g \in Getter, getter' = [getter EXCEPT ![g] = AtRest], stack[g] = <<>>,
         UNCHANGED <<layout, core, stack>>
  PROVE  getter' \in [Getter -> CallState] /\ Calls'
<1>1. Calls /\ getter \in [Getter -> CallState]
  BY DEF StateInv, TypeOK, CallState
<1>2. /\ getter' \in [Getter -> CallState] /\ getter'[g] = AtRest
      /\ \A h \in Getter : h # g => getter'[h] = getter[h]
  BY <1>1, NothingIs
<1>3. AtRest.pc = "idle" /\ AtRest.object = None /\ AtRest.done = 0
  BY DEF AtRest
<1>4. ASSUME NEW h \in Getter
      PROVE  /\ getter'[h].pc = "idle" => getter'[h] = AtRest
             /\ getter'[h].pc # "idle" =>
                  getter'[h].item \in DOMAIN layout.lists /\ getter'[h].object \in Object
             /\ getter'[h].pc # "add" => stack[h] = <<>>
             /\ getter'[h].pc \notin {"back", "fetch"} => getter'[h].done = 0
             /\ getter'[h].pc = "back" => getter'[h].done < Len(Lists(getter'[h].item))
             /\ getter'[h].pc = "fetch" => getter'[h].done <= Len(Lists(getter'[h].item))
             /\ \A j \in Item : core[j] # None /\ core[j] = getter'[h].object => j = getter'[h].item
  <2>1. CASE h = g
    BY <1>2, <1>3, <2>1
  <2>2. CASE h # g
    BY <1>1, <1>2, <2>2 DEF Calls
  <2> QED
    BY <2>1, <2>2
<1>5. \A h, k \in Getter : getter'[h].object = getter'[k].object /\ getter'[h].object # None =>
        getter'[h].item = getter'[k].item
  BY <1>1, <1>2, <1>3 DEF Calls
<1>6. Calls'
  BY <1>4, <1>5 DEF Calls, Lists
<1> QED
  BY <1>2, <1>6

LEMMA AddedState ==
  ASSUME StateInv, NEW g \in Getter, Added(g)
  PROVE  StateInv'
<1>1. TypeOK /\ Calls /\ Memory /\ Frames
  BY DEF StateInv
<1>2. /\ UNCHANGED <<layout, lists, queue, core, object, links, stack, handled, floor, gets>>
      /\ slotLock' = [s \in Slots |-> IF slotLock[s] = g THEN None ELSE slotLock[s]]
      /\ getter' = [getter EXCEPT ![g].pc = "link"] /\ getter[g].pc = "add" /\ stack[g] = <<>>
  BY DEF Added, Busy
<1> DEFINE c == [getter[g] EXCEPT !.pc = "link"]
<1>3. getter \in [Getter -> CallState] /\ slotLock \in [Slots -> Thread \cup {None}]
  BY <1>1 DEF TypeOK, CallState
<1>4. /\ c \in CallState /\ c.pc = "link" /\ c.item = getter[g].item /\ c.object = getter[g].object
      /\ c.done = 0
  BY <1>1, <1>2, <1>3 DEF CallState, Calls
<1>5. getter' = [getter EXCEPT ![g] = c]
  BY <1>2, <1>3
<1> HIDE DEF c
<1>6. /\ getter' \in [Getter -> CallState] /\ Calls' /\ InUse(core', getter') = InUse(core, getter)
  <2>1. Moves(g, c)
    BY <1>4, <1>5 DEF Moves
  <2> QED
    BY <1>2, <1>4, <2>1, CallMoves
<1>7. Memory'
  BY <1>1, <1>2, <1>6 DEF Memory
<1>8. slotLock' \in [Slots -> Thread \cup {None}] /\ \A s \in Slots : slotLock[s] # g => slotLock'[s] = slotLock[s]
  BY <1>2, <1>3
<1>9. Frames'
  <2>1. ASSUME NEW u \in Thread, NEW n \in 1 .. Len(stack[u]), stack[u][n].evict
        PROVE  slotLock'[Slot(stack[u][n].key)] = u
    <3>1. stack[u][n].key \in Item /\ slotLock[Slot(stack[u][n].key)] = u
      BY <1>1, <2>1 DEF Frames
    <3>2. Slot(stack[u][n].key) \in Slots
      BY <3>1 DEF Slots, Slot, Key
    <3>3. u # g
      <4>1. Len(<<>>) = 0
        OBVIOUS
      <4> QED
        BY <1>2, <4>1
    <3> QED
      BY <1>8, <3>1, <3>2, <3>3
  <2>2. \A u \in Thread : \A n \in 1 .. Len(stack[u]) :
          /\ stack[u][n].evict <=> ~(u = Subscriber /\ n = 1)
          /\ stack[u][n].evict => /\ stack[u][n].key \in Item /\ core[stack[u][n].key] = None
                                  /\ slotLock'[Slot(stack[u][n].key)] = u
    BY <1>1, <2>1 DEF Frames
  <2>3. layout' = layout /\ core' = core /\ stack' = stack /\ queue' = queue
    BY <1>2
  <2> QED
    BY <1>1, <2>2, <2>3 DEF Frames, Slot, Busy
<1>10. TypeOK'
  <2>0. UNCHANGED <<layout, lists, queue, core, object, links, stack, handled, floor, gets>>
    BY <1>2
  <2>1. \A h \in Getter : getter'[h].pc \in {"add", "link", "back", "fetch"} =>
          object'[getter'[h].object].holder = h
    <3>1. getter'[g].object = getter[g].object /\ getter[g].pc = "add"
      BY <1>2, <1>3
    <3>2. \A h \in Getter : h # g => getter'[h] = getter[h]
      BY <1>2, <1>3
    <3> QED
      BY <1>1, <2>0, <3>1, <3>2 DEF TypeOK
  <2> QED
    BY <1>1, <1>6, <1>8, <2>0, <2>1 DEF TypeOK, Slots, CallState
<1> QED
  BY <1>6, <1>7, <1>9, <1>10 DEF StateInv

LEMMA UseState ==
  ASSUME StateInv, NEW g \in Getter, Use(g) \/ Fetched(g)
  PROVE  StateInv'
<1>1. TypeOK /\ Calls /\ Memory /\ Frames
  BY DEF StateInv
<1>2. /\ UNCHANGED <<layout, lists, queue, core, slotLock, links, stack, handled, gets>>
      /\ getter' = [getter EXCEPT ![g] = AtRest] /\ floor' = [floor EXCEPT ![g] = NoChange]
      /\ getter[g].pc \in {"wait", "fetch"}
  BY DEF Use, Fetched
<1>3. /\ getter \in [Getter -> CallState] /\ object \in [Object -> ObjectState]
      /\ floor \in [Getter -> [List -> 0 .. MaxWrites]] /\ core \in [Item -> Object \cup {None}]
  BY <1>1 DEF TypeOK, CallState, ObjectState
<1>4. stack[g] = <<>> /\ getter[g].object \in Object
  BY <1>1, <1>2 DEF Calls
<1>5. /\ getter' \in [Getter -> CallState] /\ Calls' /\ getter'[g] = AtRest
      /\ \A h \in Getter : h # g => getter'[h] = getter[h]
  BY <1>2, <1>3, <1>4, CallEnds
<1>6. PICK os \in [Object -> ObjectState] :
        /\ object' = Swept(core, getter', os)
        /\ \A o \in Object : o # getter[g].object => os[o] = object[o]
        /\ Use(g) => os = object
  <2>1. CASE Use(g)
    BY <1>3, <2>1 DEF Use
  <2>2. CASE Fetched(g)
    <3> DEFINE r == [value |-> getter[g].value, state |-> "valid", holder |-> None]
               os == [object EXCEPT ![getter[g].object] = r]
    <3>1. r \in ObjectState
      BY <1>3 DEF ObjectState, CallState
    <3>2. object' = Swept(core, getter', os)
      BY <2>2 DEF Fetched
    <3> HIDE DEF r
    <3>3. os \in [Object -> ObjectState] /\ \A o \in Object : o # getter[g].object => os[o] = object[o]
      BY <1>3, <1>4, <3>1
    <3>4. Use(g) => os = object
      BY <2>2 DEF Use, Fetched
    <3> QED
      BY <3>2, <3>3, <3>4
  <2> QED
    BY <2>1, <2>2
<1>7. /\ object' \in [Object -> ObjectState]
      /\ \A h \in Getter : getter'[h].object \in Object => object'[getter'[h].object] = os[getter'[h].object]
      /\ \A o \in Object : o \notin InUse(core, getter') => object'[o] = Unused
  <2> DEFINE gs == getter'
             z == Swept(core, gs, os)
  <2>1. object' = z /\ gs \in [Getter -> CallState]
    BY <1>5, <1>6
  <2>2. /\ z \in [Object -> ObjectState]
        /\ \A h \in Getter : gs[h].object \in Object => z[gs[h].object] = os[gs[h].object]
        /\ \A o \in Object : o \notin InUse(core, gs) => z[o] = Unused
    <3> HIDE DEF gs
    <3>1. core \in [Item -> Object \cup {None}] /\ os \in [Object -> ObjectState]
      BY <1>3
    <3>2. gs \in [Getter -> CallState]
      BY <2>1
    <3> QED
      BY <3>1, <3>2, SweepKeeps
  <2> HIDE DEF z
  <2> QED
    BY <2>1, <2>2
<1>8. Memory'
  BY <1>1, <1>2, <1>7 DEF Memory
<1>9. Frames'
  BY <1>1, <1>2, FramesKept
<1>10. TypeOK'
  <2>1. ASSUME NEW h \in Getter, getter'[h].pc \in {"add", "link", "back", "fetch"}
        PROVE  object'[getter'[h].object].holder = h
    <3>1. h # g /\ getter'[h] = getter[h]
      BY <1>5, <2>1 DEF AtRest
    <3>2. getter[h].object \in Object /\ object[getter[h].object].holder = h
      BY <1>1, <2>1, <3>1 DEF Calls, TypeOK
    <3>3. os[getter[h].object] = object[getter[h].object]
      <4>1. CASE Use(g)
        BY <1>6, <4>1
      <4>2. CASE Fetched(g)
        <5>1. object[getter[g].object].holder = g
          BY <1>1, <4>2 DEF Fetched, TypeOK
        <5>2. getter[h].object # getter[g].object
          BY <3>1, <3>2, <5>1
        <5> QED
          BY <1>6, <3>2, <5>2
      <4> QED
        BY <4>1, <4>2
    <3> QED
      BY <1>7, <3>1, <3>2, <3>3
  <2>2. floor' \in [Getter -> [List -> 0 .. MaxWrites]]
    BY <1>2, <1>3, NothingIs
  <2> QED
    BY <1>1, <1>2, <1>5, <1>7, <2>1, <2>2 DEF TypeOK, Slots, CallState, ObjectState
<1> QED
  BY <1>5, <1>8, <1>9, <1>10 DEF StateInv

\* Updates of a call's record.
LEMMA PcUpdate ==
  ASSUME NEW c \in CallState, NEW p \in {"idle", "wait", "add", "link", "back", "fetch"}
  PROVE  LET d == [c EXCEPT !.pc = p] IN
         /\ d \in CallState /\ d.pc = p /\ d.item = c.item /\ d.object = c.object
         /\ d.done = c.done /\ d.value = c.value
BY DEF CallState

LEMMA DoneUpdate ==
  ASSUME NEW c \in CallState, NEW n \in Nat
  PROVE  LET d == [c EXCEPT !.done = n] IN
         /\ d \in CallState /\ d.pc = c.pc /\ d.item = c.item /\ d.object = c.object
         /\ d.done = n /\ d.value = c.value
BY DEF CallState

LEMMA FetchUpdate ==
  ASSUME NEW c \in CallState
  PROVE  LET d == [c EXCEPT !.pc = "fetch", !.done = 0] IN
         /\ d \in CallState /\ d.pc = "fetch" /\ d.item = c.item /\ d.object = c.object
         /\ d.done = 0 /\ d.value = c.value
BY DEF CallState

\* A call that fetches moves so: it reads a list, or goes on to another stage.
LEMMA FetchMoves ==
  ASSUME StateInv, NEW g \in Getter, Refetch(g) \/ LinkItem(g) \/ LinkBack(g) \/ ReadList(g)
  PROVE  \E c \in CallState :
           /\ Moves(g, c)
           /\ Refetch(g) => c.pc = "link"
           /\ LinkItem(g) => c.pc = "back" /\ c.done = 0
           /\ LinkBack(g) => IF getter[g].done + 1 < Len(Lists(getter[g].item))
                             THEN c.pc = "back" /\ c.done = getter[g].done + 1
                             ELSE c.pc = "fetch" /\ c.done = 0
           /\ ReadList(g) =>
                LET l == Lists(getter[g].item)[getter[g].done + 1] IN
                /\ c.pc = "fetch" /\ c.done = getter[g].done + 1 /\ l \in List
                /\ c.value = [getter[g].value EXCEPT ![l] = IF shared[l] = None THEN list[l] ELSE shared[l]]
<1> DEFINE i == getter[g].item
           n == getter[g].done + 1
<1>1. Calls /\ TypeOK
  BY DEF StateInv
<1>2. /\ getter \in [Getter -> CallState] /\ shared \in [List -> (0 .. MaxWrites) \cup {None}]
      /\ list \in [List -> 0 .. MaxWrites]
  BY <1>1 DEF TypeOK, CallState
<1>3. getter[g] \in CallState /\ getter[g].done \in Nat /\ n \in Nat
  <2>1. getter[g] \in CallState
    BY <1>2
  <2> QED
    BY <2>1 DEF CallState
<1>4. i \in DOMAIN layout.lists
  BY <1>1 DEF Calls, Refetch, LinkItem, LinkBack, ReadList
<1>5. Len(Lists(i)) \in Nat \ {0} /\ \A m \in 1 .. Len(Lists(i)) : Lists(i)[m] \in List
  BY <1>1, <1>4, LayoutFacts
<1>6. CASE Refetch(g)
  <2> DEFINE c == [getter[g] EXCEPT !.pc = "link"]
  <2>1. getter' = [getter EXCEPT ![g] = c] /\ getter[g].pc = "wait"
    BY <1>2, <1>6 DEF Refetch
  <2>2. c \in CallState /\ c.pc = "link" /\ c.item = i /\ c.object = getter[g].object /\ c.done = getter[g].done
    BY <1>3, PcUpdate
  <2> HIDE DEF c
  <2>3. c.done = 0
    BY <1>1, <2>1, <2>2 DEF Calls
  <2>4. Moves(g, c)
    BY <2>1, <2>2, <2>3 DEF Moves
  <2> QED
    BY <1>6, <2>1, <2>2, <2>4 DEF Refetch, LinkItem, LinkBack, ReadList
<1>7. CASE LinkItem(g)
  <2> DEFINE c == [getter[g] EXCEPT !.pc = "back"]
  <2>1. getter' = [getter EXCEPT ![g] = c] /\ getter[g].pc = "link"
    BY <1>2, <1>7 DEF LinkItem
  <2>2. c \in CallState /\ c.pc = "back" /\ c.item = i /\ c.object = getter[g].object /\ c.done = getter[g].done
    BY <1>3, PcUpdate
  <2> HIDE DEF c
  <2>3. c.done = 0
    BY <1>1, <2>1, <2>2 DEF Calls
  <2>4. Moves(g, c)
    BY <1>5, <2>1, <2>2, <2>3 DEF Moves
  <2> QED
    BY <2>1, <2>2, <2>3, <2>4 DEF Refetch, LinkBack, ReadList
<1>8. CASE LinkBack(g)
  <2>1. getter[g].pc = "back"
    BY <1>8 DEF LinkBack
  <2>2. CASE n < Len(Lists(i))
    <3> DEFINE c == [getter[g] EXCEPT !.done = n]
    <3>1. getter' = [getter EXCEPT ![g] = c]
      BY <1>2, <1>8, <2>2 DEF LinkBack, Linked
    <3>2. c \in CallState /\ c.pc = getter[g].pc /\ c.item = i /\ c.object = getter[g].object /\ c.done = n
      <4> HIDE DEF n
      <4> QED
        BY <1>3, DoneUpdate
    <3> HIDE DEF c
    <3>3. Moves(g, c)
      BY <2>1, <2>2, <3>1, <3>2 DEF Moves
    <3> QED
      BY <2>1, <2>2, <3>2, <3>3 DEF Refetch, LinkItem, ReadList
  <2>3. CASE ~(n < Len(Lists(i)))
    <3> DEFINE c == [getter[g] EXCEPT !.pc = "fetch", !.done = 0]
    <3>1. getter' = [getter EXCEPT ![g] = c]
      BY <1>2, <1>8, <2>3 DEF LinkBack, Linked
    <3>2. c \in CallState /\ c.pc = "fetch" /\ c.item = i /\ c.object = getter[g].object /\ c.done = 0
      BY <1>3, FetchUpdate
    <3> HIDE DEF c
    <3>3. Moves(g, c)
      BY <1>5, <3>1, <3>2 DEF Moves
    <3> QED
      BY <2>1, <2>3, <3>2, <3>3 DEF Refetch, LinkItem, ReadList
  <2> QED
    BY <2>2, <2>3
<1>9. CASE ReadList(g)
  <2> DEFINE l == Lists(i)[n]
             v == IF shared[l] = None THEN list[l] ELSE shared[l]
             x == getter[g]
             u == [getter[g].value EXCEPT ![l] = v]
             c == [x EXCEPT !.done = n, !.value = u]
  <2>1. n \in 1 .. Len(Lists(i)) /\ getter[g].pc = "fetch"
    BY <1>3, <1>5, <1>9 DEF ReadList
  <2>2. l \in List /\ v \in 0 .. MaxWrites
    BY <1>2, <1>5, <2>1
  <2>3. getter' = [getter EXCEPT ![g].done = n, ![g].value[l] = v]
    BY <1>9 DEF ReadList
  <2>4. getter' = [getter EXCEPT ![g] = c]
    <3> HIDE DEF l, v, n
    <3> DEFINE a == [getter EXCEPT ![g].done = n]
               d == [getter[g] EXCEPT !.done = n]
    <3>1. getter[g] \in CallState /\ DOMAIN getter = Getter
      BY <1>2
    <3>2. a = [getter EXCEPT ![g] = d] /\ a[g] = d /\ d.value = x.value
      BY <3>1 DEF CallState
    <3>3. getter' = [a EXCEPT ![g].value[l] = v]
      BY <2>3
    <3>4. c = [d EXCEPT !.value = u]
      OBVIOUS
    <3>5. [a EXCEPT ![g].value[l] = v] = [a EXCEPT ![g] = [d EXCEPT !.value = u]]
      BY <3>1, <3>2
    <3> QED
      BY <3>1, <3>2, <3>3, <3>4, <3>5
  <2>5. /\ c \in CallState /\ c.pc = x.pc /\ c.item = x.item /\ c.object = x.object /\ c.done = n
        /\ c.value = u
    <3>1. x \in CallState /\ n \in Nat
      BY <1>3
    <3>2. u \in [List -> 0 .. MaxWrites]
      <4>1. x.value \in [List -> 0 .. MaxWrites]
        BY <3>1 DEF CallState
      <4> QED
        BY <2>2, <4>1
    <3> HIDE DEF u, n, x
    <3> QED
      BY <3>1, <3>2 DEF CallState
  <2> HIDE DEF c
  <2>6. Moves(g, c)
    BY <2>1, <2>4, <2>5 DEF Moves
  <2> QED
    BY <2>1, <2>2, <2>5, <2>6 DEF Refetch, LinkItem, LinkBack
<1> QED
  BY <1>6, <1>7, <1>8, <1>9

LEMMA FetchState ==
  ASSUME StateInv, NEW g \in Getter, Refetch(g) \/ LinkItem(g) \/ LinkBack(g) \/ ReadList(g)
  PROVE  StateInv'
<1>1. TypeOK /\ Calls /\ Memory /\ Frames
  BY DEF StateInv
<1>2. /\ UNCHANGED <<layout, list, writer, queue, core, slotLock, stack, handled, floor, gets>>
      /\ getter[g].pc \in {"wait", "link", "back", "fetch"}
  BY DEF Refetch, LinkItem, LinkBack, ReadList
<1>3. /\ getter \in [Getter -> CallState] /\ object \in [Object -> ObjectState]
      /\ links \in [Key -> SUBSET Key] /\ shared \in [List -> (0 .. MaxWrites) \cup {None}]
      /\ list \in [List -> 0 .. MaxWrites]
  BY <1>1 DEF TypeOK, CallState, ObjectState
<1>4. stack[g] = <<>> /\ getter[g].object \in Object /\ getter[g].item \in DOMAIN layout.lists
  BY <1>1, <1>2 DEF Calls
<1> DEFINE i == getter[g].item
           n == getter[g].done + 1
<1>5. /\ Len(Lists(i)) \in Nat \ {0} /\ Range(Lists(i)) \subseteq List /\ i \in Key
      /\ \A m \in 1 .. Len(Lists(i)) : Lists(i)[m] \in List
  BY <1>1, <1>4, LayoutFacts DEF Key
<1>6. getter[g].done \in Nat
  BY <1>3 DEF CallState
<1>7. PICK c \in CallState : Moves(g, c)
  BY FetchMoves
<1>8. /\ getter' \in [Getter -> CallState] /\ Calls' /\ InUse(core', getter') = InUse(core, getter)
      /\ getter'[g].object = getter[g].object /\ \A h \in Getter : h # g => getter'[h] = getter[h]
  <2>1. getter' = [getter EXCEPT ![g] = c] /\ c.object = getter[g].object
    BY <1>7 DEF Moves
  <2>2. getter' \in [Getter -> CallState] /\ Calls' /\ InUse(core', getter') = InUse(core, getter)
    BY <1>2, <1>4, <1>7, CallMoves
  <2> QED
    BY <1>3, <2>1, <2>2
<1>9. /\ object' \in [Object -> ObjectState]
      /\ \A o \in Object : o # getter[g].object => object'[o] = object[o]
      /\ object'[getter[g].object].holder = g
      /\ \A h \in Getter : h # g /\ getter[h].pc \in {"add", "link", "back", "fetch"} =>
           object'[getter[h].object].holder = h
  <2>1. CASE Refetch(g)
    <3>1. /\ object' = [object EXCEPT ![getter[g].object].holder = g]
          /\ object[getter[g].object].holder = None
      BY <2>1 DEF Refetch
    <3>2. /\ object' \in [Object -> ObjectState] /\ object'[getter[g].object].holder = g
          /\ \A o \in Object : o # getter[g].object => object'[o] = object[o]
      <4> DEFINE o == getter[g].object
                 r == [object[o] EXCEPT !.holder = g]
      <4>1. r \in ObjectState /\ r.holder = g
        <5>1. object[o] \in ObjectState
          BY <1>3, <1>4
        <5> HIDE DEF o
        <5> QED
          BY <5>1 DEF ObjectState
      <4>2. object' = [object EXCEPT ![o] = r]
        BY <1>3, <1>4, <3>1
      <4> HIDE DEF r, o
      <4> QED
        BY <1>3, <1>4, <4>1, <4>2 DEF o
    <3>3. ASSUME NEW h \in Getter, h # g, getter[h].pc \in {"add", "link", "back", "fetch"}
          PROVE  object'[getter[h].object].holder = h
      <4>1. object[getter[h].object].holder = h /\ getter[h].object \in Object /\ h # None
        BY <1>1, <3>3 DEF TypeOK, Calls
      <4> QED
        BY <3>1, <3>2, <4>1
    <3> QED
      BY <3>2, <3>3
  <2>2. CASE ~Refetch(g)
    <3>1. object' = object /\ getter[g].pc \in {"link", "back", "fetch"}
      BY <2>2 DEF LinkItem, LinkBack, ReadList
    <3> QED
      BY <1>1, <1>3, <3>1 DEF TypeOK
  <2> QED
    BY <2>1, <2>2
<1>10. /\ links' \in [Key -> SUBSET Key] /\ shared' \in [List -> (0 .. MaxWrites) \cup {None}]
  <2>1. CASE Refetch(g)
    BY <1>3, <2>1 DEF Refetch
  <2>2. CASE LinkItem(g)
    <3>1. links' = [links EXCEPT ![i] = @ \cup Range(Lists(i))] /\ shared' = shared
      BY <2>2 DEF LinkItem, Linked
    <3> QED
      BY <1>3, <1>5, <3>1 DEF Key
  <2>3. CASE LinkBack(g)
    <3>1. links' = [links EXCEPT ![Lists(i)[n]] = @ \cup {i}] /\ shared' = shared
      BY <2>3 DEF LinkBack, Linked
    <3> QED
      BY <1>3, <1>5, <3>1
  <2>4. CASE ReadList(g)
    <3>1. PICK l, v : shared' = [shared EXCEPT ![l] = v] /\ v = (IF shared[l] = None THEN list[l] ELSE shared[l])
      BY <2>4 DEF ReadList
    <3>2. links' = links
      BY <2>4 DEF ReadList
    <3> QED
      BY <1>3, <3>1, <3>2
  <2> QED
    BY <2>1, <2>2, <2>3, <2>4
<1>11. Memory'
  <2>1. \A o \in Object : o \notin InUse(core, getter) => o # getter[g].object
    BY DEF InUse
  <2> QED
    BY <1>1, <1>2, <1>8, <1>9, <2>1 DEF Memory
<1>12. Frames'
  BY <1>1, <1>2, FramesKept
<1>13. TypeOK'
  <2>1. \A h \in Getter : getter'[h].pc \in {"add", "link", "back", "fetch"} =>
          object'[getter'[h].object].holder = h
    BY <1>8, <1>9
  <2> QED
    BY <1>1, <1>2, <1>8, <1>9, <1>10, <2>1 DEF TypeOK, Slots, CallState, ObjectState
<1> QED
  BY <1>8, <1>11, <1>12, <1>13 DEF StateInv

LEMMA ExpireState ==
  ASSUME StateInv, NEW i \in Item, Expire(i)
  PROVE  StateInv'
<1>1. TypeOK /\ Calls /\ Memory /\ Frames
  BY DEF StateInv
<1>2. /\ UNCHANGED <<layout, lists, queue, core, slotLock, links, getter, stack, handled, floor, gets>>
      /\ core[i] # None /\ object[core[i]].holder = None
      /\ object' = [object EXCEPT ![core[i]] = [Unused EXCEPT !.state = "expired"]]
  BY DEF Expire
<1> DEFINE r == [Unused EXCEPT !.state = "expired"]
<1>3. r \in ObjectState /\ r.holder = None /\ core[i] \in Object /\ object \in [Object -> ObjectState]
  <2>1. r.holder = None
    BY DEF Unused
  <2>2. r \in ObjectState
    BY NothingIs DEF ObjectState, Unused
  <2>3. core[i] \in Object /\ object \in [Object -> ObjectState]
    BY <1>1, <1>2 DEF ObjectState, TypeOK
  <2> QED
    BY <2>1, <2>2, <2>3
<1> HIDE DEF r
<1>4. /\ object' \in [Object -> ObjectState] /\ object'[core[i]] = r
      /\ \A o \in Object : o # core[i] => object'[o] = object[o]
  BY <1>2, <1>3 DEF r
<1>5. \A o \in Object : object'[o].holder = object[o].holder
  BY <1>2, <1>3, <1>4
<1>6. core[i] \in InUse(core, getter)
  BY <1>1 DEF InUse, Range, TypeOK
<1>7. Memory'
  BY <1>1, <1>2, <1>4, <1>6 DEF Memory, InUse
<1>8. Calls' /\ Frames'
  BY <1>1, <1>2, CallsKept, FramesKept
<1>9. TypeOK'
  <2>1. \A g \in Getter : getter[g].pc \in {"add", "link", "back", "fetch"} =>
          object'[getter[g].object].holder = g
    BY <1>1, <1>5 DEF TypeOK, Calls
  <2>2. UNCHANGED <<layout, lists, queue, core, slotLock, links, getter, stack, handled, floor, gets>>
    BY <1>2
  <2> QED
    BY <1>1, <1>4, <2>1, <2>2 DEF TypeOK, Slots, ObjectState
<1> QED
  BY <1>7, <1>8, <1>9 DEF StateInv

\* A call begins with an object that only calls about its item have.
Begins(g, p, i, o) ==
  /\ getter' = [getter EXCEPT ![g] = [AtRest EXCEPT !.pc = p, !.item = i, !.object = o]]
  /\ p \in {"wait", "add"} /\ i \in DOMAIN layout.lists /\ o \in Object
  /\ \A h \in Getter : getter[h].object = o => getter[h].item = i
  /\ \A j \in Item : core'[j] = o => j = i
  /\ \A j \in Item : core'[j] # None => core'[j] = core[j] \/ (core'[j] = o /\ j = i)

LEMMA CallBegins ==
  ASSUME StateInv, NEW g \in Getter, NEW p, NEW i, NEW o, Begins(g, p, i, o),
         UNCHANGED layout, p = "wait" => stack'[g] = <<>>, \A h \in Getter \ {g} : stack'[h] = stack[h]
  PROVE  /\ getter' \in [Getter -> CallState] /\ Calls'
         /\ getter'[g].pc = p /\ getter'[g].item = i /\ getter'[g].object = o /\ getter'[g].done = 0
         /\ \A h \in Getter : h # g => getter'[h] = getter[h]
<1>1. Calls /\ TypeOK /\ getter \in [Getter -> CallState] /\ core \in [Item -> Object \cup {None}]
  BY DEF StateInv, TypeOK, CallState
<1> DEFINE c == [AtRest EXCEPT !.pc = p, !.item = i, !.object = o]
<1>2. i \in Item /\ o \in Object /\ p \in {"wait", "add"} /\ o # None
  BY <1>1, LayoutFacts DEF Begins
<1>3. c \in CallState /\ c.pc = p /\ c.item = i /\ c.object = o /\ c.done = 0
  BY <1>2, NothingIs DEF CallState, AtRest
<1>4. getter' = [getter EXCEPT ![g] = c]
  BY DEF Begins
<1> HIDE DEF c
<1>5. /\ getter' \in [Getter -> CallState] /\ getter'[g] = c
      /\ \A h \in Getter : h # g => getter'[h] = getter[h]
  BY <1>1, <1>3, <1>4
<1>6. ASSUME NEW h \in Getter
      PROVE  /\ getter'[h].pc = "idle" => getter'[h] = AtRest
             /\ getter'[h].pc # "idle" =>
                  getter'[h].item \in DOMAIN layout.lists /\ getter'[h].object \in Object
             /\ getter'[h].pc # "add" => stack'[h] = <<>>
             /\ getter'[h].pc \notin {"back", "fetch"} => getter'[h].done = 0
             /\ getter'[h].pc = "back" => getter'[h].done < Len(Lists(getter'[h].item))
             /\ getter'[h].pc = "fetch" => getter'[h].done <= Len(Lists(getter'[h].item))
             /\ \A j \in Item : core'[j] # None /\ core'[j] = getter'[h].object => j = getter'[h].item
  <2>1. CASE h = g
    BY <1>2, <1>3, <1>5, <2>1 DEF Begins
  <2>2. CASE h # g
    <3>1. getter'[h] = getter[h] /\ stack'[h] = stack[h]
      BY <1>5, <2>2
    <3>2. \A j \in Item : core'[j] # None /\ core'[j] = getter[h].object => j = getter[h].item
      BY <1>1 DEF Begins, Calls
    <3> QED
      BY <1>1, <3>1, <3>2 DEF Calls
  <2> QED
    BY <2>1, <2>2
<1>7. \A h, k \in Getter : getter'[h].object = getter'[k].object /\ getter'[h].object # None =>
        getter'[h].item = getter'[k].item
  <2>1. \A h \in Getter : getter[h].object = o => getter[h].item = i
    BY DEF Begins
  <2> QED
    BY <1>1, <1>3, <1>5, <2>1 DEF Calls
<1>8. Calls'
  BY <1>6, <1>7 DEF Calls, Lists
<1> QED
  BY <1>3, <1>5, <1>8

LEMMA FindState ==
  ASSUME StateInv, NEW g \in Getter, NEW i \in DOMAIN layout.lists, Find(g, i)
  PROVE  StateInv'
<1>1. TypeOK /\ Calls /\ Memory /\ Frames
  BY DEF StateInv
<1>2. /\ UNCHANGED <<layout, lists, queue, core, object, slotLock, links, stack, handled>>
      /\ getter[g].pc = "idle" /\ core[i] # None /\ gets' = gets + 1 /\ gets < MaxGets
      /\ getter' = [getter EXCEPT ![g] = [AtRest EXCEPT !.pc = "wait", !.item = i, !.object = core[i]]]
  BY DEF Find
<1>3. i \in Item /\ core[i] \in Object /\ stack[g] = <<>>
  BY <1>1, <1>2, LayoutFacts DEF TypeOK, Calls
<1>4. Begins(g, "wait", i, core[i])
  <2>1. \A h \in Getter : getter[h].object = core[i] => getter[h].item = i
    BY <1>1, <1>2, <1>3 DEF Calls
  <2>2. \A j \in Item : core[j] = core[i] => j = i
    BY <1>1, <1>2, <1>3 DEF TypeOK
  <2>3. core' = core
    BY <1>2
  <2>4. getter' = [getter EXCEPT ![g] = [AtRest EXCEPT !.pc = "wait", !.item = i, !.object = core[i]]]
    BY <1>2
  <2> QED
    BY <1>3, <2>1, <2>2, <2>3, <2>4 DEF Begins
<1>5. /\ getter' \in [Getter -> CallState] /\ Calls' /\ getter'[g].pc = "wait"
      /\ getter'[g].object = core[i] /\ \A h \in Getter : h # g => getter'[h] = getter[h]
  BY <1>2, <1>3, <1>4, CallBegins
<1>6. Memory'
  <2>1. getter[g].object = None
    BY <1>1, <1>2 DEF Calls, AtRest
  <2>2. \A o \in Object : o \notin InUse(core, getter') => o \notin InUse(core, getter)
    BY <1>5, <2>1 DEF InUse
  <2> QED
    BY <1>1, <1>2, <2>2 DEF Memory
<1>7. Frames'
  BY <1>1, <1>2, FramesKept
<1>8. floor' \in [Getter -> [List -> 0 .. MaxWrites]]
  BY <1>1, NothingIs DEF Find, TypeOK
<1>9. gets' \in 0 .. MaxGets
  BY <1>1, <1>2 DEF TypeOK
<1>10. TypeOK'
  <2>1. \A h \in Getter : getter'[h].pc \in {"add", "link", "back", "fetch"} =>
          object'[getter'[h].object].holder = h
    BY <1>1, <1>2, <1>5 DEF TypeOK
  <2>2. UNCHANGED <<layout, lists, queue, core, object, slotLock, links, stack, handled>>
    BY <1>2
  <2> QED
    BY <1>1, <1>5, <1>8, <1>9, <2>1, <2>2 DEF TypeOK, Slots, CallState
<1> QED
  BY <1>5, <1>6, <1>7, <1>10 DEF StateInv

\* What Add does to the cache: the item has a new object, and an old one went.
Adds(g, i, o, os) ==
  /\ core' \in [Item -> Object \cup {None}] /\ core'[i] = o
  /\ getter' = [getter EXCEPT ![g] = [AtRest EXCEPT !.pc = "add", !.item = i, !.object = o]]
  /\ object' = Swept(core', getter', os)
  /\ os[o] = [Unused EXCEPT !.holder = g] /\ \A p \in Object : p # o => os[p] = object[p]
  /\ \/ UNCHANGED <<slotLock, stack>> /\ \A k \in Item : k # i => core'[k] = core[k]
     \/ \E j \in Item :
          /\ j # i /\ Slot(j) = Slot(i) /\ core'[j] = None
          /\ \A k \in Item : k # i /\ k # j => core'[k] = core[k]
          /\ slotLock' = [slotLock EXCEPT ![Slot(i)] = g]
          /\ stack' = [stack EXCEPT ![g] = <<Removal(j, TRUE)>>]

LEMMA AddIs ==
  ASSUME StateInv, NEW g \in Getter, NEW i \in DOMAIN layout.lists, Add(g, i)
  PROVE  \E o \in Object \ InUse(core, getter), os \in [Object -> ObjectState] : Adds(g, i, o, os)
<1>1. TypeOK /\ Calls /\ Memory
  BY DEF StateInv
<1>2. i \in Item /\ core \in [Item -> Object \cup {None}] /\ object \in [Object -> ObjectState]
  BY <1>1, LayoutFacts DEF TypeOK, ObjectState
<1> DEFINE o == CHOOSE n \in Object \ InUse(core, getter) : TRUE
           os == [object EXCEPT ![o].holder = g]
           full == {j \in Item : Slot(j) = Slot(i) /\ core[j] # None}
<1>3. o \in Object \ InUse(core, getter) /\ core[i] = None
  BY DEF Add
<1>4. /\ getter' = [getter EXCEPT ![g] = [AtRest EXCEPT !.pc = "add", !.item = i, !.object = o]]
      /\ object' = Swept(core', getter', os)
      /\ \/ /\ core' = [core EXCEPT ![i] = o] /\ UNCHANGED <<slotLock, stack>>
         \/ \E j \in full :
              /\ core' = [core EXCEPT ![i] = o, ![j] = None]
              /\ slotLock' = [slotLock EXCEPT ![Slot(i)] = g]
              /\ stack' = [stack EXCEPT ![g] = <<Removal(j, TRUE)>>]
  BY DEF Add
<1> HIDE DEF o
<1>5. /\ os \in [Object -> ObjectState] /\ os[o] = [Unused EXCEPT !.holder = g]
      /\ \A p \in Object : p # o => os[p] = object[p]
  <2> DEFINE r == [Unused EXCEPT !.holder = g]
  <2>1. object[o] = Unused
    BY <1>1, <1>3 DEF Memory
  <2>2. os = [object EXCEPT ![o] = r]
    BY <1>2, <1>3, <2>1
  <2>3. r \in ObjectState
    BY NothingIs DEF ObjectState
  <2> HIDE DEF r, os
  <2> QED
    BY <1>2, <1>3, <2>2, <2>3 DEF r
<1>6. CASE core' = [core EXCEPT ![i] = o] /\ UNCHANGED <<slotLock, stack>>
  <2>1. /\ core' \in [Item -> Object \cup {None}] /\ core'[i] = o
        /\ \A k \in Item : k # i => core'[k] = core[k]
    BY <1>2, <1>3, <1>6
  <2> HIDE DEF os
  <2>2. Adds(g, i, o, os)
    BY <1>4, <1>5, <1>6, <2>1 DEF Adds
  <2> QED
    BY <1>3, <1>5, <2>2
<1>7. ASSUME NEW j \in full,
             /\ core' = [core EXCEPT ![i] = o, ![j] = None]
             /\ slotLock' = [slotLock EXCEPT ![Slot(i)] = g]
             /\ stack' = [stack EXCEPT ![g] = <<Removal(j, TRUE)>>]
      PROVE  /\ core' \in [Item -> Object \cup {None}] /\ core'[i] = o
             /\ \E k \in Item :
                  /\ k # i /\ Slot(k) = Slot(i) /\ core'[k] = None
                  /\ \A m \in Item : m # i /\ m # k => core'[m] = core[m]
                  /\ slotLock' = [slotLock EXCEPT ![Slot(i)] = g]
                  /\ stack' = [stack EXCEPT ![g] = <<Removal(k, TRUE)>>]
  <2>1. j \in Item /\ j # i /\ Slot(j) = Slot(i)
    BY <1>3
  <2>2. /\ core' \in [Item -> Object \cup {None}] /\ core'[i] = o /\ core'[j] = None
        /\ \A m \in Item : m # i /\ m # j => core'[m] = core[m]
    BY <1>2, <1>3, <1>7, <2>1
  <2> QED
    BY <1>7, <2>1, <2>2
<1>8. CASE \E j \in full :
             /\ core' = [core EXCEPT ![i] = o, ![j] = None]
             /\ slotLock' = [slotLock EXCEPT ![Slot(i)] = g]
             /\ stack' = [stack EXCEPT ![g] = <<Removal(j, TRUE)>>]
  <2>1. /\ core' \in [Item -> Object \cup {None}] /\ core'[i] = o
        /\ \E k \in Item :
             /\ k # i /\ Slot(k) = Slot(i) /\ core'[k] = None
             /\ \A m \in Item : m # i /\ m # k => core'[m] = core[m]
             /\ slotLock' = [slotLock EXCEPT ![Slot(i)] = g]
             /\ stack' = [stack EXCEPT ![g] = <<Removal(k, TRUE)>>]
    BY <1>7, <1>8
  <2> HIDE DEF os, full
  <2>2. Adds(g, i, o, os)
    BY <1>4, <1>5, <2>1 DEF Adds
  <2> QED
    BY <1>3, <1>5, <2>2
<1> QED
  BY <1>4, <1>6, <1>8

LEMMA AddState ==
  ASSUME StateInv, NEW g \in Getter, NEW i \in DOMAIN layout.lists, Add(g, i)
  PROVE  StateInv'
<1>1. TypeOK /\ Calls /\ Memory /\ Frames
  BY DEF StateInv
<1>2. /\ UNCHANGED <<layout, lists, queue, links, handled>>
      /\ getter[g].pc = "idle" /\ core[i] = None /\ gets' = gets + 1 /\ gets < MaxGets
      /\ floor' = [floor EXCEPT ![g] = handled] /\ slotLock[Slot(i)] = None
  BY DEF Add
<1>3. PICK o \in Object \ InUse(core, getter), os \in [Object -> ObjectState] : Adds(g, i, o, os)
  BY AddIs
<1>15. /\ core' \in [Item -> Object \cup {None}] /\ core'[i] = o
       /\ getter' = [getter EXCEPT ![g] = [AtRest EXCEPT !.pc = "add", !.item = i, !.object = o]]
       /\ object' = Swept(core', getter', os)
       /\ os[o] = [Unused EXCEPT !.holder = g] /\ \A p \in Object : p # o => os[p] = object[p]
       /\ \/ UNCHANGED <<slotLock, stack>> /\ \A k \in Item : k # i => core'[k] = core[k]
          \/ \E j \in Item :
               /\ j # i /\ Slot(j) = Slot(i) /\ core'[j] = None
               /\ \A k \in Item : k # i /\ k # j => core'[k] = core[k]
               /\ slotLock' = [slotLock EXCEPT ![Slot(i)] = g]
               /\ stack' = [stack EXCEPT ![g] = <<Removal(j, TRUE)>>]
  BY <1>3 DEF Adds
<1>4. /\ i \in Item /\ core \in [Item -> Object \cup {None}] /\ stack[g] = <<>> /\ g \in Thread
      /\ stack \in [Thread -> Seq(Frame)] /\ slotLock \in [Slots -> Thread \cup {None}]
      /\ Slot(i) \in Slots /\ getter[g].object = None
  <2>1. i \in Item /\ g \in Thread
    BY <1>1, LayoutFacts DEF Thread
  <2>2. stack[g] = <<>> /\ getter[g].object = None
    BY <1>1, <1>2 DEF Calls, AtRest
  <2>3. Slot(i) \in Slots
    BY <2>1 DEF Slots, Slot, Key
  <2> QED
    BY <1>1, <2>1, <2>2, <2>3 DEF TypeOK
<1>5. /\ \A k \in Item : core[k] # o
      /\ \A h \in Getter : getter[h].object # o
  BY <1>3, <1>4 DEF InUse, Range
<1>6. \A k \in Item : core'[k] # None => core'[k] = core[k] \/ (core'[k] = o /\ k = i)
  BY <1>15
<1>7. \A k \in Item : core'[k] = o => k = i
  BY <1>15, <1>5
<1>8. /\ stack' \in [Thread -> Seq(Frame)] /\ \A t \in Thread \ {g} : stack'[t] = stack[t]
      /\ slotLock' \in [Slots -> Thread \cup {None}]
      /\ \A z \in Slots : z # Slot(i) => slotLock'[z] = slotLock[z]
      /\ \/ stack'[g] = <<>>
         \/ /\ Len(stack'[g]) = 1 /\ stack'[g][1].evict /\ stack'[g][1].key \in Item
            /\ core'[stack'[g][1].key] = None /\ Slot(stack'[g][1].key) = Slot(i) /\ slotLock'[Slot(i)] = g
  <2>1. CASE UNCHANGED <<slotLock, stack>>
    BY <1>4, <2>1
  <2>2. ASSUME NEW j \in Item, core'[j] = None, Slot(j) = Slot(i),
               slotLock' = [slotLock EXCEPT ![Slot(i)] = g],
               stack' = [stack EXCEPT ![g] = <<Removal(j, TRUE)>>]
        PROVE  /\ stack' \in [Thread -> Seq(Frame)] /\ \A t \in Thread \ {g} : stack'[t] = stack[t]
               /\ slotLock' \in [Slots -> Thread \cup {None}]
               /\ \A z \in Slots : z # Slot(i) => slotLock'[z] = slotLock[z]
               /\ Len(stack'[g]) = 1 /\ stack'[g][1].evict /\ stack'[g][1].key \in Item
               /\ core'[stack'[g][1].key] = None /\ Slot(stack'[g][1].key) = Slot(i)
               /\ slotLock'[Slot(i)] = g
    <3> DEFINE e == Removal(j, TRUE)
               s == <<e>>
    <3>1. e \in Frame /\ e.evict /\ e.key = j
      BY DEF Removal, Frame, Key
    <3>2. s \in Seq(Frame) /\ Len(s) = 1 /\ s[1].evict /\ s[1].key = j
      <4> HIDE DEF e
      <4>1. s[1] = e
        OBVIOUS
      <4> QED
        BY <3>1, <4>1
    <3> HIDE DEF s
    <3>3. /\ stack' \in [Thread -> Seq(Frame)] /\ stack'[g] = s
          /\ \A t \in Thread \ {g} : stack'[t] = stack[t]
      BY <1>4, <2>2, <3>2 DEF s
    <3>4. /\ slotLock' \in [Slots -> Thread \cup {None}] /\ slotLock'[Slot(i)] = g
          /\ \A z \in Slots : z # Slot(i) => slotLock'[z] = slotLock[z]
      BY <1>4, <2>2
    <3> QED
      BY <2>2, <3>2, <3>3, <3>4
  <2> QED
    BY <1>15, <2>1, <2>2
<1>9. Begins(g, "add", i, o)
  <2>1. \A h \in Getter : getter[h].object = o => getter[h].item = i
    BY <1>5
  <2>2. getter' = [getter EXCEPT ![g] = [AtRest EXCEPT !.pc = "add", !.item = i, !.object = o]]
    BY <1>15
  <2> QED
    BY <1>6, <1>7, <2>1, <2>2 DEF Begins
<1>10. /\ getter' \in [Getter -> CallState] /\ Calls'
       /\ getter'[g].object = o /\ \A h \in Getter : h # g => getter'[h] = getter[h]
  <2>1. \A h \in Getter \ {g} : stack'[h] = stack[h]
    BY <1>8 DEF Thread
  <2>2. layout' = layout
    BY <1>2
  <2> QED
    BY <1>9, <2>1, <2>2, CallBegins
<1>11. /\ object' \in [Object -> ObjectState] /\ object'[o] = os[o]
       /\ \A h \in Getter : getter'[h].object \in Object => object'[getter'[h].object] = os[getter'[h].object]
       /\ \A k \in Item : core'[k] # None => object'[core'[k]] = os[core'[k]]
       /\ \A p \in Object : p \notin InUse(core', getter') => object'[p] = Unused
  <2> DEFINE gs == getter'
             c == core'
             z == Swept(c, gs, os)
  <2>1. object' = z /\ gs \in [Getter -> CallState] /\ c \in [Item -> Object \cup {None}] /\ gs[g].object = o
    BY <1>15, <1>10
  <2>2. /\ z \in [Object -> ObjectState]
        /\ \A h \in Getter : gs[h].object \in Object => z[gs[h].object] = os[gs[h].object]
        /\ \A k \in Item : c[k] # None => z[c[k]] = os[c[k]]
        /\ \A p \in Object : p \notin InUse(c, gs) => z[p] = Unused
    <3> HIDE DEF gs, c
    <3> QED
      BY <2>1, SweepKeeps
  <2> HIDE DEF z
  <2> QED
    BY <2>1, <2>2
<1>12. Memory'
  <2>1. \A k \in Item : core'[k] # None => k \in DOMAIN layout.lists
    BY <1>1, <1>6 DEF Memory
  <2> QED
    BY <1>2, <1>11, <2>1 DEF Memory
<1>13. Frames'
  <2>1. ASSUME NEW t \in Thread, NEW n \in 1 .. Len(stack'[t])
        PROVE  /\ stack'[t][n].evict <=> ~(t = Subscriber /\ n = 1)
               /\ stack'[t][n].evict => /\ stack'[t][n].key \in Item /\ core'[stack'[t][n].key] = None
                                        /\ slotLock'[Slot(stack'[t][n].key)] = t
    <3>1. CASE t = g
      <4>1. n = 1 /\ stack'[g] # <<>>
        <5>1. Len(<<>>) = 0 /\ n \in 1 .. Len(stack'[g])
          BY <3>1
        <5>2. stack'[g] # <<>>
          BY <5>1
        <5>3. Len(stack'[g]) = 1
          BY <1>8, <5>2
        <5> QED
          BY <5>1, <5>2, <5>3
      <4> QED
        BY <1>8, <3>1, <4>1
    <3>2. CASE t # g
      <4>1. stack'[t] = stack[t]
        BY <1>8, <3>2
      <4>2. /\ stack[t][n].evict <=> ~(t = Subscriber /\ n = 1)
            /\ stack[t][n].evict => /\ stack[t][n].key \in Item /\ core[stack[t][n].key] = None
                                    /\ slotLock[Slot(stack[t][n].key)] = t
        BY <1>1, <2>1, <4>1 DEF Frames
      <4>3. ASSUME stack[t][n].evict
            PROVE  core'[stack[t][n].key] = None /\ slotLock'[Slot(stack[t][n].key)] = t
        <5>1. Slot(stack[t][n].key) # Slot(i) /\ Slot(stack[t][n].key) \in Slots
          BY <1>2, <4>2, <4>3 DEF Slots, Slot, Key, Thread
        <5>2. stack[t][n].key # i
          BY <5>1
        <5> QED
          BY <1>6, <1>8, <4>2, <4>3, <5>1, <5>2
      <4> QED
        BY <4>1, <4>2, <4>3
    <3> QED
      BY <3>1, <3>2
  <2>2. ASSUME NEW t \in Thread, NEW m \in 1 .. Len(stack'[t]), NEW n \in 1 .. Len(stack'[t]),
               stack'[t][m].evict, stack'[t][n].evict, m # n
        PROVE  Slot(stack'[t][m].key) # Slot(stack'[t][n].key)
    <3>1. CASE t = g
      <4>1. Len(stack'[g]) = 1 \/ Len(stack'[g]) = 0
        BY <1>8
      <4> QED
        BY <2>2, <3>1, <4>1
    <3>2. CASE t # g
      BY <1>1, <1>8, <2>2, <3>2 DEF Frames
    <3> QED
      BY <3>1, <3>2
  <2>3. Busy(Subscriber)' => queue' # <<>>
    BY <1>1, <1>2, <1>8 DEF Frames, Busy, Thread
  <2>4. layout' = layout
    BY <1>2
  <2> QED
    BY <2>1, <2>2, <2>3, <2>4 DEF Frames, Slot
<1>14. TypeOK'
  <2>1. ASSUME NEW h \in Getter, getter'[h].pc \in {"add", "link", "back", "fetch"}
        PROVE  object'[getter'[h].object].holder = h
    <3>1. CASE h = g
      <4>1. os[o].holder = g
        BY <1>15 DEF Unused
      <4> QED
        BY <1>10, <1>11, <3>1, <4>1
    <3>2. CASE h # g
      <4>1. getter'[h] = getter[h] /\ getter[h].object \in Object /\ object[getter[h].object].holder = h
        BY <1>1, <1>10, <2>1, <3>2 DEF TypeOK, Calls
      <4>2. getter[h].object # o
        BY <1>5
      <4>3. os[getter[h].object] = object[getter[h].object]
        BY <1>15, <4>1, <4>2
      <4>4. object'[getter'[h].object] = os[getter[h].object]
        BY <1>11, <4>1
      <4> QED
        BY <4>1, <4>3, <4>4
    <3> QED
      BY <3>1, <3>2
  <2>2. \A j, k \in Item : core'[j] = core'[k] => j = k \/ core'[j] = None
    BY <1>1, <1>5, <1>6 DEF TypeOK
  <2>3. floor' \in [Getter -> [List -> 0 .. MaxWrites]] /\ gets' \in 0 .. MaxGets
    BY <1>1, <1>2 DEF TypeOK
  <2>4. UNCHANGED <<layout, lists, queue, links, handled>> /\ core' \in [Item -> Object \cup {None}]
    BY <1>2, <1>15
  <2> QED
    BY <1>1, <1>8, <1>10, <1>11, <2>1, <2>2, <2>3, <2>4 DEF TypeOK, Slots, CallState, ObjectState
<1> QED
  BY <1>10, <1>12, <1>13, <1>14 DEF StateInv

\* Types, calls, memory and frames are kept.
LEMMA StateStep ==
  ASSUME StateInv, [Next]_vars
  PROVE  StateInv'
<1>1. CASE UNCHANGED vars
  <2>1. /\ UNCHANGED <<layout, list, shared, writer, queue, core, object, slotLock, links>>
        /\ UNCHANGED <<getter, stack, handled, floor, gets>>
    BY <1>1 DEF vars
  <2> QED
    BY <2>1, CallsKept, MemoryKept, FramesKept DEF StateInv, TypeOK, Slots
<1>2. CASE Next
  <2>1. CASE \E w \in Writer : Changing(w)
    BY <2>1, WritersState
  <2>2. CASE Subscribing
    BY <2>2, SubscriberState, WalkState, RemoveNothingState, RemoveState, EvictDoneState
       DEF Subscribing, Removals, Thread
  <2>3. ASSUME NEW g \in Getter, Progress(g) PROVE StateInv'
    BY <2>3, WalkState, RemoveNothingState, RemoveState, EvictDoneState, AddedState, UseState, FetchState
       DEF Progress, Removals, Thread
  <2>4. ASSUME NEW g \in Getter, NEW i \in DOMAIN layout.lists, Find(g, i) \/ Add(g, i) PROVE StateInv'
    BY <2>4, FindState, AddState
  <2>5. CASE \E i \in Item : Expire(i)
    BY <2>5, ExpireState
  <2> QED
    BY <1>2, <2>1, <2>2, <2>3, <2>4, <2>5 DEF Next
<1> QED
  BY <1>1, <1>2

LEMMA StateInit ==
  ASSUME Init
  PROVE  StateInv
<1>1. /\ layout \in Layouts /\ list = NoChange /\ shared = [l \in List |-> None]
      /\ writer = [w \in Writer |-> [pc |-> "idle", note |-> NoMessage]]
      /\ queue = <<>> /\ core = [i \in Item |-> None] /\ object = [o \in Object |-> Unused]
      /\ slotLock = [s \in Slots |-> None] /\ links = [k \in Key |-> {}]
      /\ getter = [g \in Getter |-> AtRest] /\ stack = [t \in Thread |-> <<>>]
      /\ handled = NoChange /\ floor = [g \in Getter |-> NoChange] /\ gets = 0
  BY DEF Init
<1>2. AtRest.pc = "idle" /\ AtRest.object = None /\ AtRest.done = 0
  BY DEF AtRest
<1>3. Calls
  BY <1>1, <1>2 DEF Calls, Thread
<1>4. Memory
  BY <1>1 DEF Memory
<1>5. \A t \in Thread : stack[t] = <<>> /\ Len(stack[t]) = 0
  BY <1>1
<1>6. Frames
  BY <1>5 DEF Frames, Busy, Thread
<1>7. TypeOK
  <2>1. \A g \in Getter : getter[g].pc \notin {"add", "link", "back", "fetch"}
    BY <1>1, <1>2
  <2>2. stack \in [Thread -> Seq(Frame)] /\ queue \in Seq(Message)
    BY <1>1
  <2> QED
    BY <1>1, <2>1, <2>2, NothingIs DEF TypeOK, CallState, ObjectState
<1> QED
  BY <1>3, <1>4, <1>6, <1>7 DEF StateInv

-----------------------------------------------------------------------------
(* Lists, messages and what was dealt with.                                *)

LEMMA ListKept ==
  ASSUME ListInv, UNCHANGED <<list, shared, writer, queue, handled>>
  PROVE  ListInv'
BY DEF ListInv, Messages, Newest, Shared

LEMMA WriteLists ==
  ASSUME StateInv, ListInv, NEW w \in Writer, NEW call \in layout.calls, Write(w, call)
  PROVE  ListInv'
<1>1. TypeOK /\ Messages /\ Newest /\ Shared
  BY DEF StateInv, ListInv
<1> DEFINE l == call.list
           m == [keys |-> call.keys, list |-> l, change |-> list[l] + 1]
           r == [pc |-> "tag", note |-> m]
<1>2. /\ UNCHANGED <<shared, queue, handled>> /\ writer[w].pc = "idle"
      /\ list' = [list EXCEPT ![l] = @ + 1] /\ writer' = [writer EXCEPT ![w] = r]
  BY DEF Write
<1>3. l \in List /\ l \in call.keys
  BY <1>1, LayoutFacts
<1>4. /\ list \in [List -> 0 .. MaxWrites] /\ handled \in [List -> 0 .. MaxWrites]
      /\ writer \in [Writer -> [pc : {"idle", "tag", "publish"}, note : Message]]
  BY <1>1 DEF TypeOK
<1>5. /\ list'[l] = list[l] + 1 /\ list[l] \in Nat /\ \A k \in List : list[k] \in Nat
      /\ \A k \in List \ {l} : list'[k] = list[k]
  BY <1>2, <1>3, <1>4
<1>6. \A k \in List : list'[k] \in Nat /\ list[k] <= list'[k]
  BY <1>5
<1>7. m.list = l /\ m.change = list[l] + 1 /\ m.keys = call.keys
  OBVIOUS
<1>8. r.pc = "tag" /\ r.note = m
  OBVIOUS
<1> HIDE DEF m
<1> HIDE DEF r
<1>9. writer'[w] = r /\ \A x \in Writer : x # w => writer'[x] = writer[x]
  BY <1>2, <1>4
<1> HIDE DEF l
<1>10. Messages'
  <2>1. ASSUME NEW x \in Writer, writer'[x].pc # "idle"
        PROVE  /\ writer'[x].note.list \in writer'[x].note.keys
               /\ writer'[x].note.change \in 1 .. list'[writer'[x].note.list]
    <3>1. CASE x = w
      BY <1>3, <1>5, <1>7, <1>8, <1>9, <3>1
    <3>2. CASE x # w
      <4> DEFINE z == writer[x].note
      <4>1. writer'[x] = writer[x] /\ z.list \in z.keys /\ z.change \in 1 .. list[z.list] /\ z.list \in List
        <5>1. writer'[x] = writer[x] /\ z \in Message
          BY <1>4, <1>9, <3>2
        <5>2. z.list \in z.keys /\ z.change \in 1 .. list[z.list]
          BY <1>1, <2>1, <5>1 DEF Messages
        <5> QED
          BY <5>1, <5>2 DEF Message
      <4> QED
        BY <1>6, <4>1, <1>5
    <3> QED
      BY <3>1, <3>2
  <2>2. ASSUME NEW n \in 1 .. Len(queue)
        PROVE  /\ queue[n].list \in List /\ queue[n].change \in 1 .. list'[queue[n].list]
               /\ n # 1 => queue[n].list \in queue[n].keys
    BY <1>1, <1>5, <1>6 DEF Messages
  <2>3. \A k \in List : handled[k] <= list'[k]
    <3>1. \A k \in List : handled[k] <= list[k] /\ handled[k] \in Nat
      BY <1>1, <1>4 DEF Messages
    <3> QED
      BY <1>5, <1>6, <3>1
  <2> QED
    BY <1>2, <2>1, <2>2, <2>3 DEF Messages
<1>11. Newest'
  <2> SUFFICES ASSUME NEW k \in List
               PROVE  \/ handled'[k] = list'[k]
                      \/ \E x \in Writer : /\ writer'[x].pc # "idle" /\ writer'[x].note.list = k
                                           /\ writer'[x].note.change = list'[k]
                      \/ \E n \in 1 .. Len(queue') : queue'[n].list = k /\ queue'[n].change = list'[k]
    BY DEF Newest
  <2>1. CASE k = l
    BY <1>5, <1>7, <1>8, <1>9, <2>1
  <2>2. CASE k # l
    <3>1. list'[k] = list[k]
      BY <1>5, <2>2
    <3>2. \A x \in Writer : writer[x].pc # "idle" => writer'[x] = writer[x]
      BY <1>2, <1>9
    <3> QED
      BY <1>1, <1>2, <3>1, <3>2 DEF Newest
  <2> QED
    BY <2>1, <2>2
<1>12. Shared'
  <2>1. \A x \in Writer : writer'[x].pc = "publish" => writer'[x] = writer[x]
    BY <1>8, <1>9
  <2>2. ASSUME NEW k \in List, shared[k] # None
        PROVE  shared[k] >= handled[k] /\ shared[k] <= list'[k]
    <3>1. shared[k] \in Nat /\ shared[k] <= list[k] /\ shared[k] >= handled[k]
      BY <1>1, <2>2 DEF TypeOK, Shared
    <3> QED
      BY <1>5, <1>6, <3>1
  <2> QED
    BY <1>1, <1>2, <2>1, <2>2 DEF Shared
<1> QED
  BY <1>10, <1>11, <1>12 DEF ListInv

LEMMA TagLists ==
  ASSUME StateInv, ListInv, NEW w \in Writer, Tag(w)
  PROVE  ListInv'
<1>1. TypeOK /\ Messages /\ Newest /\ Shared
  BY DEF StateInv, ListInv
<1>2. /\ UNCHANGED <<list, queue, handled>> /\ writer[w].pc = "tag"
      /\ shared' = [l \in List |-> IF l \in writer[w].note.keys THEN None ELSE shared[l]]
      /\ writer' = [writer EXCEPT ![w].pc = "publish"]
  BY DEF Tag
<1>3. writer \in [Writer -> [pc : {"idle", "tag", "publish"}, note : Message]]
  BY <1>1 DEF TypeOK
<1>4. /\ writer'[w].pc = "publish" /\ writer'[w].note = writer[w].note
      /\ \A x \in Writer : x # w => writer'[x] = writer[x]
  BY <1>2, <1>3
<1>5. \A x \in Writer : writer'[x].note = writer[x].note /\ (writer'[x].pc # "idle" <=> writer[x].pc # "idle")
  BY <1>2, <1>4
<1>6. Messages' /\ Newest'
  BY <1>1, <1>2, <1>5 DEF Messages, Newest
<1>7. writer[w].note.list \in writer[w].note.keys
  BY <1>1, <1>2 DEF Messages
<1>8. ASSUME NEW l \in List, shared'[l] # None
      PROVE  /\ shared'[l] >= handled[l] /\ shared'[l] <= list[l]
             /\ \A x \in Writer : writer'[x].pc = "publish" /\ writer'[x].note.list = l =>
                  shared'[l] >= writer'[x].note.change
             /\ \A n \in 1 .. Len(queue) : queue[n].list = l => shared'[l] >= queue[n].change
  <2>1. shared'[l] = shared[l] /\ l \notin writer[w].note.keys
    BY <1>2, <1>8
  <2>2. \A x \in Writer : writer'[x].pc = "publish" /\ writer'[x].note.list = l => writer'[x] = writer[x]
    BY <1>4, <1>7, <2>1
  <2> QED
    BY <1>1, <1>8, <2>1, <2>2 DEF Shared
<1>9. Shared'
  BY <1>2, <1>8 DEF Shared
<1> QED
  BY <1>6, <1>9 DEF ListInv

LEMMA PublishLists ==
  ASSUME StateInv, ListInv, NEW w \in Writer, Publish(w)
  PROVE  ListInv'
<1>1. TypeOK /\ Messages /\ Newest /\ Shared
  BY DEF StateInv, ListInv
<1> DEFINE r == [pc |-> "idle", note |-> NoMessage]
           m == writer[w].note
<1>2. /\ UNCHANGED <<list, shared, handled>> /\ writer[w].pc = "publish"
      /\ queue' = Append(queue, m) /\ writer' = [writer EXCEPT ![w] = r]
  BY DEF Publish
<1>3. /\ writer \in [Writer -> [pc : {"idle", "tag", "publish"}, note : Message]]
      /\ queue \in Seq(Message)
  BY <1>1 DEF TypeOK
<1>4. r.pc = "idle"
  OBVIOUS
<1> HIDE DEF r
<1>5. writer'[w] = r /\ \A x \in Writer : x # w => writer'[x] = writer[x]
  BY <1>2, <1>3
<1>6. m \in Message /\ m.list \in m.keys /\ m.change \in 1 .. list[m.list] /\ m.list \in List
  <2>1. m \in Message
    BY <1>3
  <2>2. m.list \in m.keys /\ m.change \in 1 .. list[m.list]
    BY <1>1, <1>2 DEF Messages
  <2> QED
    BY <2>1, <2>2 DEF Message
<1> HIDE DEF m
<1>7. /\ Len(queue) \in Nat /\ Len(queue') = Len(queue) + 1 /\ queue'[Len(queue) + 1] = m
      /\ \A n \in 1 .. Len(queue) : queue'[n] = queue[n]
      /\ \A n \in 1 .. Len(queue') : n \in 1 .. Len(queue) \/ n = Len(queue) + 1
      /\ Len(queue) + 1 \in 1 .. Len(queue')
      /\ \A n \in 1 .. Len(queue) : n \in 1 .. Len(queue')
  BY <1>2, <1>3, <1>6
<1>8. \A x \in Writer : writer'[x].pc # "idle" => x # w /\ writer'[x] = writer[x]
  BY <1>4, <1>5
<1>9. Messages'
  <2>1. \A n \in 1 .. Len(queue') :
          /\ queue'[n].list \in List /\ queue'[n].change \in 1 .. list[queue'[n].list]
          /\ n # 1 => queue'[n].list \in queue'[n].keys
    BY <1>1, <1>6, <1>7 DEF Messages
  <2> QED
    BY <1>1, <1>2, <1>8, <2>1 DEF Messages
<1>10. Newest'
  <2> SUFFICES ASSUME NEW k \in List
               PROVE  \/ handled'[k] = list'[k]
                      \/ \E x \in Writer : /\ writer'[x].pc # "idle" /\ writer'[x].note.list = k
                                           /\ writer'[x].note.change = list'[k]
                      \/ \E n \in 1 .. Len(queue') : queue'[n].list = k /\ queue'[n].change = list'[k]
    BY DEF Newest
  <2>1. CASE handled[k] = list[k]
    BY <1>2, <2>1
  <2>2. ASSUME NEW x \in Writer, writer[x].pc # "idle", writer[x].note.list = k,
               writer[x].note.change = list[k]
        PROVE  \/ \E y \in Writer : /\ writer'[y].pc # "idle" /\ writer'[y].note.list = k
                                    /\ writer'[y].note.change = list'[k]
               \/ \E n \in 1 .. Len(queue') : queue'[n].list = k /\ queue'[n].change = list'[k]
    <3>1. CASE x = w
      BY <1>2, <1>7, <2>2, <3>1 DEF m
    <3>2. CASE x # w
      BY <1>2, <1>5, <2>2, <3>2
    <3> QED
      BY <3>1, <3>2
  <2>3. CASE \E n \in 1 .. Len(queue) : queue[n].list = k /\ queue[n].change = list[k]
    BY <1>2, <1>7, <2>3
  <2> QED
    BY <1>1, <2>1, <2>2, <2>3 DEF Newest
<1>11. Shared'
  <2>1. ASSUME NEW l \in List, shared[l] # None, NEW n \in 1 .. Len(queue'), queue'[n].list = l
        PROVE  shared[l] >= queue'[n].change
    BY <1>1, <1>2, <1>7, <2>1 DEF Shared, m
  <2> QED
    BY <1>1, <1>2, <1>8, <2>1 DEF Shared
<1> QED
  BY <1>9, <1>10, <1>11 DEF ListInv

LEMMA DelKeyLists ==
  ASSUME StateInv, ListInv, DelKey
  PROVE  ListInv'
<1>1. TypeOK /\ Messages /\ Newest /\ Shared
  BY DEF StateInv, ListInv
<1>2. UNCHANGED <<list, shared, writer, handled>> /\ queue # <<>>
  BY DEF DelKey
<1>3. PICK k : queue' = [queue EXCEPT ![1].keys = @ \ {k}]
  BY DEF DelKey
<1>4. queue \in Seq(Message) /\ Len(queue) \in Nat \ {0} /\ queue[1] \in Message
  <2>1. queue \in Seq(Message)
    BY <1>1 DEF TypeOK
  <2>2. Len(queue) \in Nat \ {0}
    BY <1>2, <2>1, EmptySeq
  <2> QED
    BY <2>1, <2>2
<1> DEFINE m == [queue[1] EXCEPT !.keys = @ \ {k}]
<1>5. m \in Message /\ m.list = queue[1].list /\ m.change = queue[1].change
  BY <1>4 DEF Message
<1>6. queue' = [queue EXCEPT ![1] = m]
  BY <1>3
<1> HIDE DEF m
<1>7. /\ Len(queue') = Len(queue)
      /\ \A n \in 1 .. Len(queue) : queue'[n].list = queue[n].list /\ queue'[n].change = queue[n].change
      /\ \A n \in 1 .. Len(queue) : n # 1 => queue'[n] = queue[n]
  BY <1>4, <1>5, <1>6
<1>8. Messages' /\ Newest' /\ Shared'
  BY <1>1, <1>2, <1>7 DEF Messages, Newest, Shared
<1> QED
  BY <1>8 DEF ListInv

\* The message dealt with is off the queue, and its change counts.
LEMMA HeadDone ==
  ASSUME StateInv, ListInv, queue # <<>>, queue' = Tail(queue),
         handled' = [handled EXCEPT ![queue[1].list] =
                       IF queue[1].change > @ THEN queue[1].change ELSE @]
  PROVE  LET m == queue[1] IN
         /\ m.list \in List /\ m.change \in 1 .. list[m.list]
         /\ handled'[m.list] = IF m.change > handled[m.list] THEN m.change ELSE handled[m.list]
         /\ \A l \in List : l # m.list => handled'[l] = handled[l]
         /\ \A l \in List : handled'[l] \in Nat /\ handled[l] \in Nat /\ handled[l] <= handled'[l]
         /\ Len(queue) \in Nat \ {0} /\ Len(queue') = Len(queue) - 1 
         /\ \A n \in 1 .. Len(queue') : n + 1 \in 1 .. Len(queue) /\ queue'[n] = queue[n + 1]
         /\ \A n \in 1 .. Len(queue) : n # 1 => n - 1 \in 1 .. Len(queue') /\ queue'[n - 1] = queue[n]
<1>1. TypeOK /\ Messages
  BY DEF StateInv, ListInv
<1>2. /\ queue \in Seq(Message) /\ list \in [List -> 0 .. MaxWrites]
      /\ handled \in [List -> 0 .. MaxWrites]
  BY <1>1 DEF TypeOK
<1>3. Len(queue) \in Nat \ {0}
  BY <1>2, EmptySeq
<1>4. queue[1].list \in List /\ queue[1].change \in 1 .. list[queue[1].list]
  BY <1>1, <1>3 DEF Messages
<1>5. Len(queue') = Len(queue) - 1 /\ \A n \in 1 .. Len(queue') : queue'[n] = queue[n + 1]
  BY <1>2, <1>3
<1>6. list[queue[1].list] \in Nat
  BY <1>2, <1>4
<1>7. /\ handled'[queue[1].list] = IF queue[1].change > handled[queue[1].list]
                                   THEN queue[1].change ELSE handled[queue[1].list]
      /\ \A l \in List : l # queue[1].list => handled'[l] = handled[l]
  BY <1>2, <1>4
<1>8. \A l \in List : handled'[l] \in Nat /\ handled[l] \in Nat /\ handled[l] <= handled'[l]
  BY <1>2, <1>4, <1>6, <1>7
<1>9. \A n \in 1 .. Len(queue') : n + 1 \in 1 .. Len(queue)
  BY <1>3, <1>5
<1>10. ASSUME NEW n \in 1 .. Len(queue), n # 1
       PROVE  n - 1 \in 1 .. Len(queue') /\ queue'[n - 1] = queue[n]
  <2>1. n - 1 \in 1 .. Len(queue')
    BY <1>3, <1>5, <1>10
  <2>2. queue'[n - 1] = queue[n - 1 + 1] /\ n - 1 + 1 = n
    BY <1>5, <2>1
  <2> QED
    BY <2>1, <2>2
<1> QED
  BY <1>3, <1>4, <1>5, <1>7, <1>8, <1>9, <1>10

LEMMA DelKeyDoneLists ==
  ASSUME StateInv, ListInv, DelKeyDone
  PROVE  ListInv'
<1>1. TypeOK /\ Messages /\ Newest /\ Shared /\ Frames
  BY DEF StateInv, ListInv
<1>2. UNCHANGED <<list, shared, writer>> /\ queue # <<>>
  BY <1>1 DEF DelKeyDone, Removing, Frames
<1>3. CASE UNCHANGED <<queue, handled>>
  BY <1>2, <1>3, ListKept
<1>4. CASE /\ queue' = Tail(queue)
           /\ handled' = [handled EXCEPT ![queue[1].list] =
                            IF queue[1].change > @ THEN queue[1].change ELSE @]
  <2> DEFINE m == queue[1]
  <2>1. /\ m.list \in List /\ m.change \in 1 .. list[m.list]
        /\ handled'[m.list] = IF m.change > handled[m.list] THEN m.change ELSE handled[m.list]
        /\ \A l \in List : l # m.list => handled'[l] = handled[l]
        /\ \A l \in List : handled'[l] \in Nat /\ handled[l] \in Nat /\ handled[l] <= handled'[l]
        /\ Len(queue) \in Nat \ {0} /\ Len(queue') = Len(queue) - 1 
        /\ \A n \in 1 .. Len(queue') : n + 1 \in 1 .. Len(queue) /\ queue'[n] = queue[n + 1]
        /\ \A n \in 1 .. Len(queue) : n # 1 => n - 1 \in 1 .. Len(queue') /\ queue'[n - 1] = queue[n]
    BY <1>2, <1>4, HeadDone
  <2>2. /\ list \in [List -> 0 .. MaxWrites] /\ 1 \in 1 .. Len(queue)
        /\ shared \in [List -> (0 .. MaxWrites) \cup {None}]
    BY <1>1, <2>1 DEF TypeOK
  <2> HIDE DEF m
  <2>3. \A l \in List : handled'[l] <= list[l]
    BY <1>1, <2>1, <2>2 DEF Messages
  <2>4. Messages'
    <3>1. ASSUME NEW n \in 1 .. Len(queue')
          PROVE  /\ queue'[n].list \in List /\ queue'[n].change \in 1 .. list[queue'[n].list]
                 /\ queue'[n].list \in queue'[n].keys
      <4>1. n + 1 \in 1 .. Len(queue) /\ n + 1 # 1 /\ queue'[n] = queue[n + 1]
        BY <2>1
      <4> QED
        BY <1>1, <4>1 DEF Messages
    <3> QED
      BY <1>1, <1>2, <2>3, <3>1 DEF Messages
  <2>5. Newest'
    <3> SUFFICES ASSUME NEW l \in List
                 PROVE  \/ handled'[l] = list'[l]
                        \/ \E x \in Writer : /\ writer'[x].pc # "idle" /\ writer'[x].note.list = l
                                             /\ writer'[x].note.change = list'[l]
                        \/ \E n \in 1 .. Len(queue') : queue'[n].list = l /\ queue'[n].change = list'[l]
      BY DEF Newest
    <3>1. CASE handled[l] = list[l]
      <4>1. list[l] \in Nat /\ handled[l] <= handled'[l] /\ handled'[l] <= list[l] /\ handled'[l] \in Nat
        BY <2>1, <2>2, <2>3
      <4> QED
        BY <1>2, <3>1, <4>1
    <3>2. CASE \E x \in Writer : writer[x].pc # "idle" /\ writer[x].note.list = l /\ writer[x].note.change = list[l]
      BY <1>2, <3>2
    <3>3. ASSUME NEW n \in 1 .. Len(queue), queue[n].list = l, queue[n].change = list[l]
          PROVE  \/ handled'[l] = list'[l]
                 \/ \E k \in 1 .. Len(queue') : queue'[k].list = l /\ queue'[k].change = list'[l]
      <4>1. CASE n = 1
        <5>1. handled'[l] >= list[l] /\ handled'[l] <= list[l] /\ list[l] \in Nat /\ handled'[l] \in Nat
          BY <2>1, <2>2, <2>3, <3>3, <4>1 DEF m
        <5> QED
          BY <1>2, <5>1
      <4>2. CASE n # 1
        BY <1>2, <2>1, <3>3, <4>2
      <4> QED
        BY <4>1, <4>2
    <3> QED
      BY <1>1, <3>1, <3>2, <3>3 DEF Newest
  <2>6. Shared'
    <3>1. ASSUME NEW l \in List, shared[l] # None
          PROVE  shared[l] >= handled'[l] /\ shared[l] <= list[l]
      <4>1. shared[l] >= handled[l] /\ shared[l] <= list[l] /\ (m.list = l => shared[l] >= m.change)
        BY <1>1, <2>2, <3>1 DEF Shared, m
      <4> QED
        BY <2>1, <4>1
    <3>2. ASSUME NEW l \in List, shared[l] # None, NEW n \in 1 .. Len(queue'), queue'[n].list = l
          PROVE  shared[l] >= queue'[n].change
      BY <1>1, <2>1, <3>2 DEF Shared
    <3> QED
      BY <1>1, <1>2, <3>1, <3>2 DEF Shared
  <2> QED
    BY <2>4, <2>5, <2>6 DEF ListInv
<1> QED
  BY <1>3, <1>4 DEF DelKeyDone

\* What a call reads of list l: it is from after everything this cache has heard
\* of or is about to hear.
Read(l) == IF shared[l] = None THEN list[l] ELSE shared[l]

LEMMA ReadIsNew ==
  ASSUME StateInv, ListInv, NEW l \in List
  PROVE  /\ Read(l) \in 0 .. MaxWrites /\ Read(l) >= handled[l] /\ Read(l) <= list[l]
         /\ \A w \in Writer : writer[w].pc = "publish" /\ writer[w].note.list = l =>
              Read(l) >= writer[w].note.change
         /\ \A n \in 1 .. Len(queue) : queue[n].list = l => Read(l) >= queue[n].change
<1>1. TypeOK /\ Messages /\ Shared
  BY DEF StateInv, ListInv
<1>2. /\ list \in [List -> 0 .. MaxWrites] /\ shared \in [List -> (0 .. MaxWrites) \cup {None}]
      /\ handled \in [List -> 0 .. MaxWrites]
  BY <1>1 DEF TypeOK
<1>3. Read(l) \in 0 .. MaxWrites
  BY <1>2 DEF Read
<1>4. CASE shared[l] # None
  BY <1>1, <1>3, <1>4 DEF Shared, Read
<1>5. CASE shared[l] = None
  <2>1. Read(l) = list[l]
    BY <1>5 DEF Read
  <2>2. list[l] >= handled[l] /\ list[l] \in Nat
    BY <1>1, <1>2 DEF Messages
  <2>3. ASSUME NEW w \in Writer, writer[w].pc = "publish", writer[w].note.list = l
        PROVE  list[l] >= writer[w].note.change
    BY <1>1, <2>2, <2>3 DEF Messages
  <2>4. ASSUME NEW n \in 1 .. Len(queue), queue[n].list = l
        PROVE  list[l] >= queue[n].change
    BY <1>1, <2>2, <2>4 DEF Messages
  <2> QED
    BY <1>3, <2>1, <2>2, <2>3, <2>4
<1> QED
  BY <1>4, <1>5

LEMMA ReadLists ==
  ASSUME StateInv, ListInv, NEW g \in Getter, ReadList(g)
  PROVE  ListInv'
<1>1. TypeOK /\ Messages /\ Newest /\ Shared
  BY DEF StateInv, ListInv
<1>2. UNCHANGED <<list, writer, queue, handled>>
  BY DEF ReadList
<1> DEFINE l == Lists(getter[g].item)[getter[g].done + 1]
<1>3. shared' = [shared EXCEPT ![l] = Read(l)]
  BY DEF ReadList, Read
<1>4. l \in List
  BY FetchMoves
<1> HIDE DEF l
<1>5. shared'[l] = Read(l) /\ \A k \in List : k # l => shared'[k] = shared[k]
  BY <1>1, <1>3, <1>4 DEF TypeOK
<1>6. Messages' /\ Newest'
  BY <1>1, <1>2 DEF Messages, Newest
<1>7. ASSUME NEW k \in List, shared'[k] # None
      PROVE  /\ shared'[k] >= handled[k] /\ shared'[k] <= list[k]
             /\ \A w \in Writer : writer[w].pc = "publish" /\ writer[w].note.list = k =>
                  shared'[k] >= writer[w].note.change
             /\ \A n \in 1 .. Len(queue) : queue[n].list = k => shared'[k] >= queue[n].change
  <2>1. CASE k = l
    BY <1>4, <1>5, <2>1, ReadIsNew
  <2>2. CASE k # l
    BY <1>1, <1>5, <1>7, <2>2 DEF Shared
  <2> QED
    BY <2>1, <2>2
<1>8. Shared'
  BY <1>2, <1>7 DEF Shared
<1> QED
  BY <1>6, <1>8 DEF ListInv

\* Everything else leaves the lists and messages alone.
LEMMA ListStep ==
  ASSUME StateInv, ListInv, [Next]_vars
  PROVE  ListInv'
<1>1. CASE UNCHANGED vars
  BY <1>1, ListKept DEF vars
<1>2. CASE Next
  <2>1. ASSUME NEW w \in Writer, Changing(w) PROVE ListInv'
    BY <2>1, WriteLists, TagLists, PublishLists DEF Changing
  <2>2. ASSUME NEW t \in Thread, Removals(t) PROVE ListInv'
    <3>1. UNCHANGED <<list, shared, writer, queue, handled>>
      BY <2>2 DEF Removals, Walk, RemoveLists, RemoveMissing, Remove, EvictDone
    <3> QED
      BY <3>1, ListKept
  <2>3. CASE Subscribing
    BY <2>2, <2>3, DelKeyLists, DelKeyDoneLists DEF Subscribing, Thread
  <2>4. ASSUME NEW g \in Getter, Progress(g) PROVE ListInv'
    <3>1. CASE ReadList(g)
      BY <3>1, ReadLists
    <3>2. CASE Added(g) \/ Use(g) \/ Refetch(g) \/ LinkItem(g) \/ LinkBack(g) \/ Fetched(g)
      <4>1. UNCHANGED <<list, shared, writer, queue, handled>>
        BY <3>2 DEF Added, Use, Refetch, LinkItem, LinkBack, Fetched
      <4> QED
        BY <4>1, ListKept
    <3> QED
      BY <2>2, <2>4, <3>1, <3>2 DEF Progress, Thread
  <2>5. ASSUME NEW g \in Getter, NEW i, Find(g, i) \/ Add(g, i) PROVE ListInv'
    <3>1. UNCHANGED <<list, shared, writer, queue, handled>>
      BY <2>5 DEF Find, Add
    <3> QED
      BY <3>1, ListKept
  <2>6. ASSUME NEW i \in Item, Expire(i) PROVE ListInv'
    <3>1. UNCHANGED <<list, shared, writer, queue, handled>>
      BY <2>6 DEF Expire
    <3> QED
      BY <3>1, ListKept
  <2> QED
    BY <1>2, <2>1, <2>3, <2>4, <2>5, <2>6 DEF Next
<1> QED
  BY <1>1, <1>2

LEMMA ListInit ==
  ASSUME Init
  PROVE  ListInv
<1>1. /\ list = NoChange /\ shared = [l \in List |-> None] /\ handled = NoChange
      /\ writer = [w \in Writer |-> [pc |-> "idle", note |-> NoMessage]] /\ queue = <<>>
  BY DEF Init
<1>2. \A l \in List : list[l] = 0 /\ handled[l] = 0 /\ shared[l] = None
  BY <1>1, NothingIs
<1>3. Len(queue) = 0 /\ \A w \in Writer : writer[w].pc = "idle"
  BY <1>1
<1> QED
  BY <1>2, <1>3 DEF ListInv, Messages, Newest, Shared

-----------------------------------------------------------------------------
(* What removals have yet to remove.                                       *)

\* What a removal is about to remove, now or when it has walked on.
ToGo(f) == (f.seen \cup f.front) \ (IF f.evict THEN {f.key} ELSE {})

LEMMA LeavingIs ==
  ASSUME NEW st \in [Thread -> Seq(Frame)], NEW i
  PROVE  (\E t \in Thread : \E n \in 1 .. Len(st[t]) :
            i \in Remaining([st[t][n] EXCEPT !.seen = @ \cup st[t][n].front]))
         <=> \E t \in Thread : \E n \in 1 .. Len(st[t]) : i \in ToGo(st[t][n])
<1>1. ASSUME NEW f \in Frame
      PROVE  Remaining([f EXCEPT !.seen = @ \cup f.front]) = ToGo(f)
  BY DEF Remaining, ToGo, Frame
<1>2. \A t \in Thread : \A n \in 1 .. Len(st[t]) : st[t][n] \in Frame
  OBVIOUS
<1> QED
  BY <1>1, <1>2

\* A step forgets no removal of an item that stays in the cache, and the
\* subscriber's walk no key.
Onward ==
  /\ \A t \in Thread : \A n \in 1 .. Len(stack[t]) : \A i \in Item :
       core'[i] # None /\ i \in ToGo(stack[t][n]) =>
         \E m \in 1 .. Len(stack'[t]) : i \in ToGo(stack'[t][m])
  /\ Apart'
  /\ Busy(Subscriber) =>
       \/ DelKeyDone
       \/ /\ Busy(Subscriber)'
          /\ \A l \in stack[Subscriber][1].front :
               l \in stack'[Subscriber][1].front \/ links'[l] = {}

LEMMA StackKept ==
  ASSUME Apart, UNCHANGED stack
  PROVE  Onward
BY DEF Onward, Apart, Busy

\* The innermost removal moves on.
LEMMA TopOnward ==
  ASSUME StateInv, Apart, NEW t \in Thread, Busy(t), NEW f \in Frame, Replace(t, f),
         f.front \cap f.seen = {},
         \A i \in Item : core'[i] # None /\ i \in ToGo(Top(t)) => i \in ToGo(f),
         \A l \in Top(t).front : l \in f.front \/ links'[l] = {}
  PROVE  Onward
<1>1. TypeOK
  BY DEF StateInv
<1>2. /\ \A u \in Thread : Len(stack'[u]) = Len(stack[u]) /\ (stack'[u] = <<>> <=> stack[u] = <<>>)
      /\ \A u \in Thread : \A n \in 1 .. Len(stack[u]) :
           stack'[u][n] = IF u = t /\ n = Len(stack[t]) THEN f ELSE stack[u][n]
  BY <1>1, ReplaceTop
<1>3. Top(t) = stack[t][Len(stack[t])] /\ Len(stack[t]) \in 1 .. Len(stack[t])
  BY <1>1, TopIs
<1>4. ASSUME NEW u \in Thread, NEW n \in 1 .. Len(stack[u]), NEW i \in Item,
             core'[i] # None, i \in ToGo(stack[u][n])
      PROVE  \E m \in 1 .. Len(stack'[u]) : i \in ToGo(stack'[u][m])
  <2>1. n \in 1 .. Len(stack'[u])
    BY <1>2
  <2>2. CASE u = t /\ n = Len(stack[t])
    <3>1. i \in ToGo(f) /\ stack'[u][n] = f
      BY <1>2, <1>3, <1>4, <2>2
    <3> QED
      BY <2>1, <3>1
  <2>3. CASE ~(u = t /\ n = Len(stack[t]))
    <3>1. stack'[u][n] = stack[u][n]
      BY <1>2, <2>3
    <3> QED
      BY <1>4, <2>1, <3>1
  <2> QED
    BY <2>2, <2>3
<1>5. Apart'
  <2>1. \A u \in Thread : \A n \in 1 .. Len(stack'[u]) : stack'[u][n] = f \/ stack'[u][n] = stack[u][n]
    BY <1>2
  <2> QED
    BY <1>2, <2>1 DEF Apart
<1>6. ASSUME Busy(Subscriber)
      PROVE  /\ Busy(Subscriber)'
             /\ \A l \in stack[Subscriber][1].front :
                  l \in stack'[Subscriber][1].front \/ links'[l] = {}
  <2>1. Subscriber \in Thread
    BY DEF Thread
  <2>2. Len(stack[Subscriber]) \in Nat \ {0}
    BY <1>1, <1>6, <2>1, TopIs
  <2>3. Busy(Subscriber)' /\ 1 \in 1 .. Len(stack[Subscriber])
    BY <1>2, <1>6, <2>1, <2>2 DEF Busy
  <2>4. CASE t = Subscriber /\ Len(stack[t]) = 1
    <3>1. stack'[Subscriber][1] = f /\ Top(t) = stack[Subscriber][1]
      BY <1>2, <1>3, <2>1, <2>3, <2>4
    <3> QED
      BY <2>3, <3>1
  <2>5. CASE ~(t = Subscriber /\ Len(stack[t]) = 1)
    <3>1. ~(Subscriber = t /\ 1 = Len(stack[t]))
      BY <2>5
    <3>2. stack'[Subscriber][1] =
            IF Subscriber = t /\ 1 = Len(stack[t]) THEN f ELSE stack[Subscriber][1]
      BY <1>2, <2>1, <2>3
    <3>3. stack'[Subscriber][1] = stack[Subscriber][1]
      BY <3>1, <3>2
    <3> QED
      BY <2>3, <3>3
  <2> QED
    BY <2>4, <2>5
<1> QED
  BY <1>4, <1>5, <1>6 DEF Onward

\* What the step of a walk does to its removal.
Walked(f, k) == [f EXCEPT !.seen = f.seen \cup {k},
                          !.front = (f.front \cup links[k]) \ (f.seen \cup {k})]

LEMMA WalkIs ==
  ASSUME StateInv, NEW t \in Thread, Walk(t)
  PROVE  \E k \in Top(t).front :
           /\ Busy(t) /\ Top(t) \in Frame /\ k \in Key
           /\ Walked(Top(t), k) \in Frame /\ Replace(t, Walked(Top(t), k))
           /\ links' = [links EXCEPT ![k] = {}]
<1>1. PICK k \in Top(t).front :
        Replace(t, Walked(Top(t), k)) /\ links' = [links EXCEPT ![k] = {}]
  BY DEF Walk, Walked
<1>2. Busy(t) /\ Top(t) \in Frame /\ links \in [Key -> SUBSET Key]
  BY TopIs DEF Walk, StateInv, TypeOK
<1>3. k \in Key
  BY <1>2 DEF Frame
<1>4. Walked(Top(t), k) \in Frame
  BY <1>2, <1>3 DEF Walked, Frame
<1> QED
  BY <1>1, <1>2, <1>3, <1>4

LEMMA WalkedIs ==
  ASSUME NEW f \in Frame, NEW k
  PROVE  /\ Walked(f, k).seen = f.seen \cup {k} /\ Walked(f, k).key = f.key
         /\ Walked(f, k).evict = f.evict
         /\ Walked(f, k).front = (f.front \cup links[k]) \ (f.seen \cup {k})
BY DEF Walked, Frame

LEMMA WalkOnward ==
  ASSUME StateInv, Apart, NEW t \in Thread, Walk(t)
  PROVE  Onward
<1>1. PICK k \in Top(t).front :
        /\ Busy(t) /\ Top(t) \in Frame /\ k \in Key
        /\ Walked(Top(t), k) \in Frame /\ Replace(t, Walked(Top(t), k))
        /\ links' = [links EXCEPT ![k] = {}]
  BY WalkIs
<1> DEFINE f == Walked(Top(t), k)
<1>2. /\ f.seen = Top(t).seen \cup {k} /\ f.key = Top(t).key /\ f.evict = Top(t).evict
      /\ f.front = (Top(t).front \cup links[k]) \ (Top(t).seen \cup {k})
  BY <1>1, WalkedIs
<1>3. f \in Frame /\ Replace(t, f) /\ links'[k] = {}
  BY <1>1 DEF StateInv, TypeOK
<1> HIDE DEF f
<1>4. f.front \cap f.seen = {} /\ \A i : i \in ToGo(Top(t)) => i \in ToGo(f)
  BY <1>2 DEF ToGo
<1>5. Top(t).front \cap Top(t).seen = {}
  BY <1>1, TopIs DEF Apart, StateInv
<1>6. \A l \in Top(t).front : l \in f.front \/ links'[l] = {}
  BY <1>2, <1>3, <1>5
<1> QED
  BY <1>1, <1>3, <1>4, <1>6, TopOnward

LEMMA RemoveNothingOnward ==
  ASSUME StateInv, Apart, NEW t \in Thread, RemoveLists(t) \/ RemoveMissing(t)
  PROVE  Onward
<1>1. PICK ks : /\ Replace(t, [Top(t) EXCEPT !.seen = @ \ ks])
                /\ \A i \in Item : i \in ks => core[i] = None
  <2>1. CASE RemoveLists(t)
    <3>1. PICK ls : ls \subseteq List /\ Replace(t, [Top(t) EXCEPT !.seen = @ \ ls])
      BY <2>1 DEF RemoveLists
    <3> QED
      BY <3>1
  <2>2. CASE RemoveMissing(t)
    <3>1. PICK i \in Item : core[i] = None /\ Replace(t, [Top(t) EXCEPT !.seen = @ \ {i}])
      BY <2>2 DEF RemoveMissing, Removed
    <3> QED
      BY <3>1
  <2> QED
    BY <2>1, <2>2
<1>2. Top(t) \in Frame /\ Busy(t) /\ core' = core
  BY TopIs DEF RemoveLists, RemoveMissing, Removing, StateInv
<1> DEFINE f == [Top(t) EXCEPT !.seen = @ \ ks]
<1>3. /\ f \in Frame /\ f.key = Top(t).key /\ f.evict = Top(t).evict
      /\ f.front = Top(t).front /\ f.seen = Top(t).seen \ ks
  BY <1>2 DEF Frame
<1>4. Replace(t, f)
  BY <1>1
<1> HIDE DEF f
<1>5. Top(t).front \cap Top(t).seen = {}
  BY <1>2, TopIs DEF Apart, StateInv
<1>6. Top(t).front = {}
  BY DEF RemoveLists, RemoveMissing, Removing
<1>7. \A i \in Item : core'[i] # None /\ i \in ToGo(Top(t)) => i \in ToGo(f)
  BY <1>1, <1>2, <1>3 DEF ToGo
<1> QED
  BY <1>2, <1>3, <1>4, <1>5, <1>6, <1>7, TopOnward

LEMMA RemoveOnward ==
  ASSUME StateInv, Apart, NEW t \in Thread, Remove(t)
  PROVE  Onward
<1>1. TypeOK /\ Calls /\ Memory /\ Frames
  BY DEF StateInv
<1>2. PICK i \in Remaining(Top(t)) \cap Item :
        core' = [core EXCEPT ![i] = None] /\ Push(t, Removed(Top(t), i), Removal(i, TRUE))
  BY DEF Remove
<1>3. Busy(t) /\ Top(t).front = {}
  BY DEF Remove, Removing
<1>4. Top(t) \in Frame /\ Len(stack[t]) \in Nat \ {0} /\ Top(t) = stack[t][Len(stack[t])]
  BY <1>1, <1>3, TopIs
<1> DEFINE f == Removed(Top(t), i)
           e == Removal(i, TRUE)
           n == Len(stack[t])
<1>5. /\ f \in Frame /\ f.key = Top(t).key /\ f.evict = Top(t).evict
      /\ f.front = {} /\ f.seen = Top(t).seen \ {i}
  BY <1>3, <1>4 DEF Frame, Removed
<1>6. e \in Frame /\ e.front = {i} /\ e.seen = {}
  BY DEF Frame, Removal, Key
<1>7. Push(t, f, e)
  BY <1>2
<1> HIDE DEF f, e
<1>8. /\ stack' \in [Thread -> Seq(Frame)]
      /\ Len(stack'[t]) = n + 1 /\ stack'[t][n + 1] = e /\ stack'[t][n] = f
      /\ \A m \in 1 .. n - 1 : stack'[t][m] = stack[t][m]
      /\ \A u \in Thread \ {t} : stack'[u] = stack[u]
  BY <1>1, <1>3, <1>5, <1>6, <1>7, PushTop
<1>9. core'[i] = None
  BY <1>1, <1>2 DEF TypeOK
<1>10. ASSUME NEW u \in Thread, NEW m \in 1 .. Len(stack[u]), NEW j \in Item,
              core'[j] # None, j \in ToGo(stack[u][m])
       PROVE  \E l \in 1 .. Len(stack'[u]) : j \in ToGo(stack'[u][l])
  <2>1. CASE u # t
    BY <1>8, <1>10, <2>1
  <2>2. CASE u = t /\ m = n
    <3>1. j \in ToGo(f)
      <4>1. j \in ToGo(Top(t))
        BY <1>4, <1>10, <2>2
      <4>2. j # i
        BY <1>9, <1>10
      <4> QED
        BY <1>3, <1>5, <4>1, <4>2 DEF ToGo
    <3>2. n \in 1 .. Len(stack'[t])
      BY <1>4, <1>8
    <3> QED
      BY <1>8, <2>2, <3>1, <3>2
  <2>3. CASE u = t /\ m # n
    <3>1. m \in 1 .. n - 1 /\ m \in 1 .. Len(stack'[t])
      BY <1>4, <1>8, <2>3
    <3>2. stack'[t][m] = stack[t][m]
      BY <1>8, <3>1
    <3> QED
      BY <1>10, <2>3, <3>1, <3>2
  <2> QED
    BY <2>1, <2>2, <2>3
<1>11. Apart'
  <2> SUFFICES ASSUME NEW u \in Thread, NEW m \in 1 .. Len(stack'[u])
               PROVE  stack'[u][m].front \cap stack'[u][m].seen = {}
    BY DEF Apart
  <2>1. CASE u # t
    BY <1>8, <2>1 DEF Apart
  <2>2. CASE u = t /\ m \in {n, n + 1}
    BY <1>5, <1>6, <1>8, <2>2
  <2>3. CASE u = t /\ m \notin {n, n + 1}
    <3>1. m \in 1 .. n - 1 /\ m \in 1 .. Len(stack[t])
      BY <1>4, <1>8, <2>3
    <3> QED
      BY <1>8, <2>3, <3>1 DEF Apart
  <2> QED
    BY <2>1, <2>2, <2>3
<1>12. ASSUME Busy(Subscriber)
       PROVE  Busy(Subscriber)' /\ stack'[Subscriber][1].front = stack[Subscriber][1].front
  <2>1. CASE t # Subscriber
    BY <1>8, <1>12, <2>1 DEF Busy, Thread
  <2>2. CASE t = Subscriber
    <3>1. Busy(Subscriber)'
      <4>1. Len(<<>>) = 0 /\ Len(stack'[t]) # 0
        BY <1>4, <1>8
      <4> QED
        BY <2>2, <4>1 DEF Busy
    <3>2. CASE n = 1
      <4>1. stack[Subscriber][1] = Top(t) /\ stack'[Subscriber][1] = f
        BY <1>4, <1>8, <2>2, <3>2
      <4> QED
        BY <1>3, <1>5, <3>1, <4>1
    <3>3. CASE n # 1
      <4>1. 1 \in 1 .. n - 1
        <5>1. n \in Nat \ {0}
          BY <1>4
        <5> HIDE DEF n
        <5> QED
          BY <3>3, <5>1
      <4> QED
        BY <1>8, <2>2, <3>1, <4>1
    <3> QED
      BY <3>2, <3>3
  <2> QED
    BY <2>1, <2>2
<1> QED
  BY <1>10, <1>11, <1>12 DEF Onward

LEMMA EvictDoneOnward ==
  ASSUME StateInv, Apart, NEW t \in Thread, EvictDone(t)
  PROVE  Onward
<1>1. TypeOK /\ Calls /\ Memory /\ Frames
  BY DEF StateInv
<1>2. /\ Busy(t) /\ Top(t).evict /\ Top(t).front = {} /\ Remaining(Top(t)) = {}
      /\ stack' = [stack EXCEPT ![t] = SubSeq(@, 1, Len(@) - 1)]
  BY DEF EvictDone, Removing
<1> DEFINE n == Len(stack[t])
<1>3. /\ n \in Nat \ {0} /\ Len(stack'[t]) = n - 1
      /\ \A m \in 1 .. Len(stack'[t]) : stack'[t][m] = stack[t][m]
      /\ \A u \in Thread \ {t} : stack'[u] = stack[u]
  BY <1>1, <1>2, PopTop
<1>4. Top(t) = stack[t][n] /\ n \in 1 .. Len(stack[t])
  BY <1>3 DEF Top
<1>5. ToGo(Top(t)) = {}
  BY <1>2 DEF ToGo, Remaining
<1>6. ASSUME NEW u \in Thread, NEW m \in 1 .. Len(stack[u]), NEW j \in Item, j \in ToGo(stack[u][m])
      PROVE  \E l \in 1 .. Len(stack'[u]) : j \in ToGo(stack'[u][l])
  <2>1. CASE u # t
    BY <1>3, <1>6, <2>1
  <2>2. CASE u = t
    <3>1. m # n
      BY <1>4, <1>5, <1>6, <2>2
    <3>2. m \in 1 .. Len(stack'[t])
      BY <1>3, <2>2, <3>1
    <3> QED
      BY <1>3, <1>6, <2>2, <3>2
  <2> QED
    BY <2>1, <2>2
<1>7. Apart'
  <2>1. \A u \in Thread : \A m \in 1 .. Len(stack'[u]) :
          m \in 1 .. Len(stack[u]) /\ stack'[u][m] = stack[u][m]
    BY <1>3
  <2> QED
    BY <2>1 DEF Apart
<1>8. ASSUME Busy(Subscriber)
      PROVE  Busy(Subscriber)' /\ stack'[Subscriber][1] = stack[Subscriber][1]
  <2>1. CASE t # Subscriber
    BY <1>3, <1>8, <2>1 DEF Busy, Thread
  <2>2. CASE t = Subscriber
    <3>1. n # 1
      BY <1>1, <1>2, <1>4, <2>2 DEF Frames
    <3>2. Len(stack'[t]) # 0 /\ 1 \in 1 .. Len(stack'[t]) /\ Len(<<>>) = 0
      <4>1. n \in Nat \ {0} /\ Len(stack'[t]) = n - 1
        BY <1>3
      <4> HIDE DEF n
      <4>2. Len(stack'[t]) \in Nat \ {0}
        BY <3>1, <4>1
      <4> QED
        BY <4>2
    <3> QED
      BY <1>3, <2>2, <3>2 DEF Busy
  <2> QED
    BY <2>1, <2>2
<1> QED
  BY <1>6, <1>7, <1>8 DEF Onward

LEMMA SubscriberOnward ==
  ASSUME StateInv, Apart, DelKey \/ DelKeyDone
  PROVE  Onward
<1>1. TypeOK /\ Calls /\ Memory /\ Frames /\ Subscriber \in Thread
  BY DEF StateInv, Thread
<1>2. stack \in [Thread -> Seq(Frame)] /\ Len(<<>>) = 0
  BY <1>1 DEF TypeOK
<1>3. CASE DelKey
  <2>1. PICK k : stack' = [stack EXCEPT ![Subscriber] = <<Removal(k, FALSE)>>]
    BY <1>3 DEF DelKey
  <2>2. stack[Subscriber] = <<>>
    BY <1>3 DEF DelKey, Busy
  <2> DEFINE e == Removal(k, FALSE)
             s == <<e>>
  <2>3. e.front = {k} /\ e.seen = {}
    BY DEF Removal
  <2>4. Len(s) = 1 /\ s[1] = e
    OBVIOUS
  <2> HIDE DEF e, s
  <2>5. stack'[Subscriber] = s /\ \A u \in Thread \ {Subscriber} : stack'[u] = stack[u]
    BY <1>1, <1>2, <2>1 DEF e, s
  <2>6. \A u \in Thread : \A n \in 1 .. Len(stack[u]) : u # Subscriber
    BY <1>2, <2>2
  <2>7. Apart'
    <3> SUFFICES ASSUME NEW u \in Thread, NEW m \in 1 .. Len(stack'[u])
                 PROVE  stack'[u][m].front \cap stack'[u][m].seen = {}
      BY DEF Apart
    <3>1. CASE u = Subscriber
      <4>1. m = 1 /\ stack'[u] = s
        <5>1. stack'[u] = s /\ Len(stack'[u]) = 1
          BY <2>4, <2>5, <3>1
        <5> QED
          BY <5>1
      <4> QED
        BY <2>3, <2>4, <4>1
    <3>2. CASE u # Subscriber
      BY <2>5, <3>2 DEF Apart
    <3> QED
      BY <3>1, <3>2
  <2> QED
    BY <2>2, <2>5, <2>6, <2>7 DEF Onward, Busy
<1>4. CASE DelKeyDone
  <2>1. /\ Busy(Subscriber) /\ ~Top(Subscriber).evict /\ Top(Subscriber).front = {}
        /\ Remaining(Top(Subscriber)) = {} /\ stack' = [stack EXCEPT ![Subscriber] = <<>>]
    BY <1>4 DEF DelKeyDone, Removing
  <2>2. /\ Len(stack[Subscriber]) \in 1 .. Len(stack[Subscriber])
        /\ Top(Subscriber) = stack[Subscriber][Len(stack[Subscriber])]
    BY <1>1, <2>1, TopIs
  <2>3. Len(stack[Subscriber]) = 1
    <3> DEFINE n == Len(stack[Subscriber])
    <3>1. n \in 1 .. Len(stack[Subscriber]) /\ ~stack[Subscriber][n].evict
      BY <2>1, <2>2
    <3> HIDE DEF n
    <3>2. n = 1
      BY <1>1, <3>1 DEF Frames
    <3> QED
      BY <3>2 DEF n
  <2>4. ToGo(Top(Subscriber)) = {}
    BY <2>1 DEF ToGo, Remaining
  <2>5. \A n \in 1 .. Len(stack[Subscriber]) : ToGo(stack[Subscriber][n]) = {}
    BY <2>2, <2>3, <2>4
  <2>6. stack'[Subscriber] = <<>> /\ \A u \in Thread \ {Subscriber} : stack'[u] = stack[u]
    BY <1>1, <1>2, <2>1
  <2>7. \A u \in Thread : \A m \in 1 .. Len(stack'[u]) : stack'[u] = stack[u]
    BY <1>2, <2>6
  <2>8. Apart'
    BY <2>7 DEF Apart
  <2>9. \A u \in Thread : \A n \in 1 .. Len(stack[u]) : \A i \in Item :
          i \in ToGo(stack[u][n]) => stack'[u] = stack[u]
    BY <2>5, <2>6
  <2> QED
    BY <1>4, <2>8, <2>9 DEF Onward
<1> QED
  BY <1>3, <1>4

LEMMA AddOnward ==
  ASSUME StateInv, Apart, NEW g \in Getter, NEW i \in DOMAIN layout.lists, Add(g, i)
  PROVE  Onward
<1>1. TypeOK /\ Calls /\ g \in Thread
  BY DEF StateInv, Thread
<1>2. stack \in [Thread -> Seq(Frame)] /\ Len(<<>>) = 0
  BY <1>1 DEF TypeOK
<1>3. stack[g] = <<>>
  BY <1>1 DEF Add, Calls
<1>4. CASE UNCHANGED stack
  BY <1>4, StackKept
<1>5. CASE \E j : stack' = [stack EXCEPT ![g] = <<Removal(j, TRUE)>>]
  <2>1. PICK j : stack' = [stack EXCEPT ![g] = <<Removal(j, TRUE)>>]
    BY <1>5
  <2> DEFINE e == Removal(j, TRUE)
             s == <<e>>
  <2>2. e.front = {j} /\ e.seen = {}
    BY DEF Removal
  <2>3. Len(s) = 1 /\ s[1] = e
    OBVIOUS
  <2> HIDE DEF e, s
  <2>4. stack'[g] = s /\ \A u \in Thread \ {g} : stack'[u] = stack[u]
    BY <1>1, <1>2, <2>1 DEF e, s
  <2>5. \A u \in Thread : \A n \in 1 .. Len(stack[u]) : u # g
    BY <1>2, <1>3
  <2>6. Apart'
    <3> SUFFICES ASSUME NEW u \in Thread, NEW m \in 1 .. Len(stack'[u])
                 PROVE  stack'[u][m].front \cap stack'[u][m].seen = {}
      BY DEF Apart
    <3>1. CASE u = g
      <4>1. m = 1 /\ stack'[u] = s
        <5>1. stack'[u] = s /\ Len(stack'[u]) = 1
          BY <2>3, <2>4, <3>1
        <5> QED
          BY <5>1
      <4> QED
        BY <2>2, <2>3, <4>1
    <3>2. CASE u # g
      BY <2>4, <3>2 DEF Apart
    <3> QED
      BY <3>1, <3>2
  <2>7. Subscriber \in Thread \ {g}
    BY DEF Thread
  <2> QED
    BY <2>4, <2>5, <2>6, <2>7 DEF Onward, Busy
<1> QED
  BY <1>4, <1>5 DEF Add

LEMMA OnwardStep ==
  ASSUME StateInv, Apart, [Next]_vars
  PROVE  Onward
<1>1. CASE UNCHANGED vars
  BY <1>1, StackKept DEF vars
<1>2. CASE Next
  <2>1. ASSUME NEW w \in Writer, Changing(w) PROVE Onward
    <3>1. UNCHANGED stack
      BY <2>1 DEF Changing, Write, Tag, Publish
    <3> QED
      BY <3>1, StackKept
  <2>2. ASSUME NEW t \in Thread, Removals(t) PROVE Onward
    BY <2>2, WalkOnward, RemoveNothingOnward, RemoveOnward, EvictDoneOnward DEF Removals
  <2>3. CASE Subscribing
    BY <2>2, <2>3, SubscriberOnward DEF Subscribing, Thread
  <2>4. ASSUME NEW g \in Getter, Progress(g) PROVE Onward
    <3>1. CASE Added(g) \/ Use(g) \/ Refetch(g) \/ LinkItem(g) \/ LinkBack(g) \/ ReadList(g) \/ Fetched(g)
      <4>1. UNCHANGED stack
        BY <3>1 DEF Added, Use, Refetch, LinkItem, LinkBack, ReadList, Fetched
      <4> QED
        BY <4>1, StackKept
    <3> QED
      BY <2>2, <2>4, <3>1 DEF Progress, Thread
  <2>5. ASSUME NEW g \in Getter, NEW i \in DOMAIN layout.lists, Find(g, i) \/ Add(g, i) PROVE Onward
    BY <2>5, StackKept, AddOnward DEF Find
  <2>6. ASSUME NEW i \in Item, Expire(i) PROVE Onward
    BY <2>6, StackKept DEF Expire
  <2> QED
    BY <1>2, <2>1, <2>3, <2>4, <2>5, <2>6 DEF Next
<1> QED
  BY <1>1, <1>2

\* Who is about to remove an item that stays in the cache still is.
LEMMA LeavingStep ==
  ASSUME StateInv, Apart, [Next]_vars, NEW i \in Item, Leaving(i), core'[i] # None
  PROVE  Leaving(i)'
<1>1. stack \in [Thread -> Seq(Frame)] /\ stack' \in [Thread -> Seq(Frame)]
  BY StateStep DEF StateInv, TypeOK
<1>2. PICK t \in Thread : \E n \in 1 .. Len(stack[t]) : i \in ToGo(stack[t][n])
  BY <1>1, LeavingIs DEF Leaving
<1>3. \E m \in 1 .. Len(stack'[t]) : i \in ToGo(stack'[t][m])
  BY <1>2, OnwardStep DEF Onward
<1> DEFINE st == stack'
<1>4. st \in [Thread -> Seq(Frame)] /\ \E m \in 1 .. Len(st[t]) : i \in ToGo(st[t][m])
  BY <1>1, <1>3
<1>5. \E u \in Thread : \E n \in 1 .. Len(st[u]) :
        i \in Remaining([st[u][n] EXCEPT !.seen = @ \cup st[u][n].front])
  <2> HIDE DEF st
  <2> QED
    BY <1>4, LeavingIs
<1> QED
  BY <1>5 DEF Leaving

-----------------------------------------------------------------------------
(* What a step does to objects, calls and the cache.                       *)

LEMMA LayoutKept ==
  ASSUME [Next]_vars
  PROVE  layout' = layout
<1>1. ASSUME NEW t, Removals(t) PROVE layout' = layout
  BY <1>1 DEF Removals, Walk, RemoveLists, RemoveMissing, Remove, EvictDone
<1>2. ASSUME NEW g, Progress(g) PROVE layout' = layout
  BY <1>1, <1>2 DEF Progress, Added, Use, Refetch, LinkItem, LinkBack, ReadList, Fetched
<1>3. ASSUME NEW w, Changing(w) PROVE layout' = layout
  BY <1>3 DEF Changing, Write, Tag, Publish
<1>4. Subscribing => layout' = layout
  BY <1>1 DEF Subscribing, DelKey, DelKeyDone
<1>5. ASSUME NEW g, NEW i, Find(g, i) \/ Add(g, i) PROVE layout' = layout
  BY <1>5 DEF Find, Add
<1>6. \A i \in Item : Expire(i) => layout' = layout
  BY DEF Expire
<1> QED
  BY <1>2, <1>3, <1>4, <1>5, <1>6 DEF Next, vars

LEMMA SweptValid ==
  ASSUME NEW c, NEW gs, NEW os, NEW o \in Object, Swept(c, gs, os)[o].state = "valid"
  PROVE  Swept(c, gs, os)[o] = os[o]
BY SweptIs DEF Unused

\* An object becomes valid when the call that locked it has fetched.
LEMMA ObjectStep ==
  ASSUME StateInv, [Next]_vars, NEW o \in Object, object'[o].state = "valid"
  PROVE  \/ object[o].state = "valid" /\ object'[o].value = object[o].value
         \/ \E g \in Getter : /\ Fetched(g) /\ getter[g].object = o
                              /\ object'[o].value = getter[g].value
<1> DEFINE Same == object[o].state = "valid" /\ object'[o].value = object[o].value
           New == \E g \in Getter : /\ Fetched(g) /\ getter[g].object = o
                                    /\ object'[o].value = getter[g].value
<1>1. object \in [Object -> ObjectState]
  BY DEF StateInv, TypeOK, ObjectState
<1>2. CASE UNCHANGED object
  BY <1>2
<1>3. ASSUME NEW t \in Thread, Removals(t) PROVE Same
  <2>1. CASE Remove(t)
    <3>1. object' = Swept(core', getter, object)
      BY <2>1 DEF Remove
    <3> QED
      BY <3>1, SweptValid
  <2> QED
    BY <1>2, <1>3, <2>1 DEF Removals, Walk, RemoveLists, RemoveMissing, EvictDone
<1>4. ASSUME NEW g \in Getter, Progress(g) PROVE Same \/ New
  <2>1. CASE Use(g)
    <3>1. object' = Swept(core, getter', object)
      BY <2>1 DEF Use
    <3> QED
      BY <3>1, SweptValid
  <2>2. CASE Refetch(g)
    <3>1. object' = [object EXCEPT ![getter[g].object].holder = g]
      BY <2>2 DEF Refetch
    <3>2. object'[o].state = object[o].state /\ object'[o].value = object[o].value
      BY <1>1, <3>1 DEF ObjectState
    <3> QED
      BY <3>2
  <2>3. CASE Fetched(g)
    <3> DEFINE r == [value |-> getter[g].value, state |-> "valid", holder |-> None]
               os == [object EXCEPT ![getter[g].object] = r]
    <3>1. object' = Swept(core, getter', os)
      BY <2>3 DEF Fetched
    <3>2. object'[o] = os[o]
      <4> HIDE DEF os
      <4> QED
        BY <3>1, SweptValid
    <3>3. r.value = getter[g].value
      OBVIOUS
    <3> HIDE DEF r
    <3>4. CASE o = getter[g].object
      BY <1>1, <2>3, <3>2, <3>3, <3>4
    <3>5. CASE o # getter[g].object
      BY <1>1, <3>2, <3>5
    <3> QED
      BY <3>4, <3>5
  <2>4. CASE Added(g) \/ LinkItem(g) \/ LinkBack(g) \/ ReadList(g)
    BY <1>2, <2>4 DEF Added, LinkItem, LinkBack, ReadList
  <2> QED
    BY <1>3, <1>4, <2>1, <2>2, <2>3, <2>4 DEF Progress, Thread
<1>5. ASSUME NEW g \in Getter, NEW i \in DOMAIN layout.lists, Add(g, i) PROVE Same
  <2>1. PICK n \in Object, os \in [Object -> ObjectState] : Adds(g, i, n, os)
    BY <1>5, AddIs
  <2>2. /\ object' = Swept(core', getter', os)
        /\ os[n] = [Unused EXCEPT !.holder = g] /\ \A p \in Object : p # n => os[p] = object[p]
    BY <2>1 DEF Adds
  <2>3. object'[o] = os[o]
    BY <2>2, SweptValid
  <2>4. os[n].state = "empty"
    BY <2>2 DEF Unused
  <2> QED
    BY <2>2, <2>3, <2>4
<1>6. ASSUME NEW i \in Item, Expire(i) PROVE Same
  <2>1. object' = [object EXCEPT ![core[i]] = [Unused EXCEPT !.state = "expired"]]
    BY <1>6 DEF Expire
  <2>2. o # core[i]
    BY <1>1, <2>1 DEF Unused
  <2> QED
    BY <1>1, <2>1, <2>2
<1> HIDE DEF Same, New
<1>7. ASSUME Subscribing PROVE Same
  BY <1>2, <1>3, <1>7 DEF Subscribing, DelKey, DelKeyDone, Thread, Same
<1>8. ASSUME NEW w \in Writer, Changing(w) PROVE Same
  BY <1>2, <1>8 DEF Changing, Write, Tag, Publish, Same
<1>9. ASSUME NEW g \in Getter, NEW i \in DOMAIN layout.lists, Find(g, i) PROVE Same
  BY <1>9 DEF Find, Same
<1>10. CASE UNCHANGED vars
  BY <1>10 DEF vars, Same
<1>11. ASSUME Next PROVE Same \/ New
  <2>1. ASSUME NEW g \in Getter, NEW i \in DOMAIN layout.lists, Find(g, i) \/ Add(g, i) PROVE Same
    BY <1>5, <1>9, <2>1
  <2> QED
    BY <1>4, <1>6, <1>7, <1>8, <1>11, <2>1 DEF Next
<1> QED
  BY <1>10, <1>11 DEF Same, New

\* Where a call goes.
Goes(g) ==
  \/ getter'[g] = getter[g]
  \/ getter'[g].pc \in {"idle", "add", "link"}
  \/ getter'[g].pc = "wait" /\ \E i \in DOMAIN layout.lists : Find(g, i)
  \/ /\ getter'[g].item = getter[g].item /\ getter'[g].object = getter[g].object
     /\ \/ LinkItem(g) /\ getter'[g].pc = "back" /\ getter'[g].done = 0
        \/ /\ LinkBack(g)
           /\ IF getter[g].done + 1 < Len(Lists(getter[g].item))
              THEN getter'[g].pc = "back" /\ getter'[g].done = getter[g].done + 1
              ELSE getter'[g].pc = "fetch" /\ getter'[g].done = 0
        \/ LET l == Lists(getter[g].item)[getter[g].done + 1] IN
           /\ ReadList(g) /\ getter'[g].pc = "fetch" /\ getter'[g].done = getter[g].done + 1
           /\ l \in List /\ getter'[g].value = [getter[g].value EXCEPT ![l] = Read(l)]

LEMMA CallStep ==
  ASSUME StateInv, [Next]_vars, NEW g \in Getter
  PROVE  Goes(g)
<1>1. getter \in [Getter -> CallState]
  BY DEF StateInv, TypeOK, CallState
<1>2. CASE UNCHANGED getter
  BY <1>2 DEF Goes
<1>3. ASSUME NEW t, Removals(t) PROVE UNCHANGED getter
  BY <1>3 DEF Removals, Walk, RemoveLists, RemoveMissing, Remove, EvictDone
<1>4. ASSUME NEW h \in Getter, Progress(h), h # g PROVE getter'[g] = getter[g]
  <2>1. CASE Added(h) \/ Use(h) \/ Fetched(h)
    BY <1>1, <1>4, <2>1 DEF Added, Use, Fetched
  <2>2. CASE Refetch(h) \/ LinkItem(h) \/ LinkBack(h) \/ ReadList(h)
    <3>1. PICK c \in CallState : Moves(h, c)
      BY <2>2, FetchMoves
    <3>2. getter' = [getter EXCEPT ![h] = c]
      BY <3>1 DEF Moves
    <3> QED
      BY <1>1, <1>4, <3>2
  <2> QED
    BY <1>3, <1>4, <2>1, <2>2 DEF Progress
<1>5. ASSUME Progress(g) PROVE Goes(g)
  <2>1. CASE Added(g) \/ Use(g) \/ Fetched(g)
    <3>1. getter'[g].pc \in {"idle", "link"}
      BY <1>1, <2>1 DEF Added, Use, Fetched, AtRest, CallState
    <3> QED
      BY <3>1 DEF Goes
  <2>2. CASE Refetch(g) \/ LinkItem(g) \/ LinkBack(g) \/ ReadList(g)
    <3>1. PICK c \in CallState :
           /\ Moves(g, c)
           /\ Refetch(g) => c.pc = "link"
           /\ LinkItem(g) => c.pc = "back" /\ c.done = 0
           /\ LinkBack(g) => IF getter[g].done + 1 < Len(Lists(getter[g].item))
                             THEN c.pc = "back" /\ c.done = getter[g].done + 1
                             ELSE c.pc = "fetch" /\ c.done = 0
           /\ ReadList(g) =>
                LET l == Lists(getter[g].item)[getter[g].done + 1] IN
                /\ c.pc = "fetch" /\ c.done = getter[g].done + 1 /\ l \in List
                /\ c.value = [getter[g].value EXCEPT ![l] = IF shared[l] = None THEN list[l] ELSE shared[l]]
      BY <2>2, FetchMoves
    <3>2. getter' = [getter EXCEPT ![g] = c] /\ c.item = getter[g].item /\ c.object = getter[g].object
      BY <3>1 DEF Moves
    <3>3. getter'[g] = c
      BY <1>1, <3>2
    <3> QED
      BY <2>2, <3>1, <3>2, <3>3 DEF Goes, Read
  <2> QED
    BY <1>2, <1>3, <1>5, <2>1, <2>2 DEF Progress
<1>6. ASSUME NEW h \in Getter, NEW i \in DOMAIN layout.lists, Find(h, i) \/ Add(h, i) PROVE Goes(g)
  <2>1. CASE h # g
    BY <1>1, <1>6, <2>1 DEF Find, Add, Goes
  <2>2. CASE h = g
    <3>1. CASE Find(h, i)
      <4>1. getter'[g].pc = "wait"
        BY <1>1, <2>2, <3>1 DEF Find, AtRest
      <4> QED
        BY <2>2, <3>1, <4>1 DEF Goes
    <3>2. CASE Add(h, i)
      <4>1. getter'[g].pc = "add"
        BY <1>1, <2>2, <3>2 DEF Add, AtRest
      <4> QED
        BY <4>1 DEF Goes
    <3> QED
      BY <1>6, <3>1, <3>2
  <2> QED
    BY <2>1, <2>2
<1>7. CASE Subscribing
  BY <1>2, <1>3, <1>7 DEF Subscribing, DelKey, DelKeyDone
<1>8. ASSUME NEW w \in Writer, Changing(w) PROVE UNCHANGED getter
  BY <1>8 DEF Changing, Write, Tag, Publish
<1>9. ASSUME NEW i \in Item, Expire(i) PROVE UNCHANGED getter
  BY <1>9 DEF Expire
<1>10. CASE UNCHANGED vars
  BY <1>2, <1>10 DEF vars
<1>11. ASSUME NEW h \in Getter, Progress(h) PROVE Goes(g)
  BY <1>4, <1>5, <1>11 DEF Goes
<1> QED
  BY <1>2, <1>6, <1>7, <1>8, <1>9, <1>10, <1>11 DEF Next

\* An item stays or it has a new object.
LEMMA CoreStep ==
  ASSUME StateInv, [Next]_vars, NEW i \in Item, core'[i] # None
  PROVE  \/ core'[i] = core[i]
         \/ core'[i] \in Object \ InUse(core, getter) /\ object'[core'[i]].state = "empty"
<1>1. core \in [Item -> Object \cup {None}]
  BY DEF StateInv, TypeOK
<1>2. ASSUME NEW t, Removals(t) PROVE core'[i] = core[i]
  <2>1. CASE Remove(t)
    BY <1>1, <2>1 DEF Remove
  <2> QED
    BY <1>2, <2>1 DEF Removals, Walk, RemoveLists, RemoveMissing, EvictDone
<1>3. ASSUME NEW g, Progress(g) PROVE core'[i] = core[i]
  BY <1>2, <1>3 DEF Progress, Added, Use, Refetch, LinkItem, LinkBack, ReadList, Fetched
<1>4. ASSUME NEW g \in Getter, NEW j \in DOMAIN layout.lists, Add(g, j)
      PROVE  \/ core'[i] = core[i]
             \/ core'[i] \in Object \ InUse(core, getter) /\ object'[core'[i]].state = "empty"
  <2>1. PICK n \in Object \ InUse(core, getter), os \in [Object -> ObjectState] : Adds(g, j, n, os)
    BY <1>4, AddIs
  <2>2. core'[j] = n /\ (i # j => core'[i] = core[i])
    BY <2>1 DEF Adds
  <2>3. /\ object' = Swept(core', getter', os) /\ os[n].state = "empty"
    BY <2>1 DEF Adds, Unused
  <2>4. object'[n] = os[n] \/ object'[n] = Unused
    BY <2>3, SweptIs
  <2>5. object'[n].state = "empty"
    BY <2>3, <2>4 DEF Unused
  <2> QED
    BY <2>1, <2>2, <2>5
<1>5. Subscribing => core'[i] = core[i]
  BY <1>2 DEF Subscribing, DelKey, DelKeyDone
<1>6. ASSUME NEW w, Changing(w) PROVE core'[i] = core[i]
  BY <1>6 DEF Changing, Write, Tag, Publish
<1>7. ASSUME NEW g, NEW j, Find(g, j) PROVE core'[i] = core[i]
  BY <1>7 DEF Find
<1>8. \A j \in Item : Expire(j) => core'[i] = core[i]
  BY DEF Expire
<1>9. UNCHANGED vars => core'[i] = core[i]
  BY DEF vars
<1> QED
  BY <1>3, <1>4, <1>5, <1>6, <1>7, <1>8, <1>9 DEF Next

-----------------------------------------------------------------------------
(* What a step does to answers and links.                                  *)

\* Whoever fetches for the object of an item has that item.
LEMMA ItemOf ==
  ASSUME StateInv, NEW i \in Item, NEW g \in Getter, core[i] # None, getter[g].object = core[i]
  PROVE  getter[g].item = i
BY DEF StateInv, Calls

\* Nobody has the object yet that a new item gets.
LEMMA NewIsUnused ==
  ASSUME StateInv, [Next]_vars, NEW i \in Item, core'[i] # None, core'[i] # core[i]
  PROVE  /\ object'[core'[i]].state = "empty"
         /\ \A g \in Getter : getter'[g].object = core'[i] => getter'[g].pc \notin {"back", "fetch"}
<1>1. core'[i] \in Object \ InUse(core, getter) /\ object'[core'[i]].state = "empty"
  BY CoreStep
<1>2. \A g \in Getter : getter[g].object # core'[i]
  BY <1>1 DEF InUse
<1>3. ASSUME NEW g \in Getter, getter'[g].object = core'[i], getter'[g].pc \in {"back", "fetch"}
      PROVE  FALSE
  <2>1. Goes(g)
    BY CallStep
  <2>2. getter'[g].object # getter[g].object
    BY <1>2, <1>3
  <2> QED
    BY <1>3, <2>1, <2>2 DEF Goes
<1> QED
  BY <1>1, <1>3

\* What an item knows next it knows, or a call has just read.
LEMMA KnowsStep ==
  ASSUME StateInv, [Next]_vars, NEW i \in Item, NEW l \in List, NEW v, Knows(i, l, v)'
  PROVE  core'[i] # None /\ (Knows(i, l, v) \/ (v = Read(l) /\ \E g \in Getter : ReadList(g)))
<1>1. core'[i] # None
  BY DEF Knows
<1>2. \/ /\ object'[core'[i]].state = "valid" /\ l \in Range(Lists(i))
         /\ object'[core'[i]].value[l] = v
      \/ \E g \in Getter : /\ getter'[g].pc = "fetch" /\ getter'[g].object = core'[i]
                           /\ \E n \in 1 .. getter'[g].done : Lists(i)[n] = l
                           /\ getter'[g].value[l] = v
  BY LayoutKept DEF Knows, Fetching, Lists
<1>3. core'[i] = core[i]
  BY <1>1, <1>2, NewIsUnused
<1>4. core[i] \in Object /\ core[i] # None
  BY <1>1, <1>3 DEF StateInv, TypeOK
<1>5. i \in DOMAIN layout.lists
  BY <1>4 DEF StateInv, Memory
<1>6. \A k : k \in Range(Lists(i)) => \E n \in 1 .. Len(Lists(i)) : Lists(i)[n] = k
  BY <1>5, LayoutFacts DEF StateInv
<1>7. ASSUME object'[core[i]].state = "valid", l \in Range(Lists(i)), object'[core[i]].value[l] = v
      PROVE  Knows(i, l, v)
  <2>1. CASE object[core[i]].state = "valid" /\ object'[core[i]].value = object[core[i]].value
    BY <1>4, <1>7, <2>1 DEF Knows
  <2>2. ASSUME NEW g \in Getter, Fetched(g), getter[g].object = core[i],
               object'[core[i]].value = getter[g].value
        PROVE  Knows(i, l, v)
    <3>1. getter[g].pc = "fetch" /\ getter[g].done = Len(Lists(getter[g].item))
      BY <2>2 DEF Fetched
    <3>2. getter[g].item = i
      BY <1>4, <2>2, ItemOf
    <3>3. \E n \in 1 .. getter[g].done : Lists(i)[n] = l
      BY <1>6, <1>7, <3>1, <3>2
    <3> QED
      BY <1>4, <1>7, <2>2, <3>1, <3>3 DEF Knows, Fetching
  <2> QED
    BY <1>4, <1>7, <2>1, <2>2, ObjectStep
<1>8. ASSUME NEW g \in Getter, getter'[g].pc = "fetch", getter'[g].object = core[i],
             NEW n \in 1 .. getter'[g].done, Lists(i)[n] = l, getter'[g].value[l] = v
      PROVE  Knows(i, l, v) \/ (v = Read(l) /\ ReadList(g))
  <2>1. Goes(g)
    BY CallStep
  <2>2. CASE getter'[g] = getter[g]
    BY <1>4, <1>8, <2>2 DEF Knows, Fetching
  <2>3. CASE LinkBack(g) /\ getter'[g].done = 0
    BY <1>8, <2>3
  <2>4. ASSUME ReadList(g), getter'[g].done = getter[g].done + 1, getter[g].object = core[i],
               LET k == Lists(getter[g].item)[getter[g].done + 1] IN
               k \in List /\ getter'[g].value = [getter[g].value EXCEPT ![k] = Read(k)]
        PROVE  Knows(i, l, v) \/ v = Read(l)
    <3>1. getter[g].item = i
      BY <1>4, <2>4, ItemOf
    <3>2. getter[g] \in CallState
      BY DEF StateInv, TypeOK, CallState
    <3>3. getter[g].done \in Nat /\ getter[g].value \in [List -> 0 .. MaxWrites]
      BY <3>2 DEF CallState
    <3> DEFINE k == Lists(i)[getter[g].done + 1]
    <3>4. CASE l = k
      <4>1. getter'[g].value[l] = Read(l)
        BY <2>4, <3>1, <3>3, <3>4
      <4> QED
        BY <1>8, <4>1
    <3>5. CASE l # k
      <4>1. getter'[g].value[l] = getter[g].value[l]
        BY <2>4, <3>1, <3>3, <3>5
      <4>2. n \in 1 .. getter[g].done
        BY <1>8, <2>4, <3>3, <3>5
      <4>3. getter[g].pc = "fetch"
        BY <2>4 DEF ReadList
      <4> QED
        BY <1>4, <1>8, <2>4, <4>1, <4>2, <4>3 DEF Knows, Fetching
    <3> QED
      BY <3>4, <3>5
  <2> QED
    BY <1>8, <2>1, <2>2, <2>3, <2>4 DEF Goes
<1> QED
  BY <1>1, <1>2, <1>3, <1>7, <1>8

LEMMA KnowsJoined ==
  ASSUME StateInv, NEW i \in Item, NEW l \in List, NEW v, Knows(i, l, v)
  PROVE  Joined(i, l)
<1>1. core[i] # None /\ i \in DOMAIN layout.lists
  BY DEF Knows, StateInv, Memory
<1>2. \A n \in 1 .. Len(Lists(i)) : Lists(i)[n] \in Range(Lists(i))
  BY <1>1, LayoutFacts DEF StateInv
<1>3. ASSUME NEW g \in Getter, Fetching(g, core[i]), NEW n \in 1 .. getter[g].done, Lists(i)[n] = l
      PROVE  l \in Range(Lists(i))
  <2>1. getter[g].item = i /\ getter[g].done <= Len(Lists(i))
    BY <1>1, <1>3, ItemOf DEF Fetching, StateInv, Calls
  <2>2. getter[g].done \in Nat
    BY DEF StateInv, TypeOK
  <2>3. Len(Lists(i)) \in Nat
    BY <1>1, LayoutFacts DEF StateInv
  <2>4. n \in 1 .. Len(Lists(i))
    BY <1>3, <2>1, <2>2, <2>3
  <2> QED
    BY <1>2, <1>3, <2>4
<1> QED
  BY <1>1, <1>3 DEF Knows, Joined

\* What is joined with a list next is, or has just been linked with it.
LEMMA LinkBackIs ==
  ASSUME StateInv, NEW g \in Getter, LinkBack(g)
  PROVE  /\ getter[g].pc = "back" /\ getter[g].done < Len(Lists(getter[g].item))
         /\ getter[g].done \in Nat /\ Len(Lists(getter[g].item)) \in Nat
         /\ getter[g].item \in links'[Lists(getter[g].item)[getter[g].done + 1]]
<1> DEFINE i == getter[g].item
           n == getter[g].done + 1
<1>1. /\ getter[g].pc = "back"
      /\ links' = [links EXCEPT ![Lists(i)[n]] = @ \cup {i}]
  BY DEF LinkBack, Linked
<1>2. i \in DOMAIN layout.lists /\ getter[g].done < Len(Lists(i)) /\ getter[g].done \in Nat
  BY <1>1 DEF StateInv, Calls, TypeOK
<1>3. Len(Lists(i)) \in Nat /\ \A m \in 1 .. Len(Lists(i)) : Lists(i)[m] \in List
  BY <1>2, LayoutFacts DEF StateInv
<1>4. Lists(i)[n] \in Key
  <2>1. n \in 1 .. Len(Lists(i))
    BY <1>2, <1>3
  <2> QED
    BY <1>3, <2>1 DEF Key
<1>5. i \in links'[Lists(i)[n]]
  BY <1>1, <1>4 DEF StateInv, TypeOK
<1> QED
  BY <1>1, <1>2, <1>3, <1>5

LEMMA JoinedStep ==
  ASSUME StateInv, [Next]_vars, NEW i \in Item, NEW l \in List, Joined(i, l)'
  PROVE  core'[i] # None /\ (Joined(i, l) \/ i \in links'[l])
<1>1. core'[i] # None
  BY DEF Joined
<1>2. \/ object'[core'[i]].state = "valid" /\ l \in Range(Lists(i))
      \/ \E g \in Getter :
           \/ getter'[g].pc = "fetch" /\ getter'[g].object = core'[i] /\ l \in Range(Lists(i))
           \/ /\ getter'[g].pc = "back" /\ getter'[g].object = core'[i]
              /\ \E n \in 1 .. getter'[g].done : Lists(i)[n] = l
  BY LayoutKept DEF Joined, Fetching, Lists
<1>3. core'[i] = core[i]
  BY <1>1, <1>2, NewIsUnused
<1>4. core[i] \in Object /\ core[i] # None
  BY <1>1, <1>3 DEF StateInv, TypeOK
<1>5. i \in DOMAIN layout.lists
  BY <1>4 DEF StateInv, Memory
<1>6. \A k : k \in Range(Lists(i)) => \E n \in 1 .. Len(Lists(i)) : Lists(i)[n] = k
  BY <1>5, LayoutFacts DEF StateInv
<1>7. ASSUME object'[core[i]].state = "valid", l \in Range(Lists(i))
      PROVE  Joined(i, l)
  <2>1. CASE object[core[i]].state = "valid"
    BY <1>4, <1>7, <2>1 DEF Joined
  <2>2. ASSUME NEW g \in Getter, Fetched(g), getter[g].object = core[i]
        PROVE  Joined(i, l)
    BY <1>4, <1>7, <2>2 DEF Joined, Fetching, Fetched
  <2> QED
    BY <1>4, <1>7, <2>1, <2>2, ObjectStep
<1>8. ASSUME NEW g \in Getter, getter[g].object = core[i], LinkBack(g),
             NEW n \in 1 .. getter[g].done + 1, Lists(i)[n] = l
      PROVE  Joined(i, l) \/ i \in links'[l]
  <2>1. getter[g].item = i
    BY <1>4, <1>8, ItemOf
  <2>2. getter[g].pc = "back" /\ getter[g].done \in Nat /\ i \in links'[Lists(i)[getter[g].done + 1]]
    BY <1>8, <2>1, LinkBackIs
  <2>3. CASE n = getter[g].done + 1
    BY <1>8, <2>2, <2>3
  <2>4. CASE n # getter[g].done + 1
    <3>1. n \in 1 .. getter[g].done
      BY <2>2, <2>4
    <3> QED
      BY <1>4, <1>8, <2>2, <3>1 DEF Joined
  <2> QED
    BY <2>3, <2>4
<1>9. ASSUME NEW g \in Getter, getter'[g].object = core[i], getter'[g].pc = "fetch", l \in Range(Lists(i))
      PROVE  Joined(i, l) \/ i \in links'[l]
  <2>1. CASE getter'[g] = getter[g]
    BY <1>4, <1>9, <2>1 DEF Joined, Fetching
  <2>2. CASE LinkBack(g) /\ getter[g].object = core[i] /\ ~(getter[g].done + 1 < Len(Lists(getter[g].item)))
    <3>1. getter[g].item = i
      BY <1>4, <2>2, ItemOf
    <3>2. /\ getter[g].done < Len(Lists(i)) /\ getter[g].done \in Nat /\ Len(Lists(i)) \in Nat
      BY <2>2, <3>1, LinkBackIs
    <3>3. Len(Lists(i)) = getter[g].done + 1
      BY <2>2, <3>1, <3>2
    <3> QED
      BY <1>6, <1>8, <1>9, <2>2, <3>3
  <2>3. CASE ReadList(g) /\ getter[g].object = core[i]
    BY <1>4, <1>9, <2>3 DEF Joined, Fetching, ReadList
  <2>4. Goes(g)
    BY CallStep
  <2> QED
    BY <1>9, <2>1, <2>2, <2>3, <2>4 DEF Goes
<1>10. ASSUME NEW g \in Getter, getter'[g].object = core[i], getter'[g].pc = "back",
              NEW n \in 1 .. getter'[g].done, Lists(i)[n] = l
       PROVE  Joined(i, l) \/ i \in links'[l]
  <2>1. CASE getter'[g] = getter[g]
    BY <1>4, <1>10, <2>1 DEF Joined
  <2>2. CASE getter'[g].done = 0
    BY <1>10, <2>2
  <2>3. CASE LinkBack(g) /\ getter[g].object = core[i] /\ getter'[g].done = getter[g].done + 1
    BY <1>8, <1>10, <2>3
  <2>4. Goes(g)
    BY CallStep
  <2> QED
    BY <1>10, <2>1, <2>2, <2>3, <2>4 DEF Goes
<1> QED
  BY <1>1, <1>2, <1>3, <1>7, <1>9, <1>10

\* A link to an item that stays is kept, or the item will be removed.
LEMMA LinksStep ==
  ASSUME StateInv, [Next]_vars, NEW i \in Item, NEW l \in List, i \in links[l], core'[i] # None
  PROVE  i \in links'[l] \/ Leaving(i)'
<1>1. links \in [Key -> SUBSET Key] /\ l \in Key
  BY DEF StateInv, TypeOK, Key
<1>2. CASE UNCHANGED links
  BY <1>2
<1>3. ASSUME NEW t \in Thread, Walk(t) PROVE i \in links'[l] \/ Leaving(i)'
  <2>1. PICK k \in Top(t).front :
           /\ Busy(t) /\ Top(t) \in Frame /\ k \in Key
           /\ Walked(Top(t), k) \in Frame /\ Replace(t, Walked(Top(t), k))
           /\ links' = [links EXCEPT ![k] = {}]
    BY <1>3, WalkIs
  <2>2. CASE k # l
    BY <1>1, <2>1, <2>2
  <2>3. CASE k = l
    <3> DEFINE f == Walked(Top(t), k)
               n == Len(stack[t])
    <3>1. /\ f.seen = Top(t).seen \cup {k} /\ f.key = Top(t).key /\ f.evict = Top(t).evict
          /\ f.front = (Top(t).front \cup links[k]) \ (Top(t).seen \cup {k})
          /\ f \in Frame /\ Replace(t, f)
      BY <2>1, WalkedIs
    <3> HIDE DEF f
    <3>2. Top(t) = stack[t][n] /\ n \in 1 .. Len(stack[t])
      BY <2>1, TopIs DEF StateInv
    <3>3. ~(f.evict /\ f.key = i)
      <4>1. core[i] # None
        BY <1>3 DEF Walk
      <4> QED
        BY <3>1, <3>2, <4>1 DEF StateInv, Frames
    <3>4. i \in ToGo(f)
      BY <2>3, <3>1, <3>3 DEF ToGo
    <3>5. stack' \in [Thread -> Seq(Frame)] /\ n \in 1 .. Len(stack'[t]) /\ stack'[t][n] = f
      BY <2>1, <3>1, <3>2, ReplaceTop DEF StateInv
    <3> DEFINE st == stack'
    <3>6. st \in [Thread -> Seq(Frame)] /\ \E m \in 1 .. Len(st[t]) : i \in ToGo(st[t][m])
      BY <3>4, <3>5
    <3>7. \E u \in Thread : \E m \in 1 .. Len(st[u]) :
            i \in Remaining([st[u][m] EXCEPT !.seen = @ \cup st[u][m].front])
      <4> HIDE DEF st
      <4> QED
        BY <3>6, LeavingIs
    <3> QED
      BY <3>7 DEF Leaving
  <2> QED
    BY <2>2, <2>3
<1>4. ASSUME NEW t \in Thread, Removals(t) PROVE i \in links'[l] \/ Leaving(i)'
  BY <1>2, <1>3, <1>4 DEF Removals, RemoveLists, RemoveMissing, Remove, EvictDone
<1>5. ASSUME NEW g \in Getter, Progress(g) PROVE i \in links'[l] \/ Leaving(i)'
  <2>1. CASE LinkItem(g) \/ LinkBack(g)
    BY <1>1, <2>1 DEF LinkItem, LinkBack
  <2>2. CASE Added(g) \/ Use(g) \/ Refetch(g) \/ ReadList(g) \/ Fetched(g)
    BY <1>2, <2>2 DEF Added, Use, Refetch, ReadList, Fetched
  <2> QED
    BY <1>4, <1>5, <2>1, <2>2 DEF Progress, Thread
<1>6. CASE Subscribing
  BY <1>2, <1>4, <1>6 DEF Subscribing, DelKey, DelKeyDone, Thread
<1>7. ASSUME NEW w, Changing(w) PROVE UNCHANGED links
  BY <1>7 DEF Changing, Write, Tag, Publish
<1>8. ASSUME NEW g, NEW j, Find(g, j) \/ Add(g, j) PROVE UNCHANGED links
  BY <1>8 DEF Find, Add
<1>9. ASSUME NEW j, Expire(j) PROVE UNCHANGED links
  BY <1>9 DEF Expire
<1>10. CASE UNCHANGED vars
  BY <1>2, <1>10 DEF vars
<1> QED
  BY <1>2, <1>5, <1>6, <1>7, <1>8, <1>9, <1>10 DEF Next

-----------------------------------------------------------------------------
(* Answers are new enough.                                                 *)

LEMMA QueueStep ==
  ASSUME [Next]_vars
  PROVE  \/ UNCHANGED <<queue, handled>>
         \/ DelKey \/ DelKeyDone \/ \E w \in Writer : Publish(w)
<1>1. ASSUME NEW t, Removals(t) PROVE UNCHANGED <<queue, handled>>
  BY <1>1 DEF Removals, Walk, RemoveLists, RemoveMissing, Remove, EvictDone
<1>2. ASSUME NEW g, Progress(g) PROVE UNCHANGED <<queue, handled>>
  BY <1>1, <1>2 DEF Progress, Added, Use, Refetch, LinkItem, LinkBack, ReadList, Fetched
<1>3. ASSUME NEW w, Changing(w) PROVE UNCHANGED <<queue, handled>> \/ Publish(w)
  BY <1>3 DEF Changing, Write, Tag
<1>4. ASSUME NEW g, NEW i, Find(g, i) \/ Add(g, i) PROVE UNCHANGED <<queue, handled>>
  BY <1>4 DEF Find, Add
<1>5. ASSUME NEW i, Expire(i) PROVE UNCHANGED <<queue, handled>>
  BY <1>5 DEF Expire
<1>6. UNCHANGED vars => UNCHANGED <<queue, handled>>
  BY DEF vars
<1> QED
  BY <1>1, <1>2, <1>3, <1>4, <1>5, <1>6 DEF Next, Subscribing

LEMMA ListGrows ==
  ASSUME StateInv, [Next]_vars, NEW l \in List
  PROVE  list[l] \in Nat /\ list'[l] \in Nat /\ list[l] <= list'[l]
<1>1. list \in [List -> 0 .. MaxWrites] /\ list' \in [List -> 0 .. MaxWrites]
  BY StateStep DEF StateInv, TypeOK
<1>2. ASSUME NEW w, NEW call, Write(w, call) PROVE list[l] <= list'[l]
  BY <1>1, <1>2 DEF Write
<1>3. ASSUME NEW w, Changing(w) PROVE list[l] <= list'[l]
  <2>1. list[l] <= list[l]
    BY <1>1
  <2> QED
    BY <1>2, <1>3, <2>1 DEF Changing, Tag, Publish
<1>4. ASSUME NEW t, Removals(t) PROVE list' = list
  BY <1>4 DEF Removals, Walk, RemoveLists, RemoveMissing, Remove, EvictDone
<1>5. ASSUME NEW g, Progress(g) PROVE list' = list
  BY <1>4, <1>5 DEF Progress, Added, Use, Refetch, LinkItem, LinkBack, ReadList, Fetched
<1>6. ASSUME NEW g, NEW i, Find(g, i) \/ Add(g, i) PROVE list' = list
  BY <1>6 DEF Find, Add
<1>7. ASSUME NEW i, Expire(i) PROVE list' = list
  BY <1>7 DEF Expire
<1>8. UNCHANGED vars \/ Subscribing => list' = list
  BY <1>4 DEF vars, Subscribing, DelKey, DelKeyDone
<1>9. list' = list \/ list[l] <= list'[l]
  BY <1>3, <1>5, <1>6, <1>7, <1>8 DEF Next
<1> QED
  BY <1>1, <1>9

LEMMA HandledGrows ==
  ASSUME StateInv, ListInv, [Next]_vars, NEW l \in List
  PROVE  handled[l] \in Nat /\ handled'[l] \in Nat /\ handled[l] <= handled'[l]
<1>1. handled \in [List -> 0 .. MaxWrites]
  BY DEF StateInv, TypeOK
<1>2. CASE UNCHANGED handled
  BY <1>1, <1>2
<1>3. CASE DelKeyDone
  <2>1. queue # <<>>
    BY <1>3 DEF DelKeyDone, Removing, StateInv, Frames
  <2>2. CASE /\ queue' = Tail(queue)
             /\ handled' = [handled EXCEPT ![queue[1].list] =
                              IF queue[1].change > @ THEN queue[1].change ELSE @]
    BY <2>1, <2>2, HeadDone
  <2> QED
    BY <1>2, <1>3, <2>2 DEF DelKeyDone
<1>4. CASE DelKey \/ \E w \in Writer : Publish(w)
  BY <1>2, <1>4 DEF DelKey, Publish
<1> QED
  BY <1>2, <1>3, <1>4, QueueStep

LEMMA LinksKept ==
  ASSUME StateInv, CacheInv, [Next]_vars
  PROVE  Links'
<1>1. Apart /\ Links
  BY DEF CacheInv
<1>2. ASSUME NEW i \in Item, NEW l \in List, Joined(i, l)'
      PROVE  i \in links'[l] \/ Leaving(i)'
  <2>1. core'[i] # None /\ (Joined(i, l) \/ i \in links'[l])
    BY <1>2, JoinedStep
  <2>2. CASE i \in links'[l]
    BY <2>2
  <2>3. CASE i \in links[l]
    BY <2>1, <2>3, LinksStep
  <2>4. CASE Leaving(i)
    BY <1>1, <2>1, <2>4, LeavingStep
  <2> QED
    BY <1>1, <2>1, <2>2, <2>3, <2>4 DEF Links
<1> QED
  BY <1>2 DEF Links

\* Answers that are as new as change c stay so, when what is read is.
LEMMA NewerKept ==
  ASSUME StateInv, CacheInv, [Next]_vars, NEW l \in List, NEW c,
         \A i \in Item, v \in 0 .. MaxWrites : Knows(i, l, v) => v >= c \/ Leaving(i),
         (\E g \in Getter : ReadList(g)) => Read(l) >= c
  PROVE  \A i \in Item, v \in 0 .. MaxWrites : Knows(i, l, v)' => v >= c \/ Leaving(i)'
<1> SUFFICES ASSUME NEW i \in Item, NEW v \in 0 .. MaxWrites, Knows(i, l, v)'
             PROVE  v >= c \/ Leaving(i)'
  OBVIOUS
<1>1. core'[i] # None /\ (Knows(i, l, v) \/ (v = Read(l) /\ \E g \in Getter : ReadList(g)))
  BY KnowsStep
<1>2. Leaving(i) => Leaving(i)'
  BY <1>1, LeavingStep DEF CacheInv
<1> QED
  BY <1>1, <1>2

\* The last key of a message was walked.
LEMMA DelKeyDoneIs ==
  ASSUME StateInv, DelKeyDone
  PROVE  /\ queue # <<>> /\ Busy(Subscriber) /\ stack[Subscriber][1].front = {}
         /\ IF queue[1].keys = {}
            THEN /\ queue' = Tail(queue)
                 /\ handled' = [handled EXCEPT ![queue[1].list] =
                                  IF queue[1].change > @ THEN queue[1].change ELSE @]
            ELSE UNCHANGED <<queue, handled>>
<1>1. TypeOK /\ Frames /\ Subscriber \in Thread
  BY DEF StateInv, Thread
<1>2. Busy(Subscriber) /\ ~Top(Subscriber).evict /\ Top(Subscriber).front = {}
  BY DEF DelKeyDone, Removing
<1> DEFINE n == Len(stack[Subscriber])
<1>3. n \in 1 .. Len(stack[Subscriber]) /\ Top(Subscriber) = stack[Subscriber][n]
  BY <1>1, <1>2, TopIs
<1> HIDE DEF n
<1>4. n = 1
  BY <1>1, <1>2, <1>3 DEF Frames
<1>5. stack[Subscriber][1].front = {}
  BY <1>2, <1>3, <1>4
<1>6. queue # <<>>
  BY <1>1, <1>2 DEF Frames
<1> QED
  BY <1>2, <1>5, <1>6 DEF DelKeyDone

LEMMA HeardKept ==
  ASSUME StateInv, ListInv, CacheInv, [Next]_vars
  PROVE  Heard'
<1>1. Heard /\ HeadWalked
  BY DEF CacheInv
<1>2. ASSUME NEW i \in Item, NEW l \in List, NEW v \in 0 .. MaxWrites, Knows(i, l, v)'
      PROVE  v <= list'[l]
  <2>1. Knows(i, l, v) \/ v = Read(l)
    BY <1>2, KnowsStep
  <2>2. v <= list[l]
    BY <1>1, <2>1, ReadIsNew DEF Heard
  <2> QED
    BY <2>2, ListGrows
<1>3. ASSUME NEW l \in List
      PROVE  \A i \in Item, v \in 0 .. MaxWrites : Knows(i, l, v)' => v >= handled'[l] \/ Leaving(i)'
  <2>1. \A i \in Item, v \in 0 .. MaxWrites : Knows(i, l, v) => v >= handled[l] \/ Leaving(i)
    BY <1>1 DEF Heard
  <2>2. CASE handled'[l] = handled[l]
    <3> DEFINE c == handled[l]
    <3>1. Read(l) >= c /\ \A i \in Item, v \in 0 .. MaxWrites : Knows(i, l, v) => v >= c \/ Leaving(i)
      BY <2>1, ReadIsNew
    <3>2. handled'[l] = c
      BY <2>2
    <3> HIDE DEF c
    <3>3. /\ \A i \in Item, v \in 0 .. MaxWrites : Knows(i, l, v) => v >= c \/ Leaving(i)
          /\ (\E g \in Getter : ReadList(g)) => Read(l) >= c
      BY <3>1
    <3>4. \A i \in Item, v \in 0 .. MaxWrites : Knows(i, l, v)' => v >= c \/ Leaving(i)'
      BY <3>3, NewerKept
    <3> QED
      BY <3>2, <3>4
  <2>3. CASE handled'[l] # handled[l]
    <3>1. DelKeyDone
      BY <2>3, QueueStep DEF DelKey, Publish
    <3>2. /\ queue # <<>> /\ stack[Subscriber][1].front = {} /\ queue[1].keys = {}
          /\ queue' = Tail(queue)
          /\ handled' = [handled EXCEPT ![queue[1].list] =
                           IF queue[1].change > @ THEN queue[1].change ELSE @]
      BY <2>3, <3>1, DelKeyDoneIs
    <3> DEFINE c == queue[1].change
    <3>3. l = queue[1].list /\ handled'[l] = c
      BY <2>3, <3>2, HeadDone
    <3>4. \A i \in Item, v \in 0 .. MaxWrites : Knows(i, l, v) => v >= c \/ Leaving(i)
      BY <1>1, <3>2, <3>3 DEF HeadWalked
    <3>5. ~\E g \in Getter : ReadList(g)
      BY <2>3 DEF ReadList
    <3> HIDE DEF c
    <3>6. \A i \in Item, v \in 0 .. MaxWrites : Knows(i, l, v)' => v >= c \/ Leaving(i)'
      BY <3>4, <3>5, NewerKept
    <3> QED
      BY <3>3, <3>6
  <2> QED
    BY <2>2, <2>3
<1> QED
  BY <1>2, <1>3 DEF Heard

\* The message at hand is the same, and its walk is not over.
LEMMA HeadSame ==
  ASSUME StateInv, ListInv, CacheInv, [Next]_vars, queue # <<>>, queue'[1].list = queue[1].list,
         queue'[1].change = queue[1].change, queue[1].list \in queue[1].keys => queue'[1].list \in queue'[1].keys,
         ~DelKeyDone \/ stack[Subscriber][1].front = {}
  PROVE  HeadWalked'
<1>1. Len(queue) \in Nat \ {0} /\ 1 \in 1 .. Len(queue)
  BY EmptySeq DEF StateInv, TypeOK
<1>2. PICK l \in List, c \in Int : /\ queue[1].list = l /\ queue[1].change = c
                                  /\ queue'[1].list = l /\ queue'[1].change = c
  BY <1>1 DEF ListInv, Messages
<1>3. Read(l) >= c
  BY <1>1, <1>2, ReadIsNew
<1> DEFINE Newer == \A i \in Item, v \in 0 .. MaxWrites : Knows(i, l, v)' => v >= c \/ Leaving(i)'
<1>4. \/ l \in queue[1].keys
      \/ Busy(Subscriber) /\ l \in stack[Subscriber][1].front
      \/ \A i \in Item, v \in 0 .. MaxWrites : Knows(i, l, v) => v >= c \/ Leaving(i)
  BY <1>2 DEF CacheInv, HeadWalked
<1>5. ASSUME \A i \in Item, v \in 0 .. MaxWrites : Knows(i, l, v) => v >= c \/ Leaving(i)
      PROVE  Newer
  BY <1>3, <1>5, NewerKept
<1>6. ASSUME Busy(Subscriber), l \in stack[Subscriber][1].front
      PROVE  Busy(Subscriber)' /\ (l \in stack'[Subscriber][1].front \/ Newer)
  <2>1. Onward
    BY OnwardStep DEF CacheInv
  <2>2. Busy(Subscriber)' /\ (l \in stack'[Subscriber][1].front \/ links'[l] = {})
    BY <1>6, <2>1 DEF Onward
  <2>3. ASSUME links'[l] = {}, NEW i \in Item, NEW v \in 0 .. MaxWrites, Knows(i, l, v)'
        PROVE  v >= c \/ Leaving(i)'
    <3>1. core'[i] # None /\ (Knows(i, l, v) \/ v = Read(l))
      BY <2>3, KnowsStep
    <3>2. CASE v = Read(l)
      BY <1>3, <3>2
    <3>3. CASE Knows(i, l, v)
      <4>1. Joined(i, l)
        BY <3>3, KnowsJoined
      <4>2. CASE i \in links[l]
        BY <2>3, <3>1, <4>2, LinksStep
      <4>3. CASE Leaving(i)
        BY <3>1, <4>3, LeavingStep DEF CacheInv
      <4> QED
        BY <4>1, <4>2, <4>3 DEF CacheInv, Links
    <3> QED
      BY <3>1, <3>2, <3>3
  <2> QED
    BY <2>2, <2>3
<1> HIDE DEF Newer
<1>7. l \in queue'[1].keys \/ (Busy(Subscriber)' /\ l \in stack'[Subscriber][1].front) \/ Newer
  BY <1>2, <1>4, <1>5, <1>6
<1>8. Newer => HeadWalked'
  BY <1>2 DEF HeadWalked, Newer
<1> QED
  BY <1>2, <1>7, <1>8 DEF HeadWalked

LEMMA HeadWalkedKept ==
  ASSUME StateInv, ListInv, CacheInv, [Next]_vars
  PROVE  HeadWalked'
<1>1. queue \in Seq(Message) /\ stack \in [Thread -> Seq(Frame)] /\ Messages /\ Subscriber \in Thread
  BY DEF StateInv, TypeOK, ListInv, Thread
<1>2. CASE UNCHANGED queue /\ ~DelKeyDone
  <2>1. CASE queue # <<>>
    BY <1>2, <2>1, HeadSame
  <2>2. CASE queue = <<>>
    BY <1>2, <2>2 DEF HeadWalked
  <2> QED
    BY <2>1, <2>2
<1>3. ASSUME NEW w \in Writer, Publish(w) PROVE HeadWalked'
  <2>1. queue' = Append(queue, writer[w].note) /\ writer[w].pc = "publish"
    BY <1>3 DEF Publish
  <2>2. writer[w].note \in Message /\ writer[w].note.list \in writer[w].note.keys
    BY <1>1, <2>1 DEF StateInv, TypeOK, Messages
  <2>3. CASE queue = <<>>
    <3>1. queue'[1] = writer[w].note
      BY <2>1, <2>3
    <3> QED
      BY <2>2, <3>1 DEF HeadWalked
  <2>4. CASE queue # <<>>
    <3>1. Len(queue) \in Nat \ {0}
      BY <1>1, <2>4, EmptySeq
    <3>2. queue'[1] = queue[1]
      BY <1>1, <2>1, <2>2, <3>1
    <3>3. ~DelKeyDone \/ stack[Subscriber][1].front = {}
      BY DelKeyDoneIs
    <3> QED
      BY <2>4, <3>2, <3>3, HeadSame
  <2> QED
    BY <2>3, <2>4
<1>4. CASE DelKey
  <2>1. PICK k \in queue[1].keys :
          /\ stack' = [stack EXCEPT ![Subscriber] = <<Removal(k, FALSE)>>]
          /\ queue' = [queue EXCEPT ![1].keys = @ \ {k}]
    BY <1>4 DEF DelKey
  <2>2. queue # <<>>
    BY <1>4 DEF DelKey
  <2>3. Len(queue) \in Nat \ {0}
    BY <1>1, <2>2, EmptySeq
  <2>4. queue[1] \in Message
    BY <1>1, <2>3
  <2>5. /\ queue'[1].list = queue[1].list /\ queue'[1].change = queue[1].change
        /\ queue'[1].keys = queue[1].keys \ {k}
    BY <1>1, <2>1, <2>3, <2>4 DEF Message
  <2>6. CASE k = queue[1].list
    <3> DEFINE e == Removal(k, FALSE)
               s == <<e>>
    <3>1. e.front = {k}
      BY DEF Removal
    <3>2. s[1] = e /\ s # <<>>
      OBVIOUS
    <3> HIDE DEF e, s
    <3>3. stack'[Subscriber] = s
      BY <1>1, <2>1 DEF e, s
    <3> QED
      BY <2>5, <2>6, <3>1, <3>2, <3>3 DEF HeadWalked, Busy
  <2>7. CASE k # queue[1].list
    <3>1. queue[1].list \in queue[1].keys => queue'[1].list \in queue'[1].keys
      BY <2>5, <2>7
    <3>2. ~DelKeyDone \/ stack[Subscriber][1].front = {}
      BY DelKeyDoneIs
    <3> QED
      BY <2>2, <2>5, <3>1, <3>2, HeadSame
  <2> QED
    BY <2>6, <2>7
<1>5. CASE DelKeyDone
  <2>1. /\ queue # <<>> /\ stack[Subscriber][1].front = {}
        /\ queue' = queue \/ queue' = Tail(queue)
    BY <1>5, DelKeyDoneIs
  <2>2. CASE queue' = queue
    BY <2>1, <2>2, HeadSame
  <2>3. ASSUME queue' = Tail(queue), queue' # <<>> PROVE queue'[1].list \in queue'[1].keys
    <3>1. Len(queue) \in Nat \ {0} /\ queue' \in Seq(Message)
      BY <1>1, <2>1, <2>3, EmptySeq, HeadTailProperties
    <3>2. Len(queue') = Len(queue) - 1 /\ Len(queue') # 0
      BY <1>1, <2>1, <2>3, <3>1, EmptySeq, HeadTailProperties
    <3>3. queue'[1] = queue[2] /\ 2 \in 1 .. Len(queue)
      BY <1>1, <2>1, <2>3, <3>1, <3>2
    <3> QED
      BY <1>1, <3>3 DEF Messages
  <2> QED
    BY <2>1, <2>2, <2>3 DEF HeadWalked
<1> QED
  BY <1>2, <1>3, <1>4, <1>5, QueueStep

\* A call that waits has the floor it began with.
LEMMA FloorStep ==
  ASSUME StateInv, [Next]_vars, NEW g \in Getter, getter[g].pc = "wait", getter'[g] = getter[g]
  PROVE  floor'[g] = floor[g]
<1>1. getter \in [Getter -> CallState] /\ floor \in [Getter -> [List -> 0 .. MaxWrites]]
  BY DEF StateInv, TypeOK, CallState
<1>2. AtRest.pc = "idle"
  BY DEF AtRest
<1>3. ASSUME NEW t, Removals(t) PROVE floor' = floor
  BY <1>3 DEF Removals, Walk, RemoveLists, RemoveMissing, Remove, EvictDone
<1>4. ASSUME NEW h \in Getter, Progress(h) PROVE floor'[g] = floor[g]
  <2>1. CASE Use(h) \/ Fetched(h)
    <3>1. getter' = [getter EXCEPT ![h] = AtRest] /\ floor' = [floor EXCEPT ![h] = NoChange]
      BY <2>1 DEF Use, Fetched
    <3>2. h # g
      BY <1>1, <1>2, <3>1
    <3> QED
      BY <1>1, <3>1, <3>2
  <2>2. CASE Added(h) \/ Refetch(h) \/ LinkItem(h) \/ LinkBack(h) \/ ReadList(h)
    BY <2>2 DEF Added, Refetch, LinkItem, LinkBack, ReadList
  <2> QED
    BY <1>3, <1>4, <2>1, <2>2 DEF Progress
<1>5. ASSUME NEW h \in Getter, NEW i \in DOMAIN layout.lists, Find(h, i) \/ Add(h, i)
      PROVE  floor'[g] = floor[g]
  <2>1. getter[h].pc = "idle"
    BY <1>5 DEF Find, Add
  <2>2. h # g
    BY <2>1
  <2> QED
    BY <1>1, <1>5, <2>2 DEF Find, Add
<1>6. Subscribing \/ UNCHANGED vars => floor' = floor
  BY <1>3 DEF Subscribing, DelKey, DelKeyDone, vars
<1>7. ASSUME NEW w, Changing(w) PROVE floor' = floor
  BY <1>7 DEF Changing, Write, Tag, Publish
<1>8. ASSUME NEW i, Expire(i) PROVE floor' = floor
  BY <1>8 DEF Expire
<1> QED
  BY <1>4, <1>5, <1>6, <1>7, <1>8 DEF Next

\* A call that finds an item has to know what was dealt with, unless the item leaves.
LEMMA FindIs ==
  ASSUME StateInv, NEW g \in Getter, NEW i \in DOMAIN layout.lists, Find(g, i)
  PROVE  /\ i \in Item /\ core[i] # None
         /\ getter'[g].pc = "wait" /\ getter'[g].item = i /\ getter'[g].object = core[i]
         /\ \A h \in Getter : h # g => getter'[h] = getter[h]
         /\ \A l \in List : floor'[g][l] = IF Leaving(i) THEN 0 ELSE handled[l]
         /\ UNCHANGED <<layout, handled, object, core>>
<1>1. /\ getter \in [Getter -> CallState] /\ floor \in [Getter -> [List -> 0 .. MaxWrites]]
      /\ i \in Item
  BY LayoutFacts DEF StateInv, TypeOK, CallState
<1>2. /\ getter' = [getter EXCEPT ![g] = [AtRest EXCEPT !.pc = "wait", !.item = i, !.object = core[i]]]
      /\ floor' = [floor EXCEPT ![g] = IF Leaving(i) THEN NoChange ELSE handled]
      /\ core[i] # None /\ UNCHANGED <<layout, handled, object, core>>
  BY DEF Find
<1>3. getter'[g].pc = "wait" /\ getter'[g].item = i /\ getter'[g].object = core[i]
  BY <1>1, <1>2 DEF AtRest
<1>4. \A h \in Getter : h # g => getter'[h] = getter[h]
  BY <1>1, <1>2
<1>5. \A l \in List : floor'[g][l] = IF Leaving(i) THEN 0 ELSE handled[l]
  BY <1>1, <1>2, NothingIs
<1> QED
  BY <1>1, <1>2, <1>3, <1>4, <1>5

\* What an item knows is new enough for a call that finds it.
LEMMA FoundIsNew ==
  ASSUME StateInv, CacheInv, NEW g \in Getter, NEW i \in DOMAIN layout.lists, Find(g, i),
         NEW l \in List, NEW v \in 0 .. MaxWrites, Knows(i, l, v)
  PROVE  v >= floor'[g][l]
<1>1. v >= handled[l] \/ Leaving(i)
  BY FindIs DEF CacheInv, Heard
<1> QED
  BY <1>1, FindIs

LEMMA WaitingKept ==
  ASSUME StateInv, ListInv, CacheInv, [Next]_vars
  PROVE  Waiting'
<1>1. TypeOK /\ Calls /\ Waiting
  BY DEF StateInv, CacheInv
<1>2. /\ getter \in [Getter -> CallState] /\ floor \in [Getter -> [List -> 0 .. MaxWrites]]
      /\ handled \in [List -> 0 .. MaxWrites]
  BY <1>1 DEF TypeOK, CallState
<1>3. ASSUME NEW g \in Getter, getter'[g] = getter[g], getter[g].pc = "wait"
      PROVE  Served(g)'
  <2>1. floor'[g] = floor[g]
    BY <1>3, FloorStep
  <2>2. \A l \in List : floor[g][l] \in Nat /\ floor[g][l] <= handled[l] /\ floor[g][l] <= handled'[l]
    <3>1. \A l \in List : floor[g][l] \in Nat /\ floor[g][l] <= handled[l]
      BY <1>1, <1>2, <1>3 DEF Waiting, Served
    <3> QED
      BY <3>1, HandledGrows
  <2>3. ASSUME NEW h \in Getter, getter'[h].pc = "fetch", getter'[h].object = getter[g].object,
               NEW n \in 1 .. getter'[h].done
        PROVE  getter'[h].value[Lists(getter'[h].item)[n]] >= floor[g][Lists(getter'[h].item)[n]]
    <3>1. Goes(h)
      BY CallStep
    <3>2. CASE getter'[h] = getter[h]
      BY <1>1, <1>3, <2>3, <3>2 DEF Waiting, Served, Fetching
    <3>3. CASE getter'[h].done = 0
      BY <2>3, <3>3
    <3>4. ASSUME ReadList(h), getter'[h].item = getter[h].item, getter'[h].object = getter[h].object,
                 getter'[h].done = getter[h].done + 1,
                 LET k == Lists(getter[h].item)[getter[h].done + 1] IN
                 k \in List /\ getter'[h].value = [getter[h].value EXCEPT ![k] = Read(k)]
          PROVE  getter'[h].value[Lists(getter'[h].item)[n]] >= floor[g][Lists(getter'[h].item)[n]]
      <4> DEFINE i == getter[h].item
                 k == Lists(i)[getter[h].done + 1]
                 l == Lists(i)[n]
      <4>1. getter[h] \in CallState
        BY <1>2
      <4>2. getter[h].done \in Nat /\ getter[h].value \in [List -> 0 .. MaxWrites]
        BY <4>1 DEF CallState
      <4>3. k \in List /\ getter'[h].value = [getter[h].value EXCEPT ![k] = Read(k)]
        BY <3>4
      <4>4. getter[h].pc = "fetch" /\ getter[h].object = getter[g].object
        BY <2>3, <3>4 DEF ReadList
      <4>5. CASE l = k
        <5>1. getter'[h].value[k] = Read(k)
          BY <4>2, <4>3
        <5>2. Read(k) >= handled[k] /\ Read(k) \in Nat /\ handled[k] \in Nat
          BY <1>2, <4>3, ReadIsNew
        <5>3. Read(k) >= floor[g][k]
          <6> HIDE DEF k
          <6> QED
            BY <2>2, <4>3, <5>2
        <5> QED
          BY <3>4, <4>5, <5>1, <5>3
      <4>6. CASE l # k
        <5>1. n \in 1 .. getter[h].done
          <6>1. n \in 1 .. getter[h].done + 1 /\ n # getter[h].done + 1
            BY <2>3, <3>4, <4>6
          <6> QED
            BY <4>2, <6>1
        <5>2. getter[h].value[l] >= floor[g][l]
          BY <1>1, <1>3, <4>4, <5>1 DEF Waiting, Served, Fetching
        <5>3. getter'[h].value[l] = getter[h].value[l]
          BY <4>2, <4>3, <4>6
        <5> QED
          BY <3>4, <5>2, <5>3
      <4> QED
        BY <4>5, <4>6
    <3> QED
      BY <2>3, <3>1, <3>2, <3>3, <3>4 DEF Goes
  <2> QED
    BY <1>3, <2>1, <2>2, <2>3, LayoutKept DEF Served, Fetching, Lists
<1>4. ASSUME NEW g \in Getter, NEW i \in DOMAIN layout.lists, Find(g, i)
      PROVE  Served(g)'
  <2>1. /\ i \in Item /\ core[i] # None
        /\ getter'[g].pc = "wait" /\ getter'[g].object = core[i]
        /\ \A h \in Getter : h # g => getter'[h] = getter[h]
        /\ \A l \in List : floor'[g][l] = IF Leaving(i) THEN 0 ELSE handled[l]
        /\ handled' = handled
    BY <1>4, FindIs
  <2>2. ASSUME NEW h \in Getter, getter'[h].pc = "fetch", getter'[h].object = core[i],
               NEW n \in 1 .. getter'[h].done
        PROVE  getter'[h].value[Lists(getter'[h].item)[n]] >= floor'[g][Lists(getter'[h].item)[n]]
    <3>1. getter'[h] = getter[h]
      BY <2>1, <2>2
    <3>2. getter[h].item = i /\ getter[h].done <= Len(Lists(i))
      BY <1>1, <2>1, <2>2, <3>1, ItemOf DEF Calls
    <3>3. Len(Lists(i)) \in Nat /\ \A m \in 1 .. Len(Lists(i)) : Lists(i)[m] \in List
      BY <1>1, LayoutFacts
    <3>4. getter[h].done \in Nat /\ getter[h].value \in [List -> 0 .. MaxWrites]
      BY <1>2 DEF CallState
    <3> DEFINE l == Lists(i)[n]
    <3>5. n \in 1 .. Len(Lists(i)) /\ l \in List
      <4>1. n \in 1 .. Len(Lists(i))
        BY <2>2, <3>1, <3>2, <3>3, <3>4
      <4> QED
        BY <3>3, <4>1
    <3>6. Knows(i, l, getter[h].value[l])
      BY <2>1, <2>2, <3>1 DEF Knows, Fetching
    <3>7. getter[h].value[l] \in 0 .. MaxWrites
      BY <3>4, <3>5
    <3>8. getter[h].value[l] >= floor'[g][l]
      <4> HIDE DEF l
      <4> QED
        BY <1>4, <3>5, <3>6, <3>7, FoundIsNew
    <3> QED
      BY <3>1, <3>2, <3>8
  <2>3. \A l \in List : floor'[g][l] <= handled'[l]
    BY <1>2, <2>1
  <2> QED
    BY <2>1, <2>2, <2>3, LayoutKept DEF Served, Fetching, Lists
<1>5. ASSUME NEW g \in Getter, getter'[g].pc = "wait"
      PROVE  Served(g)'
  <2>1. getter'[g] = getter[g] \/ \E i \in DOMAIN layout.lists : Find(g, i)
    BY <1>5, CallStep DEF Goes
  <2> QED
    BY <1>3, <1>4, <1>5, <2>1
<1> QED
  BY <1>5 DEF Waiting

LEMMA NeverOlderKept ==
  ASSUME StateInv, ListInv, CacheInv, [Next]_vars
  PROVE  NeverOlder'
<1>1. TypeOK /\ Calls /\ Waiting /\ NeverOlder
  BY DEF StateInv, CacheInv
<1>2. ASSUME NEW g \in Getter, getter'[g] = getter[g], getter[g].pc = "wait",
             object'[getter[g].object].state = "valid", NEW l \in Range(Lists(getter[g].item))
      PROVE  object'[getter[g].object].value[l] >= floor'[g][l]
  <2> DEFINE o == getter[g].object
  <2>1. floor'[g] = floor[g]
    BY <1>2, FloorStep
  <2>2. o \in Object /\ getter[g].item \in DOMAIN layout.lists
    BY <1>1, <1>2 DEF Calls
  <2>3. CASE object[o].state = "valid" /\ object'[o].value = object[o].value
    BY <1>1, <1>2, <2>1, <2>3 DEF NeverOlder
  <2>4. ASSUME NEW h \in Getter, Fetched(h), getter[h].object = o, object'[o].value = getter[h].value
        PROVE  object'[o].value[l] >= floor[g][l]
    <3>1. getter[h].pc = "fetch" /\ getter[h].done = Len(Lists(getter[h].item))
      BY <2>4 DEF Fetched
    <3>2. getter[h].item = getter[g].item
      BY <1>1, <2>2, <2>4 DEF Calls
    <3>3. PICK n \in 1 .. getter[h].done : Lists(getter[h].item)[n] = l
      BY <1>1, <1>2, <2>2, <3>1, <3>2, LayoutFacts
    <3>4. getter[h].value[Lists(getter[h].item)[n]] >= floor[g][Lists(getter[h].item)[n]]
      BY <1>1, <1>2, <2>4, <3>1, <3>3 DEF Waiting, Served, Fetching
    <3> QED
      BY <2>4, <3>3, <3>4
  <2> HIDE DEF o
  <2>5. \/ object[o].state = "valid" /\ object'[o].value = object[o].value
        \/ \E h \in Getter : /\ Fetched(h) /\ getter[h].object = o
                             /\ object'[o].value = getter[h].value
    BY <1>2, <2>2, ObjectStep DEF o
  <2>6. object'[o].value[l] >= floor'[g][l]
    BY <2>1, <2>3, <2>4, <2>5 DEF o
  <2> QED
    BY <2>6 DEF o
<1>3. ASSUME NEW g \in Getter, NEW i \in DOMAIN layout.lists, Find(g, i),
             object[core[i]].state = "valid", NEW l \in Range(Lists(i))
      PROVE  object[core[i]].value[l] >= floor'[g][l]
  <2>1. i \in Item /\ core[i] # None /\ core[i] \in Object
    BY <1>1, <1>3, FindIs DEF TypeOK
  <2>2. l \in List
    BY <1>1, LayoutFacts
  <2>3. object[core[i]].value[l] \in 0 .. MaxWrites
    BY <1>1, <2>1, <2>2 DEF TypeOK
  <2> DEFINE v == object[core[i]].value[l]
  <2>4. Knows(i, l, v)
    BY <1>3, <2>1 DEF Knows
  <2> HIDE DEF v
  <2>5. v >= floor'[g][l]
    BY <1>3, <2>2, <2>3, <2>4, FoundIsNew DEF v
  <2> QED
    BY <2>5 DEF v
<1>4. ASSUME NEW g \in Getter, getter'[g].pc = "wait", object'[getter'[g].object].state = "valid",
             NEW l \in Range(Lists(getter'[g].item))
      PROVE  object'[getter'[g].object].value[l] >= floor'[g][l]
  <2>1. CASE getter'[g] = getter[g]
    BY <1>2, <1>4, <2>1
  <2>2. ASSUME NEW i \in DOMAIN layout.lists, Find(g, i)
        PROVE  object'[getter'[g].object].value[l] >= floor'[g][l]
    <3>1. getter'[g].item = i /\ getter'[g].object = core[i] /\ object' = object
      BY <2>2, FindIs
    <3> QED
      BY <1>3, <1>4, <2>2, <3>1
  <2> QED
    BY <1>4, <2>1, <2>2, CallStep DEF Goes
<1> QED
  BY <1>4, LayoutKept DEF NeverOlder, Lists

LEMMA CacheStep ==
  ASSUME StateInv, ListInv, CacheInv, [Next]_vars
  PROVE  CacheInv'
<1>1. Apart'
  BY OnwardStep DEF Onward, CacheInv
<1> QED
  BY <1>1, LinksKept, HeardKept, HeadWalkedKept, WaitingKept, NeverOlderKept DEF CacheInv

LEMMA CacheInit ==
  ASSUME Init
  PROVE  CacheInv
<1>1. /\ core = [i \in Item |-> None] /\ getter = [g \in Getter |-> AtRest] /\ queue = <<>>
      /\ stack = [t \in Thread |-> <<>>]
  BY DEF Init
<1>2. AtRest.pc = "idle"
  BY DEF AtRest
<1>3. \A t \in Thread : Len(stack[t]) = 0
  BY <1>1
<1>4. \A i \in Item : core[i] = None
  BY <1>1
<1>5. \A g \in Getter : getter[g].pc = "idle"
  BY <1>1, <1>2
<1> QED
  BY <1>1, <1>3, <1>4, <1>5
  DEF CacheInv, Apart, Links, Joined, Heard, Knows, HeadWalked, Waiting, NeverOlder

-----------------------------------------------------------------------------
(* What holds of the cache.                                                *)

\* TypeOK: the variables keep their types, and an item that a call fetches is
\* locked by it, so that only one does.
THEOREM TypeCorrect == Spec => []TypeOK
<1>1. Init => StateInv
  BY StateInit
<1>2. StateInv /\ [Next]_vars => StateInv'
  BY StateStep
<1>3. StateInv => TypeOK
  BY DEF StateInv
<1> QED
  BY <1>1, <1>2, <1>3, PTL DEF Spec

LEMMA InvStep ==
  /\ Init => StateInv /\ ListInv /\ CacheInv
  /\ (StateInv /\ ListInv /\ CacheInv) /\ [Next]_vars => (StateInv /\ ListInv /\ CacheInv)'
BY StateInit, ListInit, CacheInit, StateStep, ListStep, CacheStep

\* Fresh: an answer that may be used is that of the lists as they are, or the
\* change it misses is on its way, or some goroutine is about to remove it.
THEOREM CacheIsFresh == Spec => []Fresh
<1>1. StateInv /\ ListInv /\ CacheInv => Fresh
  <2> SUFFICES ASSUME StateInv, ListInv, CacheInv, NEW i \in Item, core[i] # None,
                      object[core[i]].state = "valid", NEW l \in Range(Lists(i))
               PROVE  object[core[i]].value[l] = list[l] \/ Announced(l) \/ Leaving(i)
    BY DEF Fresh
  <2>1. TypeOK /\ Heard /\ Newest /\ Messages /\ i \in DOMAIN layout.lists
    BY DEF StateInv, ListInv, CacheInv, Memory
  <2>2. l \in List /\ core[i] \in Object
    BY <2>1, LayoutFacts DEF TypeOK
  <2> DEFINE v == object[core[i]].value[l]
  <2>3. v \in 0 .. MaxWrites /\ list[l] \in Nat /\ handled[l] \in Nat
    BY <2>1, <2>2 DEF TypeOK
  <2>4. Knows(i, l, v)
    BY DEF Knows
  <2> HIDE DEF v
  <2>5. v <= list[l] /\ (v >= handled[l] \/ Leaving(i))
    BY <2>1, <2>2, <2>3, <2>4 DEF Heard
  <2>6. handled[l] = list[l] \/ Announced(l)
    BY <2>1, <2>2 DEF Newest, Announced
  <2>7. v = list[l] \/ Announced(l) \/ Leaving(i)
    BY <2>3, <2>5, <2>6
  <2> QED
    BY <2>7 DEF v
<1> QED
  BY <1>1, InvStep, PTL DEF Spec

\* NeverOlder: a call that began after this process dealt with a change does not
\* return an answer from before it, unless it found an item that leaves.
THEOREM NothingOlder == Spec => []NeverOlder
<1>1. CacheInv => NeverOlder
  BY DEF CacheInv
<1> QED
  BY <1>1, InvStep, PTL DEF Spec

=============================================================================
