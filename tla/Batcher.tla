------------------------------- MODULE Batcher -------------------------------
(***************************************************************************)
(* pkg/tools/batcher/batcher.go: items put by many goroutines go through   *)
(* one bounded channel to a scheduler, which groups them by key and hands  *)
(* each group to the worker of its key, when enough have gathered or the   *)
(* ticker fires.  msgtransfer puts every message it consumes through one.  *)
(*                                                                         *)
(* Each item is put once, by a call of Put of its own.  Close is called at *)
(* most once.  The callbacks Do, HookFunc and OnComplete return.           *)
(***************************************************************************)
EXTENDS Integers, Sequences, FiniteSets, SequencesExt

CONSTANTS
  Item,        \* the items put
  Key,         \* their keys
  KeyOf,       \* Batcher.Key
  Worker,      \* the goroutines of run
  Shard,       \* Batcher.Sharding
  Size,        \* config.size
  DataBuffer,  \* capacity of the channel data
  Buffer,      \* config.buffer: capacity of each worker's channel
  SyncWait,    \* config.syncWait
  Nil          \* the nil that Close sends, and the lack of a batch

\* Msg: the items of one key that are handled by one call of Do.
Batch == [key : Key, val : Seq(Item)]

ASSUME ItemAssumption == KeyOf \in [Item -> Key] /\ Nil \notin Item \cup Batch
ASSUME ShardAssumption == Shard \in [Key -> Worker]
ASSUME SizesAssumption == /\ Size \in Nat \ {0} /\ DataBuffer \in Nat \ {0}
                          /\ Buffer \in Nat \ {0} /\ SyncWait \in BOOLEAN

VARIABLES
  call,        \* the call of Put of each item: "new" until its select is over
  data,        \* the channel data
  cancelled,   \* globalCtx is done
  sched,       \* where the scheduler is
  vals,        \* the items it holds, by key
  left,        \* the keys that distributeMessage has still to send
  stopping,    \* this distribution is the last one
  chans,       \* the workers' channels
  busy,        \* the batch each worker is in Do with, or Nil
  exited,      \* the workers that returned
  counter,     \* the wait group of syncWait
  closer,      \* where the call of Close is
  accepted,    \* history: the items Put accepted, in order
  received,    \* history: how many of them the scheduler received
  handled,     \* history: per key, the items whose Do has returned
  cut          \* history: how many were accepted when Close sent its nil

schedVars == <<sched, vals, left, stopping>>
vars == <<call, data, cancelled, schedVars, chans, busy, exited, counter,
          closer, accepted, received, handled, cut>>

Init ==
  /\ call = [i \in Item |-> "new"]
  /\ data = <<>>
  /\ cancelled = FALSE
  /\ sched = "select"
  /\ vals = [k \in Key |-> <<>>]
  /\ left = {}
  /\ stopping = FALSE
  /\ chans = [w \in Worker |-> <<>>]
  /\ busy = [w \in Worker |-> Nil]
  /\ exited = {}
  /\ counter = 0
  /\ closer = "open"
  /\ accepted = <<>>
  /\ received = 0
  /\ handled = [k \in Key |-> <<>>]
  /\ cut = 0

\* The scheduler's deferred function closes all the channels.
Closed == sched = "exited"

\* The keys the map of gathered items has.
Gathered(v) == {k \in Key : v[k] # <<>>}

\* The variable count of scheduler: how many items have gathered.
Held(v) == UNION {{k} \X DOMAIN v[k] : k \in Key}
Count(v) == Cardinality(Held(v))

-----------------------------------------------------------------------------
(* Put: one select over three cases *)

PutAccept(i) ==
  /\ call[i] = "new"
  /\ ~Closed /\ Len(data) < DataBuffer
  /\ call' = [call EXCEPT ![i] = "accepted"]
  /\ data' = Append(data, i)
  /\ accepted' = Append(accepted, i)
  /\ UNCHANGED <<cancelled, schedVars, chans, busy, exited, counter, closer,
                 received, handled, cut>>

\* The batcher's context or the caller's is done.
PutRefuse(i) ==
  /\ call[i] = "new"
  /\ call' = [call EXCEPT ![i] = "refused"]
  /\ UNCHANGED <<data, cancelled, schedVars, chans, busy, exited, counter,
                 closer, accepted, received, handled, cut>>

\* Sending on the closed channel is a ready case too, and panics.
PutPanic(i) ==
  /\ call[i] = "new"
  /\ Closed
  /\ call' = [call EXCEPT ![i] = "panicked"]
  /\ UNCHANGED <<data, cancelled, schedVars, chans, busy, exited, counter,
                 closer, accepted, received, handled, cut>>

-----------------------------------------------------------------------------
(* scheduler and distributeMessage *)

\* distributeMessage is entered with the items of v.
Distribute(v, last) ==
  /\ sched' = "send"
  /\ left' = Gathered(v)
  /\ stopping' = last

ReceiveItem ==
  /\ sched = "select" /\ data # <<>> /\ Head(data) # Nil
  /\ data' = Tail(data)
  /\ received' = received + 1
  /\ vals' = [vals EXCEPT ![KeyOf[Head(data)]] = Append(@, Head(data))]
  /\ IF Count(vals') >= Size
     THEN Distribute(vals', FALSE)
     ELSE UNCHANGED <<sched, left, stopping>>
  /\ UNCHANGED <<call, cancelled, chans, busy, exited, counter, closer,
                 accepted, handled, cut>>

\* Mutant: the scheduler returns without distributing what it holds.
ReceiveNilDrops ==
  /\ sched = "select" /\ data # <<>> /\ Head(data) = Nil
  /\ data' = Tail(data)
  /\ sched' = "exited"
  /\ UNCHANGED <<call, cancelled, vals, left, stopping, chans, busy, exited,
                 counter, closer, accepted, received, handled, cut>>

\* Mutant: nil is taken for the end only when nothing has gathered.
ReceiveNilGoesOn ==
  /\ sched = "select" /\ data # <<>> /\ Head(data) = Nil
  /\ data' = Tail(data)
  /\ IF Count(vals) > 0
     THEN Distribute(vals, FALSE)
     ELSE sched' = "exited" /\ UNCHANGED <<left, stopping>>
  /\ UNCHANGED <<call, cancelled, vals, chans, busy, exited, counter, closer,
                 accepted, received, handled, cut>>

ReceiveNil ==
  /\ sched = "select" /\ data # <<>> /\ Head(data) = Nil
  /\ data' = Tail(data)
  /\ IF Count(vals) > 0
     THEN Distribute(vals, TRUE)
     ELSE sched' = "exited" /\ UNCHANGED <<left, stopping>>
  /\ UNCHANGED <<call, cancelled, vals, chans, busy, exited, counter, closer,
                 accepted, received, handled, cut>>

\* Mutant: the ticker distributes full batches only.
TickWhenFull ==
  /\ sched = "select" /\ Count(vals) >= Size
  /\ Distribute(vals, FALSE)
  /\ UNCHANGED <<call, data, cancelled, vals, chans, busy, exited, counter,
                 closer, accepted, received, handled, cut>>

Tick ==
  /\ sched = "select" /\ Count(vals) > 0
  /\ Distribute(vals, FALSE)
  /\ UNCHANGED <<call, data, cancelled, vals, chans, busy, exited, counter,
                 closer, accepted, received, handled, cut>>

\* One turn of the loop over the map, in any order.
SendBatch(k) ==
  /\ sched = "send" /\ k \in left
  /\ Len(chans[Shard[k]]) < Buffer
  /\ chans' = [chans EXCEPT ![Shard[k]] = Append(@, [key |-> k, val |-> vals[k]])]
  /\ counter' = IF SyncWait THEN counter + 1 ELSE counter
  /\ left' = left \ {k}
  /\ UNCHANGED <<call, data, cancelled, sched, vals, stopping, busy, exited,
                 closer, accepted, received, handled, cut>>

\* Mutant: OnComplete is called without waiting.
CompleteEarly ==
  /\ sched = "send" /\ left = {}
  /\ vals' = [k \in Key |-> <<>>]
  /\ sched' = IF stopping THEN "exited" ELSE "select"
  /\ stopping' = FALSE
  /\ UNCHANGED <<call, data, cancelled, left, chans, busy, exited, counter,
                 closer, accepted, received, handled, cut>>

\* Mutant: the map of gathered items is not emptied.
CompleteKeepsItems ==
  /\ sched = "send" /\ left = {}
  /\ SyncWait => counter = 0
  /\ sched' = IF stopping THEN "exited" ELSE "select"
  /\ stopping' = FALSE
  /\ UNCHANGED <<call, data, cancelled, vals, left, chans, busy, exited, counter,
                 closer, accepted, received, handled, cut>>

\* counter.Wait returns, OnComplete is called, and the scheduler starts on
\* an empty map or returns.
Complete ==
  /\ sched = "send" /\ left = {}
  /\ SyncWait => counter = 0
  /\ vals' = [k \in Key |-> <<>>]
  /\ sched' = IF stopping THEN "exited" ELSE "select"
  /\ stopping' = FALSE
  /\ UNCHANGED <<call, data, cancelled, left, chans, busy, exited, counter,
                 closer, accepted, received, handled, cut>>

-----------------------------------------------------------------------------
(* run *)

TakeBatch(w) ==
  /\ w \notin exited /\ busy[w] = Nil /\ chans[w] # <<>>
  /\ busy' = [busy EXCEPT ![w] = Head(chans[w])]
  /\ chans' = [chans EXCEPT ![w] = Tail(@)]
  /\ UNCHANGED <<call, data, cancelled, schedVars, exited, counter, closer,
                 accepted, received, handled, cut>>

\* Do returns.
DoReturns(w) ==
  /\ busy[w] # Nil
  /\ handled' = [handled EXCEPT ![busy[w].key] = @ \o busy[w].val]
  /\ counter' = IF SyncWait THEN counter - 1 ELSE counter
  /\ busy' = [busy EXCEPT ![w] = Nil]
  /\ UNCHANGED <<call, data, cancelled, schedVars, chans, exited, closer,
                 accepted, received, cut>>

WorkerExit(w) ==
  /\ Closed
  /\ w \notin exited /\ busy[w] = Nil /\ chans[w] = <<>>
  /\ exited' = exited \cup {w}
  /\ UNCHANGED <<call, data, cancelled, schedVars, chans, busy, counter,
                 closer, accepted, received, handled, cut>>

-----------------------------------------------------------------------------
(* Close *)

CloseCancel ==
  /\ closer = "open"
  /\ cancelled' = TRUE
  /\ closer' = "cancelled"
  /\ UNCHANGED <<call, data, schedVars, chans, busy, exited, counter,
                 accepted, received, handled, cut>>

CloseSend ==
  /\ closer = "cancelled"
  /\ Len(data) < DataBuffer
  /\ data' = Append(data, Nil)
  /\ cut' = Len(accepted)
  /\ closer' = "waiting"
  /\ UNCHANGED <<call, cancelled, schedVars, chans, busy, exited, counter,
                 accepted, received, handled>>

CloseReturn ==
  /\ closer = "waiting"
  /\ Closed /\ exited = Worker
  /\ closer' = "closed"
  /\ UNCHANGED <<call, data, cancelled, schedVars, chans, busy, exited,
                 counter, accepted, received, handled, cut>>

-----------------------------------------------------------------------------
Scheduler == ReceiveItem \/ ReceiveNil \/ Tick \/ (\E k \in Key : SendBatch(k)) \/ Complete
Run(w) == TakeBatch(w) \/ DoReturns(w) \/ WorkerExit(w)
Closing == CloseSend \/ CloseReturn

Next ==
  \/ \E i \in Item : PutAccept(i) \/ PutRefuse(i) \/ PutPanic(i)
  \/ Scheduler
  \/ \E w \in Worker : Run(w)
  \/ CloseCancel
  \/ Closing

Spec == Init /\ [][Next]_vars

\* The goroutines run, the ticker fires and a started Close goes on.  Nobody
\* has to call Put or Close.
Fairness ==
  /\ WF_vars(Scheduler)
  /\ \A w \in Worker : WF_vars(Run(w))
  /\ SF_vars(Closing)

FairSpec == Spec /\ Fairness

-----------------------------------------------------------------------------
(* Properties *)

Queue == INSTANCE KeyedQueue WITH accepted <- accepted, handled <- handled

\* Type invariant, with the capacities of the channels.
TypeOK ==
  /\ call \in [Item -> {"new", "accepted", "refused", "panicked"}]
  /\ data \in Seq(Item \cup {Nil}) /\ Len(data) <= DataBuffer
  /\ cancelled \in BOOLEAN /\ stopping \in BOOLEAN
  /\ sched \in {"select", "send", "exited"}
  /\ vals \in [Key -> Seq(Item)] /\ left \subseteq Key
  /\ chans \in [Worker -> Seq(Batch)]
  /\ \A w \in Worker : Len(chans[w]) <= Buffer
  /\ busy \in [Worker -> Batch \cup {Nil}]
  /\ exited \subseteq Worker
  /\ counter \in Nat /\ received \in Nat /\ cut \in Nat
  /\ closer \in {"open", "cancelled", "waiting", "closed"}
  /\ accepted \in Seq(Item)
  /\ handled \in [Key -> Seq(Item)]

\* The batcher is a keyed queue: every item is handled at most once, and the
\* items of a key in the order in which Put accepted them, although one
\* scheduler, many workers and batches of any size lie in between.
InOrder == Queue!QueueSpec

\* With syncWait, OnComplete is called only when the Do of every item received
\* so far has returned: what it commits has been processed.
CompleteAfterDo ==
  [][Complete /\ SyncWait =>
       \A k \in Key :
         handled[k] = Queue!OfKey(SubSeq(accepted, 1, received), k)]_vars

\* When Close returns, every item accepted before Close sent its nil has been
\* handled: the batches still in the scheduler and the channels are not lost.
CloseDrains ==
  closer = "closed" =>
    \A k \in Key : handled[k] = Queue!OfKey(SubSeq(accepted, 1, cut), k)

\* An item accepted before Close is called is handled in the end, even when it
\* never fills a batch.
AcceptedIsHandled ==
  \A i \in Item :
    call[i] = "accepted" /\ ~cancelled ~> Contains(handled[KeyOf[i]], i)

\* A call of Close returns.
CloseReturns == (closer = "cancelled") ~> (closer = "closed")
=============================================================================
