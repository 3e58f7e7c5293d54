# Free-IM-Server2: TLA+ models, model checking and proofs

This directory holds TLA+ models of the parts of the server whose correctness
depends on the order in which things happen: the allocation of message
sequence numbers, the batcher that feeds the message transfer, the message
transfer itself, the message documents and their cache, the connections of the
message gateways, the online status, the incremental sync of friend lists and
the in-process cache. TLC checks each model on small instances; TLAPS proves
their safety properties for every instance. `PROJECT.json` lists the runs, the
lines of the source each definition stands for, the hazards and the findings.

    tlc -workers 2 -config MCSeqConversation.cfg MCSeqConversation.tla   # a run
    tlapm SeqConversationProofs.tla; tlapm MsgStoreProofs.tla             # proofs
    tlapm BatcherProofs.tla; tlapm FriendSyncProofs.tla; tlapm OnlineStatusProofs.tla
    tlapm MsgTransferProofs.tla; tlapm WsServerProofs.tla; tlapm LocalCacheProofs.tla

## 1. The system

A client keeps a WebSocket to a **message gateway** and sends a message to the
**msg** service, which puts it in the topic `toRedis`, keyed by the pair of
users or the group. The **message transfer** gives messages their seqs, caches
them in Redis and passes them on in two topics: `toMongo`, from which it stores
them, and `toPush`, from which **push** asks all gateways to deliver them and
falls back to offline push. A client that finds a gap in the seqs of a
conversation pulls the messages by seq, from Redis or Mongo. Gateways report
who is connected to the **user** service, which keeps the online status in
Redis and announces changes to gateways and push. Lists (friends, groups,
conversations) carry a version log, from which a device asks for what changed
since its version. Processes keep answers of other services in a local cache
and are told through Redis what to forget.

| Component | State | Operations | Hard behaviour | What makes it correct |
|---|---|---|---|---|
| Seq allocator (`cache/redis/seq_conversation.go`, `mgo/seq_conversation.go`) | Redis hash CURR, LAST, LOCK, TIME; Mongo `max_seq`, `min_seq` | Malloc, GetMaxSeq(s), SetMaxSeq, min seq | lock = TTL, colliding lock values, dead callers, lost replies, evictions | a seq is given out once; the max seq that readers see covers what was given out; the lock goes away |
| Batcher (`pkg/tools/batcher`) | data channel, groups by key, worker channels | Put, scheduler, run, Close | bounded channels, syncWait, Put racing Close | each item is handled once, in order within its key; Close drains |
| Message transfer (`internal/msgtransfer`, `controller/msg_transfer.go`) | batch at hand, topics, message cache, read seqs | do, both consumers, writer of read seqs | crashes, moving partitions, every call may fail | nothing is lost without a failure; seqs denote one message; pushed messages can be found |
| Message documents and cache (`mgo/msg.go`, `controller/msg.go`, `redis/msg.go`) | documents of 100 messages, a Redis key per message | insert, update, revoke, delete, read | several writers create one document, duplicate keys; reads overlap invalidations | no write takes another's away; handled batches are stored; the cache shows the marks |
| Gateway (`internal/msggateway`) | user map, three channels, pooled clients, counters | register, unregister, kick, multi-terminal check | one event loop beside readers, HTTP handlers and RPCs; object reuse | the map lists the open connections; policies leave one login; the loop comes back to its select unless it blocks on itself, once its own channel of 1000 slots is full |
| Online status (`msggateway/online.go`, `redis/online.go`, `rpccache/online.go`) | channel, batch and request queue of each gateway; Redis sorted set with expiries; map of listeners | report, renew, announce, load, subscribe | dropped reports, one set for all gateways, announcements that cross, start-up beside changes | the status becomes that of the connections, and the listeners' copies follow |
| Read seqs (`redis/seq_user.go`, `mgo/seq_user.go`) | per user and conversation, cached and in Mongo | set, mark as read, receipts | get-then-set from several services | read seqs only go forward |
| Version logs (`mgo/version_log.go`, `rpc/incrversion`) | log per user or group, version, cached version | write, incremental sync | list and log written one after the other, concurrent upserts, cache filled beside changes | a device that applies the increments has the list |
| Caches (`pkg/localcache`, `redis/batch_handler.go`, rockscache) | in-process LRU with links, Redis | get, fetch, tag as deleted, publish | a fetch overlaps an invalidation; callbacks under locks | no answer from before an invalidation once it is dealt with; no deadlock |
| Auth tokens (`controller/auth.go`, `redis/token.go`) | token states by platform | create, kick, expire | concurrent logins | policy holds for tokens |
| Group, relation, conversation, user, msg services | Mongo collections | applications, members, settings, send | concurrent handling of one request | handled once |
| Push, cron, third-party, API, start-up, webhooks, tools | mostly none of their own | | external services | |

## 2. Modules

| Module | What it is |
|---|---|
| `SeqConversation`, `SeqConversationProofs` | the seq allocator; its safety proved |
| `KeyedQueue`, `Batcher`, `BatcherProofs` | what users of the batcher rely on; the batcher; proofs that it implements the queue and of its safety |
| `WsServer`, `WsServerProofs` | the connections of the gateways; their safety proved |
| `MsgTransfer`, `MsgTransferProofs` | from the topic `toRedis` to the message cache, Mongo and push; its safety proved |
| `Subsequences` | the elements of a list that belong to a set, in order (how `do` sorts messages by kind, the user map leaves clients out and the batcher separates keys) |
| `MessageTable`, `MsgStore`, `MsgStoreProofs` | the promise of the message documents; documents, their writers and the message cache; proofs of the refinement, of the safety of the documents and of the cache |
| `OnlineStatus`, `OnlineStatusProofs` | from the user map to Redis and the listeners; its safety proved |
| `FriendSync`, `FriendSyncProofs` | the friend list, its version log, the cached version, devices; its safety proved |
| `LocalCache`, `LocalCacheProofs` | GetLink, evictions, published deletions; its safety proved |

Where models meet, each uses what the other promises. `MsgTransfer` uses the
batcher through `KeyedQueue` (items of a key in order, each once, in batches), and
the allocator through what `SeqConversation` guarantees (`Malloc` hands out fresh
consecutive seqs, perhaps leaving some out). Storing a batch is one step in
`MsgTransfer` and the matter of `MsgStore`, where the transfer is
reduced to one batch after the other. The user map whose changes `OnlineStatus`
reports is that of `WsServer`.

Each specification is parameterised by CONSTANTS with named assumptions; the
`MC*` modules only define values for them. Operators whose comment begins with
"Mutant" are wrong variants of the definition that follows: replacing the
definition by the variant makes a run fail, which shows that the properties of
the run depend on that part of the code. Type invariants were checked
with TLC on every model; where a module has other properties that depend on every
variable, its run does not list it.

## 3. The models

### SeqConversation

One conversation; callers are goroutines of any process. A Lua script is one
action, since Redis runs it alone; so is the `$inc` in Mongo. `malloc` has the
outcomes of its script: `MallocHit` (result 0), `MallocMiss` (1: no window, the
caller becomes lock holder), `MallocLocked` (2: wait and try again),
`MallocExceeds` (3: the window is too small). A holder goes to Mongo
(`MongoMalloc`), then runs `setSeq` (`SetSeq`, with its four results), which
`setSeqRetry` repeats on an error; in `SetSeqError` the script may have run and its
reply been lost. `Abandon` is every error return and the death of the process.
`ExpireLock` is the TTL of the lock, `LoseHash` the other ways of losing the
hash. `BatchGetMaxSeq` is the plain read.

`granted`, `told`, `locker`, `early` and `unheard` are history variables. Not modelled: `min_seq`,
`SetMaxSeq`, the TIME field, clusters of Redis.

Run `seq`: two callers, sizes 0 to 2, `SeqBound` 2 (new allocations stop from max
seq 2 on, which lets three blocks follow one another), two retries instead of
ten, one lock value (equal values are the interesting case). A third caller adds
no kind of conflict: conflicts are between a holder and the next one.

* `OneOwner`: a seq belongs to at most one of: what was returned, the window,
  and the ranges that each caller alone knows of. It holds although lock values may all
  be equal, the hash may vanish at any moment, and blocks of several holders
  mix; it stops with `unheard`, when a `setSeq` runs whose reply is lost: if the
  hash vanishes then, the retry (or the next caller) may install seqs a second time.
  `WithinCounter` bounds every range by Mongo's counter and is what the proof needs.
* `MaxSeqCovers`: the window that readers read covers every seq anybody was told of. It
  stops with `early`, when Redis has dropped the hash of a live lock holder:
  readers may then see the end of an older window.
* `LockReleased`: whatever happens to its holder, a lock goes away.

Fairness: callers take their steps (goroutines are scheduled, and
waits are by `time.Sleep`), and Redis expires keys. Nothing else is assumed: a
caller may be abandoned at any point.

### Batcher and KeyedQueue

`KeyedQueue` says what users of the batcher rely on: `Accept`, then `Handle` of a
non-empty run of items of a key, in order. `Batcher` has the goroutines:
`PutAccept`, `PutRefuse`, `PutPanic` (the select of Put; the panic is a send on
the closed channel), the scheduler (`ReceiveItem`, `ReceiveNil`, `Tick`,
`Distribute` when the select fires, then `SendBatch` per key in any order, as Go
iterates maps, and `Complete`), workers (`TakeBatch`, `DoReturns`, `WorkerExit`) and
`CloseCancel`, `CloseSend`, `CloseReturn`. Channels are bounded sequences.

Run `batcher_queue`: four items on two keys, two workers, batch size 2, channel
capacities 2 and 1, `SyncWait` as in msgtransfer: everything is full at some
time. `InOrder` is the refinement of `KeyedQueue` (`Queue!QueueSpec`); `CompleteAfterDo`:
OnComplete runs when no batch is left; `AcceptedIsHandled`: a partial batch is handled
too; `CloseDrains`, `CloseReturns`.

Fairness: the scheduler and the workers run (weak fairness), Do returns, and the
goroutine in Close gets its turn at the channel in the end (strong fairness: Go's
channels serve waiting senders in order, so that a blocked send cannot be
overtaken for ever).

### WsServer

Connections are attempted once each. An HTTP handler admits
(`Admit`), gets an object from the pool (`ResetClient`) and sends it to
`registerChan` (`SendRegister`), then starts the reader (`ReadFails`). The event loop takes clients
(`RegisterClient` with the multi-terminal check inside, `UnregisterClient`,
`TakeKick`), closes those to be kicked one by one, which
makes it send to its own `unregisterChan`, and tells the other gateways
(`Notify`). `KickUserOffline` is the RPC (`KickerDeletes`, then a close).

Readers, event loops and kickers all end in `Client.close`. It is four steps of
each: `ReaderLocks`, `ReaderTests`, `ReaderMarks`, `ReaderSends` (with `Loop...` and
`Kicker...` alike) take the mutex, look at `closed`, set it and close the socket, and send to
`unregisterChan` before the mutex is released. `ResetClient` gives the object a new mutex (client.go:88), so
`locker` is a mutex per connection, not per object, and a goroutine
takes the one its object has at that moment. Other actions are cut where a goroutine can block or be overtaken.

Three premises are CONSTANTS:

* `LockKept`: no object is reset while a close() of it is under way. The code does not
  guarantee this: it is unlikely (the goroutine would have to stand still inside close() while its object is
  closed by another, unregistered, pooled and handed out again) and section 4 says what
  happens then. All properties of the gateways assume it. It also stands for the goroutine that has loaded the pointer
  `c.w` and waits for the old mutex when the object is reset, of which the model says that it takes the new one.
* `RegisterFirst`: a client is registered before it is unregistered. The code does not guarantee
  this either; `ws_ghost` is the run without it.
* `~RpcFails`: the gateways' calls to one another arrive.

* `ws_node`: one gateway, three connections, two users, three platforms, policy
  `PCAndOther`, two objects so that one must be reused, `MaxConn` 2, channels of one slot,
  `LockKept` and `RegisterFirst`:
  `Roster` (when all is quiet the map lists exactly the registered open connections),
  `OwnClients` (never a client of another user), `ClosedLeaves` (what is closed
  leaves the map) and `LoopReturns` (the loop gets back to its select). With one slot the loop does meet
  its own full `unregisterChan`, which in the code has 1000: then it waits for itself, or for the
  mutex of a goroutine that waits for it, for ever (`BlocksItself`). The two liveness properties except
  exactly this, and `LoopReturns` the wait for another gateway's full kick channel (`AwaitsGateway`).
* `ws_gateways`: two gateways, one user on one platform, `LockKept` TRUE and `RegisterFirst` FALSE:
  `ConnCount`, `Associated` (an open connection keeps its object), `OneInstance`
  (quiet means one login left, per policy). With `RpcFails` TRUE `OneInstance` fails.
* `ws_ghost`: without `RegisterFirst`, the select of `Run` may take the
  unregistration first and `OwnClients` fails.

Not modelled: messages, heartbeats, city check (`kickLocalTokenConnections`),
tokens; the discovery mode `k8s`, in which other nodes
are not told. The snapshot of the user's clients and the send to `kickChan` in
`MultiTerminalLoginCheck` are one step. In `ws_gateways` and `ws_ghost` channels hold 3 instead of 1000, so
that none of three connections waits for a slot; `ws_node` is about full channels.

Fairness: every goroutine that can run does, and a reader notices that its
socket was closed.

### MsgTransfer

One key, with its chat and its notification conversation ("lanes"). The topic is
a sequence of messages of a kind: `chat`, `shared` (a notification that is also
cloned into the chat), `notice`, and `typing` and `tip` that are only pushed.
The owner of the partition consumes (`HandlerRedisMessage`) and holds what it
consumed in its batcher; `Do` takes up to `BatchSize`. Then `handleMsg`: `PushTransient`,
`Refuse` or `Malloc`, `SetMessageBySeqs`, `GetUserReadSeq` and
`SetUserReadSeq` per sender, `SendHasRead`, `CreateConversations`, `MsgToMongoMQ`,
`PushStored`, and `handleNotification` likewise. `SetHasReadSeqToDB` and
`HandleChatWs2Mongo` run beside it. Each call may fail, as often as `MaxFailures`
says, with the code's error path; partitions move (`Rebalance`) and processes
die (`Crash`), together `MaxCuts` times, and the next owner starts from any
offset that may have been committed.

* `transfer`: two processes; four topics (two chat messages of two senders, one
  that is only pushed with one that goes to both conversations, three
  notifications, a notification with one that is only pushed), batches of up to
  three of which at most two are taken, one failure and one cut. `NothingLost`, `StoredOnce`
  and `OwnMessagesRead` say what holds when all is quiet: their
  premises name the faults under which the code gives no such guarantee (a crash
  loses what was in the batcher; a failed call is only logged; `refused` batches
  are dropped). `OneMessagePerSeq`, `PushOrder`, `PushedIsFound` hold under failures,
  crashes and moves (`PushOrder` while the partition stays: two owners push
  independently).
* `transfer_limit`: `AnyBatchStored` is violated without any fault as soon as a batch is
  larger than the limit of `BatchInsertChat2Cache`: 1000 against 100 in the code, 2
  against 1 in the run.

The processes are symmetric. These runs check safety only. Not modelled: read
receipts, messages that cannot be parsed, cache expiry. Two cuts in one
behaviour exceed what TLC can enumerate in minutes and are left out.

### MessageTable and MsgStore

`MessageTable` is what the store promises: messages, revocations and one user's
deletions are three sets that only grow, and a write to one leaves the others
alone. `MsgStore` has one conversation, whose documents hold `DocSize` messages each.
The transfer takes seqs (`Malloc`), caches the messages one by one (`RawSet`) and queues
the batch (`MsgToMongoMQ`). A job is a call of `BatchInsertBlock` (a consumer's batch, or the
revocation of one seq) at some seq of its block: `Update` sets one field of one element where the
document exists, `Create` inserts the whole block or meets a duplicate key, and
the job then updates from the same seq on. `PushUnique` is the deletion. Calls that mark
invalidate the cache afterwards (`DelMessageBySeqs`); readers lock a key, fetch and store if
the lock is still theirs (`Lock`, `FindSeqs`, `Fill`: rockscache with strong consistency).
Partitions move while their owner is at work (`Rebalance`), a call dies between any two
steps (`Abort`), keys vanish (`Evict`).

Run `msg_store`: three messages in documents of two, so that a batch crosses a
document and meets one that another created; two consumers, two calls that mark, two
readers; budgets of two marks with a read or a fault, one mark with two reads,
and one of each.

* `Implements` is the refinement of `MessageTable`: no writer, however their
  updates, creations and duplicate keys interleave, takes away what another wrote.
* `BatchStored`: a batch handled without an error is in Mongo, message for message.
* `CacheAgrees`: a cached message shows the revocation and the deletion Mongo has,
  unless the invalidation is still to come or its call died (`torn`).
* `NotHidden`: the cache says of a stored message that it was deleted only if its entry was
  missing before Mongo had the message (`exposed`): between `Malloc` and `RawSet` a reader that asks
  makes the cache hold the placeholder, which `RawSet` overwrites only if it comes later.

Not modelled: physical deletion of messages and documents,
`MarkSingleChatMsgsAsRead`, searches. The run checks safety only, with symmetric processes.

### OnlineStatus

One user. Each gateway counts the user's connections per platform (`Set`,
`DeleteClients`) and pushes a state to a channel that drops when full (`Pushed`); `Collect` and
`Flush` batch (`pushUserState`, the ticker), `Send` makes a request. The user service runs one
script per state (`Script`) and then publishes a changed membership (`Publish`). Gateways answer
announcements that miss a platform of theirs (`RecvSubChange`); the push service loads and
subscribes side by side (`Load`, `Subscribe`, `LoadFails`) and then follows (`DoMessage`).
Renewal and expiry (`Renew`, `Expire`, `ExpireKey`) happen only when nothing is on its way: their
periods, ten and thirty minutes, are long against a report. Faults: a request that
fails in the middle (`Fail`), a gateway that dies (`Crash`), a renewal that comes too late
(`Expire` of a connected platform).

Run `online_status`: two gateways, two platforms, channel and queue of one, batches of
two; one platform that changes three times with one fault, or two that change
once each with two.

* `Settled`: when every report is written and read and none was lost, the set shows exactly what is
  connected, although the offline report of one gateway may remove a platform of the other.
* `Follows`: a started push service knows the membership when no announcement is on its way, unless its last
  announcement was overtaken, missed or never made (`astray`).
* `StatusConverges`: whatever was lost, the status shown becomes that of the connections and stays so.

Fairness: the goroutines run; renewals and expiries happen however often reports come in
between (strong fairness: the clock does not wait). Not modelled: the
gateway's own cache of other users (stale for at most 15 minutes),
`SetUserStatus`, subscriptions of clients.

### FriendSync

The friend list of one owner. A friend's document is a stamp, odd when it is there,
larger after each change. A call changes the list (`WriteList`), then appends to the log
(`WriteLog`, or `MissLog`, `InitLog`, `InitDuplicate` when there is no log yet), then deletes the cached
version (`DelCache`). With a replica set, adding and pinning run in a transaction (`OpenTx`, `DelCacheTx`,
`Commit`): the cache is deleted before the commit. `ChangeProfile` is `OwnerIncrVersion`, which
`NotificationUserInfoUpdate` calls for every owner in the friend's list when the friend changes its profile: it
writes an "update" to the owner's log and leaves the owner's list alone, also when the owner has deleted that friend, since
`DeleteFriend` only deletes one side. `Crash` ends a call between any two steps. A device asks
(`Hit`, or `Lock`, `Fill`, `Install`), is told nothing, the changes since its version (`Query`,
`Find`, `Apply`) or to read everything (`ReadAll`); answers get lost (`Lose`) and the entry expires (`Expire`).

Run `friend_sync`: two calls at a time and three in all (`MaxCalls`), one friend that is changed in any way and one that is
added, a device, `Limit` 2 (so that a log of three elements is too long). Three calls are the shortest way
to each hazard: add, delete, and a profile or a pin behind it.

* `NothingMissed`: where the device's copy differs it will be told: by a full read, by a newer log entry,
  or by an entry that is about to be written. Friends are left out (`Untold`) of which the log cannot tell: a call died between
  list and log and nothing was logged since (`astray`); or the log's entry says "deleted" of a friend that is
  there, or the other way round (`Misstated`), after calls on it that overlapped or an update of it while it was
  gone (`blurred`). No increment repairs these until the friend changes again (section 4).
* `CacheFresh`: outside transactions a request that read an older version cannot store it after the deletion.
* `VersionForward`: a device never goes back, also when the cache is behind it.
* `Converges`: once nobody changes the list the device ends up with it, except for the friends that are `Untold`.

Fairness: calls and requests run on, devices keep asking (they do whenever they
connect or are notified), not every answer is lost, entries expire.

### LocalCache

The answers "is x a friend of y" and "does y block x" in one process. `Add`, `Find`, `Use`,
`Refetch` and `Fetched` are `LayLRU.Get`, cut at the slot's lock and the item's; `LinkItem` and `LinkBack` are
`link.Link`; `ReadList` is the fetch, through Redis. A change of a list deletes the value in Redis
(`Tag`) and then publishes the keys (`Publish`); the subscriber walks the links (`DelKey`, `Walk`) and removes
items (`Remove`), which calls `onEvict` under the slot's lock: removals nest, as a stack of each goroutine.

Run `local_cache`: two concurrent calls, at most four in all (`MaxGets`), one change, and three layouts:
one item with two linked lists, two items in a slot that holds one, three answers about one list of which two
share a slot. Three objects are the memory for cached items: one for each that is in the cache or in a call.
`Fresh`: an answer that may be used is that of the lists, or the
change is on its way, or a goroutine is about to remove it. `NeverOlder`: a call
that began after the process dealt with a change does not return an answer from
before it, also when it waited for a fetch. An item that a goroutine has unlinked and not yet
removed is excepted (`Leaving`): the subscriber no longer finds a link to it, see section 4.
`local_cache_clash`: with a list's key in
the slot of the items, a goroutine waits for itself (`NoSelfDeadlock`). All published keys arrive; failing fetches and the
change of lists inside transactions are left out. Safety only: with the
deadlock below there is no liveness to check.

## 4. Findings

| Run | What the code does |
|---|---|
| `ws_ghost` | a client that leaves at once stays in the user map, and later stands for another user's connection |
| `transfer_limit` | more than 100 messages of a conversation in a batch are dropped |
| `local_cache_clash` | `onEvict` locks slots under a slot's lock, and deadlocks when a linked key falls into the same slot |

Observations that shape the models, without a run of their own:

* `setSeqRetry` repeats a script that ran. If the hash is lost in between, seqs are given out twice:
  the premise `~unheard` of `OneOwner`. Without it TLC finds the counterexample.
* A `Put` that races with `Close` may be accepted behind Close's nil and is then never handled,
  though `batcher_test.go` expects an empty channel.
* `ResetClient` replaces the mutex of the object and clears `closed`. A goroutine that is still in close() of the
  object's last connection, with the old mutex, can then find `closed` unset beside one that closes the new connection with
  the new mutex: the client is unregistered twice. With `LockKept` FALSE TLC finds
  `connNum` at -1 within the bounds of `ws_gateways`, and, with three connections on one gateway that share an object, an
  open connection whose object was given to another one (a trace of 34 steps; with `LockKept` that instance
  passes). `defer c.w.Unlock()` may then also name the new mutex, for a goroutine that stands between `Lock` and
  `defer`: it would unlock a mutex it does not hold, which Go treats as a fatal error.
* The event loop sends to `unregisterChan`, which only it receives from, while it kicks. With the channel's slots taken it
  waits for itself for ever, and with it every handler and reader of the gateway (`BlocksItself`). `ws_node` reaches
  this with a channel of one slot.
* `KickUserOffline` drops the result of `DeleteClients`, so that `onlineUserNum` stays too high.
* A subscriber that walks links which another goroutine's eviction has already emptied is done before the
  items they named are removed. For that moment a call may still get the older answer (`Leaving` in
  `LocalCache`). Without the exception TLC finds it with three answers about one list.
* Two changes of one friend may be logged in the other order, and a call may die between list and log: the
  device's copy then stays wrong (`blurred` and `astray` in `FriendSync`).
* An owner deletes a friend, who keeps the owner in its own list, and the friend changes its profile: the owner's
  log entry "delete" becomes "update". A device that had not yet synced finds no such friend to update, keeps the
  deleted one and is at the newest version. No overlap and no failure is needed. Pinning does the same when the friend is
  deleted after `UpdateFriends` has looked for it (rpc/relation/friend.go:635); in the model that look is not a step of its own.
* `BatchFindChangeLog` drops what it reads after a duplicate key.
* A deletion of a message that is not in Mongo yet is lost without an error; a message asked for between `Malloc` and
  the cache may be shown as deleted for a day.
* Announcements of the online status may be published in the other order; the listener is wrong until the next change.

## 5. Proofs

Each theorem holds for every value of the constants that satisfies the module's
assumptions; TLC evaluates these on every run, and confirmed each inductive
invariant on the run's instance before it was proved. An invariant is proved with a strengthening
that holds in the initial states and is kept by each action, one step of the proof for each.

`SeqConversationProofs`, for any set of callers, sizes, lock values, number of retries and
bound:

* `TypeCorrect`: `Spec => []TypeOK`.
* `UniqueOwner`: `Spec => [](TypeOK /\ WithinCounter /\ OneOwner)`.
* `RangesWithin`: `Spec => []WithinCounter`.
* `EndCovers`: `Spec => []MaxSeqCovers`.

Neither timely expiry nor distinct lock values are assumed. `OneOwner` is not inductive
alone. A fresh block from Mongo is disjoint from all owned seqs only if these lie at or
below `maxSeq`, and a window that is continued keeps its seqs only if `curr <= last`; both
are in `WithinCounter`. The lemmas `FreshSeqs` (a block from Mongo meets nobody's range)
and `Exchange` (an owner that hands part of its range over) carry the arguments that several
actions share.
`MaxSeqCovers` needs `CoverInv`: as long as no live holder lost its lock, the caller between
the two scripts is the one the lock names, so there is one, and what it is about to install
ends behind everything the others were told of.

`BatcherProofs`, for any items and keys, any assignment of keys to workers and any sizes of
batches and channels (`ItemAssumption`, `ShardAssumption`, `SizesAssumption`):

* `TypeCorrect`: `Spec => []TypeOK`, with the capacities of the channels.
* `ImplementsQueue`: `Spec => InOrder`, the refinement of `KeyedQueue`.
* `OnCompleteWaits`: `Spec => CompleteAfterDo`.
* `CloseWaits`: `Spec => []CloseDrains`.

The heart of the invariant is one `Row` per key: what the scheduler has received of the key is, in this
order, what is handled, what the key's worker has in hand, what lies in that worker's channel (batches of
other keys in between) and what the scheduler holds. A concatenation of all batches would be a recursion; instead
there are marks `f[0] <= f[1] <= ...` in the received items, one per batch, and each batch is the `Piece` between two of them
(`Cuts`). `RowReceives` to `RowOtherHandled` say what each step does to a row and `RowEmpty` what is left of
it when nobody holds anything: then all that was received is handled, from which `CompleteAfterDo` and `CloseDrains`
follow. For the former, `CountInv` says that the wait group counts the batches in hand or in channels; for
the latter, `WorkInv` says that a worker that returned left nothing, and `DataInv` that Close's nil
stands in the channel behind exactly what was accepted before it. `WorkInv` also says that each batch is with
the worker of its key: this is why one key is never handled by two workers.

`MsgStoreProofs`, for any consumers, markers and readers, documents of any size, any number
of messages and any budgets (`BoundsAssumption`, and `None` is no job):

* `TypeCorrect`: `Spec => []TypeOK`.
* `ImplementsTable`: `Spec => Implements`, the refinement of `MessageTable`.
* `HandledIsStored`: `Spec => []BatchStored`.

The refinement needs `NoDocument`: what is not in Mongo is blank. Without it a creation
could clear a mark. `TableStep` says which changes of elements are steps of the table;
`UpdateStep`, `CreateStep` and `PushUniqueStep` show that the three writes make only such
changes. `BatchStored` speaks of batches that are through; its strengthening
`AtWork` says that a consumer has left nothing behind of the batch it is at. A consumer
that created a document goes on after the last seq of the block, so `AtWork` needs that
the seqs up to there all lie in that document (`BlockIsInterval`, from `DocsInOrder`: the
document of a seq does not decrease), and a batch is recognised by its last seq
(`OneBatch`), because the batches in the queue follow one another.

The same module, with `ReaderAssumption` (a lock names its reader):

* `CacheShowsMarks`: `Spec => []CacheAgrees`.
* `NoMessageHidden`: `Spec => []NotHidden`.

`CacheAgrees` speaks of what is visible in the cache. `AgreeInv` adds what is not visible
yet: the value that the reader holding the lock has fetched is as good as the document,
or a call that marked the document has still to invalidate the entry, which takes the lock
from the reader. A mark is of one message, so one call owes one invalidation (`Jobs`), and
nothing is known of a message before it is cached (`Unknown`). `HiddenInv` says the same
of placeholders for messages that Mongo does not have.

`FriendSyncProofs`, for any calls, devices, friends and changes:

* `TypeCorrect`: `Spec => []TypeOK`.
* `NothingIsMissed`: `Spec => []NothingMissed`.
* `VersionGoesForward`: `Spec => VersionForward`.
* `CacheIsFresh`: `Spec => []CacheFresh`.

`NothingMissed` compares a device with the list. A device is served from the log, by a
request that reads version, log entries and friends one after the other, while calls
change the list and log. So the invariant `ListInv` says of each friend that is not `blurred` that one call at
a time is between list and log for it, that what this call will log tells what became of the friend, and so does the
entry in the log if there is no such call (`LogTells`). Of a blurred friend it knows nothing but the state itself: as long as the entry
happens not to be `Misstated`, an answer made of it is right. It also says what an answer that is still
being built will do to the device's copy (`Answers`): each friend comes out right, or has
an entry newer than the version the answer carries, or is `Untold`. `CacheFresh` needs that at
most one request at a time can fill the cache, and that one that is about to has read the newest version
(`CacheInv`).

`OnlineStatusProofs`, for any gateways, platforms and bounds (`NamesAssumption`: the push
service is no gateway):

* `TypeCorrect`: `Spec => []TypeOK`.
* `PushFollows`: `Spec => []Follows`.
* `StatusSettles`: `Spec => []Settled`.

`Settled` is about the end, when channel, batch, queue and request of each gateway are
empty; `ReportInv` is about the reports while they travel. The last of a gateway's reports,
wherever it is, names the platforms it has clients of (`Latest`); whatever brings a
platform the gateway has no client of is followed by a report that takes it away
(`Gone`); a connected platform is live, or is about to be reported, or the gateway is about
to be told of a status without it (`Shown`). The reports lie in four places, one behind the
other, and the lemmas `PushMoves` to `WriteMoves` show that moving them on keeps
`Latest` and `Gone`. `ToldInv` says that the last message to the push service is the membership.

Three of the proof modules need facts about `Only(s, S)`, the elements of `s` in `S` in their order,
and begin with the lemmas each uses. The number
of elements of `S` up to `m`, the rank of `m`, is what a recursion over `s` would count; the
induction it would take is replaced by the least element of a set of numbers (`NatMin`, from the
well-foundedness of `<`). `OnlyHas`, `OnlyInOrder` and `OnlyType` say that nothing is left out,
swapped or added; `OnlyPrefix` and `OnlyAppend` (`BatcherProofs`) are about the elements of a prefix and of a sequence with one
more; `RankRun` (`MsgTransferProofs`) is what a batch of consecutive messages adds to the ranks.

`MsgTransferProofs`, for any topics, processes and senders, and any bounds on batches,
failures, crashes and moves (`TopicAssumption`, `UserAssumption`, `SizeAssumption`, `BoundAssumption`):

* `TypeCorrect`: `Spec => []TypeOK`.
* `OneMessage`: `Spec => []OneMessagePerSeq`.
* `PushedFound`: `Spec => []PushedIsFound`.
* `Ordering`: `Spec => []PushOrder`.
* `NoLoss`: `Spec => []NothingLost`.
* `StoredInOrder`: `Spec => []StoredOnce`.
* `OwnRead`: `Spec => []OwnMessagesRead`.

Six invariants speak of the stores and the topics, and each needs the batches at hand:

* `NumberInv`: wherever a message has a seq, in a call of `do` too, the seq is at most `maxSeq`
  and denotes that message; what `Malloc` adds is new.
* `FoundInv`: a call that has cached its batch has it in the cache, and one that is about to push it
  has sent it to Mongo, if no call failed.
* `OrderInv`: as long as the partition stays, only its owner has messages (`Alone`); what it pushed in a
  lane is before what `do` has yet to push there, and that is before what the batcher holds (`Ordered`,
  `PushedBefore`).
* `LossInv`: what was consumed is in a batcher, in a call that has yet to push it in its lane, or was
  pushed. A moving partition goes back to what was committed, so no message is skipped.
* `RankInv`: without faults, what was consumed is all of the topic up to `position`, in two runs without
  a gap, the messages at hand and those in the batcher; the seq of a message is its rank in its
  lane, and `maxSeq` is the rank of the end of what has its seqs.
* `ReadInv` and `CachedReadInv`: each read seq, stored or on its way, is the seq of a message of that
  user (`SeqsOf`), and that of the last one is not behind what is stored or sent.

Each has a lemma for a step (`FlowStep`, `OrderStep`, `LossStep`, `RankStep`, `ReadStep`). What a step does to the job of
its process, to the batches at hand and to the topics is said once, by `LeaveEffect` to `DoEffect`,
`JobsStep`, `WaitingAppended`, `WaitingTaken`, `PushedStored` and `RankMoves`. `StoredOnce` follows from `RankInv`
and `NothingLost`: the seqs are the ranks, and no message is left out (`StoredBatch`).

`WsServerProofs`, for any gateways, connections, users and platforms, any policy and any pools
(`ConnAssumption`, `PolicyAssumption`, `CapAssumption`, `ModeAssumption`, `NoneAssumption`):

* `TypeCorrect`: `Spec => []TypeOK`.
* `OpenConnections`: `Spec => [](LockKept => Associated)`.
* `ConnectionsCounted`: `Spec => [](LockKept => ConnCount)`.
* `OwnClientsOnly`: `Spec => [](LockKept /\ RegisterFirst => OwnClients)`.
* `RosterComplete`: `Spec => [](LockKept /\ RegisterFirst => Roster)`.
* `OneInstanceOnly`: `Spec => [](LockKept /\ ~RpcFails => OneInstance)`.

Type correctness holds without `LockKept`, so the pool is a number per object there. The others need that
nobody closes a connection twice, and this rests on `LockKept` alone: without it the code does. Four invariants carry them:

* `LifeInv`, the life of a client object: in the pool once, client of one open connection, marked closed by one goroutine
  that is about to send it to `unregisterChan`, there once, in the pool again (`Place`, `Tied`). `Locked` says why it is one
  goroutine: whoever is in close() of an object holds the mutex of the connection the object has now, so there is
  one of them, and what it found in `closed` is still so. A replaced mutex would break just this. `Held`: nobody takes
  the object from an open connection. `ReaderClosing`, `LoopClosing` and `KickerClosing` split close() into its steps for
  the later invariants.
* `CountInv`: `connNum`, what is queued to be registered, entering or still with its handler, is together the
  number of objects out of the pool. Of a client that is unregistered before it is registered the counter
  goes down first and up later. Quiet, the objects out of the pool are those of the open connections (`QuietPlace`).
* `RegInv`: the places on the way into the map (`Regs`, `Queued`, `Enters`, `Listed`) are apart from one
  another and from the pool, a list has clients of its own user (`Lists`), and an object that is not closed is in one of them or
  `Doomed`, taken out by somebody who is about to close it. This is where `RegisterFirst` is
  needed: the code does not guarantee it, and `ws_ghost` shows what happens otherwise.
* `PairInv`: of two open connections that exclude each other one is `Waiting` to be registered or `Leaving`; or
  they are on two gateways, and the login of one is entering, has the gateway of the other to tell or is in its kick channel
  (`Between`). `ReachInv` says that an open connection is always waiting, entering, listed or leaving, and `Moves` what a
  step does to it; `TakenStep`, `TellingStep` and `OrderedStep` show that the login check finds whom it has to
  (`VictimsHas`), whether or not ghosts are in the map. Only a failing call (`RpcFails`) breaks the chain.

`LocalCacheProofs`, for any goroutines, writers, items, lists, layouts and capacities
(`NoneAssumption`, `KeyAssumption`, `BoundAssumption`; `LayoutAssumption`: an item is linked with a list at least, and a
call publishes the key of the list it changes, as the callers in `rpccache` and the repositories do):

* `TypeCorrect`: `Spec => []TypeOK`.
* `CacheIsFresh`: `Spec => []Fresh`.
* `NothingOlder`: `Spec => []NeverOlder`.

The proof goes from memory over messages to what is cached:

* `StateInv`: types; objects are those of one item, and the lock of a call that fetches holds (`Calls`);
  what no item and no call refers to is clear (`Memory`); the removals a goroutine is in have taken their item out and hold
  the lock of its slot (`Frames`). So an object that `Add` takes is nobody else's.
* `ListInv`: a message is of a change that was made (`Messages`); the last change of a list was dealt with or is
  announced (`Newest`); Redis has nothing from before a change that was tagged (`Shared`), which is why a fetch that
  begins later cannot read something older.
* `CacheInv`: a removal walks no key twice (`Apart`); the links of a list lead to each item that was linked with it,
  until somebody is about to remove the item (`Links`); so, when the links of the list of the message at hand have been walked,
  what was linked before is `Leaving` (`HeadWalked`); what an item has, or a fetch of it has read, is from after what was
  dealt with, or the item is `Leaving` (`Heard`); and what a waiting call will be served is not older
  than what was dealt with when it began (`Waiting`).

`Heard` alone is not inductive: only the links tell the subscriber which items to remove, and where
another goroutine's eviction has taken a link away, that goroutine is about to remove the item. `Fresh`
follows from `Heard` and `Newest`: the value of a list is between the last change dealt with and the list, and
these are the same unless a change is announced.

**Only model-checked.** The liveness properties (`LockReleased`, `AcceptedIsHandled`,
`CloseReturns`, `ClosedLeaves`, `LoopReturns`, `Converges`, `StatusConverges`) rest on
fairness and so on `ENABLED`, which the prover does not handle. All other properties of the passing runs
are theorems.

## 6. Not modelled

* Auth tokens: reading and writing a user's token map without a lock is a
  hazard of its own, left for another model.
* Read seqs beyond the senders' own, `min_seq` and the clearing of messages,
  physical deletion: they share state with what is modelled, but no action of the models depends on them.
* The services behind the RPC interface (groups, users, conversations) are
  mostly single database operations and notifications; the version logs of groups and conversations use the functions modelled in `FriendSync`.
* Push and scheduled tasks fan out calls and keep no state.
* The HTTP API, start-up and discovery, object storage, webhooks, metrics
  and the command-line tools keep no protocol state. Vendored and generated code
  (`protocol/`) is taken for what its callers use.
