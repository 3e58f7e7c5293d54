----------------------------- MODULE MsgTransfer -----------------------------
(***************************************************************************)
(* The message transfer service: internal/msgtransfer and                  *)
(* pkg/common/storage/controller/msg_transfer.go.                          *)
(*                                                                         *)
(* Messages of one key come from the topic toRedis.  The process that owns *)
(* the partition puts them in its batcher, which hands them to do in       *)
(* batches, one at a time for a key (module Batcher).  do gives the        *)
(* messages to be stored their seqs (module SeqConversation), caches them, *)
(* and sends them on to the topics toMongo and toPush.  A second consumer  *)
(* stores what is in toMongo.                                              *)
(*                                                                         *)
(* Offsets are released as soon as a message is in the batcher: what is    *)
(* committed when a partition moves or a process crashes is anywhere       *)
(* between the last such point and what was consumed.  Every call to       *)
(* Redis, Mongo, the queues and the conversation service may fail.  Left   *)
(* out: read receipts (doSetReadSeq), messages that cannot be parsed, the  *)
(* expiry of the cache, and pushing one by one (PUSH_BATCH_DISABLE).       *)
(***************************************************************************)
EXTENDS Integers, Sequences, SequencesExt, FiniteSetsExt, Subsequences

CONSTANTS
  Proc,         \* the processes of the service
  Topics,       \* what the topic toRedis may hold: the kind and the sender of
                \* each of its messages, in order
  User,         \* the senders
  BatchSize,    \* size: how many messages do is given at most
  Limit,        \* GetSingleGocMsgNum: how many BatchInsertChat2Cache takes
  MaxFailures,  \* bounds of the model: failing calls,
  MaxCuts       \* moves of the partition and crashes, together

\* The two conversations of a key.
Lane == {"msg", "ntf"}

\* categorizeMessageLists: in which conversation a kind of message is stored
\* ("shared" notifications also as a clone in the chat), or only pushed.
StoredKinds == [msg |-> {"chat", "shared"}, ntf |-> {"notice", "shared"}]
PushedKinds == [msg |-> {"typing"}, ntf |-> {"tip"}]

Kind == {"chat", "shared", "notice", "typing", "tip"}

ASSUME TopicAssumption == \A t \in Topics : t \in Seq([kind : Kind, from : User])
ASSUME UserAssumption == User # {}
ASSUME SizeAssumption == BatchSize \in Nat \ {0} /\ Limit \in Nat \ {0}
ASSUME BoundAssumption == MaxFailures \in Nat /\ MaxCuts \in Nat

VARIABLES
  topic,      \* the topic toRedis
  owner,      \* the process the partition is assigned to
  position,   \* how far it has consumed the topic
  committed,  \* how far it was known to be committed
  held,       \* per process, the messages in its batcher
  job,        \* per process, where do is
  maxSeq,     \* per conversation, the last seq allocated
  cache,      \* per conversation, the messages in Redis, with their seqs
  docs,       \* and those in Mongo
  toMongo,    \* the topic toMongo: batches of messages with seqs
  toPush,     \* the topic toPush; seq 0 when a message is not stored
  readSeq,    \* per user, the cached read seq of the chat
  readChan,   \* per process, conversationUserHasReadChan
  readDB,     \* per user, the read seq in Mongo
  created,    \* the chat's conversations were created
  failures, moves, crashes,
  refused     \* history: a batch had more messages than Limit

consumerVars == <<owner, position, committed>>
storeVars == <<maxSeq, cache, docs>>
readVars == <<readSeq, readChan, readDB>>
faultVars == <<failures, moves, crashes, refused>>
vars == <<topic, consumerVars, held, job, storeVars, toMongo, toPush, readVars, created,
          faultVars>>

\* unread: the entries of userSeqMap that SetHasReadSeqs has yet to deal with;
\* seen: the read seq it found for the user at hand.
NoRead == [u \in User |-> 0]
NoJob == [at |-> "idle", lane |-> "msg", msgs |-> <<>>, base |-> 0,
          unread |-> NoRead, user |-> CHOOSE u \in User : TRUE, seen |-> 0]

Init ==
  /\ topic \in Topics
  /\ owner \in Proc /\ position = 0 /\ committed = 0
  /\ held = [p \in Proc |-> <<>>]
  /\ job = [p \in Proc |-> NoJob]
  /\ maxSeq = [l \in Lane |-> 0]
  /\ cache = [l \in Lane |-> {}]
  /\ docs = [l \in Lane |-> {}]
  /\ toMongo = <<>> /\ toPush = <<>>
  /\ readSeq = [u \in User |-> 0]
  /\ readChan = [p \in Proc |-> <<>>]
  /\ readDB = [u \in User |-> 0]
  /\ created = FALSE
  /\ failures = 0 /\ moves = 0 /\ crashes = 0 /\ refused = FALSE

MayCut == moves + crashes < MaxCuts

\* A call fails.
Failure == failures < MaxFailures /\ failures' = failures + 1
           /\ UNCHANGED <<moves, crashes, refused>>

-----------------------------------------------------------------------------
(* The consumer of toRedis *)

\* HandlerRedisMessage puts the next message in the batcher.
HandlerRedisMessage(p) ==
  /\ owner = p /\ position < Len(topic)
  /\ position' = position + 1
  /\ held' = [held EXCEPT ![p] = Append(@, position + 1)]
  /\ UNCHANGED <<owner, committed, job, storeVars, toMongo, toPush, readVars,
                 created, faultVars>>

\* The partition moves; its old owner goes on with what it holds.
Rebalance(p) ==
  /\ MayCut /\ p # owner
  /\ owner' = p
  /\ \E n \in committed .. position : committed' = n /\ position' = n
  /\ moves' = moves + 1
  /\ UNCHANGED <<held, job, storeVars, toMongo, toPush, readVars, created,
                 failures, crashes, refused>>

\* A process dies; its partition is consumed again, by it or by another one,
\* from what was committed.
Crash(p) ==
  /\ MayCut
  /\ crashes' = crashes + 1
  /\ held' = [held EXCEPT ![p] = <<>>]
  /\ job' = [job EXCEPT ![p] = NoJob]
  /\ readChan' = [readChan EXCEPT ![p] = <<>>]
  /\ IF owner = p
     THEN /\ owner' \in Proc
          /\ \E n \in committed .. position : committed' = n /\ position' = n
     ELSE UNCHANGED consumerVars
  /\ UNCHANGED <<storeVars, toMongo, toPush, readSeq, readDB,
                 created, failures, moves, refused>>

-----------------------------------------------------------------------------
(* do: handleMsg for the chat, then handleNotification *)

OfKinds(ms, ks) == Only(ms, {m \in DOMAIN topic : topic[m].kind \in ks})

\* storageList and notStorageList of the conversation at hand.
Storage(p) == OfKinds(job[p].msgs, StoredKinds[job[p].lane])
NotStorage(p) == OfKinds(job[p].msgs, PushedKinds[job[p].lane])

\* The messages of a list with their seqs.
Numbered(ms, base) == [i \in DOMAIN ms |-> [seq |-> base + i, msg |-> ms[i]]]
Batch(p) == Numbered(Storage(p), job[p].base)

GoTo(p, at) == job' = [job EXCEPT ![p].at = at]

\* handleMsg returns, and handleNotification if it has something to do.
HasNotification(p) ==
  \E i \in DOMAIN job[p].msgs : topic[job[p].msgs[i]].kind \in StoredKinds.ntf \cup PushedKinds.ntf

Leave(p) ==
  job' = [job EXCEPT ![p] =
    IF @.lane = "msg" /\ HasNotification(p)
    THEN [@ EXCEPT !.lane = "ntf", !.at = "transient", !.base = 0]
    ELSE NoJob]

\* Mutant: what does not fit is dropped.
DoDropsRest(p) ==
  /\ job[p].at = "idle"
  /\ \E n \in 1 .. Len(held[p]) :
       /\ n <= BatchSize
       /\ job' = [job EXCEPT ![p] =
            [NoJob EXCEPT !.at = "transient", !.msgs = SubSeq(held[p], 1, n)]]
       /\ held' = [held EXCEPT ![p] = <<>>]
  /\ UNCHANGED <<consumerVars, storeVars, toMongo, toPush, readVars, created, faultVars>>

\* Mutant: the last messages first.
DoTakesLast(p) ==
  /\ job[p].at = "idle"
  /\ \E n \in 1 .. Len(held[p]) :
       /\ n <= BatchSize
       /\ job' = [job EXCEPT ![p] =
            [NoJob EXCEPT !.at = "transient", !.msgs = SubSeq(held[p], Len(held[p]) - n + 1, Len(held[p]))]]
       /\ held' = [held EXCEPT ![p] = SubSeq(@, 1, Len(@) - n)]
  /\ UNCHANGED <<consumerVars, storeVars, toMongo, toPush, readVars, created, faultVars>>

\* The batcher hands over what has gathered.
Do(p) ==
  /\ job[p].at = "idle"
  /\ \E n \in 1 .. Len(held[p]) :
       /\ n <= BatchSize
       /\ job' = [job EXCEPT ![p] =
            [NoJob EXCEPT !.at = "transient", !.msgs = SubSeq(held[p], 1, n)]]
       /\ held' = [held EXCEPT ![p] = SubSeq(@, n + 1, Len(@))]
  /\ UNCHANGED <<consumerVars, storeVars, toMongo, toPush, readVars, created, faultVars>>

\* toPushTopic of the messages that are not stored.
PushTransient(p) ==
  LET ms == NotStorage(p)
      entries == [i \in DOMAIN ms |-> [lane |-> job[p].lane, seq |-> 0, msg |-> ms[i]]]
  IN
  /\ job[p].at = "transient"
  /\ IF Storage(p) = <<>> THEN Leave(p) ELSE GoTo(p, "malloc")
  /\ \/ toPush' = toPush \o entries /\ UNCHANGED faultVars
     \/ ms # <<>> /\ Failure /\ UNCHANGED toPush
  /\ UNCHANGED <<consumerVars, held, storeVars, toMongo, readVars, created>>

\* BatchInsertChat2Cache: too many messages are refused.
Refuse(p) ==
  /\ job[p].at = "malloc" /\ Len(Storage(p)) > Limit
  /\ Leave(p)
  /\ refused' = TRUE
  /\ UNCHANGED <<consumerVars, held, storeVars, toMongo, toPush, readVars, created,
                 failures, moves, crashes>>

\* Mutant: the last seq is taken for the one before the first.
MallocLastSeq(p) ==
  LET l == job[p].lane n == Len(Storage(p)) IN
  /\ job[p].at = "malloc" /\ n <= Limit
  /\ \/ /\ maxSeq' = [maxSeq EXCEPT ![l] = @ + n]
        /\ job' = [job EXCEPT ![p].at = "cache", ![p].base = maxSeq[l] + n]
        /\ UNCHANGED faultVars
     \/ /\ Failure
        /\ maxSeq' = [maxSeq EXCEPT ![l] = @ + 1 + n]
        /\ job' = [job EXCEPT ![p].at = "cache", ![p].base = maxSeq[l] + 1]
     \/ Failure /\ Leave(p) /\ UNCHANGED maxSeq
  /\ UNCHANGED <<consumerVars, held, cache, docs, toMongo, toPush, readVars, created>>

\* Mutant: one seq too few.
MallocOneLess(p) ==
  LET l == job[p].lane n == Len(Storage(p)) IN
  /\ job[p].at = "malloc" /\ n <= Limit
  /\ \/ /\ maxSeq' = [maxSeq EXCEPT ![l] = @ + n - 1]
        /\ job' = [job EXCEPT ![p].at = "cache", ![p].base = maxSeq[l]]
        /\ UNCHANGED faultVars
     \/ /\ Failure
        /\ maxSeq' = [maxSeq EXCEPT ![l] = @ + 1 + n]
        /\ job' = [job EXCEPT ![p].at = "cache", ![p].base = maxSeq[l] + 1]
     \/ Failure /\ Leave(p) /\ UNCHANGED maxSeq
  /\ UNCHANGED <<consumerVars, held, cache, docs, toMongo, toPush, readVars, created>>

\* It allocates their seqs.  That the allocator leaves one out (it lost its
\* window) counts as a failure here, as does an error.
Malloc(p) ==
  LET l == job[p].lane n == Len(Storage(p)) IN
  /\ job[p].at = "malloc" /\ n <= Limit
  /\ \/ /\ maxSeq' = [maxSeq EXCEPT ![l] = @ + n]
        /\ job' = [job EXCEPT ![p].at = "cache", ![p].base = maxSeq[l]]
        /\ UNCHANGED faultVars
     \/ /\ Failure
        /\ maxSeq' = [maxSeq EXCEPT ![l] = @ + 1 + n]
        /\ job' = [job EXCEPT ![p].at = "cache", ![p].base = maxSeq[l] + 1]
     \/ Failure /\ Leave(p) /\ UNCHANGED maxSeq
  /\ UNCHANGED <<consumerVars, held, cache, docs, toMongo, toPush, readVars, created>>

\* userSeqMap: the last seq of each sender among es, 0 for the others.
SeqsOf(es, u) == {e.seq : e \in {x \in es : topic[x.msg].from = u}} \cup {0}
UserSeqMap(es) == [u \in User |-> Max(SeqsOf(es, u))]

\* Mutant: the error is logged only.
SetMessageIgnoresError(p) ==
  LET l == job[p].lane b == Batch(p) IN
  /\ job[p].at = "cache"
  /\ \/ /\ cache' = [cache EXCEPT ![l] = @ \cup ToSet(b)]
        /\ IF l = "msg"
           THEN job' = [job EXCEPT ![p].at = "read", ![p].unread = UserSeqMap(ToSet(b))]
           ELSE GoTo(p, "mongo")
        /\ UNCHANGED faultVars
     \/ /\ Failure
        /\ \E n \in 0 .. Len(b) :
             cache' = [cache EXCEPT ![l] = @ \cup ToSet(SubSeq(b, 1, n))]
        /\ GoTo(p, "mongo")
  /\ UNCHANGED <<consumerVars, held, maxSeq, docs, toMongo, toPush, readVars, created>>

\* SetMessageBySeqs caches them one after the other, up to an error.
SetMessageBySeqs(p) ==
  LET l == job[p].lane b == Batch(p) IN
  /\ job[p].at = "cache"
  /\ \/ /\ cache' = [cache EXCEPT ![l] = @ \cup ToSet(b)]
        /\ IF l = "msg"
           THEN job' = [job EXCEPT ![p].at = "read", ![p].unread = UserSeqMap(ToSet(b))]
           ELSE GoTo(p, "mongo")
        /\ UNCHANGED faultVars
     \/ /\ Failure
        /\ \E n \in 0 .. Len(b) :
             cache' = [cache EXCEPT ![l] = @ \cup ToSet(SubSeq(b, 1, n))]
        /\ Leave(p)
  /\ UNCHANGED <<consumerVars, held, maxSeq, docs, toMongo, toPush, readVars, created>>

\* SetHasReadSeqs takes the users in any order.  SetUserReadSeq gets the read
\* seq of a user; an error ends the loop.
GetUserReadSeq(p) ==
  /\ job[p].at = "read"
  /\ \E u \in User :
       /\ job[p].unread[u] > 0
       /\ job' = [job EXCEPT ![p].at = "write", ![p].user = u, ![p].seen = readSeq[u]]
  /\ UNCHANGED <<consumerVars, held, storeVars, toMongo, toPush, readVars, created,
                 faultVars>>

HasReadFails(p) ==
  /\ job[p].at \in {"read", "write"} /\ job[p].unread # NoRead
  /\ Failure
  /\ job' = [job EXCEPT ![p].at = "read", ![p].unread = NoRead]
  /\ UNCHANGED <<consumerVars, held, storeVars, toMongo, toPush, readVars, created>>

\* It sets the read seq if what it got is smaller.
SetUserReadSeq(p) ==
  LET u == job[p].user seq == job[p].unread[u] IN
  /\ job[p].at = "write"
  /\ readSeq' = IF job[p].seen < seq THEN [readSeq EXCEPT ![u] = seq] ELSE readSeq
  /\ job' = [job EXCEPT ![p].at = "read", ![p].unread[u] = 0]
  /\ UNCHANGED <<consumerVars, held, storeVars, toMongo, toPush, readChan, readDB,
                 created, faultVars>>

\* conversationUserHasReadChan; a conversation whose first seqs these are is new.
SendHasRead(p) ==
  /\ job[p].at = "read" /\ job[p].unread = NoRead
  /\ readChan' = [readChan EXCEPT ![p] = Append(@, UserSeqMap(ToSet(Batch(p))))]
  /\ GoTo(p, IF job[p].base = 0 THEN "create" ELSE "mongo")
  /\ UNCHANGED <<consumerVars, held, storeVars, toMongo, toPush, readSeq, readDB,
                 created, faultVars>>

\* The conversation is new: the conversation service creates it.
CreateConversations(p) ==
  /\ job[p].at = "create"
  /\ GoTo(p, "mongo")
  /\ \/ created' = TRUE /\ UNCHANGED faultVars
     \/ Failure /\ UNCHANGED created
  /\ UNCHANGED <<consumerVars, held, storeVars, toMongo, toPush, readVars>>

MsgToMongoMQ(p) ==
  /\ job[p].at = "mongo"
  /\ GoTo(p, "push")
  /\ \/ toMongo' = Append(toMongo, [lane |-> job[p].lane, batch |-> Batch(p)])
        /\ UNCHANGED faultVars
     \/ Failure /\ UNCHANGED toMongo
  /\ UNCHANGED <<consumerVars, held, storeVars, toPush, readVars, created>>

\* toPushTopic of the messages that are stored.
PushStored(p) ==
  LET b == Batch(p)
      entries == [i \in DOMAIN b |->
                   [lane |-> job[p].lane, seq |-> b[i].seq, msg |-> b[i].msg]]
  IN
  /\ job[p].at = "push"
  /\ Leave(p)
  /\ \/ toPush' = toPush \o entries /\ UNCHANGED faultVars
     \/ Failure /\ UNCHANGED toPush
  /\ UNCHANGED <<consumerVars, held, storeVars, toMongo, readVars, created>>

\* Mutant: $set instead of $max.
RaiseOverwrites(f, g) == g

Raise(f, g) == [u \in User |-> IF f[u] < g[u] THEN g[u] ELSE f[u]]

\* HandleUserHasReadSeqMessages, with $max.
SetHasReadSeqToDB(p) ==
  /\ readChan[p] # <<>>
  /\ readChan' = [readChan EXCEPT ![p] = Tail(@)]
  /\ \/ readDB' = Raise(readDB, Head(readChan[p])) /\ UNCHANGED faultVars
     \/ Failure /\ UNCHANGED readDB
  /\ UNCHANGED <<consumerVars, held, job, storeVars, toMongo, toPush, readSeq, created>>

-----------------------------------------------------------------------------
(* The consumer of toMongo *)

\* HandleChatWs2Mongo stores a batch; an error is logged, and part of the
\* batch may have been stored.
HandleChatWs2Mongo ==
  /\ toMongo # <<>>
  /\ toMongo' = Tail(toMongo)
  /\ LET l == Head(toMongo).lane b == Head(toMongo).batch IN
     \/ docs' = [docs EXCEPT ![l] = @ \cup ToSet(b)] /\ UNCHANGED faultVars
     \/ /\ Failure
        /\ \E n \in 0 .. Len(b) :
             docs' = [docs EXCEPT ![l] = @ \cup ToSet(SubSeq(b, 1, n))]
  /\ UNCHANGED <<consumerVars, held, job, maxSeq, cache, toPush, readVars, created>>

-----------------------------------------------------------------------------
Step(p) ==
  \/ Do(p) \/ PushTransient(p) \/ Refuse(p) \/ Malloc(p) \/ SetMessageBySeqs(p)
  \/ GetUserReadSeq(p) \/ HasReadFails(p) \/ SetUserReadSeq(p) \/ SendHasRead(p)
  \/ CreateConversations(p) \/ MsgToMongoMQ(p) \/ PushStored(p)

Next ==
  /\ UNCHANGED topic
  /\ \/ \E p \in Proc :
          \/ HandlerRedisMessage(p) \/ Rebalance(p) \/ Crash(p)
          \/ Step(p) \/ SetHasReadSeqToDB(p)
     \/ HandleChatWs2Mongo

Spec == Init /\ [][Next]_vars

-----------------------------------------------------------------------------
(* Properties *)

Message == DOMAIN topic
Entry == [seq : Nat, msg : Message]

Stage == {"idle", "transient", "malloc", "cache", "read", "write", "create", "mongo", "push"}
Job == [at : Stage, lane : Lane, msgs : Seq(Message), base : Nat,
        unread : [User -> Nat], user : User, seen : Nat]

\* Type invariant.
TypeOK ==
  /\ topic \in Topics
  /\ owner \in Proc /\ committed \in 0 .. position /\ position \in 0 .. Len(topic)
  /\ held \in [Proc -> Seq(Message)]
  /\ job \in [Proc -> Job] /\ \A p \in Proc : Len(job[p].msgs) <= BatchSize
  /\ maxSeq \in [Lane -> Nat]
  /\ cache \in [Lane -> SUBSET Entry] /\ docs \in [Lane -> SUBSET Entry]
  /\ toMongo \in Seq([lane : Lane, batch : Seq(Entry)])
  /\ toPush \in Seq([lane : Lane, seq : Nat, msg : Message])
  /\ readSeq \in [User -> Nat] /\ readDB \in [User -> Nat]
  /\ readChan \in [Proc -> Seq([User -> Nat])]
  /\ created \in BOOLEAN
  /\ failures \in 0 .. MaxFailures /\ moves \in Nat /\ crashes \in Nat
  /\ moves + crashes <= MaxCuts /\ refused \in BOOLEAN

\* What was pushed with a seq, and what waits to be stored.
Pushed(l) == {[seq |-> e.seq, msg |-> e.msg] : e \in {x \in ToSet(toPush) : x.lane = l /\ x.seq > 0}}
Waiting(l) == UNION {ToSet(b.batch) : b \in {x \in ToSet(toMongo) : x.lane = l}}

\* A seq of a conversation denotes one message wherever it is found, in Redis,
\* in Mongo or on its way there or to the receivers, although processes crash,
\* messages are consumed twice and two processes number messages of the same
\* conversation at the same time.
OneMessagePerSeq ==
  \A l \in Lane :
    \A x, y \in cache[l] \cup docs[l] \cup Waiting(l) \cup Pushed(l) :
      x.seq = y.seq => x.msg = y.msg

\* As long as the partition does not move and no process crashes, messages are
\* pushed in the order of the topic and of their seqs, whichever calls fail.
PushOrder ==
  moves = 0 /\ crashes = 0 =>
    \A l \in Lane : \A i, j \in DOMAIN toPush :
      LET x == toPush[i] y == toPush[j] IN
      i < j /\ x.lane = l /\ y.lane = l /\ x.seq > 0 /\ y.seq > 0
        => x.seq < y.seq /\ x.msg < y.msg

\* Nothing is under way.
Quiet ==
  /\ position = Len(topic) /\ toMongo = <<>>
  /\ \A p \in Proc : held[p] = <<>> /\ job[p].at = "idle" /\ readChan[p] = <<>>

StoredIn(l) == {m \in Message : topic[m].kind \in StoredKinds[l]}

\* If no call fails, no process crashes and no batch is too large, every message
\* to be stored is stored and pushed in the end, however the batches fall and
\* although the partition moves in the middle of one.
NothingLost ==
  Quiet /\ failures = 0 /\ crashes = 0 /\ ~refused =>
    \A l \in Lane : \A m \in StoredIn(l) :
      \E e \in docs[l] : e.msg = m /\ e \in Pushed(l)

\* The comments on SetHasReadSeqToDB and toPushTopic take batches of 1000
\* messages of one conversation for granted: without any fault, a batch of any
\* size that the batcher hands over is stored.
AnyBatchStored ==
  Quiet /\ failures = 0 /\ crashes = 0 /\ moves = 0 =>
    \A l \in Lane : StoredIn(l) = {e.msg : e \in docs[l]}

\* If the partition does not move either, handleMsg and handleNotification store
\* them once, in the order of the topic, with the seqs from 1 on and no gap.
StoredOnce ==
  Quiet /\ failures = 0 /\ crashes = 0 /\ moves = 0 /\ ~refused =>
    \A l \in Lane :
      docs[l] = ToSet(Numbered(OfKinds([i \in Message |-> i], StoredKinds[l]), 0))

\* What toPushTopic told anybody was in the cache before, and is in Mongo or in
\* the topic toMongo unless a call failed: a receiver that looks the message up
\* can find it, although a process crashes in the middle of a batch.
PushedIsFound ==
  \A l \in Lane :
    /\ Pushed(l) \subseteq cache[l]
    /\ failures = 0 => Pushed(l) \subseteq docs[l] \cup Waiting(l)

\* The senders of the messages of a chat have read them: if no call fails and no
\* process crashes, the read seq of a user in Mongo is that of its last message
\* when all is quiet, and so is the cached one unless the partition moved (the
\* get and the set of SetUserReadSeq of two processes may then interleave).
OwnMessagesRead ==
  Quiet /\ failures = 0 /\ crashes = 0 =>
    LET last == UserSeqMap(docs["msg"]) IN
    readDB = last /\ (moves = 0 => readSeq = last)

=============================================================================
