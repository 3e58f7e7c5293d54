------------------------------ MODULE MsgStore ------------------------------
(***************************************************************************)
(* The messages of one conversation in Mongo and in the Redis cache before *)
(* it. Msgtransfer takes seqs, caches the messages and queues them; the    *)
(* consumers of that queue write them into documents of DocSize messages;  *)
(* revocations and deletions write to the same documents and invalidate    *)
(* the cache; readers fill it.                                             *)
(*                                                                         *)
(*   pkg/common/storage/controller/msg_transfer.go, msg.go                 *)
(*   pkg/common/storage/database/mgo/msg.go, model/msg.go                  *)
(*   pkg/common/storage/cache/redis/msg.go, batch.go                       *)
(*   internal/msgtransfer/online_msg_to_mongo_handler.go                   *)
(***************************************************************************)
EXTENDS Integers, Sequences, FiniteSets

CONSTANTS
  Consumer,    \* consumers of the queue to Mongo
  Marker,      \* calls of RevokeMsg and DeleteUserMsgsBySeqs
  Reader,      \* calls of GetMessageBySeqs
  None,
  DocSize,     \* GetSingleGocMsgNum (100)
  LastSeq,     \* bound: seqs handed out
  MaxBatch,    \* bound: messages of a batch
  Budgets      \* bounds: revocations and deletions; reads that miss the cache;
               \* rebalances, failed calls and evictions

ASSUMPTION BoundsAssumption ==
  /\ DocSize \in Nat \ {0} /\ LastSeq \in Nat
  /\ MaxBatch \in Nat \ {0}
  /\ Budgets \subseteq [marks : Nat, reads : Nat, faults : Nat]

Worker == Consumer \cup Marker
Seqs   == 1 .. LastSeq

VARIABLES
  maxSeq,    \* seqs given out (Malloc)
  cachedTo,  \* of these, how many SetMessageBySeqs has cached
  queue,     \* batches <<first, last>> in the queue to Mongo
  owner, at, \* the consumer the partition belongs to and the last batch it took
  docs,      \* documents that exist
  elem,      \* elem[doc][index]: an element of its msgs
  job,       \* what each worker is about
  cache,     \* cache[seq]: value and lock of the rockscache key
  read,      \* what each reader has fetched and not yet put into the cache
  marks, reads, faults,  \* what is left of the budget
  \* History.
  handled,   \* batches whose consumer returned without an error
  torn,      \* seqs of calls that ended between their write and the invalidation
  exposed    \* seqs whose cache entry was missing before Mongo had the message

mongo   == <<docs, elem>>
history == <<handled, torn, exposed>>
vars == <<maxSeq, cachedTo, queue, owner, at, mongo, job, cache, read,
          marks, reads, faults, history>>

----------------------------------------------------------------------------
(* Documents.                                                              *)

GetDocID(seq)    == (seq - 1) \div DocSize
GetMsgIndex(seq) == (seq - 1) % DocSize
DocIDs  == {GetDocID(s) : s \in Seqs}
Indexes == 0 .. DocSize - 1

\* MsgInfoModel: has it a msg, has it a revoke, does del_list name the user.
MsgInfo == [msg : BOOLEAN, revoke : BOOLEAN, del : BOOLEAN]
Blank   == [msg |-> FALSE, revoke |-> FALSE, del |-> FALSE]

Element(seq) == elem[GetDocID(seq)][GetMsgIndex(seq)]
Sent    == {s \in Seqs : Element(s).msg}
Revoked == {s \in Seqs : Element(s).revoke}
Deleted == {s \in Seqs : Element(s).del}

----------------------------------------------------------------------------
(* Cached values and locks.                                                *)

Value    == [kind : {"none", "gone", "msg"}, revoke : BOOLEAN, del : BOOLEAN]
Kind(k)  == [kind |-> k, revoke |-> FALSE, del |-> FALSE]
\* A message with the marks of its element.
Shown(e) == [kind |-> "msg", revoke |-> e.revoke, del |-> e.del]

\* batchInsertBlock at seq 'next' of 'next' .. 'last'; or, written, still to
\* invalidate the cache.
Job == [key : {"msg", "revoke", "del"}, next : Seqs, last : Seqs,
        tryUpdate : BOOLEAN, step : {"update", "create", "tag"}]

ASSUMPTION NoneAssumption == None \notin Job
ASSUMPTION ReaderAssumption == "free" \notin Reader /\ "tagged" \notin Reader

\* Types; batches are not empty and follow one another.
TypeOK ==
  /\ maxSeq \in 0 .. LastSeq /\ cachedTo \in 0 .. maxSeq
  /\ queue \in Seq(Seqs \X Seqs)
  /\ \A k \in DOMAIN queue :
       /\ queue[k][1] <= queue[k][2]
       /\ \A l \in DOMAIN queue : k < l => queue[k][2] < queue[l][1]
  /\ owner \in Consumer /\ at \in 0 .. Len(queue)
  /\ docs \subseteq DocIDs
  /\ elem \in [DocIDs -> [Indexes -> MsgInfo]]
  /\ job \in [Worker -> Job \cup {None}]
  /\ \A w \in Worker : job[w] # None => job[w].next <= job[w].last
  /\ cache \in [Seqs -> [value : Value, lock : {"free", "tagged"} \cup Reader]]
  /\ read \in [Reader -> [seq : Seqs, value : Value \cup {None}] \cup {None}]
  /\ marks \in Nat /\ reads \in Nat /\ faults \in Nat
  /\ handled \subseteq DOMAIN queue
  /\ torn \subseteq Seqs /\ exposed \subseteq Seqs

Init ==
  /\ maxSeq = 0 /\ cachedTo = 0 /\ queue = << >>
  /\ owner \in Consumer /\ at = 0
  /\ docs = {} /\ elem = [d \in DocIDs |-> [i \in Indexes |-> Blank]]
  /\ job = [w \in Worker |-> None]
  /\ cache = [s \in Seqs |-> [value |-> Kind("none"), lock |-> "free"]]
  /\ read = [r \in Reader |-> None]
  /\ \E b \in Budgets : marks = b.marks /\ reads = b.reads /\ faults = b.faults
  /\ handled = {} /\ torn = {} /\ exposed = {}

----------------------------------------------------------------------------
(* Msgtransfer: BatchInsertChat2Cache, then MsgToMongoMQ.                  *)

Queued == IF queue = << >> THEN 0 ELSE queue[Len(queue)][2]

\* Malloc. From here on readers may ask for the seqs.
Malloc(n) ==
  /\ cachedTo = maxSeq /\ Queued = maxSeq
  /\ maxSeq + n <= LastSeq
  /\ maxSeq' = maxSeq + n
  /\ UNCHANGED <<cachedTo, queue, owner, at, mongo, job, cache, read, marks, reads, faults, history>>

\* SetMessageBySeqs, message by message; RawSet does not look at the lock.
RawSet ==
  /\ cachedTo < maxSeq
  /\ cachedTo' = cachedTo + 1
  /\ cache' = [cache EXCEPT ![cachedTo + 1].value = Kind("msg")]
  /\ UNCHANGED <<maxSeq, queue, owner, at, mongo, job, read, marks, reads, faults, history>>

MsgToMongoMQ ==
  /\ cachedTo = maxSeq /\ Queued < maxSeq
  /\ queue' = Append(queue, <<Queued + 1, maxSeq>>)
  /\ UNCHANGED <<maxSeq, cachedTo, owner, at, mongo, job, cache, read, marks, reads, faults, history>>

----------------------------------------------------------------------------
(* BatchInsertBlock, one call of Mongo at a time.                          *)

\* The calls start with an update.
Started(key, first, last) ==
  [key |-> key, next |-> first, last |-> last, tryUpdate |-> TRUE, step |-> "update"]

\* Mutant: the seq after the written block is skipped.
AdvancedPast(j, s, tryUpdate) ==
  IF s < j.last
    THEN [j EXCEPT !.next = s + 2, !.tryUpdate = tryUpdate,
                   !.step = IF tryUpdate THEN "update" ELSE "create"]
    ELSE IF j.key = "msg" THEN None ELSE [j EXCEPT !.step = "tag", !.next = j.last]

\* The job after seqs up to s are written.
Advanced(j, s, tryUpdate) ==
  IF s < j.last
    THEN [j EXCEPT !.next = s + 1, !.tryUpdate = tryUpdate,
                   !.step = IF tryUpdate THEN "update" ELSE "create"]
    ELSE IF j.key = "msg" THEN None ELSE [j EXCEPT !.step = "tag", !.next = j.last]

\* A worker goes on after s; a consumer may be through with its batch.
BatchOf(j) == {k \in DOMAIN queue : queue[k][2] = j.last}
Proceed(w, s, tryUpdate) ==
  LET after == Advanced(job[w], s, tryUpdate) IN
  /\ job' = [job EXCEPT ![w] = after]
  /\ handled' = IF after = None THEN handled \cup BatchOf(job[w]) ELSE handled

\* UpdateMsg: $set of one field of one element; no match without the document.
Update(w) ==
  LET j == job[w]  d == GetDocID(j.next) IN
  /\ j # None /\ j.key # "del" /\ j.step = "update"
  /\ IF d \in docs
       THEN /\ elem' = [elem EXCEPT ![d][GetMsgIndex(j.next)] =
                          IF j.key = "msg" THEN [@ EXCEPT !.msg = TRUE]
                                           ELSE [@ EXCEPT !.revoke = TRUE]]
            /\ Proceed(w, j.next, j.tryUpdate)
       ELSE job' = [job EXCEPT ![w].step = "create"] /\ UNCHANGED <<elem, handled>>
  /\ UNCHANGED <<maxSeq, cachedTo, queue, owner, at, docs, cache, read,
                 marks, reads, faults, torn, exposed>>

\* The seqs from next on that go into next's document.
Block(j) == {s \in j.next .. j.last : GetDocID(s) = GetDocID(j.next)}

\* A document with the block's field and blanks.
NewDoc(j) ==
  [i \in Indexes |->
     IF \E s \in Block(j) : GetMsgIndex(s) = i
       THEN IF j.key = "msg" THEN [Blank EXCEPT !.msg = TRUE] ELSE [Blank EXCEPT !.revoke = TRUE]
       ELSE Blank]

\* Mutant: a duplicate key ends the call as a success would.
CreateNoRetry(w) ==
  LET j == job[w]  d == GetDocID(j.next) IN
  /\ j # None /\ j.step = "create"
  /\ IF d \notin docs
       THEN docs' = docs \cup {d} /\ elem' = [elem EXCEPT ![d] = NewDoc(j)]
       ELSE UNCHANGED <<docs, elem>>
  /\ \E top \in Block(j) : (\A s \in Block(j) : s <= top) /\ Proceed(w, top, FALSE)
  /\ UNCHANGED <<maxSeq, cachedTo, queue, owner, at, cache, read,
                 marks, reads, faults, torn, exposed>>

\* Mutant: the document is replaced where it exists.
CreateReplace(w) ==
  LET j == job[w]  d == GetDocID(j.next) IN
  /\ j # None /\ j.step = "create"
  /\ docs' = docs \cup {d}
  /\ elem' = [elem EXCEPT ![d] = NewDoc(j)]
  /\ \E top \in Block(j) : (\A s \in Block(j) : s <= top) /\ Proceed(w, top, FALSE)
  /\ UNCHANGED <<maxSeq, cachedTo, queue, owner, at, cache, read,
                 marks, reads, faults, torn, exposed>>

\* Create: all of the block, or a duplicate key; then the same seq is updated.
Create(w) ==
  LET j == job[w]  d == GetDocID(j.next) IN
  /\ j # None /\ j.step = "create"
  /\ IF d \notin docs
       THEN /\ docs' = docs \cup {d}
            /\ elem' = [elem EXCEPT ![d] = NewDoc(j)]
            /\ \E top \in Block(j) :
                 (\A s \in Block(j) : s <= top) /\ Proceed(w, top, FALSE)
       ELSE /\ job' = [job EXCEPT ![w].tryUpdate = TRUE, ![w].step = "update"]
            /\ UNCHANGED <<docs, elem, handled>>
  /\ UNCHANGED <<maxSeq, cachedTo, queue, owner, at, cache, read,
                 marks, reads, faults, torn, exposed>>

----------------------------------------------------------------------------
(* The consumers of the queue to Mongo.                                    *)

\* HandleChatWs2Mongo: the next batch, the last seq before it in LastSeq.
Consume(c) ==
  /\ c = owner /\ job[c] = None /\ at < Len(queue)
  /\ at' = at + 1
  /\ job' = [job EXCEPT ![c] = Started("msg", queue[at + 1][1], queue[at + 1][2])]
  /\ UNCHANGED <<maxSeq, cachedTo, queue, owner, mongo, cache, read, marks, reads, faults, history>>

\* The partition moves while its owner is still at work, to an offset that the
\* batches have or have not reached.
Rebalance ==
  /\ faults > 0
  /\ faults' = faults - 1
  /\ \E c \in Consumer \ {owner} : job[c] = None /\ owner' = c
  /\ at' \in 0 .. at
  /\ UNCHANGED <<maxSeq, cachedTo, queue, mongo, job, cache, read, marks, reads, history>>

----------------------------------------------------------------------------
(* RevokeMsg and DeleteUserMsgsBySeqs.                                     *)

\* GetMsgForRevoke finds it, and finds it not revoked.
Visible(s) ==
  \/ cache[s].lock = "free" /\ cache[s].value = Kind("msg")
  \/ s \in Sent \ Revoked

RevokeMsg(m, s) ==
  /\ job[m] = None /\ marks > 0 /\ Visible(s)
  /\ marks' = marks - 1
  /\ job' = [job EXCEPT ![m] = Started("revoke", s, s)]
  /\ UNCHANGED <<maxSeq, cachedTo, queue, owner, at, mongo, cache, read, reads, faults, history>>

\* A user deletes what it has been given.
DeleteUserMsgsBySeqs(m, s) ==
  /\ job[m] = None /\ marks > 0 /\ s <= cachedTo
  /\ marks' = marks - 1
  /\ job' = [job EXCEPT ![m] = Started("del", s, s)]
  /\ UNCHANGED <<maxSeq, cachedTo, queue, owner, at, mongo, cache, read, reads, faults, history>>

\* $addToSet on del_list: without the document nothing matches, and no error.
PushUnique(m) ==
  LET s == job[m].next IN
  /\ job[m] # None /\ job[m].key = "del" /\ job[m].step = "update"
  /\ elem' = IF GetDocID(s) \in docs
               THEN [elem EXCEPT ![GetDocID(s)][GetMsgIndex(s)].del = TRUE]
               ELSE elem
  /\ job' = [job EXCEPT ![m].step = "tag"]
  /\ UNCHANGED <<maxSeq, cachedTo, queue, owner, at, docs, cache, read, marks, reads, faults, history>>

\* DelMessageBySeqs: TagAsDeleted takes the lock from whoever has it.
DelMessageBySeqs(m) ==
  LET s == job[m].next IN
  /\ job[m] # None /\ job[m].step = "tag"
  /\ cache' = [cache EXCEPT ![s].lock = "tagged"]
  /\ job' = [job EXCEPT ![m] = None]
  /\ exposed' = IF s \in Sent THEN exposed ELSE exposed \cup {s}
  /\ UNCHANGED <<maxSeq, cachedTo, queue, owner, at, mongo, read, marks, reads, faults, handled, torn>>

\* A call ends in an error or its process dies. The consumer logs it and goes on
\* with the next batch; a call that has written does not invalidate.
Abort(w) ==
  /\ job[w] # None /\ faults > 0
  /\ faults' = faults - 1
  /\ job' = [job EXCEPT ![w] = None]
  /\ torn' = IF job[w].step = "tag" THEN torn \cup {job[w].next} ELSE torn
  /\ UNCHANGED <<maxSeq, cachedTo, queue, owner, at, mongo, cache, read, marks, reads, handled, exposed>>

----------------------------------------------------------------------------
(* GetMessageBySeqs: rockscache with strong consistency.                   *)

\* A miss locks the key; a lock of another reader can have passed LockExpire.
Lock(r, s) ==
  /\ read[r] = None /\ s <= maxSeq /\ reads > 0
  /\ cache[s].lock # "free" \/ cache[s].value = Kind("none")
  /\ reads' = reads - 1
  /\ cache' = [cache EXCEPT ![s].lock = r]
  /\ read' = [read EXCEPT ![r] = [seq |-> s, value |-> None]]
  /\ exposed' = IF s \notin Sent /\ s > cachedTo THEN exposed \cup {s} ELSE exposed
  /\ UNCHANGED <<maxSeq, cachedTo, queue, owner, at, mongo, job, marks, faults, handled, torn>>

\* Mutant: the element is looked up one further than it was written.
FindSeqsNext(r) ==
  LET s == read[r].seq IN
  /\ read[r] # None /\ read[r].value = None
  /\ read' = [read EXCEPT ![r].value =
                IF elem[GetDocID(s)][s % DocSize].msg
                  THEN Shown(elem[GetDocID(s)][s % DocSize]) ELSE Kind("gone")]
  /\ UNCHANGED <<maxSeq, cachedTo, queue, owner, at, mongo, job, cache, marks, reads, faults, history>>

\* FindSeqs: an element without a message reads as one that has been deleted.
FindSeqs(r) ==
  /\ read[r] # None /\ read[r].value = None
  /\ read' = [read EXCEPT ![r].value =
                IF read[r].seq \in Sent THEN Shown(Element(read[r].seq)) ELSE Kind("gone")]
  /\ UNCHANGED <<maxSeq, cachedTo, queue, owner, at, mongo, job, cache, marks, reads, faults, history>>

\* Mutant: whoever has fetched a value stores it.
FillAlways(r) ==
  /\ read[r] # None /\ read[r].value # None
  /\ cache' = [cache EXCEPT ![read[r].seq] = [value |-> read[r].value, lock |-> "free"]]
  /\ read' = [read EXCEPT ![r] = None]
  /\ UNCHANGED <<maxSeq, cachedTo, queue, owner, at, mongo, job, marks, reads, faults, history>>

\* The value goes into the cache if the lock is still the reader's.
Fill(r) ==
  /\ read[r] # None /\ read[r].value # None
  /\ cache' = IF cache[read[r].seq].lock = r
                THEN [cache EXCEPT ![read[r].seq] = [value |-> read[r].value, lock |-> "free"]]
                ELSE cache
  /\ read' = [read EXCEPT ![r] = None]
  /\ UNCHANGED <<maxSeq, cachedTo, queue, owner, at, mongo, job, marks, reads, faults, history>>

\* Redis loses the key, or its day is over.
Evict(s) ==
  /\ faults > 0 /\ cache[s].value # Kind("none")
  /\ faults' = faults - 1
  /\ cache' = [cache EXCEPT ![s] = [value |-> Kind("none"), lock |-> "free"]]
  /\ exposed' = IF s \in Sent THEN exposed ELSE exposed \cup {s}
  /\ UNCHANGED <<maxSeq, cachedTo, queue, owner, at, mongo, job, read, marks, reads, handled, torn>>

Next ==
  \/ \E n \in 1 .. MaxBatch : Malloc(n)
  \/ RawSet \/ MsgToMongoMQ \/ Rebalance
  \/ \E c \in Consumer : Consume(c)
  \/ \E w \in Worker : Update(w) \/ Create(w) \/ Abort(w)
  \/ \E m \in Marker :
       \/ \E s \in Seqs : RevokeMsg(m, s) \/ DeleteUserMsgsBySeqs(m, s)
       \/ PushUnique(m) \/ DelMessageBySeqs(m)
  \/ \E r \in Reader : FindSeqs(r) \/ Fill(r) \/ \E s \in Seqs : Lock(r, s)
  \/ \E s \in Seqs : Evict(s)

Spec == Init /\ [][Next]_vars

----------------------------------------------------------------------------
(* Properties.                                                             *)

\* The documents implement the table: two consumers, revocations and deletions
\* that create, fill and mark the same documents never take anything away from
\* each other (BatchInsertBlock, UpdateMsg, PushUnique).
Table == INSTANCE MessageTable WITH
  sent <- Sent, revoked <- Revoked, deleted <- Deleted
Implements == Table!Spec

\* A batch that its consumer has handled without an error is in Mongo, message
\* for message, whoever created the documents (BatchInsertBlock).
BatchStored ==
  \A k \in handled : queue[k][1] .. queue[k][2] \subseteq Sent

\* A cached message that readers are given has the revocation and the deletion
\* Mongo has, unless the call that wrote one is still to invalidate the cache or
\* died before it did (RevokeMsg, DelMessageBySeqs; batchGetCache2).
CacheAgrees ==
  \A s \in Sent \ torn :
    \/ \E m \in Marker : job[m] # None /\ job[m].step = "tag" /\ job[m].next = s
    \/ cache[s].lock = "free" /\ cache[s].value.kind = "msg"
         => cache[s].value = Shown(Element(s))

\* The cache says of a message that Mongo has that it was deleted only if the
\* message was looked for before it was stored: in the time between Malloc and
\* SetMessageBySeqs, or after a mark or an eviction had removed its cache entry.
NotHidden ==
  \A s \in Sent \ exposed :
    cache[s].lock = "free" => cache[s].value.kind # "gone"
=============================================================================
