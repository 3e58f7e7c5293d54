--------------------------- MODULE SeqConversation ---------------------------
(***************************************************************************)
(* The sequence-number allocator of one conversation:                      *)
(* pkg/common/storage/cache/redis/seq_conversation.go on top of            *)
(* pkg/common/storage/database/mgo/seq_conversation.go.                    *)
(*                                                                         *)
(* Mongo keeps max_seq, the end of the last block it gave out.  A Redis    *)
(* hash keeps a window (CURR, LAST] of that block from which calls are     *)
(* served.  When the hash is missing or the window too small, a Lua script *)
(* puts a lock in the hash, and the caller that got it fetches a block     *)
(* from Mongo and installs a new window with a second script.  The lock is *)
(* the hash's short TTL: Redis may drop it under a slow caller.            *)
(*                                                                         *)
(* Conversations share nothing, so one is modelled.  A range of seqs is    *)
(* the interval (lo, hi] of the code's arithmetic.  The hash's TIME field, *)
(* which goes with each window, and the min_seq that mgo.Malloc resets     *)
(* decide nothing here and are left out.                                   *)
(***************************************************************************)
EXTENDS Integers, FiniteSets

CONSTANTS
  Caller,       \* the goroutines, of any server process, that call Malloc
  Size,         \* the sizes they ask for; 0 reads the current max seq
  Basic,        \* basicSize of getMallocSize: 100 for groups, 50 otherwise
  NoCaller,     \* not one of them
  LockValue,    \* what math.random can return inside the Lua scripts
  NoLock,       \* not one of them
  Retries,      \* 10 in mallocTime and in setSeqRetry
  SeqBound      \* bound of the model: no new allocation from this max_seq on

ASSUME CallerAssumption == Caller # {} /\ NoCaller \notin Caller
ASSUME LockValueAssumption == NoLock \notin LockValue
ASSUME SizeAssumption == Size \subseteq Nat
ASSUME BasicAssumption == Basic \in Nat
ASSUME RetriesAssumption == Retries \in Nat \ {0}
ASSUME SeqBoundAssumption == SeqBound \in Nat

\* The seqs of the range (lo, hi].
Seqs(lo, hi) == (lo + 1) .. hi

VARIABLES
  window,   \* whether the hash has CURR and LAST: "absent" or "present"
  curr,     \* CURR: the last seq given out of the window
  last,     \* LAST: the last seq of the window
  lock,     \* LOCK, or NoLock
  ttl,      \* which expiry the hash carries: "none", "lock" or "data"
  maxSeq,   \* max_seq of the Mongo document, 0 when there is none
  pc,       \* where each caller is in mallocTime
  size,     \* its argument
  tries,    \* its loop counter, in mallocTime and then in setSeqRetry
  mine,     \* the lock value a script returned to it
  from,     \* with upto: the range (from, upto] only this caller knows of
  upto,
  granted,  \* history: every seq returned to a caller by size > 0
  told,     \* history: the largest seq any caller has been told of
  locker,   \* history: the caller that last put a lock in the hash
  early,    \* history: Redis has dropped the hash of a live lock holder
  unheard   \* history: setSeq has run and its reply was lost

redisVars  == <<window, curr, last, lock, ttl>>
callerVars == <<pc, size, tries, mine, from, upto>>
history    == <<granted, told, locker, early, unheard>>
vars == <<redisVars, maxSeq, callerVars, history>>

Init ==
  /\ window = "absent" /\ curr = 0 /\ last = 0 /\ lock = NoLock /\ ttl = "none"
  /\ maxSeq = 0
  /\ pc = [c \in Caller |-> "idle"]
  /\ size = [c \in Caller |-> 0]
  /\ tries = [c \in Caller |-> 0]
  /\ mine = [c \in Caller |-> NoLock]
  /\ from = [c \in Caller |-> 0]
  /\ upto = [c \in Caller |-> 0]
  /\ granted = {}
  /\ told = 0
  /\ locker = NoCaller /\ early = FALSE /\ unheard = FALSE

Larger(a, b) == IF a >= b THEN a ELSE b

\* The hash has a window.
Cached == window = "present"

\* EXISTS key: the hash exists as soon as it has a field.
Exists == Cached \/ lock # NoLock

\* Mutant: the call's size is taken from the basic size, not added to it.
MallocSizeLess(n) == IF n = 0 THEN 0 ELSE Basic - n

\* What getMallocSize asks of Mongo for a call of this size.
MallocSize(n) == IF n = 0 THEN 0 ELSE Basic + n

Take(c, lo, hi) ==
  /\ from' = [from EXCEPT ![c] = lo]
  /\ upto' = [upto EXCEPT ![c] = hi]

\* The call is over and its local variables are gone.
Back(c) ==
  /\ pc' = [pc EXCEPT ![c] = "idle"]
  /\ size' = [size EXCEPT ![c] = 0]
  /\ tries' = [tries EXCEPT ![c] = 0]
  /\ mine' = [mine EXCEPT ![c] = NoLock]
  /\ Take(c, 0, 0)

-----------------------------------------------------------------------------
(* mallocTime *)

\* Malloc(conversationID, size) and GetMaxSeq (size 0) are called.
Call(c, n) ==
  /\ pc[c] = "idle"
  /\ n > 0 => maxSeq < SeqBound
  /\ pc' = [pc EXCEPT ![c] = "malloc"]
  /\ size' = [size EXCEPT ![c] = n]
  /\ tries' = [tries EXCEPT ![c] = 0]
  /\ UNCHANGED <<redisVars, maxSeq, mine, from, upto, history>>

\* Mutant: off by one at the end of the window.
MallocHitOneMore(c) ==
  /\ pc[c] = "malloc"
  /\ Cached /\ lock = NoLock
  /\ size[c] = 0 \/ curr + size[c] <= last + 1
  /\ curr' = curr + size[c]
  /\ ttl' = "data"
  /\ Take(c, curr, curr + size[c])
  /\ pc' = [pc EXCEPT ![c] = "ret"]
  /\ UNCHANGED <<window, last, lock, maxSeq, size, tries, mine, history>>

\* The malloc script returns 0: the window serves the call.
MallocHit(c) ==
  /\ pc[c] = "malloc"
  /\ Cached /\ lock = NoLock
  /\ size[c] = 0 \/ curr + size[c] <= last
  /\ curr' = curr + size[c]
  /\ ttl' = "data"
  /\ Take(c, curr, curr + size[c])
  /\ pc' = [pc EXCEPT ![c] = "ret"]
  /\ UNCHANGED <<window, last, lock, maxSeq, size, tries, mine, history>>

\* Mutant: the script does not set the TTL of the hash it locks.
PutLockNoTTL(c) ==
  /\ \E v \in LockValue : lock' = v /\ mine' = [mine EXCEPT ![c] = v]
  /\ ttl' = ttl
  /\ locker' = c
  /\ pc' = [pc EXCEPT ![c] = "mongo"]

\* The lock both locking branches of the script put in the hash.
PutLock(c) ==
  /\ \E v \in LockValue : lock' = v /\ mine' = [mine EXCEPT ![c] = v]
  /\ ttl' = "lock"
  /\ locker' = c
  /\ pc' = [pc EXCEPT ![c] = "mongo"]

\* It returns 1: there is no hash, it is created with a lock only.
MallocMiss(c) ==
  /\ pc[c] = "malloc"
  /\ ~Exists
  /\ PutLock(c)
  /\ Take(c, 0, 0)
  /\ UNCHANGED <<window, curr, last, maxSeq, size, tries, granted, told, early, unheard>>

\* It returns 2: somebody holds the lock; wait and try again, or give up.
MallocLocked(c) ==
  /\ pc[c] = "malloc"
  /\ lock # NoLock
  /\ IF tries[c] + 1 < Retries
     THEN /\ tries' = [tries EXCEPT ![c] = @ + 1]
          /\ UNCHANGED <<pc, size, mine, from, upto>>
     ELSE Back(c)
  /\ UNCHANGED <<redisVars, maxSeq, history>>

\* Mutant: the rest of the window is taken and left in the hash as well.
MallocExceedsLeavesRest(c) ==
  /\ pc[c] = "malloc"
  /\ Cached /\ lock = NoLock
  /\ size[c] > 0
  /\ curr + size[c] > last
  /\ PutLock(c)
  /\ Take(c, curr, last)
  /\ UNCHANGED <<window, curr, last, maxSeq, size, tries, granted, told, early, unheard>>

\* It returns 3: the window is too small.  The caller takes what is left of
\* it, and locks.
MallocExceeds(c) ==
  /\ pc[c] = "malloc"
  /\ Cached /\ lock = NoLock
  /\ size[c] > 0
  /\ curr + size[c] > last
  /\ curr' = last
  /\ PutLock(c)
  /\ Take(c, curr, last)
  /\ UNCHANGED <<window, last, maxSeq, size, tries, granted, told, early, unheard>>

\* mgo.Malloc, $inc of max_seq.  A block that continues the caller's range
\* extends it; otherwise what was left of the window is dropped.
MongoMalloc(c) ==
  /\ pc[c] = "mongo"
  /\ maxSeq' = maxSeq + MallocSize(size[c])
  /\ Take(c, IF upto[c] = maxSeq THEN from[c] ELSE maxSeq,
             maxSeq + MallocSize(size[c]))
  /\ pc' = [pc EXCEPT ![c] = "set"]
  /\ tries' = [tries EXCEPT ![c] = 0]
  /\ UNCHANGED <<redisVars, size, mine, history>>

-----------------------------------------------------------------------------
(* setSeq and setSeqRetry *)

\* Mutant: the window installed still holds the caller's own part.
SetSeqWhole(c) ==
  IF ~Exists \/ lock = mine[c]
  THEN /\ window' = "present"
       /\ curr' = from[c]
       /\ last' = upto[c]
       /\ lock' = NoLock
       /\ ttl' = "data"
  ELSE UNCHANGED redisVars

\* The setSeq script: install the rest of the caller's range as the window
\* when the hash is gone (it returns 1) or holds the caller's lock (0);
\* change nothing otherwise (2).
SetSeq(c) ==
  IF ~Exists \/ lock = mine[c]
  THEN /\ window' = "present"
       /\ curr' = from[c] + size[c]
       /\ last' = upto[c]
       /\ lock' = NoLock
       /\ ttl' = "data"
  ELSE UNCHANGED redisVars

\* The caller leaves setSeqRetry with its own part of the range.
Keep(c) ==
  /\ pc' = [pc EXCEPT ![c] = "ret"]
  /\ Take(c, from[c], from[c] + size[c])

\* An attempt that Redis answers ends the retries.
SetSeqReply(c) ==
  /\ pc[c] = "set"
  /\ SetSeq(c)
  /\ Keep(c)
  /\ UNCHANGED <<maxSeq, size, tries, mine, history>>

\* An attempt that ends in an error, which may have run all the same.  It is
\* made again unless it was the last or the context has ended.
SetSeqError(c) ==
  /\ pc[c] = "set"
  /\ \/ UNCHANGED <<redisVars, unheard>>
     \/ SetSeq(c) /\ unheard' = TRUE
  /\ tries' = [tries EXCEPT ![c] = @ + 1]
  /\ \/ /\ tries[c] + 1 < Retries
        /\ UNCHANGED <<pc, from, upto>>
     \/ Keep(c)
  /\ UNCHANGED <<maxSeq, size, mine, granted, told, locker, early>>

\* Malloc returns the start of the caller's range.
Return(c) ==
  /\ pc[c] = "ret"
  /\ granted' = granted \cup Seqs(from[c], upto[c])
  /\ told' = Larger(told, upto[c])
  /\ Back(c)
  /\ UNCHANGED <<redisVars, maxSeq, locker, early, unheard>>

\* The caller gets nothing: its process dies, its context ends while it
\* waits, or Redis or Mongo answers an error (whether the call ran or not).
Abandon(c) ==
  /\ pc[c] # "idle"
  /\ Back(c)
  /\ UNCHANGED <<redisVars, maxSeq, history>>

\* batchGetMaxSeq reads CURR whether or not the hash is locked.  (A hash
\* without CURR makes it call GetMaxSeq: Call(c, 0).)
BatchGetMaxSeq(c) ==
  /\ pc[c] = "idle"
  /\ Cached
  /\ told' = Larger(told, curr)
  /\ UNCHANGED <<redisVars, maxSeq, callerVars, granted, locker, early, unheard>>

-----------------------------------------------------------------------------
(* Redis *)

\* The caller that locked the hash last is still between its two scripts.
HolderAlive == \E c \in Caller : c = locker /\ pc[c] \in {"mongo", "set"}

DropHash ==
  /\ early' = (early \/ HolderAlive)
  /\ window' = "absent" /\ curr' = 0 /\ last' = 0 /\ lock' = NoLock /\ ttl' = "none"
  /\ UNCHANGED <<maxSeq, callerVars, granted, told, locker, unheard>>

\* The lock's TTL runs out.
ExpireLock == ttl = "lock" /\ DropHash

\* The hash is evicted, lost in a restart, or its data TTL runs out.
LoseHash == ttl = "data" /\ DropHash

-----------------------------------------------------------------------------
\* What a caller does once called.
Step(c) ==
  \/ MallocHit(c) \/ MallocMiss(c) \/ MallocLocked(c) \/ MallocExceeds(c)
  \/ MongoMalloc(c)
  \/ SetSeqReply(c) \/ SetSeqError(c)
  \/ Return(c)

Next ==
  \/ \E c \in Caller :
       \/ \E n \in Size : Call(c, n)
       \/ Step(c)
       \/ Abandon(c)
       \/ BatchGetMaxSeq(c)
  \/ ExpireLock
  \/ LoseHash

Spec == Init /\ [][Next]_vars

\* The goroutines are scheduled and Redis honours the lock's TTL.
Fairness == (\A c \in Caller : WF_vars(Step(c))) /\ WF_vars(ExpireLock)

FairSpec == Spec /\ Fairness

-----------------------------------------------------------------------------
(* Properties *)

\* Type invariant.
TypeOK ==
  /\ window \in {"absent", "present"}
  /\ curr \in Nat /\ last \in Nat /\ maxSeq \in Nat /\ told \in Nat
  /\ lock \in LockValue \cup {NoLock}
  /\ ttl \in {"none", "lock", "data"}
  /\ pc \in [Caller -> {"idle", "malloc", "mongo", "set", "ret"}]
  /\ size \in [Caller -> Nat]
  /\ tries \in [Caller -> Nat]
  /\ mine \in [Caller -> LockValue \cup {NoLock}]
  /\ from \in [Caller -> Nat] /\ upto \in [Caller -> Nat]
  /\ granted \subseteq Nat
  /\ locker \in Caller \cup {NoCaller} /\ early \in BOOLEAN
  /\ unheard \in BOOLEAN

\* The window and the ranges callers hold lie inside what Mongo gave out.
WithinCounter ==
  /\ curr <= last /\ last <= maxSeq
  /\ ~Cached => last = 0
  /\ \A c \in Caller :
       /\ from[c] <= upto[c] /\ upto[c] <= maxSeq
       /\ pc[c] \in {"idle", "malloc"} => upto[c] = 0
       /\ pc[c] = "set" => from[c] + size[c] <= upto[c]
  /\ \A s \in granted : s <= maxSeq

\* The seqs only this caller can give out, and those left in the hash.
Held(c) == Seqs(from[c], upto[c])
Window == Seqs(curr, last)

\* Every seq has at most one owner: the window, one caller, or the callers
\* served earlier.  This is what makes the allocator safe when the lock
\* expires under a slow caller, when two lock values collide and when Redis
\* loses the hash: a range changes hands, it is never copied.  Only setSeqRetry
\* can break it, by repeating a setSeq that ran.
Disjoint ==
  /\ \A c \in Caller : Held(c) \cap Window = {} /\ Held(c) \cap granted = {}
  /\ \A c, d \in Caller : c # d => Held(c) \cap Held(d) = {}
  /\ Window \cap granted = {}

OneOwner == ~unheard => Disjoint

\* As long as Redis has kept the hash whenever a live caller held its lock, and
\* no setSeq that ran was repeated, the max seq read from an unlocked hash covers
\* every seq anybody was told of: a message that got its seq is never beyond the
\* reported end.
MaxSeqCovers == ~early /\ ~unheard /\ Cached /\ lock = NoLock => told <= curr

\* The lock never outlives its TTL: whatever becomes of its holder, the
\* conversation can allocate again.
LockReleased == (lock # NoLock) ~> (lock = NoLock)

=============================================================================
