------------------------ MODULE SeqConversationProofs ------------------------
(***************************************************************************)
(* TLAPS proofs about SeqConversation: until a setSeq runs whose reply is  *)
(* lost, no seq ever has two owners and the max seq that is cached covers  *)
(* all that were returned, whatever the sizes, the number of callers, the  *)
(* lock values and the moments at which Redis drops the hash.              *)
(***************************************************************************)
EXTENDS SeqConversation, TLAPS

(***************************************************************************)
(* Ranges.                                                                 *)
(***************************************************************************)

\* A range is empty when its ends are equal.
LEMMA EmptyRange == \A lo \in Int : Seqs(lo, lo) = {}
  BY DEF Seqs

\* A range inside another one has its seqs among the other's.
LEMMA SubRange ==
  ASSUME NEW lo \in Int, NEW hi \in Int, NEW a \in Int, NEW b \in Int,
         lo <= a, b <= hi
  PROVE  Seqs(a, b) \subseteq Seqs(lo, hi)
  BY DEF Seqs

\* The two parts of a range that is cut have no seq in common.
LEMMA CutRange ==
  ASSUME NEW a \in Int, NEW b \in Int, NEW lo \in Int, NEW hi \in Int, b <= lo
  PROVE  Seqs(a, b) \cap Seqs(lo, hi) = {}
  BY DEF Seqs

\* A range extended to the right gains only seqs beyond its old end.
LEMMA ExtendRange ==
  ASSUME NEW lo \in Int, NEW hi \in Int, NEW max \in Int
  PROVE  Seqs(lo, max) \subseteq Seqs(lo, hi) \cup Seqs(hi, max)
  BY DEF Seqs

\* The seqs of a range are naturals when it starts at one.
LEMMA RangeInNat ==
  ASSUME NEW lo \in Nat, NEW hi \in Nat
  PROVE  Seqs(lo, hi) \subseteq Nat
  BY DEF Seqs

-----------------------------------------------------------------------------
USE CallerAssumption, LockValueAssumption, SizeAssumption, BasicAssumption,
    RetriesAssumption
USE DEF CallerAssumption, LockValueAssumption, SizeAssumption, BasicAssumption,
        RetriesAssumption

LEMMA InitTypeOK == Init => TypeOK
<1> SUFFICES ASSUME Init PROVE TypeOK
  OBVIOUS
<1>1. early \in BOOLEAN /\ unheard \in BOOLEAN
  BY Zenon DEF Init
<1> QED
  BY <1>1 DEF Init, TypeOK

LEMMA MallocSizeNat == \A n \in Nat : MallocSize(n) \in Nat /\ n <= MallocSize(n)
  BY DEF MallocSize

\* Every step keeps the types.
LEMMA StepTypeOK == TypeOK /\ [Next]_vars => TypeOK'
<1> SUFFICES ASSUME TypeOK, [Next]_vars PROVE TypeOK'
  OBVIOUS
<1> USE DEF TypeOK, Take, Back, redisVars, callerVars, history, Cached, Exists
<1>1. ASSUME NEW c \in Caller, NEW n \in Size, Call(c, n) PROVE TypeOK'
  BY <1>1 DEF Call
<1>2. ASSUME NEW c \in Caller, MallocHit(c) PROVE TypeOK'
  BY <1>2 DEF MallocHit
<1>3. ASSUME NEW c \in Caller, MallocMiss(c) PROVE TypeOK'
  BY <1>3 DEF MallocMiss, PutLock
<1>4. ASSUME NEW c \in Caller, MallocLocked(c) PROVE TypeOK'
  BY <1>4 DEF MallocLocked
<1>5. ASSUME NEW c \in Caller, MallocExceeds(c) PROVE TypeOK'
  BY <1>5 DEF MallocExceeds, PutLock
<1>6. ASSUME NEW c \in Caller, MongoMalloc(c) PROVE TypeOK'
  <2>1. MallocSize(size[c]) \in Nat
    BY MallocSizeNat
  <2> QED
    BY <1>6, <2>1 DEF MongoMalloc
<1>7. ASSUME NEW c \in Caller, SetSeqReply(c) PROVE TypeOK'
  BY <1>7 DEF SetSeqReply, SetSeq, Keep
<1>8. ASSUME NEW c \in Caller, SetSeqError(c) PROVE TypeOK'
  <2>1. unheard' \in BOOLEAN
    BY <1>8, Zenon DEF SetSeqError
  <2> QED
    BY <1>8, <2>1 DEF SetSeqError, SetSeq, Keep
<1>9. ASSUME NEW c \in Caller, Return(c) PROVE TypeOK'
  <2>1. Seqs(from[c], upto[c]) \subseteq Nat
    BY RangeInNat
  <2> QED
    BY <1>9, <2>1 DEF Return, Larger
<1>10. ASSUME NEW c \in Caller, Abandon(c) PROVE TypeOK'
  BY <1>10 DEF Abandon
<1>11. ASSUME NEW c \in Caller, BatchGetMaxSeq(c) PROVE TypeOK'
  BY <1>11 DEF BatchGetMaxSeq, Larger
<1>12. CASE ExpireLock \/ LoseHash
  <2>1. /\ window' = "absent" /\ curr' = 0 /\ last' = 0
        /\ lock' = NoLock /\ ttl' = "none"
        /\ UNCHANGED <<maxSeq, callerVars, granted, told, locker, unheard>>
    BY <1>12, Zenon DEF ExpireLock, LoseHash, DropHash
  <2>2. early' \in BOOLEAN
    BY <1>12, Zenon DEF ExpireLock, LoseHash, DropHash, HolderAlive
  <2> QED
    BY <2>1, <2>2
<1>13. CASE UNCHANGED vars
  BY <1>13 DEF vars
<1> QED
  BY <1>1, <1>2, <1>3, <1>4, <1>5, <1>6, <1>7, <1>8, <1>9, <1>10, <1>11,
     <1>12, <1>13 DEF Next, Step

\* TypeOK is an invariant of the allocator.
THEOREM TypeCorrect == Spec => []TypeOK
  BY InitTypeOK, StepTypeOK, PTL DEF Spec

-----------------------------------------------------------------------------
(***************************************************************************)
(* The inductive invariant.                                                *)
(***************************************************************************)
SeqInv == TypeOK /\ WithinCounter /\ OneOwner

LEMMA InitSeqInv == Init => SeqInv
<1> SUFFICES ASSUME Init PROVE WithinCounter /\ OneOwner
  BY InitTypeOK DEF SeqInv
<1>1. Seqs(0, 0) = {}
  BY EmptyRange
<1>2. WithinCounter
  BY DEF Init, WithinCounter
<1>3. OneOwner
  BY <1>1 DEF Init, OneOwner, Disjoint, Held, Window
<1> QED
  BY <1>2, <1>3

\* Seqs beyond max_seq belong to nobody.
LEMMA FreshSeqs ==
  ASSUME TypeOK, WithinCounter, NEW hi \in Int
  PROVE  /\ \A c \in Caller : Seqs(maxSeq, hi) \cap Held(c) = {}
         /\ Seqs(maxSeq, hi) \cap Window = {}
         /\ Seqs(maxSeq, hi) \cap granted = {}
<1> USE DEF TypeOK, WithinCounter, Held, Window
<1>1. \A c \in Caller : Seqs(maxSeq, hi) \cap Held(c) = {}
  BY DEF Seqs
<1>2. Seqs(maxSeq, hi) \cap Window = {}
  BY DEF Seqs
<1>3. Seqs(maxSeq, hi) \cap granted = {}
  BY DEF Seqs
<1> QED
  BY <1>1, <1>2, <1>3

\* A step in which one caller, the window and the fresh end of the counter
\* exchange seqs, and copy none, leaves every seq one owner.
LEMMA Exchange ==
  ASSUME TypeOK, WithinCounter, Disjoint,
         NEW c \in Caller, NEW hi \in Int,
         Held(c)' \subseteq Held(c) \cup Window \cup Seqs(maxSeq, hi),
         Window' \subseteq Held(c) \cup Window \cup Seqs(maxSeq, hi),
         Held(c)' \cap Window' = {},
         \A d \in Caller : d # c => Held(d)' = Held(d),
         granted' = granted
  PROVE  Disjoint'
<1> DEFINE Pool == Held(c) \cup Window \cup Seqs(maxSeq, hi)
<1>1. Pool \cap granted = {}
  BY FreshSeqs DEF Disjoint
<1>2. \A d \in Caller : d # c => Pool \cap Held(d) = {}
  BY FreshSeqs DEF Disjoint
<1>3. Held(c)' \subseteq Pool /\ Window' \subseteq Pool
  OBVIOUS
<1> HIDE DEF Pool
<1>4. \A e \in Caller : Held(e)' \cap Window' = {} /\ Held(e)' \cap granted' = {}
  BY <1>1, <1>2, <1>3 DEF Disjoint
<1>5. \A e, d \in Caller : e # d => Held(e)' \cap Held(d)' = {}
  BY <1>1, <1>2, <1>3 DEF Disjoint
<1>6. Window' \cap granted' = {}
  BY <1>1, <1>3
<1> QED
  BY <1>4, <1>5, <1>6 DEF Disjoint

\* Every step keeps the ranges in order and inside the counter.
LEMMA StepWithinCounter ==
  ASSUME SeqInv, [Next]_vars
  PROVE  WithinCounter'
<1> USE DEF SeqInv, TypeOK, WithinCounter, Take, Back, redisVars, callerVars,
            history, Cached, Exists
<1>1. ASSUME NEW c \in Caller, NEW n \in Size, Call(c, n) PROVE WithinCounter'
  BY <1>1 DEF Call
<1>2. ASSUME NEW c \in Caller, MallocHit(c) PROVE WithinCounter'
  BY <1>2 DEF MallocHit
<1>3. ASSUME NEW c \in Caller, MallocMiss(c) PROVE WithinCounter'
  BY <1>3 DEF MallocMiss, PutLock
<1>4. ASSUME NEW c \in Caller, MallocLocked(c) PROVE WithinCounter'
  BY <1>4 DEF MallocLocked
<1>5. ASSUME NEW c \in Caller, MallocExceeds(c) PROVE WithinCounter'
  BY <1>5 DEF MallocExceeds, PutLock
<1>6. ASSUME NEW c \in Caller, MongoMalloc(c) PROVE WithinCounter'
  <2>1. MallocSize(size[c]) \in Nat /\ size[c] <= MallocSize(size[c])
    BY MallocSizeNat
  <2> QED
    BY <1>6, <2>1 DEF MongoMalloc
<1>7. ASSUME NEW c \in Caller, SetSeqReply(c) PROVE WithinCounter'
  BY <1>7 DEF SetSeqReply, SetSeq, Keep
<1>8. ASSUME NEW c \in Caller, SetSeqError(c) PROVE WithinCounter'
  BY <1>8 DEF SetSeqError, SetSeq, Keep
<1>9. ASSUME NEW c \in Caller, Return(c) PROVE WithinCounter'
  <2>1. \A s \in Seqs(from[c], upto[c]) : s <= maxSeq
    BY DEF Seqs
  <2> QED
    BY <1>9, <2>1 DEF Return
<1>10. ASSUME NEW c \in Caller, Abandon(c) PROVE WithinCounter'
  BY <1>10 DEF Abandon
<1>11. ASSUME NEW c \in Caller, BatchGetMaxSeq(c) PROVE WithinCounter'
  BY <1>11 DEF BatchGetMaxSeq
<1>12. CASE ExpireLock \/ LoseHash
  <2>1. /\ window' = "absent" /\ curr' = 0 /\ last' = 0
        /\ UNCHANGED <<maxSeq, callerVars, granted>>
    BY <1>12, Zenon DEF ExpireLock, LoseHash, DropHash
  <2> QED
    BY <2>1
<1>13. CASE UNCHANGED vars
  BY <1>13 DEF vars
<1> QED
  BY <1>1, <1>2, <1>3, <1>4, <1>5, <1>6, <1>7, <1>8, <1>9, <1>10, <1>11,
     <1>12, <1>13 DEF Next, Step

\* A step that does not lose the reply of a setSeq leaves every seq one owner.
LEMMA StepDisjoint ==
  ASSUME SeqInv, [Next]_vars, Disjoint, ~unheard'
  PROVE  Disjoint'
<1> USE DEF SeqInv, history
<1>0. \A lo \in Int : Seqs(lo, lo) = {}
  BY EmptyRange
<1>k. \A c \in Caller : /\ from[c] \in Nat /\ upto[c] \in Nat /\ size[c] \in Nat
                       /\ curr \in Nat /\ last \in Nat /\ maxSeq \in Nat
  BY DEF TypeOK
<1>s. ASSUME UNCHANGED <<from, upto, curr, last, granted>> PROVE Disjoint'
  BY <1>s DEF Disjoint, Held, Window
<1>1. ASSUME NEW c \in Caller, NEW n \in Size, Call(c, n) PROVE Disjoint'
  BY <1>1, <1>s DEF Call, redisVars
\* A caller that takes no seqs, or lets go of the ones it holds.
<1>e. ASSUME NEW c \in Caller, Take(c, 0, 0), UNCHANGED <<curr, last, granted>>
      PROVE  Disjoint'
  <2>1. Held(c)' = {}
    BY <1>e, <1>0 DEF Take, Held, TypeOK
  <2>2. \A d \in Caller : d # c => Held(d)' = Held(d)
    BY <1>e DEF Take, Held, TypeOK
  <2>3. Window' = Window /\ granted' = granted
    BY <1>e DEF Window
  <2> QED
    BY <1>k, <2>1, <2>2, <2>3, Exchange DEF Disjoint
<1>2. ASSUME NEW c \in Caller, MallocHit(c) PROVE Disjoint'
  <2>1. Held(c)' = Seqs(curr, curr + size[c])
    BY <1>2 DEF MallocHit, Take, Held, TypeOK
  <2>2. Window' = Seqs(curr + size[c], last)
    BY <1>2 DEF MallocHit, Window
  <2>3. Held(c)' \subseteq Window /\ Window' \subseteq Window
    <3>1. curr <= curr + size[c] /\ curr + size[c] <= last
      BY <1>2, <1>k DEF MallocHit, WithinCounter
    <3>2. Seqs(curr, curr + size[c]) \subseteq Seqs(curr, last)
      BY <1>k, <3>1, SubRange
    <3>3. Seqs(curr + size[c], last) \subseteq Seqs(curr, last)
      BY <1>k, <3>1, SubRange
    <3> QED
      BY <2>1, <2>2, <3>2, <3>3, Zenon DEF Window
  <2>4. Held(c)' \cap Window' = {}
    <3>1. curr \in Int /\ last \in Int /\ curr + size[c] \in Int
      BY <1>k
    <3>2. Seqs(curr, curr + size[c]) \cap Seqs(curr + size[c], last) = {}
      BY <3>1, CutRange
    <3> QED
      BY <2>1, <2>2, <3>2
  <2>5. \A d \in Caller : d # c => Held(d)' = Held(d)
    BY <1>2 DEF MallocHit, Take, Held, TypeOK
  <2>6. granted' = granted
    BY <1>2 DEF MallocHit
  <2> QED
    BY <1>k, <2>3, <2>4, <2>5, <2>6, Exchange
<1>3. ASSUME NEW c \in Caller, MallocMiss(c) PROVE Disjoint'
  BY <1>3, <1>e DEF MallocMiss
<1>4. ASSUME NEW c \in Caller, MallocLocked(c) PROVE Disjoint'
  BY <1>4, <1>e, <1>s DEF MallocLocked, Back, redisVars
<1>5. ASSUME NEW c \in Caller, MallocExceeds(c) PROVE Disjoint'
  <2>1. Held(c)' = Window
    BY <1>5 DEF MallocExceeds, Take, Held, Window, TypeOK
  <2>2. Window' = {}
    BY <1>5, <1>0, <1>k DEF MallocExceeds, Window
  <2>3. \A d \in Caller : d # c => Held(d)' = Held(d)
    BY <1>5 DEF MallocExceeds, Take, Held, TypeOK
  <2>4. granted' = granted
    BY <1>5 DEF MallocExceeds
  <2> QED
    BY <1>k, <2>1, <2>2, <2>3, <2>4, Exchange
<1>6. ASSUME NEW c \in Caller, MongoMalloc(c) PROVE Disjoint'
  <2> DEFINE new == maxSeq + MallocSize(size[c])
  <2>1. new \in Nat
    BY <1>k, MallocSizeNat
  <2>2. Held(c)' = Seqs(IF upto[c] = maxSeq THEN from[c] ELSE maxSeq, new)
    BY <1>6 DEF MongoMalloc, Take, Held, TypeOK
  <2> HIDE DEF new
  <2>3. Held(c)' \subseteq Held(c) \cup Seqs(maxSeq, new)
    <3>1. CASE upto[c] = maxSeq
      BY <1>k, <2>1, <2>2, <3>1, ExtendRange DEF Held
    <3>2. CASE upto[c] # maxSeq
      BY <2>2, <3>2
    <3> QED
      BY <3>1, <3>2
  <2>4. Window' = Window /\ granted' = granted
    BY <1>6 DEF MongoMalloc, Window, redisVars
  <2>5. Held(c)' \cap Window' = {}
    BY <2>1, <2>3, <2>4, FreshSeqs DEF Disjoint
  <2>6. \A d \in Caller : d # c => Held(d)' = Held(d)
    BY <1>6 DEF MongoMalloc, Take, Held, TypeOK
  <2> QED
    BY <2>1, <2>3, <2>4, <2>5, <2>6, Exchange
\* A caller that leaves setSeqRetry without having installed its window.
<1>d. ASSUME NEW c \in Caller, pc[c] = "set", Keep(c),
             UNCHANGED <<curr, last, granted>>
      PROVE  Disjoint'
  <2>1. Held(c)' = Seqs(from[c], from[c] + size[c])
    BY <1>d DEF Keep, Take, Held, TypeOK
  <2>2. Held(c)' \subseteq Held(c)
    BY <1>d, <1>k, <2>1, SubRange DEF Held, WithinCounter
  <2>3. Window' = Window
    BY <1>d DEF Window
  <2>4. \A d \in Caller : d # c => Held(d)' = Held(d)
    BY <1>d DEF Keep, Take, Held, TypeOK
  <2>5. Held(c)' \cap Window' = {}
    BY <2>2, <2>3 DEF Disjoint
  <2> QED
    BY <1>d, <1>k, <2>2, <2>3, <2>4, <2>5, Exchange
<1>7. ASSUME NEW c \in Caller, SetSeqReply(c) PROVE Disjoint'
  <2>0. pc[c] = "set" /\ Keep(c) /\ SetSeq(c) /\ granted' = granted
    BY <1>7 DEF SetSeqReply
  <2>1. CASE ~Exists \/ lock = mine[c]
    <3>1. Held(c)' = Seqs(from[c], from[c] + size[c])
      BY <2>0 DEF Keep, Take, Held, TypeOK
    <3>2. Window' = Seqs(from[c] + size[c], upto[c])
      BY <2>0, <2>1 DEF SetSeq, Window
    <3>3. Held(c)' \subseteq Held(c) /\ Window' \subseteq Held(c)
      BY <1>k, <2>0, <3>1, <3>2, SubRange DEF Held, WithinCounter
    <3>4. Held(c)' \cap Window' = {}
      <4>1. from[c] \in Int /\ upto[c] \in Int /\ from[c] + size[c] \in Int
        BY <1>k
      <4>2. Seqs(from[c], from[c] + size[c]) \cap Seqs(from[c] + size[c], upto[c]) = {}
        BY <4>1, CutRange
      <4> QED
        BY <3>1, <3>2, <4>2, Zenon
    <3>5. \A d \in Caller : d # c => Held(d)' = Held(d)
      BY <2>0 DEF Keep, Take, Held, TypeOK
    <3> QED
      BY <1>k, <2>0, <3>3, <3>4, <3>5, Exchange
  <2>2. CASE ~(~Exists \/ lock = mine[c])
    <3>1. UNCHANGED <<curr, last>>
      BY <2>0, <2>2 DEF SetSeq, redisVars
    <3> QED
      BY <1>d, <2>0, <3>1
  <2> QED
    BY <2>1, <2>2
<1>8. ASSUME NEW c \in Caller, SetSeqError(c) PROVE Disjoint'
  <2>1. pc[c] = "set" /\ UNCHANGED <<curr, last, granted>>
    BY <1>8 DEF SetSeqError, redisVars
  <2>2. UNCHANGED <<from, upto>> \/ Keep(c)
    BY <1>8 DEF SetSeqError
  <2> QED
    BY <1>d, <1>s, <2>1, <2>2
<1>9. ASSUME NEW c \in Caller, Return(c) PROVE Disjoint'
  <2>1. Held(c)' = {}
    BY <1>9, <1>0 DEF Return, Back, Take, Held, TypeOK
  <2>2. \A d \in Caller : d # c => Held(d)' = Held(d)
    BY <1>9 DEF Return, Back, Take, Held, TypeOK
  <2>3. Window' = Window /\ granted' = granted \cup Held(c)
    BY <1>9 DEF Return, redisVars, Window, Held
  <2> QED
    BY <2>1, <2>2, <2>3 DEF Disjoint
<1>10. ASSUME NEW c \in Caller, Abandon(c) PROVE Disjoint'
  BY <1>10, <1>e DEF Abandon, Back, redisVars
<1>11. ASSUME NEW c \in Caller, BatchGetMaxSeq(c) PROVE Disjoint'
  BY <1>11, <1>s DEF BatchGetMaxSeq, redisVars, callerVars
<1>12. CASE ExpireLock \/ LoseHash
  <2>1. curr' = 0 /\ last' = 0 /\ UNCHANGED <<from, upto, granted>>
    BY <1>12, Zenon DEF ExpireLock, LoseHash, DropHash, callerVars
  <2>2. Window' = {} /\ granted' = granted
    BY <1>0, <2>1 DEF Window
  <2>3. \A d \in Caller : Held(d)' = Held(d)
    BY <2>1 DEF Held
  <2> QED
    BY <2>2, <2>3 DEF Disjoint
<1>13. CASE UNCHANGED vars
  BY <1>13, <1>s DEF vars, redisVars, callerVars
<1> QED
  BY <1>1, <1>2, <1>3, <1>4, <1>5, <1>6, <1>7, <1>8, <1>9, <1>10, <1>11,
     <1>12, <1>13 DEF Next, Step

-----------------------------------------------------------------------------
(***************************************************************************)
(* The theorems.                                                           *)
(***************************************************************************)

\* Every seq always has at most one owner, and lies inside what Mongo gave
\* out, until a setSeq runs without its reply reaching the caller.
THEOREM UniqueOwner == Spec => [](TypeOK /\ WithinCounter /\ OneOwner)
<1>1. SeqInv /\ [Next]_vars => SeqInv'
  <2> SUFFICES ASSUME SeqInv, [Next]_vars, ~unheard' PROVE Disjoint'
    BY StepTypeOK, StepWithinCounter DEF SeqInv, OneOwner
  <2>1. ~unheard
    BY DEF Next, Step, vars, history, Call, MallocHit, MallocMiss, MallocLocked,
           MallocExceeds, MongoMalloc, SetSeqReply, SetSeqError, Return, Abandon,
           BatchGetMaxSeq, ExpireLock, LoseHash, DropHash
  <2> QED
    BY <2>1, StepDisjoint DEF SeqInv, OneOwner
<1>2. SeqInv => TypeOK /\ WithinCounter /\ OneOwner
  BY DEF SeqInv
<1> QED
  BY InitSeqInv, <1>1, <1>2, PTL DEF Spec

\* The window and every range that a caller holds always lie inside what Mongo
\* gave out, also after a lost reply of setSeq (WithinCounter).
THEOREM RangesWithin == Spec => []WithinCounter
  BY UniqueOwner, PTL

-----------------------------------------------------------------------------
(***************************************************************************)
(* The reported end.                                                       *)
(***************************************************************************)

\* No seq that a caller was told of, or will be, is beyond n.
Covers(n) == told <= n /\ \A d \in Caller : pc[d] = "ret" => upto[d] <= n

\* As long as no live holder has lost its lock and no reply was lost, one caller
\* at a time allocates; what it is going to install covers what others were told.
CoverInv ==
  /\ told <= maxSeq
  /\ ~early /\ ~unheard =>
       /\ \A c \in Caller : pc[c] \in {"mongo", "set"} =>
            locker = c /\ lock = mine[c] /\ lock # NoLock
       /\ Cached /\ lock = NoLock => Covers(curr)
       /\ \A c \in Caller :
            pc[c] = "set" \/ (pc[c] = "mongo" /\ upto[c] = maxSeq) =>
              Covers(from[c] + size[c]) /\ curr <= from[c] + size[c]

\* No seq anybody was told of is beyond max_seq.
LEMMA ToldWithin ==
  ASSUME TypeOK, WithinCounter, told <= maxSeq, [Next]_vars
  PROVE  told' <= maxSeq'
<1> USE DEF TypeOK, redisVars, callerVars, history
<1>1. ASSUME NEW c \in Caller, MongoMalloc(c) PROVE told' <= maxSeq'
  BY <1>1, MallocSizeNat DEF MongoMalloc
<1>2. ASSUME NEW c \in Caller, Return(c) PROVE told' <= maxSeq'
  BY <1>2 DEF Return, Larger, WithinCounter
<1>3. ASSUME NEW c \in Caller, BatchGetMaxSeq(c) PROVE told' <= maxSeq'
  BY <1>3 DEF BatchGetMaxSeq, Larger, WithinCounter
<1>4. CASE UNCHANGED <<told, maxSeq>>
  BY <1>4
<1>5. ASSUME NEW c \in Caller,
             \/ \E n \in Size : Call(c, n)
             \/ MallocHit(c) \/ MallocMiss(c) \/ MallocLocked(c) \/ MallocExceeds(c)
             \/ SetSeqReply(c) \/ SetSeqError(c) \/ Abandon(c)
      PROVE  UNCHANGED <<told, maxSeq>>
  BY <1>5 DEF Call, MallocHit, MallocMiss, MallocLocked, MallocExceeds, SetSeqReply, SetSeqError,
              Abandon
<1>6. ASSUME ExpireLock \/ LoseHash \/ UNCHANGED vars PROVE UNCHANGED <<told, maxSeq>>
  BY <1>6 DEF ExpireLock, LoseHash, DropHash, vars
<1> QED
  BY <1>1, <1>2, <1>3, <1>4, <1>5, <1>6 DEF Next, Step

\* Every step keeps the reported end ahead.
LEMMA StepCovers ==
  ASSUME TypeOK, TypeOK', WithinCounter, WithinCounter', CoverInv, [Next]_vars
  PROVE  CoverInv'
<1> USE DEF redisVars, callerVars, history, Cached, Exists
<1>1. told' <= maxSeq'
  BY ToldWithin DEF CoverInv
<1> SUFFICES ASSUME ~early', ~unheard'
             PROVE  /\ \A c \in Caller : pc'[c] \in {"mongo", "set"} =>
                         locker' = c /\ lock' = mine'[c] /\ lock' # NoLock
                    /\ Cached' /\ lock' = NoLock => Covers(curr)'
                    /\ \A c \in Caller :
                         pc'[c] = "set" \/ (pc'[c] = "mongo" /\ upto'[c] = maxSeq') =>
                           Covers(from[c] + size[c])' /\ curr' <= from'[c] + size'[c]
  BY <1>1 DEF CoverInv
<1>2. ~early /\ ~unheard
  BY DEF TypeOK, Next, Step, vars, Call, MallocHit, MallocMiss, MallocLocked, MallocExceeds, MongoMalloc,
         SetSeqReply, SetSeqError, Return, Abandon, BatchGetMaxSeq, ExpireLock, LoseHash, DropHash
<1>k. /\ curr \in Nat /\ last \in Nat /\ maxSeq \in Nat /\ told \in Nat
      /\ \A c \in Caller : from[c] \in Nat /\ upto[c] \in Nat /\ size[c] \in Nat
      /\ pc \in [Caller -> {"idle", "malloc", "mongo", "set", "ret"}]
      /\ size \in [Caller -> Nat] /\ from \in [Caller -> Nat] /\ upto \in [Caller -> Nat]
      /\ mine \in [Caller -> LockValue \cup {NoLock}]
  BY DEF TypeOK
<1> DEFINE Alloc(c) == pc[c] \in {"mongo", "set"}
           Ahead(c) == pc[c] = "set" \/ (pc[c] = "mongo" /\ upto[c] = maxSeq)
<1>3. /\ \A c \in Caller : Alloc(c) => locker = c /\ lock = mine[c] /\ lock # NoLock
      /\ Cached /\ lock = NoLock => Covers(curr)
      /\ \A c \in Caller : Ahead(c) => Covers(from[c] + size[c]) /\ curr <= from[c] + size[c]
  BY <1>2 DEF CoverInv
<1> DEFINE Goal ==
      /\ \A c \in Caller : pc'[c] \in {"mongo", "set"} =>
           locker' = c /\ lock' = mine'[c] /\ lock' # NoLock
      /\ Cached' /\ lock' = NoLock => Covers(curr)'
      /\ \A c \in Caller :
           pc'[c] = "set" \/ (pc'[c] = "mongo" /\ upto'[c] = maxSeq') =>
             Covers(from[c] + size[c])' /\ curr' <= from'[c] + size'[c]
\* Steps after which nobody has come to hold seqs and the others stay where they are.
<1>4. ASSUME NEW c \in Caller, UNCHANGED <<redisVars, maxSeq, told, locker>>,
             \A d \in Caller \ {c} : /\ pc'[d] = pc[d] /\ size'[d] = size[d] /\ mine'[d] = mine[d]
                                     /\ from'[d] = from[d] /\ upto'[d] = upto[d],
             pc'[c] \notin {"mongo", "set", "ret"}
      PROVE  Goal
  <2>1. \A n : Covers(n) => told' <= n /\ \A d \in Caller : pc'[d] = "ret" => upto'[d] <= n
    BY <1>4 DEF Covers
  <2>2. Covers(curr) => Covers(curr)'
    BY <1>4, <2>1 DEF Covers
  <2>3. \A d \in Caller \ {c} : Covers(from[d] + size[d]) => Covers(from[d] + size[d])'
    BY <1>4, <2>1 DEF Covers
  <2> QED
    BY <1>3, <1>4, <2>2, <2>3
<1>5. ASSUME NEW c \in Caller, NEW n \in Size, Call(c, n) PROVE Goal
  BY <1>k, <1>4, <1>5 DEF Call
<1>6. ASSUME NEW c \in Caller, MallocLocked(c) PROVE Goal
  BY <1>k, <1>4, <1>6 DEF MallocLocked, Back, Take
<1>7. ASSUME NEW c \in Caller, Abandon(c) PROVE Goal
  BY <1>k, <1>4, <1>7 DEF Abandon, Back, Take
\* While the hash is not locked nobody allocates.
<1>8. lock = NoLock => \A c \in Caller : ~Alloc(c)
  BY <1>3
<1>9. ASSUME NEW c \in Caller, MallocHit(c) PROVE Goal
  <2>1. /\ pc' = [pc EXCEPT ![c] = "ret"] /\ lock = NoLock /\ Cached
        /\ UNCHANGED <<lock, window, told, size>>
        /\ curr' = curr + size[c] /\ upto' = [upto EXCEPT ![c] = curr + size[c]]
    BY <1>9 DEF MallocHit, Take
  <2>2. \A d \in Caller : pc'[d] \notin {"mongo", "set"}
    BY <1>k, <1>8, <2>1
  <2>3. Covers(curr)'
    BY <1>k, <1>3, <2>1 DEF Covers
  <2> QED
    BY <2>2, <2>3
<1>10. ASSUME NEW c \in Caller, MallocMiss(c) PROVE Goal
  <2>1. /\ pc' = [pc EXCEPT ![c] = "mongo"] /\ lock = NoLock /\ ~Cached /\ ~Cached'
        /\ UNCHANGED <<told, size, maxSeq, curr>> /\ locker' = c
        /\ upto' = [upto EXCEPT ![c] = 0] /\ from' = [from EXCEPT ![c] = 0]
    BY <1>10 DEF MallocMiss, Take, PutLock
  <2>2. PICK v \in LockValue : lock' = v /\ mine' = [mine EXCEPT ![c] = v]
    BY <1>10 DEF MallocMiss, PutLock
  <2>3. \A d \in Caller \ {c} : pc'[d] \notin {"mongo", "set"}
    BY <1>k, <1>8, <2>1
  <2>4. pc'[c] = "mongo" /\ upto'[c] = 0 /\ from'[c] = 0 /\ lock' = mine'[c] /\ lock' # NoLock
    BY <1>k, <2>1, <2>2
  <2>5. ASSUME maxSeq = 0 PROVE Covers(from[c] + size[c])' /\ curr' <= from'[c] + size'[c]
    <3>1. told = 0 /\ curr = 0 /\ \A d \in Caller : upto'[d] = 0
      BY <1>k, <2>1, <2>5 DEF CoverInv, WithinCounter
    <3> QED
      BY <1>k, <2>1, <2>4, <3>1 DEF Covers
  <2> QED
    BY <2>1, <2>3, <2>4, <2>5
<1>11. ASSUME NEW c \in Caller, MallocExceeds(c) PROVE Goal
  <2>1. /\ pc' = [pc EXCEPT ![c] = "mongo"] /\ lock = NoLock /\ Cached
        /\ UNCHANGED <<told, size, maxSeq>> /\ curr' = last /\ locker' = c
        /\ upto' = [upto EXCEPT ![c] = last] /\ from' = [from EXCEPT ![c] = curr]
        /\ curr + size[c] > last
    BY <1>11 DEF MallocExceeds, Take, PutLock
  <2>2. PICK v \in LockValue : lock' = v /\ mine' = [mine EXCEPT ![c] = v]
    BY <1>11 DEF MallocExceeds, PutLock
  <2>3. \A d \in Caller \ {c} : pc'[d] \notin {"mongo", "set"}
    BY <1>k, <1>8, <2>1
  <2>4. pc'[c] = "mongo" /\ from'[c] = curr /\ lock' = mine'[c] /\ lock' # NoLock
    BY <1>k, <2>1, <2>2
  <2>5. Covers(from[c] + size[c])' /\ curr' <= from'[c] + size'[c]
    <3>1. Covers(curr)
      BY <1>3, <2>1
    <3>2. told' <= curr + size[c] /\ \A d \in Caller : pc'[d] = "ret" => upto'[d] <= curr + size[c]
      BY <1>k, <2>1, <3>1 DEF Covers
    <3> QED
      BY <1>k, <2>1, <2>4, <3>2 DEF Covers
  <2> QED
    BY <2>1, <2>3, <2>4, <2>5
<1>12. ASSUME NEW c \in Caller, MongoMalloc(c) PROVE Goal
  <2>1. /\ pc[c] = "mongo" /\ pc' = [pc EXCEPT ![c] = "set"]
        /\ maxSeq' = maxSeq + MallocSize(size[c])
        /\ UNCHANGED <<redisVars, size, mine, told, locker>>
        /\ upto' = [upto EXCEPT ![c] = maxSeq + MallocSize(size[c])]
        /\ from' = [from EXCEPT ![c] = IF upto[c] = maxSeq THEN from[c] ELSE maxSeq]
    BY <1>12 DEF MongoMalloc, Take
  <2>2. locker = c /\ lock = mine[c] /\ lock # NoLock
    BY <1>3, <2>1
  <2>3. \A d \in Caller \ {c} : pc'[d] = pc[d] /\ ~Alloc(d)
    BY <1>k, <1>3, <2>1, <2>2
  <2>4. Covers(from[c] + size[c])' /\ curr' <= from'[c] + size'[c]
    <3>1. \A d \in Caller : pc'[d] = "ret" => pc[d] = "ret" /\ upto'[d] = upto[d]
      BY <1>k, <2>1
    <3>2. CASE upto[c] = maxSeq
      <4>1. from'[c] + size'[c] = from[c] + size[c]
        BY <1>k, <2>1, <3>2
      <4> QED
        BY <1>3, <2>1, <3>1, <3>2, <4>1 DEF Covers
    <3>3. CASE upto[c] # maxSeq
      <4>1. from'[c] = maxSeq /\ size'[c] = size[c]
        BY <1>k, <2>1, <3>3
      <4>2. told <= maxSeq /\ curr <= maxSeq /\ \A d \in Caller : upto[d] <= maxSeq
        BY <1>k DEF CoverInv, WithinCounter
      <4> QED
        BY <1>k, <2>1, <3>1, <4>1, <4>2 DEF Covers
    <3> QED
      BY <3>2, <3>3
  <2> QED
    BY <1>k, <2>1, <2>2, <2>3, <2>4
<1>13. ASSUME NEW c \in Caller, SetSeqReply(c) PROVE Goal
  <2>1. /\ pc[c] = "set" /\ pc' = [pc EXCEPT ![c] = "ret"] /\ UNCHANGED <<told, size>>
        /\ upto' = [upto EXCEPT ![c] = from[c] + size[c]]
    BY <1>13 DEF SetSeqReply, Keep, Take
  <2>2. locker = c /\ lock = mine[c]
    BY <1>3, <2>1
  <2>3. curr' = from[c] + size[c] /\ lock' = NoLock
    BY <1>13, <2>2 DEF SetSeqReply, SetSeq
  <2>4. \A d \in Caller : pc'[d] \notin {"mongo", "set"}
    BY <1>k, <1>3, <2>1, <2>2
  <2>5. Covers(curr)'
    BY <1>k, <1>3, <2>1, <2>3 DEF Covers
  <2> QED
    BY <2>4, <2>5
<1>14. ASSUME NEW c \in Caller, SetSeqError(c) PROVE Goal
  <2>1. /\ pc[c] = "set" /\ UNCHANGED <<redisVars, maxSeq, size, mine, told, locker>>
        /\ UNCHANGED <<pc, from, upto>> \/ Keep(c)
    BY <1>14 DEF SetSeqError
  <2>2. locker = c /\ lock = mine[c] /\ lock # NoLock
    BY <1>3, <2>1
  <2>3. CASE UNCHANGED <<pc, from, upto>>
    BY <1>3, <2>1, <2>3 DEF Covers
  <2>4. CASE Keep(c)
    <3>1. pc' = [pc EXCEPT ![c] = "ret"]
      BY <2>4 DEF Keep
    <3>2. \A d \in Caller : pc'[d] \notin {"mongo", "set"}
      BY <1>k, <1>3, <2>2, <3>1
    <3> QED
      BY <2>1, <2>2, <3>2
  <2> QED
    BY <2>1, <2>3, <2>4
<1>15. ASSUME NEW c \in Caller, Return(c) PROVE Goal
  <2>1. /\ pc[c] = "ret" /\ pc' = [pc EXCEPT ![c] = "idle"] /\ told' = Larger(told, upto[c])
        /\ UNCHANGED <<redisVars, maxSeq, locker>>
        /\ \A d \in Caller \ {c} : /\ size'[d] = size[d] /\ mine'[d] = mine[d]
                                   /\ from'[d] = from[d] /\ upto'[d] = upto[d]
    BY <1>k, <1>15 DEF Return, Back, Take
  <2>2. pc'[c] = "idle" /\ \A d \in Caller \ {c} : pc'[d] = pc[d]
    BY <1>k, <2>1
  <2>3. \A n : Covers(n) => told' <= n /\ \A d \in Caller : pc'[d] = "ret" => upto'[d] <= n
    BY <2>1, <2>2 DEF Covers, Larger
  <2>4. Covers(curr) => Covers(curr)'
    BY <2>1, <2>3 DEF Covers
  <2>5. \A d \in Caller \ {c} : Covers(from[d] + size[d]) => Covers(from[d] + size[d])'
    BY <2>1, <2>3 DEF Covers
  <2> QED
    BY <1>3, <2>1, <2>2, <2>4, <2>5
<1>16. ASSUME NEW c \in Caller, BatchGetMaxSeq(c) PROVE Goal
  <2>1. /\ told' = Larger(told, curr) /\ UNCHANGED <<redisVars, maxSeq, callerVars, locker>>
    BY <1>16 DEF BatchGetMaxSeq
  <2>2. \A n \in Nat : Covers(n) /\ curr <= n =>
          told' <= n /\ \A d \in Caller : pc'[d] = "ret" => upto'[d] <= n
    BY <1>k, <2>1 DEF Covers, Larger
  <2>3. Covers(curr) => Covers(curr)'
    BY <1>k, <2>1, <2>2 DEF Covers
  <2>4. \A d \in Caller : Covers(from[d] + size[d]) /\ curr <= from[d] + size[d]
                            => Covers(from[d] + size[d])'
    BY <1>k, <2>1, <2>2 DEF Covers
  <2> QED
    BY <1>3, <2>1, <2>3, <2>4
<1>17. CASE ExpireLock \/ LoseHash
  <2>1. /\ window' = "absent" /\ UNCHANGED callerVars
        /\ early' = (early \/ HolderAlive)
    BY <1>17 DEF ExpireLock, LoseHash, DropHash
  <2>2. ~HolderAlive
    BY <2>1, Zenon
  <2>3. \A c \in Caller : ~Alloc(c)
    BY <1>3, <2>2 DEF HolderAlive
  <2> QED
    BY <2>1, <2>3
<1>18. CASE UNCHANGED vars
  BY <1>3, <1>18 DEF vars, Covers
<1> QED
  BY <1>5, <1>6, <1>7, <1>9, <1>10, <1>11, <1>12, <1>13, <1>14, <1>15, <1>16, <1>17, <1>18
     DEF Next, Step

\* The max seq that an unlocked hash reports covers every seq anybody was told
\* of, unless Redis dropped the hash under a live holder of its lock or a reply of
\* setSeq was lost (MaxSeqCovers; GetMaxSeq, batchGetMaxSeq).
THEOREM EndCovers == Spec => []MaxSeqCovers
<1>1. Init => CoverInv
  BY DEF Init, CoverInv, Covers, Cached
<1>2. Spec => [](TypeOK /\ WithinCounter)
  BY UniqueOwner, PTL
<1>3. TypeOK /\ WithinCounter /\ CoverInv /\ TypeOK' /\ WithinCounter' /\ [Next]_vars => CoverInv'
  BY StepCovers
<1>4. CoverInv => MaxSeqCovers
  BY DEF CoverInv, MaxSeqCovers, Covers
<1> QED
  BY <1>1, <1>2, <1>3, <1>4, PTL DEF Spec

=============================================================================
