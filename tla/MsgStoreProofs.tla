--------------------------- MODULE MsgStoreProofs ---------------------------
(***************************************************************************)
(* The message documents keep what they promise, for any number of         *)
(* consumers, of calls that revoke or delete, of readers, of messages and  *)
(* for documents of any size: types are kept (TypeCorrect), the documents  *)
(* implement the table of MessageTable (ImplementsTable), a batch that was *)
(* handled is stored (HandledIsStored), what is cached of a message shows  *)
(* the marks the documents bear (CacheShowsMarks), and no message is       *)
(* hidden by a placeholder that a too early reader stored                  *)
(* (NoMessageHidden).                                                      *)
(***************************************************************************)
EXTENDS MsgStore, TLAPS

USE BoundsAssumption, NoneAssumption

-----------------------------------------------------------------------------
(* Documents and indexes.                                                  *)

\* A seq has its place in a document.
LEMMA Place ==
  \A s \in Seqs : GetDocID(s) \in DocIDs /\ GetMsgIndex(s) \in Indexes
<1> TAKE s \in Seqs
<1>1. s - 1 \in Nat
  BY DEF Seqs
<1>2. (s - 1) % DocSize \in 0 .. DocSize - 1
  BY <1>1
<1> QED
  BY <1>2 DEF GetMsgIndex, Indexes, DocIDs

\* Quotient and remainder.
LEMMA Division ==
  \A a \in Nat : a = DocSize * (a \div DocSize) + (a % DocSize)
  OBVIOUS

\* Later seqs are in the same document or in a later one.
LEMMA DocsInOrder ==
  ASSUME NEW x \in Seqs, NEW y \in Seqs, x <= y
  PROVE  GetDocID(x) <= GetDocID(y) /\ GetDocID(x) \in Nat /\ GetDocID(y) \in Nat
<1> DEFINE a == x - 1  b == y - 1  p == a \div DocSize  q == b \div DocSize
<1>1. a \in Nat /\ b \in Nat /\ a <= b
  BY DEF Seqs
<1>2. p \in Nat /\ q \in Nat
  BY <1>1
<1>3. a = DocSize * p + (a % DocSize) /\ b = DocSize * q + (b % DocSize)
  BY <1>1, Division
<1>4. a % DocSize \in 0 .. DocSize - 1 /\ b % DocSize \in 0 .. DocSize - 1
  BY <1>1
<1>5. DocSize * p \in Int /\ DocSize * q \in Int
  BY <1>2
<1> HIDE DEF a, b, p, q
<1>6. p >= q + 1 => DocSize * p >= DocSize * q + DocSize
  BY <1>2
<1>7. p <= q
  BY <1>1, <1>2, <1>3, <1>4, <1>5, <1>6
<1> QED
  BY <1>2, <1>7 DEF a, b, p, q, GetDocID

\* The seqs from the first to the last of a block are all in its document.
LEMMA BlockIsInterval ==
  ASSUME NEW j \in Job, NEW top \in Block(j), NEW s \in Seqs, j.next <= s, s <= top
  PROVE  s \in Block(j)
<1>1. top \in Seqs /\ top <= j.last /\ GetDocID(top) = GetDocID(j.next)
  BY DEF Block, Job, Seqs
<1>2. GetDocID(j.next) <= GetDocID(s) /\ GetDocID(s) <= GetDocID(top)
  BY <1>1, DocsInOrder DEF Job
<1>3. GetDocID(j.next) \in Nat /\ GetDocID(s) \in Nat
  BY DocsInOrder DEF Job
<1> QED
  BY <1>1, <1>2, <1>3 DEF Block, Job, Seqs

-----------------------------------------------------------------------------
(* Types.                                                                  *)

\* A job that goes on is a job.
LEMMA AdvancedType ==
  ASSUME NEW j \in Job, NEW s \in Seqs, j.next <= s, s <= j.last, NEW t \in BOOLEAN
  PROVE  /\ Advanced(j, s, t) \in Job \cup {None}
         /\ Advanced(j, s, t) # None => Advanced(j, s, t).next <= Advanced(j, s, t).last
<1>1. CASE s < j.last
  <2>1. s + 1 \in Seqs /\ s + 1 <= j.last
    BY <1>1 DEF Job, Seqs
  <2>2. Advanced(j, s, t) = [j EXCEPT !.next = s + 1, !.tryUpdate = t,
                                      !.step = IF t THEN "update" ELSE "create"]
    BY <1>1 DEF Advanced
  <2> QED
    BY <2>1, <2>2 DEF Job
<1>2. CASE ~(s < j.last)
  <2>1. Advanced(j, s, t) = IF j.key = "msg" THEN None
                            ELSE [j EXCEPT !.step = "tag", !.next = j.last]
    BY <1>2 DEF Advanced
  <2>2. CASE j.key = "msg"
    BY <2>1, <2>2
  <2>3. CASE j.key # "msg"
    <3>1. Advanced(j, s, t) = [j EXCEPT !.step = "tag", !.next = j.last]
      BY <2>1, <2>3
    <3>2. j.last \in Seqs /\ j.last <= j.last
      BY DEF Job, Seqs
    <3> QED
      BY <3>1, <3>2 DEF Job
  <2> QED
    BY <2>2, <2>3
<1> QED
  BY <1>1, <1>2

\* The same of the state after the job has gone on.
LEMMA ProceedType ==
  ASSUME TypeOK, NEW w \in Worker, job[w] # None, NEW s \in Seqs,
         job[w].next <= s, s <= job[w].last, NEW t \in BOOLEAN,
         Proceed(w, s, t)
  PROVE  /\ job' \in [Worker -> Job \cup {None}]
         /\ \A v \in Worker : job'[v] # None => job'[v].next <= job'[v].last
         /\ handled' \subseteq DOMAIN queue
<1>1. job[w] \in Job
  BY DEF TypeOK
<1>2. /\ Advanced(job[w], s, t) \in Job \cup {None}
      /\ Advanced(job[w], s, t) # None =>
           Advanced(job[w], s, t).next <= Advanced(job[w], s, t).last
  BY <1>1, AdvancedType
<1>3. job' = [job EXCEPT ![w] = Advanced(job[w], s, t)]
  BY DEF Proceed
<1>4. handled' \subseteq DOMAIN queue
  BY DEF Proceed, BatchOf, TypeOK
<1> QED
  BY <1>2, <1>3, <1>4 DEF TypeOK

\* The invariant holds at first.
LEMMA InitTypeOK == Init => TypeOK
<1> SUFFICES ASSUME Init PROVE TypeOK
  OBVIOUS
<1>1. PICK b \in Budgets : marks = b.marks /\ reads = b.reads /\ faults = b.faults
  BY DEF Init
<1>2. marks \in Nat /\ reads \in Nat /\ faults \in Nat
  BY <1>1
<1> QED
  BY <1>2 DEF Init, TypeOK, MsgInfo, Blank, Value, Kind

\* The seqs queued so far.
LEMMA QueuedType ==
  ASSUME TypeOK
  PROVE  /\ Queued \in 0 .. LastSeq
         /\ \A k \in DOMAIN queue : queue[k][2] <= Queued
<1>1. CASE queue = << >>
  BY <1>1 DEF Queued
<1>2. CASE queue # << >>
  <2>1. Len(queue) \in DOMAIN queue /\ DOMAIN queue = 1 .. Len(queue)
    BY <1>2 DEF TypeOK
  <2>2. \A k \in DOMAIN queue : queue[k] \in Seqs \X Seqs
    BY DEF TypeOK
  <2>3. Queued = queue[Len(queue)][2]
    BY <1>2 DEF Queued
  <2>4. ASSUME NEW k \in DOMAIN queue PROVE queue[k][2] <= Queued
    <3>1. CASE k = Len(queue)
      BY <3>1, <2>1, <2>2, <2>3 DEF Seqs
    <3>2. CASE k # Len(queue)
      <4>1. k < Len(queue)
        BY <2>1, <3>2
      <4>2. queue[k][2] < queue[Len(queue)][1] /\ queue[Len(queue)][1] <= queue[Len(queue)][2]
        BY <2>1, <4>1 DEF TypeOK
      <4> QED
        BY <2>1, <2>2, <2>3, <4>2 DEF Seqs
    <3> QED
      BY <3>1, <3>2
  <2> QED
    BY <2>1, <2>2, <2>3, <2>4 DEF Seqs
<1> QED
  BY <1>1, <1>2

\* Setting a field of an element.
LEMMA ElementSet ==
  ASSUME TypeOK, NEW d \in DocIDs, NEW i \in Indexes
  PROVE  /\ [elem EXCEPT ![d][i] = [@ EXCEPT !.msg = TRUE]]
              \in [DocIDs -> [Indexes -> MsgInfo]]
         /\ [elem EXCEPT ![d][i] = [@ EXCEPT !.revoke = TRUE]]
              \in [DocIDs -> [Indexes -> MsgInfo]]
         /\ [elem EXCEPT ![d][i].del = TRUE] \in [DocIDs -> [Indexes -> MsgInfo]]
<1>1. elem \in [DocIDs -> [Indexes -> MsgInfo]]
  BY DEF TypeOK
<1>2. ASSUME NEW e \in MsgInfo
      PROVE  /\ [e EXCEPT !.msg = TRUE] \in MsgInfo
             /\ [e EXCEPT !.revoke = TRUE] \in MsgInfo
             /\ [e EXCEPT !.del = TRUE] \in MsgInfo
  BY DEF MsgInfo
<1>3. ASSUME NEW e \in MsgInfo
      PROVE  [elem EXCEPT ![d][i] = e] \in [DocIDs -> [Indexes -> MsgInfo]]
  BY <1>1
<1> HIDE DEF MsgInfo
<1>4. elem[d][i] \in MsgInfo
  BY <1>1
<1> QED
  BY <1>2, <1>3, <1>4

\* Every step keeps the types.
LEMMA StepTypeOK == TypeOK /\ [Next]_vars => TypeOK'
<1> SUFFICES ASSUME TypeOK, [Next]_vars PROVE TypeOK'
  OBVIOUS
<1> USE DEF TypeOK, mongo, history
<1>1. ASSUME NEW n \in 1 .. MaxBatch, Malloc(n) PROVE TypeOK'
  BY <1>1 DEF Malloc
<1>2. ASSUME RawSet PROVE TypeOK'
  <2>1. cachedTo + 1 \in Seqs /\ Kind("msg") \in Value
    BY <1>2 DEF RawSet, Seqs, Kind, Value
  <2>2. cachedTo' \in 0 .. maxSeq
    BY <1>2 DEF RawSet
  <2>3. cache' \in [Seqs -> [value : Value, lock : {"free", "tagged"} \cup Reader]]
    BY <1>2, <2>1 DEF RawSet
  <2> QED
    BY <1>2, <2>2, <2>3 DEF RawSet
<1>3. ASSUME MsgToMongoMQ PROVE TypeOK'
  <2> DEFINE q == <<Queued + 1, maxSeq>>
  <2>1. q \in Seqs \X Seqs /\ q[1] <= q[2] /\ Queued < q[1]
    BY <1>3, QueuedType DEF MsgToMongoMQ, Seqs
  <2> HIDE DEF q
  <2>2. queue' = Append(queue, q)
    BY <1>3 DEF MsgToMongoMQ, q
  <2>3. /\ queue' \in Seq(Seqs \X Seqs)
        /\ DOMAIN queue' = 1 .. Len(queue) + 1
        /\ \A k \in DOMAIN queue : queue'[k] = queue[k]
        /\ queue'[Len(queue) + 1] = q
    BY <2>1, <2>2
  <2>4. \A k \in DOMAIN queue' : queue'[k][1] <= queue'[k][2]
    BY <2>1, <2>3
  <2>5. ASSUME NEW k \in DOMAIN queue', NEW l \in DOMAIN queue', k < l
        PROVE  queue'[k][2] < queue'[l][1]
    <3>1. k \in DOMAIN queue
      BY <2>3, <2>5
    <3>2. CASE l \in DOMAIN queue
      BY <2>3, <2>5, <3>1, <3>2
    <3>3. CASE l = Len(queue) + 1
      <4>1. queue[k][2] <= Queued /\ Queued \in Int
        BY <3>1, QueuedType
      <4>2. queue[k] \in Seqs \X Seqs
        BY <3>1
      <4> QED
        BY <2>1, <2>3, <3>1, <3>3, <4>1, <4>2 DEF Seqs
    <3> QED
      BY <2>3, <3>2, <3>3
  <2>6. at' \in 0 .. Len(queue') /\ handled' \subseteq DOMAIN queue'
    BY <1>3, <2>3 DEF MsgToMongoMQ
  <2> QED
    BY <1>3, <2>3, <2>4, <2>5, <2>6 DEF MsgToMongoMQ
<1>4. ASSUME Rebalance PROVE TypeOK'
  BY <1>4 DEF Rebalance
<1>5. ASSUME NEW c \in Consumer, Consume(c) PROVE TypeOK'
  <2>1. at + 1 \in DOMAIN queue
    BY <1>5 DEF Consume
  <2>2. queue[at + 1] \in Seqs \X Seqs /\ queue[at + 1][1] <= queue[at + 1][2]
    BY <2>1
  <2>3. Started("msg", queue[at + 1][1], queue[at + 1][2]) \in Job
    BY <2>2 DEF Started, Job
  <2>4. /\ job' \in [Worker -> Job \cup {None}]
        /\ \A w \in Worker : job'[w] # None => job'[w].next <= job'[w].last
    BY <1>5, <2>2, <2>3 DEF Consume, Worker, Started
  <2>5. at' \in 0 .. Len(queue)
    BY <1>5, <2>1 DEF Consume
  <2> QED
    BY <1>5, <2>4, <2>5 DEF Consume
<1>6. ASSUME NEW w \in Worker, Update(w) PROVE TypeOK'
  <2> DEFINE d == GetDocID(job[w].next)
  <2>1. job[w] \in Job /\ job[w] # None /\ job[w].next <= job[w].last
    BY <1>6 DEF Update
  <2>2. d \in DocIDs /\ GetMsgIndex(job[w].next) \in Indexes
    BY <2>1, Place DEF Job
  <2>3. CASE d \in docs
    <3>1. /\ elem' = [elem EXCEPT ![d][GetMsgIndex(job[w].next)] =
                         IF job[w].key = "msg" THEN [@ EXCEPT !.msg = TRUE]
                                               ELSE [@ EXCEPT !.revoke = TRUE]]
          /\ Proceed(w, job[w].next, job[w].tryUpdate)
      BY <1>6, <2>3 DEF Update
    <3> HIDE DEF d
    <3>2. elem' \in [DocIDs -> [Indexes -> MsgInfo]]
      BY <2>2, <3>1, ElementSet
    <3>3. /\ job' \in [Worker -> Job \cup {None}]
          /\ \A v \in Worker : job'[v] # None => job'[v].next <= job'[v].last
          /\ handled' \subseteq DOMAIN queue
      <4>1. job[w].next \in Seqs /\ job[w].next <= job[w].next /\ job[w].tryUpdate \in BOOLEAN
        BY <2>1 DEF Job, Seqs
      <4> QED
        BY <2>1, <3>1, <4>1, ProceedType
    <3> QED
      BY <1>6, <3>2, <3>3 DEF Update
  <2>4. CASE d \notin docs
    <3>1. job' = [job EXCEPT ![w].step = "create"] /\ UNCHANGED <<elem, handled>>
      BY <1>6, <2>4 DEF Update
    <3>2. /\ job' \in [Worker -> Job \cup {None}]
          /\ \A v \in Worker : job'[v] # None => job'[v].next <= job'[v].last
      BY <2>1, <3>1 DEF Job
    <3> QED
      BY <1>6, <3>1, <3>2 DEF Update
  <2> QED
    BY <2>3, <2>4
<1>7. ASSUME NEW w \in Worker, Create(w) PROVE TypeOK'
  <2> DEFINE d == GetDocID(job[w].next)
  <2>1. job[w] \in Job /\ job[w] # None /\ job[w].next <= job[w].last
    BY <1>7 DEF Create
  <2>2. d \in DocIDs
    BY <2>1, Place DEF Job
  <2>3. CASE d \notin docs
    <3>1. PICK top \in Block(job[w]) : Proceed(w, top, FALSE)
      BY <1>7, <2>3 DEF Create
    <3>2. docs' = docs \cup {d} /\ elem' = [elem EXCEPT ![d] = NewDoc(job[w])]
      BY <1>7, <2>3 DEF Create
    <3>3. NewDoc(job[w]) \in [Indexes -> MsgInfo]
      BY DEF NewDoc, Blank, MsgInfo
    <3> HIDE DEF d
    <3>4. elem' \in [DocIDs -> [Indexes -> MsgInfo]] /\ docs' \subseteq DocIDs
      BY <2>2, <3>2, <3>3
    <3>5. top \in Seqs /\ job[w].next <= top /\ top <= job[w].last
      BY <2>1 DEF Block, Job, Seqs
    <3>6. /\ job' \in [Worker -> Job \cup {None}]
          /\ \A v \in Worker : job'[v] # None => job'[v].next <= job'[v].last
          /\ handled' \subseteq DOMAIN queue
      BY <2>1, <3>1, <3>5, ProceedType
    <3> QED
      BY <1>7, <3>4, <3>6 DEF Create
  <2>4. CASE d \in docs
    <3>1. /\ job' = [job EXCEPT ![w].tryUpdate = TRUE, ![w].step = "update"]
          /\ UNCHANGED <<docs, elem, handled>>
      BY <1>7, <2>4 DEF Create
    <3>2. /\ job' \in [Worker -> Job \cup {None}]
          /\ \A v \in Worker : job'[v] # None => job'[v].next <= job'[v].last
      BY <2>1, <3>1 DEF Job
    <3> QED
      BY <1>7, <3>1, <3>2 DEF Create
  <2> QED
    BY <2>3, <2>4
<1>8. ASSUME NEW w \in Worker, Abort(w) PROVE TypeOK'
  <2>1. job[w] \in Job
    BY <1>8 DEF Abort
  <2>2. torn' \subseteq Seqs
    BY <1>8, <2>1 DEF Abort, Job
  <2>3. /\ job' \in [Worker -> Job \cup {None}]
        /\ \A v \in Worker : job'[v] # None => job'[v].next <= job'[v].last
    BY <1>8 DEF Abort
  <2> QED
    BY <1>8, <2>2, <2>3 DEF Abort
<1>9. ASSUME NEW m \in Marker, NEW s \in Seqs, RevokeMsg(m, s) PROVE TypeOK'
  <2>1. Started("revoke", s, s) \in Job /\ s <= s
    BY DEF Started, Job, Seqs
  <2>2. /\ job' \in [Worker -> Job \cup {None}]
        /\ \A v \in Worker : job'[v] # None => job'[v].next <= job'[v].last
    BY <1>9, <2>1 DEF RevokeMsg, Worker, Started
  <2> QED
    BY <1>9, <2>2 DEF RevokeMsg
<1>10. ASSUME NEW m \in Marker, NEW s \in Seqs, DeleteUserMsgsBySeqs(m, s) PROVE TypeOK'
  <2>1. Started("del", s, s) \in Job /\ s <= s
    BY DEF Started, Job, Seqs
  <2>2. /\ job' \in [Worker -> Job \cup {None}]
        /\ \A v \in Worker : job'[v] # None => job'[v].next <= job'[v].last
    BY <1>10, <2>1 DEF DeleteUserMsgsBySeqs, Worker, Started
  <2> QED
    BY <1>10, <2>2 DEF DeleteUserMsgsBySeqs
<1>11. ASSUME NEW m \in Marker, PushUnique(m) PROVE TypeOK'
  <2> DEFINE d == GetDocID(job[m].next)  i == GetMsgIndex(job[m].next)
  <2>1. job[m] \in Job /\ job[m] # None /\ m \in Worker
    BY <1>11 DEF PushUnique, Worker
  <2>2. d \in DocIDs /\ i \in Indexes
    BY <2>1, Place DEF Job
  <2>3. elem' = IF d \in docs THEN [elem EXCEPT ![d][i].del = TRUE] ELSE elem
    BY <1>11 DEF PushUnique
  <2>4. job' = [job EXCEPT ![m].step = "tag"]
    BY <1>11 DEF PushUnique
  <2> HIDE DEF d, i
  <2>5. elem' \in [DocIDs -> [Indexes -> MsgInfo]]
    BY <2>2, <2>3, ElementSet
  <2>6. /\ job' \in [Worker -> Job \cup {None}]
        /\ \A v \in Worker : job'[v] # None => job'[v].next <= job'[v].last
    BY <2>1, <2>4 DEF Job
  <2> QED
    BY <1>11, <2>5, <2>6 DEF PushUnique
<1>12. ASSUME NEW m \in Marker, DelMessageBySeqs(m) PROVE TypeOK'
  <2>1. job[m] \in Job /\ m \in Worker
    BY <1>12 DEF DelMessageBySeqs, Worker
  <2>2. job[m].next \in Seqs
    BY <2>1 DEF Job
  <2>3. cache' = [cache EXCEPT ![job[m].next].lock = "tagged"] /\ exposed' \subseteq Seqs
    BY <1>12, <2>2 DEF DelMessageBySeqs
  <2>4. cache' \in [Seqs -> [value : Value, lock : {"free", "tagged"} \cup Reader]]
    BY <2>2, <2>3
  <2>5. /\ job' \in [Worker -> Job \cup {None}]
        /\ \A v \in Worker : job'[v] # None => job'[v].next <= job'[v].last
    BY <1>12 DEF DelMessageBySeqs
  <2> QED
    BY <1>12, <2>3, <2>4, <2>5 DEF DelMessageBySeqs
<1>13. ASSUME NEW r \in Reader, NEW s \in Seqs, Lock(r, s) PROVE TypeOK'
  <2>1. cache' \in [Seqs -> [value : Value, lock : {"free", "tagged"} \cup Reader]]
    BY <1>13 DEF Lock
  <2>2. read' \in [Reader -> [seq : Seqs, value : Value \cup {None}] \cup {None}]
    BY <1>13 DEF Lock
  <2> QED
    BY <1>13, <2>1, <2>2 DEF Lock
<1>14. ASSUME NEW r \in Reader, FindSeqs(r) PROVE TypeOK'
  <2>1. read[r] \in [seq : Seqs, value : Value \cup {None}]
    BY <1>14 DEF FindSeqs
  <2>2. Element(read[r].seq) \in MsgInfo
    BY <2>1, Place DEF Element
  <2>3. Shown(Element(read[r].seq)) \in Value /\ Kind("gone") \in Value
    BY <2>2 DEF Shown, Kind, Value, MsgInfo
  <2>4. read' \in [Reader -> [seq : Seqs, value : Value \cup {None}] \cup {None}]
    BY <1>14, <2>1, <2>3 DEF FindSeqs
  <2> QED
    BY <1>14, <2>4 DEF FindSeqs
<1>15. ASSUME NEW r \in Reader, Fill(r) PROVE TypeOK'
  <2>1. read[r] \in [seq : Seqs, value : Value]
    BY <1>15 DEF Fill
  <2>2. cache' \in [Seqs -> [value : Value, lock : {"free", "tagged"} \cup Reader]]
    BY <1>15, <2>1 DEF Fill
  <2> QED
    BY <1>15, <2>2 DEF Fill
<1>16. ASSUME NEW s \in Seqs, Evict(s) PROVE TypeOK'
  BY <1>16 DEF Evict, Value, Kind
<1>17. ASSUME UNCHANGED vars PROVE TypeOK'
  BY <1>17 DEF vars
<1> QED
  BY <1>1, <1>2, <1>3, <1>4, <1>5, <1>6, <1>7, <1>8, <1>9, <1>10, <1>11, <1>12,
     <1>13, <1>14, <1>15, <1>16, <1>17 DEF Next

\* Type correctness, for any number of processes and any size of documents.
THEOREM TypeCorrect == Spec => []TypeOK
  BY InitTypeOK, StepTypeOK, PTL DEF Spec

-----------------------------------------------------------------------------
(* The documents implement the table.                                      *)

\* What Mongo does not have is blank.
NoDocument == \A d \in DocIDs \ docs : elem[d] = [i \in Indexes |-> Blank]

\* What a step may do to the elements, as a step of the table.
LEMMA TableStep ==
  ASSUME \/ \A s \in Seqs : /\ Element(s).msg => Element(s)'.msg
                            /\ Element(s)'.revoke <=> Element(s).revoke
                            /\ Element(s)'.del <=> Element(s).del
         \/ \A s \in Seqs : /\ Element(s)'.msg <=> Element(s).msg
                            /\ Element(s).revoke => Element(s)'.revoke
                            /\ Element(s)'.del <=> Element(s).del
         \/ \A s \in Seqs : /\ Element(s)'.msg <=> Element(s).msg
                            /\ Element(s)'.revoke <=> Element(s).revoke
                            /\ Element(s).del => Element(s)'.del
  PROVE  Table!Next
<1> DEFINE Same(x, y)  == \A s \in Seqs : s \in x <=> s \in y
           Grows(x, y) == \A s \in Seqs : s \in x => s \in y
<1>1. /\ Sent \subseteq Seqs /\ Revoked \subseteq Seqs /\ Deleted \subseteq Seqs
      /\ Sent' \subseteq Seqs /\ Revoked' \subseteq Seqs /\ Deleted' \subseteq Seqs
  BY DEF Sent, Revoked, Deleted
<1>2. \/ Grows(Sent, Sent') /\ Same(Revoked, Revoked') /\ Same(Deleted, Deleted')
      \/ Same(Sent, Sent') /\ Grows(Revoked, Revoked') /\ Same(Deleted, Deleted')
      \/ Same(Sent, Sent') /\ Same(Revoked, Revoked') /\ Grows(Deleted, Deleted')
  <2>1. \A s \in Seqs : /\ s \in Sent <=> Element(s).msg
                        /\ s \in Revoked <=> Element(s).revoke
                        /\ s \in Deleted <=> Element(s).del
    BY DEF Sent, Revoked, Deleted
  <2>2. \A s \in Seqs : /\ s \in Sent' <=> Element(s)'.msg
                        /\ s \in Revoked' <=> Element(s)'.revoke
                        /\ s \in Deleted' <=> Element(s)'.del
    BY DEF Sent, Revoked, Deleted
  <2> QED
    BY <2>1, <2>2, Zenon
<1>3. CASE Grows(Sent, Sent') /\ Same(Revoked, Revoked') /\ Same(Deleted, Deleted')
  <2>1. Sent' = Sent \cup Sent' /\ Revoked' = Revoked /\ Deleted' = Deleted
    BY <1>1, <1>3
  <2> QED
    BY <1>1, <2>1 DEF Table!Next, Table!Put
<1>4. CASE Same(Sent, Sent') /\ Grows(Revoked, Revoked') /\ Same(Deleted, Deleted')
  <2>1. Sent' = Sent /\ Revoked' = Revoked \cup Revoked' /\ Deleted' = Deleted
    BY <1>1, <1>4
  <2> QED
    BY <1>1, <2>1 DEF Table!Next, Table!Revoke
<1>5. CASE Same(Sent, Sent') /\ Same(Revoked, Revoked') /\ Grows(Deleted, Deleted')
  <2>1. Sent' = Sent /\ Revoked' = Revoked /\ Deleted' = Deleted \cup Deleted'
    BY <1>1, <1>5
  <2> QED
    BY <1>1, <2>1 DEF Table!Next, Table!Delete
<1> QED
  BY <1>2, <1>3, <1>4, <1>5

\* A step that leaves the elements alone leaves the table alone.
LEMMA SameElements ==
  ASSUME UNCHANGED elem
  PROVE  UNCHANGED <<Sent, Revoked, Deleted>>
  BY DEF Sent, Revoked, Deleted, Element

\* An update sets one field of one element of a document that exists.
LEMMA UpdateStep ==
  ASSUME TypeOK, NoDocument, NEW w \in Worker, Update(w)
  PROVE  NoDocument' /\ (Table!Next \/ UNCHANGED <<Sent, Revoked, Deleted>>)
<1> DEFINE d == GetDocID(job[w].next)  i == GetMsgIndex(job[w].next)
<1>1. job[w] \in Job /\ elem \in [DocIDs -> [Indexes -> MsgInfo]]
  BY DEF Update, TypeOK
<1>2. d \in DocIDs /\ i \in Indexes
  BY <1>1, Place DEF Job
<1>3. docs' = docs
  BY DEF Update
<1>4. CASE d \notin docs
  BY <1>3, <1>4, SameElements DEF Update, NoDocument
<1>5. CASE d \in docs
  <2>1. elem' = [elem EXCEPT ![d][i] =
                   IF job[w].key = "msg" THEN [@ EXCEPT !.msg = TRUE]
                                         ELSE [@ EXCEPT !.revoke = TRUE]]
    BY <1>5 DEF Update
  <2> HIDE DEF d, i
  <2>2. NoDocument'
    BY <1>1, <1>2, <1>3, <1>5, <2>1 DEF NoDocument
  <2>3. CASE job[w].key = "msg"
    <3>1. elem' = [elem EXCEPT ![d][i] = [@ EXCEPT !.msg = TRUE]]
      BY <2>1, <2>3
    <3>2. ASSUME NEW s \in Seqs
          PROVE  /\ Element(s).msg => Element(s)'.msg
                 /\ Element(s)'.revoke <=> Element(s).revoke
                 /\ Element(s)'.del <=> Element(s).del
      BY <1>1, <1>2, <3>1, Place DEF Element, MsgInfo
    <3> QED
      BY <2>2, <3>2, TableStep
  <2>4. CASE job[w].key # "msg"
    <3>1. elem' = [elem EXCEPT ![d][i] = [@ EXCEPT !.revoke = TRUE]]
      BY <2>1, <2>4
    <3>2. ASSUME NEW s \in Seqs
          PROVE  /\ Element(s)'.msg <=> Element(s).msg
                 /\ Element(s).revoke => Element(s)'.revoke
                 /\ Element(s)'.del <=> Element(s).del
      BY <1>1, <1>2, <3>1, Place DEF Element, MsgInfo
    <3> QED
      BY <2>2, <3>2, TableStep
  <2> QED
    BY <2>3, <2>4
<1> QED
  BY <1>4, <1>5

\* A creation fills a document that was not there, and which was blank.
LEMMA CreateStep ==
  ASSUME TypeOK, NoDocument, NEW w \in Worker, Create(w)
  PROVE  NoDocument' /\ (Table!Next \/ UNCHANGED <<Sent, Revoked, Deleted>>)
<1> DEFINE d == GetDocID(job[w].next)
<1>1. job[w] \in Job /\ elem \in [DocIDs -> [Indexes -> MsgInfo]]
  BY DEF Create, TypeOK
<1>2. d \in DocIDs
  BY <1>1, Place DEF Job
<1>3. CASE d \in docs
  BY <1>3, SameElements DEF Create, NoDocument
<1>4. CASE d \notin docs
  <2>1. docs' = docs \cup {d} /\ elem' = [elem EXCEPT ![d] = NewDoc(job[w])]
    BY <1>4 DEF Create
  <2>2. \A i \in Indexes : elem[d][i] = Blank
    BY <1>2, <1>4 DEF NoDocument
  <2> HIDE DEF d
  <2>3. NoDocument'
    BY <1>1, <1>2, <2>1 DEF NoDocument
  <2>4. \A s \in Seqs : GetDocID(s) # d => Element(s)' = Element(s)
    BY <1>1, <1>2, <2>1, Place DEF Element
  <2>5. \A s \in Seqs : GetDocID(s) = d => Element(s) = Blank
    BY <2>2, Place DEF Element
  <2>6. \A s \in Seqs : GetDocID(s) = d => Element(s)' = NewDoc(job[w])[GetMsgIndex(s)]
    BY <1>1, <1>2, <2>1, Place DEF Element
  <2>7. CASE job[w].key = "msg"
    <3>1. \A i \in Indexes : NewDoc(job[w])[i] \in {Blank, [Blank EXCEPT !.msg = TRUE]}
      BY <2>7 DEF NewDoc
    <3>2. ASSUME NEW s \in Seqs
          PROVE  /\ Element(s).msg => Element(s)'.msg
                 /\ Element(s)'.revoke <=> Element(s).revoke
                 /\ Element(s)'.del <=> Element(s).del
      <4>1. CASE GetDocID(s) = d
        <5>1. Element(s) = Blank /\ Element(s)' \in {Blank, [Blank EXCEPT !.msg = TRUE]}
          BY <2>5, <2>6, <3>1, <4>1, Place
        <5> QED
          BY <5>1 DEF Blank
      <4>2. CASE GetDocID(s) # d
        BY <2>4, <4>2
      <4> QED
        BY <4>1, <4>2
    <3> QED
      BY <2>3, <3>2, TableStep
  <2>8. CASE job[w].key # "msg"
    <3>1. \A i \in Indexes : NewDoc(job[w])[i] \in {Blank, [Blank EXCEPT !.revoke = TRUE]}
      BY <2>8 DEF NewDoc
    <3>2. ASSUME NEW s \in Seqs
          PROVE  /\ Element(s)'.msg <=> Element(s).msg
                 /\ Element(s).revoke => Element(s)'.revoke
                 /\ Element(s)'.del <=> Element(s).del
      <4>1. CASE GetDocID(s) = d
        <5>1. Element(s) = Blank /\ Element(s)' \in {Blank, [Blank EXCEPT !.revoke = TRUE]}
          BY <2>5, <2>6, <3>1, <4>1, Place
        <5> QED
          BY <5>1 DEF Blank
      <4>2. CASE GetDocID(s) # d
        BY <2>4, <4>2
      <4> QED
        BY <4>1, <4>2
    <3> QED
      BY <2>3, <3>2, TableStep
  <2> QED
    BY <2>7, <2>8
<1> QED
  BY <1>3, <1>4

\* A deletion sets a field, or misses a document that is not there.
LEMMA PushUniqueStep ==
  ASSUME TypeOK, NoDocument, NEW m \in Marker, PushUnique(m)
  PROVE  NoDocument' /\ (Table!Next \/ UNCHANGED <<Sent, Revoked, Deleted>>)
<1> DEFINE d == GetDocID(job[m].next)  i == GetMsgIndex(job[m].next)
<1>1. job[m] \in Job /\ elem \in [DocIDs -> [Indexes -> MsgInfo]]
  BY DEF PushUnique, TypeOK, Worker
<1>2. d \in DocIDs /\ i \in Indexes
  BY <1>1, Place DEF Job
<1>3. docs' = docs
  BY DEF PushUnique
<1>4. CASE d \notin docs
  BY <1>3, <1>4, SameElements DEF PushUnique, NoDocument
<1>5. CASE d \in docs
  <2>1. elem' = [elem EXCEPT ![d][i].del = TRUE]
    BY <1>5 DEF PushUnique
  <2> HIDE DEF d, i
  <2>2. NoDocument'
    BY <1>1, <1>2, <1>3, <1>5, <2>1 DEF NoDocument
  <2>3. ASSUME NEW s \in Seqs
        PROVE  /\ Element(s)'.msg <=> Element(s).msg
               /\ Element(s)'.revoke <=> Element(s).revoke
               /\ Element(s).del => Element(s)'.del
    BY <1>1, <1>2, <2>1, Place DEF Element, MsgInfo
  <2> QED
    BY <2>2, <2>3, TableStep
<1> QED
  BY <1>4, <1>5

\* Every other step leaves the documents alone.
LEMMA StepTable ==
  TypeOK /\ NoDocument /\ [Next]_vars
    => NoDocument' /\ (Table!Next \/ UNCHANGED <<Sent, Revoked, Deleted>>)
<1> SUFFICES ASSUME TypeOK, NoDocument, [Next]_vars
             PROVE  NoDocument' /\ (Table!Next \/ UNCHANGED <<Sent, Revoked, Deleted>>)
  OBVIOUS
<1>1. CASE \E w \in Worker : Update(w)
  BY <1>1, UpdateStep
<1>2. CASE \E w \in Worker : Create(w)
  BY <1>2, CreateStep
<1>3. CASE \E m \in Marker : PushUnique(m)
  BY <1>3, PushUniqueStep
<1>4. CASE UNCHANGED mongo
  BY <1>4, SameElements DEF mongo, NoDocument
<1> USE DEF vars, mongo
<1>5. ASSUME NEW n \in 1 .. MaxBatch, Malloc(n) PROVE UNCHANGED mongo
  BY <1>5 DEF Malloc
<1>6. ASSUME NEW c \in Consumer, Consume(c) PROVE UNCHANGED mongo
  BY <1>6 DEF Consume
<1>7. ASSUME NEW w \in Worker, Abort(w) PROVE UNCHANGED mongo
  BY <1>7 DEF Abort
<1>8. ASSUME NEW m \in Marker, NEW s \in Seqs,
             RevokeMsg(m, s) \/ DeleteUserMsgsBySeqs(m, s) \/ DelMessageBySeqs(m)
      PROVE  UNCHANGED mongo
  BY <1>8 DEF RevokeMsg, DeleteUserMsgsBySeqs, DelMessageBySeqs
<1>9. ASSUME NEW m \in Marker, DelMessageBySeqs(m) PROVE UNCHANGED mongo
  BY <1>9 DEF DelMessageBySeqs
<1>10. ASSUME NEW r \in Reader, NEW s \in Seqs, Lock(r, s) PROVE UNCHANGED mongo
  BY <1>10 DEF Lock
<1>11. ASSUME NEW r \in Reader, FindSeqs(r) \/ Fill(r) PROVE UNCHANGED mongo
  BY <1>11 DEF FindSeqs, Fill
<1>12. ASSUME NEW s \in Seqs, Evict(s) PROVE UNCHANGED mongo
  BY <1>12 DEF Evict
<1>13. ASSUME RawSet \/ MsgToMongoMQ \/ Rebalance PROVE UNCHANGED mongo
  BY <1>13 DEF RawSet, MsgToMongoMQ, Rebalance
<1> QED
  BY <1>1, <1>2, <1>3, <1>4, <1>5, <1>6, <1>7, <1>8, <1>9, <1>10, <1>11, <1>12, <1>13 DEF Next

\* Whatever consumers, revocations, deletions, duplicate keys and dying calls do
\* to the documents (BatchInsertBlock, UpdateMsg, PushUnique), a message, a
\* revocation or a deletion that is in Mongo stays, and a step writes one kind only.
THEOREM ImplementsTable == Spec => Implements
<1>1. Init => Table!Init
  BY Place DEF Init, Table!Init, Sent, Revoked, Deleted, Element, Blank
<1>2. Init => NoDocument
  BY DEF Init, NoDocument
<1>3. TypeOK /\ NoDocument /\ [Next]_vars => NoDocument'
  BY StepTable
<1>4. TypeOK /\ NoDocument /\ [Next]_vars => [Table!Next]_<<Sent, Revoked, Deleted>>
  BY StepTable
<1> QED
  BY <1>1, <1>2, <1>3, <1>4, TypeCorrect, PTL DEF Spec, Implements, Table!Spec
-----------------------------------------------------------------------------
(* A handled batch is stored.                                              *)

\* What a consumer has passed of its batch is in Mongo.
AtWork ==
  \A w \in Worker : job[w] # None /\ job[w].key = "msg" =>
    \E k \in DOMAIN queue :
      /\ queue[k][2] = job[w].last /\ queue[k][1] <= job[w].next
      /\ \A s \in queue[k][1] .. job[w].next - 1 : s \in Sent

\* The batches of a queue that may have grown.
LEMMA QueueKept ==
  ASSUME TypeOK, queue' = queue \/ \E q \in Seqs \X Seqs : queue' = Append(queue, q)
  PROVE  \A k \in DOMAIN queue : k \in DOMAIN queue' /\ queue'[k] = queue[k]
<1>1. queue \in Seq(Seqs \X Seqs)
  BY DEF TypeOK
<1>2. CASE queue' = queue
  BY <1>2
<1>3. ASSUME NEW q \in Seqs \X Seqs, queue' = Append(queue, q)
      PROVE  \A k \in DOMAIN queue : k \in DOMAIN queue' /\ queue'[k] = queue[k]
  BY <1>1, <1>3
<1> QED
  BY <1>2, <1>3

\* No write takes a message away.
LEMMA SentKept ==
  ASSUME Table!Next \/ UNCHANGED <<Sent, Revoked, Deleted>>
  PROVE  Sent \subseteq Sent'
  BY DEF Table!Next, Table!Put, Table!Revoke, Table!Delete

\* The last seq of a batch tells which batch it is.
LEMMA OneBatch ==
  ASSUME TypeOK, NEW k \in DOMAIN queue, NEW l \in DOMAIN queue, queue[k][2] = queue[l][2]
  PROVE  k = l
<1>1. DOMAIN queue = 1 .. Len(queue) /\ Len(queue) \in Nat
  BY DEF TypeOK
<1>2. queue[k] \in Seqs \X Seqs /\ queue[l] \in Seqs \X Seqs
  BY DEF TypeOK
<1>3. /\ queue[k][1] <= queue[k][2] /\ queue[l][1] <= queue[l][2]
      /\ k < l => queue[k][2] < queue[l][1]
      /\ l < k => queue[l][2] < queue[k][1]
  BY DEF TypeOK
<1> QED
  BY <1>1, <1>2, <1>3 DEF Seqs

\* A worker that goes on after s has passed, or handled, what is in Mongo.
LEMMA ProceedStored ==
  ASSUME TypeOK, AtWork, BatchStored, NEW w \in Worker, job[w] # None, NEW s \in Seqs,
         job[w].next <= s, s <= job[w].last, NEW t \in BOOLEAN, Proceed(w, s, t),
         queue' = queue, Sent \subseteq Sent',
         job[w].key = "msg" => \A x \in Seqs : job[w].next <= x /\ x <= s => x \in Sent'
  PROVE  AtWork' /\ BatchStored'
<1> DEFINE j == job[w]  after == Advanced(j, s, t)
<1>1. j \in Job /\ j.next \in Seqs /\ j.last \in Seqs
  BY DEF TypeOK, Job
<1>2. job' = [job EXCEPT ![w] = after]
  BY DEF Proceed
<1>3. job \in [Worker -> Job \cup {None}]
  BY DEF TypeOK
<1>4. \A k \in DOMAIN queue : queue[k] \in Seqs \X Seqs
  BY DEF TypeOK
<1>5. CASE j.key # "msg"
  <2>1. after # None /\ after.key # "msg"
    <3>1. after = [j EXCEPT !.next = s + 1, !.tryUpdate = t,
                            !.step = IF t THEN "update" ELSE "create"]
          \/ after = [j EXCEPT !.step = "tag", !.next = j.last]
      BY <1>5 DEF Advanced
    <3>2. after.key = j.key
      BY <1>1, <3>1 DEF Job
    <3>3. after \in Job
      <4>1. CASE s < j.last
        <5>1. s + 1 \in Seqs
          BY <1>1, <4>1 DEF Seqs
        <5>2. after = [j EXCEPT !.next = s + 1, !.tryUpdate = t,
                                !.step = IF t THEN "update" ELSE "create"]
          BY <4>1 DEF Advanced
        <5> QED
          BY <1>1, <5>1, <5>2 DEF Job
      <4>2. CASE ~(s < j.last)
        <5>1. after = [j EXCEPT !.step = "tag", !.next = j.last]
          BY <1>5, <4>2 DEF Advanced
        <5> QED
          BY <1>1, <5>1 DEF Job
      <4> QED
        BY <4>1, <4>2
    <3> QED
      BY <1>5, <3>2, <3>3
  <2>2. handled' = handled
    BY <2>1 DEF Proceed
  <2> HIDE DEF after
  <2>3. BatchStored'
    BY <2>2 DEF BatchStored
  <2>4. AtWork'
    BY <1>2, <1>3, <2>1 DEF AtWork
  <2> QED
    BY <2>3, <2>4
<1>6. CASE j.key = "msg"
  <2>1. PICK k \in DOMAIN queue :
          /\ queue[k][2] = j.last /\ queue[k][1] <= j.next
          /\ \A x \in queue[k][1] .. j.next - 1 : x \in Sent
    BY <1>6 DEF AtWork
  <2>2. \A x \in queue[k][1] .. s : x \in Sent'
    <3>1. TAKE x \in queue[k][1] .. s
    <3>2. x \in Seqs
      BY <1>4, <3>1 DEF Seqs
    <3>3. CASE x < j.next
      <4>1. x \in queue[k][1] .. j.next - 1
        BY <1>1, <1>4, <3>1, <3>3 DEF Seqs
      <4> QED
        BY <2>1, <4>1
    <3>4. CASE j.next <= x
      BY <1>4, <1>6, <3>1, <3>2, <3>4 DEF Seqs
    <3> QED
      BY <1>1, <3>2, <3>3, <3>4 DEF Seqs
  <2>3. CASE s < j.last
    <3>1. after = [j EXCEPT !.next = s + 1, !.tryUpdate = t,
                            !.step = IF t THEN "update" ELSE "create"]
      BY <2>3 DEF Advanced
    <3>2. after.last = j.last /\ after.next = s + 1
      BY <1>1, <3>1 DEF Job
    <3>3. after # None
      <4>1. s + 1 \in Seqs
        BY <1>1, <2>3 DEF Seqs
      <4>2. after \in Job
        BY <1>1, <3>1, <4>1 DEF Job
      <4> QED
        BY <4>2
    <3>4. handled' = handled
      BY <3>3 DEF Proceed
    <3> HIDE DEF after
    <3>5. BatchStored'
      BY <3>4 DEF BatchStored
    <3>6. /\ queue[k][2] = after.last /\ queue[k][1] <= after.next
          /\ \A x \in queue[k][1] .. after.next - 1 : x \in Sent'
      <4>1. queue[k][1] \in Int /\ j.next \in Int /\ s \in Int
        BY <1>1, <1>4 DEF Seqs
      <4>2. queue[k][1] <= s + 1 /\ (s + 1) - 1 = s
        BY <2>1, <4>1
      <4> QED
        BY <2>1, <2>2, <3>2, <4>2
    <3>7. ASSUME NEW v \in Worker, job'[v] # None, job'[v].key = "msg"
          PROVE  \E l \in DOMAIN queue :
                   /\ queue[l][2] = job'[v].last /\ queue[l][1] <= job'[v].next
                   /\ \A x \in queue[l][1] .. job'[v].next - 1 : x \in Sent'
      <4>1. CASE v = w
        BY <1>2, <1>3, <3>6, <4>1
      <4>2. CASE v # w
        <5>1. job'[v] = job[v]
          BY <1>2, <1>3, <4>2
        <5> QED
          BY <3>7, <5>1 DEF AtWork
      <4> QED
        BY <4>1, <4>2
    <3>8. AtWork'
      BY <3>7 DEF AtWork
    <3> QED
      BY <3>5, <3>8
  <2>4. CASE ~(s < j.last)
    <3>1. after = None
      BY <1>6, <2>4 DEF Advanced
    <3>2. handled' = handled \cup BatchOf(j)
      BY <3>1 DEF Proceed
    <3>3. BatchOf(j) = {k}
      BY <2>1, OneBatch DEF BatchOf
    <3>4. s = j.last
      BY <1>1, <2>4 DEF Seqs
    <3>5. queue[k][1] .. queue[k][2] \subseteq Sent'
      BY <2>1, <2>2, <3>4
    <3>6. BatchStored'
      BY <3>2, <3>3, <3>5 DEF BatchStored
    <3> HIDE DEF after
    <3>7. AtWork'
      BY <1>2, <1>3, <3>1 DEF AtWork
    <3> QED
      BY <3>6, <3>7
  <2> QED
    BY <2>3, <2>4
<1> QED
  BY <1>5, <1>6

\* A step that starts no batch and passes no seq.
LEMMA OthersStored ==
  ASSUME TypeOK, AtWork, BatchStored, Sent \subseteq Sent', handled' = handled,
         queue' = queue \/ \E q \in Seqs \X Seqs : queue' = Append(queue, q),
         \A v \in Worker :
           \/ job'[v] = None
           \/ job'[v].key # "msg"
           \/ /\ job[v] # None /\ job[v].key = "msg"
              /\ job'[v].next = job[v].next /\ job'[v].last = job[v].last
  PROVE  AtWork' /\ BatchStored'
<1>1. \A k \in DOMAIN queue : k \in DOMAIN queue' /\ queue'[k] = queue[k]
  BY QueueKept
<1>2. AtWork'
  <2>1. ASSUME NEW v \in Worker, job'[v] # None, job'[v].key = "msg"
        PROVE  \E k \in DOMAIN queue' :
                 /\ queue'[k][2] = job'[v].last /\ queue'[k][1] <= job'[v].next
                 /\ \A s \in queue'[k][1] .. job'[v].next - 1 : s \in Sent'
    <3>1. /\ job[v] # None /\ job[v].key = "msg"
          /\ job'[v].next = job[v].next /\ job'[v].last = job[v].last
      BY <2>1
    <3>2. PICK k \in DOMAIN queue :
            /\ queue[k][2] = job[v].last /\ queue[k][1] <= job[v].next
            /\ \A s \in queue[k][1] .. job[v].next - 1 : s \in Sent
      BY <3>1 DEF AtWork
    <3> QED
      BY <1>1, <3>1, <3>2
  <2> QED
    BY <2>1 DEF AtWork
<1>3. handled \subseteq DOMAIN queue
  BY DEF TypeOK
<1>4. BatchStored'
  BY <1>1, <1>3 DEF BatchStored
<1> QED
  BY <1>2, <1>4

\* An update passes the seq that it has written.
LEMMA UpdateStored ==
  ASSUME TypeOK, AtWork, BatchStored, NEW w \in Worker, Update(w), Sent \subseteq Sent'
  PROVE  AtWork' /\ BatchStored'
<1> DEFINE j == job[w]  d == GetDocID(j.next)  i == GetMsgIndex(j.next)
<1>1. /\ j \in Job /\ j # None /\ j.next \in Seqs /\ j.last \in Seqs
      /\ j.next <= j.last /\ j.tryUpdate \in BOOLEAN
  BY DEF Update, TypeOK, Job
<1>2. elem \in [DocIDs -> [Indexes -> MsgInfo]] /\ job \in [Worker -> Job \cup {None}]
  BY DEF TypeOK
<1>3. d \in DocIDs /\ i \in Indexes
  BY <1>1, Place
<1>4. queue' = queue
  BY DEF Update
<1>5. CASE d \notin docs
  <2>1. job' = [job EXCEPT ![w].step = "create"] /\ handled' = handled
    BY <1>5 DEF Update
  <2>2. \A v \in Worker : \/ job'[v] = None
                          \/ job'[v].key # "msg"
                          \/ /\ job[v] # None /\ job[v].key = "msg"
                             /\ job'[v].next = job[v].next /\ job'[v].last = job[v].last
    <3>1. TAKE v \in Worker
    <3>2. CASE v = w
      <4>1. job'[v] = [j EXCEPT !.step = "create"]
        BY <1>2, <2>1, <3>2
      <4> QED
        BY <1>1, <3>2, <4>1 DEF Job
    <3>3. CASE v # w
      <4>1. job'[v] = job[v]
        BY <1>2, <2>1, <3>3
      <4> QED
        BY <4>1
    <3> QED
      BY <3>2, <3>3
  <2> QED
    BY <1>4, <2>1, <2>2, OthersStored
<1>6. CASE d \in docs
  <2>1. /\ elem' = [elem EXCEPT ![d][i] =
                      IF j.key = "msg" THEN [@ EXCEPT !.msg = TRUE]
                                       ELSE [@ EXCEPT !.revoke = TRUE]]
        /\ Proceed(w, j.next, j.tryUpdate)
    BY <1>6 DEF Update
  <2>2. j.key = "msg" => j.next \in Sent'
    <3>1. SUFFICES ASSUME j.key = "msg" PROVE j.next \in Sent'
      OBVIOUS
    <3> HIDE DEF d, i
    <3>2. elem' = [elem EXCEPT ![d][i] = [@ EXCEPT !.msg = TRUE]]
      BY <2>1, <3>1
    <3>3. elem'[d][i].msg
      BY <1>2, <1>3, <3>2 DEF MsgInfo
    <3> QED
      BY <1>1, <3>3 DEF Sent, Element, d, i
  <2>3. j.key = "msg" => \A x \in Seqs : j.next <= x /\ x <= j.next => x \in Sent'
    BY <1>1, <2>2 DEF Seqs
  <2>4. j.next <= j.next
    BY <1>1 DEF Seqs
  <2> QED
    BY <1>1, <1>4, <2>1, <2>3, <2>4, ProceedStored
<1> QED
  BY <1>5, <1>6

\* A creation passes the block that it has written.
LEMMA CreateStored ==
  ASSUME TypeOK, AtWork, BatchStored, NEW w \in Worker, Create(w), Sent \subseteq Sent'
  PROVE  AtWork' /\ BatchStored'
<1> DEFINE j == job[w]  d == GetDocID(j.next)
<1>1. /\ j \in Job /\ j # None /\ j.next \in Seqs /\ j.last \in Seqs /\ j.next <= j.last
  BY DEF Create, TypeOK, Job
<1>2. elem \in [DocIDs -> [Indexes -> MsgInfo]] /\ job \in [Worker -> Job \cup {None}]
  BY DEF TypeOK
<1>3. d \in DocIDs
  BY <1>1, Place
<1>4. queue' = queue
  BY DEF Create
<1>5. CASE d \in docs
  <2>1. job' = [job EXCEPT ![w].tryUpdate = TRUE, ![w].step = "update"] /\ handled' = handled
    BY <1>5 DEF Create
  <2>2. \A v \in Worker : \/ job'[v] = None
                          \/ job'[v].key # "msg"
                          \/ /\ job[v] # None /\ job[v].key = "msg"
                             /\ job'[v].next = job[v].next /\ job'[v].last = job[v].last
    <3>1. TAKE v \in Worker
    <3>2. CASE v = w
      <4>1. job'[v] = [j EXCEPT !.tryUpdate = TRUE, !.step = "update"]
        BY <1>1, <1>2, <2>1, <3>2 DEF Job
      <4> QED
        BY <1>1, <3>2, <4>1 DEF Job
    <3>3. CASE v # w
      <4>1. job'[v] = job[v]
        BY <1>2, <2>1, <3>3
      <4> QED
        BY <4>1
    <3> QED
      BY <3>2, <3>3
  <2> QED
    BY <1>4, <2>1, <2>2, OthersStored
<1>6. CASE d \notin docs
  <2>1. PICK top \in Block(j) : Proceed(w, top, FALSE)
    BY <1>6 DEF Create
  <2>2. elem' = [elem EXCEPT ![d] = NewDoc(j)]
    BY <1>6 DEF Create
  <2>3. top \in Seqs /\ j.next <= top /\ top <= j.last
    BY <1>1 DEF Block, Seqs
  <2>4. ASSUME NEW x \in Seqs, j.key = "msg", j.next <= x, x <= top PROVE x \in Sent'
    <3>1. x \in Block(j)
      BY <1>1, <2>4, BlockIsInterval
    <3>2. GetDocID(x) = d /\ GetMsgIndex(x) \in Indexes
      BY <3>1, Place DEF Block
    <3>3. NewDoc(j)[GetMsgIndex(x)].msg
      BY <2>4, <3>1, <3>2 DEF NewDoc, Blank
    <3> HIDE DEF d, j
    <3>4. Element(x)'.msg
      BY <1>2, <1>3, <2>2, <3>2, <3>3 DEF Element
    <3> QED
      BY <3>4 DEF Sent
  <2> QED
    BY <1>1, <1>4, <2>1, <2>3, <2>4, ProceedStored
<1> QED
  BY <1>5, <1>6

\* A consumer starts before the first seq of its batch.
LEMMA ConsumeStored ==
  ASSUME TypeOK, AtWork, BatchStored, NEW c \in Consumer, Consume(c), Sent \subseteq Sent'
  PROVE  AtWork' /\ BatchStored'
<1> DEFINE b == queue[at + 1]
<1>1. at + 1 \in DOMAIN queue /\ c \in Worker
  BY DEF Consume, TypeOK, Worker
<1>2. b \in Seqs \X Seqs
  BY <1>1 DEF TypeOK
<1>3. job' = [job EXCEPT ![c] = Started("msg", b[1], b[2])]
  BY DEF Consume
<1>4. job \in [Worker -> Job \cup {None}] /\ queue' = queue /\ handled' = handled
  BY DEF TypeOK, Consume, history
<1>5. ASSUME NEW v \in Worker, job'[v] # None, job'[v].key = "msg"
      PROVE  \E k \in DOMAIN queue :
               /\ queue[k][2] = job'[v].last /\ queue[k][1] <= job'[v].next
               /\ \A s \in queue[k][1] .. job'[v].next - 1 : s \in Sent'
  <2>1. CASE v = c
    <3>1. job'[v].next = b[1] /\ job'[v].last = b[2]
      BY <1>1, <1>3, <1>4, <2>1 DEF Started
    <3>2. b[1] <= b[1] /\ b[1] .. b[1] - 1 = {}
      BY <1>2 DEF Seqs
    <3> QED
      BY <1>1, <3>1, <3>2
  <2>2. CASE v # c
    <3>1. job'[v] = job[v]
      BY <1>3, <1>4, <2>2
    <3> QED
      BY <1>5, <3>1 DEF AtWork
  <2> QED
    BY <2>1, <2>2
<1>6. AtWork'
  BY <1>4, <1>5 DEF AtWork
<1>7. BatchStored'
  BY <1>4 DEF BatchStored
<1> QED
  BY <1>6, <1>7

\* Every step keeps the invariant.
LEMMA StepStored ==
  TypeOK /\ NoDocument /\ AtWork /\ BatchStored /\ [Next]_vars => AtWork' /\ BatchStored'
<1> SUFFICES ASSUME TypeOK, NoDocument, AtWork, BatchStored, [Next]_vars
             PROVE  AtWork' /\ BatchStored'
  OBVIOUS
<1>1. Sent \subseteq Sent'
  BY StepTable, SentKept
<1> DEFINE Kept(v) == \/ job'[v] = None
                      \/ job'[v].key # "msg"
                      \/ /\ job[v] # None /\ job[v].key = "msg"
                         /\ job'[v].next = job[v].next /\ job'[v].last = job[v].last
           Longer  == queue' = queue \/ \E q \in Seqs \X Seqs : queue' = Append(queue, q)
           Others  == handled' = handled /\ Longer /\ \A v \in Worker : Kept(v)
<1>2. CASE \E w \in Worker : Update(w)
  BY <1>1, <1>2, UpdateStored
<1>3. CASE \E w \in Worker : Create(w)
  BY <1>1, <1>3, CreateStored
<1>4. CASE \E c \in Consumer : Consume(c)
  BY <1>1, <1>4, ConsumeStored
<1>5. CASE Others
  BY <1>1, <1>5, OthersStored
<1>6. job \in [Worker -> Job \cup {None}]
  BY DEF TypeOK
<1> USE DEF vars, history
<1>7. ASSUME handled' = handled, queue' = queue, job' = job PROVE Others
  BY <1>7
<1>8. CASE \/ \E n \in 1 .. MaxBatch : Malloc(n)
           \/ RawSet \/ Rebalance \/ UNCHANGED vars
           \/ \E r \in Reader : FindSeqs(r) \/ Fill(r) \/ \E s \in Seqs : Lock(r, s)
           \/ \E s \in Seqs : Evict(s)
  <2>1. handled' = handled /\ queue' = queue /\ job' = job
    BY <1>8 DEF Malloc, RawSet, Rebalance, FindSeqs, Fill, Lock, Evict
  <2> QED
    BY <1>5, <1>7, <2>1
<1>9. CASE MsgToMongoMQ
  <2>1. <<Queued + 1, maxSeq>> \in Seqs \X Seqs
    BY <1>9, QueuedType DEF MsgToMongoMQ, TypeOK, Seqs
  <2>2. Longer
    BY <1>9, <2>1 DEF MsgToMongoMQ
  <2>3. handled' = handled /\ job' = job
    BY <1>9 DEF MsgToMongoMQ
  <2> QED
    BY <1>5, <2>2, <2>3
<1>10. ASSUME NEW w \in Worker, handled' = handled, queue' = queue,
              \A v \in Worker \ {w} : job'[v] = job[v],
              job'[w] = None \/ job'[w].key # "msg"
       PROVE  Others
  BY <1>10
<1>11. ASSUME NEW w \in Worker, Abort(w) PROVE AtWork' /\ BatchStored'
  <2>1. job' = [job EXCEPT ![w] = None] /\ handled' = handled /\ queue' = queue
    BY <1>11 DEF Abort
  <2>2. job'[w] = None /\ \A v \in Worker \ {w} : job'[v] = job[v]
    BY <1>6, <2>1
  <2> QED
    BY <1>5, <1>10, <2>1, <2>2
<1>12. ASSUME NEW m \in Marker, NEW s \in Seqs, RevokeMsg(m, s) \/ DeleteUserMsgsBySeqs(m, s)
       PROVE  AtWork' /\ BatchStored'
  <2>1. m \in Worker
    BY DEF Worker
  <2>2. /\ \/ job' = [job EXCEPT ![m] = Started("revoke", s, s)]
           \/ job' = [job EXCEPT ![m] = Started("del", s, s)]
        /\ handled' = handled /\ queue' = queue
    BY <1>12 DEF RevokeMsg, DeleteUserMsgsBySeqs
  <2>3. job'[m].key # "msg" /\ \A v \in Worker \ {m} : job'[v] = job[v]
    BY <1>6, <2>1, <2>2 DEF Started
  <2> QED
    BY <1>5, <1>10, <2>1, <2>2, <2>3
<1>13. ASSUME NEW m \in Marker, PushUnique(m) PROVE AtWork' /\ BatchStored'
  <2>1. m \in Worker /\ job[m] # None /\ job[m].key = "del"
    BY <1>13 DEF PushUnique, Worker
  <2>2. job' = [job EXCEPT ![m].step = "tag"] /\ handled' = handled /\ queue' = queue
    BY <1>13 DEF PushUnique
  <2>3. job[m] \in Job
    BY <1>6, <2>1
  <2>4. job'[m].key # "msg" /\ \A v \in Worker \ {m} : job'[v] = job[v]
    BY <1>6, <2>1, <2>2, <2>3 DEF Job
  <2> QED
    BY <1>5, <1>10, <2>1, <2>2, <2>4
<1>14. ASSUME NEW m \in Marker, DelMessageBySeqs(m) PROVE AtWork' /\ BatchStored'
  <2>1. m \in Worker
    BY DEF Worker
  <2>2. job' = [job EXCEPT ![m] = None] /\ handled' = handled /\ queue' = queue
    BY <1>14 DEF DelMessageBySeqs
  <2>3. job'[m] = None /\ \A v \in Worker \ {m} : job'[v] = job[v]
    BY <1>6, <2>1, <2>2
  <2> QED
    BY <1>5, <1>10, <2>1, <2>2, <2>3
<1> QED
  BY <1>2, <1>3, <1>4, <1>8, <1>9, <1>11, <1>12, <1>13, <1>14 DEF Next

\* A batch whose consumer returned without an error is in Mongo to the last
\* message, also where a revocation or a consumer that lost the partition
\* created the document first (BatchInsertBlock, its retry after a duplicate key).
THEOREM HandledIsStored == Spec => []BatchStored
<1>1. Init => AtWork /\ BatchStored
  BY DEF Init, AtWork, BatchStored
<1>2. Init => NoDocument
  BY DEF Init, NoDocument
<1>3. TypeOK /\ NoDocument /\ [Next]_vars => NoDocument'
  BY StepTable
<1> QED
  BY <1>1, <1>2, <1>3, StepStored, TypeCorrect, PTL DEF Spec

-----------------------------------------------------------------------------
(* The cache and the documents.                                            *)

USE ReaderAssumption

\* A call has marked s and is about to invalidate its cache entry.
Tagging(s) == \E m \in Marker : job[m] # None /\ job[m].step = "tag" /\ job[m].next = s

\* The reader r has fetched a value for s.
Fetched(r, s) == read[r] # None /\ read[r].seq = s /\ read[r].value # None

\* What is written is cached or has been, and marks are of one message each.
Jobs ==
  /\ \A k \in DOMAIN queue : queue[k][2] <= cachedTo
  /\ \A w \in Worker : job[w] # None =>
       /\ job[w].last <= cachedTo
       /\ job[w].key # "msg" => w \in Marker /\ job[w].next = job[w].last

\* Of a message that is not cached yet nothing is known.
Unknown ==
  \A s \in Seqs : s > cachedTo =>
    /\ Element(s) = Blank
    /\ cache[s].value.kind # "msg"
    /\ \A r \in Reader : Fetched(r, s) => read[r].value.kind # "msg"

\* What is cached, or will be by the reader that has the lock, agrees with Mongo.
Agreed(s) ==
  /\ cache[s].lock = "free" /\ cache[s].value.kind = "msg" => cache[s].value = Shown(Element(s))
  /\ \A r \in Reader : cache[s].lock = r /\ Fetched(r, s) /\ read[r].value.kind = "msg"
                         => read[r].value = Shown(Element(s))

AgreeInv == Jobs /\ Unknown /\ \A s \in Seqs \ torn : Tagging(s) \/ Agreed(s)

\* Nobody has looked for a message before Mongo had it unless it is exposed.
Unexposed(s) ==
  /\ cache[s].value.kind # "gone"
  /\ s \notin Sent => cache[s].lock = "free" /\ (s <= cachedTo => cache[s].value.kind = "msg")
  /\ \A r \in Reader : cache[s].lock = r /\ Fetched(r, s) => read[r].value.kind # "gone"

HiddenInv == \A s \in Seqs \ exposed : Unexposed(s)

\* A seq is determined by its place.
LEMMA OnePlace ==
  ASSUME NEW x \in Seqs, NEW y \in Seqs,
         GetDocID(x) = GetDocID(y), GetMsgIndex(x) = GetMsgIndex(y)
  PROVE  x = y
<1> DEFINE a == x - 1  b == y - 1
<1>1. a \in Nat /\ b \in Nat
  BY DEF Seqs
<1>2. a \div DocSize = b \div DocSize /\ a % DocSize = b % DocSize
  BY DEF GetDocID, GetMsgIndex
<1>3. a = DocSize * (a \div DocSize) + (a % DocSize) /\ b = DocSize * (b \div DocSize) + (b % DocSize)
  BY <1>1, Division
<1> HIDE DEF a, b
<1>4. a = b
  BY <1>2, <1>3
<1> QED
  BY <1>4 DEF a, b, Seqs

\* A job that goes on keeps its key and its last seq; that of a mark is written.
LEMMA AdvancedKeeps ==
  ASSUME NEW j \in Job, NEW s \in Seqs, j.next <= s, s <= j.last, NEW t \in BOOLEAN,
         j.key # "msg" => j.next = j.last
  PROVE  /\ Advanced(j, s, t) # None =>
              Advanced(j, s, t).key = j.key /\ Advanced(j, s, t).last = j.last
         /\ j.key # "msg" =>
              /\ Advanced(j, s, t) # None
              /\ Advanced(j, s, t).step = "tag" /\ Advanced(j, s, t).next = j.last
<1>0. j.next \in Seqs /\ j.last \in Seqs
  BY DEF Job
<1>1. CASE s < j.last
  <2>1. Advanced(j, s, t) = [j EXCEPT !.next = s + 1, !.tryUpdate = t,
                                      !.step = IF t THEN "update" ELSE "create"]
    BY <1>1 DEF Advanced
  <2>2. j.key = "msg"
    BY <1>0, <1>1 DEF Seqs
  <2> QED
    BY <2>1, <2>2 DEF Job
<1>2. CASE ~(s < j.last) /\ j.key # "msg"
  <2>1. Advanced(j, s, t) = [j EXCEPT !.step = "tag", !.next = j.last]
    BY <1>2 DEF Advanced
  <2>2. Advanced(j, s, t) \in Job
    BY <1>0, <2>1 DEF Job
  <2> QED
    BY <1>0, <2>1, <2>2 DEF Job
<1>3. CASE ~(s < j.last) /\ j.key = "msg"
  BY <1>3 DEF Advanced
<1> QED
  BY <1>1, <1>2, <1>3

\* A worker's step: what it does to the jobs.
LEMMA JobStep ==
  ASSUME TypeOK, Jobs, NEW w \in Worker, NEW r, job[w] # None,
         job' = [job EXCEPT ![w] = r], UNCHANGED <<queue, cachedTo>>,
         r # None => /\ r.key = job[w].key /\ r.last = job[w].last
                     /\ r.key # "msg" => r.next = r.last
  PROVE  Jobs'
<1>1. job'[w] = r /\ \A v \in Worker \ {w} : job'[v] = job[v]
  BY DEF TypeOK
<1> QED
  BY <1>1 DEF Jobs

\* Calls that are about to invalidate an entry still are.
LEMMA TaggingKept ==
  ASSUME TypeOK, NEW w \in Worker, NEW r, job' = [job EXCEPT ![w] = r],
         job[w] = None \/ job[w].step # "tag" \/ (r # None /\ r.step = "tag" /\ r.next = job[w].next)
  PROVE  \A s \in Seqs : Tagging(s) => Tagging(s)'
<1>1. job'[w] = r /\ \A v \in Worker \ {w} : job'[v] = job[v]
  BY DEF TypeOK
<1>2. Marker \subseteq Worker
  BY DEF Worker
<1> QED
  BY <1>1, <1>2 DEF Tagging

\* Writes that concern only cached messages, and whose marks are announced by a
\* call that is going to invalidate, keep the cache in agreement.
Announces ==
  /\ Jobs'
  /\ \A s \in Seqs : Tagging(s) => Tagging(s)'
  /\ \A s \in Seqs : \/ Element(s)' = Element(s)
                     \/ s <= cachedTo /\ (Shown(Element(s))' = Shown(Element(s)) \/ Tagging(s)')

LEMMA WritesAgree ==
  ASSUME TypeOK, AgreeInv, Announces, UNCHANGED <<cachedTo, cache, read, torn>>
  PROVE  AgreeInv'
<1>1. \A r \in Reader, s \in Seqs : Fetched(r, s)' <=> Fetched(r, s)
  BY DEF Fetched
<1>2. cachedTo' = cachedTo /\ cache' = cache /\ read' = read /\ torn' = torn
  OBVIOUS
<1>3. Unknown'
  <2>1. ASSUME NEW s \in Seqs, s > cachedTo
        PROVE  Element(s)' = Blank
    BY <2>1 DEF AgreeInv, Unknown, Announces, TypeOK, Seqs
  <2> QED
    BY <1>1, <1>2, <2>1 DEF AgreeInv, Unknown
<1>4. ASSUME NEW s \in Seqs \ torn', ~Tagging(s)' PROVE Agreed(s)'
  <2>1. Agreed(s)
    BY <1>2, <1>4 DEF AgreeInv, Announces
  <2>2. Shown(Element(s))' = Shown(Element(s))
    BY <1>4 DEF Announces, Shown
  <2> QED
    BY <1>1, <1>2, <2>1, <2>2 DEF Agreed
<1> QED
  BY <1>3, <1>4 DEF AgreeInv, Announces

LEMMA UpdateAnnounces ==
  ASSUME TypeOK, Jobs, NEW w \in Worker, Update(w)
  PROVE  Announces
<1>1. PICK j \in Job : j = job[w] /\ j # None
  BY DEF Update, TypeOK
<1>2. /\ j.next \in Seqs /\ j.last \in Seqs /\ j.next <= j.last
      /\ j.last <= cachedTo /\ j.tryUpdate \in BOOLEAN
      /\ j.key # "msg" => w \in Marker /\ j.next = j.last
  BY <1>1 DEF Jobs, Job, TypeOK
<1>3. UNCHANGED <<queue, cachedTo>> /\ j.step = "update"
  BY <1>1 DEF Update
<1>4. CASE GetDocID(j.next) \in docs
  <2> DEFINE r == Advanced(j, j.next, j.tryUpdate)
  <2>1. job' = [job EXCEPT ![w] = r]
    BY <1>1, <1>4 DEF Update, Proceed
  <2>2. /\ r # None => r.key = j.key /\ r.last = j.last
        /\ j.key # "msg" => r # None /\ r.step = "tag" /\ r.next = j.last
    BY <1>2, AdvancedKeeps DEF Seqs
  <2> HIDE DEF r
  <2>3. Jobs'
    BY <1>1, <1>2, <1>3, <2>1, <2>2, JobStep
  <2>4. \A s \in Seqs : Tagging(s) => Tagging(s)'
    BY <1>1, <1>3, <2>1, TaggingKept
  <2>5. ASSUME j.key # "msg" PROVE Tagging(j.next)'
    <3>1. job'[w] = r
      BY <2>1 DEF TypeOK
    <3> QED
      BY <1>2, <2>2, <2>5, <3>1 DEF Tagging
  <2>6. elem' = [elem EXCEPT ![GetDocID(j.next)][GetMsgIndex(j.next)] =
                   IF j.key = "msg" THEN [@ EXCEPT !.msg = TRUE] ELSE [@ EXCEPT !.revoke = TRUE]]
    BY <1>1, <1>4 DEF Update
  <2>7. \A s \in Seqs \ {j.next} : Element(s)' = Element(s)
    <3>1. TAKE s \in Seqs \ {j.next}
    <3>2. GetDocID(s) # GetDocID(j.next) \/ GetMsgIndex(s) # GetMsgIndex(j.next)
      BY <1>2, OnePlace
    <3> QED
      BY <1>2, <2>6, <3>2, Place DEF Element, TypeOK
  <2>8. ASSUME j.key = "msg" PROVE Shown(Element(j.next))' = Shown(Element(j.next))
    <3>1. Element(j.next)' = [Element(j.next) EXCEPT !.msg = TRUE]
      BY <1>2, <2>6, <2>8, Place DEF Element, TypeOK
    <3>2. Element(j.next) \in MsgInfo
      BY <1>2, Place DEF Element, TypeOK
    <3> QED
      BY <3>1, <3>2 DEF Shown, MsgInfo
  <2>9. j.next <= cachedTo
    BY <1>2 DEF Seqs, TypeOK
  <2> QED
    BY <1>2, <2>3, <2>4, <2>5, <2>7, <2>8, <2>9 DEF Announces
<1>5. CASE GetDocID(j.next) \notin docs
  <2>1. job' = [job EXCEPT ![w] = [job[w] EXCEPT !.step = "create"]] /\ elem' = elem
    BY <1>1, <1>5 DEF Update, TypeOK
  <2>2. Jobs'
    BY <1>1, <1>2, <1>3, <2>1, JobStep DEF Job
  <2>3. \A s \in Seqs : Tagging(s) => Tagging(s)'
    BY <1>1, <1>3, <2>1, TaggingKept
  <2>4. \A s \in Seqs : Element(s)' = Element(s)
    BY <2>1 DEF Element
  <2> QED
    BY <2>2, <2>3, <2>4 DEF Announces
<1> QED
  BY <1>4, <1>5

LEMMA CreateAnnounces ==
  ASSUME TypeOK, NoDocument, Jobs, NEW w \in Worker, Create(w)
  PROVE  Announces
<1>1. PICK j \in Job : j = job[w] /\ j # None
  BY DEF Create, TypeOK
<1>2. /\ j.next \in Seqs /\ j.last \in Seqs /\ j.next <= j.last
      /\ j.last <= cachedTo
      /\ j.key # "msg" => w \in Marker /\ j.next = j.last
  BY <1>1 DEF Jobs, Job, TypeOK
<1>3. UNCHANGED <<queue, cachedTo>> /\ j.step = "create"
  BY <1>1 DEF Create
<1>4. CASE GetDocID(j.next) \in docs
  <2>1. job' = [job EXCEPT ![w] = [[job[w] EXCEPT !.tryUpdate = TRUE] EXCEPT !.step = "update"]]
        /\ elem' = elem
    BY <1>1, <1>4 DEF Create, TypeOK
  <2>2. Jobs'
    BY <1>1, <1>2, <1>3, <2>1, JobStep DEF Job
  <2>3. \A s \in Seqs : Tagging(s) => Tagging(s)'
    BY <1>1, <1>3, <2>1, TaggingKept
  <2>4. \A s \in Seqs : Element(s)' = Element(s)
    BY <2>1 DEF Element
  <2> QED
    BY <2>2, <2>3, <2>4 DEF Announces
<1>5. CASE GetDocID(j.next) \notin docs
  <2>1. PICK top \in Block(j) : Proceed(w, top, FALSE)
    BY <1>1, <1>5 DEF Create
  <2>2. top \in Seqs /\ j.next <= top /\ top <= j.last /\ GetDocID(top) = GetDocID(j.next)
    BY <1>2 DEF Block, Seqs
  <2> DEFINE r == Advanced(j, top, FALSE)
  <2>3. job' = [job EXCEPT ![w] = r]
    BY <1>1, <2>1 DEF Proceed
  <2>4. /\ r # None => r.key = j.key /\ r.last = j.last
        /\ j.key # "msg" => r # None /\ r.step = "tag" /\ r.next = j.last
    BY <1>2, <2>2, AdvancedKeeps
  <2> HIDE DEF r
  <2>5. Jobs'
    BY <1>1, <1>2, <1>3, <2>3, <2>4, JobStep
  <2>6. \A s \in Seqs : Tagging(s) => Tagging(s)'
    BY <1>1, <1>3, <2>3, TaggingKept
  <2>7. ASSUME j.key # "msg" PROVE Tagging(j.next)'
    <3>1. job'[w] = r
      BY <2>3 DEF TypeOK
    <3> QED
      BY <1>2, <2>4, <2>7, <3>1 DEF Tagging
  <2>8. elem' = [elem EXCEPT ![GetDocID(j.next)] = NewDoc(j)]
    BY <1>1, <1>5 DEF Create
  <2>9. ASSUME NEW s \in Seqs, Element(s)' # Element(s)
        PROVE  s \in Block(j) /\ Element(s) = Blank /\ Element(s)' = NewDoc(j)[GetMsgIndex(s)]
    <3>1. GetDocID(s) = GetDocID(j.next)
      BY <1>2, <2>8, <2>9, Place DEF Element, TypeOK
    <3>2. Element(s) = Blank /\ Element(s)' = NewDoc(j)[GetMsgIndex(s)]
      BY <1>2, <1>5, <2>8, <3>1, Place DEF Element, NoDocument, TypeOK
    <3>3. PICK x \in Block(j) : GetMsgIndex(x) = GetMsgIndex(s)
      BY <2>9, <3>2, Place DEF NewDoc
    <3>4. x \in Seqs /\ GetDocID(x) = GetDocID(s)
      BY <1>2, <3>1, <3>3 DEF Block, Seqs
    <3> QED
      BY <3>2, <3>3, <3>4, OnePlace
  <2>10. ASSUME NEW s \in Seqs, Element(s)' # Element(s)
         PROVE  s <= cachedTo /\ (Shown(Element(s))' = Shown(Element(s)) \/ Tagging(s)')
    <3>1. s \in Block(j) /\ Element(s) = Blank /\ Element(s)' = NewDoc(j)[GetMsgIndex(s)]
      BY <2>9, <2>10
    <3>2. s <= j.last /\ j.next <= s
      BY <3>1 DEF Block
    <3>3. s <= cachedTo
      BY <1>2, <3>2 DEF Seqs, TypeOK
    <3>4. CASE j.key = "msg"
      <4>1. Element(s)' = [Blank EXCEPT !.msg = TRUE]
        BY <2>10, <3>1, <3>4, Place DEF NewDoc
      <4> QED
        BY <3>1, <3>3, <4>1 DEF Shown, Blank
    <3>5. CASE j.key # "msg"
      <4>1. s = j.next
        BY <1>2, <3>2, <3>5 DEF Seqs
      <4> QED
        BY <2>7, <3>3, <3>5, <4>1
    <3> QED
      BY <3>4, <3>5
  <2> QED
    BY <2>5, <2>6, <2>10 DEF Announces
<1> QED
  BY <1>4, <1>5

LEMMA PushUniqueAnnounces ==
  ASSUME TypeOK, Jobs, NEW m \in Marker, PushUnique(m)
  PROVE  Announces
<1>1. PICK j \in Job : j = job[m] /\ j # None /\ j.key = "del"
  BY DEF PushUnique, TypeOK, Worker
<1>2. /\ m \in Worker /\ j.next \in Seqs /\ j.next <= j.last /\ j.last <= cachedTo
      /\ j.next = j.last
  BY <1>1 DEF Jobs, Job, TypeOK, Worker
<1>3. UNCHANGED <<queue, cachedTo>> /\ j.step = "update"
  BY <1>1 DEF PushUnique
<1> DEFINE r == [j EXCEPT !.step = "tag"]
<1>4. job' = [job EXCEPT ![m] = r]
  BY <1>1, <1>2 DEF PushUnique, TypeOK
<1>5. r \in Job /\ r.key = j.key /\ r.last = j.last /\ r.next = j.next /\ r.step = "tag"
  BY <1>1 DEF Job
<1> HIDE DEF r
<1>6. Jobs'
  BY <1>1, <1>2, <1>3, <1>4, <1>5, JobStep
<1>7. \A s \in Seqs : Tagging(s) => Tagging(s)'
  BY <1>1, <1>2, <1>3, <1>4, TaggingKept
<1>8. Tagging(j.next)'
  <2>1. job'[m] = r
    BY <1>2, <1>4 DEF TypeOK
  <2> QED
    BY <1>5, <2>1 DEF Tagging
<1>9. \A s \in Seqs \ {j.next} : Element(s)' = Element(s)
  <2>1. TAKE s \in Seqs \ {j.next}
  <2>2. GetDocID(s) # GetDocID(j.next) \/ GetMsgIndex(s) # GetMsgIndex(j.next)
    BY <1>2, OnePlace
  <2>3. elem' = elem \/ elem' = [elem EXCEPT ![GetDocID(j.next)][GetMsgIndex(j.next)].del = TRUE]
    BY <1>1 DEF PushUnique
  <2> QED
    BY <1>2, <2>2, <2>3, Place DEF Element, TypeOK
<1> QED
  BY <1>2, <1>6, <1>7, <1>8, <1>9 DEF Announces

\* Steps that do not write documents: other calls and the queue.
LEMMA OthersAgree ==
  ASSUME TypeOK, AgreeInv, Jobs', UNCHANGED <<elem, cachedTo, cache, read, torn>>,
         \A s \in Seqs : Tagging(s) => Tagging(s)'
  PROVE  AgreeInv'
<1>1. \A s \in Seqs : Element(s)' = Element(s)
  BY DEF Element
<1> QED
  BY <1>1, WritesAgree DEF Announces

\* Steps of readers and evictions, and caching: one entry changes.
LEMMA EntryAgrees ==
  ASSUME TypeOK, AgreeInv, UNCHANGED <<queue, job, elem, torn>>, NEW s \in Seqs,
         cachedTo' \in {cachedTo, cachedTo + 1},
         \A x \in Seqs \ {s} : cache'[x] = cache[x] /\ \A r \in Reader :
           Fetched(r, x)' => Fetched(r, x) /\ read'[r].value = read[r].value,
         cachedTo' < s =>
           /\ cache'[s].value.kind # "msg"
           /\ \A r \in Reader : Fetched(r, s)' => read'[r].value.kind # "msg",
         s \notin torn /\ ~Tagging(s) => Agreed(s)'
  PROVE  AgreeInv'
<1>1. \A x \in Seqs : Element(x)' = Element(x) /\ (Tagging(x)' <=> Tagging(x))
  BY DEF Element, Tagging
<1>2. cachedTo \in Nat /\ cachedTo' \in Nat /\ cachedTo <= cachedTo'
  BY DEF TypeOK
<1>3. Jobs'
  <2>1. \A k \in DOMAIN queue : queue[k][2] \in Nat
    BY DEF TypeOK, Seqs
  <2>2. \A w \in Worker : job[w] # None => job[w].last \in Nat
    BY DEF TypeOK, Job, Seqs
  <2> QED
    BY <1>2, <2>1, <2>2 DEF AgreeInv, Jobs
<1>4. Unknown'
  <2>1. ASSUME NEW x \in Seqs, x > cachedTo'
        PROVE  /\ Element(x)' = Blank
               /\ cache'[x].value.kind # "msg"
               /\ \A r \in Reader : Fetched(r, x)' => read'[r].value.kind # "msg"
    <3>1. x > cachedTo /\ cachedTo' < x
      BY <1>2, <2>1 DEF Seqs
    <3>2. CASE x = s
      BY <1>1, <3>1, <3>2 DEF AgreeInv, Unknown
    <3>3. CASE x # s
      BY <1>1, <3>1, <3>3 DEF AgreeInv, Unknown
    <3> QED
      BY <3>2, <3>3
  <2> QED
    BY <2>1 DEF Unknown
<1>5. ASSUME NEW x \in Seqs \ torn', ~Tagging(x)' PROVE Agreed(x)'
  <2>1. x \notin torn /\ ~Tagging(x)
    BY <1>1, <1>5
  <2>2. CASE x = s
    BY <2>1, <2>2
  <2>3. CASE x # s
    <3>1. Agreed(x)
      BY <2>1 DEF AgreeInv
    <3>2. Shown(Element(x))' = Shown(Element(x))
      BY <1>1 DEF Shown
    <3> QED
      BY <2>3, <3>1, <3>2 DEF Agreed
  <2> QED
    BY <2>2, <2>3
<1> QED
  BY <1>3, <1>4, <1>5 DEF AgreeInv

\* Reading and caching one message.
LEMMA ReaderAgrees ==
  ASSUME TypeOK, AgreeInv,
         \/ RawSet
         \/ \E r \in Reader : FindSeqs(r) \/ Fill(r) \/ \E s \in Seqs : Lock(r, s)
         \/ \E s \in Seqs : Evict(s)
  PROVE  AgreeInv'
<1> USE DEF mongo, history
<1>0. /\ cache \in [Seqs -> [value : Value, lock : {"free", "tagged"} \cup Reader]]
      /\ read \in [Reader -> [seq : Seqs, value : Value \cup {None}] \cup {None}]
      /\ cachedTo \in Nat
  BY DEF TypeOK
<1>1. \A s \in Seqs : Shown(Element(s)).kind = "msg" /\ (UNCHANGED elem => Shown(Element(s))' = Shown(Element(s)))
  BY DEF Shown, Element
<1>2. CASE RawSet
  <2>1. cachedTo + 1 \in Seqs
    BY <1>0, <1>2 DEF RawSet, TypeOK, Seqs
  <2> DEFINE s == cachedTo + 1
  <2>2. PICK t \in Seqs : t = cachedTo + 1
    BY <2>1
  <2>3. /\ cache' = [cache EXCEPT ![t].value = Kind("msg")] /\ cachedTo' = cachedTo + 1
        /\ UNCHANGED <<queue, job, elem, torn, read>>
    BY <1>2, <2>2 DEF RawSet
  <2>4. /\ \A x \in Seqs \ {t} : cache'[x] = cache[x]
        /\ cache'[t].value = Kind("msg") /\ cache'[t].lock = cache[t].lock
    BY <1>0, <2>3
  <2>5. Element(t) = Blank /\ \A r \in Reader : Fetched(r, t) => read[r].value.kind # "msg"
    BY <1>0, <2>2 DEF AgreeInv, Unknown
  <2>6. Agreed(t)'
    <3>1. Shown(Element(t))' = Kind("msg")
      BY <2>3, <2>5 DEF Shown, Element, Kind, Blank
    <3> QED
      BY <2>3, <2>4, <2>5, <3>1 DEF Agreed, Fetched
  <2>7. ~(cachedTo' < t)
    BY <1>0, <2>2, <2>3
  <2> QED
    BY <2>3, <2>4, <2>6, <2>7, EntryAgrees DEF Fetched
<1>3. ASSUME NEW r \in Reader, NEW s \in Seqs, Lock(r, s) PROVE AgreeInv'
  <2>1. /\ cache' = [cache EXCEPT ![s].lock = r]
        /\ read' = [read EXCEPT ![r] = [seq |-> s, value |-> None]]
        /\ UNCHANGED <<queue, job, elem, torn, cachedTo>>
    BY <1>3 DEF Lock
  <2>2. /\ \A x \in Seqs \ {s} : cache'[x] = cache[x]
        /\ cache'[s].value = cache[s].value /\ cache'[s].lock = r
        /\ r # "free"
    BY <1>0, <2>1, ReaderAssumption
  <2>3. \A q \in Reader, x \in Seqs : Fetched(q, x)' => Fetched(q, x) /\ read'[q] = read[q] /\ q # r
    BY <1>0, <2>1 DEF Fetched
  <2>4. Agreed(s)'
    BY <2>2, <2>3 DEF Agreed
  <2>5. cachedTo' < s => /\ cache'[s].value.kind # "msg"
                         /\ \A q \in Reader : Fetched(q, s)' => read'[q].value.kind # "msg"
    BY <1>0, <2>1, <2>2, <2>3 DEF AgreeInv, Unknown, Seqs
  <2> QED
    BY <2>1, <2>2, <2>3, <2>4, <2>5, EntryAgrees
<1>4. ASSUME NEW r \in Reader, FindSeqs(r) PROVE AgreeInv'
  <2>1. PICK s \in Seqs : s = read[r].seq /\ read[r] # None
    BY <1>0, <1>4 DEF FindSeqs
  <2> DEFINE v == IF s \in Sent THEN Shown(Element(s)) ELSE Kind("gone")
  <2>2. /\ read' = [read EXCEPT ![r].value = v]
        /\ UNCHANGED <<queue, job, elem, torn, cachedTo, cache>>
    BY <1>4, <2>1 DEF FindSeqs
  <2>3. /\ \A q \in Reader \ {r} : read'[q] = read[q]
        /\ read'[r].seq = s /\ read'[r].value = v
    BY <1>0, <2>1, <2>2
  <2>4. v.kind = "msg" => v = Shown(Element(s)) /\ s \in Sent
    BY DEF Kind
  <2> HIDE DEF v
  <2>5. \A x \in Seqs \ {s}, q \in Reader : Fetched(q, x)' => Fetched(q, x) /\ read'[q] = read[q]
    BY <2>3 DEF Fetched
  <2>6. \A q \in Reader \ {r} : Fetched(q, s)' => Fetched(q, s) /\ read'[q] = read[q]
    BY <2>3 DEF Fetched
  <2>7. s \notin torn /\ ~Tagging(s) => Agreed(s)'
    <3>1. ASSUME s \notin torn, ~Tagging(s) PROVE Agreed(s)'
      <4>1. Agreed(s)
        BY <3>1 DEF AgreeInv
      <4> QED
        BY <1>1, <2>2, <2>3, <2>4, <2>6, <4>1 DEF Agreed
    <3> QED
      BY <3>1
  <2>8. ASSUME cachedTo' < s
        PROVE  /\ cache'[s].value.kind # "msg"
               /\ \A q \in Reader : Fetched(q, s)' => read'[q].value.kind # "msg"
    <3>1. /\ Element(s) = Blank /\ cache[s].value.kind # "msg"
          /\ \A q \in Reader : Fetched(q, s) => read[q].value.kind # "msg"
      BY <1>0, <2>2, <2>8 DEF AgreeInv, Unknown, Seqs
    <3>2. s \notin Sent
      BY <3>1 DEF Sent, Blank
    <3> QED
      BY <2>2, <2>3, <2>4, <2>6, <3>1, <3>2
  <2> QED
    BY <2>2, <2>5, <2>7, <2>8, EntryAgrees
<1>5. ASSUME NEW r \in Reader, Fill(r) PROVE AgreeInv'
  <2>1. PICK s \in Seqs : s = read[r].seq /\ read[r] # None /\ read[r].value # None
    BY <1>0, <1>5 DEF Fill
  <2>2. /\ cache' = IF cache[s].lock = r
                      THEN [cache EXCEPT ![s] = [value |-> read[r].value, lock |-> "free"]]
                      ELSE cache
        /\ read' = [read EXCEPT ![r] = None]
        /\ UNCHANGED <<queue, job, elem, torn, cachedTo>>
    BY <1>5, <2>1 DEF Fill
  <2>3. /\ \A x \in Seqs \ {s} : cache'[x] = cache[x]
        /\ cache[s].lock # r => cache'[s] = cache[s]
        /\ cache[s].lock = r => cache'[s].value = read[r].value /\ cache'[s].lock = "free"
    BY <1>0, <2>2
  <2>4. \A q \in Reader, x \in Seqs : Fetched(q, x)' => Fetched(q, x) /\ read'[q] = read[q]
    BY <1>0, <2>2 DEF Fetched
  <2>5. Fetched(r, s)
    BY <2>1 DEF Fetched
  <2>6. s \notin torn /\ ~Tagging(s) => Agreed(s)'
    <3>1. ASSUME s \notin torn, ~Tagging(s) PROVE Agreed(s)'
      <4>1. Agreed(s) /\ Shown(Element(s))' = Shown(Element(s))
        BY <1>1, <2>2, <3>1 DEF AgreeInv
      <4>2. CASE cache[s].lock = r
        BY <2>3, <2>5, <4>1, <4>2, ReaderAssumption DEF Agreed
      <4>3. CASE cache[s].lock # r
        BY <2>3, <2>4, <4>1, <4>3 DEF Agreed
      <4> QED
        BY <4>2, <4>3
    <3> QED
      BY <3>1
  <2>7. ASSUME cachedTo' < s
        PROVE  /\ cache'[s].value.kind # "msg"
               /\ \A q \in Reader : Fetched(q, s)' => read'[q].value.kind # "msg"
    <3>1. /\ cache[s].value.kind # "msg"
          /\ \A q \in Reader : Fetched(q, s) => read[q].value.kind # "msg"
      BY <1>0, <2>2, <2>7 DEF AgreeInv, Unknown, Seqs
    <3> QED
      BY <2>3, <2>4, <2>5, <3>1
  <2> QED
    BY <2>2, <2>3, <2>4, <2>6, <2>7, EntryAgrees
<1>6. ASSUME NEW s \in Seqs, Evict(s) PROVE AgreeInv'
  <2>1. /\ cache' = [cache EXCEPT ![s] = [value |-> Kind("none"), lock |-> "free"]]
        /\ UNCHANGED <<queue, job, elem, torn, cachedTo, read>>
    BY <1>6 DEF Evict
  <2>2. /\ \A x \in Seqs \ {s} : cache'[x] = cache[x]
        /\ cache'[s].value.kind = "none" /\ cache'[s].lock = "free"
    BY <1>0, <2>1 DEF Kind
  <2>3. Agreed(s)'
    BY <2>2, ReaderAssumption DEF Agreed
  <2>4. cachedTo' < s => \A q \in Reader : Fetched(q, s)' => read'[q].value.kind # "msg"
    BY <1>0, <2>1 DEF AgreeInv, Unknown, Fetched, Seqs
  <2> QED
    BY <2>1, <2>2, <2>3, <2>4, EntryAgrees DEF Fetched
<1> QED
  BY <1>2, <1>3, <1>4, <1>5, <1>6

\* Every step keeps the agreement.
LEMMA StepAgrees == TypeOK /\ NoDocument /\ AgreeInv /\ [Next]_vars => AgreeInv'
<1> SUFFICES ASSUME TypeOK, NoDocument, AgreeInv, [Next]_vars PROVE AgreeInv'
  OBVIOUS
<1> USE DEF mongo, history
<1>0. /\ job \in [Worker -> Job \cup {None}] /\ cachedTo \in Nat
      /\ cache \in [Seqs -> [value : Value, lock : {"free", "tagged"} \cup Reader]]
      /\ Marker \subseteq Worker /\ Consumer \subseteq Worker /\ Jobs
  BY DEF TypeOK, Worker, AgreeInv
<1>1. ASSUME NEW w \in Worker, Update(w) PROVE AgreeInv'
  <2>1. UNCHANGED <<cachedTo, cache, read, torn>>
    BY <1>1 DEF Update
  <2> QED
    BY <1>0, <1>1, <2>1, UpdateAnnounces, WritesAgree
<1>2. ASSUME NEW w \in Worker, Create(w) PROVE AgreeInv'
  <2>1. UNCHANGED <<cachedTo, cache, read, torn>>
    BY <1>2 DEF Create
  <2> QED
    BY <1>0, <1>2, <2>1, CreateAnnounces, WritesAgree
<1>3. ASSUME NEW m \in Marker, PushUnique(m) PROVE AgreeInv'
  <2>1. UNCHANGED <<cachedTo, cache, read, torn>>
    BY <1>3 DEF PushUnique
  <2> QED
    BY <1>0, <1>3, <2>1, PushUniqueAnnounces, WritesAgree
<1>4. ASSUME UNCHANGED <<queue, job, elem, cachedTo, cache, read, torn>> PROVE AgreeInv'
  <2>1. Jobs' /\ \A s \in Seqs : Tagging(s) => Tagging(s)'
    BY <1>0, <1>4 DEF Jobs, Tagging
  <2> QED
    BY <1>4, <2>1, OthersAgree
<1>5. ASSUME NEW n \in 1 .. MaxBatch, Malloc(n) PROVE AgreeInv'
  BY <1>4, <1>5 DEF Malloc
<1>6. CASE Rebalance \/ UNCHANGED vars
  BY <1>4, <1>6 DEF Rebalance, vars
<1>7. CASE MsgToMongoMQ
  <2>1. /\ queue' = Append(queue, <<Queued + 1, maxSeq>>) /\ maxSeq = cachedTo
        /\ UNCHANGED <<job, elem, cachedTo, cache, read, torn>>
    BY <1>7 DEF MsgToMongoMQ
  <2>2. queue \in Seq(Seqs \X Seqs) /\ cachedTo <= cachedTo
    BY <1>0 DEF TypeOK
  <2>3. ASSUME NEW k \in DOMAIN queue' PROVE queue'[k][2] <= cachedTo
    <3>1. (k \in DOMAIN queue /\ queue'[k] = queue[k]) \/ queue'[k] = <<Queued + 1, maxSeq>>
      BY <2>1, <2>2
    <3> QED
      BY <1>0, <2>1, <2>2, <3>1 DEF Jobs
  <2>4. Jobs' /\ \A s \in Seqs : Tagging(s) => Tagging(s)'
    BY <1>0, <2>1, <2>3 DEF Jobs, Tagging
  <2> QED
    BY <2>1, <2>4, OthersAgree
<1>8. ASSUME NEW w \in Worker, NEW r, job' = [job EXCEPT ![w] = r], job[w] = None,
             r.last <= cachedTo, r.key # "msg" => w \in Marker /\ r.next = r.last,
             UNCHANGED <<queue, elem, cachedTo, cache, read, torn>>
      PROVE  AgreeInv'
  <2>1. job'[w] = r /\ \A v \in Worker \ {w} : job'[v] = job[v]
    BY <1>0, <1>8
  <2>2. Jobs'
    BY <1>0, <1>8, <2>1 DEF Jobs
  <2>3. \A s \in Seqs : Tagging(s) => Tagging(s)'
    BY <1>8, TaggingKept
  <2> QED
    BY <1>8, <2>2, <2>3, OthersAgree
<1>9. ASSUME NEW c \in Consumer, Consume(c) PROVE AgreeInv'
  <2>1. at + 1 \in DOMAIN queue
    BY <1>9 DEF Consume, TypeOK
  <2> DEFINE r == Started("msg", queue[at + 1][1], queue[at + 1][2])
  <2>2. r.last <= cachedTo /\ r.key = "msg"
    BY <1>0, <2>1 DEF Started, Jobs
  <2>3. job' = [job EXCEPT ![c] = r] /\ job[c] = None
        /\ UNCHANGED <<queue, elem, cachedTo, cache, read, torn>>
    BY <1>9 DEF Consume
  <2> HIDE DEF r
  <2> QED
    BY <1>0, <1>8, <2>2, <2>3
<1>10. ASSUME NEW m \in Marker, NEW s \in Seqs, RevokeMsg(m, s) PROVE AgreeInv'
  <2>1. job' = [job EXCEPT ![m] = Started("revoke", s, s)] /\ job[m] = None
        /\ UNCHANGED <<queue, elem, cachedTo, cache, read, torn>>
    BY <1>10 DEF RevokeMsg
  <2>2. s <= cachedTo
    <3>1. cache[s].value.kind = "msg" \/ Element(s).msg
      BY <1>10 DEF RevokeMsg, Visible, Kind, Sent
    <3> QED
      BY <1>0, <3>1 DEF AgreeInv, Unknown, Blank, Seqs
  <2>3. Started("revoke", s, s).last = s /\ Started("revoke", s, s).next = s
    BY DEF Started
  <2> QED
    BY <1>0, <1>8, <2>1, <2>2, <2>3
<1>11. ASSUME NEW m \in Marker, NEW s \in Seqs, DeleteUserMsgsBySeqs(m, s) PROVE AgreeInv'
  <2>1. job' = [job EXCEPT ![m] = Started("del", s, s)] /\ job[m] = None /\ s <= cachedTo
        /\ UNCHANGED <<queue, elem, cachedTo, cache, read, torn>>
    BY <1>11 DEF DeleteUserMsgsBySeqs
  <2>2. Started("del", s, s).last = s /\ Started("del", s, s).next = s
    BY DEF Started
  <2> QED
    BY <1>0, <1>8, <2>1, <2>2
<1>12. ASSUME NEW m \in Marker, DelMessageBySeqs(m) PROVE AgreeInv'
  <2>1. PICK t \in Seqs : t = job[m].next
    BY <1>0, <1>12 DEF DelMessageBySeqs, Job
  <2>2. /\ job' = [job EXCEPT ![m] = None] /\ cache' = [cache EXCEPT ![t].lock = "tagged"]
        /\ UNCHANGED <<queue, elem, cachedTo, read, torn>>
    BY <1>12, <2>1 DEF DelMessageBySeqs
  <2>3. job'[m] = None /\ \A v \in Worker \ {m} : job'[v] = job[v]
    BY <1>0, <2>2
  <2>4. Jobs'
    BY <1>0, <2>2, <2>3 DEF Jobs
  <2>5. /\ \A x \in Seqs \ {t} : cache'[x] = cache[x]
        /\ cache'[t].value = cache[t].value /\ cache'[t].lock = "tagged"
    BY <1>0, <2>2
  <2>6. \A x \in Seqs : Element(x)' = Element(x) /\ Shown(Element(x))' = Shown(Element(x))
    BY <2>2 DEF Element, Shown
  <2>7. \A r \in Reader, x \in Seqs : Fetched(r, x)' <=> Fetched(r, x)
    BY <2>2 DEF Fetched
  <2>8. Unknown'
    BY <2>2, <2>5, <2>6, <2>7 DEF AgreeInv, Unknown
  <2>9. ASSUME NEW x \in Seqs \ torn', ~Tagging(x)' PROVE Agreed(x)'
    <3>1. CASE x = t
      BY <2>5, <3>1, ReaderAssumption DEF Agreed
    <3>2. CASE x # t
      <4>1. ~Tagging(x)
        BY <1>0, <2>1, <2>3, <2>9, <3>2 DEF Tagging
      <4>2. Agreed(x)
        BY <2>2, <4>1 DEF AgreeInv
      <4> QED
        BY <2>2, <2>5, <2>6, <2>7, <3>2, <4>2 DEF Agreed
    <3> QED
      BY <3>1, <3>2
  <2> QED
    BY <2>4, <2>8, <2>9 DEF AgreeInv
<1>13. ASSUME NEW w \in Worker, Abort(w) PROVE AgreeInv'
  <2>1. /\ job' = [job EXCEPT ![w] = None] /\ UNCHANGED <<queue, elem, cachedTo, cache, read>>
        /\ torn' = IF job[w].step = "tag" THEN torn \cup {job[w].next} ELSE torn
    BY <1>13 DEF Abort
  <2>2. job'[w] = None /\ \A v \in Worker \ {w} : job'[v] = job[v]
    BY <1>0, <2>1
  <2>3. Jobs'
    BY <1>0, <2>1, <2>2 DEF Jobs
  <2>4. \A x \in Seqs : Element(x)' = Element(x) /\ Shown(Element(x))' = Shown(Element(x))
    BY <2>1 DEF Element, Shown
  <2>5. \A r \in Reader, x \in Seqs : Fetched(r, x)' <=> Fetched(r, x)
    BY <2>1 DEF Fetched
  <2>6. Unknown'
    BY <2>1, <2>4, <2>5 DEF AgreeInv, Unknown
  <2>7. ASSUME NEW x \in Seqs \ torn', ~Tagging(x)' PROVE Agreed(x)'
    <3>1. x \notin torn /\ ~Tagging(x)
      BY <1>0, <2>1, <2>2, <2>7 DEF Tagging
    <3> QED
      BY <2>1, <2>4, <2>5, <3>1 DEF AgreeInv, Agreed
  <2> QED
    BY <2>3, <2>6, <2>7 DEF AgreeInv
<1> QED
  BY <1>1, <1>2, <1>3, <1>5, <1>6, <1>7, <1>9, <1>10, <1>11, <1>12, <1>13, ReaderAgrees DEF Next

LEMMA InitAgrees == Init => AgreeInv /\ HiddenInv
<1> SUFFICES ASSUME Init PROVE AgreeInv /\ HiddenInv
  OBVIOUS
<1>1. /\ \A s \in Seqs : cache[s].value.kind = "none" /\ cache[s].lock = "free"
      /\ \A r \in Reader : read[r] = None
      /\ \A w \in Worker : job[w] = None
      /\ cachedTo = 0 /\ queue = << >>
  BY DEF Init, Kind
<1>2. \A s \in Seqs : Element(s) = Blank
  BY Place DEF Init, Element
<1>3. Jobs /\ Unknown
  BY <1>1, <1>2 DEF Jobs, Unknown, Fetched
<1>4. \A s \in Seqs : Agreed(s) /\ Unexposed(s)
  BY <1>1 DEF Agreed, Unexposed, Fetched, Seqs
<1> QED
  BY <1>3, <1>4 DEF AgreeInv, HiddenInv

-----------------------------------------------------------------------------
(* Messages that read as deleted.                                          *)

\* Steps that leave cache and readers alone.
LEMMA OthersHide ==
  ASSUME HiddenInv, Sent \subseteq Sent', exposed \subseteq exposed',
         UNCHANGED <<cachedTo, cache, read>>
  PROVE  HiddenInv'
<1>1. \A r \in Reader, s \in Seqs : Fetched(r, s)' <=> Fetched(r, s)
  BY DEF Fetched
<1> QED
  BY <1>1 DEF HiddenInv, Unexposed

\* Steps that change one entry, or what readers have fetched for it.
LEMMA EntryHides ==
  ASSUME HiddenInv, Sent \subseteq Sent', exposed \subseteq exposed', UNCHANGED cachedTo,
         NEW s \in Seqs, s \notin exposed' => Unexposed(s)',
         \A x \in Seqs \ {s} : cache'[x] = cache[x] /\ \A r \in Reader :
           Fetched(r, x)' => Fetched(r, x) /\ read'[r].value = read[r].value
  PROVE  HiddenInv'
<1>1. ASSUME NEW x \in Seqs \ exposed' PROVE Unexposed(x)'
  <2>1. CASE x = s
    BY <1>1, <2>1
  <2>2. CASE x # s
    <3>1. Unexposed(x)
      BY DEF HiddenInv
    <3> QED
      BY <2>2, <3>1 DEF Unexposed
  <2> QED
    BY <2>1, <2>2
<1> QED
  BY <1>1 DEF HiddenInv

\* Every step keeps what is not exposed from being looked for too early.
LEMMA StepHides ==
  TypeOK /\ NoDocument /\ HiddenInv /\ [Next]_vars => HiddenInv'
<1> SUFFICES ASSUME TypeOK, NoDocument, HiddenInv, [Next]_vars PROVE HiddenInv'
  OBVIOUS
<1> USE DEF mongo, history
<1>0. /\ cache \in [Seqs -> [value : Value, lock : {"free", "tagged"} \cup Reader]]
      /\ read \in [Reader -> [seq : Seqs, value : Value \cup {None}] \cup {None}]
      /\ job \in [Worker -> Job \cup {None}] /\ Marker \subseteq Worker
      /\ cachedTo \in Nat
  BY DEF TypeOK, Worker
<1>1. Sent \subseteq Sent'
  BY StepTable, SentKept
<1>2. ASSUME UNCHANGED <<cachedTo, cache, read, exposed>> PROVE HiddenInv'
  BY <1>1, <1>2, OthersHide
<1>3. CASE \/ \E n \in 1 .. MaxBatch : Malloc(n)
           \/ MsgToMongoMQ \/ Rebalance \/ UNCHANGED vars
  BY <1>2, <1>3 DEF Malloc, MsgToMongoMQ, Rebalance, vars
<1>4. CASE \E w \in Worker : Update(w) \/ Create(w) \/ Abort(w)
  <2>1. UNCHANGED <<cachedTo, cache, read, exposed>>
    BY <1>4 DEF Update, Create, Abort
  <2> QED
    BY <1>2, <2>1
<1>5. CASE \/ \E c \in Consumer : Consume(c)
           \/ \E m \in Marker : \/ \E s \in Seqs : RevokeMsg(m, s) \/ DeleteUserMsgsBySeqs(m, s)
                                \/ PushUnique(m)
  <2>1. UNCHANGED <<cachedTo, cache, read, exposed>>
    BY <1>5 DEF Consume, RevokeMsg, DeleteUserMsgsBySeqs, PushUnique
  <2> QED
    BY <1>2, <2>1
<1>6. CASE RawSet
  <2>1. PICK t \in Seqs : t = cachedTo + 1
    BY <1>0, <1>6 DEF RawSet, TypeOK, Seqs
  <2>2. /\ cache' = [cache EXCEPT ![t].value = Kind("msg")] /\ cachedTo' = cachedTo + 1
        /\ UNCHANGED <<read, exposed>>
    BY <1>6, <2>1 DEF RawSet
  <2>3. /\ \A x \in Seqs \ {t} : cache'[x] = cache[x]
        /\ cache'[t].value.kind = "msg" /\ cache'[t].lock = cache[t].lock
    BY <1>0, <2>2 DEF Kind
  <2>4. ASSUME NEW x \in Seqs \ exposed' PROVE Unexposed(x)'
    <3>1. Unexposed(x)
      BY <2>2 DEF HiddenInv
    <3>2. \A r \in Reader : Fetched(r, x)' <=> Fetched(r, x)
      BY <2>2 DEF Fetched
    <3>3. CASE x = t
      BY <1>1, <2>2, <2>3, <3>1, <3>2, <3>3 DEF Unexposed
    <3>4. CASE x # t
      <4>1. x <= cachedTo' => x <= cachedTo
        BY <1>0, <2>1, <2>2, <3>4 DEF Seqs
      <4> QED
        BY <1>1, <2>2, <2>3, <3>1, <3>2, <3>4, <4>1 DEF Unexposed
    <3> QED
      BY <3>3, <3>4
  <2> QED
    BY <2>4 DEF HiddenInv
<1>7. ASSUME NEW r \in Reader, NEW s \in Seqs, Lock(r, s) PROVE HiddenInv'
  <2>1. /\ cache' = [cache EXCEPT ![s].lock = r]
        /\ read' = [read EXCEPT ![r] = [seq |-> s, value |-> None]]
        /\ exposed' = (IF s \notin Sent /\ s > cachedTo THEN exposed \cup {s} ELSE exposed)
        /\ UNCHANGED cachedTo
        /\ cache[s].lock # "free" \/ cache[s].value = Kind("none")
    BY <1>7 DEF Lock
  <2>2. /\ \A x \in Seqs \ {s} : cache'[x] = cache[x]
        /\ cache'[s].value = cache[s].value /\ cache'[s].lock = r
    BY <1>0, <2>1
  <2>3. \A q \in Reader, x \in Seqs : Fetched(q, x)' => Fetched(q, x) /\ read'[q] = read[q] /\ q # r
    BY <1>0, <2>1 DEF Fetched
  <2>4. ASSUME s \notin exposed' PROVE Unexposed(s)'
    <3>1. Unexposed(s)
      BY <2>1, <2>4 DEF HiddenInv
    <3>2. s \in Sent \/ s <= cachedTo
      BY <1>0, <2>1, <2>4 DEF Seqs
    <3>3. s \in Sent
      BY <2>1, <3>1, <3>2 DEF Unexposed, Kind
    <3> QED
      BY <1>1, <2>2, <2>3, <3>1, <3>3 DEF Unexposed
  <2> QED
    BY <1>1, <2>1, <2>2, <2>3, <2>4, EntryHides
<1>8. ASSUME NEW r \in Reader, FindSeqs(r) PROVE HiddenInv'
  <2>1. PICK s \in Seqs : s = read[r].seq /\ read[r] # None
    BY <1>0, <1>8 DEF FindSeqs
  <2> DEFINE v == IF s \in Sent THEN Shown(Element(s)) ELSE Kind("gone")
  <2>2. /\ read' = [read EXCEPT ![r].value = v]
        /\ UNCHANGED <<exposed, cachedTo, cache>>
    BY <1>8, <2>1 DEF FindSeqs
  <2>3. /\ \A q \in Reader \ {r} : read'[q] = read[q]
        /\ read'[r].seq = s /\ read'[r].value = v
    BY <1>0, <2>1, <2>2
  <2>4. s \in Sent => v.kind # "gone"
    BY DEF Shown
  <2> HIDE DEF v
  <2>5. \A x \in Seqs \ {s}, q \in Reader : Fetched(q, x)' => Fetched(q, x) /\ read'[q] = read[q]
    BY <2>3 DEF Fetched
  <2>6. \A q \in Reader \ {r} : Fetched(q, s)' => Fetched(q, s) /\ read'[q] = read[q]
    BY <2>3 DEF Fetched
  <2>7. ASSUME s \notin exposed' PROVE Unexposed(s)'
    <3>1. Unexposed(s)
      BY <2>2, <2>7 DEF HiddenInv
    <3>2. cache[s].lock = r => s \in Sent
      BY <3>1, ReaderAssumption DEF Unexposed
    <3> QED
      BY <1>1, <2>2, <2>3, <2>4, <2>6, <3>1, <3>2 DEF Unexposed
  <2> QED
    BY <1>1, <2>2, <2>5, <2>7, EntryHides
<1>9. ASSUME NEW r \in Reader, Fill(r) PROVE HiddenInv'
  <2>1. PICK s \in Seqs : s = read[r].seq /\ read[r] # None /\ read[r].value # None
    BY <1>0, <1>9 DEF Fill
  <2>2. /\ cache' = IF cache[s].lock = r
                      THEN [cache EXCEPT ![s] = [value |-> read[r].value, lock |-> "free"]]
                      ELSE cache
        /\ read' = [read EXCEPT ![r] = None]
        /\ UNCHANGED <<exposed, cachedTo>>
    BY <1>9, <2>1 DEF Fill
  <2>3. /\ \A x \in Seqs \ {s} : cache'[x] = cache[x]
        /\ cache[s].lock # r => cache'[s] = cache[s]
        /\ cache[s].lock = r => cache'[s].value = read[r].value /\ cache'[s].lock = "free"
    BY <1>0, <2>2
  <2>4. \A q \in Reader, x \in Seqs : Fetched(q, x)' => Fetched(q, x) /\ read'[q] = read[q]
    BY <1>0, <2>2 DEF Fetched
  <2>5. Fetched(r, s)
    BY <2>1 DEF Fetched
  <2>6. ASSUME s \notin exposed' PROVE Unexposed(s)'
    <3>1. Unexposed(s)
      BY <2>2, <2>6 DEF HiddenInv
    <3>2. CASE cache[s].lock = r
      <4>1. s \in Sent
        BY <3>1, <3>2, ReaderAssumption DEF Unexposed
      <4> QED
        BY <1>1, <2>3, <2>5, <3>1, <3>2, <4>1, ReaderAssumption DEF Unexposed
    <3>3. CASE cache[s].lock # r
      BY <1>1, <2>2, <2>3, <2>4, <3>1, <3>3 DEF Unexposed
    <3> QED
      BY <3>2, <3>3
  <2> QED
    BY <1>1, <2>2, <2>3, <2>4, <2>6, EntryHides
<1>10. ASSUME NEW s \in Seqs, Evict(s) PROVE HiddenInv'
  <2>1. /\ cache' = [cache EXCEPT ![s] = [value |-> Kind("none"), lock |-> "free"]]
        /\ exposed' = (IF s \in Sent THEN exposed ELSE exposed \cup {s})
        /\ UNCHANGED <<cachedTo, read>>
    BY <1>10 DEF Evict
  <2>2. /\ \A x \in Seqs \ {s} : cache'[x] = cache[x]
        /\ cache'[s].value.kind = "none" /\ cache'[s].lock = "free"
    BY <1>0, <2>1 DEF Kind
  <2>3. ASSUME s \notin exposed' PROVE Unexposed(s)'
    <3>1. s \in Sent
      BY <2>1, <2>3
    <3> QED
      BY <1>1, <2>2, <3>1, ReaderAssumption DEF Unexposed
  <2> QED
    BY <1>1, <2>1, <2>2, <2>3, EntryHides DEF Fetched
<1>11. ASSUME NEW m \in Marker, DelMessageBySeqs(m) PROVE HiddenInv'
  <2>1. PICK s \in Seqs : s = job[m].next
    BY <1>0, <1>11 DEF DelMessageBySeqs, Job
  <2>2. /\ cache' = [cache EXCEPT ![s].lock = "tagged"]
        /\ exposed' = (IF s \in Sent THEN exposed ELSE exposed \cup {s})
        /\ UNCHANGED <<cachedTo, read>>
    BY <1>11, <2>1 DEF DelMessageBySeqs
  <2>3. /\ \A x \in Seqs \ {s} : cache'[x] = cache[x]
        /\ cache'[s].value = cache[s].value /\ cache'[s].lock = "tagged"
    BY <1>0, <2>2
  <2>4. ASSUME s \notin exposed' PROVE Unexposed(s)'
    <3>1. s \in Sent /\ Unexposed(s)
      BY <2>2, <2>4 DEF HiddenInv
    <3> QED
      BY <1>1, <2>3, <3>1, ReaderAssumption DEF Unexposed
  <2> QED
    BY <1>1, <2>2, <2>3, <2>4, EntryHides DEF Fetched
<1> QED
  BY <1>3, <1>4, <1>5, <1>6, <1>7, <1>8, <1>9, <1>10, <1>11 DEF Next

\* The cache and Mongo, together with the types.
LEMMA CacheInvariant == Spec => [](TypeOK /\ AgreeInv /\ HiddenInv)
<1>1. Init => NoDocument
  BY DEF Init, NoDocument
<1>2. TypeOK /\ NoDocument /\ [Next]_vars => NoDocument'
  BY StepTable
<1> QED
  BY <1>1, <1>2, InitAgrees, StepAgrees, StepHides, TypeCorrect, PTL DEF Spec

\* A cached message that readers are given has the revocation and the deletion
\* Mongo has (CacheAgrees): a mark is in Mongo before its call takes the lock from
\* whoever has read the message without it (RevokeMsg, DelMessageBySeqs).
THEOREM CacheShowsMarks == Spec => []CacheAgrees
<1>1. ASSUME TypeOK, AgreeInv PROVE CacheAgrees
  <2>1. ASSUME NEW s \in Sent \ torn
        PROVE  Tagging(s) \/ Agreed(s)
    BY <1>1 DEF AgreeInv, Sent
  <2> QED
    BY <2>1 DEF CacheAgrees, Tagging, Agreed
<1> QED
  BY <1>1, CacheInvariant, PTL

\* A message that Mongo has reads as deleted only if somebody looked for it before
\* it was stored, which its cache entry prevents as long as it is there (NotHidden;
\* SetMessageBySeqs, GetMessageBySeqs).
THEOREM NoMessageHidden == Spec => []NotHidden
<1>1. ASSUME HiddenInv PROVE NotHidden
  BY <1>1 DEF HiddenInv, Unexposed, NotHidden, Sent
<1> QED
  BY <1>1, CacheInvariant, PTL

=============================================================================
