------------------------- MODULE OnlineStatusProofs -------------------------
(***************************************************************************)
(* TLAPS proofs about OnlineStatus: when nothing was lost and nothing is on *)
(* its way, Redis shows exactly the platforms that are connected, and the  *)
(* push service knows the membership it was last told of.                  *)
(***************************************************************************)
EXTENDS OnlineStatus, FiniteSetTheorems, TLAPS

-----------------------------------------------------------------------------
(* The push service.                                                       *)

\* Nothing waits to be announced.
Silent == \A g \in Gateway : announce[g] = << >>

\* What Push will believe when it has read its messages.
ToldInv ==
  /\ ~subscribed => inbox[Push] = << >>
  /\ ~loaded => view = {}
  /\ ~astray /\ Silent =>
       /\ inbox[Push] = << >> /\ loaded => view = Members
       /\ inbox[Push] # << >> => inbox[Push][Len(inbox[Push])] = Members

-----------------------------------------------------------------------------
(* The reports of one gateway, in the order in which they will be written: *)
(* of the request r, the queue q, the batch b and the channel c.           *)

Pipe(c, b, q, r) ==
  c \in Seq(Status) /\ b \in Seq(Status) /\ q \in Seq(Seq(Status)) /\ r \in Seq(Status)

Pending(c, b, q, r) == c # << >> \/ b # << >> \/ q # << >> \/ r # << >>

\* The last status of s names the platforms on.
Names(s, on) == s[Len(s)].online = on

\* The last report of a gateway names the platforms it has clients of.
Latest(on, c, b, q, r) ==
  /\ \A k \in 1 .. Len(q) : q[k] # << >>
  /\ c # << >> => Names(c, on)
  /\ b # << >> => c # << >> \/ Names(b, on)
  /\ q # << >> => c # << >> \/ b # << >> \/ Names(q[Len(q)], on)
  /\ r # << >> => c # << >> \/ b # << >> \/ q # << >> \/ Names(r, on)

\* A status that takes p away, and a sequence with one.
Off(s, p) == p \in s.offline /\ p \notin s.online
OffIn(s, p) == \E n \in 1 .. Len(s) : Off(s[n], p)

\* Whatever brings p is followed by something that takes it away.
Ends(s, p) ==
  \A m \in 1 .. Len(s) : p \in s[m].online => \E n \in m + 1 .. Len(s) : Off(s[n], p)

OffQueued(q, p) == \E k \in 1 .. Len(q) : OffIn(q[k], p)

\* A report that takes p away is on its way.
Leaving(p, c, b, q, r) == OffIn(c, p) \/ OffIn(b, p) \/ OffQueued(q, p) \/ OffIn(r, p)

\* The reports of a gateway that has no client of p end without it.
Gone(p, c, b, q, r) ==
  /\ Ends(c, p)
  /\ Ends(b, p) \/ OffIn(c, p)
  /\ \A k \in 1 .. Len(q) :
       \/ Ends(q[k], p)
       \/ OffIn(c, p) \/ OffIn(b, p)
       \/ \E l \in k + 1 .. Len(q) : OffIn(q[l], p)
  /\ Ends(r, p) \/ OffIn(c, p) \/ OffIn(b, p) \/ OffQueued(q, p)

Accurate(on, c, b, q, r) ==
  Latest(on, c, b, q, r) /\ \A p \in Platform \ on : Gone(p, c, b, q, r)

\* A message without p is on its way to g, which will report p again.
Asked(g, p) ==
  \/ \E h \in Gateway : announce[h] # << >> /\ p \notin announce[h][1]
  \/ \E n \in 1 .. Len(inbox[g]) : p \notin inbox[g][n]

\* A connected platform is live, or about to be reported.
Shown(g, p) == zset[p] = "live" \/ Pending(ch[g], batch[g], queue[g], request[g]) \/ Asked(g, p)

\* A live platform is connected, or about to be taken away.
Live(p) ==
  \E g \in Gateway :
    \/ p \in PlatformIDs(clients[g])
    \/ Leaving(p, ch[g], batch[g], queue[g], request[g])

ReportInv ==
  ~lost =>
    /\ \A g \in Gateway :
         /\ Accurate(PlatformIDs(clients[g]), ch[g], batch[g], queue[g], request[g])
         /\ \A p \in PlatformIDs(clients[g]) : Shown(g, p)
    /\ \A p \in Platform : zset[p] = "live" => Live(p)

-----------------------------------------------------------------------------
(* Sequences.                                                              *)

\* A sequence with one more element.
LEMMA Appended ==
  ASSUME NEW S, NEW q \in Seq(S), NEW s \in S
  PROVE  /\ Append(q, s) \in Seq(S) /\ Append(q, s) # << >>
         /\ Len(q) \in Nat /\ Len(Append(q, s)) = Len(q) + 1
         /\ \A n \in 1 .. Len(q) : Append(q, s)[n] = q[n]
         /\ Append(q, s)[Len(q) + 1] = s
  OBVIOUS

\* A sequence without its first element.
LEMMA Taken ==
  ASSUME NEW S, NEW q \in Seq(S), q # << >>
  PROVE  /\ Head(q) \in S /\ Head(q) = q[1]
         /\ Tail(q) \in Seq(S)
         /\ Len(q) \in Nat /\ Len(q) >= 1 /\ Len(Tail(q)) = Len(q) - 1
         /\ \A n \in 1 .. Len(q) - 1 : Tail(q)[n] = q[n + 1]
  OBVIOUS

\* The empty sequence, and the length of any other one.
LEMMA Emptiness ==
  ASSUME NEW S
  PROVE  /\ << >> \in Seq(S) /\ Len(<< >>) = 0
         /\ \A q \in Seq(S) : /\ Len(q) \in Nat
                              /\ (q = << >>) <=> (Len(q) = 0)
                              /\ \A n \in 1 .. Len(q) : q[n] \in S
  OBVIOUS

-----------------------------------------------------------------------------
(* Types.                                                                  *)

\* The status that userMap.push makes.
LEMMA StatusType ==
  ASSUME NEW c, NEW o \in SUBSET Platform
  PROVE  [online |-> PlatformIDs(c), offline |-> o] \in Status
  BY DEF Status, PlatformIDs

\* Init makes the types right.
LEMMA InitType == Init => TypeOK
<1> SUFFICES ASSUME Init PROVE TypeOK
  OBVIOUS
<1>1. changes \in [Platform -> Nat] /\ faults \in Nat
  BY SizesAssumption DEF Init
<1>2. /\ clients \in [Gateway -> [Platform -> Nat]]
      /\ zset \in [Platform -> {"absent", "live", "old"}]
      /\ inbox \in [Gateway \cup {Push} -> Seq(SUBSET Platform)]
      /\ view \subseteq Platform
      /\ subscribed \in BOOLEAN /\ loaded \in BOOLEAN /\ lost \in BOOLEAN /\ astray \in BOOLEAN
  BY Emptiness DEF Init
<1>3. /\ ch \in [Gateway -> Seq(Status)] /\ batch \in [Gateway -> Seq(Status)]
      /\ queue \in [Gateway -> Seq(Seq(Status))] /\ request \in [Gateway -> Seq(Status)]
      /\ announce \in [Gateway -> Seq(SUBSET Platform)]
  BY Emptiness DEF Init
<1>4. ASSUME NEW g \in Gateway
      PROVE  /\ Len(ch[g]) <= ChanSize /\ Len(batch[g]) < BatchSize /\ Len(queue[g]) <= QueueSize
             /\ Len(announce[g]) <= 1
  BY Emptiness, SizesAssumption DEF Init
<1> QED
  BY <1>1, <1>2, <1>3, <1>4 DEF TypeOK

\* userMap.push: the report is the last one of its gateway unless it is lost.
LEMMA PushedReport ==
  ASSUME TypeOK, NEW g \in Gateway, NEW c, NEW o \in SUBSET Platform, Pushed(g, c, o)
  PROVE  /\ ch' \in [Gateway -> Seq(Status)]
         /\ \A h \in Gateway : Len(ch'[h]) <= ChanSize
         /\ \A h \in Gateway \ {g} : ch'[h] = ch[h]
         /\ lost' \in BOOLEAN
         /\ ~lost' => /\ ~lost
                      /\ ch'[g] = Append(ch[g], [online |-> PlatformIDs(c), offline |-> o])
<1> DEFINE s == [online |-> PlatformIDs(c), offline |-> o]
<1>1. s \in Status
  BY StatusType
<1> HIDE DEF s
<1>2. ch \in [Gateway -> Seq(Status)] /\ ch[g] \in Seq(Status) /\ lost \in BOOLEAN
  BY DEF TypeOK
<1>3. CASE Len(ch[g]) < ChanSize
  <2>1. ch' = [ch EXCEPT ![g] = Append(@, s)] /\ lost' = lost
    BY <1>3 DEF Pushed, s
  <2>2. Append(ch[g], s) \in Seq(Status) /\ Len(Append(ch[g], s)) <= ChanSize
    BY <1>1, <1>2, <1>3, Appended, SizesAssumption
  <2>3. ch' \in [Gateway -> Seq(Status)] /\ ch'[g] = Append(ch[g], s)
        /\ \A h \in Gateway \ {g} : ch'[h] = ch[h]
    BY <2>1, <2>2, <1>2
  <2> QED
    BY <2>1, <2>2, <2>3, <1>2 DEF TypeOK, s
<1>4. CASE ~(Len(ch[g]) < ChanSize)
  BY <1>4, <1>2 DEF Pushed, TypeOK
<1> QED
  BY <1>3, <1>4

\* A batch that is handed over is the last one of the queue unless it is lost.
LEMMA EnqueuedBatch ==
  ASSUME TypeOK, NEW g \in Gateway, NEW b \in Seq(Status), Enqueued(g, b)
  PROVE  /\ batch' \in [Gateway -> Seq(Status)] /\ batch'[g] = << >>
         /\ \A h \in Gateway \ {g} : batch'[h] = batch[h]
         /\ queue' \in [Gateway -> Seq(Seq(Status))]
         /\ \A h \in Gateway : Len(queue'[h]) <= QueueSize
         /\ \A h \in Gateway \ {g} : queue'[h] = queue[h]
         /\ lost' \in BOOLEAN
         /\ ~lost' => ~lost /\ queue'[g] = Append(queue[g], b)
<1>1. /\ batch \in [Gateway -> Seq(Status)] /\ lost \in BOOLEAN
      /\ queue \in [Gateway -> Seq(Seq(Status))] /\ queue[g] \in Seq(Seq(Status))
  BY DEF TypeOK
<1>2. /\ batch' \in [Gateway -> Seq(Status)] /\ batch'[g] = << >>
      /\ \A h \in Gateway \ {g} : batch'[h] = batch[h]
  BY <1>1, Emptiness DEF Enqueued
<1>3. CASE Len(queue[g]) < QueueSize
  <2>1. queue' = [queue EXCEPT ![g] = Append(@, b)] /\ lost' = lost
    BY <1>3 DEF Enqueued
  <2>2. Append(queue[g], b) \in Seq(Seq(Status)) /\ Len(Append(queue[g], b)) <= QueueSize
    <3> DEFINE S == Seq(Status)
    <3>1. queue[g] \in Seq(S) /\ b \in S
      BY <1>1
    <3> HIDE DEF S
    <3>2. Append(queue[g], b) \in Seq(S) /\ Len(queue[g]) \in Nat
          /\ Len(Append(queue[g], b)) = Len(queue[g]) + 1
      BY <3>1, Appended
    <3> QED
      BY <3>2, <1>3, SizesAssumption DEF S
  <2>3. queue' \in [Gateway -> Seq(Seq(Status))] /\ queue'[g] = Append(queue[g], b)
        /\ \A h \in Gateway \ {g} : queue'[h] = queue[h]
    BY <2>1, <2>2, <1>1
  <2> QED
    BY <2>1, <2>2, <2>3, <1>1, <1>2 DEF TypeOK
<1>4. CASE ~(Len(queue[g]) < QueueSize)
  BY <1>4, <1>1, <1>2 DEF Enqueued, TypeOK
<1> QED
  BY <1>3, <1>4

\* pushUserState: the status is the last one of the batch, or of the last batch.
LEMMA TakenReport ==
  ASSUME TypeOK, NEW g \in Gateway, NEW s \in Status, PushUserState(g, s)
  PROVE  /\ batch' \in [Gateway -> Seq(Status)]
         /\ \A h \in Gateway : Len(batch'[h]) < BatchSize
         /\ \A h \in Gateway \ {g} : batch'[h] = batch[h]
         /\ queue' \in [Gateway -> Seq(Seq(Status))]
         /\ \A h \in Gateway : Len(queue'[h]) <= QueueSize
         /\ \A h \in Gateway \ {g} : queue'[h] = queue[h]
         /\ lost' \in BOOLEAN
         /\ ~lost' =>
              /\ ~lost
              /\ \/ batch'[g] = Append(batch[g], s) /\ queue'[g] = queue[g]
                 \/ batch'[g] = << >> /\ queue'[g] = Append(queue[g], Append(batch[g], s))
<1>1. /\ batch \in [Gateway -> Seq(Status)] /\ batch[g] \in Seq(Status) /\ lost \in BOOLEAN
      /\ \A h \in Gateway : Len(batch[h]) < BatchSize /\ Len(batch[h]) \in Nat
  BY Emptiness DEF TypeOK
<1>2. /\ Append(batch[g], s) \in Seq(Status)
      /\ Len(Append(batch[g], s)) = Len(batch[g]) + 1
  BY <1>1, Appended
<1>3. CASE Len(batch[g]) + 1 = BatchSize
  <2>1. Enqueued(g, Append(batch[g], s))
    BY <1>3 DEF PushUserState
  <2>2. /\ batch' \in [Gateway -> Seq(Status)] /\ batch'[g] = << >>
        /\ \A h \in Gateway \ {g} : batch'[h] = batch[h]
        /\ queue' \in [Gateway -> Seq(Seq(Status))]
        /\ \A h \in Gateway : Len(queue'[h]) <= QueueSize
        /\ \A h \in Gateway \ {g} : queue'[h] = queue[h]
        /\ lost' \in BOOLEAN
        /\ ~lost' => ~lost /\ queue'[g] = Append(queue[g], Append(batch[g], s))
    BY <2>1, <1>2, EnqueuedBatch
  <2>3. ASSUME NEW h \in Gateway PROVE Len(batch'[h]) < BatchSize
    <3>1. CASE h = g
      BY <3>1, <2>2, SizesAssumption
    <3>2. CASE h # g
      BY <3>2, <2>2, <1>1
    <3> QED
      BY <3>1, <3>2
  <2> QED
    BY <2>2, <2>3
<1>4. CASE Len(batch[g]) + 1 # BatchSize
  <2>1. batch' = [batch EXCEPT ![g] = Append(@, s)] /\ queue' = queue /\ lost' = lost
    BY <1>4 DEF PushUserState
  <2>2. /\ batch' \in [Gateway -> Seq(Status)] /\ batch'[g] = Append(batch[g], s)
        /\ \A h \in Gateway \ {g} : batch'[h] = batch[h]
    BY <2>1, <1>1, <1>2
  <2>3. Len(batch'[g]) < BatchSize
    BY <2>2, <1>1, <1>2, <1>4, SizesAssumption
  <2> QED
    BY <2>1, <2>2, <2>3, <1>1 DEF TypeOK
<1> QED
  BY <1>3, <1>4

\* A gateway's own actions keep the types.
LEMMA LocalType ==
  ASSUME TypeOK, NEW g \in Gateway,
         \/ \E p \in Platform : Set(g, p) \/ DeleteClients(g, p)
         \/ Collect(g) \/ Flush(g) \/ Renew(g) \/ RecvSubChange(g)
  PROVE  TypeOK'
<1> USE DEF local, service, push
<1>0. /\ clients \in [Gateway -> [Platform -> Nat]] /\ changes \in [Platform -> Nat]
      /\ ch \in [Gateway -> Seq(Status)] /\ ch[g] \in Seq(Status) /\ Len(ch[g]) <= ChanSize
      /\ inbox \in [Gateway \cup {Push} -> Seq(SUBSET Platform)]
  BY DEF TypeOK
<1>1. ASSUME NEW p \in Platform, Set(g, p) PROVE TypeOK'
  <2>1. PICK c : c = clients'[g]
    OBVIOUS
  <2>2. Pushed(g, c, {})
    BY <1>1, <2>1 DEF Set
  <2>3. clients' \in [Gateway -> [Platform -> Nat]] /\ changes' \in [Platform -> Nat]
    BY <1>1, <1>0 DEF Set
  <2>4. UNCHANGED <<batch, queue, request, zset, announce, inbox, view, subscribed, loaded, faults, astray>>
    BY <1>1 DEF Set
  <2>5. /\ ch' \in [Gateway -> Seq(Status)] /\ \A h \in Gateway : Len(ch'[h]) <= ChanSize
        /\ lost' \in BOOLEAN
    BY <2>2, PushedReport
  <2> QED
    BY <2>3, <2>4, <2>5 DEF TypeOK
<1>2. ASSUME NEW p \in Platform, DeleteClients(g, p) PROVE TypeOK'
  <2>1. PICK c : c = clients'[g]
    OBVIOUS
  <2>2. Pushed(g, c, {p})
    BY <1>2, <2>1 DEF DeleteClients
  <2>3. clients' \in [Gateway -> [Platform -> Nat]] /\ changes' \in [Platform -> Nat]
    BY <1>2, <1>0 DEF DeleteClients
  <2>4. UNCHANGED <<batch, queue, request, zset, announce, inbox, view, subscribed, loaded, faults, astray>>
    BY <1>2 DEF DeleteClients
  <2>5. /\ ch' \in [Gateway -> Seq(Status)] /\ \A h \in Gateway : Len(ch'[h]) <= ChanSize
        /\ lost' \in BOOLEAN
    BY <2>2, PushedReport
  <2> QED
    BY <2>3, <2>4, <2>5 DEF TypeOK
<1>3. CASE Collect(g)
  <2>1. ch[g] # << >> /\ PushUserState(g, Head(ch[g])) /\ ch' = [ch EXCEPT ![g] = Tail(@)]
    BY <1>3 DEF Collect
  <2>2. Head(ch[g]) \in Status /\ Tail(ch[g]) \in Seq(Status)
        /\ Len(Tail(ch[g])) <= ChanSize
    BY <2>1, <1>0, Taken, SizesAssumption
  <2>3. ch' \in [Gateway -> Seq(Status)] /\ \A h \in Gateway : Len(ch'[h]) <= ChanSize
    BY <2>1, <2>2, <1>0 DEF TypeOK
  <2> QED
    BY <2>1, <2>2, <2>3, <1>3, TakenReport DEF Collect, TypeOK
<1>4. CASE Flush(g)
  <2>1. batch[g] \in Seq(Status) /\ Enqueued(g, batch[g])
    BY <1>4 DEF Flush, TypeOK
  <2>2. /\ batch' \in [Gateway -> Seq(Status)] /\ batch'[g] = << >>
        /\ \A h \in Gateway \ {g} : batch'[h] = batch[h]
        /\ queue' \in [Gateway -> Seq(Seq(Status))]
        /\ \A h \in Gateway : Len(queue'[h]) <= QueueSize
        /\ lost' \in BOOLEAN
    BY <2>1, EnqueuedBatch
  <2>3. ASSUME NEW h \in Gateway PROVE Len(batch'[h]) < BatchSize
    <3>1. CASE h = g
      BY <3>1, <2>2, SizesAssumption
    <3>2. CASE h # g
      BY <3>2, <2>2 DEF TypeOK
    <3> QED
      BY <3>1, <3>2
  <2> QED
    BY <2>2, <2>3, <1>4 DEF Flush, TypeOK
<1>5. CASE Renew(g)
  <2>1. PICK s \in Status : PushUserState(g, s)
    BY <1>5, StatusType DEF Renew
  <2> QED
    BY <2>1, <1>5, TakenReport DEF Renew, TypeOK
<1>6. CASE RecvSubChange(g)
  <2>1. inbox' \in [Gateway \cup {Push} -> Seq(SUBSET Platform)]
    BY <1>6, <1>0, Taken DEF RecvSubChange
  <2>2. CASE UNCHANGED <<ch, lost>>
    BY <2>1, <2>2, <1>6 DEF RecvSubChange, TypeOK
  <2>3. CASE Pushed(g, clients[g], {})
    <3>1. PICK c : c = clients[g]
      OBVIOUS
    <3>2. Pushed(g, c, {})
      BY <2>3, <3>1
    <3> QED
      BY <2>1, <3>2, <1>6, PushedReport DEF RecvSubChange, TypeOK
  <2> QED
    BY <2>2, <2>3, <1>6 DEF RecvSubChange
<1> QED
  BY <1>1, <1>2, <1>3, <1>4, <1>5, <1>6

\* The set after a script of Redis is a set of platforms.
LEMMA ScriptSets == ASSUME NEW s \in Status
                    PROVE  /\ Purged(s) \cup s.online \subseteq Platform /\ Purged(s) \subseteq Members
                           /\ Members \subseteq Platform
  BY DEF Purged, Members, Status

\* The request at hand, the announcement and the sorted set keep their types.
LEMMA ServiceType ==
  ASSUME TypeOK, NEW g \in Gateway, Send(g) \/ Script(g) \/ Publish(g) \/ Fail(g) \/ Crash(g)
  PROVE  TypeOK'
<1> USE DEF local, service, push
<1>0. /\ queue \in [Gateway -> Seq(Seq(Status))] /\ queue[g] \in Seq(Seq(Status))
      /\ request \in [Gateway -> Seq(Status)] /\ request[g] \in Seq(Status)
      /\ announce \in [Gateway -> Seq(SUBSET Platform)]
      /\ announce[g] \in Seq(SUBSET Platform) /\ Len(announce[g]) <= 1
      /\ inbox \in [Gateway \cup {Push} -> Seq(SUBSET Platform)] /\ faults \in Nat
      /\ Len(queue[g]) <= QueueSize
      /\ astray \in BOOLEAN /\ loaded \in BOOLEAN /\ subscribed \in BOOLEAN
  BY DEF TypeOK
<1>1. CASE Send(g)
  <2>1. queue[g] # << >> /\ request' = [request EXCEPT ![g] = Head(queue[g])]
        /\ queue' = [queue EXCEPT ![g] = Tail(@)]
    BY <1>1 DEF Send
  <2> DEFINE S == Seq(Status)
  <2>2. Head(queue[g]) \in S /\ Tail(queue[g]) \in Seq(S) /\ Head(queue[g]) = queue[g][1]
        /\ Len(queue[g]) \in Nat /\ Len(queue[g]) >= 1 /\ Len(Tail(queue[g])) = Len(queue[g]) - 1
    <3>1. queue[g] \in Seq(S)
      BY <1>0
    <3> HIDE DEF S
    <3> QED
      BY <3>1, <2>1, Taken
  <2>3. request' \in [Gateway -> Seq(Status)] /\ queue' \in [Gateway -> Seq(Seq(Status))]
    BY <2>1, <2>2, <1>0
  <2>4. \A h \in Gateway : Len(queue'[h]) <= QueueSize
    BY <2>1, <2>2, <1>0, SizesAssumption DEF TypeOK
  <2> QED
    BY <2>1, <2>3, <2>4, <1>1 DEF Send, TypeOK
<1>2. CASE Script(g)
  <2>1. PICK s : s = Head(request[g])
    OBVIOUS
  <2>2. /\ request[g] # << >>
        /\ request' = [request EXCEPT ![g] = Tail(@)]
        /\ zset' = [p \in Platform |-> IF p \in Purged(s) \cup s.online THEN "live" ELSE "absent"]
        /\ announce' = [announce EXCEPT ![g] =
                          IF Changed(s) THEN <<Purged(s) \cup s.online>> ELSE << >>]
    BY <1>2, <2>1 DEF Script
  <2>3. s \in Status /\ Tail(request[g]) \in Seq(Status)
    BY <2>1, <2>2, <1>0, Taken
  <2>4. PICK m : m = Purged(s) \cup s.online
    OBVIOUS
  <2>5. m \in SUBSET Platform
    BY <2>3, <2>4, ScriptSets
  <2>6. PICK a \in Seq(SUBSET Platform) :
          Len(a) <= 1 /\ announce' = [announce EXCEPT ![g] = a]
    <3>1. CASE Changed(s)
      <4>1. <<m>> \in Seq(SUBSET Platform) /\ Len(<<m>>) <= 1
        BY <2>5
      <4> QED
        BY <4>1, <3>1, <2>2, <2>4
    <3>2. CASE ~Changed(s)
      <4>1. << >> \in Seq(SUBSET Platform) /\ Len(<< >>) <= 1
        OBVIOUS
      <4> QED
        BY <4>1, <3>2, <2>2
    <3> QED
      BY <3>1, <3>2
  <2>7. announce' \in [Gateway -> Seq(SUBSET Platform)] /\ \A h \in Gateway : Len(announce'[h]) <= 1
    BY <2>6, <1>0 DEF TypeOK
  <2>8. request' \in [Gateway -> Seq(Status)]
    BY <2>2, <2>3, <1>0
  <2>9. zset' \in [Platform -> {"absent", "live", "old"}]
    BY <2>2
  <2> QED
    BY <2>7, <2>8, <2>9, <1>2 DEF Script, TypeOK
<1>3. CASE Publish(g)
  <2>1. PICK m : m = announce[g][1]
    OBVIOUS
  <2>2. m \in SUBSET Platform
    BY <1>3, <1>0, <2>1, Emptiness DEF Publish
  <2>3. announce' \in [Gateway -> Seq(SUBSET Platform)] /\ \A h \in Gateway : Len(announce'[h]) <= 1
    <3>1. << >> \in Seq(SUBSET Platform) /\ Len(<< >>) <= 1
      OBVIOUS
    <3>2. announce \in [Gateway -> Seq(SUBSET Platform)] /\ \A h \in Gateway : Len(announce[h]) <= 1
      BY DEF TypeOK
    <3>3. announce' = [announce EXCEPT ![g] = << >>]
      BY <1>3 DEF Publish
    <3> QED
      BY <3>1, <3>2, <3>3
  <2>4. inbox' = [l \in Gateway \cup {Push} |->
                    IF l # Push \/ subscribed THEN Append(inbox[l], m) ELSE inbox[l]]
    BY <1>3, <1>0, <2>1 DEF Publish
  <2>5. ASSUME NEW l \in Gateway \cup {Push}
        PROVE  inbox[l] \in Seq(SUBSET Platform) /\ Append(inbox[l], m) \in Seq(SUBSET Platform)
    BY <1>0, <2>2, Appended
  <2>6. inbox' \in [Gateway \cup {Push} -> Seq(SUBSET Platform)]
    BY <2>4, <2>5
  <2>7. astray' \in BOOLEAN
    <3>1. CASE subscribed
      BY <3>1, <1>3 DEF Publish
    <3>2. CASE ~subscribed
      BY <3>2, <1>3, <1>0 DEF Publish
    <3> QED
      BY <3>1, <3>2
  <2> QED
    BY <2>3, <2>6, <2>7, <1>3 DEF Publish, TypeOK
<1>4. CASE Fail(g)
  <2>1. /\ request' \in [Gateway -> Seq(Status)]
        /\ announce' \in [Gateway -> Seq(SUBSET Platform)]
        /\ \A h \in Gateway : Len(announce'[h]) <= 1
    BY <1>4, <1>0 DEF Fail, TypeOK
  <2>2. faults' \in Nat
    BY <1>4, <1>0 DEF Fail
  <2>3. astray' \in BOOLEAN /\ lost' \in BOOLEAN
    BY <1>4, Zenon DEF Fail
  <2> QED
    BY <2>1, <2>2, <2>3, <1>4 DEF Fail, TypeOK
<1>5. CASE Crash(g)
  <2>1. /\ clients' \in [Gateway -> [Platform -> Nat]]
        /\ inbox' \in [Gateway \cup {Push} -> Seq(SUBSET Platform)]
    BY <1>5, <1>0 DEF Crash, TypeOK
  <2>2. /\ ch' \in [Gateway -> Seq(Status)] /\ batch' \in [Gateway -> Seq(Status)]
        /\ queue' \in [Gateway -> Seq(Seq(Status))]
        /\ \A h \in Gateway : ch'[h] = IF h = g THEN << >> ELSE ch[h]
        /\ \A h \in Gateway : batch'[h] = IF h = g THEN << >> ELSE batch[h]
        /\ \A h \in Gateway : queue'[h] = IF h = g THEN << >> ELSE queue[h]
    BY <1>5, <1>0 DEF Crash, TypeOK
  <2>3. ASSUME NEW h \in Gateway
        PROVE  Len(ch'[h]) <= ChanSize /\ Len(batch'[h]) < BatchSize /\ Len(queue'[h]) <= QueueSize
    <3>1. CASE h = g
      BY <3>1, <2>2, SizesAssumption
    <3>2. CASE h # g
      BY <3>2, <2>2 DEF TypeOK
    <3> QED
      BY <3>1, <3>2
  <2>4. faults' \in Nat /\ lost' = TRUE
    BY <1>5, <1>0 DEF Crash
  <2> QED
    BY <2>1, <2>2, <2>3, <2>4, <1>5 DEF Crash, TypeOK
<1> QED
  BY <1>1, <1>2, <1>3, <1>4, <1>5

\* The listener and the clock keep the types.
LEMMA ListenType ==
  ASSUME TypeOK, Listen \/ (\E p \in Platform : Expire(p)) \/ ExpireKey
  PROVE  TypeOK'
<1> USE DEF local, service, push
<1>0. /\ inbox \in [Gateway \cup {Push} -> Seq(SUBSET Platform)] /\ faults \in Nat
      /\ zset \in [Platform -> {"absent", "live", "old"}]
      /\ Members \subseteq Platform
  BY DEF TypeOK, Members
<1>1. CASE Subscribe
  BY <1>1 DEF Subscribe, TypeOK
<1>2. CASE Load
  <2>1. astray' \in BOOLEAN
    BY <1>2, Zenon DEF Load
  <2> QED
    BY <1>0, <1>2, <2>1 DEF Load, TypeOK
<1>3. CASE LoadFails
  <2>1. astray' \in BOOLEAN
    BY <1>3, Zenon DEF LoadFails
  <2>2. faults' \in Nat
    BY <1>3, <1>0 DEF LoadFails
  <2> QED
    BY <1>3, <2>1, <2>2 DEF LoadFails, TypeOK
<1>4. CASE DoMessage
  <2>1. inbox[Push] \in Seq(SUBSET Platform) /\ inbox[Push] # << >>
    BY <1>0, <1>4 DEF DoMessage
  <2>2. Head(inbox[Push]) \in SUBSET Platform /\ Tail(inbox[Push]) \in Seq(SUBSET Platform)
    BY <2>1, Taken
  <2>3. view' \subseteq Platform /\ inbox' \in [Gateway \cup {Push} -> Seq(SUBSET Platform)]
    BY <1>0, <1>4, <2>2 DEF DoMessage
  <2> QED
    BY <1>4, <2>3 DEF DoMessage, TypeOK
<1>5. ASSUME NEW p \in Platform, Expire(p) PROVE TypeOK'
  <2>1. zset' \in [Platform -> {"absent", "live", "old"}]
    BY <1>0, <1>5 DEF Expire
  <2>2. faults' \in Nat /\ lost' \in BOOLEAN
    <3>1. CASE p \in Connected
      BY <3>1, <1>0, <1>5 DEF Expire
    <3>2. CASE p \notin Connected
      BY <3>2, <1>0, <1>5 DEF Expire, TypeOK
    <3> QED
      BY <3>1, <3>2
  <2> QED
    BY <1>5, <2>1, <2>2 DEF Expire, TypeOK
<1>6. CASE ExpireKey
  BY <1>0, <1>6 DEF ExpireKey, TypeOK
<1> QED
  BY <1>1, <1>2, <1>3, <1>4, <1>5, <1>6 DEF Listen

\* Every step keeps the types.
LEMMA StepType == ASSUME TypeOK, [Next]_vars PROVE TypeOK'
<1>1. CASE UNCHANGED vars
  BY <1>1 DEF vars, local, service, push, TypeOK
<1> QED
  BY <1>1, LocalType, ServiceType, ListenType DEF Next

\* The channels, queues and the sorted set keep their types and their bounds.
THEOREM TypeCorrect == Spec => []TypeOK
  BY InitType, StepType, PTL DEF Spec

-----------------------------------------------------------------------------
(* What Push was told.                                                     *)

\* Init is quiet.
LEMMA InitTold == Init => ToldInv
  BY DEF Init, ToldInv, Members

\* A script that changes nobody's membership is silent, and only that one: the
\* counts that SetUserOnline compares tell.
LEMMA ChangeShows ==
  ASSUME NEW s \in Status, ~Changed(s)
  PROVE  Purged(s) \cup s.online = Members /\ Purged(s) = Members
<1>1. Purged(s) \subseteq Members /\ Members \subseteq Platform
      /\ Purged(s) \cup s.online \subseteq Platform
  BY ScriptSets
<1>2. IsFiniteSet(Members) /\ IsFiniteSet(Purged(s) \cup s.online)
  BY <1>1, FS_Subset, NamesAssumption
<1>3. Cardinality(Members) = Cardinality(Purged(s))
      /\ Cardinality(Purged(s)) = Cardinality(Purged(s) \cup s.online)
  BY DEF Changed
<1>4. Purged(s) = Members
  BY <1>1, <1>2, <1>3, FS_Subset
<1>5. Purged(s) = Purged(s) \cup s.online
  <2>1. Purged(s) \subseteq Purged(s) \cup s.online
    OBVIOUS
  <2> QED
    BY <2>1, <1>2, <1>3, FS_Subset
<1> QED
  BY <1>4, <1>5

\* Where nothing that Push or its messages depend on changes, nothing is to show.
LEMMA ToldKept ==
  ASSUME ToldInv, UNCHANGED <<announce, inbox[Push], view, subscribed, loaded, astray>>,
         Members' = Members
  PROVE  ToldInv'
  BY DEF ToldInv, Silent

\* A gateway's own actions do not concern Push.
LEMMA LocalTold ==
  ASSUME TypeOK, ToldInv, NEW g \in Gateway,
         \/ \E p \in Platform : Set(g, p) \/ DeleteClients(g, p)
         \/ Collect(g) \/ Flush(g) \/ Renew(g) \/ RecvSubChange(g) \/ Send(g) \/ Crash(g)
  PROVE  ToldInv'
<1>1. UNCHANGED <<announce, zset, view, subscribed, loaded, astray>>
  BY DEF Set, DeleteClients, Collect, Flush, Renew, RecvSubChange, Send, Crash, service, push
<1>2. inbox'[Push] = inbox[Push]
  <2>1. CASE RecvSubChange(g) \/ Crash(g)
    BY <2>1, NamesAssumption DEF RecvSubChange, Crash, TypeOK
  <2>2. CASE ~(RecvSubChange(g) \/ Crash(g))
    BY <2>2 DEF Set, DeleteClients, Collect, Flush, Renew, Send
  <2> QED
    BY <2>1, <2>2
<1> QED
  BY <1>1, <1>2, ToldKept DEF Members

\* A script announces the membership when it changes it.
LEMMA ScriptTold == ASSUME TypeOK, ToldInv, NEW g \in Gateway, Script(g) PROVE ToldInv'
<1>1. PICK s : s = Head(request[g])
  OBVIOUS
<1>2. s \in Status
  <2>1. request[g] \in Seq(Status) /\ request[g] # << >>
    BY DEF Script, TypeOK
  <2> QED
    BY <1>1, <2>1, Taken
<1>3. UNCHANGED <<inbox, view, subscribed, loaded, astray>>
  BY DEF Script, push
<1>4. zset' = [p \in Platform |-> IF p \in Purged(s) \cup s.online THEN "live" ELSE "absent"]
  BY <1>1 DEF Script
<1>5. Members' = Purged(s) \cup s.online
  <2>1. Purged(s) \cup s.online \subseteq Platform
    BY <1>2, ScriptSets
  <2> QED
    BY <1>4, <2>1 DEF Members
<1>6. CASE Changed(s)
  <2>1. announce'[g] # << >>
    BY <1>1, <1>6 DEF Script, TypeOK
  <2> QED
    BY <1>3, <2>1 DEF ToldInv, Silent
<1>7. CASE ~Changed(s)
  <2>1. Members' = Members
    BY <1>2, <1>5, <1>7, ChangeShows
  <2>2. announce[g] = << >> /\ announce' = [announce EXCEPT ![g] = << >>]
    BY <1>1, <1>7 DEF Script
  <2>3. announce' = announce
    BY <2>2 DEF TypeOK
  <2> QED
    BY <1>3, <2>1, <2>3, ToldKept
<1> QED
  BY <1>6, <1>7

\* What Push is told is the membership, or it is known that it is not.
LEMMA PublishTold == ASSUME TypeOK, ToldInv, NEW g \in Gateway, Publish(g) PROVE ToldInv'
<1>1. PICK m : m = announce[g][1]
  OBVIOUS
<1>2. /\ inbox'[Push] = IF subscribed THEN Append(inbox[Push], m) ELSE inbox[Push]
      /\ astray' = IF subscribed THEN m # Members ELSE loaded /\ view # Members
      /\ UNCHANGED <<zset, view, subscribed, loaded>>
      /\ inbox[Push] \in Seq(SUBSET Platform)
      /\ m \in SUBSET Platform
  <2>1. announce[g] \in Seq(SUBSET Platform) /\ announce[g] # << >>
    BY DEF Publish, TypeOK
  <2>2. m \in SUBSET Platform
    BY <2>1, <1>1, Emptiness
  <2> QED
    BY <1>1, <2>2 DEF Publish, push, TypeOK
<1>3. Members' = Members
  BY <1>2 DEF Members
<1>4. CASE subscribed
  <2>1. inbox'[Push] # << >> /\ inbox'[Push][Len(inbox'[Push])] = m
    BY <1>2, <1>4, Appended
  <2> QED
    BY <1>2, <1>3, <1>4, <2>1 DEF ToldInv
<1>5. CASE ~subscribed
  BY <1>2, <1>3, <1>5 DEF ToldInv
<1> QED
  BY <1>4, <1>5

\* Push starts, and reads its messages.
LEMMA ListenTold == ASSUME TypeOK, ToldInv, Listen PROVE ToldInv'
<1> USE DEF local, service
<1>1. CASE Subscribe
  BY <1>1 DEF Subscribe, ToldInv, Silent, Members
<1>2. CASE Load
  BY <1>2 DEF Load, ToldInv, Silent, Members
<1>3. CASE LoadFails
  BY <1>3 DEF LoadFails, ToldInv, Silent, Members
<1>4. CASE DoMessage
  <2>1. inbox[Push] \in Seq(SUBSET Platform) /\ inbox[Push] # << >>
    BY <1>4 DEF DoMessage, TypeOK
  <2>2. /\ UNCHANGED <<announce, zset, subscribed, loaded, astray>> /\ loaded
        /\ inbox'[Push] = Tail(inbox[Push]) /\ view' = Head(inbox[Push])
    BY <1>4 DEF DoMessage, TypeOK
  <2>3. Members' = Members
    BY <2>2 DEF Members
  <2>4. PICK q : q = inbox[Push]
    OBVIOUS
  <2>5. /\ Head(q) = q[1] /\ Tail(q) \in Seq(SUBSET Platform)
        /\ Len(q) \in Nat /\ Len(q) >= 1 /\ Len(Tail(q)) = Len(q) - 1
        /\ \A n \in 1 .. Len(q) - 1 : Tail(q)[n] = q[n + 1]
    BY <2>1, <2>4, Taken
  <2>6. CASE Len(q) = 1
    <3>1. Tail(q) = << >> /\ Head(q) = q[Len(q)]
      BY <2>5, <2>6, Emptiness
    <3> QED
      BY <3>1, <2>1, <2>2, <2>3, <2>4 DEF ToldInv, Silent
  <2>7. CASE Len(q) # 1
    <3>1. Tail(q) # << >> /\ Tail(q)[Len(Tail(q))] = q[Len(q)]
      <4>1. Len(q) - 1 \in 1 .. Len(q) - 1 /\ (Len(q) - 1) + 1 = Len(q) /\ Len(Tail(q)) # 0
        BY <2>5, <2>7
      <4>2. Tail(q)[Len(q) - 1] = q[Len(q)]
        BY <2>5, <4>1
      <4> QED
        BY <2>5, <4>1, <4>2, Emptiness
    <3> QED
      BY <3>1, <2>1, <2>2, <2>3, <2>4 DEF ToldInv, Silent
  <2> QED
    BY <2>6, <2>7
<1> QED
  BY <1>1, <1>2, <1>3, <1>4 DEF Listen

\* Every step keeps what Push was told right, or astray.
LEMMA StepTold == ASSUME TypeOK, ToldInv, [Next]_vars PROVE ToldInv'
<1> USE DEF local, service, push
<1>1. ASSUME NEW g \in Gateway, Fail(g) PROVE ToldInv'
  <2>1. UNCHANGED <<zset, inbox, view, subscribed, loaded>>
    BY <1>1 DEF Fail
  <2>2. Members' = Members
    BY <2>1 DEF Members
  <2>3. CASE announce[g] = << >>
    <3>1. announce' = announce
      BY <2>3, <1>1 DEF Fail, TypeOK
    <3>2. ~astray' => ~astray
      BY <1>1, Zenon DEF Fail
    <3> QED
      BY <2>1, <2>2, <3>1, <3>2 DEF ToldInv, Silent
  <2>4. CASE announce[g] # << >>
    <3>1. astray'
      BY <1>1, <2>4, Zenon DEF Fail
    <3> QED
      BY <2>1, <2>2, <3>1 DEF ToldInv
  <2> QED
    BY <2>3, <2>4
<1>2. ASSUME NEW p \in Platform, Expire(p) PROVE ToldInv'
  <2>1. \A q \in Platform : (zset'[q] # "absent") <=> (zset[q] # "absent")
    BY <1>2 DEF Expire, TypeOK
  <2>2. Members' = Members
    BY <2>1 DEF Members
  <2> QED
    BY <1>2, <2>2, ToldKept DEF Expire
<1>3. CASE ExpireKey
  BY <1>3 DEF ExpireKey, ToldInv
<1>4. CASE UNCHANGED vars
  BY <1>4, ToldKept DEF vars, Members
<1> QED
  BY <1>1, <1>2, <1>3, <1>4, LocalTold, ScriptTold, PublishTold, ListenTold DEF Next

\* The push service that has started knows the membership once it has read its
\* messages and nothing waits to be announced (Follows; doSubscribe, doMessage).
THEOREM PushFollows == Spec => []Follows
<1>1. ToldInv => Follows
  BY DEF ToldInv, Silent, Follows
<1> QED
  BY InitType, StepType, InitTold, StepTold, <1>1, PTL DEF Spec

-----------------------------------------------------------------------------
(* How reports move on.                                                    *)

\* One more status at the end.
LEMMA OffAppend ==
  ASSUME NEW q \in Seq(Status), NEW s \in Status, NEW p
  PROVE  OffIn(Append(q, s), p) <=> OffIn(q, p) \/ Off(s, p)
<1> PICK a : a = Append(q, s)
  OBVIOUS
<1>1. /\ Len(q) \in Nat /\ Len(a) = Len(q) + 1
      /\ \A n \in 1 .. Len(q) : a[n] = q[n]
      /\ a[Len(q) + 1] = s
  BY Appended
<1> QED
  BY <1>1 DEF OffIn

LEMMA EndsAppend ==
  ASSUME NEW q \in Seq(Status), NEW s \in Status, NEW p,
         p \notin s.online, Ends(q, p) \/ Off(s, p)
  PROVE  Ends(Append(q, s), p)
<1> PICK a : a = Append(q, s)
  OBVIOUS
<1>1. /\ Len(q) \in Nat /\ Len(a) = Len(q) + 1
      /\ \A n \in 1 .. Len(q) : a[n] = q[n]
      /\ a[Len(q) + 1] = s
  BY Appended
<1>2. ASSUME NEW m \in 1 .. Len(a), p \in a[m].online
      PROVE  \E n \in m + 1 .. Len(a) : Off(a[n], p)
  <2>1. m \in 1 .. Len(q)
    BY <1>1, <1>2
  <2>2. CASE Off(s, p)
    BY <2>1, <2>2, <1>1
  <2>3. CASE Ends(q, p)
    <3>1. PICK n \in m + 1 .. Len(q) : Off(q[n], p)
      BY <2>1, <2>3, <1>1, <1>2 DEF Ends
    <3> QED
      BY <2>1, <3>1, <1>1
  <2> QED
    BY <2>2, <2>3
<1> QED
  BY <1>2 DEF Ends

\* The first status is taken off.
LEMMA OffTail ==
  ASSUME NEW q \in Seq(Status), NEW p, q # << >>
  PROVE  OffIn(q, p) <=> Off(Head(q), p) \/ OffIn(Tail(q), p)
<1> PICK a : a = Tail(q)
  OBVIOUS
<1>1. /\ Head(q) = q[1] /\ Len(q) \in Nat /\ Len(q) >= 1 /\ Len(a) = Len(q) - 1
      /\ \A n \in 1 .. Len(q) - 1 : a[n] = q[n + 1]
  BY Taken
<1>2. ASSUME NEW n \in 1 .. Len(q), Off(q[n], p)
      PROVE  Off(Head(q), p) \/ OffIn(a, p)
  <2>1. CASE n = 1
    BY <2>1, <1>1, <1>2
  <2>2. CASE n # 1
    <3>1. n - 1 \in 1 .. Len(a) /\ a[n - 1] = q[n]
      BY <2>2, <1>1
    <3> QED
      BY <3>1, <1>2 DEF OffIn
  <2> QED
    BY <2>1, <2>2
<1>3. ASSUME NEW n \in 1 .. Len(a), Off(a[n], p)
      PROVE  OffIn(q, p)
  <2>1. n + 1 \in 1 .. Len(q) /\ a[n] = q[n + 1]
    BY <1>1
  <2> QED
    BY <2>1, <1>3 DEF OffIn
<1>4. Off(Head(q), p) => OffIn(q, p)
  BY <1>1 DEF OffIn
<1> QED
  BY <1>2, <1>3, <1>4 DEF OffIn

LEMMA EndsTail ==
  ASSUME NEW q \in Seq(Status), NEW p, q # << >>, Ends(q, p)
  PROVE  Ends(Tail(q), p) /\ (p \in Head(q).online => OffIn(Tail(q), p))
<1> PICK a : a = Tail(q)
  OBVIOUS
<1>1. /\ Head(q) = q[1] /\ Len(q) \in Nat /\ Len(q) >= 1 /\ Len(a) = Len(q) - 1
      /\ \A n \in 1 .. Len(q) - 1 : a[n] = q[n + 1]
  BY Taken
<1>2. ASSUME NEW m \in 1 .. Len(q), p \in q[m].online
      PROVE  \E n \in m .. Len(a) : Off(a[n], p)
  <2>1. PICK n \in m + 1 .. Len(q) : Off(q[n], p)
    BY <1>2 DEF Ends
  <2>2. n - 1 \in m .. Len(a) /\ a[n - 1] = q[n]
    BY <1>1
  <2> QED
    BY <2>1, <2>2
<1>3. ASSUME NEW m \in 1 .. Len(a), p \in a[m].online
      PROVE  \E n \in m + 1 .. Len(a) : Off(a[n], p)
  <2>1. m + 1 \in 1 .. Len(q) /\ a[m] = q[m + 1]
    BY <1>1
  <2> QED
    BY <2>1, <1>2, <1>3
<1>4. p \in Head(q).online => OffIn(a, p)
  <2>1. 1 \in 1 .. Len(q)
    BY <1>1
  <2> QED
    BY <2>1, <1>1, <1>2 DEF OffIn
<1> QED
  BY <1>3, <1>4 DEF Ends

\* Nothing comes of an empty sequence.
LEMMA EndsEmpty == \A p : Ends(<< >>, p) /\ ~OffIn(<< >>, p)
  BY DEF Ends, OffIn

\* One more batch at the end of the queue.
LEMMA QueuedAppend ==
  ASSUME NEW q \in Seq(Seq(Status)), NEW b \in Seq(Status), NEW p
  PROVE  OffQueued(Append(q, b), p) <=> OffQueued(q, p) \/ OffIn(b, p)
<1> DEFINE S == Seq(Status)
<1>0. q \in Seq(S) /\ b \in S
  OBVIOUS
<1> HIDE DEF S
<1> PICK a : a = Append(q, b)
  OBVIOUS
<1>1. /\ Len(q) \in Nat /\ Len(a) = Len(q) + 1
      /\ \A n \in 1 .. Len(q) : a[n] = q[n]
      /\ a[Len(q) + 1] = b
  BY <1>0, Appended
<1>2. OffIn(b, p) => OffQueued(a, p)
  <2>1. Len(q) + 1 \in 1 .. Len(a)
    BY <1>1
  <2> QED
    BY <2>1, <1>1 DEF OffQueued
<1>3. OffQueued(q, p) => OffQueued(a, p)
  <2>1. \A n \in 1 .. Len(q) : n \in 1 .. Len(a) /\ a[n] = q[n]
    BY <1>1
  <2> QED
    BY <2>1 DEF OffQueued
<1>4. ASSUME NEW n \in 1 .. Len(a), OffIn(a[n], p) PROVE OffQueued(q, p) \/ OffIn(b, p)
  <2>1. n \in 1 .. Len(q) \/ n = Len(q) + 1
    BY <1>1
  <2> QED
    BY <2>1, <1>1, <1>4 DEF OffQueued
<1> QED
  BY <1>2, <1>3, <1>4 DEF OffQueued

\* The first batch is taken off.
LEMMA QueuedTail ==
  ASSUME NEW q \in Seq(Seq(Status)), NEW p, q # << >>
  PROVE  OffQueued(q, p) <=> OffIn(Head(q), p) \/ OffQueued(Tail(q), p)
<1> DEFINE S == Seq(Status)
<1>0. q \in Seq(S)
  OBVIOUS
<1> HIDE DEF S
<1> PICK a : a = Tail(q)
  OBVIOUS
<1>1. /\ Head(q) = q[1] /\ Len(q) \in Nat /\ Len(q) >= 1 /\ Len(a) = Len(q) - 1
      /\ \A n \in 1 .. Len(q) - 1 : a[n] = q[n + 1]
  BY <1>0, Taken
<1>2. ASSUME NEW n \in 1 .. Len(q), OffIn(q[n], p)
      PROVE  OffIn(Head(q), p) \/ OffQueued(a, p)
  <2>1. CASE n = 1
    BY <2>1, <1>1, <1>2
  <2>2. CASE n # 1
    <3>1. n - 1 \in 1 .. Len(a) /\ a[n - 1] = q[n]
      BY <2>2, <1>1
    <3> QED
      BY <3>1, <1>2 DEF OffQueued
  <2> QED
    BY <2>1, <2>2
<1>3. ASSUME NEW n \in 1 .. Len(a), OffIn(a[n], p)
      PROVE  OffQueued(q, p)
  <2>1. n + 1 \in 1 .. Len(q) /\ a[n] = q[n + 1]
    BY <1>1
  <2> QED
    BY <2>1, <1>3 DEF OffQueued
<1>4. OffIn(Head(q), p) => OffQueued(q, p)
  BY <1>1 DEF OffQueued
<1> QED
  BY <1>2, <1>3, <1>4 DEF OffQueued

\* userMap.push: a report of what is on now, and of what has left.
LEMMA PushMoves ==
  ASSUME NEW c, NEW b, NEW q, NEW r, Pipe(c, b, q, r),
         NEW on, NEW s \in Status, Accurate(on, c, b, q, r),
         \A p \in Platform \ s.online : p \in on => p \in s.offline
  PROVE  /\ Pipe(Append(c, s), b, q, r) /\ Append(c, s) # << >>
         /\ Accurate(s.online, Append(c, s), b, q, r)
         /\ \A p : Leaving(p, Append(c, s), b, q, r) <=> Leaving(p, c, b, q, r) \/ Off(s, p)
<1> PICK a : a = Append(c, s)
  OBVIOUS
<1>1. /\ a \in Seq(Status) /\ a # << >> /\ a[Len(a)] = s
      /\ \A p : OffIn(a, p) <=> OffIn(c, p) \/ Off(s, p)
  BY Appended, OffAppend DEF Pipe
<1>2. Latest(s.online, a, b, q, r)
  BY <1>1 DEF Accurate, Latest, Names
<1>3. ASSUME NEW p \in Platform \ s.online PROVE Gone(p, a, b, q, r)
  <2>1. CASE Off(s, p)
    <3>1. Ends(a, p) /\ OffIn(a, p)
      BY <2>1, <1>1, <1>3, EndsAppend DEF Pipe
    <3> QED
      BY <3>1 DEF Gone
  <2>2. CASE ~Off(s, p)
    <3>1. Gone(p, c, b, q, r)
      BY <2>2, <1>3 DEF Accurate, Off
    <3>2. Ends(a, p) /\ (OffIn(c, p) => OffIn(a, p))
      BY <3>1, <1>1, <1>3, EndsAppend DEF Pipe, Gone
    <3> QED
      BY <3>1, <3>2 DEF Gone
  <2> QED
    BY <2>1, <2>2
<1> QED
  BY <1>1, <1>2, <1>3 DEF Accurate, Pipe, Leaving

\* ChangeOnlineStatus: from the channel into the batch.
LEMMA CollectMoves ==
  ASSUME NEW c, NEW b, NEW q, NEW r, Pipe(c, b, q, r),
         NEW on, Accurate(on, c, b, q, r), c # << >>
  PROVE  /\ Pipe(Tail(c), Append(b, Head(c)), q, r) /\ Append(b, Head(c)) # << >>
         /\ Accurate(on, Tail(c), Append(b, Head(c)), q, r)
         /\ \A p : Leaving(p, Tail(c), Append(b, Head(c)), q, r) <=> Leaving(p, c, b, q, r)
<1> PICK s : s = Head(c)
  OBVIOUS
<1> PICK t : t = Tail(c)
  OBVIOUS
<1> PICK a : a = Append(b, s)
  OBVIOUS
<1>1. /\ s \in Status /\ s = c[1] /\ t \in Seq(Status) /\ Len(t) = Len(c) - 1
      /\ Len(c) \in Nat /\ Len(c) >= 1
      /\ \A n \in 1 .. Len(c) - 1 : t[n] = c[n + 1]
  BY Taken DEF Pipe
<1>2. /\ a \in Seq(Status) /\ a # << >> /\ a[Len(a)] = s
      /\ \A p : OffIn(a, p) <=> OffIn(b, p) \/ Off(s, p)
  BY <1>1, Appended, OffAppend DEF Pipe
<1>3. \A p : OffIn(c, p) <=> Off(s, p) \/ OffIn(t, p)
  BY OffTail DEF Pipe
<1>4. /\ t # << >> => t[Len(t)] = c[Len(c)]
      /\ t = << >> => s = c[Len(c)]
  BY <1>1, Emptiness
<1>5. Latest(on, t, a, q, r)
  BY <1>2, <1>4 DEF Accurate, Latest, Names
<1>6. ASSUME NEW p \in Platform \ on PROVE Gone(p, t, a, q, r)
  <2>1. Gone(p, c, b, q, r)
    BY DEF Accurate
  <2>2. Ends(t, p) /\ (p \in s.online => OffIn(t, p))
    BY <2>1, EndsTail DEF Gone, Pipe
  <2>3. Ends(a, p) \/ OffIn(t, p)
    <3>1. CASE p \in s.online
      BY <3>1, <2>2
    <3>2. CASE p \notin s.online /\ (Ends(b, p) \/ Off(s, p))
      BY <3>2, <1>1, EndsAppend DEF Pipe
    <3> QED
      BY <3>1, <3>2, <2>1, <1>3 DEF Gone
  <2>4. OffIn(c, p) \/ OffIn(b, p) => OffIn(t, p) \/ OffIn(a, p)
    BY <1>2, <1>3
  <2> QED
    BY <2>1, <2>2, <2>3, <2>4 DEF Gone
<1>7. \A p : Leaving(p, t, a, q, r) <=> Leaving(p, c, b, q, r)
  BY <1>2, <1>3 DEF Leaving
<1> QED
  BY <1>1, <1>2, <1>5, <1>6, <1>7 DEF Accurate, Pipe

\* Enqueue: the batch becomes the last one of the queue.
LEMMA EnqueueMoves ==
  ASSUME NEW c, NEW b, NEW q, NEW r, Pipe(c, b, q, r),
         NEW on, Accurate(on, c, b, q, r), b # << >>
  PROVE  /\ Pipe(c, << >>, Append(q, b), r) /\ Append(q, b) # << >>
         /\ Accurate(on, c, << >>, Append(q, b), r)
         /\ \A p : Leaving(p, c, << >>, Append(q, b), r) <=> Leaving(p, c, b, q, r)
<1> PICK a : a = Append(q, b)
  OBVIOUS
<1>1. /\ a \in Seq(Seq(Status)) /\ a # << >>
      /\ Len(q) \in Nat /\ Len(a) = Len(q) + 1
      /\ \A n \in 1 .. Len(q) : a[n] = q[n]
      /\ a[Len(q) + 1] = b
  <2> DEFINE S == Seq(Status)
  <2>1. q \in Seq(S) /\ b \in S
    BY DEF Pipe
  <2> HIDE DEF S
  <2>2. /\ a \in Seq(S) /\ a # << >> /\ Len(q) \in Nat /\ Len(a) = Len(q) + 1
        /\ \A n \in 1 .. Len(q) : a[n] = q[n]
        /\ a[Len(q) + 1] = b
    BY <2>1, Appended
  <2> QED
    BY <2>2 DEF S
<1>2. \A p : OffQueued(a, p) <=> OffQueued(q, p) \/ OffIn(b, p)
  BY QueuedAppend DEF Pipe
<1>3. Latest(on, c, << >>, a, r)
  <2>1. ASSUME NEW k \in 1 .. Len(a) PROVE a[k] # << >>
    <3>1. CASE k = Len(q) + 1
      BY <3>1, <1>1
    <3>2. CASE k # Len(q) + 1
      <4>1. k \in 1 .. Len(q)
        BY <3>2, <1>1
      <4> QED
        BY <4>1, <1>1 DEF Accurate, Latest
    <3> QED
      BY <3>1, <3>2
  <2>2. a[Len(a)] = b
    BY <1>1
  <2> QED
    BY <2>1, <2>2, <1>1 DEF Accurate, Latest
<1>4. ASSUME NEW p \in Platform \ on PROVE Gone(p, c, << >>, a, r)
  <2>1. Gone(p, c, b, q, r)
    BY DEF Accurate
  <2>2. OffIn(b, p) => OffQueued(a, p)
    BY <1>2
  <2>3. ASSUME NEW k \in 1 .. Len(a)
        PROVE  \/ Ends(a[k], p) \/ OffIn(c, p) \/ OffIn(<< >>, p)
               \/ \E l \in k + 1 .. Len(a) : OffIn(a[l], p)
    <3>1. CASE k = Len(q) + 1
      BY <3>1, <1>1, <2>1 DEF Gone
    <3>2. CASE k # Len(q) + 1
      <4>1. k \in 1 .. Len(q) /\ Len(a) \in k + 1 .. Len(a)
        BY <3>2, <1>1
      <4>2. \/ Ends(q[k], p) \/ OffIn(c, p) \/ OffIn(b, p)
            \/ \E l \in k + 1 .. Len(q) : OffIn(q[l], p)
        BY <4>1, <2>1 DEF Gone
      <4>3. \A l \in k + 1 .. Len(q) : l \in k + 1 .. Len(a) /\ a[l] = q[l]
        BY <4>1, <1>1
      <4> QED
        BY <4>1, <4>2, <4>3, <1>1
    <3> QED
      BY <3>1, <3>2
  <2>4. Ends(c, p) /\ Ends(<< >>, p)
    BY <2>1, EndsEmpty DEF Gone
  <2>5. Ends(r, p) \/ OffIn(c, p) \/ OffIn(<< >>, p) \/ OffQueued(a, p)
    BY <2>1, <1>2 DEF Gone
  <2> QED
    BY <2>3, <2>4, <2>5 DEF Gone
<1>5. \A p : Leaving(p, c, << >>, a, r) <=> Leaving(p, c, b, q, r)
  BY <1>2, EndsEmpty DEF Leaving
<1>6. Pipe(c, << >>, a, r)
  BY <1>1, Emptiness DEF Pipe
<1> QED
  BY <1>1, <1>3, <1>4, <1>5, <1>6 DEF Accurate

\* doRequest: the first batch of the queue becomes the request.
LEMMA SendMoves ==
  ASSUME NEW c, NEW b, NEW q, Pipe(c, b, q, << >>),
         NEW on, Accurate(on, c, b, q, << >>), q # << >>
  PROVE  /\ Pipe(c, b, Tail(q), Head(q)) /\ Head(q) # << >>
         /\ Accurate(on, c, b, Tail(q), Head(q))
         /\ \A p : Leaving(p, c, b, Tail(q), Head(q)) <=> Leaving(p, c, b, q, << >>)
<1> PICK h : h = Head(q)
  OBVIOUS
<1> PICK t : t = Tail(q)
  OBVIOUS
<1>1. /\ h \in Seq(Status) /\ h = q[1] /\ t \in Seq(Seq(Status)) /\ Len(t) = Len(q) - 1
      /\ Len(q) \in Nat /\ Len(q) >= 1
      /\ \A n \in 1 .. Len(q) - 1 : t[n] = q[n + 1]
      /\ (t = << >>) <=> (Len(t) = 0)
  <2> DEFINE S == Seq(Status)
  <2>1. q \in Seq(S)
    BY DEF Pipe
  <2> HIDE DEF S
  <2>2. /\ h \in S /\ h = q[1] /\ t \in Seq(S) /\ Len(t) = Len(q) - 1
        /\ Len(q) \in Nat /\ Len(q) >= 1
        /\ \A n \in 1 .. Len(q) - 1 : t[n] = q[n + 1]
    BY <2>1, Taken
  <2>3. (t = << >>) <=> (Len(t) = 0)
    BY <2>2, Emptiness
  <2> QED
    BY <2>2, <2>3 DEF S
<1>2. \A p : OffQueued(q, p) <=> OffIn(h, p) \/ OffQueued(t, p)
  BY QueuedTail DEF Pipe
<1>3. Latest(on, c, b, t, h) /\ h # << >>
  <2>1. \A k \in 1 .. Len(t) : k + 1 \in 1 .. Len(q) /\ t[k] = q[k + 1]
    BY <1>1
  <2>2. h # << >> /\ \A k \in 1 .. Len(t) : t[k] # << >>
    <3>1. 1 \in 1 .. Len(q)
      BY <1>1
    <3> QED
      BY <3>1, <2>1, <1>1 DEF Accurate, Latest
  <2>3. /\ t # << >> => t[Len(t)] = q[Len(q)]
        /\ t = << >> => h = q[Len(q)]
    BY <1>1
  <2> QED
    BY <2>2, <2>3 DEF Accurate, Latest
<1>4. ASSUME NEW p \in Platform \ on PROVE Gone(p, c, b, t, h)
  <2>1. Gone(p, c, b, q, << >>)
    BY DEF Accurate
  <2>2. ASSUME NEW k \in 1 .. Len(q)
        PROVE  \/ Ends(q[k], p) \/ OffIn(c, p) \/ OffIn(b, p)
               \/ \E l \in k .. Len(t) : OffIn(t[l], p)
    <3>1. \A l \in k + 1 .. Len(q) : l - 1 \in k .. Len(t) /\ t[l - 1] = q[l]
      BY <1>1
    <3>2. CASE \E l \in k + 1 .. Len(q) : OffIn(q[l], p)
      BY <3>1, <3>2
    <3>3. CASE ~\E l \in k + 1 .. Len(q) : OffIn(q[l], p)
      BY <3>3, <2>1 DEF Gone
    <3> QED
      BY <3>2, <3>3
  <2>3. ASSUME NEW k \in 1 .. Len(t)
        PROVE  \/ Ends(t[k], p) \/ OffIn(c, p) \/ OffIn(b, p)
               \/ \E l \in k + 1 .. Len(t) : OffIn(t[l], p)
    <3>1. k + 1 \in 1 .. Len(q) /\ t[k] = q[k + 1]
      BY <1>1
    <3> QED
      BY <3>1, <2>2
  <2>4. Ends(h, p) \/ OffIn(c, p) \/ OffIn(b, p) \/ OffQueued(t, p)
    <3>1. 1 \in 1 .. Len(q)
      BY <1>1
    <3> QED
      BY <3>1, <2>2, <1>1 DEF OffQueued
  <2> QED
    BY <2>1, <2>3, <2>4 DEF Gone
<1>5. \A p : Leaving(p, c, b, t, h) <=> Leaving(p, c, b, q, << >>)
  BY <1>2, EndsEmpty DEF Leaving
<1> QED
  BY <1>1, <1>3, <1>4, <1>5 DEF Accurate, Pipe

\* SetUserOnline: the first status of the request is written.
LEMMA WriteMoves ==
  ASSUME NEW c, NEW b, NEW q, NEW r, Pipe(c, b, q, r),
         NEW on, Accurate(on, c, b, q, r), r # << >>
  PROVE  /\ Pipe(c, b, q, Tail(r)) /\ Accurate(on, c, b, q, Tail(r))
         /\ ~Pending(c, b, q, Tail(r)) => Head(r).online = on
         /\ \A p \in Platform \ on : p \in Head(r).online => Leaving(p, c, b, q, Tail(r))
         /\ \A p : Leaving(p, c, b, q, r) <=> Leaving(p, c, b, q, Tail(r)) \/ Off(Head(r), p)
<1> PICK s : s = Head(r)
  OBVIOUS
<1> PICK t : t = Tail(r)
  OBVIOUS
<1>1. /\ s \in Status /\ s = r[1] /\ t \in Seq(Status) /\ Len(t) = Len(r) - 1
      /\ Len(r) \in Nat /\ Len(r) >= 1
      /\ \A n \in 1 .. Len(r) - 1 : t[n] = r[n + 1]
  BY Taken DEF Pipe
<1>2. \A p : OffIn(r, p) <=> Off(s, p) \/ OffIn(t, p)
  BY OffTail DEF Pipe
<1>3. /\ t # << >> => t[Len(t)] = r[Len(r)]
      /\ t = << >> => s = r[Len(r)]
  BY <1>1, Emptiness
<1>4. Latest(on, c, b, q, t) /\ (~Pending(c, b, q, t) => s.online = on)
  BY <1>3 DEF Accurate, Latest, Names, Pending
<1>5. ASSUME NEW p \in Platform \ on
      PROVE  Gone(p, c, b, q, t) /\ (p \in s.online => Leaving(p, c, b, q, t))
  <2>1. Gone(p, c, b, q, r)
    BY DEF Accurate
  <2>2. Ends(r, p) => Ends(t, p) /\ (p \in s.online => OffIn(t, p))
    BY EndsTail DEF Pipe
  <2> QED
    BY <2>1, <2>2 DEF Gone, Leaving
<1> QED
  BY <1>1, <1>2, <1>4, <1>5 DEF Accurate, Pipe, Leaving

-----------------------------------------------------------------------------
(* The reports of the gateways and the sorted set.                         *)

\* What one gateway holds is a pipe of statuses.
LEMMA PipeType ==
  ASSUME TypeOK, NEW g \in Gateway
  PROVE  Pipe(ch[g], batch[g], queue[g], request[g])
  BY DEF TypeOK, Pipe

\* At the start no report is wrong.
LEMMA InitReport == Init => ReportInv
<1> SUFFICES ASSUME Init PROVE ReportInv
  OBVIOUS
<1>1. ASSUME NEW g \in Gateway
      PROVE  /\ PlatformIDs(clients[g]) = {}
             /\ ch[g] = << >> /\ batch[g] = << >> /\ queue[g] = << >> /\ request[g] = << >>
  BY <1>1 DEF Init, PlatformIDs
<1>2. ASSUME NEW p \in Platform PROVE Gone(p, << >>, << >>, << >>, << >>)
  BY EndsEmpty DEF Gone
<1>3. Latest({}, << >>, << >>, << >>, << >>)
  BY DEF Latest
<1>4. Accurate({}, << >>, << >>, << >>, << >>)
  BY <1>2, <1>3 DEF Accurate
<1>5. \A p \in Platform : zset[p] # "live"
  BY DEF Init
<1> QED
  BY <1>1, <1>4, <1>5 DEF ReportInv

\* A gateway has changed its clients and reported that, or has moved a report on.
LEMMA ReportMoved ==
  ASSUME ReportInv, ~lost, NEW g \in Gateway, UNCHANGED <<zset, announce>>,
         \A h \in Gateway \ {g} :
           UNCHANGED <<clients[h], ch[h], batch[h], queue[h], request[h], inbox[h]>>,
         Accurate(PlatformIDs(clients'[g]), ch'[g], batch'[g], queue'[g], request'[g]),
         Pending(ch'[g], batch'[g], queue'[g], request'[g]),
         \A p \in Platform :
           p \in PlatformIDs(clients[g]) \/ Leaving(p, ch[g], batch[g], queue[g], request[g]) =>
             p \in PlatformIDs(clients'[g]) \/ Leaving(p, ch'[g], batch'[g], queue'[g], request'[g])
  PROVE  ReportInv'
<1>1. ASSUME NEW h \in Gateway, h # g
      PROVE  /\ Accurate(PlatformIDs(clients'[h]), ch'[h], batch'[h], queue'[h], request'[h])
             /\ \A p \in PlatformIDs(clients'[h]) : Shown(h, p)'
  <2>1. /\ clients'[h] = clients[h] /\ ch'[h] = ch[h] /\ batch'[h] = batch[h]
        /\ queue'[h] = queue[h] /\ request'[h] = request[h] /\ inbox'[h] = inbox[h]
    BY <1>1
  <2>2. /\ Accurate(PlatformIDs(clients[h]), ch[h], batch[h], queue[h], request[h])
        /\ \A p \in PlatformIDs(clients[h]) : Shown(h, p)
    BY DEF ReportInv
  <2>3. \A p \in PlatformIDs(clients[h]) : Shown(h, p)'
    BY <2>1, <2>2 DEF Shown, Asked
  <2> QED
    BY <2>1, <2>2, <2>3
<1>2. \A p \in PlatformIDs(clients'[g]) : Shown(g, p)'
  BY DEF Shown
<1>3. ASSUME NEW p \in Platform, zset'[p] = "live" PROVE Live(p)'
  <2>1. PICK h \in Gateway :
          \/ p \in PlatformIDs(clients[h])
          \/ Leaving(p, ch[h], batch[h], queue[h], request[h])
    BY <1>3 DEF ReportInv, Live
  <2>2. \/ p \in PlatformIDs(clients'[h])
        \/ Leaving(p, ch'[h], batch'[h], queue'[h], request'[h])
    <3>1. CASE h = g
      BY <3>1, <2>1
    <3>2. CASE h # g
      <4>1. /\ clients'[h] = clients[h] /\ ch'[h] = ch[h] /\ batch'[h] = batch[h]
            /\ queue'[h] = queue[h] /\ request'[h] = request[h]
        BY <3>2
      <4> QED
        BY <4>1, <2>1
    <3> QED
      BY <3>1, <3>2
  <2> QED
    BY <2>2 DEF Live
<1> QED
  BY <1>1, <1>2, <1>3 DEF ReportInv

\* Set, DeleteClients and the answer to a message: the new report names what is
\* connected now, and what is not any more.
LEMMA ReportPushed ==
  ASSUME TypeOK, ReportInv, NEW g \in Gateway, NEW c, NEW o \in SUBSET Platform,
         Pushed(g, c, o), c = clients'[g],
         UNCHANGED <<zset, announce, batch, queue, request>>,
         \A h \in Gateway \ {g} : UNCHANGED <<clients[h], inbox[h]>>,
         \A p \in Platform : p \in PlatformIDs(clients[g]) /\ p \notin PlatformIDs(c) => p \in o
  PROVE  ReportInv'
<1> SUFFICES ASSUME ~lost' PROVE ReportInv'
  BY DEF ReportInv
<1> PICK s : s = [online |-> PlatformIDs(c), offline |-> o]
  OBVIOUS
<1>1. s \in Status /\ s.online = PlatformIDs(c) /\ s.offline = o
  BY StatusType
<1>2. ~lost /\ ch'[g] = Append(ch[g], s) /\ \A h \in Gateway \ {g} : ch'[h] = ch[h]
  BY PushedReport
<1>3. Accurate(PlatformIDs(clients[g]), ch[g], batch[g], queue[g], request[g])
  BY <1>2 DEF ReportInv
<1>4. /\ Append(ch[g], s) # << >>
      /\ Accurate(PlatformIDs(c), Append(ch[g], s), batch[g], queue[g], request[g])
      /\ \A p : Leaving(p, Append(ch[g], s), batch[g], queue[g], request[g]) <=>
                  Leaving(p, ch[g], batch[g], queue[g], request[g]) \/ Off(s, p)
  BY <1>1, <1>3, PipeType, PushMoves
<1>5. ASSUME NEW p \in Platform,
             p \in PlatformIDs(clients[g]) \/ Leaving(p, ch[g], batch[g], queue[g], request[g])
      PROVE  p \in PlatformIDs(c) \/ Leaving(p, ch'[g], batch'[g], queue'[g], request'[g])
  BY <1>1, <1>2, <1>4, <1>5 DEF Off
<1>6. Pending(ch'[g], batch'[g], queue'[g], request'[g])
  BY <1>2, <1>4 DEF Pending
<1>7. Accurate(PlatformIDs(clients'[g]), ch'[g], batch'[g], queue'[g], request'[g])
  BY <1>2, <1>4
<1> QED
  BY <1>2, <1>5, <1>6, <1>7, ReportMoved

\* pushUserState and Enqueue: what was taken from the channel is in the batch or
\* in the queue.
LEMMA ReportTaken ==
  ASSUME TypeOK, NEW g \in Gateway, NEW c, NEW s \in Status, PushUserState(g, s), ~lost',
         Pipe(c, batch[g], queue[g], request[g]), c # << >>, Head(c) = s, NEW on,
         Accurate(on, c, batch[g], queue[g], request[g])
  PROVE  /\ Accurate(on, Tail(c), batch'[g], queue'[g], request[g])
         /\ Pending(Tail(c), batch'[g], queue'[g], request[g])
         /\ \A p : Leaving(p, Tail(c), batch'[g], queue'[g], request[g]) <=>
                     Leaving(p, c, batch[g], queue[g], request[g])
<1> PICK t : t = Tail(c)
  OBVIOUS
<1> PICK a : a = Append(batch[g], s)
  OBVIOUS
<1>1. \/ batch'[g] = a /\ queue'[g] = queue[g]
      \/ batch'[g] = << >> /\ queue'[g] = Append(queue[g], a)
  BY TakenReport
<1>2. /\ Pipe(t, a, queue[g], request[g]) /\ a # << >>
      /\ Accurate(on, t, a, queue[g], request[g])
      /\ \A p : Leaving(p, t, a, queue[g], request[g]) <=>
                  Leaving(p, c, batch[g], queue[g], request[g])
  BY CollectMoves
<1>3. /\ Append(queue[g], a) # << >>
      /\ Accurate(on, t, << >>, Append(queue[g], a), request[g])
      /\ \A p : Leaving(p, t, << >>, Append(queue[g], a), request[g]) <=>
                  Leaving(p, t, a, queue[g], request[g])
  BY <1>2, EnqueueMoves
<1> QED
  BY <1>1, <1>2, <1>3 DEF Pending

\* The goroutines that hand reports over.
LEMMA CollectReport == ASSUME TypeOK, ReportInv, NEW g \in Gateway, Collect(g) PROVE ReportInv'
<1> SUFFICES ASSUME ~lost' PROVE ReportInv'
  BY DEF ReportInv
<1>1. /\ ch[g] # << >> /\ ch' = [ch EXCEPT ![g] = Tail(@)] /\ PushUserState(g, Head(ch[g]))
      /\ UNCHANGED <<clients, request, announce, zset, inbox>>
      /\ ch \in [Gateway -> Seq(Status)]
  BY DEF Collect, service, TypeOK
<1> PICK c : c = ch[g]
  OBVIOUS
<1> PICK s : s = Head(c)
  OBVIOUS
<1>2. s \in Status /\ Pipe(c, batch[g], queue[g], request[g])
  BY <1>1, Taken, PipeType DEF Pipe
<1>3. /\ ~lost
      /\ \A h \in Gateway \ {g} : batch'[h] = batch[h] /\ queue'[h] = queue[h]
  BY <1>1, <1>2, TakenReport
<1>4. ch'[g] = Tail(c) /\ \A h \in Gateway \ {g} : ch'[h] = ch[h]
  BY <1>1
<1> PICK on : on = PlatformIDs(clients[g])
  OBVIOUS
<1>5. Accurate(on, c, batch[g], queue[g], request[g])
  BY <1>3 DEF ReportInv
<1>6. /\ Accurate(on, Tail(c), batch'[g], queue'[g], request[g])
      /\ Pending(Tail(c), batch'[g], queue'[g], request[g])
      /\ \A p : Leaving(p, Tail(c), batch'[g], queue'[g], request[g]) <=>
                  Leaving(p, c, batch[g], queue[g], request[g])
  BY <1>1, <1>2, <1>5, ReportTaken
<1> QED
  BY <1>1, <1>3, <1>4, <1>6, ReportMoved

LEMMA FlushReport == ASSUME TypeOK, ReportInv, NEW g \in Gateway, Flush(g) PROVE ReportInv'
<1> SUFFICES ASSUME ~lost' PROVE ReportInv'
  BY DEF ReportInv
<1> PICK b : b = batch[g]
  OBVIOUS
<1>1. /\ b # << >> /\ Enqueued(g, b) /\ b \in Seq(Status)
      /\ UNCHANGED <<clients, ch, request, announce, zset, inbox>>
  BY DEF Flush, service, TypeOK
<1>2. /\ ~lost /\ batch'[g] = << >> /\ queue'[g] = Append(queue[g], b)
      /\ \A h \in Gateway \ {g} : batch'[h] = batch[h] /\ queue'[h] = queue[h]
  BY <1>1, EnqueuedBatch
<1> PICK on : on = PlatformIDs(clients[g])
  OBVIOUS
<1>3. Accurate(on, ch[g], b, queue[g], request[g]) /\ Pipe(ch[g], b, queue[g], request[g])
  BY <1>2, PipeType DEF ReportInv
<1>4. /\ Append(queue[g], b) # << >>
      /\ Accurate(on, ch[g], << >>, Append(queue[g], b), request[g])
      /\ \A p : Leaving(p, ch[g], << >>, Append(queue[g], b), request[g]) <=>
                  Leaving(p, ch[g], b, queue[g], request[g])
  BY <1>1, <1>3, EnqueueMoves
<1>5. Pending(ch'[g], batch'[g], queue'[g], request'[g])
  BY <1>2, <1>4 DEF Pending
<1> QED
  BY <1>1, <1>2, <1>4, <1>5, ReportMoved

LEMMA SendReport == ASSUME TypeOK, ReportInv, NEW g \in Gateway, Send(g) PROVE ReportInv'
<1> SUFFICES ASSUME ~lost' PROVE ReportInv'
  BY DEF ReportInv
<1> PICK q : q = queue[g]
  OBVIOUS
<1>1. /\ q # << >> /\ request[g] = << >> /\ ~lost
      /\ request' = [request EXCEPT ![g] = Head(q)] /\ queue' = [queue EXCEPT ![g] = Tail(q)]
      /\ UNCHANGED <<clients, ch, batch, announce, zset, inbox>>
      /\ request \in [Gateway -> Seq(Status)] /\ queue \in [Gateway -> Seq(Seq(Status))]
  BY DEF Send, TypeOK
<1>2. /\ request'[g] = Head(q) /\ queue'[g] = Tail(q)
      /\ \A h \in Gateway \ {g} : request'[h] = request[h] /\ queue'[h] = queue[h]
  BY <1>1
<1> PICK on : on = PlatformIDs(clients[g])
  OBVIOUS
<1>3. Accurate(on, ch[g], batch[g], q, << >>) /\ Pipe(ch[g], batch[g], q, << >>)
  BY <1>1, PipeType DEF ReportInv
<1>4. /\ Head(q) # << >> /\ Accurate(on, ch[g], batch[g], Tail(q), Head(q))
      /\ \A p : Leaving(p, ch[g], batch[g], Tail(q), Head(q)) <=>
                  Leaving(p, ch[g], batch[g], q, << >>)
  BY <1>1, <1>3, SendMoves
<1>5. Pending(ch'[g], batch'[g], queue'[g], request'[g])
  BY <1>2, <1>4 DEF Pending
<1> QED
  BY <1>1, <1>2, <1>4, <1>5, ReportMoved

\* A renewal reports what is connected; nothing was on its way.
LEMMA RenewReport == ASSUME TypeOK, ReportInv, NEW g \in Gateway, Renew(g) PROVE ReportInv'
<1> SUFFICES ASSUME ~lost' PROVE ReportInv'
  BY DEF ReportInv
<1> PICK on : on = PlatformIDs(clients[g])
  OBVIOUS
<1> PICK s : s = [online |-> on, offline |-> {}]
  OBVIOUS
<1>1. /\ s \in Status /\ s.online = on /\ s.offline = {} /\ PushUserState(g, s)
      /\ ch[g] = << >>
      /\ UNCHANGED <<clients, ch, request, announce, zset, inbox>>
  BY StatusType DEF Renew, Quiet, Idle, service
<1>2. /\ ~lost
      /\ \A h \in Gateway \ {g} : batch'[h] = batch[h] /\ queue'[h] = queue[h]
  BY <1>1, TakenReport
<1>3. Accurate(on, << >>, batch[g], queue[g], request[g])
      /\ Pipe(<< >>, batch[g], queue[g], request[g])
  BY <1>1, <1>2, PipeType DEF ReportInv
<1> PICK c : c = Append(<< >>, s)
  OBVIOUS
<1>4. /\ Pipe(c, batch[g], queue[g], request[g]) /\ c # << >>
      /\ Accurate(on, c, batch[g], queue[g], request[g])
      /\ \A p : Leaving(p, c, batch[g], queue[g], request[g]) <=>
                  Leaving(p, << >>, batch[g], queue[g], request[g]) \/ Off(s, p)
  BY <1>1, <1>3, PushMoves
<1>5. Head(c) = s /\ Tail(c) = << >>
  <2>1. c = <<s>>
    OBVIOUS
  <2> QED
    BY <2>1
<1>6. /\ Accurate(on, Tail(c), batch'[g], queue'[g], request[g])
      /\ Pending(Tail(c), batch'[g], queue'[g], request[g])
      /\ \A p : Leaving(p, Tail(c), batch'[g], queue'[g], request[g]) <=>
                  Leaving(p, c, batch[g], queue[g], request[g])
  BY <1>1, <1>4, <1>5, ReportTaken
<1>7. \A p : Leaving(p, << >>, batch[g], queue[g], request[g]) =>
               Leaving(p, ch'[g], batch'[g], queue'[g], request'[g])
  BY <1>1, <1>4, <1>5, <1>6
<1> QED
  BY <1>1, <1>2, <1>5, <1>6, <1>7, ReportMoved

\* The connections change, and what is connected is reported.
LEMMA ClientsReport ==
  ASSUME TypeOK, ReportInv, NEW g \in Gateway, NEW p \in Platform, Set(g, p) \/ DeleteClients(g, p)
  PROVE  ReportInv'
<1> PICK c : c = clients'[g]
  OBVIOUS
<1>1. CASE Set(g, p)
  <2> PICK o \in SUBSET Platform : o = {}
    OBVIOUS
  <2>1. /\ Pushed(g, c, o) /\ c = [clients[g] EXCEPT ![p] = @ + 1]
        /\ clients[g] \in [Platform -> Nat]
        /\ \A h \in Gateway \ {g} : clients'[h] = clients[h]
        /\ UNCHANGED <<batch, queue, request, announce, zset, inbox>>
    BY <1>1 DEF Set, service, TypeOK
  <2>2. \A q \in Platform : q \in PlatformIDs(clients[g]) /\ q \notin PlatformIDs(c) => q \in o
    BY <2>1 DEF PlatformIDs
  <2>3. \A h \in Gateway \ {g} : UNCHANGED <<clients[h], inbox[h]>>
    BY <2>1
  <2>4. UNCHANGED <<zset, announce, batch, queue, request>>
    BY <2>1
  <2>5. Pushed(g, c, o)
    BY <2>1
  <2> QED
    BY <2>2, <2>3, <2>4, <2>5, ReportPushed
<1>2. CASE DeleteClients(g, p)
  <2> PICK o \in SUBSET Platform : o = {p}
    OBVIOUS
  <2>1. /\ Pushed(g, c, o) /\ c = [clients[g] EXCEPT ![p] = @ - 1]
        /\ clients[g] \in [Platform -> Nat]
        /\ \A h \in Gateway \ {g} : clients'[h] = clients[h]
        /\ UNCHANGED <<batch, queue, request, announce, zset, inbox>>
    BY <1>2 DEF DeleteClients, service, TypeOK
  <2>2. \A q \in Platform : q \in PlatformIDs(clients[g]) /\ q \notin PlatformIDs(c) => q \in o
    BY <2>1 DEF PlatformIDs
  <2>3. \A h \in Gateway \ {g} : UNCHANGED <<clients[h], inbox[h]>>
    BY <2>1
  <2>4. UNCHANGED <<zset, announce, batch, queue, request>>
    BY <2>1
  <2>5. Pushed(g, c, o)
    BY <2>1
  <2> QED
    BY <2>2, <2>3, <2>4, <2>5, ReportPushed
<1> QED
  BY <1>1, <1>2

\* A message that lacks a connected platform is answered; no other one matters.
LEMMA AnswerReport == ASSUME TypeOK, ReportInv, NEW g \in Gateway, RecvSubChange(g) PROVE ReportInv'
<1> PICK c : c = clients[g]
  OBVIOUS
<1> PICK q : q = inbox[g]
  OBVIOUS
<1>1. /\ UNCHANGED <<clients, batch, queue, request, announce, zset>> /\ q # << >>
      /\ inbox'[g] = Tail(q) /\ \A h \in Gateway \ {g} : inbox'[h] = inbox[h]
      /\ q \in Seq(SUBSET Platform)
  BY NamesAssumption DEF RecvSubChange, service, TypeOK
<1>2. CASE Pushed(g, c, {})
  <2>1. c = clients'[g] /\ \A h \in Gateway \ {g} : clients'[h] = clients[h]
    BY <1>1
  <2>2. \A p \in Platform : p \in PlatformIDs(clients[g]) /\ p \notin PlatformIDs(c) => p \in {}
    OBVIOUS
  <2>3. UNCHANGED <<zset, announce, batch, queue, request>>
        /\ \A h \in Gateway \ {g} : UNCHANGED <<clients[h], inbox[h]>>
    BY <1>1, <2>1
  <2> QED
    BY <1>2, <2>1, <2>2, <2>3, ReportPushed
<1>3. CASE PlatformIDs(c) \subseteq Head(q) /\ UNCHANGED <<ch, lost>>
  <2>1. /\ Head(q) = q[1] /\ Len(q) \in Nat /\ Len(q) >= 1 /\ Len(Tail(q)) = Len(q) - 1
        /\ \A n \in 1 .. Len(q) - 1 : Tail(q)[n] = q[n + 1]
    BY <1>1, Taken
  <2>2. ASSUME NEW h \in Gateway, NEW p \in PlatformIDs(clients[h]), Asked(h, p)
        PROVE  Asked(h, p)'
    <3>1. CASE h # g \/ \E k \in Gateway : announce[k] # << >> /\ p \notin announce[k][1]
      BY <3>1, <2>2, <1>1 DEF Asked
    <3>2. CASE h = g /\ \E n \in 1 .. Len(q) : p \notin q[n]
      <4>1. PICK n \in 1 .. Len(q) : p \notin q[n]
        BY <3>2
      <4>2. n # 1
        BY <4>1, <3>2, <2>1, <2>2, <1>3
      <4>3. n - 1 \in 1 .. Len(Tail(q)) /\ Tail(q)[n - 1] = q[n]
        BY <4>2, <2>1
      <4> QED
        BY <4>1, <4>3, <3>2, <1>1 DEF Asked
    <3> QED
      BY <3>1, <3>2, <2>2 DEF Asked
  <2>3. \A h \in Gateway : \A p \in PlatformIDs(clients[h]) : Shown(h, p) => Shown(h, p)'
    BY <2>2, <1>1, <1>3 DEF Shown
  <2>4. \A p : Live(p) => Live(p)'
    BY <1>1, <1>3 DEF Live
  <2> QED
    BY <2>3, <2>4, <1>1, <1>3 DEF ReportInv
<1>4. Pushed(g, c, {}) \/ (PlatformIDs(c) \subseteq Head(q) /\ UNCHANGED <<ch, lost>>)
  BY DEF RecvSubChange
<1> QED
  BY <1>2, <1>3, <1>4

\* Whoever loses a platform by a script will be asked about it.
LEMMA ScriptReport == ASSUME TypeOK, ReportInv, NEW g \in Gateway, Script(g) PROVE ReportInv'
<1> SUFFICES ASSUME ~lost' PROVE ReportInv'
  BY DEF ReportInv
<1> PICK r : r = request[g]
  OBVIOUS
<1> PICK s : s = Head(r)
  OBVIOUS
<1> PICK m : m = Purged(s) \cup s.online
  OBVIOUS
<1>1. /\ r # << >> /\ announce[g] = << >> /\ ~lost /\ r \in Seq(Status)
      /\ request'[g] = Tail(r) /\ \A h \in Gateway \ {g} : request'[h] = request[h]
      /\ announce'[g] = IF Changed(s) THEN <<m>> ELSE << >>
      /\ \A h \in Gateway \ {g} : announce'[h] = announce[h]
      /\ zset' = [p \in Platform |-> IF p \in m THEN "live" ELSE "absent"]
      /\ UNCHANGED <<clients, ch, batch, queue, inbox>>
  BY DEF Script, local, TypeOK
<1>2. s \in Status
  BY <1>1, Taken
<1> PICK on : on = PlatformIDs(clients[g])
  OBVIOUS
<1>3. Accurate(on, ch[g], batch[g], queue[g], r) /\ Pipe(ch[g], batch[g], queue[g], r)
  BY <1>1, PipeType DEF ReportInv
<1>4. /\ Accurate(on, ch[g], batch[g], queue[g], Tail(r))
      /\ ~Pending(ch[g], batch[g], queue[g], Tail(r)) => s.online = on
      /\ \A p \in Platform \ on : p \in s.online => Leaving(p, ch[g], batch[g], queue[g], Tail(r))
      /\ \A p : Leaving(p, ch[g], batch[g], queue[g], r) <=>
                  Leaving(p, ch[g], batch[g], queue[g], Tail(r)) \/ Off(s, p)
  BY <1>1, <1>3, WriteMoves
<1>5. \A h \in Gateway : Accurate(PlatformIDs(clients[h]), ch[h], batch[h], queue[h], request'[h])
  <2>1. ASSUME NEW h \in Gateway, h # g
        PROVE  Accurate(PlatformIDs(clients[h]), ch[h], batch[h], queue[h], request'[h])
    BY <1>1, <2>1 DEF ReportInv
  <2> QED
    BY <1>1, <1>4, <2>1
<1>6. ASSUME NEW h \in Gateway, NEW p \in PlatformIDs(clients[h]) PROVE Shown(h, p)'
  <2>0. p \in Platform
    BY DEF PlatformIDs
  <2>1. CASE p \in m
    BY <2>0, <2>1, <1>1 DEF Shown
  <2>2. CASE p \notin m /\ h = g
    <3>1. Pending(ch[g], batch[g], queue[g], Tail(r))
      BY <1>4, <2>2
    <3> QED
      BY <3>1, <2>2, <1>1 DEF Shown
  <2>3. CASE p \notin m /\ h # g
    <3>1. CASE zset[p] = "live"
      <4>1. p \in Members /\ p \notin Purged(s)
        BY <2>0, <2>3, <3>1 DEF Members
      <4>2. Changed(s)
        BY <4>1, <1>2, ChangeShows
      <4>3. announce'[g] # << >> /\ p \notin announce'[g][1]
        BY <4>2, <2>3, <1>1
      <4> QED
        BY <4>3 DEF Shown, Asked
    <3>2. CASE zset[p] # "live"
      <4>1. Pending(ch[h], batch[h], queue[h], request[h]) \/ Asked(h, p)
        BY <3>2, <1>1 DEF ReportInv, Shown
      <4>2. Asked(h, p) => Asked(h, p)'
        BY <1>1 DEF Asked
      <4>3. Pending(ch[h], batch[h], queue[h], request[h]) =>
              Pending(ch'[h], batch'[h], queue'[h], request'[h])
        BY <2>3, <1>1
      <4> QED
        BY <4>1, <4>2, <4>3 DEF Shown
    <3> QED
      BY <3>1, <3>2
  <2> QED
    BY <2>1, <2>2, <2>3
<1>7. ASSUME NEW p \in Platform, zset'[p] = "live" PROVE Live(p)'
  <2>1. p \in m
    BY <1>1, <1>7
  <2>2. CASE p \in s.online
    <3>1. p \in on \/ Leaving(p, ch[g], batch[g], queue[g], Tail(r))
      BY <2>2, <1>4
    <3> QED
      BY <3>1, <1>1 DEF Live
  <2>3. CASE p \notin s.online
    <3>1. zset[p] = "live" /\ ~Off(s, p)
      BY <2>1, <2>3 DEF Purged, Off
    <3>2. PICK h \in Gateway : \/ p \in PlatformIDs(clients[h])
                               \/ Leaving(p, ch[h], batch[h], queue[h], request[h])
      BY <3>1, <1>1 DEF ReportInv, Live
    <3>3. \/ p \in PlatformIDs(clients[h])
          \/ Leaving(p, ch[h], batch[h], queue[h], request'[h])
      <4>1. CASE h = g
        BY <4>1, <3>1, <3>2, <1>1, <1>4
      <4>2. CASE h # g
        BY <4>2, <3>2, <1>1
      <4> QED
        BY <4>1, <4>2
    <3> QED
      BY <3>3, <1>1 DEF Live
  <2> QED
    BY <2>2, <2>3
<1> QED
  BY <1>1, <1>5, <1>6, <1>7 DEF ReportInv

\* An announcement becomes a message to every gateway.
LEMMA PublishReport == ASSUME TypeOK, ReportInv, NEW g \in Gateway, Publish(g) PROVE ReportInv'
<1> SUFFICES ASSUME ~lost' PROVE ReportInv'
  BY DEF ReportInv
<1> PICK m : m = announce[g][1]
  OBVIOUS
<1>1. /\ UNCHANGED <<clients, ch, batch, queue, request, zset>> /\ ~lost
      /\ \A h \in Gateway \ {g} : announce'[h] = announce[h]
      /\ announce[g] \in Seq(SUBSET Platform) /\ announce[g] # << >>
  BY DEF Publish, local, TypeOK
<1>2. m \in SUBSET Platform
  BY <1>1, Emptiness
<1>3. ASSUME NEW h \in Gateway
      PROVE  /\ Len(inbox[h]) \in Nat /\ Len(inbox'[h]) = Len(inbox[h]) + 1
             /\ \A n \in 1 .. Len(inbox[h]) : inbox'[h][n] = inbox[h][n]
             /\ inbox'[h][Len(inbox[h]) + 1] = m
  <2>1. inbox[h] \in Seq(SUBSET Platform) /\ inbox'[h] = Append(inbox[h], m)
    BY NamesAssumption DEF Publish, TypeOK
  <2> QED
    BY <2>1, <1>2, Appended
<1>4. ASSUME NEW h \in Gateway, NEW p, Asked(h, p) PROVE Asked(h, p)'
  <2>1. CASE \E n \in 1 .. Len(inbox[h]) : p \notin inbox[h][n]
    <3>1. PICK n \in 1 .. Len(inbox[h]) : p \notin inbox[h][n]
      BY <2>1
    <3>2. n \in 1 .. Len(inbox'[h]) /\ inbox'[h][n] = inbox[h][n]
      BY <1>3
    <3> QED
      BY <3>1, <3>2 DEF Asked
  <2>2. CASE p \notin m
    <3>1. Len(inbox[h]) + 1 \in 1 .. Len(inbox'[h]) /\ inbox'[h][Len(inbox[h]) + 1] = m
      BY <1>3
    <3> QED
      BY <3>1, <2>2 DEF Asked
  <2>3. CASE \E k \in Gateway \ {g} : announce[k] # << >> /\ p \notin announce[k][1]
    BY <2>3, <1>1 DEF Asked
  <2> QED
    BY <2>1, <2>2, <2>3, <1>4 DEF Asked
<1>5. \A h \in Gateway : \A p \in PlatformIDs(clients[h]) : Shown(h, p)'
  BY <1>1, <1>4 DEF ReportInv, Shown
<1>6. \A p \in Platform : zset[p] = "live" => Live(p)'
  BY <1>1 DEF ReportInv, Live
<1> QED
  BY <1>1, <1>5, <1>6 DEF ReportInv

\* When nothing is on its way, every connected platform is live.
LEMMA QuietShown ==
  ASSUME ReportInv, ~lost, \A g \in Gateway : Idle(g),
         NEW g \in Gateway, NEW p \in PlatformIDs(clients[g])
  PROVE  zset[p] = "live"
<1>1. Shown(g, p)
  BY DEF ReportInv
<1> QED
  BY <1>1, Emptiness DEF Shown, Asked, Idle, Pending

\* The clock spares what is connected, or something is lost.
LEMMA ClockReport ==
  ASSUME TypeOK, ReportInv, (\E p \in Platform : Expire(p)) \/ ExpireKey
  PROVE  ReportInv'
<1> SUFFICES ASSUME ~lost' PROVE ReportInv'
  BY DEF ReportInv
<1>1. ASSUME NEW p \in Platform, Expire(p) PROVE ReportInv'
  <2>1. /\ p \notin Connected /\ ~lost /\ zset' = [zset EXCEPT ![p] = "old"]
        /\ UNCHANGED <<clients, ch, batch, queue, request, announce, inbox>>
    BY <1>1 DEF Expire, local
  <2>2. \A h \in Gateway : p \notin PlatformIDs(clients[h])
    BY <2>1 DEF Connected
  <2>3. \A q \in Platform \ {p} : zset'[q] = zset[q]
    BY <2>1 DEF TypeOK
  <2>4. zset'[p] # "live"
    BY <2>1 DEF TypeOK
  <2>5. \A h \in Gateway : \A q \in PlatformIDs(clients[h]) : q \in Platform \ {p}
    BY <2>2 DEF PlatformIDs
  <2>6. \A h \in Gateway : \A q \in PlatformIDs(clients[h]) : Shown(h, q)'
    BY <2>1, <2>3, <2>5 DEF ReportInv, Shown, Asked
  <2>7. \A q \in Platform : zset'[q] = "live" => Live(q)'
    BY <2>1, <2>3, <2>4 DEF ReportInv, Live
  <2> QED
    BY <2>1, <2>6, <2>7 DEF ReportInv
<1>2. CASE ExpireKey
  <2>1. /\ ~lost /\ GetOnline = {} /\ zset' = [p \in Platform |-> "absent"]
        /\ \A g \in Gateway : Idle(g)
        /\ UNCHANGED <<clients, ch, batch, queue, request, announce, inbox>>
    BY <1>2 DEF ExpireKey, local, Quiet
  <2>2. ASSUME NEW h \in Gateway, NEW q \in PlatformIDs(clients[h]) PROVE FALSE
    <3>1. q \in Platform /\ zset[q] = "live"
      BY <2>1, QuietShown DEF PlatformIDs
    <3> QED
      BY <3>1, <2>1 DEF GetOnline
  <2> QED
    BY <2>1, <2>2 DEF ReportInv
<1> QED
  BY <1>1, <1>2

\* Every step keeps the reports right, or something is lost.
LEMMA StepReport == ASSUME TypeOK, ReportInv, [Next]_vars PROVE ReportInv'
<1>1. ASSUME NEW g \in Gateway, Fail(g) \/ Crash(g) PROVE ReportInv'
  BY <1>1 DEF Fail, Crash, ReportInv
<1>2. ASSUME Listen \/ UNCHANGED vars PROVE ReportInv'
  <2>1. UNCHANGED <<clients, ch, batch, queue, request, announce, zset, lost>>
    BY <1>2 DEF Listen, Subscribe, Load, LoadFails, DoMessage, vars, local, service
  <2>2. \A h \in Gateway : inbox'[h] = inbox[h]
    BY <1>2, NamesAssumption DEF Listen, Subscribe, Load, LoadFails, DoMessage, vars, TypeOK
  <2>3. \A h \in Gateway : \A p : Shown(h, p)' <=> Shown(h, p)
    BY <2>1, <2>2 DEF Shown, Asked
  <2>4. \A p : Live(p)' <=> Live(p)
    BY <2>1 DEF Live
  <2> QED
    BY <2>1, <2>3, <2>4 DEF ReportInv
<1> QED
  BY <1>1, <1>2, ClientsReport, CollectReport, FlushReport, RenewReport, SendReport, ScriptReport,
     PublishReport, AnswerReport, ClockReport DEF Next

\* When nothing is on its way and nothing was lost, the sorted set shows exactly
\* what is connected, whatever gateways reported of each other's platforms in
\* between (Settled; SetUserOnline, RecvSubChange).
THEOREM StatusSettles == Spec => []Settled
<1>1. ReportInv => Settled
  <2> SUFFICES ASSUME ReportInv, \A g \in Gateway : Idle(g), ~lost PROVE GetOnline = Connected
    BY DEF Settled
  <2>1. ASSUME NEW g \in Gateway, NEW p \in PlatformIDs(clients[g]) PROVE p \in GetOnline
    <3>1. p \in Platform /\ zset[p] = "live"
      BY QuietShown DEF PlatformIDs
    <3> QED
      BY <3>1 DEF GetOnline
  <2>2. ASSUME NEW p \in GetOnline PROVE p \in Connected
    <3>1. PICK g \in Gateway : \/ p \in PlatformIDs(clients[g])
                               \/ Leaving(p, ch[g], batch[g], queue[g], request[g])
      BY DEF GetOnline, ReportInv, Live
    <3>2. ~Leaving(p, << >>, << >>, << >>, << >>)
      BY EndsEmpty DEF Leaving, OffQueued
    <3> QED
      BY <3>1, <3>2 DEF Connected, Idle
  <2> QED
    BY <2>1, <2>2 DEF Connected
<1> QED
  BY InitType, StepType, InitReport, StepReport, <1>1, PTL DEF Spec

=============================================================================
