---------------------------- MODULE OnlineStatus ----------------------------
(***************************************************************************)
(* The online status of one user: each gateway counts the user's           *)
(* connections per platform and reports every change through a channel, a  *)
(* batch and a request queue to the user service; the service keeps a Redis*)
(* sorted set of platforms with an expiry score and announces a changed    *)
(* membership on a channel; the gateways and the push service listen.      *)
(*                                                                         *)
(*   internal/msggateway/user_map.go, online.go, subscription.go           *)
(*   internal/rpc/user/online.go                                           *)
(*   pkg/common/storage/cache/redis/online.go                              *)
(*   pkg/rpccache/online.go (with the full cache the push service uses)    *)
(***************************************************************************)
EXTENDS Naturals, Sequences, FiniteSets

CONSTANTS
  Gateway, Platform,
  Push,        \* the process that keeps every user's status
  Budgets,     \* bounds: changes of each platform's connections, and faults
  ChanSize,    \* userMap.ch (10000)
  BatchSize,   \* capacity of changeStatus (100)
  QueueSize    \* requestChs (64)

ASSUMPTION SizesAssumption ==
  /\ Budgets \subseteq [changes : [Platform -> Nat], faults : Nat]
  /\ ChanSize \in Nat \ {0} /\ BatchSize \in Nat \ {0} /\ QueueSize \in Nat \ {0}
ASSUMPTION NamesAssumption == IsFiniteSet(Platform) /\ Push \notin Gateway

VARIABLES
  clients,   \* clients[g][p]: connections of the user (userMap.data)
  ch,        \* states pushed and not yet taken by ChangeOnlineStatus
  batch,     \* changeStatus
  queue,     \* requests waiting for the sender goroutine
  request,   \* statuses that the user service has still to write for g
  announce,  \* announce[g]: memberships it has to publish, at most one
  zset,      \* the sorted set: a platform is absent, live or past its score
  inbox,     \* messages of the channel on their way to each listener
  view,      \* Push's mapCache entry; {} when there is none
  subscribed, loaded,  \* how far Push's start has come
  changes, faults,     \* what is left of the budget
  \* History.
  lost,      \* a report was lost or a renewal came too late
  astray     \* what Push was last told is not the membership

local   == <<clients, ch, batch, queue>>
service == <<request, announce, zset>>
push    == <<view, subscribed, loaded>>
vars == <<local, service, inbox, push, changes, faults, lost, astray>>

Status == [online : SUBSET Platform, offline : SUBSET Platform]

TypeOK ==
  /\ clients \in [Gateway -> [Platform -> Nat]]
  /\ ch \in [Gateway -> Seq(Status)] /\ batch \in [Gateway -> Seq(Status)]
  /\ queue \in [Gateway -> Seq(Seq(Status))] /\ request \in [Gateway -> Seq(Status)]
  /\ announce \in [Gateway -> Seq(SUBSET Platform)]
  /\ \A g \in Gateway :
       /\ Len(ch[g]) <= ChanSize /\ Len(batch[g]) < BatchSize /\ Len(queue[g]) <= QueueSize
       /\ Len(announce[g]) <= 1
  /\ zset \in [Platform -> {"absent", "live", "old"}]
  /\ inbox \in [Gateway \cup {Push} -> Seq(SUBSET Platform)]
  /\ view \subseteq Platform
  /\ subscribed \in BOOLEAN /\ loaded \in BOOLEAN
  /\ changes \in [Platform -> Nat] /\ faults \in Nat
  /\ lost \in BOOLEAN /\ astray \in BOOLEAN

Init ==
  /\ clients = [g \in Gateway |-> [p \in Platform |-> 0]]
  /\ ch = [g \in Gateway |-> << >>]
  /\ batch = [g \in Gateway |-> << >>]
  /\ queue = [g \in Gateway |-> << >>]
  /\ request = [g \in Gateway |-> << >>]
  /\ announce = [g \in Gateway |-> << >>]
  /\ zset = [p \in Platform |-> "absent"]
  /\ inbox = [l \in Gateway \cup {Push} |-> << >>]
  /\ view = {} /\ subscribed = FALSE /\ loaded = FALSE
  /\ \E b \in Budgets : changes = b.changes /\ faults = b.faults
  /\ lost = FALSE /\ astray = FALSE

----------------------------------------------------------------------------
(* A gateway's clients and what it reports of them.                        *)

\* UserPlatform.PlatformIDSet.
PlatformIDs(byPlatform) == {p \in Platform : byPlatform[p] > 0}
Connected == UNION {PlatformIDs(clients[g]) : g \in Gateway}

\* ZRANGE over the whole set, and over the scores not yet past (GetOnline).
Members   == {p \in Platform : zset[p] # "absent"}
GetOnline == {p \in Platform : zset[p] = "live"}

Idle(g) ==
  /\ ch[g] = << >> /\ batch[g] = << >> /\ queue[g] = << >>
  /\ request[g] = << >> /\ announce[g] = << >> /\ inbox[g] = << >>

\* Ten minutes between renewals and thirty to the expiry: by then whatever was
\* on its way has arrived.
Quiet == (\A g \in Gateway : Idle(g)) /\ inbox[Push] = << >>

\* userMap.push: a full channel drops the state.
Pushed(g, byPlatform, offline) ==
  IF Len(ch[g]) < ChanSize
    THEN /\ ch' = [ch EXCEPT ![g] =
                     Append(@, [online |-> PlatformIDs(byPlatform), offline |-> offline])]
         /\ UNCHANGED lost
    ELSE lost' = TRUE /\ UNCHANGED ch

\* userMap.Set.
Set(g, p) ==
  /\ changes[p] > 0
  /\ clients' = [clients EXCEPT ![g][p] = @ + 1]
  /\ changes' = [changes EXCEPT ![p] = @ - 1]
  /\ Pushed(g, clients'[g], {})
  /\ UNCHANGED <<batch, queue, service, inbox, push, faults, astray>>

\* userMap.DeleteClients for one client. The platform is reported offline also
\* when another client of it stays; it is then among the online ones as well.
DeleteClients(g, p) ==
  /\ changes[p] > 0 /\ clients[g][p] > 0
  /\ clients' = [clients EXCEPT ![g][p] = @ - 1]
  /\ changes' = [changes EXCEPT ![p] = @ - 1]
  /\ Pushed(g, clients'[g], {p})
  /\ UNCHANGED <<batch, queue, service, inbox, push, faults, astray>>

----------------------------------------------------------------------------
(* ChangeOnlineStatus: states into batches, batches into requests.         *)

\* Hand the batch b over; a full queue drops it.
Enqueued(g, b) ==
  /\ batch' = [batch EXCEPT ![g] = << >>]
  /\ IF Len(queue[g]) < QueueSize
       THEN queue' = [queue EXCEPT ![g] = Append(@, b)] /\ UNCHANGED lost
       ELSE lost' = TRUE /\ UNCHANGED queue

\* pushUserState: a batch that has become full goes at once.
PushUserState(g, s) ==
  IF Len(batch[g]) + 1 = BatchSize
    THEN Enqueued(g, Append(batch[g], s))
    ELSE batch' = [batch EXCEPT ![g] = Append(@, s)] /\ UNCHANGED <<queue, lost>>

\* case state := <-ws.clients.UserState()
Collect(g) ==
  /\ ch[g] # << >>
  /\ ch' = [ch EXCEPT ![g] = Tail(@)]
  /\ PushUserState(g, Head(ch[g]))
  /\ UNCHANGED <<clients, service, inbox, push, changes, faults, astray>>

\* case <-mergeTicker.C: pushAllUserState
Flush(g) ==
  /\ batch[g] # << >>
  /\ Enqueued(g, batch[g])
  /\ UNCHANGED <<clients, ch, service, inbox, push, changes, faults, astray>>

\* Mutant: the renewal names the user and none of its platforms.
RenewEmpty(g) ==
  /\ Quiet
  /\ PlatformIDs(clients[g]) # {}
  /\ PushUserState(g, [online |-> {}, offline |-> {}])
  /\ UNCHANGED <<clients, ch, service, inbox, push, changes, faults, astray>>

\* case <-renewalTicker.C: GetAllUserStatus, which skips a user whose state was
\* pushed less than a period ago.
Renew(g) ==
  /\ Quiet
  /\ PlatformIDs(clients[g]) # {}
  /\ PushUserState(g, [online |-> PlatformIDs(clients[g]), offline |-> {}])
  /\ UNCHANGED <<clients, ch, service, inbox, push, changes, faults, astray>>

\* doRequest: the sender goroutine calls SetUserOnlineStatus and waits for it.
Send(g) ==
  /\ queue[g] # << >> /\ request[g] = << >> /\ announce[g] = << >>
  /\ request' = [request EXCEPT ![g] = Head(queue[g])]
  /\ queue' = [queue EXCEPT ![g] = Tail(@)]
  /\ UNCHANGED <<clients, ch, batch, announce, zset, inbox, push, changes, faults, lost, astray>>

----------------------------------------------------------------------------
(* SetUserOnline: one script in Redis, then a separate PUBLISH.            *)

\* The set once the platforms past their score and the offline ones are out.
Purged(s) == {p \in Platform : zset[p] = "live"} \ s.offline

\* Mutant: only the first and the last count are compared.
ChangedCount(s) == Cardinality(Members) # Cardinality(Purged(s) \cup s.online)

\* Three counts: a removal or an addition shows even when both happen.
Changed(s) ==
  \/ Cardinality(Members) # Cardinality(Purged(s))
  \/ Cardinality(Purged(s)) # Cardinality(Purged(s) \cup s.online)

Script(g) ==
  LET s == Head(request[g]) IN
  /\ request[g] # << >> /\ announce[g] = << >>
  /\ request' = [request EXCEPT ![g] = Tail(@)]
  /\ zset' = [p \in Platform |-> IF p \in Purged(s) \cup s.online THEN "live" ELSE "absent"]
  /\ announce' = [announce EXCEPT ![g] =
                    IF Changed(s) THEN <<Purged(s) \cup s.online>> ELSE << >>]
  /\ UNCHANGED <<local, inbox, push, changes, faults, lost, astray>>

\* The message goes to every gateway, and to Push once its subscription stands.
Publish(g) ==
  /\ announce[g] # << >>
  /\ announce' = [announce EXCEPT ![g] = << >>]
  /\ LET m == announce[g][1] IN
     /\ inbox' = [l \in DOMAIN inbox |->
                    IF l # Push \/ subscribed THEN Append(inbox[l], m) ELSE inbox[l]]
     /\ astray' = IF subscribed THEN m # Members ELSE loaded /\ view # Members
  /\ UNCHANGED <<local, request, zset, push, changes, faults, lost>>

----------------------------------------------------------------------------
(* The listeners.                                                          *)

\* Mutant: a gateway does not answer for the clients it has.
RecvSubChangeIgnored(g) ==
  /\ inbox[g] # << >>
  /\ inbox' = [inbox EXCEPT ![g] = Tail(@)]
  /\ UNCHANGED <<local, service, push, changes, faults, lost, astray>>

\* userMap.RecvSubChange: a platform connected here that the message does not
\* name is reported again.
RecvSubChange(g) ==
  /\ inbox[g] # << >>
  /\ inbox' = [inbox EXCEPT ![g] = Tail(@)]
  /\ IF PlatformIDs(clients[g]) \subseteq Head(inbox[g])
       THEN UNCHANGED <<ch, lost>>
       ELSE Pushed(g, clients[g], {})
  /\ UNCHANGED <<clients, batch, queue, service, push, changes, faults, astray>>

\* doSubscribe starts to listen; it runs beside initUsersOnlineStatus.
Subscribe ==
  /\ ~subscribed
  /\ subscribed' = TRUE
  /\ UNCHANGED <<local, service, inbox, view, loaded, changes, faults, lost, astray>>

\* initUsersOnlineStatus: GetAllOnlineUsers lists members past their score too.
Load ==
  /\ ~loaded
  /\ loaded' = TRUE
  /\ view' = Members
  /\ astray' = (astray /\ inbox[Push] # << >>)
  /\ UNCHANGED <<local, service, inbox, subscribed, changes, faults, lost>>

\* Every try failed: the start goes on with what there is.
LoadFails ==
  /\ ~loaded /\ faults > 0
  /\ loaded' = TRUE
  /\ faults' = faults - 1
  /\ astray' = (Members # {} \/ astray)
  /\ UNCHANGED <<local, service, inbox, view, subscribed, changes, lost>>

\* doMessage with the full cache: Store, or Delete when no platform is left.
DoMessage ==
  /\ loaded /\ inbox[Push] # << >>
  /\ inbox' = [inbox EXCEPT ![Push] = Tail(@)]
  /\ view' = Head(inbox[Push])
  /\ UNCHANGED <<local, service, subscribed, loaded, changes, faults, lost, astray>>

----------------------------------------------------------------------------
(* Faults and the clock.                                                   *)

\* SetUserOnlineStatus returns at the first error: the statuses behind it and a
\* publication still to be made are dropped, and nobody repeats the request.
Fail(g) ==
  /\ faults > 0
  /\ request[g] # << >> \/ announce[g] # << >>
  /\ request' = [request EXCEPT ![g] = << >>]
  /\ announce' = [announce EXCEPT ![g] = << >>]
  /\ faults' = faults - 1 /\ lost' = TRUE
  /\ astray' = (astray \/ announce[g] # << >>)
  /\ UNCHANGED <<local, zset, inbox, push, changes>>

\* A gateway dies with its connections; the request it has sent goes on.
Crash(g) ==
  /\ faults > 0
  /\ clients' = [clients EXCEPT ![g] = [p \in Platform |-> 0]]
  /\ ch' = [ch EXCEPT ![g] = << >>]
  /\ batch' = [batch EXCEPT ![g] = << >>]
  /\ queue' = [queue EXCEPT ![g] = << >>]
  /\ inbox' = [inbox EXCEPT ![g] = << >>]
  /\ faults' = faults - 1 /\ lost' = TRUE
  /\ UNCHANGED <<service, push, changes, astray>>

\* A score passes. Of a connected platform only when its renewals came too late.
Expire(p) ==
  /\ Quiet /\ zset[p] = "live"
  /\ zset' = [zset EXCEPT ![p] = "old"]
  /\ IF p \in Connected
       THEN faults > 0 /\ faults' = faults - 1 /\ lost' = TRUE
       ELSE UNCHANGED <<faults, lost>>
  /\ UNCHANGED <<local, request, announce, inbox, push, changes, astray>>

\* The key goes with its last score, and nobody is told.
ExpireKey ==
  /\ Quiet /\ Members # {} /\ GetOnline = {}
  /\ zset' = [p \in Platform |-> "absent"]
  /\ astray' = TRUE
  /\ UNCHANGED <<local, request, announce, inbox, push, changes, faults, lost>>

Listen == Subscribe \/ Load \/ LoadFails \/ DoMessage

Next ==
  \/ \E g \in Gateway :
       \/ \E p \in Platform : Set(g, p) \/ DeleteClients(g, p)
       \/ Collect(g) \/ Flush(g) \/ Renew(g) \/ Send(g)
       \/ Script(g) \/ Publish(g) \/ RecvSubChange(g)
       \/ Fail(g) \/ Crash(g)
  \/ Listen
  \/ \E p \in Platform : Expire(p)
  \/ ExpireKey

Spec == Init /\ [][Next]_vars

\* The goroutines run. The clock does not wait for anybody: the ticker fires and
\* a score passes however often other reports come in between.
FairSpec ==
  /\ Spec
  /\ \A g \in Gateway :
       /\ WF_vars(Collect(g)) /\ WF_vars(Flush(g)) /\ WF_vars(Send(g))
       /\ WF_vars(Script(g)) /\ WF_vars(Publish(g)) /\ WF_vars(RecvSubChange(g))
       /\ SF_vars(Renew(g))
  /\ WF_vars(Subscribe) /\ WF_vars(Load) /\ WF_vars(DoMessage)
  /\ \A p \in Platform : SF_vars(p \notin Connected /\ Expire(p))

----------------------------------------------------------------------------
(* Properties.                                                             *)

\* Once every report is written and every message read, and none was lost, the
\* sorted set shows exactly the platforms some gateway has a client of: a
\* gateway's "offline" may remove a platform that is connected to another one,
\* and then that other one has put it back (SetUserOnline, RecvSubChange).
Settled ==
  (\A g \in Gateway : Idle(g)) /\ ~lost => GetOnline = Connected

\* A push service that has started knows the membership when no announcement is
\* on its way, unless its last one was overtaken, missed or never made
\* (doSubscribe, initUsersOnlineStatus; SetUserOnline publishes after its script).
Follows ==
  /\ loaded /\ subscribed /\ ~astray
  /\ inbox[Push] = << >> /\ \A g \in Gateway : announce[g] = << >>
  => view = Members

\* Whatever reports, requests, renewals or gateways are lost, the status shown
\* becomes that of the connections and stays it (renewal, expiry).
StatusConverges == <>[](GetOnline = Connected)
=============================================================================
