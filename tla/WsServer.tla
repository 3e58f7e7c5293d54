------------------------------ MODULE WsServer ------------------------------
(***************************************************************************)
(* The connections of the message gateways: internal/msggateway,           *)
(* ws_server.go, user_map.go, client.go and the kick handlers of           *)
(* hub_server.go.                                                          *)
(*                                                                         *)
(* On each gateway one goroutine, the event loop, takes clients from a     *)
(* register, an unregister and a kick channel and keeps the user map.      *)
(* HTTP handlers, one reader per connection and the RPC handlers run       *)
(* beside it.  Client objects come from a pool and go back to it when they *)
(* are unregistered, so a pointer kept too long may denote the client of   *)
(* another connection.  With each connection the object also gets a new    *)
(* mutex, so that a close() of its last connection that is still under way *)
(* excludes no close() of the next one.                                    *)
(*                                                                         *)
(* The user-state channel, the subscriptions and the auth service's tokens *)
(* are not part of this module.                                            *)
(***************************************************************************)
EXTENDS Integers, Sequences, FiniteSets, Functions, SequencesExt, Subsequences

CONSTANTS
  Node,           \* the gateways
  Conn,           \* the connections attempted, each once: a remote address
  NodeOf,         \* the gateway, user and platform of each connection
  UserOf,
  PlatformOf,
  User,
  Platform,
  ClassOf,        \* constant.PlatformIDToClass
  Object,         \* per gateway, the client objects its pool may hand out
  Policy,         \* MultiLogin.Policy
  ChanCap,        \* capacity of the three channels (1000)
  MaxConn,        \* wsMaxConnNum
  RegisterFirst,  \* TRUE: a client is never unregistered before registered
  LockKept,       \* TRUE: no object is reset while a close() of it is under way
  RpcFails,       \* TRUE: MultiTerminalLoginCheck may fail
  None            \* no connection, client or goroutine

Policies == {"NotKick", "SameTerm", "SameClass", "PCAndOther"}

ASSUME ConnAssumption ==
  NodeOf \in [Conn -> Node] /\ UserOf \in [Conn -> User] /\ PlatformOf \in [Conn -> Platform]
ASSUME PolicyAssumption == Policy \in Policies /\ DOMAIN ClassOf = Platform
ASSUME CapAssumption == ChanCap \in Nat \ {0} /\ MaxConn \in Nat
ASSUME ModeAssumption ==
  RegisterFirst \in BOOLEAN /\ LockKept \in BOOLEAN /\ RpcFails \in BOOLEAN

\* The goroutines that may close a client.
Goroutine == ({"reader"} \X Conn) \cup ({"loop", "kicker"} \X Node)

ASSUME NoneAssumption ==
  None \notin Conn \cup Goroutine /\ \A n \in Node : None \notin Object[n]

VARIABLES
  handler,     \* per connection, where its wsHandler is
  object,      \* per connection, the client object it was given
  reader,      \* per connection, where its readMessage goroutine is
  socket,      \* per connection: "none", "open" or "closed"
  pool,        \* per gateway and object, how often the pool holds it
  conn,        \* per gateway and object, the connection ResetClient gave it
  closed,      \* per gateway and object, Client.closed
  locker,      \* per connection, who holds the mutex ResetClient made for it
  registerChan, unregisterChan, kickChan,
  clients,     \* per gateway, the user map: the clients of each user
  userNum,     \* onlineUserNum
  connNum,     \* onlineUserConnNum
  loop,        \* per gateway, what the event loop is doing
  kicker       \* per gateway, where KickUserOffline is and whom it has to kick

connVars == <<handler, object, reader>>
clientVars == <<conn, closed, locker, socket>>
chanVars == <<registerChan, unregisterChan, kickChan>>
mapVars == <<clients, userNum, connNum>>
vars == <<connVars, clientVars, pool, chanVars, mapVars, loop, kicker>>

\* The loop between two events, and inside one: the clients it has still to
\* close (kicks), the client it registers, the gateways it has to notify.
Idle == [at |-> "select", new |-> None, kicks |-> <<>>, todo |-> {}]

Init ==
  /\ handler = [c \in Conn |-> "new"]
  /\ object = [c \in Conn |-> None]
  /\ reader = [c \in Conn |-> "none"]
  /\ socket = [c \in Conn |-> "none"]
  /\ pool = [n \in Node |-> [o \in Object[n] |-> 1]]
  /\ conn = [n \in Node |-> [o \in Object[n] |-> None]]
  /\ closed = [n \in Node |-> [o \in Object[n] |-> FALSE]]
  /\ locker = [c \in Conn |-> None]
  /\ registerChan = [n \in Node |-> <<>>]
  /\ unregisterChan = [n \in Node |-> <<>>]
  /\ kickChan = [n \in Node |-> <<>>]
  /\ clients = [n \in Node |-> [u \in User |-> <<>>]]
  /\ userNum = [n \in Node |-> 0]
  /\ connNum = [n \in Node |-> 0]
  /\ loop = [n \in Node |-> Idle]
  /\ kicker = [n \in Node |-> [at |-> "idle", old |-> <<>>]]

-----------------------------------------------------------------------------
(* The client object and the user map *)

\* The fields UserID and PlatformID of a client object.
UserID(n, o) == UserOf[conn[n][o]]
PlatformID(n, o) == PlatformOf[conn[n][o]]

\* UserMap.Get: the user's clients on platform p.
OnPlatform(n, u, p) ==
  Only(clients[n][u], {o \in ToSet(clients[n][u]) : PlatformID(n, o) = p})

\* Mutant: a deletion empties the user's list.
WithoutAll(n, u, os) == IF os = <<>> THEN clients[n][u] ELSE <<>>

\* UserMap.DeleteClients, by remote address.
Without(n, u, os) ==
  LET addrs == {conn[n][o] : o \in ToSet(os)}
  IN  Only(clients[n][u], {o \in ToSet(clients[n][u]) : conn[n][o] \notin addrs})

\* Its result: the user is gone from the map.
IsDeleteUser(n, u, os) == os # <<>> /\ clients[n][u] # <<>> /\ Without(n, u, os) = <<>>

\* The clients that multiTerminalLoginChecker kicks for a login of user u on
\* platform p; snapshot is what its caller had got from the map.
Victims(n, u, p, snapshot) ==
  LET OfClasses(C) ==
        Only(clients[n][u], {o \in ToSet(clients[n][u]) : ClassOf[PlatformID(n, o)] \in C})
  IN
  CASE Policy = "NotKick" -> <<>>
    [] Policy = "SameTerm" -> snapshot
    [] Policy = "SameClass" -> OfClasses({ClassOf[p]})
    [] Policy = "PCAndOther" ->
         IF ClassOf[p] = "PC" THEN <<>> ELSE OfClasses(Range(ClassOf) \ {"PC"})

\* The first step of Client.close, by goroutine x: it takes the mutex the
\* object has now.
Lock(x, n, o) ==
  /\ locker[conn[n][o]] = None
  /\ locker' = [locker EXCEPT ![conn[n][o]] = x]
  /\ UNCHANGED <<conn, closed, socket>>

\* Its last: x releases the mutex it took.
Unlock(x) == locker' = [c \in Conn |-> IF locker[c] = x THEN None ELSE locker[c]]

\* In between it has found closed unset and sets it, and closes the socket.
MarkClosed(n, o) ==
  /\ closed' = [closed EXCEPT ![n][o] = TRUE]
  /\ socket' = [socket EXCEPT ![conn[n][o]] = "closed"]
  /\ UNCHANGED <<conn, locker>>

\* Mutant: close does not release the mutex.
SendUnregisterLocked(x, n, o) ==
  /\ Len(unregisterChan[n]) < ChanCap
  /\ unregisterChan' = [unregisterChan EXCEPT ![n] = Append(@, o)]
  /\ UNCHANGED <<conn, closed, locker, socket, registerChan, kickChan>>

\* UnRegister, and the end of close.
SendUnregister(x, n, o) ==
  /\ Len(unregisterChan[n]) < ChanCap
  /\ unregisterChan' = [unregisterChan EXCEPT ![n] = Append(@, o)]
  /\ Unlock(x)
  /\ UNCHANGED <<conn, closed, socket, registerChan, kickChan>>

-----------------------------------------------------------------------------
(* wsHandler and readMessage *)

\* The connection limit is checked long before the client is registered.
Admit(c) ==
  /\ handler[c] = "new"
  /\ handler' = [handler EXCEPT ![c] =
       IF connNum[NodeOf[c]] < MaxConn THEN "admitted" ELSE "rejected"]
  /\ UNCHANGED <<object, reader, clientVars, pool, chanVars, mapVars, loop, kicker>>

\* The websocket is set up and a client object reset for it, with a mutex of
\* its own.
ResetClient(c, o) ==
  LET n == NodeOf[c] IN
  /\ handler[c] = "admitted"
  /\ pool[n][o] > 0
  /\ LockKept /\ conn[n][o] # None => locker[conn[n][o]] = None
  /\ pool' = [pool EXCEPT ![n][o] = @ - 1]
  /\ conn' = [conn EXCEPT ![n][o] = c]
  /\ closed' = [closed EXCEPT ![n][o] = FALSE]
  /\ socket' = [socket EXCEPT ![c] = "open"]
  /\ object' = [object EXCEPT ![c] = o]
  /\ handler' = [handler EXCEPT ![c] = "registering"]
  /\ UNCHANGED <<reader, locker, chanVars, mapVars, loop, kicker>>

\* registerChan <- client; go client.readMessage()
SendRegister(c) ==
  LET n == NodeOf[c] IN
  /\ handler[c] = "registering"
  /\ Len(registerChan[n]) < ChanCap
  /\ registerChan' = [registerChan EXCEPT ![n] = Append(@, object[c])]
  /\ handler' = [handler EXCEPT ![c] = "done"]
  /\ reader' = [reader EXCEPT ![c] = "reading"]
  /\ UNCHANGED <<object, clientVars, pool, unregisterChan, kickChan, mapVars,
                 loop, kicker>>

\* ReadMessage fails: the peer has gone, or the server closed the socket.
ReadFails(c) ==
  /\ reader[c] = "reading"
  /\ reader' = [reader EXCEPT ![c] = "closing"]
  /\ UNCHANGED <<handler, object, clientVars, pool, chanVars, mapVars, loop, kicker>>

\* The reader's deferred close().
ReaderLocks(c) ==
  /\ reader[c] = "closing"
  /\ Lock(<<"reader", c>>, NodeOf[c], object[c])
  /\ reader' = [reader EXCEPT ![c] = "locked"]
  /\ UNCHANGED <<handler, object, pool, chanVars, mapVars, loop, kicker>>

\* Mutant: close does not look at the flag it sets.
ReaderTestsNothing(c) ==
  /\ reader[c] = "locked"
  /\ reader' = [reader EXCEPT ![c] = "marking"]
  /\ UNCHANGED <<handler, object, clientVars, pool, chanVars, mapVars, loop, kicker>>

ReaderTests(c) ==
  /\ reader[c] = "locked"
  /\ IF closed[NodeOf[c]][object[c]]
     THEN reader' = [reader EXCEPT ![c] = "done"] /\ Unlock(<<"reader", c>>)
     ELSE reader' = [reader EXCEPT ![c] = "marking"] /\ UNCHANGED locker
  /\ UNCHANGED <<handler, object, conn, closed, socket, pool, chanVars, mapVars,
                 loop, kicker>>

ReaderMarks(c) ==
  /\ reader[c] = "marking"
  /\ reader' = [reader EXCEPT ![c] = "sending"]
  /\ MarkClosed(NodeOf[c], object[c])
  /\ UNCHANGED <<handler, object, pool, chanVars, mapVars, loop, kicker>>

\* Mutant: the reader closes the socket and does not unregister the client.
ReaderClosesOnly(c) ==
  /\ reader[c] = "sending"
  /\ reader' = [reader EXCEPT ![c] = "done"]
  /\ Unlock(<<"reader", c>>)
  /\ UNCHANGED <<handler, object, conn, closed, socket, pool, chanVars, mapVars,
                 loop, kicker>>

ReaderSends(c) ==
  /\ reader[c] = "sending"
  /\ SendUnregister(<<"reader", c>>, NodeOf[c], object[c])
  /\ reader' = [reader EXCEPT ![c] = "done"]
  /\ UNCHANGED <<handler, object, pool, mapVars, loop, kicker>>

-----------------------------------------------------------------------------
(* The event loop *)

\* UserMap.Set
Set(n, u, o) == clients' = [clients EXCEPT ![n][u] = Append(@, o)]

\* After it has registered a client, the loop waits for the other gateways.
Notifying(o) == [at |-> "notify", new |-> o, kicks |-> <<>>, todo |-> Node]

\* Mutant: the first login of a user on this gateway is not announced.
RegisterClientSilent(n) ==
  LET o == Head(registerChan[n])
      u == UserID(n, o)
      p == PlatformID(n, o)
      victims == Victims(n, u, p, OnPlatform(n, u, p))
  IN
  /\ loop[n].at = "select" /\ registerChan[n] # <<>>
  /\ registerChan' = [registerChan EXCEPT ![n] = Tail(@)]
  /\ IF clients[n][u] = <<>>
     THEN /\ Set(n, u, o)
          /\ userNum' = [userNum EXCEPT ![n] = @ + 1]
          /\ connNum' = [connNum EXCEPT ![n] = @ + 1]
          /\ UNCHANGED loop
     ELSE /\ clients' = [clients EXCEPT ![n][u] = Without(n, u, victims)]
          /\ loop' = [loop EXCEPT ![n] =
               [at |-> "kick", new |-> o, kicks |-> victims, todo |-> {}]]
          /\ UNCHANGED <<userNum, connNum>>
  /\ UNCHANGED <<connVars, clientVars, pool, unregisterChan, kickChan, kicker>>

\* registerClient, up to the end of DeleteClients in the login check.
RegisterClient(n) ==
  LET o == Head(registerChan[n])
      u == UserID(n, o)
      p == PlatformID(n, o)
      victims == Victims(n, u, p, OnPlatform(n, u, p))
  IN
  /\ loop[n].at = "select" /\ registerChan[n] # <<>>
  /\ registerChan' = [registerChan EXCEPT ![n] = Tail(@)]
  /\ IF clients[n][u] = <<>>
     THEN /\ Set(n, u, o)
          /\ userNum' = [userNum EXCEPT ![n] = @ + 1]
          /\ connNum' = [connNum EXCEPT ![n] = @ + 1]
          /\ loop' = [loop EXCEPT ![n] = Notifying(o)]
     ELSE /\ clients' = [clients EXCEPT ![n][u] = Without(n, u, victims)]
          /\ loop' = [loop EXCEPT ![n] =
               [at |-> "kick", new |-> o, kicks |-> victims, todo |-> {}]]
          /\ UNCHANGED <<userNum, connNum>>
  /\ UNCHANGED <<connVars, clientVars, pool, unregisterChan, kickChan, kicker>>

\* A login elsewhere: multiTerminalLoginChecker, up to the same point.
TakeKick(n) ==
  LET k == Head(kickChan[n])
      victims == Victims(n, k.user, k.platform, k.old)
  IN
  /\ loop[n].at = "select" /\ kickChan[n] # <<>>
  /\ kickChan' = [kickChan EXCEPT ![n] = Tail(@)]
  /\ clients' = [clients EXCEPT ![n][k.user] = Without(n, k.user, victims)]
  /\ loop' = [loop EXCEPT ![n] =
       [at |-> "kick", new |-> None, kicks |-> victims, todo |-> {}]]
  /\ UNCHANGED <<connVars, clientVars, pool, registerChan, unregisterChan,
                 userNum, connNum, kicker>>

\* KickOnlineMessage of the next victim: it closes the client as it is now.
LoopLocks(n) ==
  /\ loop[n].at = "kick" /\ loop[n].kicks # <<>>
  /\ Lock(<<"loop", n>>, n, Head(loop[n].kicks))
  /\ loop' = [loop EXCEPT ![n].at = "locked"]
  /\ UNCHANGED <<connVars, pool, chanVars, mapVars, kicker>>

LoopTests(n) ==
  /\ loop[n].at = "locked"
  /\ IF closed[n][Head(loop[n].kicks)]
     THEN /\ loop' = [loop EXCEPT ![n].at = "kick", ![n].kicks = Tail(@)]
          /\ Unlock(<<"loop", n>>)
     ELSE loop' = [loop EXCEPT ![n].at = "marking"] /\ UNCHANGED locker
  /\ UNCHANGED <<connVars, conn, closed, socket, pool, chanVars, mapVars, kicker>>

LoopMarks(n) ==
  /\ loop[n].at = "marking"
  /\ loop' = [loop EXCEPT ![n].at = "send"]
  /\ MarkClosed(n, Head(loop[n].kicks))
  /\ UNCHANGED <<connVars, pool, chanVars, mapVars, kicker>>

\* The loop sends to the channel that only the loop receives from.
LoopSends(n) ==
  /\ loop[n].at = "send"
  /\ SendUnregister(<<"loop", n>>, n, Head(loop[n].kicks))
  /\ loop' = [loop EXCEPT ![n].at = "kick", ![n].kicks = Tail(@)]
  /\ UNCHANGED <<connVars, pool, mapVars, kicker>>

\* Mutant: a repeated login is not counted.
KicksDoneUncounted(n) ==
  LET o == loop[n].new IN
  /\ loop[n].at = "kick" /\ loop[n].kicks = <<>>
  /\ IF o = None
     THEN loop' = [loop EXCEPT ![n] = Idle] /\ UNCHANGED clients
     ELSE Set(n, UserID(n, o), o) /\ loop' = [loop EXCEPT ![n] = Notifying(o)]
  /\ UNCHANGED <<connVars, clientVars, pool, chanVars, userNum, connNum, kicker>>

\* All victims are closed; a client being registered enters the map.
KicksDone(n) ==
  LET o == loop[n].new IN
  /\ loop[n].at = "kick" /\ loop[n].kicks = <<>>
  /\ IF o = None
     THEN loop' = [loop EXCEPT ![n] = Idle] /\ UNCHANGED <<clients, connNum>>
     ELSE /\ Set(n, UserID(n, o), o)
          /\ connNum' = [connNum EXCEPT ![n] = @ + 1]
          /\ loop' = [loop EXCEPT ![n] = Notifying(o)]
  /\ UNCHANGED <<connVars, clientVars, pool, chanVars, userNum, kicker>>

\* sendUserOnlineInfoToOtherNode: MultiTerminalLoginCheck on gateway m takes
\* the user's clients of that platform and queues them for its loop.  The
\* call may fail; that is logged.
Notify(n, m) ==
  LET u == UserID(n, loop[n].new)
      p == PlatformID(n, loop[n].new)
      k == [user |-> u, platform |-> p, old |-> OnPlatform(m, u, p)]
  IN
  /\ loop[n].at = "notify" /\ m \in loop[n].todo
  /\ loop' = [loop EXCEPT ![n].todo = @ \ {m}]
  /\ \/ /\ m # n /\ clients[m][u] # <<>>
        /\ Len(kickChan[m]) < ChanCap
        /\ kickChan' = [kickChan EXCEPT ![m] = Append(@, k)]
     \/ /\ m = n \/ clients[m][u] = <<>> \/ RpcFails
        /\ UNCHANGED kickChan
  /\ UNCHANGED <<connVars, clientVars, pool, registerChan, unregisterChan,
                 mapVars, kicker>>

RegisterDone(n) ==
  /\ loop[n].at = "notify" /\ loop[n].todo = {}
  /\ loop' = [loop EXCEPT ![n] = Idle]
  /\ UNCHANGED <<connVars, clientVars, pool, chanVars, mapVars, kicker>>

\* Mutant: the client goes back to the pool and stays in the map.
UnregisterClientListed(n) ==
  LET o == Head(unregisterChan[n]) IN
  /\ loop[n].at = "select" /\ unregisterChan[n] # <<>>
  /\ unregisterChan' = [unregisterChan EXCEPT ![n] = Tail(@)]
  /\ connNum' = [connNum EXCEPT ![n] = @ - 1]
  /\ pool' = [pool EXCEPT ![n][o] = @ + 1]
  /\ UNCHANGED <<connVars, clientVars, registerChan, kickChan, clients, userNum,
                 loop, kicker>>

UnregisterClient(n) ==
  LET o == Head(unregisterChan[n])
      u == UserID(n, o)
  IN
  /\ loop[n].at = "select" /\ unregisterChan[n] # <<>>
  /\ RegisterFirst => o \notin ToSet(registerChan[n])
                      /\ \A c \in Conn : ~(handler[c] = "registering" /\ object[c] = o)
  /\ unregisterChan' = [unregisterChan EXCEPT ![n] = Tail(@)]
  /\ clients' = [clients EXCEPT ![n][u] = Without(n, u, <<o>>)]
  /\ userNum' = [userNum EXCEPT ![n] = IF IsDeleteUser(n, u, <<o>>) THEN @ - 1 ELSE @]
  /\ connNum' = [connNum EXCEPT ![n] = @ - 1]
  /\ pool' = [pool EXCEPT ![n][o] = @ + 1]
  /\ UNCHANGED <<connVars, clientVars, registerChan, kickChan, loop, kicker>>

-----------------------------------------------------------------------------
(* KickUserOffline, an RPC *)

KickUserOffline(n, u, p) ==
  /\ kicker[n].at = "idle"
  /\ OnPlatform(n, u, p) # <<>>
  /\ kicker' = [kicker EXCEPT ![n] = [at |-> "kick", old |-> OnPlatform(n, u, p)]]
  /\ UNCHANGED <<connVars, clientVars, pool, chanVars, mapVars, loop>>

\* The kicker is done with the first client of its list.
NextToKick(n) ==
  kicker' = [kicker EXCEPT ![n] = [at |-> IF Len(@.old) > 1 THEN "kick" ELSE "idle",
                                   old |-> Tail(@.old)]]

\* KickUserConn: DeleteClients, with its result dropped, ...
KickerDeletes(n) ==
  LET o == Head(kicker[n].old)
      u == UserID(n, o)
  IN
  /\ kicker[n].at = "kick"
  /\ clients' = [clients EXCEPT ![n][u] = Without(n, u, <<o>>)]
  /\ kicker' = [kicker EXCEPT ![n].at = "close"]
  /\ UNCHANGED <<connVars, clientVars, pool, chanVars, userNum, connNum, loop>>

\* ... then KickOnlineMessage.
KickerLocks(n) ==
  /\ kicker[n].at = "close"
  /\ Lock(<<"kicker", n>>, n, Head(kicker[n].old))
  /\ kicker' = [kicker EXCEPT ![n].at = "locked"]
  /\ UNCHANGED <<connVars, pool, chanVars, mapVars, loop>>

KickerTests(n) ==
  /\ kicker[n].at = "locked"
  /\ IF closed[n][Head(kicker[n].old)]
     THEN NextToKick(n) /\ Unlock(<<"kicker", n>>)
     ELSE kicker' = [kicker EXCEPT ![n].at = "marking"] /\ UNCHANGED locker
  /\ UNCHANGED <<connVars, conn, closed, socket, pool, chanVars, mapVars, loop>>

KickerMarks(n) ==
  /\ kicker[n].at = "marking"
  /\ kicker' = [kicker EXCEPT ![n].at = "send"]
  /\ MarkClosed(n, Head(kicker[n].old))
  /\ UNCHANGED <<connVars, pool, chanVars, mapVars, loop>>

KickerSends(n) ==
  /\ kicker[n].at = "send"
  /\ SendUnregister(<<"kicker", n>>, n, Head(kicker[n].old))
  /\ NextToKick(n)
  /\ UNCHANGED <<connVars, pool, mapVars, loop>>

-----------------------------------------------------------------------------
Handler(c) == Admit(c) \/ (\E o \in Object[NodeOf[c]] : ResetClient(c, o)) \/ SendRegister(c)
ReaderCloses(c) == ReaderLocks(c) \/ ReaderTests(c) \/ ReaderMarks(c) \/ ReaderSends(c)
Reader(c) == ReadFails(c) \/ ReaderCloses(c)
LoopCloses(n) == LoopLocks(n) \/ LoopTests(n) \/ LoopMarks(n) \/ LoopSends(n)
EventLoop(n) ==
  \/ RegisterClient(n) \/ TakeKick(n) \/ UnregisterClient(n)
  \/ LoopCloses(n) \/ KicksDone(n)
  \/ (\E m \in Node : Notify(n, m)) \/ RegisterDone(n)
KickerCloses(n) == KickerLocks(n) \/ KickerTests(n) \/ KickerMarks(n) \/ KickerSends(n)
Kicker(n) == KickerDeletes(n) \/ KickerCloses(n)

Next ==
  \/ \E c \in Conn : Handler(c) \/ Reader(c)
  \/ \E n \in Node :
       \/ EventLoop(n)
       \/ \E u \in User, p \in Platform : KickUserOffline(n, u, p)
       \/ Kicker(n)

Spec == Init /\ [][Next]_vars

\* All goroutines run, and a read on a closed socket returns.  A connection
\* need not be attempted, and a peer need not go away.
Fairness ==
  /\ \A c \in Conn :
       /\ WF_vars(SendRegister(c))
       /\ WF_vars(socket[c] = "closed" /\ ReadFails(c))
       /\ WF_vars(ReaderCloses(c))
  /\ \A n \in Node : WF_vars(EventLoop(n)) /\ WF_vars(Kicker(n))

FairSpec == Spec /\ Fairness

-----------------------------------------------------------------------------
(* Properties *)

\* The client objects of a gateway that have been given to a connection.
Used(n) == {o \in Object[n] : conn[n][o] # None}

\* What the kick channel carries, and the states of the loop and the kicker.
Kick(n) == [user : User, platform : Platform, old : Seq(Used(n))]
LoopState(n) ==
  [at : {"select", "kick", "locked", "marking", "send", "notify"}, new : Used(n) \cup {None},
   kicks : Seq(Used(n)), todo : SUBSET Node]
KickerState(n) ==
  [at : {"idle", "kick", "close", "locked", "marking", "send"}, old : Seq(Used(n))]

\* A connection has an object once it is set up, and a reader once its handler
\* is done.
ConnTypes ==
  /\ handler \in [Conn -> {"new", "admitted", "rejected", "registering", "done"}]
  /\ reader \in
       [Conn -> {"none", "reading", "closing", "locked", "marking", "sending", "done"}]
  /\ socket \in [Conn -> {"none", "open", "closed"}]
  /\ locker \in [Conn -> Goroutine \cup {None}]
  /\ DOMAIN object = Conn
  /\ \A c \in Conn :
       /\ IF handler[c] \in {"registering", "done"} THEN object[c] \in Used(NodeOf[c])
                                                   ELSE object[c] = None
       /\ reader[c] # "none" => handler[c] = "done"

Domains ==
  /\ DOMAIN pool = Node /\ DOMAIN conn = Node /\ DOMAIN closed = Node
  /\ DOMAIN registerChan = Node /\ DOMAIN unregisterChan = Node /\ DOMAIN kickChan = Node
  /\ DOMAIN clients = Node /\ DOMAIN userNum = Node /\ DOMAIN connNum = Node
  /\ DOMAIN loop = Node /\ DOMAIN kicker = Node

ObjectTypes(n) ==
  /\ pool[n] \in [Object[n] -> Nat]
  /\ conn[n] \in [Object[n] -> Conn \cup {None}]
  /\ closed[n] \in [Object[n] -> BOOLEAN]

\* The channels keep to their capacity.
ChanTypes(n) ==
  /\ registerChan[n] \in Seq(Used(n)) /\ Len(registerChan[n]) <= ChanCap
  /\ unregisterChan[n] \in Seq(Used(n)) /\ Len(unregisterChan[n]) <= ChanCap
  /\ kickChan[n] \in Seq(Kick(n)) /\ Len(kickChan[n]) <= ChanCap

MapTypes(n) ==
  /\ clients[n] \in [User -> Seq(Used(n))]
  /\ userNum[n] \in Int /\ connNum[n] \in Int

LoopTypes(n) ==
  /\ loop[n] \in LoopState(n)
  /\ loop[n].at = "select" => loop[n] = Idle
  /\ loop[n].at \in {"locked", "marking", "send"} => loop[n].kicks # <<>>
  /\ loop[n].at = "notify" => loop[n].new # None /\ loop[n].kicks = <<>>

KickerTypes(n) ==
  /\ kicker[n] \in KickerState(n)
  /\ kicker[n].at # "idle" => kicker[n].old # <<>>

\* Type invariant: whatever is queued, listed or being worked on is a client
\* object that some connection was given.
TypeOK ==
  /\ ConnTypes /\ Domains
  /\ \A n \in Node : /\ ObjectTypes(n) /\ ChanTypes(n) /\ MapTypes(n)
                     /\ LoopTypes(n) /\ KickerTypes(n)

\* The open connections of a gateway.
Live(n) == {c \in Conn : NodeOf[c] = n /\ socket[c] = "open"}

\* Nothing is under way on a gateway.
Quiet(n) ==
  /\ loop[n] = Idle /\ kicker[n].at = "idle"
  /\ registerChan[n] = <<>> /\ unregisterChan[n] = <<>> /\ kickChan[n] = <<>>
  /\ \A c \in Conn : NodeOf[c] = n =>
       /\ handler[c] # "registering"
       /\ reader[c] \in {"none", "done"} \/ (reader[c] = "reading" /\ socket[c] = "open")

\* What follows relies on each connection being closed once, and that on
\* LockKept: a close() that is still under way when the object is reset holds
\* another mutex than the next one, and both may find closed unset.

\* Whatever connects, drops and is kicked, and whichever order the event loop
\* takes it in: when nothing is under way the connection counter, which the
\* limit is checked against, is the number of open connections, provided no
\* object is reset while it is being closed.
ConnCount == \A n \in Node : Quiet(n) => connNum[n] = Cardinality(Live(n))

\* When nothing is under way the user map lists, for each user, exactly the
\* open connections: nobody online is missed and nobody offline is kept,
\* provided no object is reset while it is being closed and none unregistered
\* before it is registered.
Roster ==
  \A n \in Node, u \in User : Quiet(n) =>
    /\ {conn[n][o] : o \in ToSet(clients[n][u])} = {c \in Live(n) : UserOf[c] = u}
    /\ IsInjective(clients[n][u])

\* Client.UserID is "the user the current connection belongs to" (client.go).
\* A client listed under a user belongs to that user although objects are
\* reused: what is pushed to a user reaches no one else's connection.  It
\* holds on the provisos of Roster; the second is needed.
OwnClients ==
  \A n \in Node, u \in User : \A o \in ToSet(clients[n][u]) : UserID(n, o) = u

\* The comment on clientPool.Get in wsHandler: the object is reset and associated
\* with the current connection.  The pool never gives the object of an open
\* connection to another one, whoever still holds a pointer to it, provided no
\* object is reset while it is being closed.
Associated ==
  \A c \in Conn : socket[c] = "open" =>
    /\ conn[NodeOf[c]][object[c]] = c
    /\ pool[NodeOf[c]][object[c]] = 0

\* Two connections that the policy forbids to be online together.
Exclusive(c, d) ==
  /\ c # d /\ UserOf[c] = UserOf[d]
  /\ CASE Policy = "NotKick" -> FALSE
       [] Policy = "SameTerm" -> PlatformOf[c] = PlatformOf[d]
       [] Policy = "SameClass" -> ClassOf[PlatformOf[c]] = ClassOf[PlatformOf[d]]
       [] Policy = "PCAndOther" ->
            ClassOf[PlatformOf[c]] # "PC" /\ ClassOf[PlatformOf[d]] # "PC"

\* config/share.yml on policy 1: "only one instance can be online at a time"
\* per platform; constant.go on the others.  When all gateways are quiet no
\* user has two open connections the policy excludes, on one gateway or on
\* two, whichever order the logins and their notifications were taken in,
\* provided no call between gateways fails and no object is reset while it is
\* being closed.
OneInstance ==
  (\A n \in Node : Quiet(n)) =>
    \A c, d \in UNION {Live(n) : n \in Node} : ~Exclusive(c, d)

\* The goroutines beside the loops that are about to send to unregisterChan.
AboutToSend ==
  {<<"reader", c>> : c \in {d \in Conn : reader[d] = "sending"}}
    \cup {<<"kicker", n>> : n \in {m \in Node : kicker[m].at = "send"}}

\* Only the event loop receives from unregisterChan.  It is lost when the
\* channel is full and it has to send to it itself, or needs the mutex of a
\* client whose closer waits to send.
BlocksItself(n) ==
  /\ Len(unregisterChan[n]) = ChanCap
  /\ \/ loop[n].at = "send"
     \/ /\ loop[n].at = "kick" /\ loop[n].kicks # <<>>
        /\ locker[conn[n][Head(loop[n].kicks)]] \in AboutToSend

\* A connection that is closed leaves the user map, unless its gateway's event
\* loop blocks itself for good.
ClosedLeaves ==
  \A c \in Conn :
    \/ socket[c] = "closed" ~>
         \A u \in User : \A o \in ToSet(clients[NodeOf[c]][u]) : conn[NodeOf[c]][o] # c
    \/ <>[]BlocksItself(NodeOf[c])

\* The loop waits for another gateway whose kick channel is full.
AwaitsGateway(n) ==
  loop[n].at = "notify" /\ \E m \in loop[n].todo \ {n} : Len(kickChan[m]) = ChanCap

\* A login being registered is registered: the event loop gets back to its
\* select whatever it has to kick, unless it blocks itself or waits for another
\* gateway for good.
LoopReturns ==
  \A n \in Node :
    []<>(loop[n].at = "select") \/ <>[](BlocksItself(n) \/ AwaitsGateway(n))
=============================================================================
