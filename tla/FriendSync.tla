----------------------------- MODULE FriendSync -----------------------------
(***************************************************************************)
(* The friend list of one owner, the version log that records its changes, *)
(* and how the owner's devices follow it:                                  *)
(*   pkg/common/storage/database/mgo/{friend,version_log}.go,              *)
(*   pkg/common/storage/controller/friend.go,                              *)
(*   pkg/common/storage/cache/redis/{friend,batch_handler}.go,             *)
(*   internal/rpc/incrversion/option.go, internal/rpc/relation/sync.go.    *)
(*                                                                         *)
(* A writer changes the list, appends to the log and deletes the cached    *)
(* newest version, in this order.  Where Mongo is a replica set some       *)
(* operations do so in a transaction, and the cache is then deleted before *)
(* the commit.  When a friend changes its profile, an update is appended   *)
(* to the log and the list is left as it is.                               *)
(* A device asks for what changed since its version and gets               *)
(* the changed elements, or is told to read the whole list.                *)
(*                                                                         *)
(* A friend's document is a stamp: odd when it is there, even when it is   *)
(* not, larger after every change.  Lists of other owners share nothing    *)
(* with this one.                                                          *)
(***************************************************************************)
EXTENDS Integers, FiniteSets

CONSTANTS
  Writer,     \* the calls that change the list or its log
  Client,     \* the owner's devices
  Friend,     \* the friends
  Sort,       \* VersionSortChangeID: the log element for the order of the list
  None,       \* no call, no device
  Limit,      \* syncLimit: 200
  MaxCalls,   \* bound of the model: how many calls begin
  Changes     \* bound of the model: the operations on each friend

ASSUME SortAssumption == Sort \notin Friend
ASSUME NoneAssumption == None \notin Writer \cup Client
ASSUME BoundAssumption == Limit \in Nat /\ MaxCalls \in Nat
ASSUME ChangesAssumption ==
  Changes \in [Friend -> SUBSET {"add", "remove", "remark", "pin", "profile"}]

VARIABLES
  replicaSet, \* whether Mongo has transactions; fixed by the deployment
  stamp,      \* the friend documents
  version,    \* version of the log document, 0 when there is none
  logs,       \* its elements: the version and kind of the last change of each
  cached,     \* the cached newest version, 0 when there is none
  filler,     \* the device whose request holds the lock of the cache entry
  writer,     \* the call in progress of each writer
  device,     \* each device's copy of the list and its version
  request,    \* each device's request, and the answer being built
  calls,      \* how many calls have begun, for the bound
  undeleted,  \* history: a call ended before it deleted the cached version
  blurred,    \* history: friends with calls that overlapped, or updated while gone
  astray      \* history: friends whose last change no log entry follows, as its call died

data  == <<replicaSet, stamp, version, logs>>
cache == <<cached, filler, undeleted>>
strays == <<blurred, astray>>
vars  == <<data, cache, writer, device, request, calls, strays>>

NoEntry == [ver |-> 0, state |-> "none"]
NoCall == [pc |-> "idle", op |-> "none", friend |-> None]
LoggedCall == [NoCall EXCEPT !.pc = "cache"]
NoRequest == [pc |-> "idle", ver |-> 0, changed |-> {}, gone |-> {},
              found |-> [e \in Friend |-> 0]]

Init ==
  /\ replicaSet \in BOOLEAN
  /\ stamp = [e \in Friend |-> 0]
  /\ version = 0 /\ logs = [k \in Friend \cup {Sort} |-> NoEntry]
  /\ cached = 0 /\ filler = None
  /\ writer = [w \in Writer |-> NoCall]
  /\ device = [c \in Client |-> [ver |-> 0, copy |-> [e \in Friend |-> 0]]]
  /\ request = [c \in Client |-> NoRequest]
  /\ calls = 0
  /\ undeleted = FALSE /\ blurred = {} /\ astray = {}

\* What reading the list shows of a friend: its document, or nothing.
Present(e) == stamp[e] % 2 = 1
View(e) == IF Present(e) THEN stamp[e] ELSE 0

-----------------------------------------------------------------------------
(* The operations of the friend database *)

\* Mutant: deletions are logged as updates.
StateUpdated(op) == IF op = "add" THEN "insert" ELSE "update"

State(op) == CASE op = "add" -> "insert" [] op = "remove" -> "delete"
               [] OTHER -> "update"

\* UpdateFriends and UpdateByMap: pinning also changes the order of the list.
LogIds(op, e) == IF op = "pin" THEN {Sort, e} ELSE {e}

\* The operations that run in a transaction where there are any.
InTransaction(op) == replicaSet /\ op \in {"add", "pin"}

\* BecomeFriends inserts only what is missing; UpdateOne reports a friend that
\* is not there, DeleteOne and UpdateMany do not.  A profile is announced to
\* the owners in the friend's own list, whom DeleteFriend leaves there.
Applies(op, e) == CASE op = "add" -> ~Present(e) [] op = "remark" -> Present(e)
                    [] OTHER -> TRUE

Stamped(op, e) ==
  [stamp EXCEPT ![e] = CASE op = "add" -> @ + 1
                         [] op = "remove" -> IF Present(e) THEN @ + 1 ELSE @
                         [] OTHER -> IF Present(e) THEN @ + 2 ELSE @]

\* A transaction that is not over holds the log document, and that of a friend
\* it updates.
Open(w) == writer[w].pc \in {"open", "commit"}
LogIsLocked == \E w \in Writer : Open(w)
FriendIsLocked(e) ==
  \E w \in Writer : Open(w) /\ writer[w].op = "pin" /\ writer[w].friend = e /\ Present(e)

\* Calls that have yet to write to the log about e, and those of them that have
\* changed the list.
Pending(e) ==
  {w \in Writer : writer[w].friend = e /\ writer[w].pc \in {"log", "init", "again"}}
Unlogged(e) == \E w \in Pending(e) : writer[w].op # "profile"

\* What the log says of e after this call may be wrong: entries may come in
\* another order than the changes, or be an update of a friend that is gone.
Blurs(op, e) == Pending(e) # {} \/ (State(op) = "update" /\ ~Present(e))
Blurred(op, e) == IF Blurs(op, e) THEN blurred \cup {e} ELSE blurred

Goto(w, pc) == writer' = [writer EXCEPT ![w].pc = pc]

Begin(w, op, e, pc) ==
  /\ writer[w].pc = "idle" /\ calls < MaxCalls
  /\ Applies(op, e)
  /\ writer' = [writer EXCEPT ![w] = [pc |-> pc, op |-> op, friend |-> e]]
  /\ calls' = calls + 1

\* The first function given to mongoutil.IncrVersion: Create, Delete,
\* UpdateByMap or UpdateFriends on the friend collection.
WriteList(w, op, e) ==
  /\ op # "profile" /\ ~InTransaction(op) /\ ~FriendIsLocked(e)
  /\ Begin(w, op, e, "log")
  /\ stamp' = Stamped(op, e) /\ blurred' = Blurred(op, e)
  /\ UNCHANGED <<replicaSet, version, logs, cache, device, request, astray>>

\* NotificationUserInfoUpdate calls OwnerIncrVersion, for a friend whose profile
\* has changed: there is nothing but a log entry to write.
ChangeProfile(w, e) ==
  /\ "profile" \in Changes[e]
  /\ Begin(w, "profile", e, "log")
  /\ blurred' = Blurred("profile", e)
  /\ UNCHANGED <<data, cache, device, request, astray>>

\* Mutant: entries carry the version that comes after the document's.
LoggedAhead(op, e) ==
  [k \in DOMAIN logs |->
     IF k \in LogIds(op, e) THEN [ver |-> version + 2, state |-> State(op)] ELSE logs[k]]

\* The elements of the log after the next version is written by writeLogBatch2
\* or by initDoc, which gives a new document the version 1.
Logged(op, e) ==
  [k \in DOMAIN logs |->
     IF k \in LogIds(op, e) THEN [ver |-> version + 1, state |-> State(op)] ELSE logs[k]]

AppendLog(w) ==
  /\ version' = version + 1
  /\ logs' = Logged(writer[w].op, writer[w].friend)
  /\ astray' = astray \ {writer[w].friend}

\* writeLogBatch2 finds the document, at the first or at the last attempt.
WriteLog(w) ==
  /\ writer[w].pc \in {"log", "again"} /\ ~LogIsLocked
  /\ version > 0
  /\ AppendLog(w)
  /\ writer' = [writer EXCEPT ![w] = LoggedCall]
  /\ UNCHANGED <<replicaSet, stamp, cache, device, request, calls, blurred>>

\* writeLogBatch2 finds no document.
MissLog(w) ==
  /\ writer[w].pc = "log" /\ ~LogIsLocked
  /\ version = 0
  /\ Goto(w, "init")
  /\ UNCHANGED <<data, cache, device, request, calls, strays>>

\* initDoc inserts the document.
InitLog(w) ==
  /\ writer[w].pc = "init" /\ ~LogIsLocked
  /\ version = 0
  /\ AppendLog(w)
  /\ writer' = [writer EXCEPT ![w] = LoggedCall]
  /\ UNCHANGED <<replicaSet, stamp, cache, device, request, calls, blurred>>

\* Somebody else inserted the document: a duplicate key, write again.
InitDuplicate(w) ==
  /\ writer[w].pc = "init" /\ ~LogIsLocked
  /\ version > 0
  /\ Goto(w, "again")
  /\ UNCHANGED <<data, cache, device, request, calls, strays>>

\* Mutant: a request that is filling the entry keeps its lock.
EntryDeletedOnly == cached' = 0 /\ undeleted' = FALSE /\ UNCHANGED filler

\* TagAsDeleted: no value, and the lock of a filler is gone.
EntryDeleted == cached' = 0 /\ filler' = None /\ undeleted' = FALSE

\* ChainExecDel with the key of the newest version, outside transactions.
DelCache(w) ==
  /\ writer[w].pc = "cache"
  /\ EntryDeleted
  /\ writer' = [writer EXCEPT ![w] = NoCall]
  /\ UNCHANGED <<data, device, request, calls, strays>>

\* A transaction has written list and log; nobody else sees it yet.
OpenTx(w, op, e) ==
  /\ InTransaction(op) /\ ~LogIsLocked
  /\ Begin(w, op, e, "open")
  /\ UNCHANGED <<data, cache, device, request, strays>>

\* ChainExecDel inside the transaction.
DelCacheTx(w) ==
  /\ writer[w].pc = "open"
  /\ EntryDeleted
  /\ Goto(w, "commit")
  /\ UNCHANGED <<data, device, request, calls, strays>>

\* The session commits.
Commit(w) ==
  /\ writer[w].pc = "commit"
  /\ stamp' = Stamped(writer[w].op, writer[w].friend)
  /\ blurred' = Blurred(writer[w].op, writer[w].friend)
  /\ AppendLog(w)
  /\ writer' = [writer EXCEPT ![w] = NoCall]
  /\ UNCHANGED <<replicaSet, cache, device, request, calls>>

\* A call fails or its process dies between two of its steps; a transaction
\* leaves nothing behind.
Crash(w) ==
  /\ writer[w].pc # "idle"
  /\ astray' = IF writer[w].pc \in {"log", "init", "again"} /\ writer[w].op # "profile"
               THEN astray \cup {writer[w].friend} ELSE astray
  /\ undeleted' = (undeleted \/ writer[w].pc = "cache")
  /\ writer' = [writer EXCEPT ![w] = NoCall]
  /\ UNCHANGED <<data, cached, filler, device, request, calls, blurred>>

-----------------------------------------------------------------------------
(* The cached newest version and GetIncrementalFriends *)

\* Mutant: a device that is ahead of the cached version reads everything.
AnswerAheadFull(c, v) ==
  [request EXCEPT ![c] =
     CASE device[c].ver = 0 \/ device[c].ver > v -> [@ EXCEPT !.pc = "full", !.ver = v]
       [] device[c].ver = v -> NoRequest
       [] OTHER -> [@ EXCEPT !.pc = "query"]]

\* Mutant: a device behind the newest version counts as up to date.
AnswerUpToDate(c, v) ==
  [request EXCEPT ![c] =
     IF device[c].ver = 0 THEN [@ EXCEPT !.pc = "full", !.ver = v]
     ELSE IF device[c].ver <= v THEN NoRequest ELSE [@ EXCEPT !.pc = "query"]]

\* getVersion, once the newest version is known: a new device reads everything,
\* one that has this version is done, another queries the log.
Answer(c, v) ==
  [request EXCEPT ![c] =
     IF device[c].ver = 0 THEN [@ EXCEPT !.pc = "full", !.ver = v]
     ELSE IF device[c].ver = v THEN NoRequest ELSE [@ EXCEPT !.pc = "query"]]

\* GetIncrementalFriends comes in and FindMaxFriendVersion finds a value.
Hit(c) ==
  /\ request[c].pc = "idle" /\ cached > 0
  /\ request' = Answer(c, cached)
  /\ UNCHANGED <<data, cache, writer, device, calls, strays>>

\* It finds none and gets the lock, which expires under a slow filler.
Lock(c) ==
  /\ request[c].pc = "idle" /\ cached = 0
  /\ filler' = c
  /\ request' = [request EXCEPT ![c].pc = "read"]
  /\ UNCHANGED <<data, cached, undeleted, writer, device, calls, strays>>

\* FindIncrVersion(owner, 0, 0): findDoc, or initDoc without elements.
Fill(c) ==
  /\ request[c].pc = "read"
  /\ version = 0 => ~LogIsLocked
  /\ version' = IF version = 0 THEN 1 ELSE version
  /\ request' = [request EXCEPT ![c].pc = "install", ![c].ver = version']
  /\ UNCHANGED <<replicaSet, stamp, logs, cache, writer, device, calls, strays>>

\* Only the holder of the lock stores the value; each filler answers with its own.
Install(c) ==
  /\ request[c].pc = "install"
  /\ IF filler = c THEN cached' = request[c].ver /\ filler' = None
     ELSE UNCHANGED <<cached, filler>>
  /\ request' = Answer(c, request[c].ver)
  /\ UNCHANGED <<data, undeleted, writer, device, calls, strays>>

\* The elements of the log the device has not seen.
Newer(c) == {k \in DOMAIN logs : logs[k].ver > device[c].ver}

\* findChangeLog and the first half of Build.  GetIncrementalFriends drops the
\* entry for the order from the elements and from their number.
Query(c) ==
  /\ request[c].pc = "query"
  /\ LET gone == {e \in Newer(c) \ {Sort} : logs[e].state = "delete"} IN
     request' = [request EXCEPT ![c] =
       IF version < device[c].ver \/ Cardinality(Newer(c)) > Limit
       THEN [@ EXCEPT !.pc = "full", !.ver = version]
       ELSE [@ EXCEPT !.pc = "find", !.ver = version, !.gone = gone,
                      !.changed = Newer(c) \ (gone \cup {Sort})]]
  /\ UNCHANGED <<data, cache, writer, device, calls, strays>>

\* Build reads the friends that were inserted or updated.
Find(c) ==
  /\ request[c].pc = "find"
  /\ request' = [request EXCEPT ![c].pc = "reply", ![c].changed = {},
       ![c].found = [e \in Friend |-> IF e \in request[c].changed THEN View(e) ELSE 0]]
  /\ UNCHANGED <<data, cache, writer, device, calls, strays>>

\* The copy with the changes of an answer.
Merged(c) ==
  [e \in Friend |->
     IF e \in request[c].gone THEN 0
     ELSE IF request[c].found[e] # 0 THEN request[c].found[e] ELSE device[c].copy[e]]

\* The device gets the changes.
Apply(c) ==
  /\ request[c].pc = "reply"
  /\ device' = [device EXCEPT ![c] = [ver |-> request[c].ver, copy |-> Merged(c)]]
  /\ request' = [request EXCEPT ![c] = NoRequest]
  /\ UNCHANGED <<data, cache, writer, calls, strays>>

\* Told to, the device reads the whole list with GetPaginationFriends.
ReadAll(c) ==
  /\ request[c].pc = "full"
  /\ device' = [device EXCEPT ![c] =
       [ver |-> request[c].ver, copy |-> [e \in Friend |-> View(e)]]]
  /\ request' = [request EXCEPT ![c] = NoRequest]
  /\ UNCHANGED <<data, cache, writer, calls, strays>>

\* The answer does not arrive, or its request fails.
Lose(c) ==
  /\ request[c].pc \in {"reply", "full"}
  /\ request' = [request EXCEPT ![c] = NoRequest]
  /\ UNCHANGED <<data, cache, writer, device, calls, strays>>

\* The entry's time to live is over.
Expire ==
  /\ cached > 0
  /\ cached' = 0 /\ undeleted' = FALSE
  /\ UNCHANGED <<data, filler, writer, device, request, calls, strays>>

-----------------------------------------------------------------------------

Advance(w) == WriteLog(w) \/ MissLog(w) \/ InitLog(w) \/ InitDuplicate(w)
              \/ DelCache(w) \/ DelCacheTx(w) \/ Commit(w)

Serve(c) == Hit(c) \/ Lock(c) \/ Fill(c) \/ Install(c) \/ Query(c) \/ Find(c)

Receive(c) == Apply(c) \/ ReadAll(c)

Next ==
  \/ \E w \in Writer : Advance(w) \/ Crash(w)
  \/ \E w \in Writer, e \in Friend : \E op \in Changes[e] :
       WriteList(w, op, e) \/ OpenTx(w, op, e)
  \/ \E w \in Writer, e \in Friend : ChangeProfile(w, e)
  \/ \E c \in Client : Serve(c) \/ Receive(c) \/ Lose(c)
  \/ Expire

Spec == Init /\ [][Next]_vars

\* Calls and requests run on, devices keep asking (they do whenever they connect
\* or are notified), not every answer is lost, and entries of the cache expire.
FairSpec ==
  /\ Spec
  /\ \A w \in Writer : WF_vars(Advance(w))
  /\ \A c \in Client : WF_vars(Serve(c)) /\ SF_vars(Receive(c))
  /\ WF_vars(Expire)

-----------------------------------------------------------------------------
(* Properties *)

CallSet ==
  [pc : {"idle", "log", "init", "again", "cache", "open", "commit"},
   op : {"none", "add", "remove", "remark", "pin", "profile"}, friend : Friend \cup {None}]

\* Requests while the log has version n.
Requests(n) ==
  [pc : {"idle", "read", "install", "query", "find", "reply", "full"},
   ver : 0 .. n, changed : SUBSET Friend, gone : SUBSET Friend, found : [Friend -> Nat]]

\* Types; no log entry and no device is ahead of the log document.
TypeOK ==
  /\ replicaSet \in BOOLEAN
  /\ stamp \in [Friend -> Nat] /\ version \in Nat
  /\ logs \in [Friend \cup {Sort} ->
                 [ver : 0 .. version, state : {"none", "insert", "delete", "update"}]]
  /\ cached \in 0 .. version /\ filler \in Client \cup {None}
  /\ writer \in [Writer -> CallSet]
  /\ device \in [Client -> [ver : 0 .. version, copy : [Friend -> Nat]]]
  /\ request \in [Client -> Requests(version)]
  /\ calls \in 0 .. MaxCalls
  /\ undeleted \in BOOLEAN /\ blurred \subseteq Friend /\ astray \subseteq Friend

\* The log says that e is there and it is not, or the other way round.
Misstated(e) == (logs[e].state \in {"none", "delete"}) # ~Present(e)

\* The change of e cannot be found in the log: it was never written there, or
\* other entries misstate it after calls that blur it.
Untold(e) == e \in astray \/ (e \in blurred /\ Misstated(e))

\* Wherever a device's copy differs from the list, the device will be told: it
\* has yet to read everything, the log has a newer entry, or the call that made
\* the change is about to write one.  There are two exceptions: a call died
\* after it had changed the friend, and nothing was logged about it since; or
\* the log has it wrong whether the friend is there, after calls that overlap
\* or after a friend that is gone was pinned or changed its profile.
NothingMissed ==
  \A c \in Client, e \in Friend :
    device[c].copy[e] # View(e) =>
      device[c].ver = 0 \/ logs[e].ver > device[c].ver \/ Unlogged(e) \/ Untold(e)

\* Without transactions the cached version is the newest, except while a call
\* has yet to delete it: a request that read an older one cannot store it.
CacheFresh ==
  ~replicaSet /\ ~undeleted /\ (\A w \in Writer : writer[w].pc # "cache")
    => cached \in {0, version}

\* A device's version never goes back, also when the cache has an older one.
VersionForward == [][\A c \in Client : device'[c].ver >= device[c].ver]_vars

\* Once nobody changes the list every device ends up with it, whatever answers
\* were lost and however old the cached version was; except for the friends
\* whose last change the log does not tell.
Converges ==
  <>[](\A c \in Client, e \in Friend : Untold(e) \/ device[c].copy[e] = View(e))
=============================================================================
