-------------------------- MODULE FriendSyncProofs --------------------------
(***************************************************************************)
(* The friend list, its log and the devices that follow it, for any number *)
(* of calls, devices, friends and changes: types are kept (TypeCorrect),   *)
(* no change is missed (NothingIsMissed), without transactions the cached  *)
(* version is the newest (CacheIsFresh), and no device goes back           *)
(* (VersionGoesForward).                                                   *)
(***************************************************************************)
EXTENDS FriendSync, TLAPS

USE SortAssumption, NoneAssumption, BoundAssumption, ChangesAssumption

Ops == {"add", "remove", "remark", "pin", "profile"}

-----------------------------------------------------------------------------
(* Invariants.                                                             *)

\* The call of w has yet to write to the log.
Logging(w) == writer[w].pc \in {"log", "init", "again"}

\* What calls are about; transactions exclude each other, and the friend one of
\* them adds is not there until it commits.
Calls ==
  /\ \A w \in Writer : Logging(w) \/ Open(w) => writer[w].friend \in Friend /\ writer[w].op \in Ops
  /\ \A w \in Writer : Open(w) => InTransaction(writer[w].op)
  /\ \A v, w \in Writer : Open(v) /\ Open(w) => v = w
  /\ \A w \in Writer : Open(w) /\ writer[w].op = "add" => ~Present(writer[w].friend)

\* A log entry tells what became of its friend.
Tells(state, e) == (state = "delete") <=> ~Present(e)

\* Of a friend whose calls did not overlap, the entry of one that no call is about
\* to log, and the entry that one call is about to write, tell what became of it.
LogTells(e) ==
  /\ e \notin astray /\ ~Unlogged(e) => ~Misstated(e)
  /\ \A w \in Writer : Logging(w) /\ writer[w].friend = e => Tells(State(writer[w].op), e)
  /\ \A v, w \in Writer :
       Logging(v) /\ Logging(w) /\ writer[v].friend = e /\ writer[w].friend = e => v = w

LogInv ==
  /\ \A e \in Friend : logs[e].ver > 0 => logs[e].state # "none"
  /\ \A e \in Friend \ blurred : LogTells(e)

\* A change after version n has been or will be logged, or cannot be told.
Later(e, n) == logs[e].ver > n \/ Unlogged(e) \/ Untold(e)

\* What an answer that is being built will do to the copy of its device.
AnswerRight(c) ==
  /\ request[c].pc \in {"query", "find", "reply"} => device[c].ver > 0
  /\ request[c].pc \in {"find", "reply", "full"} => device[c].ver <= request[c].ver
  /\ request[c].pc = "find" => \A e \in Friend :
       \/ Later(e, request[c].ver)
       \/ e \in request[c].gone /\ e \notin request[c].changed /\ ~Present(e)
       \/ e \in request[c].changed /\ e \notin request[c].gone /\ Present(e)
       \/ /\ e \notin request[c].gone \cup request[c].changed
          /\ device[c].copy[e] = View(e)
  /\ request[c].pc = "reply" => \A e \in Friend :
       Later(e, request[c].ver) \/ Merged(c)[e] = View(e)

Answers == \A c \in Client : AnswerRight(c)

ListInv == Calls /\ LogInv /\ NothingMissed /\ Answers

\* A request that may store a version has read the newest one.
CacheInv ==
  /\ cached > 0 => filler = None
  /\ filler # None => request[filler].pc \in {"read", "install"}
  /\ \A c \in Client : request[c].pc = "install" => request[c].ver > 0
  /\ ~replicaSet /\ ~undeleted /\ (\A w \in Writer : writer[w].pc # "cache") =>
       /\ cached \in {0, version}
       /\ filler # None /\ request[filler].pc = "install" => request[filler].ver = version

-----------------------------------------------------------------------------
(* Types.                                                                  *)

\* Moving on and other changes of one field.
LEMMA RequestFields ==
  ASSUME NEW n \in Nat, NEW r \in Requests(n)
  PROVE  /\ \A pc \in {"idle", "read", "install", "query", "find", "reply", "full"} :
              [r EXCEPT !.pc = pc] \in Requests(n)
         /\ \A v \in 0 .. n : [r EXCEPT !.ver = v] \in Requests(n)
         /\ \A S \in SUBSET Friend : /\ [r EXCEPT !.changed = S] \in Requests(n)
                                     /\ [r EXCEPT !.gone = S] \in Requests(n)
         /\ \A f \in [Friend -> Nat] : [r EXCEPT !.found = f] \in Requests(n)
         /\ NoRequest \in Requests(n)
  BY DEF Requests, NoRequest

\* A request as it was, and a request with other fields.
LEMMA RequestStep ==
  ASSUME TypeOK, NEW c \in Client, NEW r \in Requests(version)
  PROVE  [request EXCEPT ![c] = r] \in [Client -> Requests(version)]
  BY DEF TypeOK

\* The same for calls.
LEMMA CallFields ==
  ASSUME TypeOK, NEW w \in Writer
  PROVE  /\ [writer EXCEPT ![w] = NoCall] \in [Writer -> CallSet]
         /\ [writer EXCEPT ![w] = LoggedCall] \in [Writer -> CallSet]
         /\ \A pc \in {"init", "again", "commit"} :
              [writer EXCEPT ![w].pc = pc] \in [Writer -> CallSet]
<1>1. writer \in [Writer -> CallSet] /\ writer[w] \in CallSet
  BY DEF TypeOK
<1>2. NoCall \in CallSet /\ LoggedCall \in CallSet
  BY DEF NoCall, LoggedCall, CallSet
<1>3. ASSUME NEW pc \in {"init", "again", "commit"}
      PROVE  [writer[w] EXCEPT !.pc = pc] \in CallSet
  BY <1>1 DEF CallSet
<1>4. \A pc \in {"init", "again", "commit"} :
        [writer EXCEPT ![w].pc = pc] = [writer EXCEPT ![w] = [writer[w] EXCEPT !.pc = pc]]
  BY <1>1
<1> QED
  BY <1>1, <1>2, <1>3, <1>4

\* Being there changes with odd steps of the stamp.
LEMMA Parity ==
  \A n \in Nat : /\ n % 2 = 1 => (n + 1) % 2 # 1 /\ (n + 2) % 2 = 1
                 /\ n % 2 # 1 => (n + 1) % 2 = 1
                 /\ n % 2 = 1 => n # 0
  OBVIOUS

LEMMA InitTypeOK == Init => TypeOK /\ Calls
<1> SUFFICES ASSUME Init PROVE TypeOK /\ Calls
  OBVIOUS
<1>1. request \in [Client -> Requests(0)]
  BY DEF Init, Requests, NoRequest
<1>2. writer \in [Writer -> CallSet]
  BY DEF Init, CallSet, NoCall
<1>3. \A w \in Writer : ~Logging(w) /\ ~Open(w)
  BY DEF Init, Logging, Open, NoCall
<1>4. Calls
  BY <1>3 DEF Calls
<1>5. /\ logs \in [Friend \cup {Sort} ->
              [ver : 0 .. version, state : {"none", "insert", "delete", "update"}]]
      /\ device \in [Client -> [ver : 0 .. version, copy : [Friend -> Nat]]]
  BY DEF Init, NoEntry
<1>6. version \in Nat /\ request \in [Client -> Requests(version)]
  BY <1>1 DEF Init
<1>7. stamp \in [Friend -> Nat] /\ calls \in 0 .. MaxCalls
  BY DEF Init
<1>8. blurred \subseteq Friend /\ astray \subseteq Friend /\ cached \in 0 .. version /\ filler \in Client \cup {None}
  BY DEF Init
<1>9. replicaSet \in BOOLEAN /\ undeleted \in BOOLEAN
  BY Zenon DEF Init
<1>10. TypeOK
  BY <1>2, <1>5, <1>6, <1>7, <1>8, <1>9 DEF TypeOK
<1> QED
  BY <1>4, <1>10

\* A log of the next version.
LEMMA AppendType ==
  ASSUME TypeOK, NEW w \in Writer, AppendLog(w)
  PROVE  /\ version' \in Nat /\ version <= version'
         /\ logs' \in [Friend \cup {Sort} ->
              [ver : 0 .. version', state : {"none", "insert", "delete", "update"}]]
<1>1. version' = version + 1 /\ version \in Nat
  BY DEF AppendLog, TypeOK
<1>2. State(writer[w].op) \in {"insert", "delete", "update"}
  BY DEF State
<1>3. logs \in [Friend \cup {Sort} ->
              [ver : 0 .. version', state : {"none", "insert", "delete", "update"}]]
  BY <1>1 DEF TypeOK
<1>4. version + 1 \in 0 .. version'
  BY <1>1
<1>5. logs' = Logged(writer[w].op, writer[w].friend)
  BY DEF AppendLog
<1> QED
  BY <1>1, <1>2, <1>3, <1>4, <1>5 DEF Logged

\* Versions in the bounds of an older log document are in those of the newer one.
LEMMA Versions ==
  ASSUME TypeOK, version' \in Nat, version <= version', UNCHANGED <<cached, device, request>>
  PROVE  /\ cached' \in 0 .. version'
         /\ device' \in [Client -> [ver : 0 .. version', copy : [Friend -> Nat]]]
         /\ request' \in [Client -> Requests(version')]
<1>1. version \in Nat /\ 0 .. version \subseteq 0 .. version'
  BY DEF TypeOK
<1>2. Requests(version) \subseteq Requests(version')
  BY <1>1 DEF Requests
<1> QED
  BY <1>1, <1>2 DEF TypeOK

\* The stamps after an operation.
LEMMA StampType ==
  ASSUME TypeOK, NEW op \in Ops, NEW e \in Friend
  PROVE  Stamped(op, e) \in [Friend -> Nat]
  BY DEF Stamped, TypeOK

\* The beginning of a call.
LEMMA BeginType ==
  ASSUME TypeOK, NEW w \in Writer, NEW e \in Friend, NEW op \in Ops,
         NEW pc \in {"log", "open"}, Begin(w, op, e, pc)
  PROVE  /\ writer' \in [Writer -> CallSet]
         /\ calls' \in 0 .. MaxCalls
<1>1. [pc |-> pc, op |-> op, friend |-> e] \in CallSet
  BY DEF CallSet, Ops
<1> QED
  BY <1>1 DEF Begin, TypeOK

\* An answer is a request.
LEMMA AnswerType ==
  ASSUME TypeOK, NEW c \in Client, NEW v \in 0 .. version
  PROVE  Answer(c, v) \in [Client -> Requests(version)]
<1>1. request[c] \in Requests(version) /\ version \in Nat
  BY DEF TypeOK
<1>2. NoRequest \in Requests(version) /\ [request[c] EXCEPT !.pc = "query"] \in Requests(version)
  BY <1>1, RequestFields
<1>3. [[request[c] EXCEPT !.pc = "full"] EXCEPT !.ver = v] \in Requests(version)
  BY <1>1, RequestFields
<1>4. [request[c] EXCEPT !.pc = "full", !.ver = v] \in Requests(version)
  BY <1>3
<1>5. PICK r \in Requests(version) : Answer(c, v) = [request EXCEPT ![c] = r]
  <2>1. CASE device[c].ver = 0
    <3>1. Answer(c, v) = [request EXCEPT ![c] = [request[c] EXCEPT !.pc = "full", !.ver = v]]
      BY <2>1 DEF Answer
    <3> QED
      BY <1>4, <3>1
  <2>2. CASE device[c].ver # 0 /\ device[c].ver = v
    BY <1>2, <2>2 DEF Answer
  <2>3. CASE device[c].ver # 0 /\ device[c].ver # v
    BY <1>2, <2>3 DEF Answer
  <2> QED
    BY <2>1, <2>2, <2>3
<1> QED
  BY <1>5, RequestStep

\* Every step of a call keeps the types.
LEMMA CallTypeOK ==
  ASSUME TypeOK, Calls, NEW w \in Writer, Advance(w) \/ Crash(w)
  PROVE  TypeOK'
<1> USE DEF data, cache, strays
<1>1. /\ [writer EXCEPT ![w] = NoCall] \in [Writer -> CallSet]
      /\ [writer EXCEPT ![w] = LoggedCall] \in [Writer -> CallSet]
      /\ \A pc \in {"init", "again", "commit"} :
           [writer EXCEPT ![w].pc = pc] \in [Writer -> CallSet]
  BY CallFields
<1>2. Logging(w) \/ Open(w) => writer[w].friend \in Friend /\ writer[w].op \in Ops
  BY DEF Calls
<1>3. CASE WriteLog(w) \/ InitLog(w)
  <2>1. AppendLog(w) /\ UNCHANGED <<cached, device, request>>
    BY <1>3 DEF WriteLog, InitLog
  <2>2. writer' = [writer EXCEPT ![w] = LoggedCall]
    BY <1>3 DEF WriteLog, InitLog
  <2>3. UNCHANGED <<replicaSet, stamp, cache, calls, blurred>>
    BY <1>3 DEF WriteLog, InitLog
  <2>4. astray' \subseteq Friend
    BY <2>1 DEF AppendLog, TypeOK
  <2> QED
    BY <1>1, <2>1, <2>2, <2>3, <2>4, AppendType, Versions DEF TypeOK
<1>4. CASE MissLog(w) \/ InitDuplicate(w)
  BY <1>1, <1>4 DEF MissLog, InitDuplicate, Goto, TypeOK
<1>5. CASE DelCache(w) \/ DelCacheTx(w)
  <2>1. cached' \in 0 .. version /\ filler' = None /\ undeleted' = FALSE
    BY <1>5 DEF DelCache, DelCacheTx, EntryDeleted, TypeOK
  <2>2. writer' = [writer EXCEPT ![w] = NoCall] \/ writer' = [writer EXCEPT ![w].pc = "commit"]
    BY <1>5 DEF DelCache, DelCacheTx, Goto
  <2>3. UNCHANGED <<data, device, request, calls, strays>>
    BY <1>5 DEF DelCache, DelCacheTx
  <2> QED
    BY <1>1, <2>1, <2>2, <2>3 DEF TypeOK
<1>6. CASE Commit(w)
  <2>1. AppendLog(w) /\ UNCHANGED <<cached, device, request>>
    BY <1>6 DEF Commit
  <2>2. writer[w].friend \in Friend /\ writer[w].op \in Ops
    BY <1>2, <1>6 DEF Commit, Open
  <2>3. stamp' \in [Friend -> Nat]
    BY <1>6, <2>2, StampType DEF Commit
  <2>4. blurred' \subseteq Friend /\ astray' \subseteq Friend
    BY <1>6, <2>2 DEF Commit, Blurred, AppendLog, TypeOK
  <2>5. writer' = [writer EXCEPT ![w] = NoCall] /\ UNCHANGED <<replicaSet, cache, calls>>
    BY <1>6 DEF Commit
  <2> QED
    BY <1>1, <2>1, <2>3, <2>4, <2>5, AppendType, Versions DEF TypeOK
<1>7. CASE Crash(w)
  <2>1. astray' \subseteq Friend
    BY <1>2, <1>7 DEF Crash, Logging, TypeOK
  <2>2. undeleted' \in BOOLEAN
    BY <1>7 DEF Crash, TypeOK
  <2>3. writer' = [writer EXCEPT ![w] = NoCall]
        /\ UNCHANGED <<data, cached, filler, device, request, calls, blurred>>
    BY <1>7 DEF Crash
  <2> QED
    BY <1>1, <2>1, <2>2, <2>3 DEF TypeOK
<1> QED
  BY <1>3, <1>4, <1>5, <1>6, <1>7 DEF Advance

\* So does the beginning of one.
LEMMA StartTypeOK ==
  ASSUME TypeOK, NEW w \in Writer, NEW e \in Friend, NEW op \in Changes[e],
         WriteList(w, op, e) \/ OpenTx(w, op, e)
  PROVE  TypeOK'
<1> USE DEF data, cache, strays
<1>1. op \in Ops
  BY DEF Ops
<1>2. CASE WriteList(w, op, e)
  <2>1. Begin(w, op, e, "log") /\ stamp' = Stamped(op, e)
    BY <1>2 DEF WriteList
  <2>2. blurred' \subseteq Friend
    BY <1>2 DEF WriteList, Blurred, TypeOK
  <2> QED
    BY <1>1, <1>2, <2>1, <2>2, BeginType, StampType DEF WriteList, TypeOK
<1>3. CASE OpenTx(w, op, e)
  <2>1. Begin(w, op, e, "open")
    BY <1>3 DEF OpenTx
  <2> QED
    BY <1>1, <1>3, <2>1, BeginType DEF OpenTx, TypeOK
<1> QED
  BY <1>2, <1>3

LEMMA ProfileTypeOK ==
  ASSUME TypeOK, NEW w \in Writer, NEW e \in Friend, ChangeProfile(w, e)
  PROVE  TypeOK'
<1> USE DEF data, cache, strays
<1>1. "profile" \in Ops /\ Begin(w, "profile", e, "log")
  BY DEF Ops, ChangeProfile
<1>2. blurred' \subseteq Friend
  BY DEF ChangeProfile, Blurred, TypeOK
<1> QED
  BY <1>1, <1>2, BeginType DEF ChangeProfile, TypeOK

\* What findChangeLog answers.
LEMMA NewerType ==
  ASSUME TypeOK, NEW c \in Client
  PROVE  Newer(c) \ {Sort} \subseteq Friend
  BY DEF Newer, TypeOK

\* A device's copy of the list as it is, and after an answer.
LEMMA CopyType ==
  ASSUME TypeOK, NEW c \in Client
  PROVE  /\ \A e \in Friend : View(e) \in Nat
         /\ Merged(c) \in [Friend -> Nat]
<1>1. stamp \in [Friend -> Nat] /\ device[c].copy \in [Friend -> Nat]
      /\ request[c].found \in [Friend -> Nat]
  BY DEF TypeOK, Requests
<1> QED
  BY <1>1 DEF View, Merged

\* And every step of a request and of a device.
LEMMA DeviceTypeOK ==
  ASSUME TypeOK, NEW c \in Client, Serve(c) \/ Receive(c) \/ Lose(c)
  PROVE  TypeOK'
<1> USE DEF data, cache, strays
<1>1. /\ request[c] \in Requests(version) /\ version \in Nat
      /\ \A r \in Requests(version) :
           [request EXCEPT ![c] = r] \in [Client -> Requests(version)]
  BY RequestStep DEF TypeOK
<1>2. CASE Hit(c)
  BY <1>2, AnswerType DEF Hit, TypeOK
<1>3. CASE Lock(c)
  <2>1. request' = [request EXCEPT ![c] = [request[c] EXCEPT !.pc = "read"]]
    BY <1>3 DEF Lock, TypeOK
  <2>2. request' \in [Client -> Requests(version)]
    BY <1>1, <2>1, RequestFields
  <2> QED
    BY <1>3, <2>2 DEF Lock, TypeOK
<1>4. CASE Fill(c)
  <2>1. version' \in Nat /\ version <= version' /\ version \in Nat
    BY <1>4 DEF Fill, TypeOK
  <2>2. 0 .. version \subseteq 0 .. version' /\ version' \in 0 .. version'
    BY <2>1
  <2>3. request' \in [Client -> Requests(version')]
    <3>1. Requests(version) \subseteq Requests(version')
      BY <2>2 DEF Requests
    <3>2. request \in [Client -> Requests(version')]
      BY <3>1 DEF TypeOK
    <3>3. request' = [request EXCEPT ![c] =
                        [[request[c] EXCEPT !.pc = "install"] EXCEPT !.ver = version']]
      BY <1>4, <3>2 DEF Fill
    <3>4. [[request[c] EXCEPT !.pc = "install"] EXCEPT !.ver = version'] \in Requests(version')
      BY <2>1, <2>2, <3>2, RequestFields
    <3> QED
      BY <3>2, <3>3, <3>4
  <2> QED
    BY <1>4, <2>1, <2>2, <2>3 DEF Fill, TypeOK
<1>5. CASE Install(c)
  <2>1. request[c].ver \in 0 .. version
    BY <1>1 DEF Requests
  <2>2. cached' \in 0 .. version /\ filler' \in Client \cup {None}
    BY <1>5, <2>1 DEF Install, TypeOK
  <2> QED
    BY <1>5, <2>1, <2>2, AnswerType DEF Install, TypeOK
<1>6. CASE Query(c)
  <2> DEFINE gone == {e \in Newer(c) \ {Sort} : logs[e].state = "delete"}
             rest == Newer(c) \ (gone \cup {Sort})
  <2>1. gone \subseteq Friend /\ rest \subseteq Friend
    BY NewerType
  <2>2. \/ request' = [request EXCEPT ![c] = [@ EXCEPT !.pc = "full", !.ver = version]]
        \/ request' = [request EXCEPT ![c] =
                         [@ EXCEPT !.pc = "find", !.ver = version, !.gone = gone, !.changed = rest]]
    BY <1>6 DEF Query
  <2> HIDE DEF gone, rest
  <2>3. version \in 0 .. version
    BY DEF TypeOK
  <2>4. request' \in [Client -> Requests(version)]
    <3>1. [[request[c] EXCEPT !.pc = "full"] EXCEPT !.ver = version] \in Requests(version)
      BY <1>1, <2>3, RequestFields
    <3>2. [[[[request[c] EXCEPT !.pc = "find"] EXCEPT !.ver = version] EXCEPT !.gone = gone]
             EXCEPT !.changed = rest] \in Requests(version)
      <4>1. [[request[c] EXCEPT !.pc = "find"] EXCEPT !.ver = version] \in Requests(version)
        BY <1>1, <2>3, RequestFields
      <4>2. [[[request[c] EXCEPT !.pc = "find"] EXCEPT !.ver = version] EXCEPT !.gone = gone]
              \in Requests(version)
        BY <1>1, <2>1, <4>1, RequestFields
      <4> QED
        BY <1>1, <2>1, <4>2, RequestFields
    <3>3. \/ request' = [request EXCEPT ![c] =
                 [[request[c] EXCEPT !.pc = "full"] EXCEPT !.ver = version]]
          \/ request' = [request EXCEPT ![c] =
                 [[[[request[c] EXCEPT !.pc = "find"] EXCEPT !.ver = version] EXCEPT !.gone = gone]
                    EXCEPT !.changed = rest]]
      BY <2>2
    <3> QED
      BY <1>1, <3>1, <3>2, <3>3
  <2> QED
    BY <1>6, <2>4 DEF Query, TypeOK
<1>7. CASE Find(c)
  <2>1. [e \in Friend |-> IF e \in request[c].changed THEN View(e) ELSE 0] \in [Friend -> Nat]
    BY CopyType
  <2> DEFINE found == [e \in Friend |-> IF e \in request[c].changed THEN View(e) ELSE 0]
  <2> HIDE DEF found
  <2>2. request' = [request EXCEPT ![c] =
                      [[[request[c] EXCEPT !.pc = "reply"] EXCEPT !.changed = {}]
                         EXCEPT !.found = found]]
    BY <1>7 DEF Find, TypeOK, found
  <2>3. [[[request[c] EXCEPT !.pc = "reply"] EXCEPT !.changed = {}] EXCEPT !.found = found]
          \in Requests(version)
    <3>1. [[request[c] EXCEPT !.pc = "reply"] EXCEPT !.changed = {}] \in Requests(version)
      BY <1>1, RequestFields
    <3> QED
      BY <1>1, <2>1, <3>1, RequestFields DEF found
  <2>4. request' \in [Client -> Requests(version)]
    BY <1>1, <2>2, <2>3
  <2> QED
    BY <1>7, <2>4 DEF Find, TypeOK
<1>8. CASE Apply(c)
  <2>1. request[c].ver \in 0 .. version
    BY <1>1 DEF Requests
  <2>2. NoRequest \in Requests(version)
    BY <1>1, RequestFields
  <2>3. device' \in [Client -> [ver : 0 .. version, copy : [Friend -> Nat]]]
    BY <1>8, <2>1, CopyType DEF Apply, TypeOK
  <2> QED
    BY <1>1, <1>8, <2>2, <2>3 DEF Apply, TypeOK
<1>9. CASE ReadAll(c)
  <2>1. [e \in Friend |-> View(e)] \in [Friend -> Nat]
    BY CopyType
  <2> QED
    <3>1. request[c].ver \in 0 .. version
      BY <1>1 DEF Requests
    <3>2. NoRequest \in Requests(version)
      BY <1>1, RequestFields
    <3>3. device' \in [Client -> [ver : 0 .. version, copy : [Friend -> Nat]]]
      BY <1>9, <2>1, <3>1 DEF ReadAll, TypeOK
    <3> QED
      BY <1>1, <1>9, <3>2, <3>3 DEF ReadAll, TypeOK
<1>10. CASE Lose(c)
  BY <1>1, <1>10, RequestFields DEF Lose, TypeOK
<1> QED
  BY <1>2, <1>3, <1>4, <1>5, <1>6, <1>7, <1>8, <1>9, <1>10 DEF Serve, Receive

\* Types are kept.
LEMMA StepTypeOK == TypeOK /\ Calls /\ [Next]_vars => TypeOK'
<1> SUFFICES ASSUME TypeOK, Calls, [Next]_vars PROVE TypeOK'
  OBVIOUS
<1>1. CASE \E w \in Writer : Advance(w) \/ Crash(w)
  BY <1>1, CallTypeOK
<1>2. CASE \E w \in Writer, e \in Friend : \E op \in Changes[e] :
             WriteList(w, op, e) \/ OpenTx(w, op, e)
  BY <1>2, StartTypeOK
<1>3. CASE \E c \in Client : Serve(c) \/ Receive(c) \/ Lose(c)
  BY <1>3, DeviceTypeOK
<1>6. CASE \E w \in Writer, e \in Friend : ChangeProfile(w, e)
  BY <1>6, ProfileTypeOK
<1>4. CASE Expire
  <2>1. cached' \in 0 .. version /\ undeleted' = FALSE
    BY <1>4 DEF Expire, TypeOK
  <2> QED
    BY <1>4, <2>1 DEF Expire, TypeOK, data, strays
<1>5. CASE UNCHANGED vars
  BY <1>5 DEF vars, data, cache, strays, TypeOK
<1> QED
  BY <1>1, <1>2, <1>3, <1>4, <1>5, <1>6 DEF Next

-----------------------------------------------------------------------------
(* The list and its log.                                                   *)

\* What an operation that applies makes of its friend, and of the others.
LEMMA StampedPresent ==
  ASSUME TypeOK, NEW op \in Ops \ {"profile"}, NEW e \in Friend, Applies(op, e),
         stamp' = Stamped(op, e)
  PROVE  /\ op \in {"add", "remark"} => Present(e)'
         /\ op = "remove" => ~Present(e)'
         /\ op = "pin" => (Present(e)' <=> Present(e))
         /\ \A f \in Friend \ {e} : stamp'[f] = stamp[f]
<1>1. stamp \in [Friend -> Nat] /\ stamp[e] \in Nat
  BY DEF TypeOK
<1>2. \A f \in Friend \ {e} : stamp'[f] = stamp[f]
  BY <1>1 DEF Stamped
<1>3. CASE op = "add"
  <2>1. stamp[e] % 2 # 1
    BY <1>3 DEF Applies, Present
  <2>2. stamp'[e] = stamp[e] + 1
    BY <1>1, <1>3 DEF Stamped
  <2> QED
    BY <1>1, <1>2, <1>3, <2>1, <2>2, Parity DEF Present
<1>4. CASE op = "remove"
  <2>1. stamp'[e] = IF stamp[e] % 2 = 1 THEN stamp[e] + 1 ELSE stamp[e]
    BY <1>1, <1>4 DEF Stamped, Present
  <2> QED
    BY <1>1, <1>2, <1>4, <2>1, Parity DEF Present
<1>5. CASE op \in {"remark", "pin"}
  <2>1. stamp'[e] = IF stamp[e] % 2 = 1 THEN stamp[e] + 2 ELSE stamp[e]
    BY <1>1, <1>5 DEF Stamped, Present
  <2>2. op = "remark" => stamp[e] % 2 = 1
    BY DEF Applies, Present
  <2> QED
    BY <1>1, <1>2, <1>5, <2>1, <2>2, Parity DEF Present
<1> QED
  BY <1>3, <1>4, <1>5 DEF Ops

\* A transaction that is not over can be carried out.
LEMMA OpenApplies ==
  ASSUME Calls, NEW w \in Writer, Open(w)
  PROVE  writer[w].friend \in Friend /\ writer[w].op \in Ops /\ Applies(writer[w].op, writer[w].friend)
<1>1. writer[w].op \in {"add", "pin"} /\ writer[w].friend \in Friend
  BY DEF Calls, InTransaction
<1>2. writer[w].op = "add" => ~Present(writer[w].friend)
  BY DEF Calls
<1> QED
  BY <1>1, <1>2 DEF Applies, Ops

\* The calls of others while w moves on within the log or its transaction, or ends.
LEMMA CallsKept ==
  ASSUME TypeOK, Calls, NEW w \in Writer, NEW r \in CallSet,
         writer' = [writer EXCEPT ![w] = r], UNCHANGED <<replicaSet, stamp>>,
         \/ r.pc \in {"idle", "cache"}
         \/ /\ r.op = writer[w].op /\ r.friend = writer[w].friend
            /\ \/ Logging(w) /\ r.pc \in {"log", "init", "again"}
               \/ Open(w) /\ r.pc \in {"open", "commit"}
  PROVE  Calls'
<1>1. writer \in [Writer -> CallSet]
  BY DEF TypeOK
<1>2. writer'[w] = r /\ \A v \in Writer \ {w} : writer'[v] = writer[v]
  BY <1>1
<1>3. \A v \in Writer : (Open(v)' => Open(v)) /\ (Logging(v)' => Logging(v))
  BY <1>2 DEF Open, Logging
<1>4. \A v \in Writer : Open(v)' \/ Logging(v)' =>
        writer'[v].op = writer[v].op /\ writer'[v].friend = writer[v].friend
  BY <1>2 DEF Open, Logging
<1> QED
  BY <1>3, <1>4 DEF Calls, InTransaction, Present

\* What calls rely on is kept.
LEMMA StepCalls == TypeOK /\ Calls /\ [Next]_vars => Calls'
<1> SUFFICES ASSUME TypeOK, Calls, [Next]_vars PROVE Calls'
  OBVIOUS
<1>0. writer \in [Writer -> CallSet]
  BY DEF TypeOK
<1> USE DEF data
<1>1. ASSUME NEW w \in Writer, WriteLog(w) \/ InitLog(w) \/ DelCache(w) PROVE Calls'
  <2>1. PICK r \in {LoggedCall, NoCall} : writer' = [writer EXCEPT ![w] = r]
    BY <1>1 DEF WriteLog, InitLog, DelCache
  <2>2. r \in CallSet /\ r.pc \in {"idle", "cache"}
    BY DEF LoggedCall, NoCall, CallSet
  <2>3. UNCHANGED <<replicaSet, stamp>>
    BY <1>1 DEF WriteLog, InitLog, DelCache
  <2> QED
    BY <2>1, <2>2, <2>3, CallsKept
<1>2. ASSUME NEW w \in Writer, MissLog(w) \/ InitDuplicate(w) \/ DelCacheTx(w) PROVE Calls'
  <2>1. PICK pc \in {"init", "again", "commit"} :
          /\ writer' = [writer EXCEPT ![w] = [writer[w] EXCEPT !.pc = pc]]
          /\ \/ Logging(w) /\ pc \in {"log", "init", "again"}
             \/ Open(w) /\ pc \in {"open", "commit"}
    BY <1>0, <1>2 DEF MissLog, InitDuplicate, DelCacheTx, Goto, Logging, Open
  <2> DEFINE r == [writer[w] EXCEPT !.pc = pc]
  <2>2. r \in CallSet /\ r.pc = pc /\ r.op = writer[w].op /\ r.friend = writer[w].friend
    BY <1>0 DEF CallSet
  <2>3. UNCHANGED <<replicaSet, stamp>>
    BY <1>2 DEF MissLog, InitDuplicate, DelCacheTx
  <2> HIDE DEF r
  <2>4. writer' = [writer EXCEPT ![w] = r]
    BY <2>1 DEF r
  <2> QED
    BY <2>1, <2>2, <2>3, <2>4, CallsKept
<1>3. ASSUME NEW w \in Writer, Crash(w) PROVE Calls'
  <2>1. NoCall \in CallSet /\ NoCall.pc = "idle"
    BY DEF NoCall, CallSet
  <2> QED
    BY <1>3, <2>1, CallsKept DEF Crash
<1>4. ASSUME NEW w \in Writer, Commit(w) PROVE Calls'
  <2>1. writer' = [writer EXCEPT ![w] = NoCall] /\ replicaSet' = replicaSet /\ Open(w)
    BY <1>4 DEF Commit, Open
  <2>2. \A v \in Writer \ {w} : writer'[v] = writer[v] /\ ~Open(v)
    BY <1>0, <2>1 DEF Calls
  <2>3. writer'[w].pc = "idle"
    BY <1>0, <2>1 DEF NoCall
  <2>4. \A v \in Writer : ~Open(v)' /\ (Logging(v)' => v # w)
    BY <2>2, <2>3 DEF Open, Logging
  <2> QED
    BY <2>2, <2>4 DEF Calls, Logging
<1>5. ASSUME NEW w \in Writer, NEW e \in Friend, NEW op \in Changes[e], WriteList(w, op, e)
      PROVE  Calls'
  <2>1. /\ writer' = [writer EXCEPT ![w] = [pc |-> "log", op |-> op, friend |-> e]]
        /\ Applies(op, e) /\ stamp' = Stamped(op, e) /\ replicaSet' = replicaSet
        /\ ~InTransaction(op)
    BY <1>5 DEF WriteList, Begin
  <2>2. op \in Ops \ {"profile"}
    BY <1>5 DEF Ops, WriteList
  <2>3. /\ writer'[w] = [pc |-> "log", op |-> op, friend |-> e]
        /\ \A v \in Writer \ {w} : writer'[v] = writer[v]
    BY <1>0, <2>1
  <2>4. \A v \in Writer : Open(v)' => Open(v) /\ v # w
    BY <2>3 DEF Open
  <2>5. ASSUME NEW v \in Writer, Open(v)', writer'[v].op = "add"
        PROVE  ~Present(writer[v].friend)'
    <3>1. writer'[v] = writer[v] /\ Open(v) /\ writer[v].friend \in Friend /\ ~Present(writer[v].friend)
      BY <2>3, <2>4, <2>5 DEF Calls
    <3>2. replicaSet
      BY <3>1 DEF Calls, InTransaction
    <3>3. op \in {"remove", "remark"}
      BY <2>1, <2>2, <3>2 DEF InTransaction, Ops
    <3>4. CASE writer[v].friend = e
      BY <2>1, <2>2, <3>1, <3>3, <3>4, StampedPresent DEF Applies
    <3>5. CASE writer[v].friend # e
      BY <2>1, <2>2, <3>1, <3>5, StampedPresent DEF Present
    <3> QED
      BY <3>4, <3>5
  <2>6. \A v \in Writer : Logging(v)' \/ Open(v)' => writer'[v].friend \in Friend /\ writer'[v].op \in Ops
    BY <2>2, <2>3 DEF Calls, Logging, Open
  <2>7. \A v \in Writer : Open(v)' => InTransaction(writer[v].op)' /\ writer'[v] = writer[v]
    BY <2>1, <2>3, <2>4 DEF Calls, InTransaction
  <2>8. \A v, x \in Writer : Open(v)' /\ Open(x)' => v = x
    BY <2>4 DEF Calls
  <2> QED
    BY <2>5, <2>6, <2>7, <2>8 DEF Calls
<1>6. ASSUME NEW w \in Writer, NEW e \in Friend, NEW op \in Changes[e], OpenTx(w, op, e)
      PROVE  Calls'
  <2>1. /\ writer' = [writer EXCEPT ![w] = [pc |-> "open", op |-> op, friend |-> e]]
        /\ Applies(op, e) /\ InTransaction(op) /\ ~LogIsLocked /\ UNCHANGED <<replicaSet, stamp>>
    BY <1>6 DEF OpenTx, Begin
  <2>2. op \in Ops
    BY DEF Ops
  <2>3. /\ writer'[w] = [pc |-> "open", op |-> op, friend |-> e]
        /\ \A v \in Writer \ {w} : writer'[v] = writer[v]
    BY <1>0, <2>1
  <2>4. \A v \in Writer : Open(v)' <=> v = w
    BY <2>1, <2>3 DEF Open, LogIsLocked
  <2>5. \A v \in Writer : Logging(v)' => Logging(v) /\ v # w
    BY <2>3 DEF Logging
  <2> QED
    BY <2>1, <2>2, <2>3, <2>4, <2>5 DEF Calls, Applies, Present, InTransaction
<1>10. ASSUME NEW w \in Writer, NEW e \in Friend, ChangeProfile(w, e) PROVE Calls'
  <2>1. /\ writer' = [writer EXCEPT ![w] = [pc |-> "log", op |-> "profile", friend |-> e]]
        /\ UNCHANGED <<replicaSet, stamp>>
    BY <1>10 DEF ChangeProfile, Begin
  <2>2. /\ writer'[w] = [pc |-> "log", op |-> "profile", friend |-> e]
        /\ \A v \in Writer \ {w} : writer'[v] = writer[v]
    BY <1>0, <2>1
  <2>3. \A v \in Writer : Open(v)' => Open(v) /\ v # w
    BY <2>2 DEF Open
  <2> QED
    BY <2>1, <2>2, <2>3 DEF Calls, Logging, Open, Ops, InTransaction, Present
<1>7. CASE UNCHANGED <<replicaSet, stamp, writer>>
  BY <1>7 DEF Calls, Logging, Open, Present, InTransaction
<1>8. ASSUME NEW c \in Client, Serve(c) \/ Receive(c) \/ Lose(c)
      PROVE  UNCHANGED <<replicaSet, stamp, writer>>
  BY <1>8 DEF Serve, Receive, Lose, Hit, Lock, Fill, Install, Query, Find, Apply, ReadAll
<1>9. ASSUME Expire \/ UNCHANGED vars PROVE UNCHANGED <<replicaSet, stamp, writer>>
  BY <1>9 DEF Expire, vars
<1> QED
  BY <1>1, <1>2, <1>3, <1>4, <1>5, <1>6, <1>7, <1>8, <1>9, <1>10 DEF Next, Advance

\* Type correctness, for any number of calls, devices, friends and changes.
THEOREM TypeCorrect == Spec => []TypeOK
<1>1. Spec => [](TypeOK /\ Calls)
  BY InitTypeOK, StepTypeOK, StepCalls, PTL DEF Spec
<1> QED
  BY <1>1, PTL

-----------------------------------------------------------------------------
(* What a step of a call does to a friend.                                 *)

CallStep ==
  \/ \E w \in Writer : Advance(w) \/ Crash(w)
  \/ \E w \in Writer, e \in Friend : \E op \in Changes[e] :
       WriteList(w, op, e) \/ OpenTx(w, op, e)
  \/ \E w \in Writer, e \in Friend : ChangeProfile(w, e)

\* It does not concern the friend, or it writes the friend's log entry.
Stays(e) ==
  /\ stamp'[e] = stamp[e] /\ logs'[e] = logs[e]
  /\ Unlogged(e)' <=> Unlogged(e)
  /\ e \in astray => e \in astray'

Arrives(e) ==
  /\ version' = version + 1
  /\ logs'[e].ver = version' /\ logs'[e].state \in {"insert", "delete", "update"}

Told ==
  /\ version' \in Nat /\ version <= version' /\ blurred \subseteq blurred'
  /\ \A e \in Friend : /\ logs'[e] = logs[e] \/ Arrives(e)
                       /\ Stays(e) \/ Unlogged(e)' \/ e \in astray' \/ Arrives(e)

\* No call comes to be about to log e.
NoneBegins(e) ==
  \A v \in Writer : Logging(v)' /\ writer'[v].friend = e =>
    Logging(v) /\ writer'[v].op = writer[v].op /\ writer[v].friend = e

LEMMA UnloggedBy ==
  ASSUME NEW e \in Friend
  PROVE  /\ Unlogged(e) <=> \E v \in Writer : /\ writer[v].friend = e /\ Logging(v)
                                              /\ writer[v].op # "profile"
         /\ Unlogged(e)' <=> \E v \in Writer : /\ writer'[v].friend = e /\ Logging(v)'
                                               /\ writer'[v].op # "profile"
  BY DEF Unlogged, Pending, Logging

\* A call that moves on, or ends, starts to log nothing; it still has to log
\* what it had unless its log entry is written or it fails.
LEMMA CallMoves ==
  ASSUME TypeOK, NEW w \in Writer, NEW r \in CallSet, writer' = [writer EXCEPT ![w] = r],
         r.pc \in {"log", "init", "again"} =>
           Logging(w) /\ r.op = writer[w].op /\ r.friend = writer[w].friend
  PROVE  /\ \A e \in Friend : NoneBegins(e)
         /\ \A e \in Friend :
              (\/ ~Logging(w) \/ writer[w].friend # e \/ writer[w].op = "profile"
               \/ r.pc \in {"log", "init", "again"}) => (Unlogged(e)' <=> Unlogged(e))
<1>1. writer'[w] = r /\ \A v \in Writer \ {w} : writer'[v] = writer[v]
  BY DEF TypeOK
<1>2. \A v \in Writer : Logging(v)' => Logging(v) /\ writer'[v].op = writer[v].op
                                       /\ writer'[v].friend = writer[v].friend
  BY <1>1 DEF Logging
<1>5. ASSUME NEW e \in Friend, Unlogged(e),
             \/ ~Logging(w) \/ writer[w].friend # e \/ writer[w].op = "profile"
             \/ r.pc \in {"log", "init", "again"}
      PROVE  Unlogged(e)'
  <2>1. PICK v \in Writer : writer[v].friend = e /\ Logging(v) /\ writer[v].op # "profile"
    BY <1>5, UnloggedBy
  <2>2. writer'[v].friend = e /\ Logging(v)' /\ writer'[v].op # "profile"
    BY <1>1, <1>5, <2>1 DEF Logging
  <2> QED
    BY <2>2, UnloggedBy
<1>6. \A e \in Friend : Unlogged(e)' => Unlogged(e)
  BY <1>2, UnloggedBy
<1> QED
  BY <1>2, <1>5, <1>6 DEF NoneBegins

\* Where no call begins to log e and its stamp does not change, the calls that
\* are about to log it tell what they told.
LEMMA PendingTells ==
  ASSUME NEW e \in Friend, LogTells(e), stamp'[e] = stamp[e], NoneBegins(e)
  PROVE  /\ \A w \in Writer : Logging(w)' /\ writer'[w].friend = e => Tells(State(writer[w].op), e)'
         /\ \A v, w \in Writer :
              Logging(v)' /\ Logging(w)' /\ writer'[v].friend = e /\ writer'[w].friend = e => v = w
<1>1. Present(e)' <=> Present(e)
  BY DEF Present
<1> QED
  BY <1>1 DEF LogTells, NoneBegins, Tells

\* So does the entry of a friend that a step does not concern.
LEMMA StaysTells ==
  ASSUME NEW e \in Friend, LogTells(e), Stays(e), NoneBegins(e)
  PROVE  LogTells(e)'
<1>1. e \notin astray' /\ ~Unlogged(e)' => ~Misstated(e)'
  BY DEF Stays, LogTells, Misstated, Present
<1> QED
  BY <1>1, PendingTells DEF Stays, LogTells

\* Writing the log is the arrival of its friend's entry and concerns no other.
LEMMA AppendArrives ==
  ASSUME TypeOK, NEW w \in Writer, AppendLog(w), writer[w].friend \in Friend
  PROVE  /\ version' = version + 1 /\ version \in Nat
         /\ logs'[writer[w].friend].ver = version'
         /\ logs'[writer[w].friend].state = State(writer[w].op)
         /\ Arrives(writer[w].friend)
         /\ \A e \in Friend \ {writer[w].friend} :
              logs'[e] = logs[e] /\ (e \in astray => e \in astray')
<1>1. DOMAIN logs = Friend \cup {Sort} /\ version \in Nat
  BY DEF TypeOK
<1>2. /\ version' = version + 1
      /\ logs' = [k \in DOMAIN logs |->
                    IF k \in LogIds(writer[w].op, writer[w].friend)
                    THEN [ver |-> version + 1, state |-> State(writer[w].op)] ELSE logs[k]]
  BY DEF AppendLog, Logged
<1>3. writer[w].friend \in LogIds(writer[w].op, writer[w].friend)
  BY DEF LogIds
<1>4. \A e \in Friend \ {writer[w].friend} : e \notin LogIds(writer[w].op, writer[w].friend)
  BY DEF LogIds
<1>5. astray' = astray \ {writer[w].friend}
  BY DEF AppendLog
<1>6. State(writer[w].op) \in {"insert", "delete", "update"}
  BY DEF State
<1>7. logs'[writer[w].friend] = [ver |-> version + 1, state |-> State(writer[w].op)]
  BY <1>1, <1>2, <1>3
<1>8. \A e \in Friend \ {writer[w].friend} : logs'[e] = logs[e]
  BY <1>1, <1>2, <1>4
<1> QED
  BY <1>1, <1>2, <1>5, <1>6, <1>7, <1>8 DEF Arrives

\* Steps that write no entry tell, and leave every friend whose calls do not
\* overlap told of, if they concern the list and the calls of e alone.
LEMMA ToldNothingNew ==
  ASSUME TypeOK, LogInv, NEW e \in Friend, UNCHANGED <<version, logs>>,
         blurred \subseteq blurred',
         \A f \in Friend \ {e} : Stays(f) /\ NoneBegins(f),
         Stays(e) \/ Unlogged(e)' \/ e \in astray',
         e \notin blurred' => LogTells(e)'
  PROVE  Told /\ LogInv'
<1>1. version \in Nat
  BY DEF TypeOK
<1>2. Told
  BY <1>1 DEF Told
<1>3. \A f \in Friend \ blurred' : LogTells(f)'
  BY StaysTells DEF LogInv
<1> QED
  BY <1>2, <1>3 DEF LogInv

\* The same of steps that write one.
LEMMA ToldEntry ==
  ASSUME TypeOK, LogInv, NEW w \in Writer, AppendLog(w), NEW e \in Friend,
         e = writer[w].friend, blurred \subseteq blurred',
         \A f \in Friend \ {e} :
           stamp'[f] = stamp[f] /\ (Unlogged(f)' <=> Unlogged(f)) /\ NoneBegins(f),
         e \notin blurred' => LogTells(e)'
  PROVE  Told /\ LogInv'
<1>2. \A f \in Friend \ {e} : Stays(f)
  BY AppendArrives DEF Stays
<1>3. Arrives(e) /\ version \in Nat /\ version' = version + 1
  BY AppendArrives
<1>4. Told
  BY <1>2, <1>3 DEF Told, Stays
<1>5. \A f \in Friend \ blurred' : LogTells(f)'
  BY <1>2, StaysTells DEF LogInv
<1>6. \A f \in Friend : logs'[f].ver > 0 => logs'[f].state # "none"
  BY <1>2, <1>3 DEF LogInv, Arrives, Stays
<1> QED
  BY <1>4, <1>5, <1>6 DEF LogInv

\* A list change, or an announced profile, is about to be logged: its entry will
\* tell if no other call is about to log its friend.
LEMMA StartTells ==
  ASSUME TypeOK, NEW w \in Writer, NEW e \in Friend, NEW op,
         writer' = [writer EXCEPT ![w] = [pc |-> "log", op |-> op, friend |-> e]],
         ~Logging(w)
  PROVE  /\ \A f \in Friend \ {e} : NoneBegins(f) /\ (Unlogged(f)' <=> Unlogged(f))
         /\ op # "profile" => Unlogged(e)'
         /\ op = "profile" => (Unlogged(e)' <=> Unlogged(e))
         /\ Pending(e) = {} /\ (State(op) = "delete" <=> ~Present(e)') =>
              /\ \A v \in Writer : Logging(v)' /\ writer'[v].friend = e => Tells(State(writer[v].op), e)'
              /\ \A v, x \in Writer :
                   Logging(v)' /\ Logging(x)' /\ writer'[v].friend = e /\ writer'[x].friend = e => v = x
<1>1. /\ writer'[w] = [pc |-> "log", op |-> op, friend |-> e]
      /\ \A v \in Writer \ {w} : writer'[v] = writer[v]
  BY DEF TypeOK
<1>2. Logging(w)' /\ writer'[w].op = op /\ writer'[w].friend = e
  BY <1>1 DEF Logging
<1>3. \A v \in Writer \ {w} : Logging(v)' <=> Logging(v)
  BY <1>1 DEF Logging
<1>4. ASSUME NEW f \in Friend \ {e} PROVE NoneBegins(f) /\ (Unlogged(f)' <=> Unlogged(f))
  <2>1. NoneBegins(f)
    BY <1>1, <1>2, <1>3 DEF NoneBegins
  <2>2. Unlogged(f)' <=> Unlogged(f)
    BY <1>1, <1>2, <1>3, UnloggedBy
  <2> QED
    BY <2>1, <2>2
<1>5. op # "profile" => Unlogged(e)'
  BY <1>2, UnloggedBy
<1>6. op = "profile" => (Unlogged(e)' <=> Unlogged(e))
  BY <1>1, <1>2, <1>3, UnloggedBy
<1>7. ASSUME Pending(e) = {}, State(op) = "delete" <=> ~Present(e)'
      PROVE  /\ \A v \in Writer : Logging(v)' /\ writer'[v].friend = e => Tells(State(writer[v].op), e)'
             /\ \A v, x \in Writer :
                  Logging(v)' /\ Logging(x)' /\ writer'[v].friend = e /\ writer'[x].friend = e => v = x
  <2>1. \A v \in Writer : Logging(v)' /\ writer'[v].friend = e => v = w
    BY <1>1, <1>3, <1>7 DEF Pending, Logging
  <2>2. Tells(State(writer[w].op), e)'
    BY <1>2, <1>7 DEF Tells, State
  <2> QED
    BY <2>1, <2>2
<1> QED
  BY <1>4, <1>5, <1>6, <1>7

\* Every step of a call tells of all friends, and the log of those whose calls
\* do not overlap.
LEMMA StepTold ==
  TypeOK /\ Calls /\ LogInv /\ CallStep => Told /\ LogInv'
<1> SUFFICES ASSUME TypeOK, Calls, LogInv, CallStep PROVE Told /\ LogInv'
  OBVIOUS
<1> USE DEF data, strays
<1>0. writer \in [Writer -> CallSet] /\ version \in Nat
  BY DEF TypeOK
<1>a. NoCall \in CallSet /\ LoggedCall \in CallSet /\ NoCall.pc = "idle" /\ LoggedCall.pc = "cache"
  BY DEF NoCall, LoggedCall, CallSet
<1>1. ASSUME UNCHANGED <<version, logs, stamp, strays>>,
             \A f \in Friend : NoneBegins(f) /\ (Unlogged(f)' <=> Unlogged(f))
      PROVE  Told /\ LogInv'
  <2>1. \A f \in Friend : Stays(f)
    BY <1>1 DEF Stays
  <2>2. \A f \in Friend \ blurred' : LogTells(f)'
    BY <1>1, <2>1, StaysTells DEF LogInv
  <2>3. Told
    BY <1>0, <1>1, <2>1 DEF Told
  <2> QED
    BY <1>1, <2>2, <2>3 DEF LogInv
<1>2. ASSUME NEW w \in Writer, WriteLog(w) \/ InitLog(w) PROVE Told /\ LogInv'
  <2>1. /\ AppendLog(w) /\ Logging(w) /\ UNCHANGED <<stamp, blurred>>
        /\ writer' = [writer EXCEPT ![w] = LoggedCall]
    BY <1>2 DEF WriteLog, InitLog, Logging
  <2>2. PICK e \in Friend : e = writer[w].friend
    BY <2>1 DEF Calls
  <2>3. /\ \A f \in Friend : NoneBegins(f)
        /\ \A f \in Friend : writer[w].friend # f => (Unlogged(f)' <=> Unlogged(f))
    BY <1>a, <2>1, CallMoves
  <2>4. ASSUME e \notin blurred' PROVE LogTells(e)'
    <3>1. LogTells(e) /\ Tells(State(writer[w].op), e)
      BY <2>1, <2>2, <2>4 DEF LogTells, LogInv
    <3>2. Present(e)' <=> Present(e)
      BY <2>1 DEF Present
    <3>3. logs'[e].state = State(writer[w].op) /\ State(writer[w].op) # "none"
      BY <2>1, <2>2, AppendArrives DEF State
    <3>4. ~Misstated(e)'
      BY <3>1, <3>2, <3>3 DEF Misstated, Tells
    <3> QED
      BY <2>1, <2>3, <3>1, <3>4, PendingTells DEF LogTells
  <2> QED
    BY <2>1, <2>2, <2>3, <2>4, ToldEntry
<1>3. ASSUME NEW w \in Writer, MissLog(w) \/ InitDuplicate(w) \/ DelCache(w) \/ DelCacheTx(w)
      PROVE  Told /\ LogInv'
  <2>1. UNCHANGED <<stamp, logs, version, strays>>
    BY <1>3 DEF MissLog, InitDuplicate, DelCache, DelCacheTx
  <2>2. PICK r \in CallSet :
          /\ writer' = [writer EXCEPT ![w] = r]
          /\ r.pc \in {"log", "init", "again"} =>
               Logging(w) /\ r.op = writer[w].op /\ r.friend = writer[w].friend
          /\ ~Logging(w) \/ r.pc \in {"log", "init", "again"}
    <3>1. ASSUME NEW pc \in {"init", "again", "commit"}
          PROVE  /\ [writer[w] EXCEPT !.pc = pc] \in CallSet
                 /\ [writer EXCEPT ![w].pc = pc] = [writer EXCEPT ![w] = [writer[w] EXCEPT !.pc = pc]]
                 /\ [writer[w] EXCEPT !.pc = pc].pc = pc
                 /\ [writer[w] EXCEPT !.pc = pc].op = writer[w].op
                 /\ [writer[w] EXCEPT !.pc = pc].friend = writer[w].friend
      BY <1>0 DEF CallSet
    <3>2. CASE MissLog(w) \/ InitDuplicate(w)
      <4>1. Logging(w) /\ \E pc \in {"init", "again"} : writer' = [writer EXCEPT ![w].pc = pc]
        BY <3>2 DEF MissLog, InitDuplicate, Goto, Logging
      <4> QED
        BY <3>1, <4>1
    <3>3. CASE DelCache(w)
      BY <1>a, <3>3 DEF DelCache, Logging
    <3>4. CASE DelCacheTx(w)
      <4>1. ~Logging(w) /\ writer' = [writer EXCEPT ![w].pc = "commit"]
        BY <3>4 DEF DelCacheTx, Goto, Logging
      <4> QED
        BY <3>1, <4>1
    <3> QED
      BY <1>3, <3>2, <3>3, <3>4
  <2>3. \A f \in Friend : NoneBegins(f) /\ (Unlogged(f)' <=> Unlogged(f))
    BY <2>2, CallMoves
  <2> QED
    BY <1>1, <2>1, <2>3
<1>4. ASSUME NEW w \in Writer, Crash(w) PROVE Told /\ LogInv'
  <2>1. /\ writer' = [writer EXCEPT ![w] = NoCall] /\ UNCHANGED <<stamp, logs, version, blurred>>
        /\ astray' = IF Logging(w) /\ writer[w].op # "profile"
                     THEN astray \cup {writer[w].friend} ELSE astray
    BY <1>4 DEF Crash, Logging
  <2>2. /\ \A f \in Friend : NoneBegins(f)
        /\ \A f \in Friend : ~Logging(w) \/ writer[w].friend # f \/ writer[w].op = "profile" =>
             (Unlogged(f)' <=> Unlogged(f))
    BY <1>a, <2>1, CallMoves
  <2>3. CASE Logging(w) /\ writer[w].op # "profile"
    <3>1. PICK e \in Friend : e = writer[w].friend
      BY <2>3 DEF Calls
    <3>2. e \in astray' /\ astray \subseteq astray'
      BY <2>1, <2>3, <3>1
    <3>3. \A f \in Friend \ {e} : Stays(f)
      BY <2>1, <2>2, <3>1, <3>2 DEF Stays
    <3>4. e \notin blurred' => LogTells(e)'
      BY <2>1, <2>2, <3>2, PendingTells DEF LogTells, LogInv
    <3> QED
      BY <2>1, <2>2, <3>2, <3>3, <3>4, ToldNothingNew
  <2>4. CASE ~(Logging(w) /\ writer[w].op # "profile")
    BY <1>1, <2>1, <2>2, <2>4
  <2> QED
    BY <2>3, <2>4
<1>5. ASSUME NEW w \in Writer, Commit(w) PROVE Told /\ LogInv'
  <2>0. writer[w].friend \in Friend /\ writer[w].op \in Ops
    BY <1>5 DEF Calls, Commit, Open
  <2>p. PICK op \in Ops, e \in Friend : op = writer[w].op /\ e = writer[w].friend
    BY <2>0
  <2>1. /\ stamp' = Stamped(op, e) /\ AppendLog(w) /\ Open(w)
        /\ blurred' = Blurred(op, e)
        /\ writer' = [writer EXCEPT ![w] = NoCall]
    BY <1>5, <2>p DEF Commit, Open
  <2>2. /\ Applies(op, e) /\ op \in {"add", "pin"}
    BY <2>1, <2>p, OpenApplies DEF Calls, InTransaction
  <2>3. ~Logging(w)
    BY <2>1 DEF Open, Logging
  <2>4. \A f \in Friend : NoneBegins(f) /\ (Unlogged(f)' <=> Unlogged(f))
    BY <1>a, <2>1, <2>3, CallMoves
  <2>5. \A f \in Friend \ {e} : stamp'[f] = stamp[f]
    BY <2>1, <2>2, StampedPresent
  <2>6. ASSUME e \notin blurred' PROVE LogTells(e)'
    <3>1. ~Blurs(op, e)
      BY <2>1, <2>6 DEF Blurred
    <3>2. Pending(e) = {} /\ (op = "pin" => Present(e))
      BY <2>2, <3>1 DEF Blurs, State
    <3>3. Present(e)'
      BY <2>1, <2>2, <3>2, StampedPresent
    <3>4. logs'[e].state = State(op) /\ State(op) \notin {"delete", "none"}
      BY <2>1, <2>2, <2>p, AppendArrives DEF State
    <3>5. \A v \in Writer : ~(Logging(v)' /\ writer'[v].friend = e)
      BY <2>4, <3>2 DEF NoneBegins, Pending, Logging
    <3>6. ~Misstated(e)'
      BY <3>3, <3>4 DEF Misstated
    <3> QED
      BY <3>5, <3>6 DEF LogTells
  <2>7. blurred \subseteq blurred'
    BY <2>1 DEF Blurred
  <2> QED
    BY <2>p, <2>1, <2>4, <2>5, <2>6, <2>7, ToldEntry
<1>6. ASSUME NEW w \in Writer, NEW e \in Friend, NEW op \in Changes[e], WriteList(w, op, e)
      PROVE  Told /\ LogInv'
  <2>1. /\ writer' = [writer EXCEPT ![w] = [pc |-> "log", op |-> op, friend |-> e]]
        /\ Applies(op, e) /\ stamp' = Stamped(op, e) /\ writer[w].pc = "idle"
        /\ blurred' = Blurred(op, e)
        /\ UNCHANGED <<version, logs, astray>>
    BY <1>6 DEF WriteList, Begin
  <2>2. op \in Ops \ {"profile"}
    BY <1>6 DEF Ops, WriteList
  <2>3. ~Logging(w)
    BY <2>1 DEF Logging
  <2>4. /\ Unlogged(e)' /\ \A f \in Friend \ {e} : NoneBegins(f) /\ (Unlogged(f)' <=> Unlogged(f))
    BY <2>1, <2>2, <2>3, StartTells
  <2>5. \A f \in Friend \ {e} : Stays(f)
    BY <2>1, <2>2, <2>4, StampedPresent DEF Stays
  <2>6. ASSUME e \notin blurred' PROVE LogTells(e)'
    <3>1. ~Blurs(op, e)
      BY <2>1, <2>6 DEF Blurred
    <3>2. Pending(e) = {} /\ (State(op) = "update" => Present(e))
      BY <3>1 DEF Blurs
    <3>3. op = "pin" => Present(e)
      BY <3>2 DEF State
    <3>4. State(op) = "delete" <=> ~Present(e)'
      BY <2>1, <2>2, <3>3, StampedPresent DEF State, Ops
    <3> QED
      BY <2>1, <2>3, <2>4, <3>2, <3>4, StartTells DEF LogTells
  <2>7. blurred \subseteq blurred'
    BY <2>1 DEF Blurred
  <2> QED
    BY <2>1, <2>4, <2>5, <2>6, <2>7, ToldNothingNew
<1>7. ASSUME NEW w \in Writer, NEW e \in Friend, NEW op \in Changes[e], OpenTx(w, op, e)
      PROVE  Told /\ LogInv'
  <2>1. /\ writer' = [writer EXCEPT ![w] = [pc |-> "open", op |-> op, friend |-> e]]
        /\ writer[w].pc = "idle" /\ UNCHANGED <<stamp, logs, version, strays>>
    BY <1>7 DEF OpenTx, Begin
  <2>2. [pc |-> "open", op |-> op, friend |-> e] \in CallSet
    BY DEF CallSet
  <2>3. \A f \in Friend : NoneBegins(f) /\ (Unlogged(f)' <=> Unlogged(f))
    BY <2>1, <2>2, CallMoves DEF Logging
  <2> QED
    BY <1>1, <2>1, <2>3
<1>8. ASSUME NEW w \in Writer, NEW e \in Friend, ChangeProfile(w, e) PROVE Told /\ LogInv'
  <2>1. /\ writer' = [writer EXCEPT ![w] = [pc |-> "log", op |-> "profile", friend |-> e]]
        /\ writer[w].pc = "idle" /\ blurred' = Blurred("profile", e)
        /\ UNCHANGED <<stamp, version, logs, astray>>
    BY <1>8 DEF ChangeProfile, Begin
  <2>2. ~Logging(w)
    BY <2>1 DEF Logging
  <2>3. /\ Unlogged(e)' <=> Unlogged(e)
        /\ \A f \in Friend \ {e} : NoneBegins(f) /\ (Unlogged(f)' <=> Unlogged(f))
    BY <2>1, <2>2, StartTells
  <2>4. \A f \in Friend : Stays(f)
    BY <2>1, <2>3 DEF Stays
  <2>5. ASSUME e \notin blurred' PROVE LogTells(e)'
    <3>1. ~Blurs("profile", e) /\ e \notin blurred
      BY <2>1, <2>5 DEF Blurred
    <3>2. Pending(e) = {} /\ Present(e) /\ State("profile") = "update"
      BY <3>1 DEF Blurs, State
    <3>3. Present(e)'
      BY <2>1, <3>2 DEF Present
    <3>4. /\ \A v \in Writer : Logging(v)' /\ writer'[v].friend = e => Tells(State(writer[v].op), e)'
          /\ \A v, x \in Writer :
               Logging(v)' /\ Logging(x)' /\ writer'[v].friend = e /\ writer'[x].friend = e => v = x
      BY <2>1, <2>2, <3>2, <3>3, StartTells
    <3>5. e \notin astray' /\ ~Unlogged(e)' => ~Misstated(e)'
      BY <2>1, <2>3, <3>1, <3>2, <3>3 DEF LogInv, LogTells, Misstated
    <3> QED
      BY <3>4, <3>5 DEF LogTells
  <2>6. blurred \subseteq blurred'
    BY <2>1 DEF Blurred
  <2> QED
    BY <2>1, <2>3, <2>4, <2>5, <2>6, ToldNothingNew
<1> QED
  BY <1>2, <1>3, <1>4, <1>5, <1>6, <1>7, <1>8 DEF CallStep, Advance

-----------------------------------------------------------------------------
(* The devices.                                                            *)

\* What is told after an older version is still told, or its friend stays as it is.
LEMMA LaterKept ==
  ASSUME TypeOK, Told, NEW e \in Friend, NEW n \in 0 .. version
  PROVE  \/ Later(e, n)'
         \/ /\ Stays(e) /\ (Present(e)' <=> Present(e)) /\ View(e)' = View(e)
            /\ ~Later(e, n)
<1>1. CASE Stays(e)
  <2>1. (Present(e)' <=> Present(e)) /\ View(e)' = View(e) /\ logs'[e] = logs[e]
    BY <1>1 DEF Stays, Present, View
  <2>2. Untold(e) => Untold(e)'
    BY <1>1, <2>1 DEF Untold, Misstated, Told, Stays
  <2> QED
    BY <1>1, <2>1, <2>2 DEF Later, Stays
<1>2. CASE Unlogged(e)' \/ e \in astray'
  BY <1>2 DEF Later, Untold
<1>3. CASE Arrives(e)
  BY <1>3 DEF Arrives, Later, TypeOK
<1> QED
  BY <1>1, <1>2, <1>3 DEF Told

\* A call's step misses no device, and what an answer that is being built will
\* do is still right or will be made up for.
LEMMA CallMissesNothing ==
  ASSUME TypeOK, Told, NothingMissed, Answers, UNCHANGED <<device, request>>
  PROVE  NothingMissed' /\ Answers'
<1>1. \A c \in Client : device[c].ver \in 0 .. version /\ request[c].ver \in 0 .. version
  BY DEF TypeOK, Requests
<1>2. ASSUME NEW c \in Client, NEW e \in Friend, device'[c].copy[e] # View(e)'
      PROVE  device'[c].ver = 0 \/ Later(e, device[c].ver)'
  <2>1. PICK n \in 0 .. version : n = device[c].ver
    BY <1>1
  <2>2. n = 0 \/ device[c].copy[e] = View(e) \/ Later(e, n)
    BY <2>1 DEF NothingMissed, Later
  <2>3. n = 0 \/ Later(e, n)'
    BY <1>2, <2>2, LaterKept
  <2> QED
    BY <2>1, <2>3 DEF Later
<1>3. NothingMissed'
  BY <1>2 DEF NothingMissed, Later
<1>4. ASSUME NEW c \in Client PROVE AnswerRight(c)'
  <2>0. PICK n \in 0 .. version : n = request[c].ver
    BY <1>1
  <2>1. AnswerRight(c)
    BY DEF Answers
  <2>2. ASSUME request'[c].pc = "find", NEW e \in Friend
        PROVE  \/ Later(e, request[c].ver)'
               \/ e \in request'[c].gone /\ e \notin request'[c].changed /\ ~Present(e)'
               \/ e \in request'[c].changed /\ e \notin request'[c].gone /\ Present(e)'
               \/ /\ e \notin request'[c].gone \cup request'[c].changed
                  /\ device'[c].copy[e] = View(e)'
    <3>1. \/ Later(e, n)
          \/ e \in request[c].gone /\ e \notin request[c].changed /\ ~Present(e)
          \/ e \in request[c].changed /\ e \notin request[c].gone /\ Present(e)
          \/ /\ e \notin request[c].gone \cup request[c].changed
             /\ device[c].copy[e] = View(e)
      BY <2>0, <2>1, <2>2 DEF AnswerRight
    <3>2. CASE Later(e, n)'
      BY <2>0, <3>2 DEF Later
    <3>3. CASE ~Later(e, n)'
      BY <3>1, <3>3, LaterKept
    <3> QED
      BY <3>2, <3>3
  <2>3. ASSUME request'[c].pc = "reply", NEW e \in Friend
        PROVE  Later(e, request[c].ver)' \/ Merged(c)'[e] = View(e)'
    <3>1. Merged(c)' = Merged(c)
      BY DEF Merged
    <3>2. Later(e, n) \/ Merged(c)[e] = View(e)
      BY <2>0, <2>1, <2>3 DEF AnswerRight
    <3>3. CASE Later(e, n)'
      BY <2>0, <3>3 DEF Later
    <3>4. CASE ~Later(e, n)'
      BY <3>1, <3>2, <3>4, LaterKept
    <3> QED
      BY <3>3, <3>4
  <2>4. /\ request'[c].pc \in {"query", "find", "reply"} => device'[c].ver > 0
        /\ request'[c].pc \in {"find", "reply", "full"} => device'[c].ver <= request'[c].ver
    BY <2>1 DEF AnswerRight
  <2> QED
    BY <2>2, <2>3, <2>4 DEF AnswerRight
<1> QED
  BY <1>3, <1>4 DEF Answers

\* Steps that leave list, log and calls alone.
ListKept == UNCHANGED <<stamp, logs, writer, blurred, astray>>

LEMMA ListKeptFacts ==
  ASSUME ListKept
  PROVE  /\ \A e \in Friend : /\ Present(e)' <=> Present(e)
                              /\ View(e)' = View(e)
                              /\ Unlogged(e)' <=> Unlogged(e)
                              /\ Untold(e)' <=> Untold(e)
         /\ LogInv => LogInv'
<1>1. \A e \in Friend : /\ Present(e)' <=> Present(e)
                        /\ View(e)' = View(e)
                        /\ Unlogged(e)' <=> Unlogged(e)
                        /\ Misstated(e)' <=> Misstated(e)
                        /\ Untold(e)' <=> Untold(e)
  BY DEF ListKept, Present, View, Unlogged, Pending, Untold, Misstated
<1>2. ASSUME NEW e \in Friend, LogTells(e) PROVE LogTells(e)'
  BY <1>1, <1>2 DEF LogTells, ListKept, Tells, Logging
<1>3. LogInv => LogInv'
  BY <1>2 DEF LogInv, ListKept
<1> QED
  BY <1>1, <1>3

\* Other devices are not concerned by a device's step.
LEMMA OtherAnswers ==
  ASSUME TypeOK, ListKept, NEW c \in Client, AnswerRight(c),
         device'[c] = device[c], request'[c] = request[c]
  PROVE  AnswerRight(c)'
<1>1. \A e \in Friend : (Present(e)' <=> Present(e)) /\ View(e)' = View(e)
                     /\ (Unlogged(e)' <=> Unlogged(e)) /\ (Untold(e)' <=> Untold(e))
  BY ListKeptFacts
<1>2. \A e \in Friend : Later(e, request[c].ver)' <=> Later(e, request[c].ver)
  BY <1>1 DEF Later, ListKept
<1>3. Merged(c)' = Merged(c)
  BY DEF Merged
<1>5. /\ request'[c].pc = "find" => \A e \in Friend :
           \/ Later(e, request[c].ver)'
           \/ e \in request'[c].gone /\ e \notin request'[c].changed /\ ~Present(e)'
           \/ e \in request'[c].changed /\ e \notin request'[c].gone /\ Present(e)'
           \/ /\ e \notin request'[c].gone \cup request'[c].changed
              /\ device'[c].copy[e] = View(e)'
  BY <1>1, <1>2 DEF AnswerRight
<1>6. request'[c].pc = "reply" => \A e \in Friend :
           Later(e, request[c].ver)' \/ Merged(c)'[e] = View(e)'
  BY <1>1, <1>2, <1>3 DEF AnswerRight
<1>7. /\ request'[c].pc \in {"query", "find", "reply"} => device'[c].ver > 0
      /\ request'[c].pc \in {"find", "reply", "full"} => device'[c].ver <= request'[c].ver
  BY DEF AnswerRight
<1> QED
  BY <1>5, <1>6, <1>7 DEF AnswerRight

LEMMA DeviceKept ==
  ASSUME ListKept, NothingMissed, UNCHANGED device
  PROVE  NothingMissed'
<1>1. \A e \in Friend : View(e)' = View(e) /\ (Unlogged(e)' <=> Unlogged(e)) /\ (Untold(e)' <=> Untold(e))
  BY ListKeptFacts
<1> QED
  BY <1>1 DEF NothingMissed, ListKept

\* The first answer to a request.
LEMMA FirstAnswer ==
  ASSUME TypeOK, NEW c \in Client, NEW v \in 0 .. version,
         request' = Answer(c, v), UNCHANGED device
  PROVE  /\ AnswerRight(c)' /\ \A d \in Client \ {c} : request'[d] = request[d]
         /\ request'[c].pc \notin {"read", "install"}
<1>1. /\ request[c] \in Requests(version) /\ request \in [Client -> Requests(version)]
      /\ device[c].ver \in Nat /\ version \in Nat
  BY DEF TypeOK
<1>2. /\ [request[c] EXCEPT !.pc = "full", !.ver = v].pc = "full"
      /\ [request[c] EXCEPT !.pc = "full", !.ver = v].ver = v
      /\ [request[c] EXCEPT !.pc = "query"].pc = "query"
      /\ NoRequest.pc = "idle"
  BY <1>1 DEF Requests, NoRequest
<1>3. PICK r : request' = [request EXCEPT ![c] = r]
               /\ \/ device[c].ver = 0 /\ r.pc = "full" /\ r.ver = v
                  \/ r.pc = "idle"
                  \/ device[c].ver # 0 /\ r.pc = "query"
  <2>1. CASE device[c].ver = 0
    <3>1. Answer(c, v) = [request EXCEPT ![c] = [request[c] EXCEPT !.pc = "full", !.ver = v]]
      BY <2>1 DEF Answer
    <3> QED
      BY <1>2, <2>1, <3>1
  <2>2. CASE device[c].ver # 0 /\ device[c].ver = v
    BY <1>2, <2>2 DEF Answer
  <2>3. CASE device[c].ver # 0 /\ device[c].ver # v
    BY <1>2, <2>3 DEF Answer
  <2> QED
    BY <2>1, <2>2, <2>3
<1>4. request'[c] = r /\ \A d \in Client \ {c} : request'[d] = request[d]
  BY <1>1, <1>3
<1> QED
  BY <1>1, <1>3, <1>4 DEF AnswerRight

\* The log's answer covers everything that has been or will be logged after it.
LEMMA QueryRight ==
  ASSUME TypeOK, LogInv, NothingMissed, NEW c \in Client, AnswerRight(c), Query(c)
  PROVE  AnswerRight(c)'
<1> DEFINE gone == {e \in Newer(c) \ {Sort} : logs[e].state = "delete"}
           rest == Newer(c) \ (gone \cup {Sort})
<1>1. /\ request \in [Client -> Requests(version)] /\ version \in Nat
      /\ device[c].ver \in 0 .. version
  BY DEF TypeOK
<1>2. device[c].ver > 0 /\ UNCHANGED <<device, stamp, logs, writer, blurred, astray>>
  BY DEF Query, AnswerRight, data, strays
<1>3. \/ request'[c].pc = "full" /\ request'[c].ver = version
      \/ request'[c].pc = "find" /\ request'[c].ver = version
         /\ request'[c].gone = gone /\ request'[c].changed = rest
  <2>1. \/ request'[c] = [request[c] EXCEPT !.pc = "full", !.ver = version]
        \/ request'[c] = [request[c] EXCEPT !.pc = "find", !.ver = version, !.gone = gone,
                                            !.changed = rest]
    BY <1>1 DEF Query
  <2> HIDE DEF gone, rest
  <2>2. request[c] \in Requests(version)
    BY <1>1
  <2> QED
    BY <2>1, <2>2 DEF Requests
<1>4. ASSUME NEW e \in Friend, request'[c].pc = "find"
      PROVE  \/ Later(e, request[c].ver)'
             \/ e \in request'[c].gone /\ e \notin request'[c].changed /\ ~Present(e)'
             \/ e \in request'[c].changed /\ e \notin request'[c].gone /\ Present(e)'
             \/ /\ e \notin request'[c].gone \cup request'[c].changed
                /\ device'[c].copy[e] = View(e)'
  <2>1. (Present(e)' <=> Present(e)) /\ View(e)' = View(e)
                     /\ (Unlogged(e)' <=> Unlogged(e)) /\ (Untold(e)' <=> Untold(e))
    BY <1>2, ListKeptFacts DEF ListKept
  <2>2. CASE Unlogged(e) \/ Untold(e)
    BY <2>1, <2>2 DEF Later
  <2>3. CASE ~Unlogged(e) /\ ~Untold(e) /\ e \in Newer(c)
    <3>1. logs[e].ver > 0
      BY <1>1, <2>3 DEF Newer, TypeOK
    <3>2. ~Misstated(e)
      BY <2>3 DEF Untold, LogInv, LogTells
    <3>3. logs[e].state = "delete" <=> ~Present(e)
      BY <3>1, <3>2 DEF LogInv, Misstated
    <3>4. e \in gone <=> logs[e].state = "delete"
      BY <2>3
    <3>5. e \in rest <=> logs[e].state # "delete"
      BY <2>3
    <3> HIDE DEF gone, rest
    <3> QED
      BY <1>3, <1>4, <2>1, <3>3, <3>4, <3>5
  <2>4. CASE ~Unlogged(e) /\ ~Untold(e) /\ e \notin Newer(c)
    <3>1. ~(logs[e].ver > device[c].ver)
      BY <2>4 DEF Newer, TypeOK
    <3>2. device[c].copy[e] = View(e)
      BY <1>1, <1>2, <2>4, <3>1 DEF NothingMissed
    <3>3. e \notin gone \cup rest
      BY <2>4
    <3> HIDE DEF gone, rest
    <3> QED
      BY <1>2, <1>3, <1>4, <2>1, <3>2, <3>3
  <2> QED
    BY <2>2, <2>3, <2>4
<1> HIDE DEF gone, rest
<1>5. /\ request'[c].pc \in {"query", "find", "reply"} => device'[c].ver > 0
      /\ request'[c].pc \in {"find", "reply", "full"} => device'[c].ver <= request'[c].ver
      /\ request'[c].pc # "reply"
  BY <1>1, <1>2, <1>3
<1> QED
  BY <1>4, <1>5 DEF AnswerRight

\* The documents that Build reads are as the log says, or will be told of later.
LEMMA FindRight ==
  ASSUME TypeOK, NEW c \in Client, AnswerRight(c), Find(c)
  PROVE  AnswerRight(c)'
<1> DEFINE found == [e \in Friend |-> IF e \in request[c].changed THEN View(e) ELSE 0]
<1>1. UNCHANGED <<device, stamp, logs, writer, blurred, astray>> /\ request[c].pc = "find"
  BY DEF Find, data, strays
<1>2. /\ request'[c].pc = "reply" /\ request'[c].ver = request[c].ver
      /\ request'[c].gone = request[c].gone /\ request'[c].found = found
  <2>1. request'[c] = [request[c] EXCEPT !.pc = "reply", !.changed = {}, !.found = found]
    BY DEF Find, TypeOK
  <2> HIDE DEF found
  <2>2. request[c] \in Requests(version)
    BY DEF TypeOK
  <2> QED
    BY <2>1, <2>2 DEF Requests
<1>3. ASSUME NEW e \in Friend
      PROVE  Later(e, request[c].ver)' \/ Merged(c)'[e] = View(e)'
  <2>1. (Present(e)' <=> Present(e)) /\ View(e)' = View(e)
                     /\ (Unlogged(e)' <=> Unlogged(e)) /\ (Untold(e)' <=> Untold(e))
    BY <1>1, ListKeptFacts DEF ListKept
  <2>2. Later(e, request[c].ver)' <=> Later(e, request[c].ver)
    BY <1>1, <1>2, <2>1 DEF Later
  <2>3. Merged(c)'[e] = IF e \in request[c].gone THEN 0
                        ELSE IF found[e] # 0 THEN found[e] ELSE device[c].copy[e]
    BY <1>1, <1>2 DEF Merged
  <2>4. found[e] = IF e \in request[c].changed THEN View(e) ELSE 0
    OBVIOUS
  <2>5. /\ ~Present(e) => View(e) = 0
        /\ Present(e) => View(e) # 0
    BY Parity DEF Present, View, TypeOK
  <2> HIDE DEF found
  <2> QED
    BY <1>1, <2>1, <2>2, <2>3, <2>4, <2>5 DEF AnswerRight
<1>4. device'[c].ver > 0 /\ device'[c].ver <= request'[c].ver
  BY <1>1, <1>2 DEF AnswerRight
<1> QED
  BY <1>2, <1>3, <1>4 DEF AnswerRight

\* A device that gets its changes, or reads the list, has missed nothing.
LEMMA ReceiveRight ==
  ASSUME TypeOK, ListInv, NEW c \in Client, Receive(c)
  PROVE  NothingMissed' /\ AnswerRight(c)'
<1>0. device \in [Client -> [ver : 0 .. version, copy : [Friend -> Nat]]]
      /\ request \in [Client -> Requests(version)]
  BY DEF TypeOK
<1>1. ListKept
  BY DEF Receive, Apply, ReadAll, ListKept, data, strays
<1>2. \A e \in Friend : (Present(e)' <=> Present(e)) /\ View(e)' = View(e)
                     /\ (Unlogged(e)' <=> Unlogged(e)) /\ (Untold(e)' <=> Untold(e))
  BY <1>1, ListKeptFacts
<1>4. request'[c].pc = "idle"
  BY <1>0 DEF Receive, Apply, ReadAll, NoRequest
<1>5. /\ device'[c].ver = request[c].ver
      /\ \A d \in Client \ {c} : device'[d] = device[d]
  BY <1>0 DEF Receive, Apply, ReadAll
<1>6. ASSUME NEW e \in Friend, device'[c].copy[e] # View(e)'
      PROVE  Later(e, request[c].ver)
  <2>1. CASE ReadAll(c)
    <3>1. device'[c].copy = [f \in Friend |-> View(f)]
      BY <1>0, <2>1 DEF ReadAll
    <3> QED
      BY <1>2, <1>6, <3>1
  <2>2. CASE Apply(c)
    <3>1. device'[c].copy = Merged(c) /\ request[c].pc = "reply"
      BY <1>0, <2>2 DEF Apply
    <3> QED
      BY <1>2, <1>6, <3>1 DEF ListInv, Answers, AnswerRight
  <2> QED
    BY <2>1, <2>2 DEF Receive
<1>7. ASSUME NEW d \in Client, NEW e \in Friend, device'[d].copy[e] # View(e)'
      PROVE  \/ device'[d].ver = 0 \/ logs'[e].ver > device'[d].ver
             \/ Unlogged(e)' \/ Untold(e)'
  <2>1. logs' = logs /\ (Unlogged(e)' <=> Unlogged(e)) /\ (Untold(e)' <=> Untold(e))
    BY <1>1, <1>2 DEF ListKept
  <2>2. CASE d = c
    BY <1>5, <1>6, <1>7, <2>1, <2>2 DEF Later
  <2>3. CASE d # c
    BY <1>2, <1>5, <1>7, <2>1, <2>3 DEF ListInv, NothingMissed
  <2> QED
    BY <2>2, <2>3
<1> QED
  BY <1>4, <1>7 DEF NothingMissed, AnswerRight

\* The requests.
LEMMA RequestRight ==
  ASSUME TypeOK, ListInv, NEW c \in Client, Serve(c) \/ Lose(c)
  PROVE  AnswerRight(c)'
<1>0. /\ request \in [Client -> Requests(version)]
      /\ request[c].ver \in 0 .. version /\ cached \in 0 .. version
  BY DEF TypeOK, Requests
<1>1. AnswerRight(c)
  BY DEF ListInv, Answers
<1>2. CASE Hit(c)
  BY <1>0, <1>2, FirstAnswer DEF Hit
<1>3. CASE Install(c)
  BY <1>0, <1>3, FirstAnswer DEF Install
<1>4. CASE Lock(c)
  <2>1. request'[c].pc = "read"
    BY <1>0, <1>4 DEF Lock, Requests
  <2> QED
    BY <2>1 DEF AnswerRight
<1>5. CASE Fill(c)
  <2>1. request'[c].pc = "install"
    BY <1>0, <1>5 DEF Fill, Requests
  <2> QED
    BY <2>1 DEF AnswerRight
<1>6. CASE Query(c)
  BY <1>1, <1>6, QueryRight DEF ListInv
<1>7. CASE Find(c)
  BY <1>1, <1>7, FindRight
<1>8. CASE Lose(c)
  <2>1. request'[c].pc = "idle"
    BY <1>0, <1>8 DEF Lose, NoRequest
  <2> QED
    BY <2>1 DEF AnswerRight
<1> QED
  BY <1>2, <1>3, <1>4, <1>5, <1>6, <1>7, <1>8 DEF Serve

\* A request's step touches neither the list nor another device's request.
LEMMA RequestAlone ==
  ASSUME TypeOK, NEW c \in Client, Serve(c) \/ Receive(c) \/ Lose(c)
  PROVE  ListKept /\ \A d \in Client \ {c} : device'[d] = device[d] /\ request'[d] = request[d]
<1>1. device \in [Client -> [ver : 0 .. version, copy : [Friend -> Nat]]]
      /\ request \in [Client -> Requests(version)]
  BY DEF TypeOK
<1>2. CASE Hit(c) \/ Install(c)
  BY <1>1, <1>2 DEF Hit, Install, Answer, ListKept, data, strays
<1>3. CASE Lock(c) \/ Fill(c) \/ Find(c) \/ Lose(c)
  BY <1>1, <1>3 DEF Lock, Fill, Find, Lose, ListKept, data, strays
<1>4. CASE Query(c)
  BY <1>1, <1>4 DEF Query, ListKept, data, strays
<1>5. CASE Receive(c)
  BY <1>1, <1>5 DEF Receive, Apply, ReadAll, ListKept, data, strays
<1> QED
  BY <1>2, <1>3, <1>4, <1>5 DEF Serve

LEMMA DeviceMissesNothing ==
  ASSUME TypeOK, ListInv, NEW c \in Client, Serve(c) \/ Receive(c) \/ Lose(c)
  PROVE  LogInv' /\ NothingMissed' /\ Answers'
<1>1. ListKept /\ \A d \in Client \ {c} : device'[d] = device[d] /\ request'[d] = request[d]
  BY RequestAlone
<1>2. LogInv'
  BY <1>1, ListKeptFacts DEF ListInv
<1>3. \A d \in Client \ {c} : AnswerRight(d)'
  BY <1>1, OtherAnswers DEF ListInv, Answers
<1>4. CASE Receive(c)
  BY <1>2, <1>3, <1>4, ReceiveRight DEF Answers
<1>5. CASE Serve(c) \/ Lose(c)
  <2>1. UNCHANGED device
    BY <1>5 DEF Serve, Lose, Hit, Lock, Fill, Install, Query, Find
  <2>2. NothingMissed'
    BY <1>1, <2>1, DeviceKept DEF ListInv
  <2> QED
    BY <1>2, <1>3, <1>5, <2>2, RequestRight DEF Answers
<1> QED
  BY <1>4, <1>5

\* No step misses a change.
LEMMA StepListInv == TypeOK /\ ListInv /\ [Next]_vars => ListInv'
<1> SUFFICES ASSUME TypeOK, ListInv, [Next]_vars PROVE ListInv'
  OBVIOUS
<1>1. Calls'
  BY StepCalls DEF ListInv
<1>2. CASE CallStep
  <2>1. Told /\ LogInv'
    BY <1>2, StepTold DEF ListInv
  <2>2. UNCHANGED <<device, request>>
    <3>1. ASSUME NEW w \in Writer, Advance(w) \/ Crash(w) PROVE UNCHANGED <<device, request>>
      BY <3>1 DEF Advance, WriteLog, MissLog, InitLog, InitDuplicate, DelCache, DelCacheTx, Commit,
                  Crash
    <3>2. ASSUME NEW w \in Writer, NEW e \in Friend, NEW op \in Changes[e],
                 WriteList(w, op, e) \/ OpenTx(w, op, e)
          PROVE  UNCHANGED <<device, request>>
      BY <3>2 DEF WriteList, OpenTx
    <3>3. ASSUME NEW w \in Writer, NEW e \in Friend, ChangeProfile(w, e)
          PROVE  UNCHANGED <<device, request>>
      BY <3>3 DEF ChangeProfile
    <3> QED
      BY <1>2, <3>1, <3>2, <3>3 DEF CallStep
  <2> QED
    BY <1>1, <2>1, <2>2, CallMissesNothing DEF ListInv
<1>3. CASE \E c \in Client : Serve(c) \/ Receive(c) \/ Lose(c)
  BY <1>1, <1>3, DeviceMissesNothing DEF ListInv
<1>4. CASE Expire \/ UNCHANGED vars
  <2>1. ListKept /\ UNCHANGED <<device, request>>
    BY <1>4 DEF Expire, vars, data, strays, ListKept
  <2>2. \A d \in Client : AnswerRight(d)'
    BY <2>1, OtherAnswers DEF ListInv, Answers
  <2> QED
    BY <1>1, <2>1, <2>2, ListKeptFacts, DeviceKept DEF ListInv, Answers
<1> QED
  BY <1>2, <1>3, <1>4 DEF Next, CallStep

LEMMA InitListInv == Init => ListInv
<1> SUFFICES ASSUME Init PROVE ListInv
  OBVIOUS
<1>1. Calls
  BY InitTypeOK
<1>2. \A w \in Writer : ~Logging(w)
  BY DEF Init, NoCall, Logging
<1>3. \A e \in Friend : logs[e].ver = 0 /\ ~Misstated(e)
  BY DEF Init, NoEntry, Misstated, Present
<1>4. \A c \in Client : request[c].pc = "idle" /\ device[c].ver = 0
  BY DEF Init, NoRequest
<1>5. LogInv
  BY <1>2, <1>3 DEF LogInv, LogTells
<1>6. NothingMissed /\ Answers
  BY <1>4 DEF NothingMissed, Answers, AnswerRight
<1> QED
  BY <1>1, <1>5, <1>6 DEF ListInv

\* Types and the list's invariant, together.
LEMMA ListInvariant == Spec => [](TypeOK /\ ListInv)
<1>1. Init => TypeOK /\ ListInv
  BY InitTypeOK, InitListInv
<1>2. TypeOK /\ ListInv /\ [Next]_vars => (TypeOK /\ ListInv)'
  BY StepTypeOK, StepListInv DEF ListInv
<1> QED
  BY <1>1, <1>2, PTL DEF Spec

\* A device whose copy differs from the list will be told, whatever answers are
\* lost, except of a friend whose last change the log does not tell, as its call
\* died or other entries misstate it (NothingMissed): an answer that is being
\* built is right or its version is older than what it leaves out.
THEOREM NothingIsMissed == Spec => []NothingMissed
<1>1. TypeOK /\ ListInv => NothingMissed
  BY DEF ListInv
<1> QED
  BY <1>1, ListInvariant, PTL

\* No device goes back to an older version (VersionForward).
THEOREM VersionGoesForward == Spec => VersionForward
<1>1. TypeOK /\ ListInv /\ [Next]_vars => [\A c \in Client : device'[c].ver >= device[c].ver]_vars
  <2> SUFFICES ASSUME TypeOK, ListInv, Next PROVE \A c \in Client : device'[c].ver >= device[c].ver
    OBVIOUS
  <2>0. device \in [Client -> [ver : 0 .. version, copy : [Friend -> Nat]]] /\ version \in Nat
        /\ request \in [Client -> Requests(version)]
    BY DEF TypeOK
  <2>1. ASSUME NEW c \in Client, Receive(c) PROVE \A d \in Client : device'[d].ver >= device[d].ver
    <3>1. device'[c].ver = request[c].ver /\ request[c].pc \in {"reply", "full"}
      BY <2>0, <2>1 DEF Receive, Apply, ReadAll
    <3>2. \A d \in Client \ {c} : device'[d] = device[d]
      BY <2>0, <2>1 DEF Receive, Apply, ReadAll
    <3>3. request[c].ver \in Nat /\ \A d \in Client : device[d].ver \in Nat
      BY <2>0 DEF Requests
    <3>4. device[c].ver <= request[c].ver
      BY <3>1 DEF ListInv, Answers, AnswerRight
    <3> QED
      BY <3>1, <3>2, <3>3, <3>4
  <2>2. CASE UNCHANGED device
    BY <2>0, <2>2
  <2>3. ASSUME NEW c \in Client, Serve(c) \/ Lose(c) PROVE UNCHANGED device
    BY <2>3 DEF Serve, Lose, Hit, Lock, Fill, Install, Query, Find
  <2>4. ASSUME CallStep \/ Expire PROVE UNCHANGED device
    <3>1. ASSUME NEW w \in Writer, Advance(w) \/ Crash(w) PROVE UNCHANGED device
      BY <3>1 DEF Advance, WriteLog, MissLog, InitLog, InitDuplicate, DelCache, DelCacheTx, Commit,
                  Crash
    <3>2. ASSUME NEW w \in Writer, NEW e \in Friend, NEW op \in Changes[e],
                 WriteList(w, op, e) \/ OpenTx(w, op, e)
          PROVE  UNCHANGED device
      BY <3>2 DEF WriteList, OpenTx
    <3>3. ASSUME NEW w \in Writer, NEW e \in Friend, ChangeProfile(w, e) PROVE UNCHANGED device
      BY <3>3 DEF ChangeProfile
    <3> QED
      BY <2>4, <3>1, <3>2, <3>3 DEF CallStep, Expire
  <2> QED
    BY <2>1, <2>2, <2>3, <2>4 DEF Next, CallStep
<1> QED
  BY <1>1, ListInvariant, PTL DEF Spec, VersionForward

-----------------------------------------------------------------------------
(* The cached version.                                                     *)

LEMMA InitCacheInv == Init => CacheInv
<1> SUFFICES ASSUME Init PROVE CacheInv
  OBVIOUS
<1>1. cached = 0 /\ filler = None /\ version = 0 /\ \A c \in Client : request[c].pc = "idle"
  BY DEF Init, NoRequest
<1> QED
  BY <1>1 DEF CacheInv

\* Steps of calls.
LEMMA CallCacheInv ==
  ASSUME TypeOK, Calls, CacheInv, CallStep
  PROVE  CacheInv'
<1>0. writer \in [Writer -> CallSet] /\ LoggedCall.pc = "cache" /\ NoCall.pc = "idle"
  BY DEF TypeOK, LoggedCall, NoCall
<1> USE DEF data, cache
<1>1. ASSUME NEW w \in Writer, WriteLog(w) \/ InitLog(w) PROVE CacheInv'
  <2>1. writer'[w].pc = "cache" /\ UNCHANGED <<cached, filler, request>>
    BY <1>0, <1>1 DEF WriteLog, InitLog
  <2> QED
    BY <2>1 DEF CacheInv
<1>2. ASSUME NEW w \in Writer, DelCache(w) \/ DelCacheTx(w) PROVE CacheInv'
  <2>1. cached' = 0 /\ filler' = None /\ UNCHANGED <<version, request>>
    BY <1>2 DEF DelCache, DelCacheTx, EntryDeleted
  <2> QED
    BY <2>1 DEF CacheInv
<1>3. ASSUME NEW w \in Writer, Commit(w) PROVE CacheInv'
  <2>1. replicaSet' /\ UNCHANGED <<cached, filler, request>>
    BY <1>3 DEF Commit, Calls, Open, InTransaction
  <2> QED
    BY <2>1 DEF CacheInv
<1>4. ASSUME UNCHANGED <<replicaSet, cached, filler, version, request>>,
             undeleted' \/ ((\A w \in Writer : writer'[w].pc # "cache") =>
                              undeleted' = undeleted /\ \A w \in Writer : writer[w].pc # "cache")
      PROVE  CacheInv'
  BY <1>4 DEF CacheInv
<1>5. ASSUME NEW w \in Writer, MissLog(w) \/ InitDuplicate(w) PROVE CacheInv'
  <2>1. writer[w].pc # "cache" /\ \A v \in Writer \ {w} : writer'[v] = writer[v]
    BY <1>0, <1>5 DEF MissLog, InitDuplicate, Goto
  <2>2. UNCHANGED <<data, cache, request>>
    BY <1>5 DEF MissLog, InitDuplicate
  <2> QED
    BY <1>4, <2>1, <2>2
<1>6. ASSUME NEW w \in Writer, Crash(w) PROVE CacheInv'
  <2>1. /\ \A v \in Writer \ {w} : writer'[v] = writer[v]
        /\ undeleted' = (undeleted \/ writer[w].pc = "cache")
        /\ UNCHANGED <<data, cached, filler, request>>
    BY <1>0, <1>6 DEF Crash
  <2>2. undeleted \in BOOLEAN
    BY DEF TypeOK
  <2>3. CASE writer[w].pc = "cache"
    BY <1>4, <2>1, <2>3
  <2>4. CASE writer[w].pc # "cache"
    <3>1. undeleted' = undeleted
      BY <2>1, <2>2, <2>4
    <3> QED
      BY <1>4, <2>1, <2>4, <3>1
  <2> QED
    BY <2>3, <2>4
<1>8. ASSUME NEW w \in Writer, NEW e \in Friend, ChangeProfile(w, e) PROVE CacheInv'
  <2>1. writer[w].pc = "idle" /\ \A v \in Writer \ {w} : writer'[v] = writer[v]
    BY <1>0, <1>8 DEF ChangeProfile, Begin
  <2>2. UNCHANGED <<replicaSet, version, cache, request>>
    BY <1>8 DEF ChangeProfile
  <2> QED
    BY <1>4, <2>1, <2>2
<1>7. ASSUME NEW w \in Writer, NEW e \in Friend, NEW op \in Changes[e],
             WriteList(w, op, e) \/ OpenTx(w, op, e)
      PROVE  CacheInv'
  <2>1. writer[w].pc = "idle" /\ \A v \in Writer \ {w} : writer'[v] = writer[v]
    BY <1>0, <1>7 DEF WriteList, OpenTx, Begin
  <2>2. UNCHANGED <<replicaSet, version, cache, request>>
    BY <1>7 DEF WriteList, OpenTx
  <2> QED
    BY <1>4, <2>1, <2>2
<1> QED
  BY <1>1, <1>2, <1>3, <1>5, <1>6, <1>7, <1>8 DEF CallStep, Advance

\* Steps of requests.
LEMMA DeviceCacheInv ==
  ASSUME TypeOK, CacheInv, NEW c \in Client, Serve(c) \/ Receive(c) \/ Lose(c)
  PROVE  CacheInv'
<1>0. /\ request \in [Client -> Requests(version)] /\ version \in Nat
      /\ cached \in 0 .. version /\ filler \in Client \cup {None}
  BY DEF TypeOK
<1>1. \A d \in Client \ {c} : request'[d] = request[d]
  BY RequestAlone
<1>2. UNCHANGED <<replicaSet, undeleted, writer>>
  BY DEF Serve, Receive, Lose, Hit, Lock, Fill, Install, Query, Find, Apply, ReadAll, data, cache
<1>3. CASE Hit(c) \/ Query(c) \/ Find(c) \/ Receive(c) \/ Lose(c)
  <2>1. UNCHANGED <<cached, filler, version>> /\ request[c].pc \notin {"read", "install"}
    BY <1>3 DEF Hit, Query, Find, Receive, Apply, ReadAll, Lose, data, cache
  <2>2. request'[c].pc # "install"
    <3>1. CASE Hit(c)
      BY <1>0, <3>1, FirstAnswer DEF Hit
    <3>2. CASE Query(c)
      <4> DEFINE gone == {e \in Newer(c) \ {Sort} : logs[e].state = "delete"}
                 rest == Newer(c) \ (gone \cup {Sort})
      <4>1. \/ request'[c] = [request[c] EXCEPT !.pc = "full", !.ver = version]
            \/ request'[c] = [request[c] EXCEPT !.pc = "find", !.ver = version, !.gone = gone,
                                                !.changed = rest]
        BY <1>0, <3>2 DEF Query
      <4> HIDE DEF gone, rest
      <4> QED
        BY <1>0, <4>1 DEF Requests
    <3>3. CASE Find(c)
      <4> DEFINE found == [e \in Friend |-> IF e \in request[c].changed THEN View(e) ELSE 0]
      <4>1. request'[c] = [request[c] EXCEPT !.pc = "reply", !.changed = {}, !.found = found]
        BY <1>0, <3>3 DEF Find
      <4> HIDE DEF found
      <4> QED
        BY <1>0, <4>1 DEF Requests
    <3>4. CASE Receive(c) \/ Lose(c)
      BY <1>0, <3>4 DEF Receive, Apply, ReadAll, Lose, NoRequest
    <3> QED
      BY <1>3, <3>1, <3>2, <3>3, <3>4
  <2>3. filler # None => filler \in Client \ {c}
    BY <1>0, <2>1 DEF CacheInv
  <2> QED
    BY <1>1, <1>2, <2>1, <2>2, <2>3 DEF CacheInv
<1>4. CASE Lock(c)
  <2>1. /\ request'[c].pc = "read" /\ cached = 0 /\ filler' = c
        /\ UNCHANGED <<cached, version>>
    BY <1>0, <1>4 DEF Lock, data, Requests
  <2> QED
    BY <1>1, <1>2, <2>1 DEF CacheInv
<1>5. CASE Fill(c)
  <2>1. /\ request'[c].pc = "install" /\ request'[c].ver = version'
        /\ version' = IF version = 0 THEN 1 ELSE version
        /\ UNCHANGED <<cached, filler>>
    BY <1>0, <1>5 DEF Fill, cache, Requests
  <2>2. \A d \in Client : request'[d].pc = "install" => request'[d].ver > 0
    BY <1>0, <1>1, <2>1 DEF CacheInv
  <2>3. filler # None => request'[filler].pc \in {"read", "install"}
    BY <1>0, <1>1, <2>1 DEF CacheInv
  <2>4. ASSUME ~replicaSet, ~undeleted, \A w \in Writer : writer[w].pc # "cache"
        PROVE  /\ cached \in {0, version'}
               /\ filler # None /\ request'[filler].pc = "install" => request'[filler].ver = version'
    <3>1. cached \in {0, version}
      BY <2>4 DEF CacheInv
    <3>2. ASSUME filler # None, filler # c, request[filler].pc = "install"
          PROVE  request[filler].ver = version /\ version > 0
      BY <1>0, <2>4, <3>2 DEF CacheInv
    <3> QED
      BY <1>0, <1>1, <2>1, <3>1, <3>2
  <2> QED
    BY <1>2, <2>1, <2>2, <2>3, <2>4 DEF CacheInv
<1>6. CASE Install(c)
  <2>1. /\ request[c].pc = "install" /\ UNCHANGED version
        /\ IF filler = c THEN cached' = request[c].ver /\ filler' = None
           ELSE UNCHANGED <<cached, filler>>
    BY <1>6 DEF Install, data
  <2>2. request[c].ver \in 0 .. version
    BY <1>0 DEF Requests
  <2>3. request'[c].pc \notin {"read", "install"}
    BY <1>6, <2>2, FirstAnswer DEF Install
  <2>4. CASE filler = c
    <3>1. filler # None
      BY <2>4
    <3> QED
      BY <1>1, <1>2, <2>1, <2>3, <2>4, <3>1 DEF CacheInv
  <2>5. CASE filler # c
    BY <1>0, <1>1, <1>2, <2>1, <2>3, <2>5 DEF CacheInv
  <2> QED
    BY <2>4, <2>5
<1> QED
  BY <1>3, <1>4, <1>5, <1>6 DEF Serve

\* The lock of the entry, and its deletion, keep out what is no longer newest.
LEMMA StepCacheInv == TypeOK /\ Calls /\ CacheInv /\ [Next]_vars => CacheInv'
<1> SUFFICES ASSUME TypeOK, Calls, CacheInv, [Next]_vars PROVE CacheInv'
  OBVIOUS
<1>1. CASE Expire
  <2>1. cached' = 0 /\ filler = None /\ UNCHANGED <<filler, version, request>>
    BY <1>1 DEF Expire, data, CacheInv
  <2> QED
    BY <2>1 DEF CacheInv
<1>2. CASE UNCHANGED vars
  BY <1>2 DEF vars, data, cache, CacheInv
<1> QED
  BY <1>1, <1>2, CallCacheInv, DeviceCacheInv DEF Next, CallStep

\* Without transactions a cached version that no call has still to delete is the
\* newest one (CacheFresh): who fills the entry has read it under the lock that
\* every deletion takes away.
THEOREM CacheIsFresh == Spec => []CacheFresh
<1>1. Spec => [](TypeOK /\ Calls /\ CacheInv)
  BY InitTypeOK, InitCacheInv, StepTypeOK, StepCalls, StepCacheInv, PTL DEF Spec
<1>2. TypeOK /\ Calls /\ CacheInv => CacheFresh
  BY DEF CacheInv, CacheFresh
<1> QED
  BY <1>1, <1>2, PTL

=============================================================================
