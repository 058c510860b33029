------------------------------- MODULE ChatServer -------------------------------
(***************************************************************************)
(* The chat server, example/tool/chatserver.cc, between its clients, the   *)
(* user and offline_message tables and Redis.                              *)
(*                                                                         *)
(* A connection's callbacks run one at a time in its IO thread, those of   *)
(* different connections in parallel.  The workers pop _sendMsg, ask the   *)
(* database whether the addressee is online, and publish to Redis or store *)
(* a row.  Redis hands what is published to a subscribed channel back to   *)
(* the one observer thread, which sends it on the connection _userMap      *)
(* holds.  A step ends where a thread calls the database or Redis, or      *)
(* gives up a mutex.                                                       *)
(***************************************************************************)
EXTENDS Naturals, Sequences, FiniteSets, Functions

CONSTANTS Users, Conns, UserOf, Msgs, Addressee,  \* as in Delivery
          NoConn,      \* no entry in _userMap
          Workers,     \* the threads of the constructor's loop
          DbFails,     \* whether a MySQL statement may fail
          MaxCrashes   \* bound: how often the server is killed and restarted

ASSUME ChatAssumption ==
  /\ UserOf \in [Conns -> Users]
  /\ Addressee \in [Msgs -> Users]
  /\ NoConn \notin Conns
  /\ DbFails \in BOOLEAN
  /\ MaxCrashes \in Nat

Login == "login"   \* the method-0 message a client sends first
ASSUME LoginAssumption == Login \notin Msgs

VARIABLES
  peer,        \* each connection's client: "fresh", "open" or "gone"
  inbox,       \* the frames of each connection the server has not handled
  handler,     \* where the callbacks of each connection are
  userMap,     \* _userMap
  online,      \* the online column of the user table
  offline,     \* the messages in the rows of offline_message
  sendMsg,     \* _sendMsg
  worker,      \* where each worker is
  task,        \* the message each worker has popped
  subLink,     \* SUBSCRIBE and UNSUBSCRIBE commands on their way to Redis
  subscribed,  \* the channels Redis has the server subscribed to
  pushes,      \* published messages on their way to the observer thread
  sent,        \* the messages clients have sent
  received,    \* the messages each client connection has been sent
  faulted,     \* users who lost a status, a subscription or a message to a
               \* failed statement or to two threads in one Redis context
  crashes

ioVars == <<peer, inbox, handler, userMap>>
workVars == <<sendMsg, worker, task>>
redisVars == <<subLink, subscribed, pushes>>
dbVars == <<online, offline>>
vars == <<ioVars, workVars, redisVars, dbVars, sent, received, faulted, crashes>>

HandlerStates == {"ready", "subscribe", "online", "offline", "erase", "closed"}
WorkerStates == {"pop", "query", "publish", "store", "hung"}
Commands == [op : {"sub", "unsub"}, user : Users]

TypeOK ==
  /\ peer \in [Conns -> {"fresh", "open", "gone"}]
  /\ inbox \in [Conns -> Seq(Msgs \cup {Login})]
  /\ handler \in [Conns -> HandlerStates]
  /\ userMap \in [Users -> Conns \cup {NoConn}]
  /\ online \in [Users -> {0, 1}]
  /\ offline \in Seq(Msgs)
  /\ sendMsg \in Seq(Msgs)
  /\ worker \in [Workers -> WorkerStates]
  /\ task \in [Workers -> SUBSET Msgs]
  /\ subLink \in Seq(Commands)
  /\ subscribed \in SUBSET Users
  /\ pushes \in Seq(Msgs)
  /\ sent \in SUBSET Msgs
  /\ received \in [Conns -> Seq(Msgs)]
  /\ faulted \in SUBSET Users
  /\ crashes \in 0..MaxCrashes

Init ==
  /\ peer = [c \in Conns |-> "fresh"]
  /\ inbox = [c \in Conns |-> <<>>]
  /\ handler = [c \in Conns |-> "ready"]
  /\ userMap = [u \in Users |-> NoConn]
  /\ online = [u \in Users |-> 0]
  /\ offline = <<>>
  /\ sendMsg = <<>>
  /\ worker = [w \in Workers |-> "pop"]
  /\ task = [w \in Workers |-> {}]
  /\ subLink = <<>>
  /\ subscribed = {}
  /\ pushes = <<>>
  /\ sent = {}
  /\ received = [c \in Conns |-> <<>>]
  /\ faulted = {}
  /\ crashes = 0

-----------------------------------------------------------------------------
(* The clients *)

(* RpcClient::OnConnection: the client connects and sends its login frame. *)
Connect(c) ==
  /\ peer[c] = "fresh"
  /\ peer' = [peer EXCEPT ![c] = "open"]
  /\ inbox' = [inbox EXCEPT ![c] = <<Login>>]
  /\ UNCHANGED <<handler, userMap, workVars, redisVars, dbVars, sent, received,
                 faulted, crashes>>

(* RpcClient::sendMessage on a connection that is up. *)
ClientSends(c, m) ==
  /\ peer[c] = "open"
  /\ m \notin sent
  /\ sent' = sent \cup {m}
  /\ inbox' = [inbox EXCEPT ![c] = Append(@, m)]
  /\ UNCHANGED <<peer, handler, userMap, workVars, redisVars, dbVars, received,
                 faulted, crashes>>

(* The client goes away: closed in order, so that the server reads what was
   sent before it sees the end, or reset, and unread frames are lost. *)
ClientGone(c) ==
  /\ peer[c] = "open"
  /\ peer' = [peer EXCEPT ![c] = "gone"]
  /\ \/ UNCHANGED inbox
     \/ inbox' = [inbox EXCEPT ![c] = <<>>]
  /\ UNCHANGED <<handler, userMap, workVars, redisVars, dbVars, sent, received,
                 faulted, crashes>>

-----------------------------------------------------------------------------
(* The database and Redis, as the server sees them *)

(* updateStatus and insertOffline ignore a failed statement. *)
UpdateStatus(u, s) ==
  \/ online' = [online EXCEPT ![u] = s] /\ UNCHANGED faulted
  \/ DbFails /\ faulted' = faulted \cup {u} /\ UNCHANGED online

(* A mutant: OnConnection takes _mmutex for the map only. *)
MutexFree_NotHeld == TRUE

(* OnConnection holds _mmutex from the lookup to the unsubscribe. *)
MutexFree == \A c \in Conns : handler[c] \notin {"offline", "erase"}

(* redisAppendCommand on _subcribe_context, which IO threads share without a
   lock: a command written while another one is being written may be lost. *)
Writing == {c \in Conns : handler[c] \in {"subscribe", "erase"}}
WriteCommand(c, op, u) ==
  \/ subLink' = Append(subLink, [op |-> op, user |-> u]) /\ UNCHANGED faulted
  \/ Writing # {c} /\ faulted' = faulted \cup {u} /\ UNCHANGED subLink

(* Redis takes the next command off the subscribe connection. *)
RedisApplies ==
  /\ subLink # <<>>
  /\ subLink' = Tail(subLink)
  /\ subscribed' = IF Head(subLink).op = "sub"
                   THEN subscribed \cup {Head(subLink).user}
                   ELSE subscribed \ {Head(subLink).user}
  /\ UNCHANGED <<ioVars, workVars, dbVars, pushes, sent, received, faulted, crashes>>

-----------------------------------------------------------------------------
(* OnMessage and OnConnection, in the IO thread of connection c *)

(* A login frame: the map entry is written under _mmutex. *)
HandleLogin(c) ==
  /\ handler[c] = "ready"
  /\ inbox[c] # <<>> /\ Head(inbox[c]) = Login
  /\ MutexFree
  /\ inbox' = [inbox EXCEPT ![c] = Tail(@)]
  /\ userMap' = [userMap EXCEPT ![UserOf[c]] = c]
  /\ handler' = [handler EXCEPT ![c] = "subscribe"]
  /\ UNCHANGED <<peer, workVars, redisVars, dbVars, sent, received, faulted, crashes>>

(* Then, with no lock, _redis.subscribe ... *)
LoginSubscribe(c) ==
  /\ handler[c] = "subscribe"
  /\ WriteCommand(c, "sub", UserOf[c])
  /\ handler' = [handler EXCEPT ![c] = "online"]
  /\ UNCHANGED <<peer, inbox, userMap, workVars, dbVars, subscribed, pushes, sent,
                 received, crashes>>

(* A mutant: the status is left as it was. *)
LoginOnline_Forgotten(c) ==
  /\ handler[c] = "online"
  /\ handler' = [handler EXCEPT ![c] = "ready"]
  /\ UNCHANGED <<peer, inbox, userMap, workVars, redisVars, dbVars, sent, received,
                 faulted, crashes>>

(* ... and updateStatus(userid, 1). *)
LoginOnline(c) ==
  /\ handler[c] = "online"
  /\ UpdateStatus(UserOf[c], 1)
  /\ handler' = [handler EXCEPT ![c] = "ready"]
  /\ UNCHANGED <<peer, inbox, userMap, workVars, redisVars, offline, sent, received,
                 crashes>>

(* A mutant: every frame is taken for a chat message once the login is done. *)
HandleChat_AnyMethod(c) ==
  /\ handler[c] = "ready"
  /\ inbox[c] # <<>>
  /\ inbox' = [inbox EXCEPT ![c] = Tail(@)]
  /\ sendMsg' = Append(sendMsg, Head(inbox[c]))
  /\ UNCHANGED <<peer, handler, userMap, worker, task, redisVars, dbVars, sent,
                 received, faulted, crashes>>

(* A chat message: into _sendMsg, under _qmutex. *)
HandleChat(c) ==
  /\ handler[c] = "ready"
  /\ inbox[c] # <<>> /\ Head(inbox[c]) # Login
  /\ inbox' = [inbox EXCEPT ![c] = Tail(@)]
  /\ sendMsg' = Append(sendMsg, Head(inbox[c]))
  /\ UNCHANGED <<peer, handler, userMap, worker, task, redisVars, dbVars, sent,
                 received, faulted, crashes>>

(* The end of the connection: _mmutex is taken and the map searched for the
   connection.  The id it is found under is the one its client logged in with;
   the loop keeps a copy of it (a.first). *)
HandleDown(c) ==
  /\ peer[c] = "gone" /\ handler[c] = "ready" /\ inbox[c] = <<>>
  /\ MutexFree
  /\ handler' = [handler EXCEPT ![c] = IF userMap[UserOf[c]] = c THEN "offline"
                                                ELSE "closed"]
  /\ UNCHANGED <<peer, inbox, userMap, workVars, redisVars, dbVars, sent, received,
                 faulted, crashes>>

DownOffline(c) ==
  /\ handler[c] = "offline"
  /\ UpdateStatus(UserOf[c], 0)
  /\ handler' = [handler EXCEPT ![c] = "erase"]
  /\ UNCHANGED <<peer, inbox, userMap, workVars, redisVars, offline, sent, received,
                 crashes>>

DownErase(c) ==
  /\ handler[c] = "erase"
  /\ userMap' = [userMap EXCEPT ![UserOf[c]] = NoConn]
  /\ WriteCommand(c, "unsub", UserOf[c])
  /\ handler' = [handler EXCEPT ![c] = "closed"]
  /\ UNCHANGED <<peer, inbox, workVars, dbVars, subscribed, pushes, sent, received,
                 crashes>>

-----------------------------------------------------------------------------
(* The workers *)

(* Mutants: front() without pop(), and `while(_stop)' with _stop initially
   false. *)
Pop_KeepsFront(w) ==
  /\ worker[w] = "pop"
  /\ sendMsg # <<>>
  /\ task' = [task EXCEPT ![w] = {Head(sendMsg)}]
  /\ worker' = [worker EXCEPT ![w] = "query"]
  /\ UNCHANGED <<ioVars, sendMsg, redisVars, dbVars, sent, received, faulted, crashes>>
Pop_Stopped(w) == FALSE /\ UNCHANGED vars

(* The worker waits for _sendMsg not to be empty and takes its front. *)
Pop(w) ==
  /\ worker[w] = "pop"
  /\ sendMsg # <<>>
  /\ task' = [task EXCEPT ![w] = {Head(sendMsg)}]
  /\ sendMsg' = Tail(sendMsg)
  /\ worker' = [worker EXCEPT ![w] = "query"]
  /\ UNCHANGED <<ioVars, redisVars, dbVars, sent, received, faulted, crashes>>

(* getOnline: -1 when the query fails, which counts as offline. *)
Query(w) ==
  /\ worker[w] = "query"
  /\ \E m \in task[w] :
       \/ /\ online[Addressee[m]] = 1
          /\ worker' = [worker EXCEPT ![w] = "publish"]
          /\ UNCHANGED faulted
       \/ /\ online[Addressee[m]] # 1
          /\ worker' = [worker EXCEPT ![w] = "store"]
          /\ UNCHANGED faulted
       \/ /\ DbFails
          /\ worker' = [worker EXCEPT ![w] = "store"]
          /\ faulted' = faulted \cup {Addressee[m]}
  /\ UNCHANGED <<ioVars, sendMsg, task, redisVars, dbVars, sent, received, crashes>>

(* Redis's reply ends the call that waits for it.  Workers share
   _publish_context without a lock: of two that wait, either may read the reply
   to come, and the other one hangs until a later publish. *)
TakesReply(w) ==
  \/ worker' = [worker EXCEPT ![w] = "pop"]
  \/ \E v \in Workers \ {w} :
       \/ worker[v] = "publish" /\ worker' = [worker EXCEPT ![w] = "hung"]
       \/ worker[v] = "hung" /\ worker' = [worker EXCEPT ![w] = "hung", ![v] = "pop"]

(* Redis::publish.  A message published to a channel without a subscriber is
   gone.  The channel is the text of a string that is gone when the command is
   written: it may still be there, or be something nobody has subscribed to. *)
Publish(w) ==
  /\ worker[w] = "publish"
  /\ \E m \in task[w] :
       \/ /\ Addressee[m] \in subscribed
          /\ pushes' = Append(pushes, m)
          /\ UNCHANGED faulted
       \/ /\ Addressee[m] \notin subscribed
          /\ UNCHANGED <<pushes, faulted>>
       \/ /\ faulted' = faulted \cup {Addressee[m]}
          /\ UNCHANGED pushes
  /\ TakesReply(w)
  /\ task' = [task EXCEPT ![w] = {}]
  /\ UNCHANGED <<ioVars, sendMsg, subLink, subscribed, dbVars, sent, received, crashes>>

(* insertOffline. *)
Store(w) ==
  /\ worker[w] = "store"
  /\ \E m \in task[w] :
       \/ /\ offline' = Append(offline, m)
          /\ UNCHANGED faulted
       \/ /\ DbFails
          /\ faulted' = faulted \cup {Addressee[m]}
          /\ UNCHANGED offline
  /\ task' = [task EXCEPT ![w] = {}]
  /\ worker' = [worker EXCEPT ![w] = "pop"]
  /\ UNCHANGED <<ioVars, sendMsg, redisVars, online, sent, received, crashes>>

-----------------------------------------------------------------------------
(* The observer thread and restarts *)

(* HandleRedisMessage: under _mmutex, on the connection the map holds now. *)
Observe ==
  /\ pushes # <<>>
  /\ MutexFree
  /\ pushes' = Tail(pushes)
  /\ LET m == Head(pushes)
         c == userMap[Addressee[m]]
     IN \/ /\ c # NoConn /\ peer[c] = "open"
           /\ received' = [received EXCEPT ![c] = Append(@, m)]
        \/ /\ c = NoConn
           /\ UNCHANGED received
        \/ /\ c # NoConn /\ peer[c] = "gone"
           /\ UNCHANGED received
  /\ UNCHANGED <<ioVars, workVars, subLink, subscribed, dbVars, sent, faulted, crashes>>

(* bin/stop.sh and bin/start.sh: everything but the tables is gone. *)
Restart ==
  /\ crashes < MaxCrashes
  /\ crashes' = crashes + 1
  /\ peer' = [c \in Conns |-> IF peer[c] = "open" THEN "gone" ELSE peer[c]]
  /\ inbox' = [c \in Conns |-> <<>>]
  /\ handler' = [c \in Conns |-> IF peer[c] = "fresh" THEN "ready" ELSE "closed"]
  /\ userMap' = [u \in Users |-> NoConn]
  /\ sendMsg' = <<>>
  /\ worker' = [w \in Workers |-> "pop"]
  /\ task' = [w \in Workers |-> {}]
  /\ subLink' = <<>>
  /\ subscribed' = {}
  /\ pushes' = <<>>
  /\ UNCHANGED <<dbVars, sent, received, faulted>>

-----------------------------------------------------------------------------
IOThread(c) == \/ HandleLogin(c) \/ LoginSubscribe(c) \/ LoginOnline(c)
               \/ HandleChat(c)
               \/ HandleDown(c) \/ DownOffline(c) \/ DownErase(c)

WorkerThread(w) == Pop(w) \/ Query(w) \/ Publish(w) \/ Store(w)

Next ==
  \/ \E c \in Conns : \/ Connect(c) \/ ClientGone(c) \/ IOThread(c)
                      \/ \E m \in Msgs : ClientSends(c, m)
  \/ \E w \in Workers : WorkerThread(w)
  \/ RedisApplies
  \/ Observe
  \/ Restart

Spec == Init /\ [][Next]_vars

(* Every thread of the server is scheduled and Redis answers; clients do as
   they like, and nothing forces a restart. *)
Fairness ==
  /\ \A c \in Conns : WF_vars(IOThread(c))
  /\ \A w \in Workers : WF_vars(WorkerThread(w))
  /\ WF_vars(RedisApplies)
  /\ WF_vars(Observe)

FairSpec == Spec /\ Fairness

-----------------------------------------------------------------------------
(* Properties *)

(* The messages under way: unread, queued, with a worker, or on their way back
   from Redis. *)
Unread == (UNION {Range(inbox[c]) : c \in Conns}) \ {Login}
InFlight == Unread \cup Range(sendMsg) \cup (UNION Range(task)) \cup Range(pushes)

Promise == INSTANCE Delivery WITH pending <- InFlight

(* Whatever the threads, the clients, Redis and restarts do, each message is
   handed over once, on a connection of its addressee, or stored once, or lost
   (chatserver.cc:21-43, 52-63, 93-95). *)
DeliversAtMostOnce == Promise!DSafety

(* The whole promise: and no message stays in the server for ever. *)
ImplementsDelivery == Promise!DSpec


(* The last command the server has written about a user's channel. *)
CommandsOf(u) == {i \in DOMAIN subLink : subLink[i].user = u}
WillBeSubscribed(u) ==
  IF CommandsOf(u) = {}
  THEN u \in subscribed
  ELSE \E i \in CommandsOf(u) : /\ subLink[i].op = "sub"
                                /\ \A j \in CommandsOf(u) : j <= i

(* A user whose newest login is complete and whose connection has not ended is
   online in the database and subscribed, however the user's other
   connections come and go: OnConnection's use of _mmutex (line 104) is what
   keeps an old connection's end from undoing a new login. *)
PresentIsOnline ==
  \A u \in Users :
     userMap[u] # NoConn /\ handler[userMap[u]] = "ready" /\ u \notin faulted
       => online[u] = 1 /\ WillBeSubscribed(u)

(* The user is reachable: logged in, with nothing left to do about it. *)
Reachable(u) ==
  /\ userMap[u] # NoConn
  /\ handler[userMap[u]] = "ready"
  /\ peer[userMap[u]] = "open"
  /\ u \in subscribed
  /\ u \notin faulted

(* A message that waits in _sendMsg is handed to an addressee who is reachable
   from then on, rather than stored or lost. *)
ReachableGetsMessages ==
  \A m \in Msgs :
     [](m \in Range(sendMsg) /\ []Reachable(Addressee[m])
          => <>(\E c \in Conns : m \in Range(received[c])))

=============================================================================
