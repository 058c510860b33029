---------------------------- MODULE ChatServerProofs ----------------------------
(***************************************************************************)
(* The chat server keeps the promise of Delivery, for every number of      *)
(* users, connections, messages, workers and restarts.  The invariant      *)
(* behind it says that a message under way is in one place, at one         *)
(* position there.                                                         *)
(***************************************************************************)
EXTENDS ChatServer, TLAPS

-----------------------------------------------------------------------------
(* Sequences as queues *)

(* What is appended is the one new element. *)
LEMMA AppendFacts ==
  ASSUME NEW S, NEW s \in Seq(S), NEW x \in S
  PROVE  /\ Append(s, x) \in Seq(S)
         /\ Range(Append(s, x)) = Range(s) \cup {x}
         /\ IsInjective(s) /\ x \notin Range(s) => IsInjective(Append(s, x))
<1>1. /\ Append(s, x) \in Seq(S) /\ Len(s) \in Nat
      /\ DOMAIN s = 1..Len(s) /\ DOMAIN Append(s, x) = 1..(Len(s) + 1)
      /\ \A i \in 1..Len(s) : Append(s, x)[i] = s[i]
      /\ Append(s, x)[Len(s) + 1] = x
  OBVIOUS
<1>2. Range(Append(s, x)) = Range(s) \cup {x}
  BY <1>1 DEF Range
<1>3. ASSUME IsInjective(s), x \notin Range(s) PROVE IsInjective(Append(s, x))
  BY <1>1, <1>3 DEF Range, IsInjective
<1>4. QED
  BY <1>1, <1>2, <1>3

(* The head leaves a queue without duplicates for good. *)
LEMMA TailFacts ==
  ASSUME NEW S, NEW s \in Seq(S), s # <<>>
  PROVE  /\ Head(s) \in S /\ Head(s) \in Range(s) /\ Tail(s) \in Seq(S)
         /\ IsInjective(s) => IsInjective(Tail(s)) /\ Range(Tail(s)) = Range(s) \ {Head(s)}
<1>1. /\ Len(s) \in Nat \ {0} /\ DOMAIN s = 1..Len(s) /\ Head(s) = s[1]
      /\ \A i \in DOMAIN s : s[i] \in S
      /\ Tail(s) \in Seq(S) /\ DOMAIN Tail(s) = 1..(Len(s) - 1)
      /\ \A i \in 1..(Len(s) - 1) : Tail(s)[i] = s[i + 1]
  OBVIOUS
<1>2. Head(s) \in S /\ Head(s) \in Range(s)
  BY <1>1 DEF Range
<1>3. ASSUME IsInjective(s)
      PROVE  IsInjective(Tail(s)) /\ Range(Tail(s)) = Range(s) \ {Head(s)}
  <2>1. IsInjective(Tail(s))
    BY <1>1, <1>3 DEF IsInjective
  <2>2. \A i \in 1..Len(s) : s[i] # s[1] => i - 1 \in DOMAIN Tail(s) /\ Tail(s)[i - 1] = s[i]
    BY <1>1
  <2>3. \A i \in DOMAIN Tail(s) : i + 1 \in DOMAIN s /\ Tail(s)[i] = s[i + 1] /\ s[i + 1] # s[1]
    BY <1>1, <1>3 DEF IsInjective
  <2>4. Range(Tail(s)) \subseteq Range(s) \ {Head(s)}
    BY <1>1, <2>3 DEF Range
  <2>5. ASSUME NEW y \in Range(s), y # Head(s) PROVE y \in Range(Tail(s))
    <3>1. PICK i \in 1..Len(s) : y = s[i]
      BY <1>1 DEF Range
    <3>2. QED
      BY <1>1, <2>2, <2>5, <3>1 DEF Range
  <2>6. QED
    BY <2>1, <2>4, <2>5
<1>4. QED
  BY <1>1, <1>2, <1>3

LEMMA EmptyFacts == Range(<<>>) = {} /\ IsInjective(<<>>)
  BY DEF Range, IsInjective

-----------------------------------------------------------------------------
(* Types *)

LEMMA TypeInit == Init => TypeOK
<1>1. \A S : <<>> \in Seq(S)
  OBVIOUS
<1>2. QED
  BY <1>1, ChatAssumption DEF Init, TypeOK, HandlerStates, WorkerStates, Commands

LEMMA ClientTypes ==
  ASSUME TypeOK, NEW c \in Conns,
         Connect(c) \/ ClientGone(c) \/ \E m \in Msgs : ClientSends(c, m)
  PROVE  TypeOK'
<1>1. CASE Connect(c)
  BY <1>1 DEF Connect, TypeOK, workVars, redisVars, dbVars
<1>2. CASE ClientGone(c)
  <2>1. <<>> \in Seq(Msgs \cup {Login})
    OBVIOUS
  <2>2. QED
    BY <1>2, <2>1 DEF ClientGone, TypeOK, workVars, redisVars, dbVars
<1>3. ASSUME NEW m \in Msgs, ClientSends(c, m) PROVE TypeOK'
  BY <1>3 DEF ClientSends, TypeOK, workVars, redisVars, dbVars
<1>4. QED
  BY <1>1, <1>2, <1>3

LEMMA WriteTypes ==
  ASSUME TypeOK, NEW c \in Conns, NEW op \in {"sub", "unsub"}, WriteCommand(c, op, UserOf[c])
  PROVE  subLink' \in Seq(Commands) /\ faulted' \in SUBSET Users
<1>1. [op |-> op, user |-> UserOf[c]] \in Commands /\ UserOf[c] \in Users
  BY ChatAssumption DEF Commands
<1>2. Append(subLink, [op |-> op, user |-> UserOf[c]]) \in Seq(Commands)
  BY <1>1, AppendFacts DEF TypeOK
<1>3. QED
  BY <1>1, <1>2 DEF WriteCommand, TypeOK

LEMMA IOTypes ==
  ASSUME TypeOK, NEW c \in Conns, IOThread(c)
  PROVE  TypeOK'
<1> USE ChatAssumption DEF TypeOK, HandlerStates, workVars, redisVars, dbVars
<1>1. CASE HandleLogin(c)
  BY <1>1 DEF HandleLogin
<1>2. CASE LoginSubscribe(c)
  <2>1. subLink' \in Seq(Commands) /\ faulted' \in SUBSET Users
    BY <1>2, WriteTypes DEF LoginSubscribe
  <2>2. QED
    BY <1>2, <2>1 DEF LoginSubscribe
<1>3. CASE LoginOnline(c)
  BY <1>3 DEF LoginOnline, UpdateStatus
<1>4. CASE HandleChat(c)
  <2>1. Head(inbox[c]) \in Msgs /\ Tail(inbox[c]) \in Seq(Msgs \cup {Login})
    BY <1>4 DEF HandleChat
  <2>2. QED
    BY <1>4, <2>1 DEF HandleChat
<1>5. CASE HandleDown(c)
  BY <1>5 DEF HandleDown
<1>6. CASE DownOffline(c)
  BY <1>6 DEF DownOffline, UpdateStatus
<1>7. CASE DownErase(c)
  <2>1. subLink' \in Seq(Commands) /\ faulted' \in SUBSET Users
    BY <1>7, WriteTypes DEF DownErase
  <2>2. QED
    BY <1>7, <2>1 DEF DownErase
<1>8. QED
  BY <1>1, <1>2, <1>3, <1>4, <1>5, <1>6, <1>7 DEF IOThread

LEMMA WorkerTypes ==
  ASSUME TypeOK, NEW w \in Workers, WorkerThread(w)
  PROVE  TypeOK'
<1> USE ChatAssumption DEF TypeOK, WorkerStates, ioVars, redisVars, dbVars
<1>1. CASE Pop(w)
  BY <1>1 DEF Pop
<1>2. CASE Query(w)
  BY <1>2 DEF Query
<1>3. CASE Publish(w)
  <2>1. worker' \in [Workers -> WorkerStates]
    BY <1>3 DEF Publish, TakesReply
  <2>2. pushes' \in Seq(Msgs) /\ faulted' \in SUBSET Users
    <3>1. PICK m \in task[w] : \/ pushes' = Append(pushes, m) /\ UNCHANGED faulted
                               \/ UNCHANGED <<pushes, faulted>>
                               \/ faulted' = faulted \cup {Addressee[m]} /\ UNCHANGED pushes
      BY <1>3 DEF Publish
    <3>2. m \in Msgs /\ Addressee[m] \in Users
      OBVIOUS
    <3>3. Append(pushes, m) \in Seq(Msgs)
      BY <3>2, AppendFacts
    <3>4. QED
      BY <3>1, <3>2, <3>3
  <2>3. QED
    BY <1>3, <2>1, <2>2 DEF Publish
<1>4. CASE Store(w)
  <2>1. offline' \in Seq(Msgs) /\ faulted' \in SUBSET Users
    <3>1. PICK m \in task[w] : \/ offline' = Append(offline, m) /\ UNCHANGED faulted
                               \/ faulted' = faulted \cup {Addressee[m]} /\ UNCHANGED offline
      BY <1>4 DEF Store
    <3>2. m \in Msgs /\ Addressee[m] \in Users
      OBVIOUS
    <3>3. Append(offline, m) \in Seq(Msgs)
      BY <3>2, AppendFacts
    <3>4. QED
      BY <3>1, <3>2, <3>3
  <2>2. QED
    BY <1>4, <2>1 DEF Store
<1>5. QED
  BY <1>1, <1>2, <1>3, <1>4 DEF WorkerThread

LEMMA RestTypes ==
  ASSUME TypeOK, RedisApplies \/ Observe \/ Restart
  PROVE  TypeOK'
<1>1. CASE RedisApplies
  <2>1. Head(subLink) \in Commands /\ Tail(subLink) \in Seq(Commands)
    BY <1>1 DEF RedisApplies, TypeOK
  <2>2. subscribed' \in SUBSET Users
    BY <1>1, <2>1 DEF RedisApplies, TypeOK, Commands
  <2>3. QED
    BY <1>1, <2>1, <2>2 DEF RedisApplies, TypeOK, ioVars, workVars, dbVars
<1>2. CASE Observe
  <2>0. pushes \in Seq(Msgs) /\ pushes # <<>>
    BY <1>2 DEF Observe, TypeOK
  <2>1. Head(pushes) \in Msgs /\ Tail(pushes) \in Seq(Msgs)
    BY <2>0
  <2>2. received' \in [Conns -> Seq(Msgs)]
    <3>1. \A d \in Conns : Append(received[d], Head(pushes)) \in Seq(Msgs)
      BY <2>1, AppendFacts DEF TypeOK
    <3>2. \/ UNCHANGED received
          \/ \E d \in Conns : received' = [received EXCEPT ![d] = Append(@, Head(pushes))]
      BY <1>2, <2>1, ChatAssumption DEF Observe, TypeOK
    <3>3. QED
      BY <3>1, <3>2 DEF TypeOK
  <2>3. QED
    BY <1>2, <2>1, <2>2 DEF Observe, TypeOK, ioVars, workVars, dbVars
<1>3. CASE Restart
  <2>1. \A S : <<>> \in Seq(S)
    OBVIOUS
  <2>2. QED
    BY <1>3, <2>1, ChatAssumption DEF Restart, TypeOK, HandlerStates, WorkerStates, dbVars
<1>4. QED
  BY <1>1, <1>2, <1>3

LEMMA TypeStep == TypeOK /\ [Next]_vars => TypeOK'
<1> SUFFICES ASSUME TypeOK, [Next]_vars PROVE TypeOK'
  OBVIOUS
<1>1. CASE UNCHANGED vars
  BY <1>1 DEF vars, ioVars, workVars, redisVars, dbVars, TypeOK
<1>2. CASE Next
  BY <1>2, ClientTypes, IOTypes, WorkerTypes, RestTypes DEF Next
<1>3. QED
  BY <1>1, <1>2

(* Every variable keeps its type: in particular only chat messages get into
   _sendMsg, and only connections into _userMap (chatserver.cc:81-96). *)
THEOREM TypeCorrect == Spec => []TypeOK
  BY TypeInit, TypeStep, PTL DEF Spec

-----------------------------------------------------------------------------
(* Presence *)

(* Whoever logs in is written into _userMap under the id of its own login. *)
MapOwn == \A u \in Users : userMap[u] # NoConn => UserOf[userMap[u]] = u

(* _mmutex keeps the entry of a connection that is being taken down. *)
DownHolds == \A c \in Conns : handler[c] \in {"offline", "erase"} => userMap[UserOf[c]] = c

(* Of the newest connection of a user, what its login has done so far lasts. *)
NewestLasts ==
  \A u \in Users : userMap[u] # NoConn /\ u \notin faulted =>
     /\ handler[userMap[u]] \in {"online", "ready"} => WillBeSubscribed(u)
     /\ handler[userMap[u]] = "ready" => online[u] = 1

Presence == MapOwn /\ DownHolds /\ NewestLasts

(* The newest command about a channel decides. *)
LEMMA NewCommand ==
  ASSUME TypeOK, NEW c \in Conns, NEW op \in {"sub", "unsub"},
         WriteCommand(c, op, UserOf[c]), UNCHANGED subscribed
  PROVE  /\ \A u \in Users \ {UserOf[c]} : WillBeSubscribed(u)' <=> WillBeSubscribed(u)
         /\ faulted \subseteq faulted'
         /\ op = "sub" => WillBeSubscribed(UserOf[c])' \/ UserOf[c] \in faulted'
<1> DEFINE new == [op |-> op, user |-> UserOf[c]]
           n == Len(subLink) + 1
<1>1. CASE subLink' = Append(subLink, new) /\ UNCHANGED faulted
  <2>1. /\ Len(subLink) \in Nat
        /\ DOMAIN subLink = 1..Len(subLink) /\ DOMAIN subLink' = 1..n
        /\ subLink'[n] = new
        /\ \A i \in 1..Len(subLink) : subLink'[i] = subLink[i]
    BY <1>1 DEF TypeOK
  <2>2. new.user = UserOf[c] /\ new.op = op
    OBVIOUS
  <2> HIDE DEF new
  <2>3. ASSUME NEW u \in Users, u # UserOf[c]
        PROVE  WillBeSubscribed(u)' <=> WillBeSubscribed(u)
    <3>1. CommandsOf(u)' = CommandsOf(u)
      BY <2>1, <2>2, <2>3 DEF CommandsOf
    <3>2. \A i \in CommandsOf(u) : subLink'[i] = subLink[i]
      BY <2>1 DEF CommandsOf
    <3>3. QED
      BY <3>1, <3>2 DEF WillBeSubscribed
  <2>4. ASSUME op = "sub" PROVE WillBeSubscribed(UserOf[c])'
    <3>1. n \in CommandsOf(UserOf[c])' /\ \A j \in CommandsOf(UserOf[c])' : j <= n
      BY <2>1, <2>2 DEF CommandsOf
    <3>2. subLink'[n].op = "sub"
      BY <2>1, <2>2, <2>4
    <3>3. QED
      BY <3>1, <3>2 DEF WillBeSubscribed
  <2>5. QED
    BY <1>1, <2>3, <2>4
<1>2. CASE faulted' = faulted \cup {UserOf[c]} /\ UNCHANGED subLink
  BY <1>2 DEF WillBeSubscribed, CommandsOf
<1>3. QED
  BY <1>1, <1>2 DEF WriteCommand

(* Applying a command does not change what the commands come to. *)
LEMMA AppliedCommand ==
  ASSUME TypeOK, RedisApplies, NEW u \in Users
  PROVE  WillBeSubscribed(u)' <=> WillBeSubscribed(u)
<1>1. /\ Len(subLink) \in Nat \ {0} /\ DOMAIN subLink = 1..Len(subLink)
      /\ Head(subLink) = subLink[1] /\ DOMAIN subLink' = 1..(Len(subLink) - 1)
      /\ \A i \in 1..(Len(subLink) - 1) : subLink'[i] = subLink[i + 1]
  BY DEF TypeOK, RedisApplies
<1>2. subscribed' = IF subLink[1].op = "sub" THEN subscribed \cup {subLink[1].user}
                                            ELSE subscribed \ {subLink[1].user}
  BY <1>1 DEF RedisApplies
<1> DEFINE C == CommandsOf(u)
           D == CommandsOf(u)'
<1>3. C = {i \in 1..Len(subLink) : subLink[i].user = u}
  BY <1>1 DEF CommandsOf
<1>4. D = {i \in 1..(Len(subLink) - 1) : subLink[i + 1].user = u}
  BY <1>1 DEF CommandsOf
<1>5. WillBeSubscribed(u) = IF C = {} THEN u \in subscribed
                            ELSE \E i \in C : subLink[i].op = "sub" /\ \A j \in C : j <= i
  BY DEF WillBeSubscribed
<1>6. WillBeSubscribed(u)' = IF D = {} THEN u \in subscribed'
                             ELSE \E i \in D : subLink'[i].op = "sub" /\ \A j \in D : j <= i
  BY DEF WillBeSubscribed
<1> HIDE DEF C, D
<1>7. CASE C = {}
  <2>1. D = {} /\ subLink[1].user # u
    BY <1>1, <1>3, <1>4, <1>7
  <2>2. u \in subscribed' <=> u \in subscribed
    BY <1>2, <2>1
  <2>3. QED
    BY <1>5, <1>6, <1>7, <2>1, <2>2
<1>8. CASE C = {1}
  <2>1. D = {}
    BY <1>1, <1>3, <1>4, <1>8
  <2>2. subLink[1].user = u
    BY <1>3, <1>8
  <2>3. u \in subscribed' <=> subLink[1].op = "sub"
    BY <1>2, <2>2
  <2>4. WillBeSubscribed(u) <=> subLink[1].op = "sub"
    BY <1>5, <1>8
  <2>5. WillBeSubscribed(u)' <=> u \in subscribed'
    BY <1>6, <2>1
  <2>6. QED
    BY <2>3, <2>4, <2>5
<1>9. CASE \E k \in C : k # 1
  <2>1. PICK k \in C : k # 1
    BY <1>9
  <2>2. D # {} /\ C # {}
    <3>1. k - 1 \in D
      BY <1>1, <1>3, <1>4, <2>1
    <3>2. QED
      BY <2>1, <3>1
  <2>3. \A i \in D : i \in Nat /\ i + 1 \in C /\ subLink'[i] = subLink[i + 1]
    BY <1>1, <1>3, <1>4
  <2>4. \A i \in C : i \in Nat /\ (i # 1 => i - 1 \in D /\ subLink'[i - 1] = subLink[i])
    BY <1>1, <1>3, <1>4
  <2>5. ASSUME NEW i \in C, subLink[i].op = "sub", \A j \in C : j <= i
        PROVE  \E e \in D : subLink'[e].op = "sub" /\ \A j \in D : j <= e
    <3>1. i # 1
      BY <1>3, <2>1, <2>5
    <3>2. i - 1 \in D /\ subLink'[i - 1].op = "sub" /\ \A j \in D : j <= i - 1
      BY <2>3, <2>4, <2>5, <3>1
    <3>3. QED
      BY <3>2
  <2>6. ASSUME NEW i \in D, subLink'[i].op = "sub", \A j \in D : j <= i
        PROVE  \E e \in C : subLink[e].op = "sub" /\ \A j \in C : j <= e
    <3>1. i + 1 \in C /\ subLink[i + 1].op = "sub" /\ \A j \in C : j <= i + 1
      BY <2>3, <2>4, <2>6
    <3>2. QED
      BY <3>1
  <2>7. QED
    BY <1>5, <1>6, <2>2, <2>5, <2>6
<1>10. QED
  BY <1>7, <1>8, <1>9

LEMMA PresenceInit == Init => Presence
  BY ChatAssumption DEF Init, Presence, MapOwn, DownHolds, NewestLasts

(* Steps that touch neither the map, nor a login, nor what a login has done. *)
LEMMA PresenceElsewhere ==
  ASSUME Presence, UNCHANGED <<handler, userMap, subLink, subscribed, online>>,
         faulted \subseteq faulted'
  PROVE  Presence'
<1>1. \A u \in Users : WillBeSubscribed(u)' <=> WillBeSubscribed(u)
  BY DEF WillBeSubscribed, CommandsOf
<1>2. QED
  BY <1>1 DEF Presence, MapOwn, DownHolds, NewestLasts

(* A login takes the entry over, which no other connection is taking down. *)
LEMMA LoginPresence ==
  ASSUME TypeOK, Presence, NEW c \in Conns, HandleLogin(c)
  PROVE  Presence'
<1> DEFINE u == UserOf[c]
<1>1. /\ userMap' = [userMap EXCEPT ![u] = c] /\ handler' = [handler EXCEPT ![c] = "subscribe"]
      /\ UNCHANGED <<subLink, subscribed, online, faulted>>
      /\ \A d \in Conns : handler[d] \notin {"offline", "erase"}
      /\ u \in Users
  BY ChatAssumption DEF HandleLogin, MutexFree, redisVars, dbVars
<1>2. \A v \in Users : WillBeSubscribed(v)' <=> WillBeSubscribed(v)
  BY <1>1 DEF WillBeSubscribed, CommandsOf
<1>3. MapOwn' /\ DownHolds'
  BY <1>1 DEF TypeOK, Presence, MapOwn, DownHolds
<1>4. NewestLasts'
  BY <1>1, <1>2 DEF TypeOK, Presence, MapOwn, NewestLasts
<1>5. QED
  BY <1>3, <1>4 DEF Presence

LEMMA SubscribePresence ==
  ASSUME TypeOK, Presence, NEW c \in Conns, LoginSubscribe(c)
  PROVE  Presence'
<1>1. /\ UserOf[c] \in Users /\ handler[c] = "subscribe"
      /\ handler' = [handler EXCEPT ![c] = "online"]
      /\ UNCHANGED <<userMap, online, subscribed>> /\ WriteCommand(c, "sub", UserOf[c])
  BY ChatAssumption DEF LoginSubscribe, dbVars
<1>2. /\ \A u \in Users \ {UserOf[c]} : WillBeSubscribed(u)' <=> WillBeSubscribed(u)
      /\ faulted \subseteq faulted'
      /\ WillBeSubscribed(UserOf[c])' \/ UserOf[c] \in faulted'
  BY <1>1, NewCommand
<1>3. MapOwn' /\ DownHolds'
  BY <1>1 DEF TypeOK, Presence, MapOwn, DownHolds
<1>4. NewestLasts'
  BY <1>1, <1>2 DEF TypeOK, Presence, MapOwn, NewestLasts
<1>5. QED
  BY <1>3, <1>4 DEF Presence

LEMMA OnlinePresence ==
  ASSUME TypeOK, Presence, NEW c \in Conns, LoginOnline(c)
  PROVE  Presence'
<1>1. /\ UserOf[c] \in Users /\ handler[c] = "online"
      /\ handler' = [handler EXCEPT ![c] = "ready"]
      /\ UNCHANGED <<userMap, subLink, subscribed>>
      /\ \/ online' = [online EXCEPT ![UserOf[c]] = 1] /\ UNCHANGED faulted
         \/ faulted' = faulted \cup {UserOf[c]} /\ UNCHANGED online
  BY ChatAssumption DEF LoginOnline, UpdateStatus, redisVars
<1>2. \A v \in Users : WillBeSubscribed(v)' <=> WillBeSubscribed(v)
  BY <1>1 DEF WillBeSubscribed, CommandsOf
<1>3. MapOwn' /\ DownHolds'
  BY <1>1 DEF TypeOK, Presence, MapOwn, DownHolds
<1>4. NewestLasts'
  BY <1>1, <1>2 DEF TypeOK, Presence, MapOwn, NewestLasts
<1>5. QED
  BY <1>3, <1>4 DEF Presence

(* The end of a connection: an older one finds the entry another's. *)
LEMMA DownPresence ==
  ASSUME TypeOK, Presence, NEW c \in Conns, HandleDown(c)
  PROVE  Presence'
<1>1. /\ UserOf[c] \in Users /\ handler[c] = "ready"
      /\ handler' = [handler EXCEPT ![c] = IF userMap[UserOf[c]] = c THEN "offline"
                                                                  ELSE "closed"]
      /\ UNCHANGED <<userMap, subLink, subscribed, online, faulted>>
  BY ChatAssumption DEF HandleDown, redisVars, dbVars
<1>2. \A v \in Users : WillBeSubscribed(v)' <=> WillBeSubscribed(v)
  BY <1>1 DEF WillBeSubscribed, CommandsOf
<1>3. MapOwn' /\ DownHolds'
  BY <1>1 DEF TypeOK, Presence, MapOwn, DownHolds
<1>4. NewestLasts'
  BY <1>1, <1>2 DEF TypeOK, Presence, MapOwn, NewestLasts
<1>5. QED
  BY <1>3, <1>4 DEF Presence

LEMMA OfflinePresence ==
  ASSUME TypeOK, Presence, NEW c \in Conns, DownOffline(c)
  PROVE  Presence'
<1>1. /\ UserOf[c] \in Users /\ handler[c] = "offline"
      /\ handler' = [handler EXCEPT ![c] = "erase"]
      /\ UNCHANGED <<userMap, subLink, subscribed>>
      /\ \/ online' = [online EXCEPT ![UserOf[c]] = 0] /\ UNCHANGED faulted
         \/ faulted' = faulted \cup {UserOf[c]} /\ UNCHANGED online
  BY ChatAssumption DEF DownOffline, UpdateStatus, redisVars
<1>2. \A v \in Users : WillBeSubscribed(v)' <=> WillBeSubscribed(v)
  BY <1>1 DEF WillBeSubscribed, CommandsOf
<1>3. MapOwn' /\ DownHolds'
  BY <1>1 DEF TypeOK, Presence, MapOwn, DownHolds
<1>4. userMap[UserOf[c]] = c
  BY <1>1 DEF Presence, DownHolds
<1>5. NewestLasts'
  BY <1>1, <1>2, <1>4 DEF TypeOK, Presence, MapOwn, NewestLasts
<1>6. QED
  BY <1>3, <1>5 DEF Presence

LEMMA ErasePresence ==
  ASSUME TypeOK, Presence, NEW c \in Conns, DownErase(c)
  PROVE  Presence'
<1>1. /\ UserOf[c] \in Users /\ handler[c] = "erase" /\ userMap[UserOf[c]] = c
      /\ handler' = [handler EXCEPT ![c] = "closed"]
      /\ userMap' = [userMap EXCEPT ![UserOf[c]] = NoConn]
      /\ UNCHANGED <<online, subscribed>> /\ WriteCommand(c, "unsub", UserOf[c])
  BY ChatAssumption DEF DownErase, dbVars, Presence, DownHolds
<1>2. /\ \A u \in Users \ {UserOf[c]} : WillBeSubscribed(u)' <=> WillBeSubscribed(u)
      /\ faulted \subseteq faulted'
  BY <1>1, NewCommand
<1>3. MapOwn' /\ DownHolds'
  BY <1>1, ChatAssumption DEF TypeOK, Presence, MapOwn, DownHolds
<1>4. NewestLasts'
  BY <1>1, <1>2 DEF TypeOK, Presence, MapOwn, NewestLasts
<1>5. QED
  BY <1>3, <1>4 DEF Presence

LEMMA PresenceStep == TypeOK /\ Presence /\ [Next]_vars => Presence'
<1> SUFFICES ASSUME TypeOK, Presence, [Next]_vars PROVE Presence'
  OBVIOUS
<1>1. CASE UNCHANGED vars
  BY <1>1, PresenceElsewhere DEF vars, ioVars, redisVars, dbVars
<1>2. ASSUME NEW c \in Conns, Connect(c) \/ ClientGone(c) \/ \E m \in Msgs : ClientSends(c, m)
      PROVE  Presence'
  BY <1>2, PresenceElsewhere DEF Connect, ClientGone, ClientSends, redisVars, dbVars
<1>3. ASSUME NEW c \in Conns, IOThread(c) PROVE Presence'
  <2>1. CASE HandleChat(c)
    BY <2>1, PresenceElsewhere DEF HandleChat, redisVars, dbVars
  <2>2. QED
    BY <1>3, <2>1, LoginPresence, SubscribePresence, OnlinePresence, DownPresence,
       OfflinePresence, ErasePresence DEF IOThread
<1>4. ASSUME NEW w \in Workers, WorkerThread(w) PROVE Presence'
  <2>1. /\ UNCHANGED <<handler, userMap, subLink, subscribed, online>>
        /\ faulted \subseteq faulted'
    BY <1>4 DEF WorkerThread, Pop, Query, Publish, Store, ioVars, redisVars, dbVars
  <2>2. QED
    BY <2>1, PresenceElsewhere
<1>5. CASE RedisApplies
  <2>1. UNCHANGED <<handler, userMap, online, faulted>>
    BY <1>5 DEF RedisApplies, ioVars, dbVars
  <2>2. \A u \in Users : WillBeSubscribed(u)' <=> WillBeSubscribed(u)
    BY <1>5, AppliedCommand
  <2>3. QED
    BY <2>1, <2>2 DEF Presence, MapOwn, DownHolds, NewestLasts
<1>6. CASE Observe
  BY <1>6, PresenceElsewhere DEF Observe, ioVars, dbVars
<1>7. CASE Restart
  BY <1>7, ChatAssumption DEF Restart, Presence, MapOwn, DownHolds, NewestLasts, TypeOK
<1>8. QED
  BY <1>1, <1>2, <1>3, <1>4, <1>5, <1>6, <1>7 DEF Next

LEMMA PresenceInvariant == Spec => [](TypeOK /\ Presence)
  BY TypeInit, TypeStep, PresenceInit, PresenceStep, PTL DEF Spec

(* Whatever an old connection of a user does at its end, the newest one is online and
   subscribed once its login is through: OnConnection holds _mmutex from its look
   at the map to the unsubscribe (chatserver.cc:81-89, 102-112). *)
THEOREM Present == Spec => []PresentIsOnline
<1>1. TypeOK /\ Presence => PresentIsOnline
  BY DEF Presence, NewestLasts, PresentIsOnline
<1>2. QED
  BY <1>1, PresenceInvariant, PTL

-----------------------------------------------------------------------------
(* One place for each message *)

(* The chat messages a connection has still to handle. *)
Unhandled(c) == Range(inbox[c]) \ {Login}

OnePlace(m) ==
  /\ \A c, d \in Conns : m \in Unhandled(c) /\ m \in Unhandled(d) => c = d
  /\ \A v, w \in Workers : m \in task[v] /\ m \in task[w] => v = w
  /\ \A c \in Conns : m \in Unhandled(c) =>
        /\ m \notin Range(sendMsg) /\ m \notin Range(pushes)
        /\ \A w \in Workers : m \notin task[w]
  /\ m \in Range(sendMsg) => m \notin Range(pushes) /\ \A w \in Workers : m \notin task[w]
  /\ m \in Range(pushes) => \A w \in Workers : m \notin task[w]

(* No queue holds a message twice. *)
Injective == /\ \A c \in Conns : IsInjective(inbox[c])
             /\ IsInjective(sendMsg) /\ IsInjective(pushes)

(* A worker has one message while it is at work on one. *)
Tasked ==
  \A w \in Workers : IF worker[w] \in {"pop", "hung"} THEN task[w] = {}
                     ELSE \E m \in Msgs : task[w] = {m}

FreshEmpty == \A c \in Conns : peer[c] = "fresh" => inbox[c] = <<>>

UnderWayIsSent == InFlight \subseteq sent

UInv == /\ Injective /\ Tasked /\ FreshEmpty /\ UnderWayIsSent
        /\ \A m \in Msgs : OnePlace(m)

(* The messages under way are those in some place. *)
Placed(m) == \/ \E c \in Conns : m \in Unhandled(c)
             \/ \E w \in Workers : m \in task[w]
             \/ m \in Range(sendMsg) \/ m \in Range(pushes)
ByPlaces == InFlight \subseteq Msgs /\ \A m : m \in InFlight <=> Placed(m)

LEMMA Places == TypeOK => ByPlaces
<1> SUFFICES ASSUME TypeOK PROVE ByPlaces
  OBVIOUS
<1>1. Range(task) = {task[w] : w \in Workers}
  BY DEF TypeOK, Range
<1>2. \A m : m \in Unread <=> \E c \in Conns : m \in Unhandled(c)
  BY DEF Unread, Unhandled
<1>3. \A m : m \in UNION Range(task) <=> \E w \in Workers : m \in task[w]
  BY <1>1
<1>4. \A m : m \in InFlight <=> Placed(m)
  BY <1>2, <1>3 DEF InFlight, Placed
<1>5. \A S : \A s \in Seq(S) : Range(s) \subseteq S
  BY DEF Range
<1>6. /\ \A c \in Conns : Unhandled(c) \subseteq Msgs
      /\ Range(sendMsg) \subseteq Msgs /\ Range(pushes) \subseteq Msgs
  BY <1>5 DEF TypeOK, Unhandled
<1>7. \A m : Placed(m) => m \in Msgs
  BY <1>6 DEF TypeOK, Placed
<1>8. QED
  BY <1>4, <1>7 DEF ByPlaces

LEMMA PlacesNext == (TypeOK => ByPlaces)'
  BY Places, PTL

LEMMA UInit == Init => UInv /\ InFlight = {}
<1> SUFFICES ASSUME Init PROVE UInv /\ InFlight = {}
  OBVIOUS
<1>1. /\ \A c \in Conns : inbox[c] = <<>> /\ Unhandled(c) = {}
      /\ sendMsg = <<>> /\ pushes = <<>> /\ Range(sendMsg) = {} /\ Range(pushes) = {}
      /\ \A w \in Workers : task[w] = {} /\ worker[w] = "pop"
  BY EmptyFacts DEF Init, Unhandled
<1>2. InFlight = {}
  BY <1>1, TypeInit, Places DEF ByPlaces, Placed
<1>3. Injective
  BY <1>1, EmptyFacts DEF Injective
<1>4. QED
  BY <1>1, <1>2, <1>3 DEF UInv, Tasked, FreshEmpty, UnderWayIsSent, OnePlace

(* Steps that leave all the places alone. *)
LEMMA PlacesKept ==
  ASSUME TypeOK, UInv, UNCHANGED <<inbox, sendMsg, worker, task, pushes, sent>>,
         \A c \in Conns : peer'[c] = "fresh" => peer[c] = "fresh"
  PROVE  UInv' /\ InFlight' = InFlight
<1>1. InFlight' = InFlight
  BY DEF InFlight, Unread
<1>2. Injective' /\ Tasked' /\ FreshEmpty' /\ UnderWayIsSent'
  BY <1>1 DEF UInv, Injective, Tasked, FreshEmpty, UnderWayIsSent
<1>3. \A m \in Msgs : OnePlace(m)'
  BY DEF UInv, OnePlace, Unhandled
<1>4. QED
  BY <1>1, <1>2, <1>3 DEF UInv

(* The client connects: its login frame is no message. *)
LEMMA ConnectPlaces ==
  ASSUME TypeOK, TypeOK', UInv, NEW c \in Conns, Connect(c)
  PROVE  UInv' /\ InFlight' = InFlight
<1>1. /\ peer' = [peer EXCEPT ![c] = "open"] /\ inbox[c] = <<>>
      /\ inbox' = [inbox EXCEPT ![c] = <<Login>>]
      /\ UNCHANGED <<sendMsg, worker, task, pushes, sent>>
  BY DEF Connect, UInv, FreshEmpty, workVars, redisVars
<1>2. Range(<<Login>>) = {Login} /\ IsInjective(<<Login>>)
  BY DEF Range, IsInjective
<1>3. \A d \in Conns : Unhandled(d)' = Unhandled(d)
  BY <1>1, <1>2, EmptyFacts DEF TypeOK, Unhandled
<1>4. \A m : m \in InFlight' <=> m \in InFlight
  BY <1>1, <1>3, Places, PlacesNext DEF ByPlaces, Placed
<1>5. Injective' /\ Tasked' /\ FreshEmpty' /\ UnderWayIsSent'
  BY <1>1, <1>2, <1>4 DEF TypeOK, UInv, Injective, Tasked, FreshEmpty, UnderWayIsSent
<1>6. \A m \in Msgs : OnePlace(m)'
  BY <1>1, <1>3 DEF UInv, OnePlace
<1>7. QED
  BY <1>4, <1>5, <1>6 DEF UInv

(* A message that is sent was nowhere. *)
LEMMA SendsPlaces ==
  ASSUME TypeOK, TypeOK', UInv, NEW c \in Conns, NEW m \in Msgs, ClientSends(c, m)
  PROVE  UInv' /\ InFlight' = InFlight \cup {m}
<1>1. /\ peer[c] = "open" /\ m \notin sent /\ sent' = sent \cup {m}
      /\ inbox' = [inbox EXCEPT ![c] = Append(@, m)]
      /\ UNCHANGED <<peer, sendMsg, worker, task, pushes>>
  BY DEF ClientSends, workVars, redisVars
<1>2. m \notin InFlight /\ m # Login
  BY <1>1, LoginAssumption DEF UInv, UnderWayIsSent
<1>3. m \notin Range(inbox[c])
  BY <1>2, Places DEF ByPlaces, Placed, Unhandled
<1>4. inbox[c] \in Seq(Msgs \cup {Login}) /\ m \in Msgs \cup {Login}
  BY DEF TypeOK
<1>5. /\ Range(Append(inbox[c], m)) = Range(inbox[c]) \cup {m}
      /\ IsInjective(Append(inbox[c], m))
  BY <1>3, <1>4, AppendFacts DEF UInv, Injective
<1>6. /\ Unhandled(c)' = Unhandled(c) \cup {m}
      /\ \A d \in Conns \ {c} : Unhandled(d)' = Unhandled(d)
  BY <1>1, <1>2, <1>5 DEF TypeOK, Unhandled
<1>7. \A n : n \in InFlight' <=> n \in InFlight \/ n = m
  BY <1>1, <1>6, Places, PlacesNext DEF ByPlaces, Placed
<1>8. Injective' /\ Tasked' /\ FreshEmpty' /\ UnderWayIsSent'
  BY <1>1, <1>5, <1>7 DEF TypeOK, UInv, Injective, Tasked, FreshEmpty, UnderWayIsSent
<1>9. \A n \in Msgs : OnePlace(n)'
  <2>1. \A d \in Conns : m \notin Unhandled(d)
    BY <1>2, Places DEF ByPlaces, Placed
  <2>2. m \notin Range(sendMsg) /\ m \notin Range(pushes) /\ \A w \in Workers : m \notin task[w]
    BY <1>2, Places DEF ByPlaces, Placed
  <2>3. QED
    BY <1>1, <1>6, <2>1, <2>2 DEF UInv, OnePlace
<1>10. QED
  BY <1>7, <1>8, <1>9 DEF UInv

(* The client goes, and what it has sent is read, or lost with the connection. *)
LEMMA GonePlaces ==
  ASSUME TypeOK, TypeOK', UInv, NEW c \in Conns, ClientGone(c)
  PROVE  UInv' /\ InFlight' \subseteq InFlight
<1>1. /\ peer' = [peer EXCEPT ![c] = "gone"]
      /\ UNCHANGED inbox \/ inbox' = [inbox EXCEPT ![c] = <<>>]
      /\ UNCHANGED <<sendMsg, worker, task, pushes, sent>>
  BY DEF ClientGone, workVars, redisVars
<1>2. CASE UNCHANGED inbox
  BY <1>1, <1>2, PlacesKept DEF TypeOK
<1>3. CASE inbox' = [inbox EXCEPT ![c] = <<>>]
  <2>1. /\ Unhandled(c)' = {} /\ IsInjective(inbox'[c])
        /\ \A d \in Conns \ {c} : Unhandled(d)' = Unhandled(d)
    BY <1>3, EmptyFacts DEF TypeOK, Unhandled
  <2>2. \A m : m \in InFlight' => m \in InFlight
    BY <1>1, <2>1, Places, PlacesNext DEF ByPlaces, Placed
  <2>3. Injective' /\ Tasked' /\ FreshEmpty' /\ UnderWayIsSent'
    BY <1>1, <1>3, <2>1, <2>2 DEF TypeOK, UInv, Injective, Tasked, FreshEmpty, UnderWayIsSent
  <2>4. \A m \in Msgs : OnePlace(m)'
    BY <1>1, <2>1 DEF UInv, OnePlace
  <2>5. QED
    BY <2>2, <2>3, <2>4 DEF UInv
<1>4. QED
  BY <1>1, <1>2, <1>3

(* The login frame is read: no message moves. *)
LEMMA LoginPlaces ==
  ASSUME TypeOK, TypeOK', UInv, NEW c \in Conns, HandleLogin(c)
  PROVE  UInv' /\ InFlight' = InFlight
<1>1. /\ inbox[c] # <<>> /\ Head(inbox[c]) = Login
      /\ inbox' = [inbox EXCEPT ![c] = Tail(@)]
      /\ UNCHANGED <<peer, sendMsg, worker, task, pushes, sent>>
  BY DEF HandleLogin, workVars, redisVars
<1>2. inbox[c] \in Seq(Msgs \cup {Login})
  BY DEF TypeOK
<1>3. IsInjective(Tail(inbox[c])) /\ Range(Tail(inbox[c])) = Range(inbox[c]) \ {Login}
  BY <1>1, <1>2, TailFacts DEF UInv, Injective
<1>4. \A d \in Conns : Unhandled(d)' = Unhandled(d)
  BY <1>1, <1>3 DEF TypeOK, Unhandled
<1>5. \A m : m \in InFlight' <=> m \in InFlight
  BY <1>1, <1>4, Places, PlacesNext DEF ByPlaces, Placed
<1>6. inbox[c] # <<>> => peer[c] # "fresh"
  BY DEF UInv, FreshEmpty
<1>7. Injective' /\ Tasked' /\ FreshEmpty' /\ UnderWayIsSent'
  BY <1>1, <1>3, <1>5, <1>6 DEF TypeOK, UInv, Injective, Tasked, FreshEmpty, UnderWayIsSent
<1>8. \A m \in Msgs : OnePlace(m)'
  BY <1>1, <1>4 DEF UInv, OnePlace
<1>9. QED
  BY <1>5, <1>7, <1>8 DEF UInv

(* A chat frame goes into _sendMsg. *)
LEMMA ChatPlaces ==
  ASSUME TypeOK, TypeOK', UInv, NEW c \in Conns, HandleChat(c)
  PROVE  UInv' /\ InFlight' = InFlight
<1> DEFINE n == Head(inbox[c])
<1>1. /\ inbox[c] # <<>> /\ n # Login
      /\ inbox' = [inbox EXCEPT ![c] = Tail(@)]
      /\ sendMsg' = Append(sendMsg, n)
      /\ UNCHANGED <<peer, worker, task, pushes, sent>>
  BY DEF HandleChat, redisVars
<1>2. inbox[c] \in Seq(Msgs \cup {Login}) /\ sendMsg \in Seq(Msgs)
  BY DEF TypeOK
<1>3. /\ IsInjective(Tail(inbox[c])) /\ Range(Tail(inbox[c])) = Range(inbox[c]) \ {n}
      /\ n \in Range(inbox[c]) /\ n \in Msgs
  BY <1>1, <1>2, TailFacts DEF UInv, Injective
<1> HIDE DEF n
<1>4. n \in Unhandled(c) /\ OnePlace(n)
  BY <1>1, <1>3 DEF UInv, Unhandled
<1>5. n \notin Range(sendMsg)
  BY <1>4 DEF OnePlace
<1>6. Range(sendMsg') = Range(sendMsg) \cup {n} /\ IsInjective(sendMsg')
  BY <1>1, <1>2, <1>3, <1>5, AppendFacts DEF UInv, Injective
<1>7. /\ Unhandled(c)' = Unhandled(c) \ {n}
      /\ \A d \in Conns \ {c} : Unhandled(d)' = Unhandled(d)
  BY <1>1, <1>3 DEF TypeOK, Unhandled
<1>8. \A m : m \in InFlight' <=> m \in InFlight
  BY <1>1, <1>4, <1>6, <1>7, Places, PlacesNext DEF ByPlaces, Placed
<1>9. inbox[c] # <<>> => peer[c] # "fresh"
  BY DEF UInv, FreshEmpty
<1>10. Injective' /\ Tasked' /\ FreshEmpty' /\ UnderWayIsSent'
  BY <1>1, <1>3, <1>6, <1>8, <1>9 DEF TypeOK, UInv, Injective, Tasked, FreshEmpty, UnderWayIsSent
<1>11. \A m \in Msgs : OnePlace(m)'
  BY <1>1, <1>4, <1>6, <1>7 DEF UInv, OnePlace
<1>12. QED
  BY <1>8, <1>10, <1>11 DEF UInv

(* A worker takes the front of _sendMsg. *)
LEMMA PopPlaces ==
  ASSUME TypeOK, TypeOK', UInv, NEW w \in Workers, Pop(w)
  PROVE  UInv' /\ InFlight' = InFlight
<1> DEFINE n == Head(sendMsg)
<1>1. /\ sendMsg # <<>> /\ sendMsg' = Tail(sendMsg) /\ worker[w] = "pop"
      /\ task' = [task EXCEPT ![w] = {n}] /\ worker' = [worker EXCEPT ![w] = "query"]
      /\ UNCHANGED <<peer, inbox, pushes, sent>>
  BY DEF Pop, ioVars, redisVars
<1>2. /\ IsInjective(sendMsg') /\ Range(sendMsg') = Range(sendMsg) \ {n}
      /\ n \in Range(sendMsg) /\ n \in Msgs
  BY <1>1, TailFacts DEF TypeOK, UInv, Injective
<1> HIDE DEF n
<1>3. task[w] = {} /\ OnePlace(n)
  BY <1>1, <1>2 DEF UInv, Tasked
<1>4. \A d \in Conns : Unhandled(d)' = Unhandled(d)
  BY <1>1 DEF Unhandled
<1>5. /\ task'[w] = {n} /\ worker'[w] = "query"
      /\ \A v \in Workers \ {w} : task'[v] = task[v] /\ worker'[v] = worker[v]
  BY <1>1 DEF TypeOK
<1>6. \A m : m \in InFlight' <=> m \in InFlight
  BY <1>1, <1>2, <1>3, <1>4, <1>5, Places, PlacesNext DEF ByPlaces, Placed
<1>7. Injective' /\ Tasked' /\ FreshEmpty' /\ UnderWayIsSent'
  BY <1>1, <1>2, <1>5, <1>6 DEF UInv, Injective, Tasked, FreshEmpty, UnderWayIsSent
<1>8. \A m \in Msgs : OnePlace(m)'
  BY <1>1, <1>2, <1>3, <1>4, <1>5 DEF UInv, OnePlace
<1>9. QED
  BY <1>6, <1>7, <1>8 DEF UInv

(* A worker that goes on with the message it has. *)
LEMMA QueryPlaces ==
  ASSUME TypeOK, UInv, NEW w \in Workers, Query(w)
  PROVE  UInv' /\ InFlight' = InFlight
<1>1. /\ worker[w] = "query"
      /\ worker' = [worker EXCEPT ![w] = "publish"] \/ worker' = [worker EXCEPT ![w] = "store"]
      /\ UNCHANGED <<peer, inbox, sendMsg, task, pushes, sent>>
  BY DEF Query, ioVars, redisVars, TypeOK
<1>2. InFlight' = InFlight
  BY <1>1 DEF InFlight, Unread
<1>3. Injective' /\ Tasked' /\ FreshEmpty' /\ UnderWayIsSent'
  BY <1>1, <1>2 DEF TypeOK, UInv, Injective, Tasked, FreshEmpty, UnderWayIsSent
<1>4. \A m \in Msgs : OnePlace(m)'
  BY <1>1 DEF UInv, OnePlace, Unhandled
<1>5. QED
  BY <1>2, <1>3, <1>4 DEF UInv

(* A worker that is done with its message has it no more, whoever takes Redis's
   reply. *)
LEMMA DoneTasked ==
  ASSUME TypeOK, Tasked, NEW w \in Workers, worker[w] \in {"publish", "store"},
         task' = [task EXCEPT ![w] = {}],
         TakesReply(w)
  PROVE  Tasked'
<1>1. task'[w] = {} /\ \A v \in Workers \ {w} : task'[v] = task[v]
  BY DEF TypeOK
<1>2. ASSUME NEW place \in {"pop", "hung"}, worker' = [worker EXCEPT ![w] = place]
      PROVE  Tasked'
  BY <1>1, <1>2 DEF TypeOK, Tasked
<1>3. ASSUME NEW v \in Workers \ {w}, worker[v] = "hung",
             worker' = [worker EXCEPT ![w] = "hung", ![v] = "pop"]
      PROVE  Tasked'
  <2>1. /\ worker'[w] = "hung" /\ worker'[v] = "pop"
        /\ \A u \in Workers \ {v, w} : worker'[u] = worker[u]
    BY <1>3 DEF TypeOK
  <2>2. QED
    BY <1>1, <1>3, <2>1 DEF Tasked
<1>4. QED
  BY <1>2, <1>3 DEF TakesReply

(* The message is published, or gone. *)
LEMMA PublishPlaces ==
  ASSUME TypeOK, TypeOK', UInv, NEW w \in Workers, Publish(w)
  PROVE  /\ UInv'
         /\ \E m \in Msgs : InFlight' = InFlight \/ InFlight' = InFlight \ {m}
<1>0. worker[w] = "publish"
  BY DEF Publish
<1>1. PICK m \in Msgs : task[w] = {m}
  BY <1>0 DEF UInv, Tasked
<1>2. /\ task' = [task EXCEPT ![w] = {}] /\ TakesReply(w)
      /\ UNCHANGED <<peer, inbox, sendMsg, sent>>
      /\ pushes' = Append(pushes, m) \/ pushes' = pushes
  BY <1>1 DEF Publish, ioVars
<1>3. Tasked'
  BY <1>0, <1>2, DoneTasked DEF UInv
<1>4. /\ task'[w] = {} /\ \A v \in Workers \ {w} : task'[v] = task[v]
      /\ \A d \in Conns : Unhandled(d)' = Unhandled(d)
  BY <1>2 DEF TypeOK, Unhandled
<1>5. OnePlace(m)
  BY DEF UInv
<1>6. m \notin Range(pushes)
  BY <1>1, <1>5 DEF OnePlace
<1>7. CASE pushes' = Append(pushes, m)
  <2>1. Range(pushes') = Range(pushes) \cup {m} /\ IsInjective(pushes')
    BY <1>6, <1>7, AppendFacts DEF TypeOK, UInv, Injective
  <2>2. \A n : n \in InFlight' <=> n \in InFlight
    BY <1>1, <1>2, <1>4, <2>1, Places, PlacesNext DEF ByPlaces, Placed
  <2>3. Injective' /\ FreshEmpty' /\ UnderWayIsSent'
    BY <1>2, <2>1, <2>2 DEF UInv, Injective, FreshEmpty, UnderWayIsSent
  <2>4. \A n \in Msgs : OnePlace(n)'
    BY <1>1, <1>2, <1>4, <2>1 DEF UInv, OnePlace
  <2>5. QED
    BY <1>3, <2>2, <2>3, <2>4 DEF UInv
<1>8. CASE pushes' = pushes
  <2>1. \A n : n \in InFlight' <=> n \in InFlight /\ n # m
    BY <1>1, <1>2, <1>4, <1>5, <1>8, Places, PlacesNext DEF ByPlaces, Placed, OnePlace
  <2>2. Injective' /\ FreshEmpty' /\ UnderWayIsSent'
    BY <1>2, <1>8, <2>1 DEF UInv, Injective, FreshEmpty, UnderWayIsSent
  <2>3. \A n \in Msgs : OnePlace(n)'
    BY <1>2, <1>4, <1>8 DEF UInv, OnePlace
  <2>4. QED
    BY <1>3, <2>1, <2>2, <2>3 DEF UInv
<1>9. QED
  BY <1>2, <1>7, <1>8

(* The message becomes a row, or is lost. *)
LEMMA StorePlaces ==
  ASSUME TypeOK, TypeOK', UInv, NEW w \in Workers, Store(w)
  PROVE  /\ UInv'
         /\ \E m \in Msgs : /\ m \in InFlight /\ InFlight' = InFlight \ {m}
                            /\ offline' = Append(offline, m) \/ offline' = offline
<1>0. worker[w] = "store"
  BY DEF Store
<1>1. PICK m \in Msgs : task[w] = {m}
  BY <1>0 DEF UInv, Tasked
<1>2. /\ task' = [task EXCEPT ![w] = {}] /\ worker' = [worker EXCEPT ![w] = "pop"]
      /\ UNCHANGED <<peer, inbox, sendMsg, pushes, sent>>
      /\ offline' = Append(offline, m) \/ offline' = offline
  BY <1>1 DEF Store, ioVars, redisVars
<1>3. Tasked'
  BY <1>0, <1>2, DoneTasked DEF UInv, TakesReply
<1>4. /\ task'[w] = {} /\ \A v \in Workers \ {w} : task'[v] = task[v]
      /\ \A d \in Conns : Unhandled(d)' = Unhandled(d)
  BY <1>2 DEF TypeOK, Unhandled
<1>5. OnePlace(m) /\ m \in InFlight
  BY <1>1, Places DEF UInv, ByPlaces, Placed
<1>6. \A n : n \in InFlight' <=> n \in InFlight /\ n # m
  BY <1>1, <1>2, <1>4, <1>5, Places, PlacesNext DEF ByPlaces, Placed, OnePlace
<1>7. Injective' /\ FreshEmpty' /\ UnderWayIsSent'
  BY <1>2, <1>6 DEF UInv, Injective, FreshEmpty, UnderWayIsSent
<1>8. \A n \in Msgs : OnePlace(n)'
  BY <1>2, <1>4 DEF UInv, OnePlace
<1>9. UInv'
  BY <1>3, <1>7, <1>8 DEF UInv
<1>10. InFlight' = InFlight \ {m}
  BY <1>6
<1>11. QED
  BY <1>2, <1>5, <1>9, <1>10

(* The message is handed over to its addressee, or lost. *)
LEMMA ObservePlaces ==
  ASSUME TypeOK, TypeOK', UInv, MapOwn, Observe
  PROVE  /\ UInv'
         /\ \E m \in Msgs : /\ m \in InFlight /\ InFlight' = InFlight \ {m}
                            /\ \/ \E c \in Conns :
                                     /\ UserOf[c] = Addressee[m]
                                     /\ received' = [received EXCEPT ![c] = Append(@, m)]
                               \/ received' = received
<1> DEFINE m == Head(pushes)
<1>1. /\ pushes # <<>> /\ pushes' = Tail(pushes)
      /\ UNCHANGED <<peer, inbox, sendMsg, worker, task, sent>>
      /\ \/ /\ userMap[Addressee[m]] # NoConn
            /\ received' = [received EXCEPT ![userMap[Addressee[m]]] = Append(@, m)]
         \/ received' = received
  BY DEF Observe, ioVars, workVars
<1>2. /\ IsInjective(pushes') /\ Range(pushes') = Range(pushes) \ {m}
      /\ m \in Range(pushes) /\ m \in Msgs
  BY <1>1, TailFacts DEF TypeOK, UInv, Injective
<1> HIDE DEF m
<1>3. \/ \E c \in Conns : /\ UserOf[c] = Addressee[m]
                         /\ received' = [received EXCEPT ![c] = Append(@, m)]
      \/ received' = received
  <2>1. Addressee[m] \in Users
    BY <1>2, ChatAssumption
  <2>2. userMap[Addressee[m]] # NoConn =>
           userMap[Addressee[m]] \in Conns /\ UserOf[userMap[Addressee[m]]] = Addressee[m]
    BY <2>1 DEF TypeOK, MapOwn
  <2>3. QED
    BY <1>1, <2>2
<1>4. OnePlace(m) /\ m \in InFlight
  BY <1>2, Places DEF UInv, ByPlaces, Placed
<1>5. \A d \in Conns : Unhandled(d)' = Unhandled(d)
  BY <1>1 DEF Unhandled
<1>6. \A n : n \in InFlight' <=> n \in InFlight /\ n # m
  BY <1>1, <1>2, <1>4, <1>5, Places, PlacesNext DEF ByPlaces, Placed, OnePlace
<1>7. Injective' /\ Tasked' /\ FreshEmpty' /\ UnderWayIsSent'
  BY <1>1, <1>2, <1>6 DEF UInv, Injective, Tasked, FreshEmpty, UnderWayIsSent
<1>8. \A n \in Msgs : OnePlace(n)'
  BY <1>1, <1>2, <1>5 DEF UInv, OnePlace
<1>9. UInv'
  BY <1>7, <1>8 DEF UInv
<1>10. InFlight' = InFlight \ {m}
  BY <1>6
<1>11. QED
  BY <1>2, <1>3, <1>4, <1>9, <1>10

(* A restart leaves nothing under way. *)
LEMMA RestartPlaces ==
  ASSUME TypeOK, TypeOK', UInv, Restart
  PROVE  UInv' /\ InFlight' = {}
<1>1. /\ \A c \in Conns : inbox'[c] = <<>>
      /\ sendMsg' = <<>> /\ pushes' = <<>>
      /\ \A w \in Workers : task'[w] = {} /\ worker'[w] = "pop"
  BY DEF Restart
<1>2. Range(sendMsg') = {} /\ Range(pushes') = {} /\ \A c \in Conns : Unhandled(c)' = {}
  BY <1>1, EmptyFacts DEF Unhandled
<1>3. \A n : n \notin InFlight'
  BY <1>1, <1>2, PlacesNext DEF ByPlaces, Placed
<1>4. Injective' /\ Tasked' /\ FreshEmpty' /\ UnderWayIsSent'
  BY <1>1, <1>3, EmptyFacts DEF Injective, Tasked, FreshEmpty, UnderWayIsSent
<1>5. \A n \in Msgs : OnePlace(n)'
  BY <1>1, <1>2 DEF OnePlace
<1>6. QED
  BY <1>3, <1>4, <1>5 DEF UInv

-----------------------------------------------------------------------------
(* Every step is a step of the promise, or none. *)

LEMMA Lost ==
  ASSUME TypeOK, InFlight' \subseteq InFlight, UNCHANGED <<sent, received, offline>>
  PROVE  [Promise!DNext]_(Promise!dvars)
<1> DEFINE S == InFlight \ InFlight'
<1>1. S \in SUBSET InFlight /\ InFlight' = InFlight \ S
  OBVIOUS
<1>2. CASE S = {}
  BY <1>1, <1>2 DEF Promise!dvars
<1>3. CASE S # {}
  BY <1>1, <1>3 DEF Promise!DNext, Promise!Lose
<1>4. QED
  BY <1>2, <1>3

LEMMA StepKeepsPromise ==
  ASSUME TypeOK, TypeOK', UInv, MapOwn, [Next]_vars
  PROVE  UInv' /\ [Promise!DNext]_(Promise!dvars)
<1>1. CASE UNCHANGED vars
  BY <1>1, PlacesKept, Lost DEF vars, ioVars, workVars, redisVars, dbVars
<1>2. ASSUME NEW c \in Conns, Connect(c) \/ ClientGone(c)
      PROVE  UInv' /\ [Promise!DNext]_(Promise!dvars)
  BY <1>2, ConnectPlaces, GonePlaces, Lost DEF Connect, ClientGone, dbVars
<1>3. ASSUME NEW c \in Conns, NEW m \in Msgs, ClientSends(c, m)
      PROVE  UInv' /\ [Promise!DNext]_(Promise!dvars)
  BY <1>3, SendsPlaces DEF ClientSends, dbVars, Promise!DNext, Promise!Send
<1>4. ASSUME NEW c \in Conns, IOThread(c)
      PROVE  UInv' /\ [Promise!DNext]_(Promise!dvars)
  <2>1. CASE HandleLogin(c)
    BY <2>1, LoginPlaces, Lost DEF HandleLogin, dbVars
  <2>2. CASE HandleChat(c)
    BY <2>2, ChatPlaces, Lost DEF HandleChat, dbVars
  <2>3. CASE \/ LoginSubscribe(c) \/ LoginOnline(c)
             \/ HandleDown(c) \/ DownOffline(c) \/ DownErase(c)
    <3>1. UNCHANGED <<peer, inbox, sendMsg, worker, task, pushes, sent, received, offline>>
      BY <2>3 DEF LoginSubscribe, LoginOnline, HandleDown, DownOffline, DownErase,
                  workVars, redisVars, dbVars
    <3>2. QED
      BY <3>1, PlacesKept, Lost
  <2>4. QED
    BY <1>4, <2>1, <2>2, <2>3 DEF IOThread
<1>5. ASSUME NEW w \in Workers, WorkerThread(w)
      PROVE  UInv' /\ [Promise!DNext]_(Promise!dvars)
  <2>1. CASE Pop(w)
    BY <2>1, PopPlaces, Lost DEF Pop, dbVars
  <2>2. CASE Query(w)
    BY <2>2, QueryPlaces, Lost DEF Query, dbVars
  <2>3. CASE Publish(w)
    BY <2>3, PublishPlaces, Lost DEF Publish, dbVars
  <2>4. CASE Store(w)
    <3>1. PICK m \in Msgs : /\ m \in InFlight /\ InFlight' = InFlight \ {m}
                            /\ offline' = Append(offline, m) \/ offline' = offline
      BY <2>4, StorePlaces
    <3>2. UNCHANGED <<sent, received>> /\ UInv'
      BY <2>4, StorePlaces DEF Store
    <3>3. CASE offline' = Append(offline, m)
      BY <3>1, <3>2, <3>3 DEF Promise!DNext, Promise!Store
    <3>4. CASE offline' = offline
      BY <3>1, <3>2, <3>4, Lost
    <3>5. QED
      BY <3>1, <3>2, <3>3, <3>4
  <2>5. QED
    BY <1>5, <2>1, <2>2, <2>3, <2>4 DEF WorkerThread
<1>6. CASE RedisApplies
  <2>1. UNCHANGED <<peer, inbox, sendMsg, worker, task, pushes, sent, received, offline>>
    BY <1>6 DEF RedisApplies, ioVars, workVars, dbVars
  <2>2. QED
    BY <2>1, PlacesKept, Lost
<1>7. CASE Observe
  <2>1. PICK m \in Msgs : /\ m \in InFlight /\ InFlight' = InFlight \ {m}
                          /\ \/ \E c \in Conns :
                                   /\ UserOf[c] = Addressee[m]
                                   /\ received' = [received EXCEPT ![c] = Append(@, m)]
                             \/ received' = received
    BY <1>7, ObservePlaces
  <2>2. UNCHANGED <<sent, offline>> /\ UInv'
    BY <1>7, ObservePlaces DEF Observe, dbVars
  <2>3. ASSUME NEW c \in Conns, UserOf[c] = Addressee[m],
               received' = [received EXCEPT ![c] = Append(@, m)]
        PROVE  Promise!DNext
    BY <2>1, <2>2, <2>3 DEF Promise!DNext, Promise!Deliver
  <2>4. CASE received' = received
    BY <2>1, <2>2, <2>4, Lost
  <2>5. QED
    BY <2>1, <2>2, <2>3, <2>4
<1>8. CASE Restart
  BY <1>8, RestartPlaces, Lost DEF Restart, dbVars
<1>9. QED
  BY <1>1, <1>2, <1>3, <1>4, <1>5, <1>6, <1>7, <1>8 DEF Next

(* Whatever IO threads, workers, the observer, Redis, the tables and restarts do, a
   message is handed over once to its addressee, stored once, or lost
   (chatserver.cc:21-44, 52-63, 91-96). *)
THEOREM KeepsPromise == Spec => DeliversAtMostOnce
<1>1. Init => Promise!DInit
  BY UInit DEF Init, Promise!DInit
<1>2. Init => UInv
  BY UInit
<1>3. TypeOK /\ Presence /\ (TypeOK /\ Presence)' /\ UInv /\ [Next]_vars
      => UInv' /\ [Promise!DNext]_(Promise!dvars)
  BY StepKeepsPromise DEF Presence
<1>4. QED
  BY <1>1, <1>2, <1>3, PresenceInvariant, PTL DEF Spec, DeliversAtMostOnce, Promise!DSafety

(* What Delivery's promise comes to holds of the server. *)
Kept == INSTANCE DeliveryProofs WITH pending <- InFlight

LEMMA SamePromise == DeliversAtMostOnce => Kept!DSafety
<1>1. Promise!DInit => Kept!DInit
  BY DEF Promise!DInit, Kept!DInit
<1>2. [Promise!DNext]_(Promise!dvars) => [Kept!DNext]_(Kept!dvars)
  BY DEF Promise!DNext, Promise!Send, Promise!Store, Promise!Deliver, Promise!Lose,
         Promise!dvars, Kept!DNext, Kept!Send, Kept!Store, Kept!Deliver, Kept!Lose,
         Kept!dvars
<1>3. QED
  BY <1>1, <1>2, PTL DEF DeliversAtMostOnce, Promise!DSafety, Kept!DSafety

(* No message reaches a client twice, or becomes two rows, or both, and one that is
   under way has done neither (chatserver.cc:21-44, 52-63). *)
THEOREM HandedOnce == Spec => []Promise!AtMostOnce
<1>1. Kept!DSafety => []Kept!AtMostOnce
  BY Kept!OncePromised
<1>2. Kept!AtMostOnce => Promise!AtMostOnce
  BY DEF Kept!AtMostOnce, Promise!AtMostOnce, Kept!Rows, Promise!Rows
<1>3. QED
  BY <1>1, <1>2, KeepsPromise, SamePromise, PTL

(* Nobody is handed a message for somebody else, whoever logs in and out meanwhile
   (chatserver.cc:52-63, 83-86, 104-110). *)
THEOREM HandedRightly == Spec => []Promise!RightRecipient
<1>1. Kept!DSafety => []Kept!RightRecipient
  BY Kept!RightlyPromised
<1>2. Kept!RightRecipient => Promise!RightRecipient
  BY DEF Kept!RightRecipient, Promise!RightRecipient
<1>3. QED
  BY <1>1, <1>2, KeepsPromise, SamePromise, PTL

=============================================================================
