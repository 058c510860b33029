------------------------------- MODULE GroupChat -------------------------------
(***************************************************************************)
(* The GroupChat service, example/callee/groupservice.cc, between the      *)
(* groupinfo and groupuser tables and Redis.                               *)
(*                                                                         *)
(* Its constructor reads the members of every group into the map `group',  *)
(* which no method changes.  The methods run in the provider's IO threads, *)
(* several at a time; a step ends where a thread calls the database or     *)
(* Redis, or answers.                                                      *)
(***************************************************************************)
EXTENDS Naturals, Sequences, FiniteSets

CONSTANTS Users,       \* the user ids
          Groups,      \* the group ids, which MySQL gives out once each
          Msgs,        \* the group messages, each sent by one call
          GroupOf,     \* the groupid field of each
          Threads,     \* the IO threads of RpcProvider::Run
          DbFails,     \* whether a MySQL statement may fail
          MaxReceivers,  \* bound: rows in groupuser
          MaxRestarts  \* bound: how often the provider is killed and restarted

ASSUME GroupAssumption ==
  /\ GroupOf \in [Msgs -> Groups]
  /\ DbFails \in BOOLEAN
  /\ MaxReceivers \in Nat
  /\ MaxRestarts \in Nat

VARIABLES
  groupinfo,  \* the groups in the table
  groupuser,  \* the rows of groupuser: pairs of a group and a user
  phase,      \* of the process: "groups", "members" in initGroup, "running"
  toRead,     \* the groups whose members initGroup has to read
  group,      \* the cached member lists
  unread,     \* groups whose rows a failed select has kept from the cache
  rowsAtStart, \* how many of each row, of the groups in groupinfo, there were
               \* when the constructor began
  at,         \* where each IO thread is
  row,        \* the row it has to insert: one, or none
  task,       \* the message it publishes: one, or none
  left,       \* the members it has still to publish it to
  started, answered, \* the messages whose call has begun, has been answered
  before,     \* the messages answered when each one's call began
  posted,     \* what has been published to each user's channel, in order
  lost,       \* publications without effect: pairs of a message and a user
  expected,   \* how often each user is due each message by rowsAtStart; never,
              \* if the rows of its group could not be read
  crowded,    \* messages published while another thread was in publish
  restarts

tableVars == <<groupinfo, groupuser>>
cacheVars == <<phase, toRead, group, unread, rowsAtStart>>
threadVars == <<at, row, task, left>>
fateVars == <<started, answered, before, posted, lost, expected, crowded>>
vars == <<tableVars, cacheVars, threadVars, fateVars, restarts>>

Rows == Groups \X Users

(* How often x stands in s. *)
Times(x, s) == Cardinality({i \in DOMAIN s : s[i] = x})

TypeOK ==
  /\ groupinfo \in SUBSET Groups
  /\ groupuser \in Seq(Rows)
  /\ phase \in {"groups", "members", "running"}
  /\ toRead \in SUBSET Groups
  /\ group \in [Groups -> Seq(Users)]
  /\ unread \in SUBSET Groups
  /\ rowsAtStart \in [Rows -> Nat]
  /\ at \in [Threads -> {"idle", "add", "publish", "hung"}]
  /\ row \in [Threads -> SUBSET Rows]
  /\ task \in [Threads -> SUBSET Msgs]
  /\ left \in [Threads -> Seq(Users)]
  /\ started \in SUBSET Msgs
  /\ answered \in SUBSET Msgs
  /\ before \in [Msgs -> SUBSET Msgs]
  /\ posted \in [Users -> Seq(Msgs)]
  /\ lost \in Seq(Msgs \X Users)
  /\ expected \in [Msgs -> [Users -> Nat]]
  /\ crowded \in SUBSET Msgs
  /\ restarts \in 0..MaxRestarts

Init ==
  /\ groupinfo = {}
  /\ groupuser = <<>>
  /\ phase = "groups"
  /\ toRead = {}
  /\ group = [g \in Groups |-> <<>>]
  /\ unread = {}
  /\ rowsAtStart = [r \in Rows |-> 0]
  /\ at = [t \in Threads |-> "idle"]
  /\ row = [t \in Threads |-> {}]
  /\ task = [t \in Threads |-> {}]
  /\ left = [t \in Threads |-> <<>>]
  /\ started = {}
  /\ answered = {}
  /\ before = [m \in Msgs |-> {}]
  /\ posted = [u \in Users |-> <<>>]
  /\ lost = <<>>
  /\ expected = [m \in Msgs |-> [u \in Users |-> 0]]
  /\ crowded = {}
  /\ restarts = 0

-----------------------------------------------------------------------------
(* initGroup *)

(* The users of the rows of group g, in the order of the rows: the k-th is in
   the row that has k of the group's rows up to and with it. *)
RowsOf(rows, g) == {i \in DOMAIN rows : rows[i][1] = g}
UpTo(own, i) == {j \in own : j <= i}
Nth(own, k) == CHOOSE i \in own : Cardinality(UpTo(own, i)) = k
UsersIn(rows, g) ==
  [k \in 1..Cardinality(RowsOf(rows, g)) |-> rows[Nth(RowsOf(rows, g), k)][2]]

(* getAllgroup; a failed select gives none. *)
ReadGroups ==
  /\ phase = "groups"
  /\ phase' = "members"
  /\ \/ toRead' = groupinfo /\ UNCHANGED unread
     \/ DbFails /\ toRead' = {} /\ unread' = groupinfo
  /\ UNCHANGED <<tableVars, group, rowsAtStart, threadVars, fateVars, restarts>>

(* getMember, for one group after the other. *)
ReadMembers(g) ==
  /\ phase = "members" /\ g \in toRead
  /\ toRead' = toRead \ {g}
  /\ \/ group' = [group EXCEPT ![g] = UsersIn(groupuser, g)] /\ UNCHANGED unread
     \/ DbFails /\ unread' = unread \cup {g} /\ UNCHANGED group
  /\ UNCHANGED <<tableVars, phase, rowsAtStart, threadVars, fateVars, restarts>>

(* provider.Run *)
Run ==
  /\ phase = "members" /\ toRead = {}
  /\ phase' = "running"
  /\ UNCHANGED <<tableVars, toRead, group, unread, rowsAtStart, threadVars, fateVars, restarts>>

-----------------------------------------------------------------------------
(* The methods, in IO thread t *)

Free(t) == phase = "running" /\ at[t] = "idle"
RowsLeft == Len(groupuser) + Cardinality({t \in Threads : at[t] = "add"}) < MaxReceivers

(* createGroup: insertGroup ... *)
InsertGroup(t, u) ==
  /\ Free(t) /\ RowsLeft
  /\ \E g \in Groups \ groupinfo :
       /\ groupinfo' = groupinfo \cup {g}
       /\ row' = [row EXCEPT ![t] = {<<g, u>>}]
  /\ at' = [at EXCEPT ![t] = "add"]
  /\ UNCHANGED <<groupuser, cacheVars, task, left, fateVars, restarts>>

(* A mutant: the two ids in the other order. *)
AddGroup_Swapped(t, u, g) ==
  /\ Free(t) /\ RowsLeft
  /\ row' = [row EXCEPT ![t] = {<<u, g>>}]
  /\ at' = [at EXCEPT ![t] = "add"]
  /\ UNCHANGED <<tableVars, cacheVars, task, left, fateVars, restarts>>

(* AddGroup: the group need not exist. *)
AddGroup(t, u, g) ==
  /\ Free(t) /\ RowsLeft
  /\ row' = [row EXCEPT ![t] = {<<g, u>>}]
  /\ at' = [at EXCEPT ![t] = "add"]
  /\ UNCHANGED <<tableVars, cacheVars, task, left, fateVars, restarts>>

(* ... and Add, which ends both: addGroup inserts the row, whether there is
   such a row or not. *)
Add(t) ==
  /\ at[t] = "add"
  /\ \E r \in row[t] : \/ groupuser' = Append(groupuser, r)
                       \/ DbFails /\ UNCHANGED groupuser
  /\ row' = [row EXCEPT ![t] = {}]
  /\ at' = [at EXCEPT ![t] = "idle"]
  /\ UNCHANGED <<groupinfo, cacheVars, task, left, fateVars, restarts>>

(* What the rows at the start promise a message of group g; no part of the code. *)
DueBy(g) == [u \in Users |-> IF g \in unread THEN 0 ELSE rowsAtStart[<<g, u>>]]

(* A mutant: the table is asked instead of the cache. *)
SendMsg_Table(t, m) ==
  /\ Free(t) /\ m \notin started
  /\ started' = started \cup {m}
  /\ before' = [before EXCEPT ![m] = answered]
  /\ task' = [task EXCEPT ![t] = {m}]
  /\ left' = [left EXCEPT ![t] = UsersIn(groupuser, GroupOf[m])]
  /\ expected' = [expected EXCEPT ![m] = DueBy(GroupOf[m])]
  /\ at' = [at EXCEPT ![t] = "publish"]
  /\ UNCHANGED <<tableVars, cacheVars, row, answered, posted, lost, crowded, restarts>>

(* SendMsg takes the list of its group. *)
SendMsg(t, m) ==
  /\ Free(t) /\ m \notin started
  /\ started' = started \cup {m}
  /\ before' = [before EXCEPT ![m] = answered]
  /\ task' = [task EXCEPT ![t] = {m}]
  /\ left' = [left EXCEPT ![t] = group[GroupOf[m]]]
  /\ expected' = [expected EXCEPT ![m] = DueBy(GroupOf[m])]
  /\ at' = [at EXCEPT ![t] = "publish"]
  /\ UNCHANGED <<tableVars, cacheVars, row, answered, posted, lost, crowded, restarts>>

(* The threads in publish. *)
Waiting == {t \in Threads : at[t] = "hung" \/ (at[t] = "publish" /\ left[t] # <<>>)}
Crowd(t) == IF Waiting = {t} THEN {} ELSE UNION {task[v] : v \in Waiting}

(* Redis's reply to a PUBLISH ends the call that waits for it.  When two
   threads wait on the one _publish_context, either may read it; the other one
   then waits for the reply to some later PUBLISH. *)
TakesReply(t) ==
  \/ UNCHANGED at
  \/ \E v \in Waiting \ {t} : at' = [at EXCEPT ![t] = "hung", ![v] = "publish"]

(* A mutant: each member gets the message twice. *)
Publish_Again(t) ==
  /\ at[t] = "publish" /\ left[t] # <<>>
  /\ \E m \in task[t] :
        posted' = [posted EXCEPT ![Head(left[t])] = Append(Append(@, m), m)]
  /\ left' = [left EXCEPT ![t] = Tail(@)]
  /\ UNCHANGED <<tableVars, cacheVars, at, row, task, started, answered, before, lost,
                 expected, crowded, restarts>>

(* Redis::publish to the next member.  Its channel is the text of a string that
   is gone when the command is written: it may still be there, or be something
   nobody has subscribed to. *)
Publish(t) ==
  /\ at[t] = "publish" /\ left[t] # <<>>
  /\ \E m \in task[t] :
       \/ /\ posted' = [posted EXCEPT ![Head(left[t])] = Append(@, m)]
          /\ UNCHANGED lost
       \/ /\ lost' = Append(lost, <<m, Head(left[t])>>)
          /\ UNCHANGED posted
  /\ left' = [left EXCEPT ![t] = Tail(@)]
  /\ TakesReply(t)
  /\ crowded' = crowded \cup Crowd(t)
  /\ UNCHANGED <<tableVars, cacheVars, row, task, started, answered, before, expected,
                 restarts>>

(* A mutant: done->Run() before Sendmsg. *)
Answer_Early(t) ==
  /\ at[t] = "publish"
  /\ answered' = answered \cup task[t]
  /\ IF left[t] = <<>>
     THEN at' = [at EXCEPT ![t] = "idle"] /\ task' = [task EXCEPT ![t] = {}]
     ELSE UNCHANGED <<at, task>>
  /\ UNCHANGED <<tableVars, cacheVars, row, left, started, before, posted, lost, expected,
                 crowded, restarts>>

(* A mutant: done->Run() only if the group is found. *)
Answer_IfFound(t) ==
  /\ at[t] = "publish" /\ left[t] = <<>>
  /\ \A m \in task[t] : group[GroupOf[m]] # <<>>
  /\ answered' = answered \cup task[t]
  /\ at' = [at EXCEPT ![t] = "idle"]
  /\ task' = [task EXCEPT ![t] = {}]
  /\ UNCHANGED <<tableVars, cacheVars, row, left, started, before, posted, lost, expected,
                 crowded, restarts>>

(* done->Run() *)
Answer(t) ==
  /\ at[t] = "publish" /\ left[t] = <<>>
  /\ answered' = answered \cup task[t]
  /\ at' = [at EXCEPT ![t] = "idle"]
  /\ task' = [task EXCEPT ![t] = {}]
  /\ UNCHANGED <<tableVars, cacheVars, row, left, started, before, posted, lost, expected,
                 crowded, restarts>>

(* The rows initGroup is going to find, if no statement fails. *)
RowsNow == [r \in Rows |-> IF r[1] \in groupinfo THEN Times(r, groupuser) ELSE 0]

(* bin/stop.sh and bin/start.sh, or a crash: the tables stay. *)
Restart ==
  /\ phase = "running" /\ restarts < MaxRestarts
  /\ restarts' = restarts + 1
  /\ phase' = "groups"
  /\ toRead' = {}
  /\ group' = [g \in Groups |-> <<>>]
  /\ unread' = {}
  /\ rowsAtStart' = RowsNow
  /\ at' = [t \in Threads |-> "idle"]
  /\ row' = [t \in Threads |-> {}]
  /\ task' = [t \in Threads |-> {}]
  /\ left' = [t \in Threads |-> <<>>]
  /\ UNCHANGED <<tableVars, fateVars>>

-----------------------------------------------------------------------------
IOThread(t) == Add(t) \/ Publish(t) \/ Answer(t)

Next ==
  \/ ReadGroups \/ Run \/ Restart
  \/ \E g \in Groups : ReadMembers(g)
  \/ \E t \in Threads :
       \/ IOThread(t)
       \/ \E u \in Users : \/ InsertGroup(t, u)
                           \/ \E g \in Groups : AddGroup(t, u, g)
       \/ \E m \in Msgs : SendMsg(t, m)

Spec == Init /\ [][Next]_vars

(* The IO threads are scheduled and MySQL and Redis answer; which calls come is
   open. *)
FairSpec == Spec /\ \A t \in Threads : WF_vars(IOThread(t))

-----------------------------------------------------------------------------
(* Properties *)

(* The receivers a message is still due to, as a call in some thread has them. *)
Due == [m \in Msgs |-> LET T == {t \in Threads : m \in task[t]}
                       IN IF T = {} THEN <<>> ELSE left[CHOOSE t \in T : TRUE]]

Promise == INSTANCE Broadcast WITH due <- Due

(* Whatever the threads, the cache, failed statements and restarts do, a call
   has one list of receivers from its start and posts to each entry once, in
   order, before it is answered (groupservice.cc:19-36, 88-97). *)
ImplementsBroadcast == Promise!BSpec

(* Two messages of which one is sent when the other's call has been answered
   come in that order on every channel, whichever threads serve them. *)
AnsweredFirst == Promise!AnsweredFirst

(* When the call is answered, every row of the group that was there when the
   provider started has had its publication, one per row: a member who joined
   twice gets the message twice, one who has joined since gets none, and nobody
   does if the group's rows could not be read (groupservice.cc:19-36, 98-108). *)
OncePerOldRow ==
  \A m \in answered : \A u \in Users :
     Times(m, posted[u]) + Times(<<m, u>>, lost) = expected[m][u]

(* A call that meets no other thread in publish is answered, or the provider
   goes down first; one that meets another may wait for ever. *)
SentIsAnswered ==
  \A m \in Msgs :
     m \in started ~> m \in answered \/ m \in crowded \/ \A t \in Threads : m \notin task[t]

=============================================================================
