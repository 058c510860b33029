-------------------------------- MODULE Session --------------------------------
(***************************************************************************)
(* A chat client from its login on: RpcClient (example/tool/rpcclient.cpp) *)
(* with the menu of example/caller/main.cpp in the console's thread and    *)
(* the chat connection's callbacks in the loop's thread.                   *)
(*                                                                         *)
(* Remote calls go to the Services, in one step each, with the ends that   *)
(* RpcCall finds them to have.  The chat server is what Delivery says: it  *)
(* hands a message over on the connection, or stores a row of it.  Both    *)
(* threads write the LocalHistory.                                         *)
(***************************************************************************)
EXTENDS LocalHistory, Services, Frames

CONSTANTS Me, Others,   \* the user of this client, and other ones
          Friendship,   \* pairs of users
          Incoming,     \* messages for this client: [as, value], as being
                        \* "friend" or "group", the texts being distinct
          Outgoing,     \* what the user will send, in order: [to, text]
          Now,          \* the clock of the client
          MaxCommands,  \* bound: commands at the menu
          MaxFaults,    \* bound: remote calls that do not go well
          MaxConnects,  \* bound: connections to the chat server
          MaxGroups     \* bound: groups in groupinfo

ASSUME BoundsAssumption ==
  MaxCommands \in Nat /\ MaxFaults \in Nat /\ MaxConnects \in Nat /\ MaxGroups \in Nat

(* MySQL numbers the users from 1. *)
ASSUME UsersAssumption ==
  /\ Me \in Nat \ {0} /\ Others \subseteq Nat \ {0} /\ Me \notin Others
  /\ IsFiniteSet(Others)
  /\ Friendship \subseteq ({Me} \cup Others) \X ({Me} \cup Others)

(* What other clients send is a whole message, and their sendMessage and
   sendGroupMessage say in method which. *)
NameOf(m) == IF m.as = "friend" THEN "ChatMessage" ELSE "GroupMessage"
ASSUME IncomingAssumption ==
  \A m \in Incoming :
     /\ m.as \in {"friend", "group"} /\ m = [as |-> m.as, value |-> m.value]
     /\ m.value = New(NameOf(m), m.value) /\ m.value.unknown = <<>>
     /\ m.value.method = IF m.as = "friend" THEN 1 ELSE 2

VARIABLES
  db,        \* the tables behind the services
  pc,        \* what the console's thread does next; "hung" in a call without
             \* an answer, "crashed" when the process has ended
  todo,      \* what it has to do to the local history before that
  friends,   \* friendsList_ of user_
  groups,    \* group of user_
  joined,    \* the groups joingroup has reported success for
  shownRows, \* the rows of offline_message that have been printed
  commands, faults, connects,
  link,      \* the chat connection: "none", "assigning" while OnConnection
             \* writes myconn_, "up", "down"
  queued,    \* frames of the console's thread that wait for the loop's
  wrote,     \* frames written to the connection
  stream,    \* bytes of the server on their way
  buffer,    \* those that muduo's buffer holds
  loop,      \* whether the loop's thread is in OnMessage: "ready", "reading"
  handed,    \* messages the server has handed over on this connection
  shown,     \* messages printed that came on this connection
  used       \* messages that have been handed over or stored

consoleVars == <<pc, todo, friends, groups, joined, shownRows>>
linkVars == <<link, connects, wrote, stream, buffer, loop, handed, shown>>
boundVars == <<commands, faults>>
vars == <<histVars, db, consoleVars, linkVars, queued, used, boundVars>>

Console == "console"
Loop == "loop"
ASSUME ThreadsAssumption == Threads = {Console, Loop}

FriendTable(id) == <<"friend", id>>
GroupTable(id) == <<"group", id>>

TypeOK ==
  /\ HistTypeOK
  /\ pc \in {"login", "friends", "groups", "offline", "menu", "regroup",
             "hung", "crashed"}
  /\ joined \subseteq Nat
  /\ link \in {"none", "assigning", "up", "down"}
  /\ loop \in {"ready", "reading"}
  /\ used \subseteq Incoming
  /\ Range(shown) \subseteq [as : {"friend", "group"}, value : {m.value : m \in Incoming}]
  /\ DOMAIN db = DOMAIN Tables0({}, {})

Init ==
  /\ HistInit
  /\ db = Tables0({[userid |-> u, nickname |-> "nick", online |-> "1"] :
                     u \in {Me} \cup Others}, Friendship)
  /\ pc = "login" /\ todo = <<>>
  /\ friends = <<>> /\ groups = <<>>
  /\ joined = {} /\ shownRows = <<>>
  /\ commands = 0 /\ faults = 0 /\ connects = 0
  /\ link = "none" /\ queued = <<>> /\ wrote = <<>>
  /\ stream = <<>> /\ buffer = <<>> /\ loop = "ready"
  /\ handed = <<>> /\ shown = <<>> /\ used = {}

-----------------------------------------------------------------------------
(* Remote calls *)

AllOk == [i \in 1..2 |-> TRUE]
End(left, how, response) == [db |-> left, end |-> how, response |-> response]

(* A call that goes well, and what else may come of one: it fails before or
   after the method has run; the provider ends, and the end of the connection
   is an empty response; the provider gets a first piece of the frame that ends
   before the arguments, and dies, or in the arguments, and runs the method
   with what it has got, or is told to drop it and leaves the client waiting;
   a statement fails; the response is cut. *)
GoesWell(frame) ==
  {End(s.db, "ok", s.response) : s \in Served(frame, db, AllOk)}

Pieces(frame) ==
  {[frame EXCEPT !.rest = SubSeq(@, 1, n)] : n \in frame.header_size..Len(frame.rest)}
Partly(frame) == UNION {Served(piece, db, ok) : piece \in Pieces(frame), ok \in [1..2 -> BOOLEAN]}
GoesWrong(frame) ==
  {End(db, "failed", <<>>), End(db, "hung", <<>>), End(db, "ok", <<>>)}
  \cup UNION {{End(s.db, "failed", <<>>)} \cup {End(s.db, "ok", p) : p \in Prefixes(s.response)} :
               s \in Partly(frame)}

(* CallMethod of the stub: its ends, each with how many faults it had. *)
Ends(frame) ==
  {[end |-> e, faults |-> 0] : e \in GoesWell(frame)}
  \cup (IF faults < MaxFaults THEN {[end |-> e, faults |-> 1] : e \in GoesWrong(frame)} ELSE {})
Call(service, method, request, Then(_)) ==
  \E e \in Ends(RequestFrame(service, method,
                            Serialize(ServiceMap[service][method][1], request))) :
     /\ faults' = faults + e.faults
     /\ db' = e.end.db
     /\ Then(e.end)

(* SetFailed of a null controller ends the process. *)
Crashes(e) == e.end = "failed" /\ pc' = "crashed"
Hangs(e) == e.end = "hung" /\ pc' = "hung"

(* result().errcode() *)
Errcode(response) == IF response.result = <<>> THEN 0 ELSE response.result[1].errcode

(* The console's thread is free for what pc says. *)
AtConsole(place) == pc = place /\ todo = <<>> /\ Idle(Console)

Create(n) == [op |-> "create", table |-> n]
Insert(n, r) == [op |-> "insert", table |-> n, row |-> r]
HistoryRow(user, name, text, time) ==
  [user |-> user, username |-> name, msg |-> text, msgtime |-> time]

-----------------------------------------------------------------------------
(* Login, and the calls it makes *)

Login ==
  /\ AtConsole("login")
  /\ Call("UserServiceRpc", "Login",
          New("LoginRequest", [username |-> Me, pwd |-> "pwd"]),
          LAMBDA e : \/ Crashes(e)
                     \/ Hangs(e)
                     \/ /\ e.end = "ok"
                        /\ pc' = IF Errcode(Parse("LoginResponse", e.response)) = 0
                                 THEN "friends" ELSE "login")
  /\ UNCHANGED <<histVars, todo, friends, groups, joined, shownRows, linkVars,
                 queued, used, commands>>

(* A failed GetFriendsList, or one with an error code, leaves an empty list. *)
FriendsIn(r) == IF Errcode(r) = 0 THEN r.friends ELSE <<>>
ListsFriends(list) ==
  /\ friends' = list
  /\ todo' = [i \in DOMAIN list |-> Create(FriendTable(list[i].userid))]
  /\ pc' = "groups"

GetFriendList ==
  /\ AtConsole("friends")
  /\ Call("FiendServiceRpc", "GetFriendsList",
          New("GetFriendsListRequest", [userid |-> Me]),
          LAMBDA e : \/ Hangs(e) /\ UNCHANGED <<todo, friends>>
                     \/ e.end = "failed" /\ ListsFriends(<<>>)
                     \/ /\ e.end = "ok"
                        /\ ListsFriends(FriendsIn(Parse("GetFriendsListResponse", e.response))))
  /\ UNCHANGED <<histVars, groups, joined, shownRows, linkVars, queued, used, commands>>

(* A failed GetGroup leaves an empty list. *)
ListsGroups(list, next) ==
  /\ groups' = list
  /\ todo' = [i \in DOMAIN list |-> Create(GroupTable(list[i].groupid))]
  /\ pc' = next

GetGroups(place, next) ==
  /\ AtConsole(place)
  /\ Call("RpcGroupChat", "GetGroup", New("getGroupRequest", [userid |-> Me]),
          LAMBDA e : \/ Hangs(e) /\ UNCHANGED <<todo, groups>>
                     \/ e.end = "failed" /\ ListsGroups(<<>>, next)
                     \/ /\ e.end = "ok"
                        /\ ListsGroups(Parse("getGroupResponse", e.response).group, next))
  /\ UNCHANGED <<histVars, friends, joined, shownRows, linkVars, queued, used, commands>>

(* A mutant: the method is not looked at. *)
Shows_ChatOnly(body) ==
  LET chat == Parse("ChatMessage", body)
  IN IF chat.method = 0 THEN {} ELSE {[as |-> "friend", value |-> chat]}

(* What OnMessage and GetOfflinemsg do with a body: it is read as a
   ChatMessage, and again as a GroupMessage when its method says so. *)
Meant(chat, body) ==
  CASE chat.method = 1 -> {[as |-> "friend", value |-> chat]}
    [] chat.method = 2 -> {[as |-> "group", value |-> Parse("GroupMessage", body)]}
    [] OTHER -> {}
Shows(body) == Meant(Parse("ChatMessage", body), body)

TableOf(m) == IF m.as = "friend" THEN FriendTable(m.value.friendid)
                                 ELSE GroupTable(m.value.groupid)
(* A mutant: the receiver's id is recorded. *)
RowOf_Receiver(m) ==
  HistoryRow(m.value.userid, IF m.as = "friend" THEN m.value.friendname ELSE m.value.membername,
             m.value.msg, m.value.send_time)

RowOf(m) ==
  IF m.as = "friend"
  THEN HistoryRow(m.value.friendid, m.value.friendname, m.value.msg, m.value.send_time)
  ELSE HistoryRow(m.value.memberid, m.value.membername, m.value.msg, m.value.send_time)

(* The history has a table for each friend and group and a row for each message,
   which their texts tell apart. *)
ASSUME TablesAssumption ==
  /\ \A u \in {Me} \cup Others : FriendTable(u) \in Tables
  /\ \A g \in 1..MaxGroups : GroupTable(g) \in Tables
  /\ \A m \in Incoming : TableOf(m) \in Tables /\ RowOf(m) \in Rows
  /\ \A i \in DOMAIN Outgoing :
        /\ FriendTable(Outgoing[i].to) \in Tables
        /\ HistoryRow(Me, "", Outgoing[i].text, Now) \in Rows

ASSUME TextsAssumption ==
  /\ \A m, o \in Incoming : m.value.msg = o.value.msg => m = o
  /\ \A i, j \in DOMAIN Outgoing : Outgoing[i].text = Outgoing[j].text => i = j
  /\ \A m \in Incoming : \A i \in DOMAIN Outgoing : m.value.msg # Outgoing[i].text

(* GetOfflinemsg: rows of more than four bytes are shown without their first
   four, and recorded. *)
ShownOf(stored) ==
  FlattenSeq([i \in DOMAIN stored |->
    IF Len(stored[i]) > 4 THEN SetToSeq(Shows(SubSeq(stored[i], 5, Len(stored[i])))) ELSE <<>>])
PrintOffline(seen) ==
  /\ shownRows' = shownRows \o seen
  /\ todo' = [i \in DOMAIN seen |-> Insert(TableOf(seen[i]), RowOf(seen[i]))]
  /\ pc' = "menu"

GetOfflinemsg ==
  /\ AtConsole("offline")
  /\ Call("UserServiceRpc", "Getoffline", New("offlineMsgRequest", [userid |-> Me]),
          LAMBDA e : \/ (Crashes(e) \/ Hangs(e)) /\ UNCHANGED <<todo, shownRows>>
                     \/ e.end = "ok" /\ PrintOffline(ShownOf(Parse("offlineMsgResponse", e.response).msg)))
  /\ UNCHANGED <<histVars, friends, groups, joined, linkVars, queued, used, commands>>

-----------------------------------------------------------------------------
(* The menu *)

AtMenu == AtConsole("menu") /\ commands < MaxCommands /\ commands' = commands + 1

(* A mutant: the frame is written by the console's thread. *)
Write_Direct(frame) == wrote' = Append(wrote, frame) /\ UNCHANGED queued

(* TcpConnection::send in another thread than the loop's leaves the writing to
   the loop. *)
Write(frame) == queued' = Append(queued, frame) /\ UNCHANGED wrote

ChatFrame(to, text) ==
  Frame(Serialize("ChatMessage", New("ChatMessage",
    [method |-> 1, userid |-> to, friendid |-> Me, msg |-> text, send_time |-> Now])))

(* sendMessage.  The user's name is that of the login's response, which the
   service leaves empty.  Reading myconn_ while it is assigned may find it as
   it was, as it will be, or neither, which ends the process. *)
SendMessage(to, text) ==
  /\ AtMenu
  /\ \/ /\ link \in {"none", "assigning", "down"}
        /\ UNCHANGED <<pc, todo, queued, wrote>>
     \/ /\ link \in {"assigning", "up"}
        /\ Write(ChatFrame(to, text))
        /\ todo' = <<Insert(FriendTable(to), HistoryRow(Me, "", text, Now))>>
        /\ UNCHANGED pc
     \/ /\ link = "assigning"
        /\ pc' = "crashed"
        /\ UNCHANGED <<todo, queued, wrote>>
  /\ UNCHANGED <<histVars, db, friends, groups, joined, shownRows, link, connects,
                 stream, buffer, loop, handed, shown, used, faults>>

CreateGroup ==
  /\ AtMenu
  /\ Len(db.groupinfo) < MaxGroups
  /\ Call("RpcGroupChat", "createGroup",
          New("createGroupRequest", [userid |-> Me, createTime |-> Now]),
          LAMBDA e : Crashes(e) \/ Hangs(e) \/ (e.end = "ok" /\ pc' = "regroup"))
  /\ UNCHANGED <<histVars, todo, friends, groups, joined, shownRows, linkVars, queued, used>>

JoinGroup(groupid) ==
  /\ AtMenu
  /\ Call("RpcGroupChat", "AddGroup",
          New("AddGroupRequest", [userid |-> Me, groupid |-> groupid]),
          LAMBDA e : \/ Crashes(e) /\ UNCHANGED joined
                     \/ Hangs(e) /\ UNCHANGED joined
                     \/ /\ e.end = "ok"
                        /\ IF Errcode(Parse("AddGroupResponse", e.response)) = 0
                           THEN joined' = joined \cup {groupid} /\ pc' = "regroup"
                           ELSE UNCHANGED <<pc, joined>>)
  /\ UNCHANGED <<histVars, todo, friends, groups, shownRows, linkVars, queued, used>>

SendGroupMessage(groupid, text) ==
  /\ AtMenu
  /\ Call("RpcGroupChat", "SendMsg",
          New("SendMessageRequest",
              [msg |-> Sub("GroupMessage", [method |-> 2, groupid |-> groupid, memberid |-> Me,
                                            msg |-> text, send_time |-> Now])]),
          LAMBDA e : Crashes(e) \/ Hangs(e) \/ (e.end = "ok" /\ UNCHANGED pc))
  /\ UNCHANGED <<histVars, todo, friends, groups, joined, shownRows, linkVars, queued, used>>

(* The local history: createTable and insertTable, one after the other. *)
BeginTask ==
  /\ pc # "crashed" /\ todo # <<>> /\ Idle(Console)
  /\ todo' = Tail(todo)
  /\ LET task == Head(todo)
     IN \/ task.op = "create" /\ CreateTable(Console, task.table)
        \/ task.op = "insert" /\ Prepare(Console, task.table, task.row)
  /\ UNCHANGED <<db, pc, friends, groups, joined, shownRows, linkVars, queued, used, boundVars>>

(* A statement that is finalized twice may end the process. *)
HistoryStep(t) ==
  /\ pc # "crashed"
  /\ HistStep(t)
  /\ \/ UNCHANGED pc
     \/ ruined' # ruined /\ pc' = "crashed"
  /\ UNCHANGED <<db, todo, friends, groups, joined, shownRows, linkVars, queued, used, boundVars>>

-----------------------------------------------------------------------------
(* The loop's thread, which main starts after the login *)

AtLoop(place) == pc # "crashed" /\ loop = place /\ Idle(Loop)

(* ConnectChatService, and TcpClient's retry after a connection has broken:
   OnConnection assigns myconn_ ... *)
Connect ==
  /\ AtLoop("ready")
  /\ pc \in {"menu", "regroup", "hung"}
  /\ link \in {"none", "down"} /\ connects < MaxConnects
  /\ link' = "assigning"
  /\ connects' = connects + 1
  /\ UNCHANGED <<histVars, db, consoleVars, wrote, stream, buffer, loop, handed, shown,
                 queued, used, boundVars>>

(* ... and writes the login frame. *)
LoginFrame == Frame(Serialize("ChatMessage", New("ChatMessage", [userid |-> Me])))
OnConnection ==
  /\ AtLoop("ready") /\ link = "assigning"
  /\ link' = "up"
  /\ wrote' = Append(wrote, LoginFrame)
  /\ UNCHANGED <<histVars, db, consoleVars, connects, stream, buffer, loop, handed, shown,
                 queued, used, boundVars>>

(* The loop writes what other threads have sent. *)
Flush ==
  /\ AtLoop("ready") /\ link = "up" /\ queued # <<>>
  /\ wrote' = Append(wrote, Head(queued))
  /\ queued' = Tail(queued)
  /\ UNCHANGED <<histVars, db, consoleVars, link, connects, stream, buffer, loop, handed,
                 shown, used, boundVars>>

Disconnect ==
  /\ AtLoop("ready") /\ link = "up"
  /\ link' = "down"
  /\ queued' = <<>> /\ wrote' = <<>> /\ stream' = <<>> /\ buffer' = <<>>
  /\ handed' = <<>> /\ shown' = <<>>
  /\ UNCHANGED <<histVars, db, consoleVars, connects, loop, used, boundVars>>

(* Bytes arrive and OnMessage is called ... *)
Arrive(n) ==
  /\ AtLoop("ready") /\ link = "up"
  /\ n \in 1..Len(stream)
  /\ buffer' = buffer \o SubSeq(stream, 1, n)
  /\ stream' = SubSeq(stream, n + 1, Len(stream))
  /\ loop' = "reading"
  /\ UNCHANGED <<histVars, db, consoleVars, link, connects, wrote, handed, shown, queued,
                 used, boundVars>>

(* A mutant: if instead of while. *)
NextRound_Once == "ready"

(* ... which goes round `while (buffer->readableBytes() >= 4)' ... *)
NextRound == "reading"

(* ... for each frame, which is printed and recorded ... *)
OnMessage ==
  /\ AtLoop("reading")
  /\ FrameReady(buffer)
  /\ buffer' = AfterFrame(buffer)
  /\ loop' = NextRound
  /\ \E m \in Shows(BodyIn(buffer)) :
        /\ shown' = Append(shown, m)
        /\ Prepare(Loop, TableOf(m), RowOf(m))
  /\ UNCHANGED <<db, consoleVars, link, connects, wrote, stream, handed, queued, used, boundVars>>

(* ... until the rest has to wait for more. *)
Break ==
  /\ AtLoop("reading")
  /\ ~FrameReady(buffer)
  /\ loop' = "ready"
  /\ UNCHANGED <<histVars, db, consoleVars, link, connects, wrote, stream, buffer, handed,
                 shown, queued, used, boundVars>>

-----------------------------------------------------------------------------
(* The chat server and other users *)

FrameOf(m) == Frame(Serialize(NameOf(m), m.value))

(* Delivery's Deliver, to a connection that has logged in ... *)
HandOver(m) ==
  /\ link = "up" /\ wrote # <<>> /\ m \notin used
  /\ stream' = stream \o FrameOf(m)
  /\ handed' = Append(handed, m)
  /\ used' = used \cup {m}
  /\ UNCHANGED <<histVars, db, consoleVars, link, connects, wrote, buffer, loop, shown,
                 queued, boundVars>>

(* ... and its Store, of a friend's message: insertOffline prints the frame with "%s". *)
StoreRow(m) ==
  /\ link # "up" /\ m \notin used /\ m.as = "friend"
  /\ db' = [db EXCEPT !.offline_message =
               Append(@, [userid |-> Me, msg |-> CString(FrameOf(m))])]
  /\ used' = used \cup {m}
  /\ UNCHANGED <<histVars, consoleVars, linkVars, queued, boundVars>>

(* Another user creates a group. *)
OtherCreates(u) ==
  /\ Len(db.groupinfo) < MaxGroups
  /\ \E s \in Served(RequestFrame("RpcGroupChat", "createGroup",
                 Serialize("createGroupRequest",
                   New("createGroupRequest", [userid |-> u, createTime |-> Now]))), db, AllOk) :
        db' = s.db
  /\ UNCHANGED <<histVars, consoleVars, linkVars, queued, used, boundVars>>

-----------------------------------------------------------------------------
ConsoleThread == \/ Login \/ GetFriendList \/ GetGroups("groups", "offline")
                 \/ GetOfflinemsg \/ GetGroups("regroup", "menu")
                 \/ BeginTask \/ HistoryStep(Console)
                 \/ CreateGroup
                 \/ \E n \in DOMAIN Outgoing :
                      /\ n = commands + 1
                      /\ \/ SendMessage(Outgoing[n].to, Outgoing[n].text)
                         \/ SendGroupMessage(Outgoing[n].to, Outgoing[n].text)
                 \/ \E g \in 1..MaxGroups : JoinGroup(g)

LoopThread == \/ Connect \/ OnConnection \/ Flush
              \/ \E n \in 1..Len(stream) : Arrive(n)
              \/ OnMessage \/ Break \/ HistoryStep(Loop)

Server == \/ \E m \in Incoming : HandOver(m) \/ StoreRow(m)
          \/ \E u \in Others : OtherCreates(u)
          \/ Disconnect

Next == ConsoleThread \/ LoopThread \/ Server

Spec == Init /\ [][Next]_vars

(* The loop's thread is scheduled and TCP delivers; what the user, the services
   and the chat server do is open. *)
FairSpec == Spec /\ WF_vars(LoopThread)

-----------------------------------------------------------------------------
(* Properties *)

(* The two threads use the history as its specification has it. *)
UsesHistory == HistSpec

(* What is printed of a connection is what the server handed over on it, each
   message once, whole, in order and of the right kind, however TCP cuts the
   stream and although a group's message is first read as a chat message
   (rpcclient.cpp:64-97, chatservice.pb.cc). *)
ShownWasHanded == IsPrefix(shown, handed)

(* Once up, a connection's frames are its login and then the user's messages,
   although the console may send as soon as myconn_ is there: the chat server
   takes whoever sends first for nobody (rpcclient.cpp:56-57, 199-224). *)
LoginFirst ==
  \A i \in DOMAIN wrote : (wrote[i] = LoginFrame) = (i = 1)

(* The lists on the screen hold rows of the tables that concern the user, with
   every column in its place, whatever was cut, lost or failed.  A request that
   has lost its userid is one of user 0: two such, and the screen shows a group
   of user 0. *)
ListsAreRows ==
  /\ \A i \in DOMAIN friends :
        /\ <<Me, friends[i].userid>> \in db.friendship
        /\ \E u \in db.user : /\ u.userid = friends[i].userid
                             /\ u.nickname = friends[i].friendname
                             /\ u.online = friends[i].online
  /\ \A i \in DOMAIN groups :
        /\ groups[i].groupid \in MemberOf(db, Me) \cup MemberOf(db, 0)
        /\ \E j \in GroupIds(db) : groups[i] = GroupRow(db.groupinfo[j])

(* After a session without faults the screen shows every group the user has
   created: the group, its member row and the new list are three statements
   in two calls. *)
OwnGroupsListed ==
  faults = 0 /\ AtConsole("menu") =>
    \A j \in GroupIds(db) :
       db.groupinfo[j].adminid = Me => \E i \in DOMAIN groups : groups[i].groupid = j

(* The history of a friend or a group holds messages exchanged with that friend
   or in that group, under the one who wrote them, each at most once, whatever
   the two threads do to each other (usersqlite.cpp:63-86, rpcclient.cpp:86-95,
   178-195, 221). *)
HistoryByPeer ==
  \A n \in Tables :
     /\ IsInjective(rows[n])
     /\ \A r \in Range(rows[n]) :
          \/ \E m \in Incoming :
                /\ r.msg = m.value.msg /\ r.msgtime = m.value.send_time
                /\ IF m.as = "friend"
                   THEN n = FriendTable(m.value.friendid) /\ r.user = m.value.friendid
                   ELSE n = GroupTable(m.value.groupid) /\ r.user = m.value.memberid
          \/ \E i \in DOMAIN Outgoing :
                /\ r.user = Me /\ r.msg = Outgoing[i].text
                /\ n = FriendTable(Outgoing[i].to)

(* No message stored for the user is ever shown: its row ends inside the four
   bytes of the length, and GetOfflinemsg passes over so short a row
   (mysqlmodel.cpp:23, rpcclient.cpp:178). *)
StoredIsNeverShown == shownRows = <<>>

(* A message that has been handed over is printed, if the connection stays and
   the process lives: no frame is left in the buffer. *)
HandedIsShown ==
  \A m \in Incoming :
     m \in Range(handed) ~> m \in Range(shown) \/ m \notin Range(handed) \/ pc = "crashed"

(* main.cpp:79 prints that the group has been joined; joingroup has then found
   the response's errcode to be 0. *)
JoinedIsMember == \A g \in joined : g \in MemberOf(db, Me)

=============================================================================
