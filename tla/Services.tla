-------------------------------- MODULE Services --------------------------------
(***************************************************************************)
(* The three services behind the remote calls: UserService, FriendService  *)
(* and GroupChat (example/callee/), the statements of MysqlModel they      *)
(* make, and how OnMessage of rpcprovider.cc finds the method of a frame.  *)
(*                                                                         *)
(* A method maps the tables it finds to a set of what may come of a call:  *)
(* the tables it leaves and its response.  `ok' says which of its          *)
(* statements succeed; their connections are MysqlModel's subject.         *)
(***************************************************************************)
EXTENDS Codec, SequencesExt

CONSTANTS YearLength  \* in the clock's units

ASSUME YearAssumption == YearLength \in Nat \ {0}

(* The tables.  user: its rows; friendship: pairs; groupinfo and groupuser:
   their rows in the order of insertion; offline_message: rows of a user and
   what is left of a frame. *)
Tables0(users, friendship) ==
  [user |-> users, friendship |-> friendship, groupinfo |-> <<>>,
   groupuser |-> <<>>, offline_message |-> <<>>]

GroupIds(db) == DOMAIN db.groupinfo
MemberOf(db, userid) == {db.groupuser[i].groupid :
                           i \in {j \in DOMAIN db.groupuser :
                                    db.groupuser[j].userid = userid}}

Success == New("ResultCode", [errcode |-> 0])
Done(db, response) == [db |-> db, response |-> response]

-----------------------------------------------------------------------------
(* UserService *)

(* UserExist is true when the select gave a result, rows in it or not. *)
UserLogin(db, request, ok) ==
  {Done(db, New("LoginResponse", [result |-> <<Success>>, sucess |-> ok[1]]))}

(* insertUser fails on an id that is there. *)
Register(db, request, ok) ==
  LET new == ok[1] /\ \A u \in db.user : u.userid # request.id
      row == [userid |-> request.id, nickname |-> "", online |-> "0"]
  IN {Done([db EXCEPT !.user = IF new THEN @ \cup {row} ELSE @],
           New("RegisterResponse", [result |-> <<Success>>, sucess |-> new]))}

(* getOfflinemsg: the rows, in an order of the database's, stay in the table. *)
Getoffline(db, request, ok) ==
  LET own == SetToSeq({i \in DOMAIN db.offline_message :
                         db.offline_message[i].userid = request.userid})
  IN {Done(db, New("offlineMsgResponse",
                   [msg |-> IF ok[1] THEN [i \in DOMAIN own |-> db.offline_message[own[i]].msg]
                            ELSE <<>>]))}

-----------------------------------------------------------------------------
(* FriendService.  It has a method Addfriend, so that the base class's
   AddFriend is what a call of AddFriend gets: it reports to a controller, and
   OnMessage passes a null one. *)

GetFriendsList(db, request, ok) ==
  LET friends == {u \in db.user : <<request.userid, u.userid>> \in db.friendship}
      Friend(u) == New("Friends", u)
  IN {Done(db, New("GetFriendsListResponse",
                   [result |-> <<Success>>,
                    friends |-> IF ok[1] THEN [i \in DOMAIN s |-> Friend(s[i])] ELSE <<>>])) :
        s \in SetToSeqs({[userid |-> u.userid, friendname |-> u.nickname,
                          online |-> u.online] : u \in friends})}

-----------------------------------------------------------------------------
(* GroupChat *)

(* addGroup: neither the group nor the row is looked for. *)
Add(db, userid, groupid, ok) ==
  IF ok THEN [db EXCEPT !.groupuser = Append(@, [groupid |-> groupid, userid |-> userid])]
  ELSE db

AddGroup(db, request, ok) ==
  LET code == IF ok[1] THEN [errcode |-> 0, errmsg |-> "joined"]
                       ELSE [errcode |-> 1, errmsg |-> "not joined"]
  IN {Done(Add(db, request.userid, request.groupid, ok[1]),
           New("AddGroupResponse", [result |-> Sub("ResultCode", code)]))}

(* A mutant: the creator is not added. *)
createGroup_NotAdded(db, request, ok) ==
  LET info == [groupid |-> Len(db.groupinfo) + 1, adminid |-> request.userid,
               createTime |-> request.createTime, usersnum |-> 1]
  IN {Done([db EXCEPT !.groupinfo = Append(@, info)],
           New("createGroupResponse", [groupid |-> info.groupid]))}

(* insertGroup, then addGroup with the id MySQL has for the connection: that
   of an insert before it, or 0, when insertGroup's insert has failed. *)
createGroup(db, request, ok) ==
  LET next == Len(db.groupinfo) + 1
      info == [groupid |-> next, adminid |-> request.userid,
               createTime |-> request.createTime, usersnum |-> 1]
      inserted == IF ok[1] THEN [db EXCEPT !.groupinfo = Append(@, info)] ELSE db
  IN {Done(Add(inserted, request.userid, id, ok[2]),
           New("createGroupResponse", [groupid |-> id])) :
        id \in IF ok[1] THEN {next} ELSE {0} \cup GroupIds(db)}

(* getGroup reads createtime back with atoi, which takes the year of it. *)
Year(time) == 1970 + time \div YearLength
GroupRow(info) ==
  New("groupInfo", [info EXCEPT !.createTime = Year(@)])

(* A mutant: every group there is. *)
GetGroup_All(db, request, ok) ==
  {Done(db, New("getGroupResponse",
                [group |-> [i \in DOMAIN db.groupinfo |->
                              CopyFrom("groupInfo", GroupRow(db.groupinfo[i]))]]))}

GetGroup(db, request, ok) ==
  LET mine == SetToSeq(GroupIds(db) \cap MemberOf(db, request.userid))
  IN {Done(db, New("getGroupResponse",
                   [group |-> IF ok[1]
                              THEN [i \in DOMAIN mine |->
                                      CopyFrom("groupInfo", GroupRow(db.groupinfo[mine[i]]))]
                              ELSE <<>>]))}

(* SendMsg: what it publishes is GroupChat's subject. *)
SendMsg(db, request, ok) == {Done(db, Clear("SendMessageResponse"))}

-----------------------------------------------------------------------------
(* The descriptors: the messages of each method. *)

UserServiceRpc == [Login |-> <<"LoginRequest", "LoginResponse">>,
                   Register |-> <<"RegisterRequest", "RegisterResponse">>,
                   Getoffline |-> <<"offlineMsgRequest", "offlineMsgResponse">>]

FiendServiceRpc == [GetFriendsList |-> <<"GetFriendsListRequest", "GetFriendsListResponse">>,
                    AddFriend |-> <<"AddfriendRequest", "AddfriendResponse">>]

RpcGroupChat == [AddGroup |-> <<"AddGroupRequest", "AddGroupResponse">>,
                 SendMsg |-> <<"SendMessageRequest", "SendMessageResponse">>,
                 GetGroup |-> <<"getGroupRequest", "getGroupResponse">>,
                 createGroup |-> <<"createGroupRequest", "createGroupResponse">>]

ServiceMap == [UserServiceRpc |-> UserServiceRpc, FiendServiceRpc |-> FiendServiceRpc,
               RpcGroupChat |-> RpcGroupChat]

(* service->CallMethod.  Nothing comes of a method that is not overridden. *)
CallMethod(method, db, request, ok) ==
  CASE method = "Login" -> UserLogin(db, request, ok)
    [] method = "Register" -> Register(db, request, ok)
    [] method = "Getoffline" -> Getoffline(db, request, ok)
    [] method = "GetFriendsList" -> GetFriendsList(db, request, ok)
    [] method = "AddFriend" -> {}
    [] method = "AddGroup" -> AddGroup(db, request, ok)
    [] method = "SendMsg" -> SendMsg(db, request, ok)
    [] method = "GetGroup" -> GetGroup(db, request, ok)
    [] method = "createGroup" -> createGroup(db, request, ok)

-----------------------------------------------------------------------------
(* The frame of a call: header_size, the header and the arguments. *)

Framed(header, args) == [header_size |-> Len(header), rest |-> header \o args]
RequestFrame(service, method, args) ==
  Framed(Serialize("RpcHeader", New("RpcHeader",
           [service_name |-> service, method_name |-> method, args_size |-> Len(args)])),
         args)

(* substr(from, count) of what comes after header_size. *)
Substr(s, from, count) == SubSeq(s, from + 1, IF from + count < Len(s)
                                              THEN from + count ELSE Len(s))

(* What OnMessage makes of the frame, or of a first piece of it: the service,
   the method and the arguments, of which it asks for args_size bytes. *)
RequestIn(header, frame) ==
  [service |-> header.service_name, method |-> header.method_name,
   args |-> Substr(frame.rest, frame.header_size, header.args_size)]
Request(frame) ==
  RequestIn(Parse("RpcHeader", Substr(frame.rest, 0, frame.header_size)), frame)

(* What may come of a frame OnMessage gets: a run of the method and what
   SendRpcResponse sends. *)
Runs(request, types, db, ok) ==
  {[db |-> done.db, response |-> Serialize(types[2], done.response)] :
     done \in CallMethod(request.method, db, Parse(types[1], request.args), ok)}
Answered(request, db, ok) ==
  Runs(request, ServiceMap[request.service][request.method], db, ok)
Served(frame, db, ok) == Answered(Request(frame), db, ok)

=============================================================================
