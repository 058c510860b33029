-------------------------------- MODULE Messages --------------------------------
(***************************************************************************)
(* The protobuf messages of the repository, as protoc generated them       *)
(* from the .proto files: the .pb.h and .pb.cc files of src/ and           *)
(* example/tool/.                                                          *)
(*                                                                         *)
(* XFields are the fields of class X, each with what its accessors take    *)
(* and give.  XTags are the tags under which X's parser expects the fields *)
(* and its serializer writes them, in the order of the tags: the number of *)
(* the field times 8, plus the wire type.  Clear, ByteSizeLong and         *)
(* MergeFrom go through the same fields.  Module Codec does with these     *)
(* tables what the methods of the generated classes do.                    *)
(***************************************************************************)
EXTENDS Naturals

(* The kinds of fields: numbers, flags and byte strings, of which proto3 does
   not tell an absent one from a zero one; one message, which may be absent;
   and repeated messages and byte strings. *)
Number == [is |-> "int"]
Flag == [is |-> "bool"]
Bytes == [is |-> "bytes"]
One(name) == [is |-> "message", of |-> name]
Many(name) == [is |-> "messages", of |-> name]
ManyBytes == [is |-> "strings"]

-----------------------------------------------------------------------------
(* The header of a remote call *)

RpcHeaderFields == [service_name |-> Bytes, method_name |-> Bytes,
                    args_size |-> Number]
RpcHeaderTags == [service_name |-> 10, method_name |-> 18, args_size |-> 24]

-----------------------------------------------------------------------------
(* What every response begins with *)

ResultCodeFields == [errcode |-> Number, errmsg |-> Bytes]
ResultCodeTags == [errcode |-> 8, errmsg |-> 18]

-----------------------------------------------------------------------------
(* A row of the local history *)

MsgFields == [userid |-> Number, username |-> Bytes, msg |-> Bytes,
              time |-> Number]
MsgTags == [userid |-> 8, username |-> 18, msg |-> 26, time |-> 32]

-----------------------------------------------------------------------------
(* What travels between chat clients *)

ChatMessageFields == [method |-> Number, userid |-> Number,
                      friendid |-> Number, friendname |-> Bytes,
                      msg |-> Bytes, send_time |-> Number]
ChatMessageTags == [method |-> 8, userid |-> 16, friendid |-> 24,
                    friendname |-> 34, msg |-> 42, send_time |-> 48]

GroupMessageFields == [method |-> Number, userid |-> Number,
                       groupid |-> Number, memberid |-> Number,
                       membername |-> Bytes, msg |-> Bytes,
                       send_time |-> Number]
GroupMessageTags == [method |-> 8, userid |-> 16, groupid |-> 24,
                     memberid |-> 32, membername |-> 42, msg |-> 50,
                     send_time |-> 56]

-----------------------------------------------------------------------------
(* FiendServiceRpc *)

GetFriendsListRequestFields == [userid |-> Number]
GetFriendsListRequestTags == [userid |-> 8]

FriendsFields == [userid |-> Number, friendname |-> Bytes, online |-> Bytes]
FriendsTags == [userid |-> 8, friendname |-> 18, online |-> 26]

GetFriendsListResponseFields == [result |-> One("ResultCode"),
                                 friends |-> Many("Friends")]
GetFriendsListResponseTags == [result |-> 10, friends |-> 18]

AddfriendRequestFields == [userid |-> Number, friendid |-> Number]
AddfriendRequestTags == [userid |-> 8, friendid |-> 16]

AddfriendResponseFields == [result |-> One("ResultCode")]
AddfriendResponseTags == [result |-> 10]

-----------------------------------------------------------------------------
(* RpcGroupChat *)

createGroupRequestFields == [userid |-> Number, createTime |-> Number]
createGroupRequestTags == [userid |-> 8, createTime |-> 16]

createGroupResponseFields == [groupid |-> Number]
createGroupResponseTags == [groupid |-> 8]

AddGroupRequestFields == [userid |-> Number, groupid |-> Number]
AddGroupRequestTags == [userid |-> 8, groupid |-> 16]

AddGroupResponseFields == [result |-> One("ResultCode")]
AddGroupResponseTags == [result |-> 10]

SendMessageRequestFields == [userid |-> Number, msg |-> One("GroupMessage")]
SendMessageRequestTags == [userid |-> 8, msg |-> 26]

SendMessageResponseFields == [result |-> One("ResultCode")]
SendMessageResponseTags == [result |-> 10]

groupInfoFields == [groupid |-> Number, adminid |-> Number,
                    createTime |-> Number, usersnum |-> Number]
groupInfoTags == [groupid |-> 8, adminid |-> 16, createTime |-> 24,
                  usersnum |-> 32]

getGroupRequestFields == [userid |-> Number]
getGroupRequestTags == [userid |-> 8]

getGroupResponseFields == [group |-> Many("groupInfo")]
getGroupResponseTags == [group |-> 10]

-----------------------------------------------------------------------------
(* UserServiceRpc *)

LoginRequestFields == [username |-> Number, pwd |-> Bytes]
LoginRequestTags == [username |-> 8, pwd |-> 18]

LoginResponseFields == [result |-> One("ResultCode"), sucess |-> Flag,
                        name |-> Bytes]
LoginResponseTags == [result |-> 10, sucess |-> 16, name |-> 26]

RegisterRequestFields == [id |-> Number, name |-> Bytes, pwd |-> Bytes]
RegisterRequestTags == [id |-> 8, name |-> 18, pwd |-> 26]

RegisterResponseFields == [result |-> One("ResultCode"), sucess |-> Flag]
RegisterResponseTags == [result |-> 10, sucess |-> 16]

offlineMsgRequestFields == [userid |-> Number]
offlineMsgRequestTags == [userid |-> 8]

offlineMsgResponseFields == [msg |-> ManyBytes]
offlineMsgResponseTags == [msg |-> 10]

-----------------------------------------------------------------------------
(* The tables, by the name of the message. *)

Fields == [RpcHeader |-> RpcHeaderFields, ResultCode |-> ResultCodeFields,
           Msg |-> MsgFields, ChatMessage |-> ChatMessageFields,
           GroupMessage |-> GroupMessageFields,
           GetFriendsListRequest |-> GetFriendsListRequestFields,
           Friends |-> FriendsFields,
           GetFriendsListResponse |-> GetFriendsListResponseFields,
           AddfriendRequest |-> AddfriendRequestFields,
           AddfriendResponse |-> AddfriendResponseFields,
           createGroupRequest |-> createGroupRequestFields,
           createGroupResponse |-> createGroupResponseFields,
           AddGroupRequest |-> AddGroupRequestFields,
           AddGroupResponse |-> AddGroupResponseFields,
           SendMessageRequest |-> SendMessageRequestFields,
           SendMessageResponse |-> SendMessageResponseFields,
           groupInfo |-> groupInfoFields,
           getGroupRequest |-> getGroupRequestFields,
           getGroupResponse |-> getGroupResponseFields,
           LoginRequest |-> LoginRequestFields,
           LoginResponse |-> LoginResponseFields,
           RegisterRequest |-> RegisterRequestFields,
           RegisterResponse |-> RegisterResponseFields,
           offlineMsgRequest |-> offlineMsgRequestFields,
           offlineMsgResponse |-> offlineMsgResponseFields]

Tags == [RpcHeader |-> RpcHeaderTags, ResultCode |-> ResultCodeTags,
         Msg |-> MsgTags, ChatMessage |-> ChatMessageTags,
         GroupMessage |-> GroupMessageTags,
         GetFriendsListRequest |-> GetFriendsListRequestTags,
         Friends |-> FriendsTags,
         GetFriendsListResponse |-> GetFriendsListResponseTags,
         AddfriendRequest |-> AddfriendRequestTags,
         AddfriendResponse |-> AddfriendResponseTags,
         createGroupRequest |-> createGroupRequestTags,
         createGroupResponse |-> createGroupResponseTags,
         AddGroupRequest |-> AddGroupRequestTags,
         AddGroupResponse |-> AddGroupResponseTags,
         SendMessageRequest |-> SendMessageRequestTags,
         SendMessageResponse |-> SendMessageResponseTags,
         groupInfo |-> groupInfoTags,
         getGroupRequest |-> getGroupRequestTags,
         getGroupResponse |-> getGroupResponseTags,
         LoginRequest |-> LoginRequestTags,
         LoginResponse |-> LoginResponseTags,
         RegisterRequest |-> RegisterRequestTags,
         RegisterResponse |-> RegisterResponseTags,
         offlineMsgRequest |-> offlineMsgRequestTags,
         offlineMsgResponse |-> offlineMsgResponseTags]

Names == DOMAIN Fields

=============================================================================
