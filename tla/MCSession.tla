------------------------------- MODULE MCSession -------------------------------
(* The instances of Session that TLC checks: user 1 at the client, user 2 a
   friend, who writes to user 1 and to group 1. *)
EXTENDS Session

FriendMessage ==
  [as |-> "friend",
   value |-> New("ChatMessage", [method |-> 1, userid |-> 1, friendid |-> 2,
                                 msg |-> "a", send_time |-> 8])]
GroupMessage ==
  [as |-> "group",
   value |-> New("GroupMessage", [method |-> 2, userid |-> 1, groupid |-> 1, memberid |-> 2,
                                  membername |-> "n", msg |-> "b", send_time |-> 9])]

MCIncoming == {FriendMessage, GroupMessage}
MCOutgoing == <<[to |-> 2, text |-> "c"], [to |-> 1, text |-> "d"]>>
MCFriendship == {<<1, 2>>, <<2, 1>>}
MCTables == {"friend", "group"} \X (1..2)
MCRows == {RowOf(m) : m \in MCIncoming}
          \cup {HistoryRow(1, "", MCOutgoing[i].text, Now) : i \in DOMAIN MCOutgoing}

=============================================================================
