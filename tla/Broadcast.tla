-------------------------------- MODULE Broadcast --------------------------------
(***************************************************************************)
(* What GroupChat promises about a group message, without its threads, its *)
(* tables and its cache: a call of SendMsg has a list of receivers from    *)
(* its start, posts the message to one after the other, losing some, and   *)
(* is answered when the list is through, unless it is cut off.             *)
(***************************************************************************)
EXTENDS Naturals, Sequences

CONSTANTS Users,      \* the user ids, which are the channels of Redis
          Msgs        \* the group messages, each sent by one call

VARIABLES started,  \* the messages SendMsg has been called for
          due,      \* the receivers each message has still to be posted to
          posted,   \* what has been published to each user's channel
          answered, \* the messages whose call has been answered
          before    \* the messages answered when each message's call began

bvars == <<started, due, posted, answered, before>>

BInit ==
  /\ started = {}
  /\ due = [m \in Msgs |-> <<>>]
  /\ posted = [u \in Users |-> <<>>]
  /\ answered = {}
  /\ before = [m \in Msgs |-> {}]

(* A call begins, with whatever list of receivers. *)
Start(m) ==
  /\ m \notin started
  /\ started' = started \cup {m}
  /\ due' = [due EXCEPT ![m] = due'[m]]
  /\ before' = [before EXCEPT ![m] = answered]
  /\ UNCHANGED <<posted, answered>>

(* The message goes to the next receiver, or is lost on the way. *)
Post(m) ==
  /\ due[m] # <<>>
  /\ due' = [due EXCEPT ![m] = Tail(@)]
  /\ \/ posted' = [posted EXCEPT ![Head(due[m])] = Append(@, m)]
     \/ UNCHANGED posted
  /\ UNCHANGED <<started, answered, before>>

Answer(m) ==
  /\ m \in started /\ due[m] = <<>>
  /\ answered' = answered \cup {m}
  /\ UNCHANGED <<started, due, posted, before>>

(* Calls may be cut off, several at a time when the provider goes down. *)
Cut(S) ==
  /\ due' = [m \in Msgs |-> IF m \in S THEN <<>> ELSE due[m]]
  /\ UNCHANGED <<started, posted, answered, before>>

BNext == \/ \E m \in Msgs : Start(m) \/ Post(m) \/ Answer(m)
         \/ \E S \in SUBSET Msgs : Cut(S)

BSpec == BInit /\ [][BNext]_bvars

-----------------------------------------------------------------------------
(* A message whose call was answered comes, on every channel, before those
   whose calls began after that. *)
AnsweredFirst ==
  \A u \in Users : \A i, j \in DOMAIN posted[u] :
     posted[u][j] \in before[posted[u][i]] => j < i

=============================================================================
