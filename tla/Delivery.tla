-------------------------------- MODULE Delivery --------------------------------
(***************************************************************************)
(* What the chat server promises about a chat message, without its         *)
(* threads, its database and Redis: a message that reached the server is   *)
(* handed to one connection of its addressee, or becomes one row of        *)
(* offline_message, or is lost.  It is never handed over twice, and never  *)
(* both handed over and stored.                                            *)
(***************************************************************************)
EXTENDS Naturals, Sequences, FiniteSets

CONSTANTS Users,      \* the user ids
          Conns,      \* the TCP connections clients open, each used once
          UserOf,     \* the user id each connection logs in with
          Msgs,       \* the method-1 chat messages
          Addressee   \* the userid field of each message

VARIABLES sent,      \* the messages clients have sent
          pending,   \* those of them that are still under way
          received,  \* the messages each connection has been handed, in order
          offline    \* the messages in offline_message, in the order of the rows

dvars == <<sent, pending, received, offline>>

DTypeOK ==
  /\ sent \in SUBSET Msgs
  /\ pending \in SUBSET Msgs
  /\ received \in [Conns -> Seq(Msgs)]
  /\ offline \in Seq(Msgs)

DInit ==
  /\ sent = {}
  /\ pending = {}
  /\ received = [c \in Conns |-> <<>>]
  /\ offline = <<>>

Send(m) ==
  /\ m \notin sent
  /\ sent' = sent \cup {m}
  /\ pending' = pending \cup {m}
  /\ UNCHANGED <<received, offline>>

Deliver(m, c) ==
  /\ m \in pending
  /\ UserOf[c] = Addressee[m]
  /\ received' = [received EXCEPT ![c] = Append(@, m)]
  /\ pending' = pending \ {m}
  /\ UNCHANGED <<sent, offline>>

Store(m) ==
  /\ m \in pending
  /\ offline' = Append(offline, m)
  /\ pending' = pending \ {m}
  /\ UNCHANGED <<sent, received>>

(* Messages may be lost, several at a time when a connection or the server
   goes down. *)
Lose(S) ==
  /\ S # {}
  /\ pending' = pending \ S
  /\ UNCHANGED <<sent, received, offline>>

DNext ==
  \/ \E m \in Msgs : \/ Send(m)
                     \/ Store(m)
                     \/ \E c \in Conns : Deliver(m, c)
  \/ \E S \in SUBSET pending : Lose(S)

(* A message under way does not stay under way for ever. *)
Settles == \A m \in Msgs : m \in pending ~> m \notin pending

DSafety == DInit /\ [][DNext]_dvars
DSpec == DSafety /\ Settles

-----------------------------------------------------------------------------
(* The places where a message has ended up. *)
Rows(m) == {i \in DOMAIN offline : offline[i] = m}

(* A message is in at most one place: no duplicate reaches a client, now or
   through the offline table, and a message under way is in none. *)
AtMostOnce ==
  \A m \in Msgs :
     /\ \A c, d \in Conns : \A i \in DOMAIN received[c], j \in DOMAIN received[d] :
           received[c][i] = m /\ received[d][j] = m => c = d /\ i = j
     /\ \A i, j \in Rows(m) : i = j
     /\ \A c \in Conns : \A i \in DOMAIN received[c] :
           received[c][i] = m => Rows(m) = {} /\ m \notin pending /\ m \in sent
     /\ Rows(m) # {} => m \notin pending /\ m \in sent

(* A connection is handed only messages for the user that logged in on it. *)
RightRecipient ==
  \A c \in Conns : \A i \in DOMAIN received[c] :
     Addressee[received[c][i]] = UserOf[c]

=============================================================================
