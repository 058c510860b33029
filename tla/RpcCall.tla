-------------------------------- MODULE RpcCall --------------------------------
(***************************************************************************)
(* A remote call: MprpcChannel::CallMethod in the caller's thread          *)
(* (mprpcchannel.cc), RpcProvider::OnMessage and SendRpcResponse in the    *)
(* provider's IO thread (rpcprovider.cc), over a TCP connection of its own *)
(* to the address the Registry holds.                                      *)
(*                                                                         *)
(* The frame is header_size, header and arguments.  TCP may hand it to     *)
(* OnMessage in pieces; how far a piece reaches is 1 when it ends inside   *)
(* header_size, 2 when it ends at or inside the header, 3 when at or inside *)
(* the arguments and 4 at the end.                                         *)
(***************************************************************************)
EXTENDS Registry, SequencesExt

CONSTANTS Calls,    \* the calls that callers make, each once
          Method,   \* the method path of each call
          Nobody    \* no address, or one nobody listens at

ASSUME CallAssumption ==
  /\ Method \in [Calls -> Paths \ {Service}]
  /\ Nobody \notin Providers

VARIABLES
  pc,        \* where the caller is in CallMethod
  fd,        \* clientfd: "none", "open" or "closed"
  target,    \* whom server_addr is the address of
  conn,      \* the provider's end: "none", "open", "shut" by its shutdown(),
             \* or "down" with its process
  arrived,   \* how much of the frame OnMessage has retrieved
  method,    \* "running" while the service's method is
  runs,      \* the executions, each with the caller's "own" arguments or "other"
  reply,     \* the response that was sent: that of the run, or "none"
  outcome,   \* what the caller has got

  ignored    \* the calls of which a piece was dropped with no reply

serverVars == <<conn, arrived, method, runs, reply, ignored>>
clientVars == <<pc, fd, target, outcome>>
callVars == <<serverVars, clientVars>>
vars == <<regVars, callVars>>

Stages == {"socket", "lookup", "connect", "send", "recv", "done"}
Outcomes == {"none", "failed", "own", "other", "part", "empty"}

TypeOK ==
  /\ pc \in [Calls -> Stages]
  /\ fd \in [Calls -> {"none", "open", "closed"}]
  /\ target \in [Calls -> Providers \cup {Nobody}]
  /\ conn \in [Calls -> {"none", "open", "shut", "down"}]
  /\ arrived \in [Calls -> 0..4]
  /\ method \in [Calls -> {"idle", "running"}]
  /\ runs \in [Calls -> Seq({"own", "other"})]
  /\ reply \in [Calls -> {"none", "own", "other"}]
  /\ outcome \in [Calls -> Outcomes]
  /\ ignored \in SUBSET Calls

Init ==
  /\ RegInit
  /\ pc = [k \in Calls |-> "socket"]
  /\ fd = [k \in Calls |-> "none"]
  /\ target = [k \in Calls |-> Nobody]
  /\ conn = [k \in Calls |-> "none"]
  /\ arrived = [k \in Calls |-> 0]
  /\ method = [k \in Calls |-> "idle"]
  /\ runs = [k \in Calls |-> <<>>]
  /\ reply = [k \in Calls |-> "none"]
  /\ outcome = [k \in Calls |-> "none"]
  /\ ignored = {}

-----------------------------------------------------------------------------
(* The caller *)

(* The call ends with a result, having closed its socket or not. *)
Ends(k, result, closes) ==
  /\ pc' = [pc EXCEPT ![k] = "done"]
  /\ outcome' = [outcome EXCEPT ![k] = result]
  /\ fd' = IF closes THEN [fd EXCEPT ![k] = "closed"] ELSE fd

Continues(k, stage) ==
  /\ pc' = [pc EXCEPT ![k] = stage]
  /\ UNCHANGED outcome

(* socket() returns a descriptor, or -1. *)
Socket(k) ==
  /\ pc[k] = "socket"
  /\ \/ Continues(k, "lookup") /\ fd' = [fd EXCEPT ![k] = "open"]
     \/ Ends(k, "failed", FALSE)
  /\ UNCHANGED <<regVars, target, serverVars>>

(* The addresses GetData may return: it leaves its buffer unterminated, and what
   follows the address in it may make it another one. *)
GetData(path) == {a \in {znode[path], Nobody} : znode[path] # Absent}

(* An error of zoo_get is an empty address, on which the caller returns without
   closing its socket. *)
Lookup(k) ==
  /\ pc[k] = "lookup"
  /\ \/ /\ \E t \in GetData(Method[k]) : target' = [target EXCEPT ![k] = t]
        /\ Continues(k, "connect")
        /\ UNCHANGED fd
     \/ /\ Ends(k, "failed", FALSE)
        /\ UNCHANGED target
  /\ UNCHANGED <<regVars, serverVars>>

Listens(p) == p \in Providers /\ process[p] = "serving"

(* connect() succeeds with a process that listens, or fails. *)
Connect(k) ==
  /\ pc[k] = "connect"
  /\ \/ /\ Listens(target[k])
        /\ conn' = [conn EXCEPT ![k] = "open"]
        /\ Continues(k, "send")
        /\ UNCHANGED fd
     \/ /\ ~Listens(target[k])
        /\ Ends(k, "failed", TRUE)
        /\ UNCHANGED conn
  /\ UNCHANGED <<regVars, target, arrived, method, runs, reply, ignored>>

(* send() may go unnoticed into the socket of a dead process, or fail. *)
SendRequest(k) ==
  /\ pc[k] = "send"
  /\ \/ Continues(k, "recv") /\ UNCHANGED fd
     \/ conn[k] = "down" /\ Ends(k, "failed", TRUE)
  /\ UNCHANGED <<regVars, target, serverVars>>

(* A mutant: the paths of recv and the parser that fail do not close. *)
Recv_LeaksOnFailure(k) ==
  /\ pc[k] = "recv"
  /\ \/ /\ reply[k] # "none"
        /\ \/ Ends(k, reply[k], TRUE)
           \/ Ends(k, "part", TRUE)
           \/ Ends(k, "failed", FALSE)
     \/ /\ reply[k] = "none" /\ conn[k] \in {"shut", "down"}
        /\ Ends(k, "empty", TRUE)
     \/ /\ conn[k] = "down"
        /\ Ends(k, "failed", FALSE)
  /\ UNCHANGED <<regVars, target, serverVars>>

(* One recv() of at most 1024 bytes, and ParseFromArray.  A response that is
   longer, or comes in pieces, is cut: it fails to parse, or parses as part of
   what it was.  The end of the stream is 0 bytes, which parse as a response
   with nothing set.  A reset loses a response that was not read. *)
Recv(k) ==
  /\ pc[k] = "recv"
  /\ \/ /\ reply[k] # "none"
        /\ \E result \in {reply[k], "part", "failed"} : Ends(k, result, TRUE)
     \/ /\ reply[k] = "none" /\ conn[k] \in {"shut", "down"}
        /\ Ends(k, "empty", TRUE)
     \/ /\ conn[k] = "down"
        /\ Ends(k, "failed", TRUE)
  /\ UNCHANGED <<regVars, target, serverVars>>

-----------------------------------------------------------------------------
(* The provider *)

(* What a process takes with it. *)
Drops(p) ==
  /\ conn' = [k \in Calls |-> IF target[k] = p /\ conn[k] # "none"
                              THEN "down" ELSE conn[k]]
  /\ method' = [k \in Calls |-> IF target[k] = p THEN "idle" ELSE method[k]]

(* A mutant: the buffer is peeked at, so that each piece starts with the frame. *)
Starts_NotRetrieved(k) == TRUE

(* OnMessage takes whatever has come for the start of a frame. *)
Starts(k) == arrived[k] = 0

(* What becomes of a piece up to e.  substr throws when it is shorter than
   header_size says, and nobody catches it ... *)
Throws(k, e) == ~Starts(k) \/ e <= 2
(* ... OnMessage returns when the header, the service, the method or the
   arguments make no sense ... *)
Returns(k, e) == ~Starts(k) \/ e \in {2, 3}
(* ... and calls the method with the arguments it has got. *)
Runs(k, e) == Starts(k) /\ e >= 3

Piece(k, e) ==
  /\ conn[k] \in {"open", "shut"}
  /\ pc[k] \in {"recv", "done"}
  /\ method[k] = "idle"
  /\ e > arrived[k]
  /\ arrived' = [arrived EXCEPT ![k] = e]
  /\ UNCHANGED <<clientVars, reply>>

(* OnMessage, with its three ends. *)
OnMessageThrows(k, e) ==
  /\ Piece(k, e) /\ Throws(k, e)
  /\ Kill(target[k]) /\ Drops(target[k])
  /\ UNCHANGED <<runs, ignored>>

OnMessageReturns(k, e) ==
  /\ Piece(k, e) /\ Returns(k, e)
  /\ ignored' = ignored \cup {k}
  /\ UNCHANGED <<regVars, conn, method, runs>>

OnMessageRuns(k, e) ==
  /\ Piece(k, e) /\ Runs(k, e)
  /\ method' = [method EXCEPT ![k] = "running"]
  /\ runs' = [runs EXCEPT ![k] = Append(@, IF e = 4 THEN "own" ELSE "other")]
  /\ UNCHANGED <<regVars, conn, ignored>>

(* A mutant: a method that returns without done->Run(). *)
SendRpcResponse_NeverCalled(k) ==
  /\ method[k] = "running"
  /\ method' = [method EXCEPT ![k] = "idle"]
  /\ UNCHANGED <<regVars, clientVars, conn, arrived, runs, reply, ignored>>

(* The method runs done: the response is sent and the connection shut down. *)
SendRpcResponse(k) ==
  /\ method[k] = "running"
  /\ method' = [method EXCEPT ![k] = "idle"]
  /\ reply' = [reply EXCEPT ![k] = Last(runs[k])]
  /\ conn' = [conn EXCEPT ![k] = "shut"]
  /\ UNCHANGED <<regVars, clientVars, arrived, runs, ignored>>

(* The process ends and the kernel closes its connections. *)
Stop(p) ==
  /\ Kill(p)
  /\ Drops(p)
  /\ UNCHANGED <<clientVars, arrived, runs, reply, ignored>>

(* Registration goes on meanwhile. *)
Registers ==
  /\ \/ \E p \in Providers : \/ Boot(p) \/ Start(p) \/ ZkExists(p) \/ ZkCreate(p)
                             \/ ZkCollides(p)
     \/ \E s \in sessions : Expire(s)
  /\ UNCHANGED callVars

-----------------------------------------------------------------------------
Caller(k) == \/ Socket(k) \/ Lookup(k) \/ Connect(k) \/ SendRequest(k) \/ Recv(k)

OnMessage(k) ==
  \E e \in 1..4 : \/ OnMessageThrows(k, e)
                  \/ OnMessageReturns(k, e)
                  \/ OnMessageRuns(k, e)

Next ==
  \/ \E k \in Calls : Caller(k) \/ OnMessage(k) \/ SendRpcResponse(k)
  \/ \E p \in Providers : Stop(p)
  \/ Registers

Spec == Init /\ [][Next]_vars

(* The threads of caller and provider are scheduled and TCP delivers; whether
   and when processes are started or stopped is open. *)
Fairness ==
  \A k \in Calls : /\ WF_vars(Caller(k))
                   /\ WF_vars(OnMessage(k))
                   /\ WF_vars(SendRpcResponse(k))

FairSpec == Spec /\ Fairness

-----------------------------------------------------------------------------
(* Properties *)

(* A call runs at most once, whatever pieces its frame comes in, and a caller
   that believes it has an answer has that of the run; one that has got an
   empty response has lost its provider (mprpcchannel.cc:134-155,
   rpcprovider.cc:111-208). *)
AnswersAreRuns ==
  \A k \in Calls :
     /\ Len(runs[k]) <= 1
     /\ outcome[k] \in {"own", "other"} => runs[k] = <<outcome[k]>>
     /\ outcome[k] = "part" => runs[k] # <<>>
     /\ outcome[k] = "empty" => conn[k] = "down"

(* A call that is over has closed its socket, unless its lookup failed
   (mprpcchannel.cc:94-157): those two returns are where descriptors leak. *)
SocketsAccounted ==
  \A k \in Calls :
     pc[k] = "done" /\ fd[k] = "open" => outcome[k] = "failed" /\ target[k] = Nobody
                                         /\ conn[k] = "none"

(* Every call ends, if OnMessage does not return early on one of its pieces:
   with an answer or without, however the provider ends. *)
CallsEnd == \A k \in Calls : pc[k] = "recv" ~> pc[k] = "done" \/ k \in ignored

(* rpcprovider.cc:208 and its comment: the provider ends the connection of a
   call it was sent, as servers of short connections do. *)
ProviderDisconnects == \A k \in Calls : arrived[k] > 0 ~> conn[k] # "open"

=============================================================================
