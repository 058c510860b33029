------------------------------- MODULE MysqlModel -------------------------------
(***************************************************************************)
(* The methods of MysqlModel (example/tool/mysqlmodel.cpp) and of the      *)
(* Connection they use, over the ConnectPool.                              *)
(*                                                                         *)
(* Most methods are `conn->getConnection()->query(sql)': the shared_ptr    *)
(* dies at the end of that expression, so the connection is back in the    *)
(* pool before its rows are read.  query ends in mysql_use_result, which   *)
(* leaves the rows on the wire: until the last one is read, libmysqlclient *)
(* refuses every other statement on the connection ("commands out of       *)
(* sync").  Some methods never read that far.                              *)
(***************************************************************************)
EXTENDS ConnectPool

CONSTANTS NoClient,  \* no thread
          MaxRows    \* bound: the most rows a result has

ASSUME ModelAssumption == NoClient \notin Clients /\ MaxRows \in Nat

VARIABLES
  method,    \* the method each thread is in, or was in last
  stage,     \* where it is in it
  res,       \* the connection its MYSQL_RES reads from, NoConn for nullptr
  rows,      \* the rows it has read, each as the thread that asked for it
  inserted,  \* whether its last update succeeded
  id,        \* what insertGroup got, as the thread that inserted it
  opener,    \* whose result is open on each connection, NoClient for none
  left,      \* how many rows of that result are unread
  insertId,  \* whose insert mysql_insert_id tells of
  dangling,  \* the threads whose res was closed with its connection
  crashed    \* a null or freed pointer has ended the process

threadVars == <<method, stage, res, rows, inserted, id, dangling>>
mysqlVars == <<opener, left, insertId>>
modelVars == <<vars, threadVars, mysqlVars, crashed>>

(* The methods, by the form they have: update is updateStatus, insertOffline,
   insertUser and addGroup; getFriends is every one that reads its rows to the
   end.  Each begins at a stage of its own. *)
FirstStage == [update |-> "update", insertGroup |-> "insert", getFriends |-> "query",
               getOnline |-> "query", UserExist |-> "query", addFrient |-> "query"]
Methods == DOMAIN FirstStage
Readers == {"getFriends", "getOnline"}

(* What follows each update: insertGroup asks for the id, addFrient inserts
   twice. *)
AfterUpdate == [update |-> "release", insert |-> "id", first |-> "second",
                second |-> "release"]

Stages == {"none", "query", "update", "insert", "id", "first", "second", "release",
           "fetch"}

ModelTypeOK ==
  /\ method \in [Clients -> Methods]
  /\ stage \in [Clients -> Stages]
  /\ res \in [Clients -> Conns \cup {NoConn}]
  /\ rows \in [Clients -> Seq(Clients)]
  /\ inserted \in [Clients -> BOOLEAN]
  /\ id \in [Clients -> Clients \cup {NoClient}]
  /\ opener \in [Conns -> Clients \cup {NoClient}]
  /\ left \in [Conns -> 0..MaxRows]
  /\ insertId \in [Conns -> Clients \cup {NoClient}]
  /\ dangling \in SUBSET Clients
  /\ crashed \in BOOLEAN

ModelInit ==
  /\ Init
  /\ method = [t \in Clients |-> "update"]
  /\ stage = [t \in Clients |-> "none"]
  /\ res = [t \in Clients |-> NoConn]
  /\ rows = [t \in Clients |-> <<>>]
  /\ inserted = [t \in Clients |-> FALSE]
  /\ id = [t \in Clients |-> NoClient]
  /\ opener = [c \in Conns |-> NoClient]
  /\ left = [c \in Conns |-> 0]
  /\ insertId = [c \in Conns |-> NoClient]
  /\ dangling = {}
  /\ crashed = FALSE

Up == ~crashed /\ ~undefined

-----------------------------------------------------------------------------
(* The threads *)

(* A method is called, and calls getConnection. *)
Call(t, m) ==
  /\ Up
  /\ stage[t] = "none"
  /\ GetConnection(t)
  /\ method' = [method EXCEPT ![t] = m]
  /\ stage' = [stage EXCEPT ![t] = FirstStage[m]]
  /\ rows' = [rows EXCEPT ![t] = <<>>]
  /\ inserted' = [inserted EXCEPT ![t] = FALSE]
  /\ id' = [id EXCEPT ![t] = NoClient]
  /\ UNCHANGED <<res, dangling, mysqlVars, crashed>>

(* The thread goes on in getConnection. *)
Waits(t) ==
  /\ Up
  /\ CheckQueue(t) \/ WaitExpires(t) \/ AfterTimeout(t)
  /\ UNCHANGED <<threadVars, mysqlVars, crashed>>

(* getConnection timed out: no method looks at the pointer before using it. *)
NullConnection(t) ==
  /\ Up
  /\ stage[t] # "none" /\ pc[t] = "null"
  /\ crashed' = TRUE
  /\ UNCHANGED <<vars, threadVars, mysqlVars>>

(* libmysqlclient accepts a statement when no result is open. *)
Ready(c) == opener[c] = NoClient

(* A mutant: query discards what is left of an earlier result. *)
Query_Discards(t) ==
  /\ Up
  /\ stage[t] = "query" /\ pc[t] = "holding"
  /\ LET c == lease[t]
     IN \/ /\ res' = [res EXCEPT ![t] = c]
           /\ opener' = [opener EXCEPT ![c] = t]
           /\ \E n \in 0..MaxRows : left' = [left EXCEPT ![c] = n]
           /\ stage' = [stage EXCEPT ![t] = "release"]
        \/ /\ stage' = [stage EXCEPT ![t] = IF method[t] = "addFrient" THEN "first"
                                            ELSE "release"]
           /\ UNCHANGED <<res, opener, left>>
  /\ UNCHANGED <<vars, method, rows, inserted, id, dangling, insertId, crashed>>

(* Connection::query: an open result, or nullptr, as it may be for any other
   reason.  addFrient returns on a result, be it without rows. *)
Query(t) ==
  /\ Up
  /\ stage[t] = "query" /\ pc[t] = "holding"
  /\ LET c == lease[t]
     IN \/ /\ Ready(c)
           /\ res' = [res EXCEPT ![t] = c]
           /\ opener' = [opener EXCEPT ![c] = t]
           /\ \E n \in 0..MaxRows : left' = [left EXCEPT ![c] = n]
           /\ stage' = [stage EXCEPT ![t] = "release"]
        \/ /\ stage' = [stage EXCEPT ![t] = IF method[t] = "addFrient" THEN "first"
                                            ELSE "release"]
           /\ UNCHANGED <<res, opener, left>>
  /\ UNCHANGED <<vars, method, rows, inserted, id, dangling, insertId, crashed>>

(* Connection::update.  groupinfo alone has ids the database makes up. *)
Update(t) ==
  /\ Up
  /\ stage[t] \in DOMAIN AfterUpdate /\ pc[t] = "holding"
  /\ LET c == lease[t]
     IN \/ /\ Ready(c)
           /\ insertId' = [insertId EXCEPT ![c] = IF stage[t] = "insert" THEN t
                                                  ELSE NoClient]
           /\ inserted' = [inserted EXCEPT ![t] = TRUE]
        \/ /\ inserted' = [inserted EXCEPT ![t] = FALSE]
           /\ UNCHANGED insertId
  /\ stage' = [stage EXCEPT ![t] = AfterUpdate[stage[t]]]
  /\ UNCHANGED <<vars, method, res, rows, id, dangling, opener, left, crashed>>

(* A mutant: the id is asked for on a connection got anew. *)
InsertId_OtherConnection(t) ==
  /\ Up
  /\ stage[t] = "id"
  /\ \E c \in live : id' = [id EXCEPT ![t] = insertId[c]]
  /\ stage' = [stage EXCEPT ![t] = "release"]
  /\ UNCHANGED <<vars, method, res, rows, inserted, dangling, mysqlVars, crashed>>

(* mysql_insert_id, whether or not the update succeeded. *)
InsertId(t) ==
  /\ Up
  /\ stage[t] = "id"
  /\ id' = [id EXCEPT ![t] = insertId[lease[t]]]
  /\ stage' = [stage EXCEPT ![t] = "release"]
  /\ UNCHANGED <<vars, method, res, rows, inserted, dangling, mysqlVars, crashed>>

(* The method is over, and the pointer to its result gone. *)
Returns(t) ==
  /\ stage' = [stage EXCEPT ![t] = "none"]
  /\ res' = [res EXCEPT ![t] = NoConn]
  /\ dangling' = dangling \ {t}

(* A mutant: the connection goes back and the pointer to it stays in use. *)
GiveBack_KeepsPointer(t) ==
  /\ Up
  /\ stage[t] = "release"
  /\ pc[t] = "holding"
  /\ connectqueue' = Append(connectqueue, lease[t])
  /\ stage' = [stage EXCEPT ![t] = "query"]
  /\ UNCHANGED <<connectionCnt, live, alivetime, lease, pc, producer, clock, calls,
                 undefined, method, res, rows, inserted, id, dangling, mysqlVars,
                 crashed>>

(* A mutant: only methods that have got a result give the connection back. *)
GiveBack_Forgotten(t) ==
  /\ Up
  /\ stage[t] = "release" /\ res[t] # NoConn
  /\ Release(t)
  /\ Returns(t)
  /\ UNCHANGED <<method, rows, inserted, id, mysqlVars, crashed>>

(* The shared_ptr dies: after the one expression it lives in, or, in addFrient
   and insertGroup, at the end of the method. *)
GiveBack(t) ==
  /\ Up
  /\ stage[t] = "release"
  /\ Release(t)
  /\ \/ /\ method[t] \in Readers /\ res[t] # NoConn
        /\ stage' = [stage EXCEPT ![t] = "fetch"]
        /\ UNCHANGED <<res, dangling>>
     \/ /\ method[t] \notin Readers \/ res[t] = NoConn
        /\ Returns(t)
  /\ UNCHANGED <<method, rows, inserted, id, mysqlVars, crashed>>

(* mysql_fetch_row gives a row: getOnline wants no other. *)
FetchRow(t) ==
  /\ Up
  /\ stage[t] = "fetch" /\ t \notin dangling
  /\ left[res[t]] > 0
  /\ rows' = [rows EXCEPT ![t] = Append(@, opener[res[t]])]
  /\ left' = [left EXCEPT ![res[t]] = @ - 1]
  /\ \/ method[t] = "getOnline" /\ Returns(t)
     \/ method[t] # "getOnline" /\ UNCHANGED <<stage, res, dangling>>
  /\ UNCHANGED <<vars, method, inserted, id, opener, insertId, crashed>>

(* mysql_fetch_row has no more rows, which closes the result.  getOnline uses
   the null row. *)
FetchEnd(t) ==
  /\ Up
  /\ stage[t] = "fetch" /\ t \notin dangling
  /\ left[res[t]] = 0
  /\ opener' = [opener EXCEPT ![res[t]] = NoClient]
  /\ crashed' = (method[t] = "getOnline")
  /\ Returns(t)
  /\ UNCHANGED <<vars, method, rows, inserted, id, left, insertId>>

(* mysql_fetch_row of a connection the scanner has deleted. *)
FetchFreed(t) ==
  /\ Up
  /\ stage[t] = "fetch" /\ t \in dangling
  /\ crashed' \in BOOLEAN
  /\ Returns(t)
  /\ UNCHANGED <<vars, method, rows, inserted, id, mysqlVars>>

-----------------------------------------------------------------------------
(* The pool's own threads *)

Produces ==
  /\ Up
  /\ Produce
  /\ UNCHANGED <<threadVars, mysqlVars, crashed>>

Ticks ==
  /\ Up
  /\ Tick
  /\ UNCHANGED <<threadVars, mysqlVars, crashed>>

(* ~Connection closes the connection, also under a thread that reads from it. *)
Scans ==
  /\ Up
  /\ Scan
  /\ dangling' = dangling \cup {t \in Clients : res[t] \in live \ live'}
  /\ opener' = [c \in Conns |-> IF c \in live' THEN opener[c] ELSE NoClient]
  /\ insertId' = [c \in Conns |-> IF c \in live' THEN insertId[c] ELSE NoClient]
  /\ UNCHANGED <<method, stage, res, rows, inserted, id, left, crashed>>

-----------------------------------------------------------------------------
Thread(t) == \/ Waits(t) \/ NullConnection(t)
             \/ Query(t) \/ Update(t) \/ InsertId(t) \/ GiveBack(t)
             \/ FetchRow(t) \/ FetchEnd(t) \/ FetchFreed(t)

ModelNext ==
  \/ \E t \in Clients : \/ Thread(t)
                        \/ \E m \in Methods : Call(t, m)
  \/ Produces
  \/ Scans
  \/ Ticks

ModelSpec == ModelInit /\ [][ModelNext]_modelVars

(* The threads that run methods and the producer are scheduled, and MySQL
   answers.  Nothing forces a method to be called, or the scanner to wake. *)
FairModelSpec ==
  ModelSpec /\ WF_modelVars(Produces) /\ \A t \in Clients : WF_modelVars(Thread(t))

-----------------------------------------------------------------------------
(* Properties *)

(* A thread reads the rows of its own statement, although its connection has
   been given back and others try statements on it meanwhile
   (mysqlmodel.cpp:35-39 and the like). *)
OwnRows ==
  \A t \in Clients :
     /\ stage[t] = "fetch" /\ t \notin dangling => opener[res[t]] = t
     /\ Range(rows[t]) \subseteq {t}

(* The id of a group that was inserted is that group's, whatever other threads
   insert meanwhile: insertGroup keeps its connection until it has the id
   (mysqlmodel.cpp:127-129). *)
OwnIds ==
  \A t \in Clients :
     method[t] = "insertGroup" /\ inserted[t] /\ stage[t] \in {"release", "none"}
       => id[t] = t

(* A result that is open and that no thread will read on. *)
Abandoned(c) ==
  /\ c \in live
  /\ opener[c] # NoClient
  /\ \A t \in Clients : res[t] = c => method[t] \notin Readers

(* A connection whose result was left unread is never of use again: no method
   closes the result, and the pool hands the connection out until the scanner
   deletes it (mysqlmodel.cpp:7, 150-155, 165). *)
AbandonedForGood ==
  [][\A c \in live \cap live' : Abandoned(c) => Abandoned(c)']_modelVars

(* The methods use the pool as ConnectPool says its callers do. *)
UsesPool == Spec

(* Every method returns, or ends the process, though nothing is assumed about
   when connections are given back (compare CallersRelease in ConnectPool). *)
MethodsReturn ==
  \A t \in Clients : stage[t] # "none" ~> stage[t] = "none" \/ ~Up

=============================================================================
