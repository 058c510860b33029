------------------------------ MODULE ConnectPool ------------------------------
(***************************************************************************)
(* The MySQL connection pool, example/tool/CommonConnectionPool.cpp.       *)
(*                                                                         *)
(* Three kinds of thread share _queueMutex and the one condition variable  *)
(* cv: the producer (produceConnectionTask), the scanner                   *)
(* (scannerConnection) and the callers of getConnection, whose shared_ptr  *)
(* deleter gives the connection back.  An action is what a thread does     *)
(* between taking _queueMutex and giving it up, in an unlock or in a wait. *)
(***************************************************************************)
EXTENDS Naturals, Sequences, FiniteSets, Functions

CONSTANTS Clients,   \* the threads that call getConnection
          Conns,     \* the addresses operator new may return for a Connection
          NoConn,    \* nullptr
          InitSize,  \* _initSize
          MaxSize,   \* _maxSize
          MaxIdle,   \* the age, in clock() units, the scanner deletes from
          MaxClock,  \* bound: the last value of clock()
          MaxCalls   \* bound: the number of getConnection calls

(* mysql.ini gives initSize=10 and maxSize=1024: nothing in the code checks
   that they are in this order. *)
ASSUME PoolAssumption ==
  /\ InitSize \in Nat /\ MaxSize \in Nat /\ InitSize <= MaxSize
  /\ MaxIdle \in Nat /\ MaxClock \in Nat /\ MaxCalls \in Nat
  /\ IsFiniteSet(Conns) /\ MaxSize <= Cardinality(Conns)
  /\ NoConn \notin Conns

VARIABLES connectqueue,   \* _connectqueue, the idle connections, oldest first
          connectionCnt,  \* _connectionCnt
          live,           \* the connections that are allocated
          alivetime,      \* _alivetime of every connection
          lease,          \* the connection each caller's shared_ptr holds
          pc,             \* where each caller is in getConnection
          producer,       \* whether the producer runs or sits in cv.wait
          clock,          \* clock(), the processor time of the process
          calls,          \* the number of getConnection calls so far
          undefined       \* front() of an empty queue has broken the process

vars == <<connectqueue, connectionCnt, live, alivetime, lease, pc, producer,
          clock, calls, undefined>>

CallerStates == {"idle", "check", "waiting", "expired", "holding", "null"}

Pooled == Range(connectqueue)
Holders == {t \in Clients : lease[t] # NoConn}
Leased == {lease[t] : t \in Holders}
Empty == connectqueue = <<>>

TypeOK ==
  /\ connectqueue \in Seq(Conns)
  /\ connectionCnt \in Nat
  /\ live \in SUBSET Conns
  /\ alivetime \in [Conns -> Nat]
  /\ lease \in [Clients -> Conns \cup {NoConn}]
  /\ pc \in [Clients -> CallerStates]
  /\ producer \in {"run", "waiting"}
  /\ clock \in Nat
  /\ calls \in 0..MaxCalls
  /\ undefined \in BOOLEAN

(* The constructor: InitSize fresh connections, then the two threads.  The
   results of connect() are ignored, so a connection is pooled whether or not
   the server answered. *)
Init ==
  /\ connectqueue \in [1..InitSize -> Conns]
  /\ IsInjective(connectqueue)
  /\ connectionCnt = InitSize
  /\ live = Range(connectqueue)
  /\ alivetime = [c \in Conns |-> 0]
  /\ lease = [t \in Clients |-> NoConn]
  /\ pc = [t \in Clients |-> "idle"]
  /\ producer = "run"
  /\ clock = 0
  /\ calls = 0
  /\ undefined = FALSE

-----------------------------------------------------------------------------
(* The callers *)

(* cv.notify_all(): every caller waiting in wait_for tests the queue again,
   with a whole new timeout if it has to wait again; so does the producer. *)
Woken == [t \in Clients |-> IF pc[t] = "waiting" THEN "check" ELSE pc[t]]

(* RefreshAliveTime *)
Refreshed(c) == [alivetime EXCEPT ![c] = clock]

(* getConnection is called, and will take the mutex. *)
GetConnection(t) ==
  /\ ~undefined
  /\ pc[t] \in {"idle", "null"}
  /\ calls < MaxCalls
  /\ calls' = calls + 1
  /\ pc' = [pc EXCEPT ![t] = "check"]
  /\ UNCHANGED <<connectqueue, connectionCnt, live, alivetime, lease, producer,
                 clock, undefined>>

(* The front connection goes to the caller; everyone waiting is notified. *)
TakeFront(t) ==
  /\ ~Empty
  /\ lease' = [lease EXCEPT ![t] = Head(connectqueue)]
  /\ connectqueue' = Tail(connectqueue)
  /\ pc' = [Woken EXCEPT ![t] = "holding"]
  /\ producer' = "run"
  /\ UNCHANGED <<connectionCnt, live, alivetime, clock, calls, undefined>>

(* A pass of `while(_connectqueue.empty())' that did not end in a timeout. *)
CheckQueue(t) ==
  /\ ~undefined
  /\ pc[t] = "check"
  /\ \/ TakeFront(t)
     \/ /\ Empty
        /\ pc' = [pc EXCEPT ![t] = "waiting"]
        /\ UNCHANGED <<connectqueue, connectionCnt, live, alivetime, lease,
                       producer, clock, calls, undefined>>

(* A mutant: cv.wait in the place of cv.wait_for. *)
WaitExpires_Never(t) == FALSE /\ UNCHANGED vars

(* wait_for's timeout ends the wait: the caller queues for the mutex. *)
WaitExpires(t) ==
  /\ ~undefined
  /\ pc[t] = "waiting"
  /\ pc' = [pc EXCEPT ![t] = "expired"]
  /\ UNCHANGED <<connectqueue, connectionCnt, live, alivetime, lease, producer,
                 clock, calls, undefined>>

(* wait_for returned timeout: nullptr, unless a connection came meanwhile. *)
AfterTimeout(t) ==
  /\ ~undefined
  /\ pc[t] = "expired"
  /\ \/ TakeFront(t)
     \/ /\ Empty
        /\ pc' = [pc EXCEPT ![t] = "null"]
        /\ UNCHANGED <<connectqueue, connectionCnt, live, alivetime, lease,
                       producer, clock, calls, undefined>>

(* A mutant: the deleter does not refresh the connection's time. *)
Release_NotRefreshed(t) ==
  /\ ~undefined
  /\ pc[t] = "holding"
  /\ connectqueue' = Append(connectqueue, lease[t])
  /\ lease' = [lease EXCEPT ![t] = NoConn]
  /\ pc' = [pc EXCEPT ![t] = "idle"]
  /\ UNCHANGED <<connectionCnt, live, alivetime, producer, clock, calls, undefined>>

(* The deleter of the shared_ptr.  It notifies nobody. *)
Release(t) ==
  /\ ~undefined
  /\ pc[t] = "holding"
  /\ alivetime' = Refreshed(lease[t])
  /\ connectqueue' = Append(connectqueue, lease[t])
  /\ lease' = [lease EXCEPT ![t] = NoConn]
  /\ pc' = [pc EXCEPT ![t] = "idle"]
  /\ UNCHANGED <<connectionCnt, live, producer, clock, calls, undefined>>

-----------------------------------------------------------------------------
(* The producer and the scanner *)

Room_OneMore == connectionCnt <= MaxSize
Room == connectionCnt < MaxSize

(* One pass of produceConnectionTask.  With the queue empty and MaxSize
   reached it notifies and goes round again without ever waiting. *)
Produce ==
  /\ ~undefined
  /\ producer = "run"
  /\ \/ /\ ~Empty
        /\ producer' = "waiting"
        /\ UNCHANGED <<connectqueue, connectionCnt, live, alivetime, pc>>
     \/ /\ Empty
        /\ Room
        /\ \E c \in Conns \ live :
              /\ connectqueue' = Append(connectqueue, c)
              /\ live' = live \cup {c}
              /\ alivetime' = Refreshed(c)
        /\ connectionCnt' = connectionCnt + 1
        /\ pc' = Woken
        /\ UNCHANGED producer
     \/ /\ Empty
        /\ ~Room
        /\ pc' = Woken
        /\ UNCHANGED <<connectqueue, connectionCnt, live, alivetime, producer>>
  /\ UNCHANGED <<lease, clock, calls, undefined>>

Expired(c) == clock >= alivetime[c] + MaxIdle

(* The scanner's loop has deleted the first n connections of the queue. *)
DeleteFirst_KeepsCount(n) ==
  LET gone == {connectqueue[i] : i \in 1..n}
  IN /\ \A c \in gone : Expired(c)
     /\ connectqueue' = SubSeq(connectqueue, n + 1, Len(connectqueue))
     /\ live' = live \ gone
     /\ UNCHANGED connectionCnt
DeleteFirst(n) ==
  LET gone == {connectqueue[i] : i \in 1..n}
  IN /\ \A c \in gone : Expired(c)
     /\ connectqueue' = SubSeq(connectqueue, n + 1, Len(connectqueue))
     /\ live' = live \ gone
     /\ connectionCnt' = connectionCnt - n

(* The guard of the loop, after n deletions. *)
Surplus(n) == connectionCnt > InitSize + n

(* What ends the loop after n deletions: the guard, or a young connection. *)
Stops_AfterOne(n) ==
  n = 1 \/ ~Surplus(n) \/ (n < Len(connectqueue) /\ ~Expired(connectqueue[n + 1]))
Stops(n) ==
  ~Surplus(n) \/ (n < Len(connectqueue) /\ ~Expired(connectqueue[n + 1]))

(* scannerConnection wakes and runs its loop to the end.  When the queue runs
   out first, it reads front() of an empty queue, which is undefined: a stale
   slot that ends the loop, or a broken process.  The sleep of _maxIdleTime
   seconds is elapsed time and clock() is processor time, so the scanner may
   wake at any clock(). *)
Scan ==
  /\ ~undefined
  /\ \E n \in 0..Len(connectqueue) :
       /\ n > 0 => Surplus(n - 1)
       /\ DeleteFirst(n)
       /\ \/ Stops(n) /\ UNCHANGED undefined
          \/ Surplus(n) /\ n = Len(connectqueue) /\ undefined' \in BOOLEAN
  /\ UNCHANGED <<alivetime, lease, pc, producer, clock, calls>>

(* clock() advances. *)
Tick ==
  /\ ~undefined
  /\ clock < MaxClock
  /\ clock' = clock + 1
  /\ UNCHANGED <<connectqueue, connectionCnt, live, alivetime, lease, pc,
                 producer, calls, undefined>>

-----------------------------------------------------------------------------
Next ==
  \/ \E t \in Clients : \/ GetConnection(t) \/ CheckQueue(t)
                        \/ WaitExpires(t) \/ AfterTimeout(t)
                        \/ Release(t)
  \/ Produce
  \/ Scan
  \/ Tick

Spec == Init /\ [][Next]_vars

(* The scheduler runs every thread, and wait_for returns once its time is up
   unless it is notified first.  Nothing forces a call to be made, the
   scanner to wake or processor time to pass. *)
ThreadFairness ==
  /\ WF_vars(Produce)
  /\ \A t \in Clients : /\ WF_vars(CheckQueue(t))
                        /\ WF_vars(WaitExpires(t))
                        /\ WF_vars(AfterTimeout(t))

(* Every caller ends the expression its connection lives in. *)
CallersRelease == \A t \in Clients : WF_vars(Release(t))

FairSpec == Spec /\ ThreadFairness /\ CallersRelease

(* The same system when nothing promises that a connection comes back. *)
KeepingSpec == Spec /\ ThreadFairness

-----------------------------------------------------------------------------
(* Properties *)

(* Every allocated connection is in exactly one place, in the queue once or
   with one caller, and _connectionCnt counts them: two callers never share a
   MYSQL handle, and none is leaked or freed while in use. *)
PoolConservation ==
  /\ IsInjective(connectqueue)
  /\ \A s, t \in Holders : lease[s] = lease[t] => s = t
  /\ Pooled \cap Leased = {}
  /\ live = Pooled \cup Leased
  /\ connectionCnt = Cardinality(live)
  /\ \A t \in Clients : pc[t] = "holding" <=> t \in Holders

(* The producer never goes over _maxSize and the scanner never under
   _initSize, whatever they and the callers do in between. *)
PoolBounds == InitSize <= connectionCnt /\ connectionCnt <= MaxSize

(* The queue is in the order of its connections' idle time: this is what lets
   the scanner look at the front only (line 125). *)
IdleOrder ==
  /\ \A i, j \in DOMAIN connectqueue :
        i < j => alivetime[connectqueue[i]] <= alivetime[connectqueue[j]]
  /\ \A i \in DOMAIN connectqueue : alivetime[connectqueue[i]] <= clock

(* The scanner does not stop early: when it has deleted anything, the pool is
   back to _initSize or no connection in the queue is past its idle time. *)
ReapsAllExpired ==
  [][connectionCnt' < connectionCnt =>
        \/ connectionCnt' = InitSize
        \/ \A c \in Range(connectqueue') : ~Expired(c)]_vars

InGetConnection(t) == pc[t] \in {"check", "waiting", "expired"}

(* A call of getConnection returns, with a connection or with nullptr, as
   long as callers give their connections back (lines 98-118). *)
CallsReturn ==
  \A t \in Clients : InGetConnection(t) ~> (~InGetConnection(t) \/ undefined)

(* What mysql.ini's connectionTimeout (example/callee/mysql.ini:9) and the log
   line of a timed-out call (line 104) promise: when no connection ever comes
   back, a call gives up. *)
TimeoutEndsCall ==
  \A t \in Clients : <>[](Empty /\ ~undefined) => []<>(~InGetConnection(t))

=============================================================================
