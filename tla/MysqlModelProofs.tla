---------------------------- MODULE MysqlModelProofs ----------------------------
(***************************************************************************)
(* Safety of the connection pool and of the methods of MysqlModel that     *)
(* call it, for every number of threads, connections, calls and rows.  In  *)
(* the pool the four invariants are inductive together: the count needs    *)
(* the places of the connections, the bounds need the count, and the order *)
(* of the queue needs that a leased connection is not in the queue.  The   *)
(* methods are callers of the pool, so all that is proved of the pool      *)
(* holds here; what a thread reads after its connection is gone needs the  *)
(* invariant MInv.                                                         *)
(***************************************************************************)
EXTENDS MysqlModel, FiniteSetTheorems, SequenceTheorems, TLAPS

(***************************************************************************)
(* The pool                                                                *)
(***************************************************************************)

(* The four invariants of the pool, inductive together. *)
IInv == TypeOK /\ PoolConservation /\ PoolBounds /\ IdleOrder

-----------------------------------------------------------------------------
(* The three ways a queue without repetitions changes. *)

(* pop: the head leaves, the others move up. *)
LEMMA PopFacts ==
  ASSUME NEW S, NEW q \in Seq(S), q # <<>>
  PROVE  /\ Tail(q) \in Seq(S) /\ Head(q) \in S
         /\ DOMAIN Tail(q) = 1..(Len(q) - 1) /\ Len(q) \in Nat \ {0}
         /\ Head(q) = q[1]
         /\ \A i \in 1..(Len(q) - 1) : Tail(q)[i] = q[i + 1]
         /\ Range(q) = {Head(q)} \cup Range(Tail(q))
         /\ IsInjective(q) => IsInjective(Tail(q)) /\ Head(q) \notin Range(Tail(q))
<1>1. /\ Tail(q) \in Seq(S) /\ Head(q) \in S
      /\ DOMAIN Tail(q) = 1..(Len(q) - 1) /\ Len(q) \in Nat \ {0}
      /\ Head(q) = q[1] /\ DOMAIN q = 1..Len(q)
      /\ \A i \in 1..(Len(q) - 1) : Tail(q)[i] = q[i + 1]
  BY HeadTailProperties, LenProperties
<1>2. Range(q) = {Head(q)} \cup Range(Tail(q))
  <2>1. ASSUME NEW i \in DOMAIN q PROVE q[i] \in {Head(q)} \cup Range(Tail(q))
    <3>1. CASE i = 1
      BY <1>1, <3>1
    <3>2. CASE i # 1
      <4>1. i - 1 \in DOMAIN Tail(q) /\ Tail(q)[i - 1] = q[i]
        BY <1>1, <3>2
      <4>2. QED
        BY <4>1 DEF Range
    <3>3. QED
      BY <3>1, <3>2
  <2>2. ASSUME NEW i \in DOMAIN Tail(q) PROVE Tail(q)[i] \in Range(q)
    <3>1. i + 1 \in DOMAIN q /\ Tail(q)[i] = q[i + 1]
      BY <1>1
    <3>2. QED
      BY <3>1 DEF Range
  <2>3. Head(q) \in Range(q)
    BY <1>1 DEF Range
  <2>4. QED
    BY <2>1, <2>2, <2>3 DEF Range
<1>3. ASSUME IsInjective(q)
      PROVE  IsInjective(Tail(q)) /\ Head(q) \notin Range(Tail(q))
  <2>1. ASSUME NEW i \in DOMAIN Tail(q), NEW j \in DOMAIN Tail(q),
               Tail(q)[i] = Tail(q)[j]
        PROVE  i = j
    BY <1>1, <1>3, <2>1 DEF IsInjective
  <2>2. ASSUME NEW i \in DOMAIN Tail(q) PROVE Tail(q)[i] # Head(q)
    BY <1>1, <1>3 DEF IsInjective
  <2>3. QED
    BY <2>1, <2>2 DEF IsInjective, Range
<1>4. QED
  BY <1>1, <1>2, <1>3

(* push: a connection that is not in the queue goes to its back. *)
LEMMA PushFacts ==
  ASSUME NEW S, NEW q \in Seq(S), NEW c \in S
  PROVE  /\ Append(q, c) \in Seq(S)
         /\ Len(q) \in Nat /\ DOMAIN q = 1..Len(q)
         /\ DOMAIN Append(q, c) = 1..(Len(q) + 1)
         /\ \A i \in 1..Len(q) : Append(q, c)[i] = q[i]
         /\ Append(q, c)[Len(q) + 1] = c
         /\ Range(Append(q, c)) = Range(q) \cup {c}
         /\ IsInjective(q) /\ c \notin Range(q) => IsInjective(Append(q, c))
<1>1. /\ Append(q, c) \in Seq(S)
      /\ Len(q) \in Nat /\ DOMAIN q = 1..Len(q)
      /\ DOMAIN Append(q, c) = 1..(Len(q) + 1)
      /\ \A i \in 1..Len(q) : Append(q, c)[i] = q[i]
      /\ Append(q, c)[Len(q) + 1] = c
  BY AppendProperties, LenProperties
<1>2. Range(Append(q, c)) = Range(q) \cup {c}
  <2>1. ASSUME NEW i \in DOMAIN Append(q, c)
        PROVE  Append(q, c)[i] \in Range(q) \cup {c}
    <3>1. i \in DOMAIN q \/ i = Len(q) + 1
      BY <1>1
    <3>2. QED
      BY <1>1, <3>1 DEF Range
  <2>2. ASSUME NEW i \in DOMAIN q PROVE q[i] \in Range(Append(q, c))
    <3>1. i \in DOMAIN Append(q, c) /\ Append(q, c)[i] = q[i]
      BY <1>1
    <3>2. QED
      BY <3>1 DEF Range
  <2>3. c \in Range(Append(q, c))
    <3>1. Len(q) + 1 \in DOMAIN Append(q, c)
      BY <1>1
    <3>2. QED
      BY <1>1, <3>1 DEF Range
  <2>4. QED
    BY <2>1, <2>2, <2>3 DEF Range
<1>3. ASSUME IsInjective(q), c \notin Range(q) PROVE IsInjective(Append(q, c))
  <2>1. \A i \in DOMAIN q : q[i] # c
    BY <1>3 DEF Range
  <2>2. ASSUME NEW i \in DOMAIN Append(q, c), NEW j \in DOMAIN Append(q, c),
               Append(q, c)[i] = Append(q, c)[j]
        PROVE  i = j
    BY <1>1, <1>3, <2>1, <2>2 DEF IsInjective
  <2>3. QED
    BY <2>2 DEF IsInjective
<1>4. QED
  BY <1>1, <1>2, <1>3

FirstOf(q, n) == {q[i] : i \in 1..n}
Drop(q, n) == SubSeq(q, n + 1, Len(q))

(* n pops: the first n leave, and there are n of them. *)
LEMMA DropFacts ==
  ASSUME NEW S, NEW q \in Seq(S), NEW n \in 0..Len(q), IsInjective(q)
  PROVE  /\ Drop(q, n) \in Seq(S)
         /\ Len(q) \in Nat /\ DOMAIN q = 1..Len(q)
         /\ DOMAIN Drop(q, n) = 1..(Len(q) - n)
         /\ \A i \in 1..(Len(q) - n) : Drop(q, n)[i] = q[i + n]
         /\ Range(q) = FirstOf(q, n) \cup Range(Drop(q, n))
         /\ FirstOf(q, n) \cap Range(Drop(q, n)) = {}
         /\ IsInjective(Drop(q, n))
         /\ IsFiniteSet(FirstOf(q, n)) /\ Cardinality(FirstOf(q, n)) = n
<1> DEFINE d == Drop(q, n)
           gone == FirstOf(q, n)
<1> HIDE DEF d
<1>1. /\ Len(q) \in Nat /\ DOMAIN q = 1..Len(q)
      /\ \A i \in 1..Len(q) : q[i] \in S
      /\ n \in Nat /\ n <= Len(q)
  BY LenProperties, ElementOfSeq
<1>2. /\ d \in Seq(S)
      /\ Len(d) = Len(q) - n
      /\ \A i \in 1..(Len(q) - n) : d[i] = q[i + n]
  <2>1. \A i \in (n + 1)..Len(q) : q[i] \in S
    BY <1>1
  <2>2. /\ d \in Seq(S)
        /\ Len(d) = IF n + 1 <= Len(q) THEN Len(q) - (n + 1) + 1 ELSE 0
        /\ \A i \in 1..(Len(q) - (n + 1) + 1) : d[i] = q[n + 1 + i - 1]
    <3>1. n + 1 \in Int /\ Len(q) \in Int
      BY <1>1
    <3>2. QED
      BY <2>1, <3>1, SubSeqProperties DEF d, Drop
  <2>3. Len(q) - (n + 1) + 1 = Len(q) - n
    BY <1>1
  <2>4. ASSUME NEW i \in 1..(Len(q) - n) PROVE d[i] = q[i + n]
    <3>1. n + 1 + i - 1 = i + n
      BY <1>1
    <3>2. QED
      BY <2>2, <2>3, <3>1
  <2>5. Len(d) = Len(q) - n
    <3>1. CASE n = Len(q)
      <4>1. ~(n + 1 <= Len(q)) /\ Len(q) - n = 0
        BY <1>1, <3>1
      <4>2. QED
        BY <2>2, <4>1
    <3>2. CASE n < Len(q)
      <4>1. n + 1 <= Len(q)
        BY <1>1, <3>2
      <4>2. QED
        BY <2>2, <2>3, <4>1
    <3>3. n = Len(q) \/ n < Len(q)
      <4>1. Len(q) \in Int /\ n \in Int /\ n <= Len(q)
        BY <1>1
      <4>2. QED
        BY <4>1
    <3>4. QED
      BY <3>1, <3>2, <3>3
  <2>6. QED
    BY <2>2, <2>4, <2>5
<1>3. DOMAIN d = 1..(Len(q) - n)
  BY <1>2, LenProperties
<1>4. Range(q) = gone \cup Range(d)
  <2>1. ASSUME NEW i \in DOMAIN q PROVE q[i] \in gone \cup Range(d)
    <3>1. CASE i <= n
      BY <1>1, <3>1 DEF FirstOf
    <3>2. CASE i > n
      <4>1. i - n \in DOMAIN d /\ d[i - n] = q[i]
        BY <1>1, <1>2, <1>3, <3>2
      <4>2. QED
        BY <4>1 DEF Range
    <3>3. QED
      BY <1>1, <3>1, <3>2
  <2>2. ASSUME NEW i \in 1..n PROVE q[i] \in Range(q)
    BY <1>1 DEF Range
  <2>3. ASSUME NEW i \in DOMAIN d PROVE d[i] \in Range(q)
    <3>1. i + n \in DOMAIN q /\ d[i] = q[i + n]
      BY <1>1, <1>2, <1>3
    <3>2. QED
      BY <3>1 DEF Range
  <2>4. QED
    BY <2>1, <2>2, <2>3 DEF Range, FirstOf
<1>5. gone \cap Range(d) = {}
  <2>1. ASSUME NEW i \in 1..n, NEW j \in DOMAIN d PROVE q[i] # d[j]
    <3>1. i \in DOMAIN q /\ j + n \in DOMAIN q /\ i # j + n /\ d[j] = q[j + n]
      BY <1>1, <1>2, <1>3
    <3>2. QED
      BY <3>1 DEF IsInjective
  <2>2. QED
    BY <2>1 DEF Range, FirstOf
<1>6. IsInjective(d)
  <2>1. ASSUME NEW i \in DOMAIN d, NEW j \in DOMAIN d, d[i] = d[j]
        PROVE  i = j
    <3>1. /\ i + n \in DOMAIN q /\ d[i] = q[i + n]
          /\ j + n \in DOMAIN q /\ d[j] = q[j + n]
      BY <1>1, <1>2, <1>3
    <3>2. i + n = j + n
      BY <2>1, <3>1 DEF IsInjective
    <3>3. QED
      BY <1>1, <1>3, <3>2
  <2>2. QED
    BY <2>1 DEF IsInjective
<1>7. IsFiniteSet(gone) /\ Cardinality(gone) = n
  <2> DEFINE f == [i \in 1..n |-> q[i]]
  <2>1. f \in Bijection(1..n, gone)
    <3>1. f \in [1..n -> gone]
      BY DEF FirstOf
    <3>2. \A i, j \in 1..n : f[i] = f[j] => i = j
      <4>1. 1..n \subseteq DOMAIN q
        BY <1>1
      <4>2. QED
        BY <4>1 DEF IsInjective
    <3>3. \A c \in gone : \E i \in 1..n : f[i] = c
      BY DEF FirstOf
    <3>4. QED
      BY <3>1, <3>2, <3>3 DEF Bijection, Injection, Surjection, IsInjective
  <2>2. IsFiniteSet(1..n) /\ Cardinality(1..n) = n
    BY FS_Interval
  <2>3. ExistsBijection(1..n, gone)
    BY <2>1 DEF ExistsBijection
  <2>4. QED
    BY <2>2, <2>3, FS_Bijection
<1>8. QED
  BY <1>1, <1>2, <1>3, <1>4, <1>5, <1>6, <1>7 DEF d

-----------------------------------------------------------------------------
(* The constructor leaves the pool in order. *)
LEMMA InitIInv == Init => IInv
<1> SUFFICES ASSUME Init PROVE IInv
  OBVIOUS
<1> USE PoolAssumption DEF Init
<1>1. connectqueue \in Seq(Conns) /\ DOMAIN connectqueue = 1..InitSize
  BY IsASeq
<1>2. TypeOK
  <2>1. Range(connectqueue) \in SUBSET Conns
    BY <1>1 DEF Range
  <2>2. /\ alivetime \in [Conns -> Nat]
        /\ lease \in [Clients -> Conns \cup {NoConn}]
        /\ pc \in [Clients -> CallerStates]
    BY DEF CallerStates
  <2>3. calls \in 0..MaxCalls
    BY PoolAssumption
  <2>4. QED
    BY <1>1, <2>1, <2>2, <2>3, PoolAssumption DEF TypeOK
<1>3. Holders = {}
  BY DEF Holders
<1>4. Cardinality(live) = InitSize
  <2>1. connectqueue \in Bijection(1..InitSize, live)
    BY <1>1 DEF Bijection, Injection, Surjection, Range, IsInjective
  <2>2. IsFiniteSet(1..InitSize) /\ Cardinality(1..InitSize) = InitSize
    BY FS_Interval
  <2>3. ExistsBijection(1..InitSize, live)
    BY <2>1 DEF ExistsBijection
  <2>4. QED
    BY <2>2, <2>3, FS_Bijection
<1>5. PoolConservation
  BY <1>3, <1>4 DEF PoolConservation, Pooled, Leased, Holders
<1>6. PoolBounds
  BY DEF PoolBounds
<1>7. IdleOrder
  BY <1>1 DEF IdleOrder
<1>8. QED
  BY <1>2, <1>5, <1>6, <1>7 DEF IInv

(* notify_all moves callers between states in which they hold nothing. *)
LEMMA WokenFacts ==
  ASSUME TypeOK
  PROVE  /\ Woken \in [Clients -> CallerStates]
         /\ \A t \in Clients : Woken[t] = "holding" <=> pc[t] = "holding"
BY DEF TypeOK, Woken, CallerStates

(* The caller that takes the front moves it from the queue to its lease. *)
LEMMA TakeFrontStep ==
  ASSUME IInv, NEW t \in Clients, pc[t] # "holding", TakeFront(t)
  PROVE  IInv'
<1> USE PoolAssumption
<1> DEFINE c == Head(connectqueue)
<1>1. TypeOK /\ PoolConservation /\ PoolBounds /\ IdleOrder
  BY DEF IInv
<1>2. /\ connectqueue \in Seq(Conns) /\ connectqueue # <<>>
      /\ IsInjective(connectqueue)
  BY <1>1 DEF TypeOK, PoolConservation, TakeFront, Empty
<1>3. /\ connectqueue' \in Seq(Conns) /\ c \in Conns /\ c # NoConn
      /\ DOMAIN connectqueue' = 1..(Len(connectqueue) - 1)
      /\ Len(connectqueue) \in Nat \ {0}
      /\ DOMAIN connectqueue = 1..Len(connectqueue)
      /\ \A i \in 1..(Len(connectqueue) - 1) :
            connectqueue'[i] = connectqueue[i + 1]
      /\ Range(connectqueue) = {c} \cup Range(connectqueue')
      /\ IsInjective(connectqueue') /\ c \notin Range(connectqueue')
  BY <1>2, PopFacts, LenProperties DEF TakeFront
<1> HIDE DEF c
<1>4. /\ lease' = [lease EXCEPT ![t] = c]
      /\ pc' = [Woken EXCEPT ![t] = "holding"]
      /\ producer' = "run"
      /\ UNCHANGED <<connectionCnt, live, alivetime, clock, calls, undefined>>
  BY DEF TakeFront, c
<1>5. TypeOK'
  <2>1. lease' \in [Clients -> Conns \cup {NoConn}]
    BY <1>1, <1>3, <1>4 DEF TypeOK
  <2>2. pc' \in [Clients -> CallerStates]
    BY <1>1, <1>4, WokenFacts DEF CallerStates
  <2>3. QED
    BY <1>1, <1>3, <1>4, <2>1, <2>2 DEF TypeOK
<1>6. t \notin Holders
  BY <1>1 DEF PoolConservation
<1>7. \A s \in Clients : lease'[s] = IF s = t THEN c ELSE lease[s]
  BY <1>1, <1>4 DEF TypeOK
<1>8. Holders' = Holders \cup {t}
  BY <1>3, <1>7 DEF Holders
<1>9. Leased' = Leased \cup {c}
  BY <1>6, <1>7, <1>8 DEF Leased, Holders
<1>10. PoolConservation'
  <2>1. (\A r, s \in Holders : lease[r] = lease[s] => r = s)'
    <3>1. c \in Pooled
      BY <1>3 DEF Pooled
    <3>2. \A s \in Holders : lease[s] # c
      BY <1>1, <3>1 DEF PoolConservation, Leased
    <3>3. \A s \in Holders : s \in Clients
      BY DEF Holders
    <3>4. QED
      BY <1>1, <1>6, <1>7, <1>8, <3>2, <3>3 DEF PoolConservation
  <2>2. (Pooled \cap Leased = {})'
    BY <1>1, <1>3, <1>9 DEF PoolConservation, Pooled
  <2>3. (live = Pooled \cup Leased)'
    BY <1>1, <1>3, <1>4, <1>9 DEF PoolConservation, Pooled
  <2>4. (connectionCnt = Cardinality(live))'
    BY <1>1, <1>4 DEF PoolConservation
  <2>5. (\A s \in Clients : pc[s] = "holding" <=> s \in Holders)'
    <3>1. \A s \in Clients : pc'[s] = IF s = t THEN "holding" ELSE Woken[s]
      BY <1>1, <1>4, WokenFacts
    <3>2. \A s \in Clients : Woken[s] = "holding" <=> s \in Holders
      BY <1>1, WokenFacts DEF PoolConservation
    <3>3. QED
      BY <1>8, <3>1, <3>2
  <2>6. QED
    BY <1>3, <2>1, <2>2, <2>3, <2>4, <2>5 DEF PoolConservation
<1>11. PoolBounds'
  BY <1>1, <1>4 DEF PoolBounds
<1>12. IdleOrder'
  <2>1. ASSUME NEW i \in DOMAIN connectqueue', NEW j \in DOMAIN connectqueue',
               i < j
        PROVE  alivetime'[connectqueue'[i]] <= alivetime'[connectqueue'[j]]
    <3>1. /\ i + 1 \in DOMAIN connectqueue /\ j + 1 \in DOMAIN connectqueue
          /\ i + 1 < j + 1
          /\ connectqueue'[i] = connectqueue[i + 1]
          /\ connectqueue'[j] = connectqueue[j + 1]
      BY <1>3, <2>1
    <3>2. QED
      BY <1>1, <1>4, <3>1 DEF IdleOrder
  <2>2. ASSUME NEW i \in DOMAIN connectqueue'
        PROVE  alivetime'[connectqueue'[i]] <= clock'
    <3>1. /\ i + 1 \in DOMAIN connectqueue
          /\ connectqueue'[i] = connectqueue[i + 1]
      BY <1>3
    <3>2. QED
      BY <1>1, <1>4, <3>1 DEF IdleOrder
  <2>3. QED
    BY <2>1, <2>2 DEF IdleOrder
<1>13. QED
  BY <1>5, <1>10, <1>11, <1>12 DEF IInv

(* A caller that only moves between states without a lease disturbs nothing. *)
LEMMA WaitStep ==
  ASSUME IInv, NEW t \in Clients, NEW s \in CallerStates,
         pc[t] # "holding", s # "holding",
         pc' = [pc EXCEPT ![t] = s], calls' \in 0..MaxCalls,
         UNCHANGED <<connectqueue, connectionCnt, live, alivetime, lease,
                     producer, clock, undefined>>
  PROVE  IInv'
<1>1. TypeOK /\ PoolConservation /\ PoolBounds /\ IdleOrder
  BY DEF IInv
<1>2. TypeOK'
  BY <1>1 DEF TypeOK
<1>3. Holders' = Holders /\ Leased' = Leased /\ Pooled' = Pooled
  BY DEF Holders, Leased, Pooled
<1>4. \A r \in Clients : pc'[r] = "holding" <=> pc[r] = "holding"
  BY <1>1 DEF TypeOK
<1>5. PoolConservation'
  BY <1>1, <1>3, <1>4 DEF PoolConservation
<1>6. PoolBounds' /\ IdleOrder'
  BY <1>1 DEF PoolBounds, IdleOrder
<1>7. QED
  BY <1>2, <1>5, <1>6 DEF IInv

(* A connection that is pushed with its idle time just refreshed keeps the
   queue in order. *)
LEMMA PushKeepsOrder ==
  ASSUME TypeOK, IdleOrder, NEW c \in Conns, c \notin Range(connectqueue),
         connectqueue' = Append(connectqueue, c),
         alivetime' = [alivetime EXCEPT ![c] = clock],
         clock' = clock
  PROVE  IdleOrder'
<1> DEFINE n == Len(connectqueue)
<1>1. /\ n \in Nat /\ DOMAIN connectqueue = 1..n
      /\ DOMAIN connectqueue' = 1..(n + 1)
      /\ \A i \in 1..n : connectqueue'[i] = connectqueue[i]
      /\ connectqueue'[n + 1] = c
  BY PushFacts DEF TypeOK
<1>2. \A i \in 1..n : connectqueue[i] \in Conns /\ connectqueue[i] # c
  BY <1>1, ElementOfSeq DEF TypeOK, Range
<1> HIDE DEF n
<1>3. \A i \in 1..n : alivetime'[connectqueue'[i]] = alivetime[connectqueue[i]]
  BY <1>1, <1>2 DEF TypeOK
<1>4. alivetime'[connectqueue'[n + 1]] = clock
  BY <1>1 DEF TypeOK
<1>5. \A i \in 1..(n + 1) : i \in 1..n \/ i = n + 1
  BY <1>1
<1>6. clock \in Nat
  BY DEF TypeOK
<1>7. ASSUME NEW i \in 1..(n + 1) PROVE alivetime'[connectqueue'[i]] <= clock
  BY <1>1, <1>3, <1>4, <1>5, <1>6 DEF IdleOrder
<1>8. ASSUME NEW i \in 1..(n + 1), NEW j \in 1..(n + 1), i < j
      PROVE  alivetime'[connectqueue'[i]] <= alivetime'[connectqueue'[j]]
  <2>1. CASE j \in 1..n
    <3>1. i \in 1..n
      BY <1>1, <1>8, <2>1
    <3>2. QED
      BY <1>1, <1>3, <1>8, <2>1, <3>1 DEF IdleOrder
  <2>2. CASE j = n + 1
    BY <1>4, <1>7, <2>2
  <2>3. QED
    BY <1>5, <2>1, <2>2
<1>9. QED
  BY <1>1, <1>7, <1>8 DEF IdleOrder

(* The deleter moves a lease to the back of the queue, as the youngest. *)
LEMMA ReleaseStep ==
  ASSUME IInv, NEW t \in Clients, Release(t)
  PROVE  IInv'
<1> USE PoolAssumption
<1> DEFINE c == lease[t]
<1>1. TypeOK /\ PoolConservation /\ PoolBounds /\ IdleOrder
  BY DEF IInv
<1>2. t \in Holders /\ c \in Conns /\ c \in Leased
  BY <1>1 DEF PoolConservation, Release, Holders, TypeOK, Leased
<1>3. c \notin Range(connectqueue)
  BY <1>1, <1>2 DEF PoolConservation, Pooled
<1> HIDE DEF c
<1>4. /\ connectqueue' = Append(connectqueue, c)
      /\ alivetime' = [alivetime EXCEPT ![c] = clock]
      /\ lease' = [lease EXCEPT ![t] = NoConn]
      /\ pc' = [pc EXCEPT ![t] = "idle"]
      /\ UNCHANGED <<connectionCnt, live, producer, clock, calls, undefined>>
  BY DEF Release, Refreshed, c
<1>5. /\ connectqueue' \in Seq(Conns)
      /\ Len(connectqueue) \in Nat
      /\ DOMAIN connectqueue = 1..Len(connectqueue)
      /\ DOMAIN connectqueue' = 1..(Len(connectqueue) + 1)
      /\ \A i \in 1..Len(connectqueue) : connectqueue'[i] = connectqueue[i]
      /\ connectqueue'[Len(connectqueue) + 1] = c
      /\ Range(connectqueue') = Range(connectqueue) \cup {c}
      /\ IsInjective(connectqueue')
  BY <1>1, <1>2, <1>3, <1>4, PushFacts DEF TypeOK, PoolConservation
<1>6. TypeOK'
  <2>1. lease' \in [Clients -> Conns \cup {NoConn}]
    BY <1>1, <1>4 DEF TypeOK
  <2>2. pc' \in [Clients -> CallerStates]
    BY <1>1, <1>4 DEF TypeOK, CallerStates
  <2>3. alivetime' \in [Conns -> Nat]
    BY <1>1, <1>4 DEF TypeOK
  <2>4. QED
    BY <1>1, <1>4, <1>5, <2>1, <2>2, <2>3 DEF TypeOK
<1>7. \A s \in Clients : lease'[s] = IF s = t THEN NoConn ELSE lease[s]
  BY <1>1, <1>4 DEF TypeOK
<1>8. Holders' = Holders \ {t}
  BY <1>7 DEF Holders
<1>9. Leased' = Leased \ {c}
  <2>1. \A s \in Holders : lease[s] = c => s = t
    BY <1>1, <1>2 DEF PoolConservation, c
  <2>2. \A s \in Holders : s \in Clients
    BY DEF Holders
  <2>3. Leased' = {lease[s] : s \in Holders \ {t}}
    BY <1>7, <1>8, <2>2 DEF Leased
  <2>4. QED
    BY <1>2, <2>1, <2>3 DEF Leased, c
<1>10. PoolConservation'
  <2>1. (\A r, s \in Holders : lease[r] = lease[s] => r = s)'
    <3>1. \A s \in Holders : s \in Clients
      BY DEF Holders
    <3>2. QED
      BY <1>1, <1>7, <1>8, <3>1 DEF PoolConservation
  <2>2. (Pooled \cap Leased = {})'
    BY <1>1, <1>5, <1>9 DEF PoolConservation, Pooled
  <2>3. (live = Pooled \cup Leased)'
    BY <1>1, <1>2, <1>4, <1>5, <1>9 DEF PoolConservation, Pooled
  <2>4. (connectionCnt = Cardinality(live))'
    BY <1>1, <1>4 DEF PoolConservation
  <2>5. (\A s \in Clients : pc[s] = "holding" <=> s \in Holders)'
    <3>1. \A s \in Clients : pc'[s] = IF s = t THEN "idle" ELSE pc[s]
      BY <1>1, <1>4 DEF TypeOK
    <3>2. QED
      BY <1>1, <1>8, <3>1 DEF PoolConservation
  <2>6. QED
    BY <1>5, <2>1, <2>2, <2>3, <2>4, <2>5 DEF PoolConservation
<1>11. PoolBounds'
  BY <1>1, <1>4 DEF PoolBounds
<1>12. IdleOrder'
  BY <1>1, <1>2, <1>3, <1>4, <1>5, PushKeepsOrder DEF TypeOK
<1>13. QED
  BY <1>6, <1>10, <1>11, <1>12 DEF IInv

(* The producer adds a connection nobody holds, and only when there is room. *)
LEMMA ProduceStep ==
  ASSUME IInv, Produce
  PROVE  IInv'
<1> USE PoolAssumption
<1>1. TypeOK /\ PoolConservation /\ PoolBounds /\ IdleOrder
  BY DEF IInv
<1>2. UNCHANGED <<lease, clock, calls, undefined>>
  BY DEF Produce
<1>3. Holders' = Holders /\ Leased' = Leased
  BY <1>2 DEF Holders, Leased
<1>4. ASSUME pc' = Woken
      PROVE  /\ pc' \in [Clients -> CallerStates]
             /\ \A t \in Clients : pc'[t] = "holding" <=> t \in Holders'
  BY <1>1, <1>3, <1>4, WokenFacts DEF PoolConservation
<1>5. CASE /\ producer' \in {"run", "waiting"}
           /\ pc' = pc \/ pc' = Woken
           /\ UNCHANGED <<connectqueue, connectionCnt, live, alivetime>>
  <2>1. /\ pc' \in [Clients -> CallerStates]
        /\ \A t \in Clients : pc'[t] = "holding" <=> t \in Holders'
    BY <1>1, <1>3, <1>4, <1>5 DEF TypeOK, PoolConservation
  <2>2. TypeOK'
    BY <1>1, <1>2, <1>5, <2>1 DEF TypeOK
  <2>3. Pooled' = Pooled
    BY <1>5 DEF Pooled
  <2>4. PoolConservation'
    BY <1>1, <1>2, <1>3, <1>5, <2>1, <2>3 DEF PoolConservation
  <2>5. PoolBounds' /\ IdleOrder'
    BY <1>1, <1>2, <1>5 DEF PoolBounds, IdleOrder
  <2>6. QED
    BY <2>2, <2>4, <2>5 DEF IInv
<1>6. CASE /\ Room
           /\ \E c \in Conns \ live :
                 /\ connectqueue' = Append(connectqueue, c)
                 /\ live' = live \cup {c}
                 /\ alivetime' = Refreshed(c)
           /\ connectionCnt' = connectionCnt + 1
           /\ pc' = Woken
           /\ UNCHANGED producer
  <2>1. PICK c \in Conns \ live : /\ connectqueue' = Append(connectqueue, c)
                                  /\ live' = live \cup {c}
                                  /\ alivetime' = [alivetime EXCEPT ![c] = clock]
    BY <1>6 DEF Refreshed
  <2>2. c \notin Range(connectqueue) /\ c \notin Leased
    BY <1>1 DEF PoolConservation, Pooled
  <2>3. /\ connectqueue' \in Seq(Conns)
        /\ Range(connectqueue') = Range(connectqueue) \cup {c}
        /\ IsInjective(connectqueue')
    BY <1>1, <2>1, <2>2, PushFacts DEF TypeOK, PoolConservation
  <2>4. TypeOK'
    <3>1. alivetime' \in [Conns -> Nat]
      BY <1>1, <2>1 DEF TypeOK
    <3>2. connectionCnt' \in Nat
      BY <1>1, <1>6 DEF TypeOK
    <3>3. QED
      BY <1>1, <1>2, <1>4, <1>6, <2>1, <2>3, <3>1, <3>2 DEF TypeOK
  <2>5. (connectionCnt = Cardinality(live))'
    <3>1. IsFiniteSet(live)
      BY <1>1, FS_Subset DEF TypeOK
    <3>2. QED
      BY <1>1, <1>6, <2>1, <3>1, FS_AddElement DEF PoolConservation
  <2>6. PoolConservation'
    <3>1. (\A r, s \in Holders : lease[r] = lease[s] => r = s)'
      BY <1>1, <1>2, <1>3 DEF PoolConservation
    <3>2. (Pooled \cap Leased = {} /\ live = Pooled \cup Leased)'
      BY <1>1, <1>3, <2>1, <2>2, <2>3 DEF PoolConservation, Pooled
    <3>3. QED
      BY <1>4, <1>6, <2>3, <2>5, <3>1, <3>2 DEF PoolConservation
  <2>7. PoolBounds'
    BY <1>1, <1>6 DEF PoolBounds, Room, TypeOK
  <2>8. IdleOrder'
    BY <1>1, <1>2, <2>1, <2>2, PushKeepsOrder
  <2>9. QED
    BY <2>4, <2>6, <2>7, <2>8 DEF IInv
<1>7. QED
  BY <1>5, <1>6 DEF Produce

(* What the scanner's loop does when it deletes the first n connections. *)
LEMMA DeleteFirstStep ==
  ASSUME IInv, NEW n \in 0..Len(connectqueue), DeleteFirst(n),
         n > 0 => Surplus(n - 1), undefined' \in BOOLEAN,
         UNCHANGED <<alivetime, lease, pc, producer, clock, calls>>
  PROVE  IInv'
<1> USE PoolAssumption
<1> DEFINE gone == FirstOf(connectqueue, n)
<1>1. TypeOK /\ PoolConservation /\ PoolBounds /\ IdleOrder
  BY DEF IInv
<1>2. /\ connectqueue' = Drop(connectqueue, n)
      /\ live' = live \ gone
      /\ connectionCnt' = connectionCnt - n
  BY DEF DeleteFirst, Drop, FirstOf
<1>3. /\ connectqueue' \in Seq(Conns)
      /\ Len(connectqueue) \in Nat
      /\ DOMAIN connectqueue = 1..Len(connectqueue)
      /\ DOMAIN connectqueue' = 1..(Len(connectqueue) - n)
      /\ \A i \in 1..(Len(connectqueue) - n) :
            connectqueue'[i] = connectqueue[i + n]
      /\ Range(connectqueue) = gone \cup Range(connectqueue')
      /\ gone \cap Range(connectqueue') = {}
      /\ IsInjective(connectqueue')
      /\ IsFiniteSet(gone) /\ Cardinality(gone) = n
  <2>1. connectqueue \in Seq(Conns) /\ IsInjective(connectqueue)
    BY <1>1 DEF TypeOK, PoolConservation
  <2>2. QED
    BY <1>2, <2>1, DropFacts
<1> HIDE DEF gone
<1>4. n \in Nat
  BY <1>3
<1>5. Holders' = Holders /\ Leased' = Leased
  BY DEF Holders, Leased
<1>6. connectionCnt' \in Nat /\ InitSize <= connectionCnt' /\ connectionCnt' <= MaxSize
  <2>1. CASE n = 0
    BY <1>1, <1>2, <2>1 DEF TypeOK, PoolBounds
  <2>2. CASE n > 0
    <3>1. connectionCnt > InitSize + (n - 1)
      BY <2>2 DEF Surplus
    <3>2. connectionCnt \in Nat /\ connectionCnt <= MaxSize
      BY <1>1 DEF TypeOK, PoolBounds
    <3>3. QED
      BY <1>2, <1>4, <2>2, <3>1, <3>2
  <2>3. QED
    BY <1>4, <2>1, <2>2
<1>7. TypeOK'
  BY <1>1, <1>2, <1>3, <1>6 DEF TypeOK
<1>8. (connectionCnt = Cardinality(live))'
  <2>1. IsFiniteSet(live)
    BY <1>1, FS_Subset DEF TypeOK
  <2>2. live \cap gone = gone
    BY <1>1, <1>3 DEF PoolConservation, Pooled
  <2>3. Cardinality(live \ gone) = Cardinality(live) - Cardinality(live \cap gone)
    BY <2>1, FS_Difference
  <2>4. QED
    BY <1>1, <1>2, <1>3, <2>2, <2>3 DEF PoolConservation
<1>9. PoolConservation'
  <2>1. (Pooled \cap Leased = {} /\ live = Pooled \cup Leased)'
    BY <1>1, <1>2, <1>3, <1>5 DEF PoolConservation, Pooled
  <2>2. (\A r, s \in Holders : lease[r] = lease[s] => r = s)'
    BY <1>1, <1>5 DEF PoolConservation
  <2>3. (\A s \in Clients : pc[s] = "holding" <=> s \in Holders)'
    BY <1>1, <1>5 DEF PoolConservation
  <2>4. QED
    BY <1>3, <1>8, <2>1, <2>2, <2>3 DEF PoolConservation
<1>10. PoolBounds'
  BY <1>6 DEF PoolBounds
<1>11. IdleOrder'
  <2>1. \A i \in DOMAIN connectqueue' :
           i + n \in DOMAIN connectqueue /\ connectqueue'[i] = connectqueue[i + n]
    BY <1>3, <1>4
  <2>2. \A i, j \in DOMAIN connectqueue' : i < j => i + n < j + n
    BY <1>3, <1>4
  <2>3. QED
    BY <1>1, <2>1, <2>2 DEF IdleOrder
<1>12. QED
  BY <1>7, <1>9, <1>10, <1>11 DEF IInv

-----------------------------------------------------------------------------
(* Every step keeps the four invariants. *)
LEMMA NextIInv == IInv /\ [Next]_vars => IInv'
<1> SUFFICES ASSUME IInv, [Next]_vars PROVE IInv'
  OBVIOUS
<1>1. TypeOK
  BY DEF IInv
<1>2. ASSUME NEW t \in Clients, GetConnection(t) PROVE IInv'
  <2>1. calls' \in 0..MaxCalls
    BY <1>1, <1>2, PoolAssumption DEF GetConnection, TypeOK
  <2>2. "check" \in CallerStates
    BY DEF CallerStates
  <2>3. QED
    BY <1>2, <2>1, <2>2, WaitStep DEF GetConnection
<1>3. ASSUME NEW t \in Clients, CheckQueue(t) PROVE IInv'
  <2>1. CASE TakeFront(t)
    BY <1>3, <2>1, TakeFrontStep DEF CheckQueue
  <2>2. CASE ~TakeFront(t)
    <3>1. "waiting" \in CallerStates /\ calls' \in 0..MaxCalls
      BY <1>1, <1>3, <2>2 DEF CallerStates, CheckQueue, TypeOK
    <3>2. QED
      BY <1>3, <2>2, <3>1, WaitStep DEF CheckQueue
  <2>3. QED
    BY <2>1, <2>2
<1>4. ASSUME NEW t \in Clients, WaitExpires(t) PROVE IInv'
  <2>1. "expired" \in CallerStates /\ calls' \in 0..MaxCalls
    BY <1>1, <1>4 DEF CallerStates, WaitExpires, TypeOK
  <2>2. QED
    BY <1>4, <2>1, WaitStep DEF WaitExpires
<1>5. ASSUME NEW t \in Clients, AfterTimeout(t) PROVE IInv'
  <2>1. CASE TakeFront(t)
    BY <1>5, <2>1, TakeFrontStep DEF AfterTimeout
  <2>2. CASE ~TakeFront(t)
    <3>1. "null" \in CallerStates /\ calls' \in 0..MaxCalls
      BY <1>1, <1>5, <2>2 DEF CallerStates, AfterTimeout, TypeOK
    <3>2. QED
      BY <1>5, <2>2, <3>1, WaitStep DEF AfterTimeout
  <2>3. QED
    BY <2>1, <2>2
<1>6. ASSUME NEW t \in Clients, Release(t) PROVE IInv'
  BY <1>6, ReleaseStep
<1>7. CASE Produce
  BY <1>7, ProduceStep
<1>8. CASE Scan
  <2>1. PICK n \in 0..Len(connectqueue) :
           /\ n > 0 => Surplus(n - 1)
           /\ DeleteFirst(n)
           /\ undefined' = undefined \/ undefined' \in BOOLEAN
    BY <1>8 DEF Scan
  <2>2. undefined' \in BOOLEAN
    BY <1>1, <2>1 DEF TypeOK
  <2>3. QED
    BY <1>8, <2>1, <2>2, DeleteFirstStep DEF Scan
<1>9. CASE Tick
  <2>1. clock' \in Nat /\ clock <= clock' /\ clock \in Nat
    BY <1>1, <1>9 DEF TypeOK, Tick
  <2>2. TypeOK'
    BY <1>1, <1>9, <2>1 DEF TypeOK, Tick
  <2>3. Holders' = Holders /\ Leased' = Leased /\ Pooled' = Pooled
    BY <1>9 DEF Tick, Holders, Leased, Pooled
  <2>4. PoolConservation' /\ PoolBounds'
    BY <1>9, <2>3 DEF Tick, IInv, PoolConservation, PoolBounds
  <2>5. IdleOrder'
    <3>1. \A i \in DOMAIN connectqueue : alivetime[connectqueue[i]] \in Nat
      BY <1>1, ElementOfSeq, LenProperties DEF TypeOK
    <3>2. QED
      BY <1>9, <2>1, <3>1 DEF Tick, IInv, IdleOrder
  <2>6. QED
    BY <2>2, <2>4, <2>5 DEF IInv
<1>10. CASE UNCHANGED vars
  <2>1. Holders' = Holders /\ Leased' = Leased /\ Pooled' = Pooled
    BY <1>10 DEF vars, Holders, Leased, Pooled
  <2>2. TypeOK' /\ PoolBounds' /\ IdleOrder'
    BY <1>10 DEF vars, IInv, TypeOK, PoolBounds, IdleOrder
  <2>3. PoolConservation'
    BY <1>10, <2>1 DEF vars, IInv, PoolConservation
  <2>4. QED
    BY <2>2, <2>3 DEF IInv
<1>11. QED
  BY <1>2, <1>3, <1>4, <1>5, <1>6, <1>7, <1>8, <1>9, <1>10 DEF Next

(* The inductive invariant holds in every reachable state. *)
THEOREM Inductive == Spec => []IInv
  BY InitIInv, NextIInv, PTL DEF Spec

(* Type correctness of the pool (CommonConnectionPool.cpp). *)
THEOREM TypeCorrect == Spec => []TypeOK
  BY Inductive, PTL DEF IInv

(* Every connection is in exactly one place, and the count is right. *)
THEOREM Conservation == Spec => []PoolConservation
  BY Inductive, PTL DEF IInv

(* The number of connections stays between _initSize and _maxSize. *)
THEOREM Bounds == Spec => []PoolBounds
  BY Inductive, PTL DEF IInv

(* The queue is in the order of idle time, so the scanner may look at the
   front alone. *)
THEOREM Order == Spec => []IdleOrder
  BY Inductive, PTL DEF IInv


-----------------------------------------------------------------------------
(* Only the scanner takes connections away, and where it stops. *)
LEMMA ReapStep ==
  ASSUME IInv, [Next]_vars, connectionCnt' < connectionCnt
  PROVE  \/ connectionCnt' = InitSize
         \/ \A c \in Range(connectqueue') : ~Expired(c)
<1> USE PoolAssumption
<1>1. TypeOK /\ PoolConservation /\ IdleOrder /\ connectionCnt \in Nat
  BY DEF IInv, TypeOK
<1>2. Scan
  <2>1. ~(connectionCnt' = connectionCnt) /\ ~(connectionCnt' = connectionCnt + 1)
    BY <1>1
  <2>2. QED
    BY <2>1 DEF Next, vars, GetConnection, CheckQueue, TakeFront, WaitExpires,
                AfterTimeout, Release, Produce, Tick
<1>3. PICK n \in 0..Len(connectqueue) :
         /\ n > 0 => Surplus(n - 1)
         /\ DeleteFirst(n)
         /\ Stops(n) \/ n = Len(connectqueue)
  BY <1>2 DEF Scan
<1>4. /\ connectionCnt' = connectionCnt - n
      /\ connectqueue' = Drop(connectqueue, n)
  BY <1>3 DEF DeleteFirst, Drop
<1>5. connectqueue \in Seq(Conns) /\ IsInjective(connectqueue)
  BY <1>1 DEF TypeOK, PoolConservation
<1>6. /\ Len(connectqueue) \in Nat /\ n \in Nat
      /\ DOMAIN connectqueue = 1..Len(connectqueue)
      /\ DOMAIN connectqueue' = 1..(Len(connectqueue) - n)
      /\ \A i \in 1..(Len(connectqueue) - n) :
            connectqueue'[i] = connectqueue[i + n]
  BY <1>4, <1>5, DropFacts
<1>7. n > 0 /\ connectionCnt > InitSize + (n - 1)
  <2>1. connectionCnt \in Nat /\ n \in Nat /\ connectionCnt' = connectionCnt - n
    BY <1>1, <1>4, <1>6
  <2>2. n > 0
    BY <2>1
  <2>3. Surplus(n - 1)
    BY <1>3, <2>2
  <2>4. QED
    BY <2>2, <2>3 DEF Surplus
<1>8. CASE ~Surplus(n)
  BY <1>1, <1>4, <1>6, <1>7, <1>8 DEF Surplus
<1>9. CASE n < Len(connectqueue) /\ ~Expired(connectqueue[n + 1])
  <2>1. \A i \in DOMAIN connectqueue : connectqueue[i] \in Conns
    BY <1>5, <1>6, ElementOfSeq
  <2>2. ASSUME NEW i \in DOMAIN connectqueue' PROVE ~Expired(connectqueue'[i])
    <3>1. /\ i + n \in DOMAIN connectqueue /\ n + 1 \in DOMAIN connectqueue
          /\ i + n = n + 1 \/ n + 1 < i + n
          /\ connectqueue'[i] = connectqueue[i + n]
      BY <1>6, <1>9
    <3>2. alivetime[connectqueue[n + 1]] <= alivetime[connectqueue[i + n]]
      <4>1. CASE i + n = n + 1
        BY <1>1, <2>1, <3>1, <4>1 DEF TypeOK
      <4>2. CASE n + 1 < i + n
        BY <1>1, <3>1, <4>2 DEF IdleOrder
      <4>3. QED
        BY <3>1, <4>1, <4>2
    <3>3. /\ alivetime[connectqueue[n + 1]] \in Nat
          /\ alivetime[connectqueue[i + n]] \in Nat /\ clock \in Nat
      BY <1>1, <2>1, <3>1 DEF TypeOK
    <3>4. QED
      BY <1>9, <3>1, <3>2, <3>3 DEF Expired
  <2>3. QED
    BY <2>2 DEF Range
<1>10. CASE n = Len(connectqueue)
  BY <1>6, <1>10 DEF Range
<1>11. QED
  BY <1>3, <1>8, <1>9, <1>10 DEF Stops

(* When the scanner has deleted anything, no expired connection is left in the
   queue unless the pool is back to _initSize. *)
THEOREM Reaps == Spec => ReapsAllExpired
<1>1. IInv /\ [Next]_vars =>
        [connectionCnt' < connectionCnt =>
            \/ connectionCnt' = InitSize
            \/ \A c \in Range(connectqueue') : ~Expired(c)]_vars
  BY ReapStep
<1>2. QED
  BY <1>1, Inductive, PTL DEF Spec, ReapsAllExpired


-----------------------------------------------------------------------------
(* With no more threads than _initSize, getConnection always finds a
   connection: nobody waits, times out or gets nullptr. *)
Enough == IsFiniteSet(Clients) /\ Cardinality(Clients) <= InitSize
NeverWaits == \A t \in Clients : pc[t] \in {"idle", "check", "holding"}

(* The connections that are not leased are in the queue, and the one that asks
   has none. *)
LEMMA QueueNotEmpty ==
  ASSUME Enough, IInv, NEW t \in Clients, pc[t] = "check"
  PROVE  ~Empty
<1> SUFFICES ASSUME Empty PROVE FALSE
  OBVIOUS
<1>1. TypeOK /\ PoolConservation /\ PoolBounds
  BY DEF IInv
<1>2. Pooled = {}
  <2>1. connectqueue = <<>>
    BY DEF Empty
  <2>2. DOMAIN connectqueue = 1..0
    BY <2>1
  <2>3. QED
    BY <2>2 DEF Pooled, Range
<1>3. live = Leased
  BY <1>1, <1>2 DEF PoolConservation
<1>4. Holders \subseteq Clients \ {t}
  BY <1>1 DEF PoolConservation, Holders
<1>5. /\ IsFiniteSet(Clients \ {t}) /\ Cardinality(Clients) \in Nat
      /\ Cardinality(Clients \ {t}) = Cardinality(Clients) - 1
  BY FS_RemoveElement, FS_CardinalityType DEF Enough
<1>6. IsFiniteSet(Holders) /\ Cardinality(Holders) <= Cardinality(Clients) - 1
  BY <1>4, <1>5, FS_Subset
<1>7. Cardinality(Leased) <= Cardinality(Holders)
  <2> DEFINE f == [u \in Holders |-> lease[u]]
  <2>1. f \in Surjection(Holders, Leased)
    BY DEF Surjection, Leased
  <2>2. QED
    BY <1>6, <2>1, FS_Surjection
<1>8. Cardinality(Holders) \in Nat /\ Cardinality(Leased) = connectionCnt
  BY <1>1, <1>3, <1>6, FS_CardinalityType DEF PoolConservation
<1>9. connectionCnt \in Nat /\ InitSize \in Nat /\ InitSize <= connectionCnt
  BY <1>1, PoolAssumption DEF TypeOK, PoolBounds
<1>10. QED
  BY <1>5, <1>6, <1>7, <1>8, <1>9 DEF Enough

LEMMA NeverWaitsStep ==
  ASSUME Enough, IInv, NeverWaits, [Next]_vars
  PROVE  NeverWaits'
<1>1. pc \in [Clients -> CallerStates]
  BY DEF IInv, TypeOK
<1>2. Woken = pc
  BY <1>1 DEF Woken, NeverWaits
<1>3. ASSUME NEW t \in Clients, GetConnection(t) PROVE NeverWaits'
  BY <1>1, <1>3 DEF GetConnection, NeverWaits
<1>4. ASSUME NEW t \in Clients, CheckQueue(t) PROVE NeverWaits'
  <2>1. TakeFront(t)
    BY <1>4, QueueNotEmpty DEF CheckQueue
  <2>2. pc' = [pc EXCEPT ![t] = "holding"]
    BY <1>2, <2>1 DEF TakeFront
  <2>3. QED
    BY <1>1, <2>2 DEF NeverWaits
<1>5. ASSUME NEW t \in Clients, WaitExpires(t) \/ AfterTimeout(t) PROVE FALSE
  BY <1>5 DEF WaitExpires, AfterTimeout, NeverWaits
<1>6. ASSUME NEW t \in Clients, Release(t) PROVE NeverWaits'
  BY <1>1, <1>6 DEF Release, NeverWaits
<1>7. CASE Produce
  BY <1>2, <1>7 DEF Produce, NeverWaits
<1>8. CASE Scan \/ Tick \/ UNCHANGED vars
  BY <1>8 DEF Scan, Tick, vars, NeverWaits
<1>9. QED
  BY <1>3, <1>4, <1>5, <1>6, <1>7, <1>8 DEF Next

(* A process with at most _initSize threads that use the pool never waits for a
   connection in getConnection (lines 98-109), and so never gets nullptr. *)
THEOREM EnoughForAll == Enough => (Spec => []NeverWaits)
<1>1. Init => NeverWaits
  BY DEF Init, NeverWaits
<1>2. Enough /\ IInv /\ NeverWaits /\ [Next]_vars => NeverWaits'
  BY NeverWaitsStep
<1>3. SUFFICES ASSUME Enough PROVE Spec => []NeverWaits
  OBVIOUS
<1>4. IInv /\ NeverWaits /\ [Next]_vars => NeverWaits'
  BY <1>2, <1>3
<1>5. QED
  BY <1>1, <1>4, Inductive, PTL DEF Spec


(* With fewer, the queue is never empty, so the producer never adds a
   connection and the scanner never has one to delete. *)
Fewer == IsFiniteSet(Clients) /\ Cardinality(Clients) < InitSize
AtInitSize == connectionCnt = InitSize /\ ~undefined
SameConnections == [][live' = live]_vars

LEMMA SomeAreIdle ==
  ASSUME Fewer, IInv
  PROVE  ~Empty
<1> SUFFICES ASSUME Empty PROVE FALSE
  OBVIOUS
<1>1. TypeOK /\ PoolConservation /\ PoolBounds
  BY DEF IInv
<1>2. Pooled = {}
  <2>1. connectqueue = <<>>
    BY DEF Empty
  <2>2. DOMAIN connectqueue = 1..0
    BY <2>1
  <2>3. QED
    BY <2>2 DEF Pooled, Range
<1>3. live = Leased
  BY <1>1, <1>2 DEF PoolConservation
<1>4. IsFiniteSet(Holders) /\ Cardinality(Holders) <= Cardinality(Clients)
  BY FS_Subset DEF Holders, Fewer
<1>5. Cardinality(Leased) <= Cardinality(Holders)
  <2> DEFINE f == [u \in Holders |-> lease[u]]
  <2>1. f \in Surjection(Holders, Leased)
    BY DEF Surjection, Leased
  <2>2. QED
    BY <1>4, <2>1, FS_Surjection
<1>6. /\ Cardinality(Holders) \in Nat /\ Cardinality(Clients) \in Nat
      /\ Cardinality(Leased) = connectionCnt
  BY <1>1, <1>3, <1>4, FS_CardinalityType DEF PoolConservation, Fewer
<1>7. connectionCnt \in Nat /\ InitSize \in Nat /\ InitSize <= connectionCnt
  BY <1>1, PoolAssumption DEF TypeOK, PoolBounds
<1>8. QED
  BY <1>4, <1>5, <1>6, <1>7 DEF Fewer

LEMMA AtInitSizeStep ==
  ASSUME Fewer, IInv, AtInitSize, [Next]_vars
  PROVE  AtInitSize' /\ live' = live
<1>1. ~Empty
  BY SomeAreIdle
<1>2. /\ connectionCnt \in Nat /\ InitSize \in Nat /\ connectionCnt = InitSize
      /\ connectqueue \in Seq(Conns)
  BY PoolAssumption DEF IInv, TypeOK, AtInitSize
<1>3. ASSUME NEW t \in Clients,
             GetConnection(t) \/ CheckQueue(t) \/ WaitExpires(t) \/ AfterTimeout(t)
               \/ Release(t)
      PROVE  AtInitSize' /\ live' = live
  BY <1>3 DEF GetConnection, CheckQueue, TakeFront, WaitExpires, AfterTimeout,
              Release, AtInitSize
<1>4. CASE Produce
  BY <1>1, <1>4 DEF Produce, AtInitSize
<1>5. CASE Scan
  <2>1. PICK n \in 0..Len(connectqueue) :
           /\ n > 0 => Surplus(n - 1)
           /\ DeleteFirst(n)
           /\ undefined' = undefined \/ Surplus(n)
    BY <1>5 DEF Scan
  <2>2. n \in Nat
    BY <1>2, LenProperties
  <2>3. n = 0
    <3>1. ~(n > 0)
      BY <1>2, <2>1, <2>2 DEF Surplus
    <3>2. QED
      BY <2>2, <3>1
  <2>4. undefined' = undefined
    BY <1>2, <2>1, <2>3 DEF Surplus
  <2>5. connectionCnt' = connectionCnt
    BY <1>2, <2>1, <2>3 DEF DeleteFirst
  <2>6. live' = live
    BY <2>1, <2>3 DEF DeleteFirst
  <2>7. QED
    BY <2>4, <2>5, <2>6 DEF AtInitSize
<1>6. CASE Tick \/ UNCHANGED vars
  BY <1>6 DEF Tick, vars, AtInitSize
<1>7. QED
  BY <1>3, <1>4, <1>5, <1>6 DEF Next

(* A process with fewer threads that use the pool than _initSize keeps the
   connections it started with for ever, the broken ones included: nothing
   replaces them (lines 87-93, 124-130). *)
THEOREM NeverReplaced == Fewer => (Spec => []AtInitSize /\ SameConnections)
<1>1. Init => AtInitSize
  BY DEF Init, AtInitSize
<1>2. SUFFICES ASSUME Fewer PROVE Spec => []AtInitSize /\ SameConnections
  OBVIOUS
<1>3. IInv /\ AtInitSize /\ [Next]_vars => AtInitSize'
  BY <1>2, AtInitSizeStep
<1>4. IInv /\ AtInitSize /\ [Next]_vars => [live' = live]_vars
  BY <1>2, AtInitSizeStep
<1>5. QED
  BY <1>1, <1>3, <1>4, Inductive, PTL DEF Spec, SameConnections

-----------------------------------------------------------------------------
(***************************************************************************)
(* The methods of MysqlModel                                               *)
(***************************************************************************)

(* What the tables of stages say. *)
LEMMA StageFacts ==
  /\ Methods = {"update", "insertGroup", "getFriends", "getOnline", "UserExist",
                "addFrient"}
  /\ \A m \in Methods : /\ FirstStage[m] \in {"update", "insert", "query"}
                        /\ FirstStage[m] = "insert" <=> m = "insertGroup"
                        /\ m = "insertGroup" => FirstStage[m] = "insert"
  /\ DOMAIN AfterUpdate = {"update", "insert", "first", "second"}
  /\ \A s \in DOMAIN AfterUpdate : /\ AfterUpdate[s] \in {"release", "id", "second"}
                                   /\ AfterUpdate[s] = "id" <=> s = "insert"
                                   /\ s = "insert" => AfterUpdate[s] = "id"
  BY DEF Methods, FirstStage, AfterUpdate

-----------------------------------------------------------------------------
(* The methods as callers of the pool *)

LEMMA ModelStepIsPoolStep == [ModelNext]_modelVars => [Next]_vars
<1> SUFFICES ASSUME [ModelNext]_modelVars PROVE [Next]_vars
  OBVIOUS
<1>1. ASSUME NEW t \in Clients, NEW m \in Methods, Call(t, m) PROVE Next
  BY <1>1 DEF Call, Next
<1>2. ASSUME NEW t \in Clients, Waits(t) PROVE Next
  BY <1>2 DEF Waits, Next
<1>3. ASSUME NEW t \in Clients,
             \/ NullConnection(t) \/ Query(t) \/ Update(t) \/ InsertId(t)
             \/ FetchRow(t) \/ FetchEnd(t) \/ FetchFreed(t)
      PROVE  UNCHANGED vars
  BY <1>3 DEF NullConnection, Query, Update, InsertId, FetchRow, FetchEnd, FetchFreed
<1>4. ASSUME NEW t \in Clients, GiveBack(t) PROVE Next
  BY <1>4 DEF GiveBack, Next
<1>5. CASE Produces \/ Scans \/ Ticks
  BY <1>5 DEF Produces, Scans, Ticks, Next
<1>6. CASE UNCHANGED modelVars
  BY <1>6 DEF modelVars
<1>7. QED
  BY <1>1, <1>2, <1>3, <1>4, <1>5, <1>6 DEF ModelNext, Thread

(* The methods of MysqlModel use the pool as its specification says callers do,
   so what is proved of the pool holds of the process. *)
THEOREM UsesThePool == ModelSpec => UsesPool
<1>1. ModelInit => Init
  BY DEF ModelInit
<1>2. QED
  BY <1>1, ModelStepIsPoolStep, PTL DEF ModelSpec, UsesPool, Spec

-----------------------------------------------------------------------------
(* The inductive invariant *)

(* The stages in which a thread uses its connection without looking. *)
Holding == \A t \in Clients : stage[t] \in {"id", "release"} => pc[t] = "holding"

(* A thread that will read rows is the one whose result is open, unless the
   scanner has closed it. *)
Reading ==
  \A t \in Clients :
     /\ res[t] # NoConn => stage[t] \in {"release", "fetch"}
     /\ stage[t] = "fetch" => method[t] \in Readers /\ res[t] # NoConn
     /\ t \in dangling => res[t] # NoConn
     /\ res[t] # NoConn /\ method[t] \in Readers /\ t \notin dangling
          => res[t] \in live /\ opener[res[t]] = t
     /\ Range(rows[t]) \subseteq {t}

(* The id of a group stays on the connection until it is fetched. *)
Inserting ==
  \A t \in Clients :
     /\ stage[t] = "id" => method[t] = "insertGroup"
     /\ method[t] = "insertGroup" => stage[t] \in {"insert", "id", "release", "none"}
     /\ stage[t] = "insert" => method[t] = "insertGroup"
     /\ stage[t] = "id" /\ inserted[t] => insertId[lease[t]] = t
     /\ method[t] = "insertGroup" /\ inserted[t] /\ stage[t] \in {"release", "none"}
          => id[t] = t

MInv == IInv /\ ModelTypeOK /\ Holding /\ Reading /\ Inserting

(* What a step of the pool that is no Release and no Scan leaves alone. *)
Keeps ==
  /\ live \subseteq live'
  /\ \A s \in Clients : pc[s] = "holding" => pc'[s] = "holding" /\ lease'[s] = lease[s]

LEMMA InitMInv == ModelInit => MInv
<1> SUFFICES ASSUME ModelInit PROVE MInv
  OBVIOUS
<1> USE ModelAssumption, StageFacts DEF ModelInit
<1>1. IInv
  BY InitIInv
<1>2. ModelTypeOK
  <2>1. "update" \in Methods /\ "none" \in Stages /\ 0 \in 0..MaxRows
    BY DEF Stages
  <2>2. rows \in [Clients -> Seq(Clients)]
    OBVIOUS
  <2>3. QED
    BY <2>1, <2>2 DEF ModelTypeOK
<1>3. \A t \in Clients : Range(rows[t]) = {}
  <2>1. \A t \in Clients : rows[t] = <<>> /\ DOMAIN rows[t] = {}
    OBVIOUS
  <2>2. QED
    BY <2>1 DEF Range
<1>4. Holding /\ Reading /\ Inserting
  BY <1>3 DEF Holding, Reading, Inserting
<1>5. QED
  BY <1>1, <1>2, <1>4 DEF MInv

(* A thread that holds a connection holds one of its own, an allocated one. *)
LEMMA HeldFacts ==
  ASSUME IInv, NEW t \in Clients, pc[t] = "holding"
  PROVE  /\ lease[t] \in Conns /\ lease[t] \in live
         /\ \A s \in Clients : pc[s] = "holding" /\ lease[s] = lease[t] => s = t
<1>1. TypeOK /\ PoolConservation
  BY DEF IInv
<1>2. t \in Holders /\ lease[t] # NoConn
  BY <1>1 DEF PoolConservation, Holders
<1>3. \A s \in Clients : pc[s] = "holding" => s \in Holders
  BY <1>1 DEF PoolConservation
<1>4. lease[t] \in Leased
  BY <1>2 DEF Leased
<1>5. QED
  BY <1>1, <1>2, <1>3, <1>4 DEF TypeOK, PoolConservation

(* The steps in which the methods have no part keep what they know. *)
LEMMA KeepsStep ==
  ASSUME MInv, IInv', Keeps, UNCHANGED <<threadVars, mysqlVars>>,
         crashed' \in BOOLEAN
  PROVE  MInv'
<1> USE DEF threadVars, mysqlVars
<1>1. ModelTypeOK'
  BY DEF MInv, ModelTypeOK
<1>2. Holding'
  BY DEF MInv, Holding, Keeps
<1>3. Reading'
  BY DEF MInv, Reading, Keeps
<1>4. Inserting'
  BY DEF MInv, Holding, Inserting, Keeps
<1>5. QED
  BY <1>1, <1>2, <1>3, <1>4 DEF MInv

LEMMA CallStep ==
  ASSUME MInv, IInv', NEW t \in Clients, NEW m \in Methods, Call(t, m)
  PROVE  MInv'
<1> USE DEF Call, threadVars, mysqlVars
<1>1. ModelTypeOK /\ Holding /\ Reading /\ Inserting /\ TypeOK
  BY DEF MInv, IInv
<1>2. ModelTypeOK'
  <2>1. FirstStage[m] \in Stages
    BY StageFacts DEF Stages
  <2>2. <<>> \in Seq(Clients)
    OBVIOUS
  <2>3. QED
    BY <1>1, <2>1, <2>2, ModelAssumption DEF ModelTypeOK
<1>3. live' = live /\ pc' = [pc EXCEPT ![t] = "check"] /\ lease' = lease /\ pc[t] # "holding"
  BY DEF GetConnection
<1>4. Holding'
  BY <1>1, <1>3, StageFacts DEF Holding, ModelTypeOK, TypeOK
<1>5. Reading'
  <2>1. Range(<<>>) = {}
    <3>1. DOMAIN <<>> = {}
      OBVIOUS
    <3>2. QED
      BY <3>1 DEF Range
  <2>2. res[t] = NoConn /\ t \notin dangling
    BY <1>1 DEF Reading
  <2>3. Range(rows'[t]) = {}
    BY <1>1, <2>1 DEF ModelTypeOK
  <2>4. stage'[t] # "fetch" /\ res' = res /\ dangling' = dangling
    BY <1>1, StageFacts DEF ModelTypeOK
  <2>5. \A s \in Clients \ {t} : stage'[s] = stage[s] /\ method'[s] = method[s]
                                 /\ rows'[s] = rows[s]
    BY <1>1 DEF ModelTypeOK
  <2>6. QED
    BY <1>1, <1>3, <2>2, <2>3, <2>4, <2>5 DEF Reading
<1>6. Inserting'
  <2>1. /\ method'[t] = m /\ stage'[t] = FirstStage[m] /\ ~inserted'[t]
    BY <1>1 DEF ModelTypeOK
  <2>2. \A s \in Clients \ {t} :
          /\ stage'[s] = stage[s] /\ method'[s] = method[s]
          /\ inserted'[s] = inserted[s] /\ id'[s] = id[s]
    BY <1>1 DEF ModelTypeOK
  <2>3. QED
    BY <1>1, <1>3, <2>1, <2>2, StageFacts DEF Inserting
<1>7. QED
  BY <1>2, <1>4, <1>5, <1>6 DEF MInv

LEMMA QueryStep ==
  ASSUME MInv, NEW t \in Clients, Query(t)
  PROVE  MInv'
<1> USE ModelAssumption DEF Query, vars
<1>1. ModelTypeOK /\ Holding /\ Reading /\ Inserting /\ IInv
  BY DEF MInv
<1>2. lease[t] \in Conns /\ lease[t] \in live /\ lease[t] # NoConn
  BY <1>1, HeldFacts, PoolAssumption
<1>3. IInv'
  BY <1>1, NextIInv DEF vars
<1>4. stage' \in [Clients -> Stages]
  BY <1>1 DEF ModelTypeOK, Stages
<1>5. ModelTypeOK'
  <2>1. res' \in [Clients -> Conns \cup {NoConn}]
    BY <1>1, <1>2 DEF ModelTypeOK
  <2>2. opener' \in [Conns -> Clients \cup {NoClient}]
    BY <1>1, <1>2 DEF ModelTypeOK
  <2>3. left' \in [Conns -> 0..MaxRows]
    BY <1>1, <1>2 DEF ModelTypeOK
  <2>4. QED
    BY <1>1, <1>4, <2>1, <2>2, <2>3 DEF ModelTypeOK
<1>6. Holding'
  BY <1>1 DEF Holding, ModelTypeOK
<1>7. Reading'
  <2>1. res[t] = NoConn /\ t \notin dangling
    BY <1>1 DEF Reading
  <2>2. stage'[t] \in {"first", "release"}
    BY <1>1 DEF ModelTypeOK
  <2>3. CASE /\ Ready(lease[t])
             /\ res' = [res EXCEPT ![t] = lease[t]]
             /\ opener' = [opener EXCEPT ![lease[t]] = t]
             /\ stage' = [stage EXCEPT ![t] = "release"]
    <3>1. ASSUME NEW s \in Clients \ {t}, res[s] # NoConn, method[s] \in Readers,
                 s \notin dangling
          PROVE  res[s] # lease[t]
      BY <1>1, <2>3, <3>1 DEF Reading, Ready
    <3>2. res'[t] = lease[t] /\ opener'[lease[t]] = t /\ stage'[t] = "release"
      BY <1>1, <1>2, <2>3 DEF ModelTypeOK
    <3>3. \A s \in Clients \ {t} : res'[s] = res[s] /\ stage'[s] = stage[s]
      BY <1>1, <2>3 DEF ModelTypeOK
    <3>4. \A s \in Clients \ {t} :
             res[s] # NoConn /\ method[s] \in Readers /\ s \notin dangling
               => opener'[res[s]] = opener[res[s]]
      BY <1>1, <2>3, <3>1 DEF ModelTypeOK
    <3>5. QED
      BY <1>1, <1>2, <2>1, <3>2, <3>3, <3>4 DEF Reading
  <2>4. CASE UNCHANGED <<res, opener>>
    BY <1>1, <2>1, <2>2, <2>4 DEF Reading, ModelTypeOK
  <2>5. QED
    BY <2>3, <2>4
<1>8. Inserting'
  <2>1. method[t] # "insertGroup"
    BY <1>1 DEF Inserting
  <2>2. QED
    BY <1>1, <2>1 DEF Inserting, ModelTypeOK
<1>9. QED
  BY <1>3, <1>5, <1>6, <1>7, <1>8 DEF MInv

LEMMA UpdateStep ==
  ASSUME MInv, NEW t \in Clients, Update(t)
  PROVE  MInv'
<1> USE ModelAssumption DEF Update, vars
<1>1. ModelTypeOK /\ Holding /\ Reading /\ Inserting /\ IInv
  BY DEF MInv
<1>2. /\ lease[t] \in Conns
      /\ \A s \in Clients : pc[s] = "holding" /\ lease[s] = lease[t] => s = t
  BY <1>1, HeldFacts
<1>3. IInv'
  BY <1>1, NextIInv DEF vars
<1>4. stage'[t] = AfterUpdate[stage[t]] /\ stage'[t] \in {"release", "id", "second"}
  BY <1>1, StageFacts DEF ModelTypeOK
<1>5. ModelTypeOK'
  <2>1. stage' \in [Clients -> Stages]
    BY <1>1, <1>4 DEF ModelTypeOK, Stages
  <2>2. inserted' \in [Clients -> BOOLEAN]
    BY <1>1 DEF ModelTypeOK
  <2>3. insertId' \in [Conns -> Clients \cup {NoClient}]
    BY <1>1, <1>2 DEF ModelTypeOK
  <2>4. QED
    BY <1>1, <2>1, <2>2, <2>3 DEF ModelTypeOK
<1>6. Holding'
  BY <1>1 DEF Holding, ModelTypeOK
<1>7. Reading'
  <2>1. stage[t] \notin {"release", "fetch"}
    BY StageFacts
  <2>2. stage'[t] # "fetch"
    BY <1>4
  <2>3. QED
    BY <1>1, <2>1, <2>2 DEF Reading, ModelTypeOK
<1>8. Inserting'
  <2>1. \A s \in Clients \ {t} : stage'[s] = stage[s] /\ inserted'[s] = inserted[s]
    BY <1>1 DEF ModelTypeOK
  <2>2. \A s \in Clients \ {t} :
          stage[s] = "id" => insertId'[lease[s]] = insertId[lease[s]]
    <3>1. ASSUME NEW s \in Clients \ {t}, stage[s] = "id" PROVE lease[s] # lease[t]
      BY <1>1, <1>2, <3>1 DEF Holding
    <3>2. \A c \in Conns \ {lease[t]} : insertId'[c] = insertId[c]
      BY <1>1, <1>2 DEF ModelTypeOK
    <3>3. \A s \in Clients : stage[s] = "id" => lease[s] \in Conns
      BY <1>1, HeldFacts DEF Holding
    <3>4. QED
      BY <3>1, <3>2, <3>3
  <2>3. CASE stage[t] = "insert"
    <3>1. method[t] = "insertGroup" /\ stage'[t] = "id"
      BY <1>1, <1>4, <2>3, StageFacts DEF Inserting
    <3>2. inserted'[t] => insertId'[lease[t]] = t
      BY <1>1, <1>2, <2>3 DEF ModelTypeOK
    <3>3. QED
      BY <1>1, <2>1, <2>2, <3>1, <3>2 DEF Inserting
  <2>4. CASE stage[t] # "insert"
    <3>1. method[t] # "insertGroup"
      BY <1>1, <2>4, StageFacts DEF Inserting
    <3>2. stage'[t] \notin {"insert", "id"}
      BY <1>4, <2>4, StageFacts
    <3>3. QED
      BY <1>1, <2>1, <2>2, <3>1, <3>2 DEF Inserting
  <2>5. QED
    BY <2>3, <2>4
<1>9. QED
  BY <1>3, <1>5, <1>6, <1>7, <1>8 DEF MInv

LEMMA InsertIdStep ==
  ASSUME MInv, NEW t \in Clients, InsertId(t)
  PROVE  MInv'
<1> USE DEF InsertId, mysqlVars
<1>1. ModelTypeOK /\ Holding /\ Reading /\ Inserting /\ IInv
  BY DEF MInv
<1>2. pc[t] = "holding" /\ lease[t] \in Conns
  BY <1>1, HeldFacts DEF Holding
<1>3. IInv'
  BY <1>1, NextIInv DEF vars
<1>4. ModelTypeOK'
  <2>1. id' \in [Clients -> Clients \cup {NoClient}]
    BY <1>1, <1>2 DEF ModelTypeOK
  <2>2. stage' \in [Clients -> Stages]
    BY <1>1 DEF ModelTypeOK, Stages
  <2>3. QED
    BY <1>1, <2>1, <2>2 DEF ModelTypeOK
<1>5. Holding'
  BY <1>1, <1>2 DEF Holding, ModelTypeOK, vars
<1>6. Reading'
  BY <1>1 DEF Reading, ModelTypeOK, vars
<1>7. Inserting'
  BY <1>1 DEF Inserting, ModelTypeOK, vars
<1>8. QED
  BY <1>3, <1>4, <1>5, <1>6, <1>7 DEF MInv

(* A method that returns leaves nothing behind. *)
LEMMA ReturnsFacts ==
  ASSUME ModelTypeOK, NEW t \in Clients, Returns(t)
  PROVE  /\ stage' \in [Clients -> Stages] /\ dangling' \in SUBSET Clients
         /\ res' \in [Clients -> Conns \cup {NoConn}]
         /\ stage'[t] = "none" /\ res'[t] = NoConn /\ t \notin dangling'
         /\ \A s \in Clients \ {t} : /\ stage'[s] = stage[s] /\ res'[s] = res[s]
                                     /\ s \in dangling' <=> s \in dangling
  BY DEF Returns, ModelTypeOK, Stages

LEMMA GiveBackStep ==
  ASSUME MInv, NEW t \in Clients, GiveBack(t)
  PROVE  MInv'
<1> USE DEF GiveBack, mysqlVars
<1>1. ModelTypeOK /\ Holding /\ Reading /\ Inserting /\ IInv
  BY DEF MInv
<1>2. IInv'
  BY <1>1, NextIInv DEF Next
<1>3. /\ pc' = [pc EXCEPT ![t] = "idle"] /\ lease' = [lease EXCEPT ![t] = NoConn]
      /\ live' = live /\ TypeOK
  BY <1>1 DEF Release, IInv
<1>4. \A s \in Clients \ {t} : pc'[s] = pc[s] /\ lease'[s] = lease[s]
  BY <1>3 DEF TypeOK
<1>5. /\ stage' \in [Clients -> Stages] /\ dangling' \in SUBSET Clients
      /\ res' \in [Clients -> Conns \cup {NoConn}]
      /\ \A s \in Clients \ {t} : /\ stage'[s] = stage[s] /\ res'[s] = res[s]
                                  /\ s \in dangling' <=> s \in dangling
      /\ \/ /\ stage'[t] = "none" /\ res'[t] = NoConn /\ t \notin dangling'
         \/ /\ stage'[t] = "fetch" /\ res' = res /\ dangling' = dangling
            /\ method[t] \in Readers /\ res[t] # NoConn
  BY <1>1, ReturnsFacts DEF ModelTypeOK, Stages
<1>6. ModelTypeOK'
  BY <1>1, <1>5 DEF ModelTypeOK
<1>7. Holding'
  BY <1>1, <1>4, <1>5 DEF Holding
<1>8. Reading'
  BY <1>1, <1>3, <1>5 DEF Reading
<1>9. Inserting'
  <2>1. method[t] = "insertGroup" => stage'[t] = "none"
    BY <1>5 DEF Readers
  <2>2. stage'[t] \notin {"insert", "id"}
    BY <1>5
  <2>3. QED
    BY <1>1, <1>4, <1>5, <2>1, <2>2 DEF Inserting
<1>10. QED
  BY <1>2, <1>6, <1>7, <1>8, <1>9 DEF MInv

(* A thread that reads is the one the open result of its connection is for, and
   no two read from one connection. *)
LEMMA ReaderFacts ==
  ASSUME MInv, NEW t \in Clients, stage[t] = "fetch", t \notin dangling
  PROVE  /\ method[t] \in Readers /\ method[t] # "insertGroup"
         /\ res[t] \in Conns /\ opener[res[t]] = t
         /\ \A s \in Clients \ {t} :
               res[s] # NoConn /\ method[s] \in Readers /\ s \notin dangling
                 => res[s] # res[t]
  BY DEF MInv, ModelTypeOK, Reading, Readers

LEMMA FetchRowStep ==
  ASSUME MInv, NEW t \in Clients, FetchRow(t)
  PROVE  MInv'
<1> USE DEF FetchRow, vars
<1>1. ModelTypeOK /\ Holding /\ Reading /\ Inserting /\ IInv
  BY DEF MInv
<1>2. method[t] # "insertGroup" /\ res[t] \in Conns /\ opener[res[t]] = t
  BY ReaderFacts
<1>3. IInv'
  BY <1>1, NextIInv DEF vars
<1>4. /\ stage' \in [Clients -> Stages] /\ dangling' \in SUBSET Clients
      /\ res' \in [Clients -> Conns \cup {NoConn}]
      /\ \A s \in Clients \ {t} : /\ stage'[s] = stage[s] /\ res'[s] = res[s]
                                  /\ s \in dangling' <=> s \in dangling
      /\ \/ stage'[t] = "none" /\ res'[t] = NoConn /\ t \notin dangling'
         \/ UNCHANGED <<stage, res, dangling>>
  BY <1>1, ReturnsFacts DEF ModelTypeOK
<1>5. rows[t] \in Seq(Clients) /\ rows' = [rows EXCEPT ![t] = Append(rows[t], t)]
  BY <1>1, <1>2 DEF ModelTypeOK
<1>6. ModelTypeOK'
  <2>1. Append(rows[t], t) \in Seq(Clients)
    BY <1>5, AppendProperties
  <2>2. rows' \in [Clients -> Seq(Clients)]
    BY <1>1, <1>5, <2>1 DEF ModelTypeOK
  <2>3. left[res[t]] \in 0..MaxRows /\ left[res[t]] - 1 \in 0..MaxRows
    BY <1>1, <1>2, ModelAssumption DEF ModelTypeOK
  <2>4. left' \in [Conns -> 0..MaxRows]
    BY <1>1, <2>3 DEF ModelTypeOK
  <2>5. QED
    BY <1>1, <1>4, <2>2, <2>4 DEF ModelTypeOK
<1>7. Holding'
  BY <1>1, <1>4 DEF Holding
<1>8. Reading'
  <2>1. Range(rows'[t]) = Range(rows[t]) \cup {t}
    <3>1. rows'[t] = Append(rows[t], t)
      BY <1>1, <1>5 DEF ModelTypeOK
    <3>2. QED
      BY <1>5, <3>1, PushFacts
  <2>2. \A s \in Clients \ {t} : rows'[s] = rows[s]
    BY <1>1, <1>5 DEF ModelTypeOK
  <2>3. \A s \in Clients : Range(rows'[s]) \subseteq {s}
    BY <1>1, <2>1, <2>2 DEF Reading
  <2>4. QED
    BY <1>1, <1>4, <2>3 DEF Reading
<1>9. Inserting'
  BY <1>1, <1>2, <1>4 DEF Inserting
<1>10. QED
  BY <1>3, <1>6, <1>7, <1>8, <1>9 DEF MInv

LEMMA FetchEndStep ==
  ASSUME MInv, NEW t \in Clients, FetchEnd(t)
  PROVE  MInv'
<1> USE DEF FetchEnd, vars
<1>1. ModelTypeOK /\ Holding /\ Reading /\ Inserting /\ IInv
  BY DEF MInv
<1>2. /\ method[t] # "insertGroup" /\ res[t] \in Conns
      /\ \A s \in Clients \ {t} :
            res[s] # NoConn /\ method[s] \in Readers /\ s \notin dangling
              => res[s] # res[t]
  BY ReaderFacts
<1>3. IInv'
  BY <1>1, NextIInv DEF vars
<1>4. /\ stage' \in [Clients -> Stages] /\ dangling' \in SUBSET Clients
      /\ res' \in [Clients -> Conns \cup {NoConn}]
      /\ stage'[t] = "none" /\ res'[t] = NoConn /\ t \notin dangling'
      /\ \A s \in Clients \ {t} : /\ stage'[s] = stage[s] /\ res'[s] = res[s]
                                  /\ s \in dangling' <=> s \in dangling
  BY <1>1, ReturnsFacts
<1>5. ModelTypeOK'
  <2>1. opener' \in [Conns -> Clients \cup {NoClient}]
    BY <1>1 DEF ModelTypeOK
  <2>2. QED
    BY <1>1, <1>4, <2>1 DEF ModelTypeOK
<1>6. Holding'
  BY <1>1, <1>4 DEF Holding
<1>7. Reading'
  <2>1. \A c \in Conns \ {res[t]} : opener'[c] = opener[c]
    BY <1>1 DEF ModelTypeOK
  <2>2. \A s \in Clients \ {t} :
           res[s] # NoConn /\ method[s] \in Readers /\ s \notin dangling
             => opener'[res[s]] = opener[res[s]]
    BY <1>1, <1>2, <2>1 DEF ModelTypeOK
  <2>3. QED
    BY <1>1, <1>4, <2>2 DEF Reading
<1>8. Inserting'
  BY <1>1, <1>2, <1>4 DEF Inserting
<1>9. QED
  BY <1>3, <1>5, <1>6, <1>7, <1>8 DEF MInv

LEMMA FetchFreedStep ==
  ASSUME MInv, NEW t \in Clients, FetchFreed(t)
  PROVE  MInv'
<1> USE DEF FetchFreed, vars, mysqlVars
<1>1. ModelTypeOK /\ Holding /\ Reading /\ Inserting /\ IInv
  BY DEF MInv
<1>2. method[t] # "insertGroup"
  BY <1>1 DEF Reading, Readers
<1>3. IInv'
  BY <1>1, NextIInv DEF vars
<1>4. /\ stage' \in [Clients -> Stages] /\ dangling' \in SUBSET Clients
      /\ res' \in [Clients -> Conns \cup {NoConn}]
      /\ stage'[t] = "none" /\ res'[t] = NoConn /\ t \notin dangling'
      /\ \A s \in Clients \ {t} : /\ stage'[s] = stage[s] /\ res'[s] = res[s]
                                  /\ s \in dangling' <=> s \in dangling
  BY <1>1, ReturnsFacts
<1>5. ModelTypeOK'
  BY <1>1, <1>4 DEF ModelTypeOK
<1>6. Holding'
  BY <1>1, <1>4 DEF Holding
<1>7. Reading'
  BY <1>1, <1>4 DEF Reading
<1>8. Inserting'
  BY <1>1, <1>2, <1>4 DEF Inserting
<1>9. QED
  BY <1>3, <1>5, <1>6, <1>7, <1>8 DEF MInv

(* The scanner deletes no connection that a thread holds. *)
LEMMA ScansStep ==
  ASSUME MInv, Scans
  PROVE  MInv'
<1> USE DEF Scans
<1>1. ModelTypeOK /\ Holding /\ Reading /\ Inserting /\ IInv
  BY DEF MInv
<1>2. IInv'
  BY <1>1, NextIInv DEF Next
<1>3. lease' = lease /\ pc' = pc
  BY DEF Scan
<1>4. live' \subseteq live /\ live' \subseteq Conns
  BY <1>2 DEF Scan, DeleteFirst, IInv, TypeOK
<1>5. \A t \in Clients : pc[t] = "holding" => lease[t] \in live' /\ lease[t] \in Conns
  BY <1>2, <1>3, HeldFacts DEF IInv, TypeOK, PoolConservation, Holders, Leased
<1>6. ModelTypeOK'
  <2>1. opener' \in [Conns -> Clients \cup {NoClient}]
    BY <1>1 DEF ModelTypeOK
  <2>2. insertId' \in [Conns -> Clients \cup {NoClient}]
    BY <1>1 DEF ModelTypeOK
  <2>3. QED
    BY <1>1, <2>1, <2>2 DEF ModelTypeOK
<1>7. Holding'
  BY <1>1, <1>3 DEF Holding
<1>8. Reading'
  <2>1. ASSUME NEW t \in Clients, res[t] # NoConn, method[t] \in Readers,
               t \notin dangling'
        PROVE  res[t] \in live' /\ opener'[res[t]] = t
    <3>1. res[t] \in live /\ opener[res[t]] = t /\ res[t] \in Conns
      BY <1>1, <2>1 DEF Reading, ModelTypeOK
    <3>2. res[t] \in live'
      BY <2>1, <3>1
    <3>3. QED
      BY <3>1, <3>2
  <2>2. NoConn \notin live
    BY <1>1, PoolAssumption DEF IInv, TypeOK
  <2>3. \A t \in Clients : t \in dangling' => res[t] # NoConn
    BY <1>1, <2>2 DEF Reading
  <2>4. QED
    BY <1>1, <2>1, <2>3 DEF Reading
<1>9. Inserting'
  <2>1. \A t \in Clients : stage[t] = "id" => insertId'[lease[t]] = insertId[lease[t]]
    BY <1>1, <1>5 DEF Holding
  <2>2. QED
    BY <1>1, <1>3, <2>1 DEF Inserting
<1>10. QED
  BY <1>2, <1>6, <1>7, <1>8, <1>9 DEF MInv

(* Taking the front wakes others and changes the lease of the taker alone. *)
LEMMA WaitsKeep ==
  ASSUME IInv, NEW t \in Clients, Waits(t)
  PROVE  Keeps
<1>1. TypeOK /\ live' = live /\ pc[t] # "holding"
  BY DEF IInv, Waits, CheckQueue, WaitExpires, AfterTimeout, TakeFront
<1>2. CASE TakeFront(t)
  BY <1>1, <1>2 DEF TakeFront, Woken, TypeOK, Keeps
<1>3. CASE ~TakeFront(t)
  <2>1. lease' = lease /\ \E w \in CallerStates : pc' = [pc EXCEPT ![t] = w]
    BY <1>3 DEF Waits, CheckQueue, WaitExpires, AfterTimeout, CallerStates
  <2>2. QED
    BY <1>1, <2>1 DEF TypeOK, Keeps
<1>4. QED
  BY <1>2, <1>3

LEMMA ProducesKeep ==
  ASSUME IInv, Produces \/ Ticks
  PROVE  Keeps
<1>1. TypeOK /\ lease' = lease /\ live \subseteq live'
  BY DEF IInv, Produces, Ticks, Produce, Tick
<1>2. pc' = Woken \/ pc' = pc
  BY DEF Produces, Ticks, Produce, Tick
<1>3. QED
  BY <1>1, <1>2 DEF Woken, TypeOK, Keeps

LEMMA StepMInv == MInv /\ [ModelNext]_modelVars => MInv'
<1> SUFFICES ASSUME MInv, [ModelNext]_modelVars PROVE MInv'
  OBVIOUS
<1>1. IInv /\ IInv' /\ crashed \in BOOLEAN
  BY ModelStepIsPoolStep, NextIInv DEF MInv, ModelTypeOK
<1>2. ASSUME NEW t \in Clients, NEW m \in Methods, Call(t, m) PROVE MInv'
  BY <1>1, <1>2, CallStep
<1>3. ASSUME NEW t \in Clients, Waits(t) PROVE MInv'
  BY <1>1, <1>3, WaitsKeep, KeepsStep DEF Waits
<1>4. ASSUME NEW t \in Clients, NullConnection(t) PROVE MInv'
  BY <1>1, <1>4, KeepsStep DEF NullConnection, Keeps, vars
<1>5. ASSUME NEW t \in Clients, Query(t) PROVE MInv'
  BY <1>5, QueryStep
<1>6. ASSUME NEW t \in Clients, Update(t) PROVE MInv'
  BY <1>6, UpdateStep
<1>7. ASSUME NEW t \in Clients, InsertId(t) PROVE MInv'
  BY <1>7, InsertIdStep
<1>8. ASSUME NEW t \in Clients, GiveBack(t) PROVE MInv'
  BY <1>8, GiveBackStep
<1>9. ASSUME NEW t \in Clients, FetchRow(t) PROVE MInv'
  BY <1>9, FetchRowStep
<1>10. ASSUME NEW t \in Clients, FetchEnd(t) PROVE MInv'
  BY <1>10, FetchEndStep
<1>11. ASSUME NEW t \in Clients, FetchFreed(t) PROVE MInv'
  BY <1>11, FetchFreedStep
<1>12. CASE Produces \/ Ticks
  BY <1>1, <1>12, ProducesKeep, KeepsStep DEF Produces, Ticks
<1>13. CASE Scans
  BY <1>13, ScansStep
<1>14. CASE UNCHANGED modelVars
  BY <1>1, <1>14, KeepsStep DEF modelVars, vars, Keeps
<1>15. QED
  BY <1>2, <1>3, <1>4, <1>5, <1>6, <1>7, <1>8, <1>9, <1>10, <1>11, <1>12, <1>13,
     <1>14 DEF ModelNext, Thread

(* The inductive invariant holds in every reachable state. *)
THEOREM ModelInductive == ModelSpec => []MInv
  BY InitMInv, StepMInv, PTL DEF ModelSpec

(* Type correctness of the methods and of what they leave on connections
   (mysqlmodel.cpp). *)
THEOREM ModelTypeCorrect == ModelSpec => []ModelTypeOK
  BY ModelInductive, PTL DEF MInv

(* A thread reads the rows of its own statement, whatever becomes of the
   connection it has given back. *)
THEOREM RowsAreOwn == ModelSpec => []OwnRows
<1>1. MInv => OwnRows
  BY DEF MInv, Reading, OwnRows
<1>2. QED
  BY <1>1, ModelInductive, PTL

(* insertGroup returns the id of the group it has inserted. *)
THEOREM IdsAreOwn == ModelSpec => []OwnIds
<1>1. MInv => OwnIds
  BY DEF MInv, Inserting, OwnIds
<1>2. QED
  BY <1>1, ModelInductive, PTL

-----------------------------------------------------------------------------
(* Connections with a result that nobody will read *)

LEMMA AbandonedStep ==
  ASSUME MInv, [ModelNext]_modelVars, NEW c \in live \cap live', Abandoned(c)
  PROVE  Abandoned(c)'
<1>1. ModelTypeOK /\ Reading /\ IInv /\ live \subseteq Conns
  BY DEF MInv, IInv, TypeOK
<1>2. /\ c \in Conns /\ c # NoConn /\ c \in live' /\ opener[c] # NoClient
      /\ \A t \in Clients : res[t] = c => method[t] \notin Readers
  BY <1>1, PoolAssumption DEF Abandoned
<1>3. ASSUME opener'[c] = opener[c],
             \A t \in Clients : res'[t] = c => res[t] = c /\ method'[t] = method[t]
      PROVE  Abandoned(c)'
  BY <1>2, <1>3 DEF Abandoned
<1>4. ASSUME NEW t \in Clients, NEW m \in Methods, Call(t, m) PROVE Abandoned(c)'
  <2>1. res[t] # c /\ res' = res /\ opener' = opener
    BY <1>1, <1>2, <1>4 DEF Call, Reading, mysqlVars
  <2>2. \A s \in Clients \ {t} : method'[s] = method[s]
    BY <1>1, <1>4 DEF Call, ModelTypeOK
  <2>3. QED
    BY <1>3, <2>1, <2>2
<1>5. ASSUME NEW t \in Clients, Query(t) PROVE Abandoned(c)'
  <2>1. method' = method
    BY <1>5 DEF Query
  <2>2. CASE /\ Ready(lease[t])
             /\ res' = [res EXCEPT ![t] = lease[t]]
             /\ opener' = [opener EXCEPT ![lease[t]] = t]
    <3>1. lease[t] # c
      BY <1>2, <2>2 DEF Ready
    <3>2. opener'[c] = opener[c] /\ \A s \in Clients : res'[s] = c => res[s] = c
      BY <1>1, <1>2, <2>2, <3>1 DEF ModelTypeOK
    <3>3. QED
      BY <1>3, <2>1, <3>2
  <2>3. CASE UNCHANGED <<res, opener>>
    BY <1>3, <2>1, <2>3
  <2>4. QED
    BY <1>5, <2>2, <2>3 DEF Query
<1>6. ASSUME NEW t \in Clients,
             GiveBack(t) \/ FetchRow(t) \/ FetchFreed(t)
      PROVE  Abandoned(c)'
  <2>1. method' = method /\ opener' = opener
    BY <1>6 DEF GiveBack, FetchRow, FetchFreed, mysqlVars
  <2>2. \A s \in Clients : res'[s] = c => res[s] = c
    BY <1>1, <1>2, <1>6 DEF GiveBack, FetchRow, FetchFreed, Returns, ModelTypeOK
  <2>3. QED
    BY <1>3, <2>1, <2>2
<1>7. ASSUME NEW t \in Clients, FetchEnd(t) PROVE Abandoned(c)'
  <2>1. res[t] # c /\ method' = method
    BY <1>2, <1>7, ReaderFacts DEF FetchEnd
  <2>2. opener'[c] = opener[c] /\ \A s \in Clients : res'[s] = c => res[s] = c
    BY <1>1, <1>2, <1>7, <2>1 DEF FetchEnd, Returns, ModelTypeOK
  <2>3. QED
    BY <1>3, <2>1, <2>2
<1>8. CASE Scans
  BY <1>1, <1>2, <1>3, <1>8 DEF Scans, ModelTypeOK
<1>9. ASSUME UNCHANGED <<method, res, opener>> PROVE Abandoned(c)'
  BY <1>3, <1>9
<1>10. ASSUME NEW t \in Clients,
              Waits(t) \/ NullConnection(t) \/ Update(t) \/ InsertId(t)
       PROVE  Abandoned(c)'
  BY <1>9, <1>10 DEF Waits, NullConnection, Update, InsertId, threadVars, mysqlVars
<1>11. CASE Produces \/ Ticks \/ UNCHANGED modelVars
  BY <1>9, <1>11 DEF Produces, Ticks, modelVars, threadVars, mysqlVars
<1>12. QED
  BY <1>4, <1>5, <1>6, <1>7, <1>8, <1>10, <1>11 DEF ModelNext, Thread

(* As long as the scanner spares it, a connection whose result was left unread
   refuses every statement: nothing in mysqlmodel.cpp closes the result. *)
THEOREM StaysAbandoned == ModelSpec => AbandonedForGood
<1>1. MInv /\ [ModelNext]_modelVars =>
        [\A c \in live \cap live' : Abandoned(c) => Abandoned(c)']_modelVars
  BY AbandonedStep
<1>2. QED
  BY <1>1, ModelInductive, PTL DEF ModelSpec, AbandonedForGood

(* The same for ever, in a process with fewer threads than _initSize: there the
   scanner spares every connection, and nothing replaces the ones that are lost
   to UserExist, getOnline and addFrient. *)
NeverRecovers == [][\A c \in live : Abandoned(c) => c \in live' /\ Abandoned(c)']_modelVars

THEOREM LostForGood == Fewer => (ModelSpec => NeverRecovers)
<1>1. SUFFICES ASSUME Fewer PROVE ModelSpec => NeverRecovers
  OBVIOUS
<1>2. ModelSpec => []AtInitSize
  <2>1. ModelSpec => Spec
    BY UsesThePool DEF UsesPool
  <2>2. Spec => []AtInitSize
    BY <1>1, NeverReplaced
  <2>3. QED
    BY <2>1, <2>2
<1>3. ASSUME MInv, AtInitSize, [ModelNext]_modelVars
      PROVE  [\A c \in live : Abandoned(c) => c \in live' /\ Abandoned(c)']_modelVars
  <2>1. live' = live
    BY <1>1, <1>3, ModelStepIsPoolStep, AtInitSizeStep DEF MInv
  <2>2. QED
    BY <1>3, <2>1, AbandonedStep
<1>4. QED
  BY <1>2, <1>3, ModelInductive, PTL DEF ModelSpec, NeverRecovers

=============================================================================
