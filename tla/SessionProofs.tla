------------------------------ MODULE SessionProofs ------------------------------
(***************************************************************************)
(* A chat client's session, for every number of users, messages, groups,   *)
(* commands, faults and connections.                                       *)
(*                                                                         *)
(* First the local history on its own: calls in progress at the same time  *)
(* are known to overlap, a call nobody has overlapped finds in rc what it  *)
(* has left there, and no row is inserted twice.  Then the connection: what *)
(* the client writes, and what it makes of the stream.  Then the calls:    *)
(* what each may leave in the tables and in its response, whatever is cut  *)
(* of it or fails, so that the lists hold rows.  Last, the two threads at  *)
(* the history: a session implements the history's specification.          *)
(***************************************************************************)
EXTENDS Session, CodecProofs

-----------------------------------------------------------------------------
(* The local history *)

(* Two threads in calls at the same time have overlapped. *)
OverlapKnown ==
  \A t, u \in Threads : t # u /\ ~Idle(t) /\ ~Idle(u) => Range(row[t]) \subseteq overlapped

(* Between sqlite3_prepare_v2 and the look at rc ... *)
PreparedOwn ==
  \A t \in Threads : at[t] = "prepared" /\ stmt[t] =>
     rc = OK \/ Range(row[t]) \subseteq overlapped

(* ... and between sqlite3_step and the second look. *)
SteppedOwn ==
  \A t \in Threads : at[t] = "stepped" /\ stmt[t] =>
     rc = DONE \/ Range(row[t]) \subseteq overlapped \cup unwritten

HistIInv == HistTypeOK /\ OverlapKnown /\ PreparedOwn /\ SteppedOwn /\ FaultsNeedOverlap

-----------------------------------------------------------------------------
(* The initial states satisfy the inductive invariant. *)
LEMMA HistInitIInv == HistInit => HistIInv
<1> SUFFICES ASSUME HistInit PROVE HistIInv
  OBVIOUS
<1>1. HistTypeOK
  BY DEF HistInit, HistTypeOK
<1>2. OverlapKnown /\ PreparedOwn /\ SteppedOwn /\ FaultsNeedOverlap
  BY DEF HistInit, OverlapKnown, PreparedOwn, SteppedOwn, FaultsNeedOverlap, Idle
<1>3. QED
  BY <1>1, <1>2 DEF HistIInv

(* A call that begins marks itself and the calls in progress. *)
LEMMA BeginsMarks ==
  ASSUME HistTypeOK, OverlapKnown, NEW t \in Threads, NEW stage \in {"prepared", "index"},
         NEW n \in Tables, NEW R \in Seq(Rows), Begins(t, stage, n, R)
  PROVE  /\ OverlapKnown'
         /\ \A u \in Threads \ {t} : ~Idle(u) => Range(row[u]) \subseteq overlapped'
         /\ overlapped \subseteq overlapped'
         /\ \A u \in Threads \ {t} : /\ at'[u] = at[u] /\ row'[u] = row[u]
                                     /\ stmt'[u] = stmt[u]
         /\ at'[t] = stage /\ stmt'[t] = (n \in tables)
<1>1. /\ \A u \in Threads \ {t} : at'[u] = at[u] /\ row'[u] = row[u] /\ stmt'[u] = stmt[u]
      /\ at'[t] = stage /\ row'[t] = R /\ stmt'[t] = (n \in tables)
  BY DEF Begins, HistTypeOK
<1>2. overlapped' = overlapped \cup Overlap(t, R)
  BY DEF Begins
<1> DEFINE others == {u \in Threads \ {t} : ~Idle(u)}
<1>3. \A u \in Threads \ {t} : ~Idle(u) => /\ Range(row[u]) \subseteq Overlap(t, R)
                                           /\ Range(R) \subseteq Overlap(t, R)
  <2> SUFFICES ASSUME NEW u \in Threads \ {t}, ~Idle(u)
               PROVE  Range(row[u]) \subseteq Overlap(t, R) /\ Range(R) \subseteq Overlap(t, R)
    OBVIOUS
  <2>1. u \in others
    OBVIOUS
  <2>2. Overlap(t, R) = Range(R) \cup UNION {Range(row[v]) : v \in others}
    BY <2>1 DEF Overlap
  <2> HIDE DEF others
  <2>3. QED
    BY <2>1, <2>2
<1>4. OverlapKnown'
  <2> SUFFICES ASSUME NEW u \in Threads, NEW v \in Threads, u # v, ~Idle(u)', ~Idle(v)'
               PROVE  Range(row'[u]) \subseteq overlapped'
    BY DEF OverlapKnown
  <2>1. CASE u = t
    BY <1>1, <1>2, <1>3, <2>1 DEF Idle
  <2>2. CASE v = t
    BY <1>1, <1>2, <1>3, <2>2 DEF Idle
  <2>3. CASE u # t /\ v # t
    BY <1>1, <1>2, <2>3 DEF Idle, OverlapKnown
  <2>4. QED
    BY <2>1, <2>2, <2>3
<1>5. QED
  BY <1>1, <1>2, <1>3, <1>4

(* The type of what Begins assigns, and of what Returns assigns. *)
LEMMA CallTypes ==
  ASSUME HistTypeOK, NEW t \in Threads,
         \/ \E stage \in {"prepared", "index"}, n \in Tables, R \in Seq(Rows) :
              Begins(t, stage, n, R)
         \/ Returns(t)
  PROVE  /\ at' \in [Threads -> {"idle", "prepared", "stepped", "index"}]
         /\ table' \in [Threads -> Tables \cup {NoTable}]
         /\ row' \in [Threads -> Seq(Rows)]
         /\ stmt' \in [Threads -> BOOLEAN]
         /\ indexes' \in [Threads -> 0..3]
         /\ overlapped' \in SUBSET Rows
<1>1. ASSUME NEW stage \in {"prepared", "index"}, NEW n \in Tables, NEW R \in Seq(Rows),
             Begins(t, stage, n, R)
      PROVE  /\ at' \in [Threads -> {"idle", "prepared", "stepped", "index"}]
             /\ table' \in [Threads -> Tables \cup {NoTable}]
             /\ row' \in [Threads -> Seq(Rows)]
             /\ stmt' \in [Threads -> BOOLEAN]
             /\ indexes' \in [Threads -> 0..3]
             /\ overlapped' \in SUBSET Rows
  <2>1. /\ at' \in [Threads -> {"idle", "prepared", "stepped", "index"}]
        /\ table' \in [Threads -> Tables \cup {NoTable}]
        /\ row' \in [Threads -> Seq(Rows)]
        /\ indexes' \in [Threads -> 0..3]
    BY <1>1 DEF Begins, HistTypeOK
  <2>2. (n \in tables) \in BOOLEAN
    OBVIOUS
  <2>3. stmt' \in [Threads -> BOOLEAN]
    BY <1>1, <2>2 DEF Begins, HistTypeOK
  <2>4. \A S \in Seq(Rows) : Range(S) \subseteq Rows
    BY DEF Range
  <2>5. Overlap(t, R) \subseteq Rows
    BY <2>4 DEF Overlap, HistTypeOK
  <2>6. QED
    BY <1>1, <2>1, <2>3, <2>5 DEF Begins, HistTypeOK
<1>2. CASE Returns(t)
  BY <1>2 DEF Returns, HistTypeOK
<1>3. QED
  BY <1>1, <1>2

(* A call that returns leaves the others as they are. *)
LEMMA ReturnsKeeps ==
  ASSUME HistTypeOK, OverlapKnown, NEW t \in Threads, Returns(t)
  PROVE  /\ OverlapKnown'
         /\ \A u \in Threads \ {t} : /\ at'[u] = at[u] /\ row'[u] = row[u]
                                     /\ stmt'[u] = stmt[u]
         /\ at'[t] = "idle" /\ overlapped' = overlapped
<1>1. /\ \A u \in Threads \ {t} : at'[u] = at[u] /\ row'[u] = row[u] /\ stmt'[u] = stmt[u]
      /\ at'[t] = "idle" /\ overlapped' = overlapped
  BY DEF Returns, HistTypeOK
<1>2. OverlapKnown'
  BY <1>1 DEF OverlapKnown, Idle
<1>3. QED
  BY <1>1, <1>2

-----------------------------------------------------------------------------
(* insertTable's beginning keeps the invariant. *)
LEMMA PrepareKeeps ==
  ASSUME HistIInv, NEW t \in Threads, NEW n \in Tables, NEW r \in Rows, Prepare(t, n, r)
  PROVE  HistIInv'
<1>0. HistTypeOK /\ OverlapKnown
  BY DEF HistIInv
<1>1. <<r>> \in Seq(Rows) /\ Begins(t, "prepared", n, <<r>>)
  BY DEF Prepare
<1>2. /\ OverlapKnown'
      /\ \A u \in Threads \ {t} : ~Idle(u) => Range(row[u]) \subseteq overlapped'
      /\ overlapped \subseteq overlapped'
      /\ \A u \in Threads \ {t} : at'[u] = at[u] /\ row'[u] = row[u] /\ stmt'[u] = stmt[u]
      /\ at'[t] = "prepared" /\ stmt'[t] = (n \in tables)
  BY <1>0, <1>1, BeginsMarks
<1>3. HistTypeOK'
  BY <1>0, <1>1, CallTypes DEF HistTypeOK, Prepare, OK, ERROR, DONE
<1>4. PreparedOwn' /\ SteppedOwn'
  BY <1>2 DEF Prepare, PreparedOwn, SteppedOwn, Idle
<1>5. FaultsNeedOverlap'
  BY <1>2 DEF HistIInv, Prepare, FaultsNeedOverlap
<1>6. QED
  BY <1>2, <1>3, <1>4, <1>5 DEF HistIInv

(* createTable's beginning keeps it. *)
LEMMA CreateTableKeeps ==
  ASSUME HistIInv, NEW t \in Threads, NEW n \in Tables, CreateTable(t, n)
  PROVE  HistIInv'
<1>0. HistTypeOK /\ OverlapKnown
  BY DEF HistIInv
<1>1. <<>> \in Seq(Rows) /\ Begins(t, "index", n, <<>>)
  BY DEF CreateTable
<1>2. /\ OverlapKnown'
      /\ \A u \in Threads \ {t} : ~Idle(u) => Range(row[u]) \subseteq overlapped'
      /\ overlapped \subseteq overlapped'
      /\ \A u \in Threads \ {t} : at'[u] = at[u] /\ row'[u] = row[u] /\ stmt'[u] = stmt[u]
      /\ at'[t] = "index" /\ stmt'[t] = (n \in tables)
  BY <1>0, <1>1, BeginsMarks
<1>3. HistTypeOK'
  BY <1>0, <1>1, CallTypes DEF HistTypeOK, CreateTable, OK, ERROR, DONE
<1>4. PreparedOwn' /\ SteppedOwn'
  BY <1>2 DEF CreateTable, PreparedOwn, SteppedOwn, Idle
<1>5. FaultsNeedOverlap'
  BY <1>2 DEF HistIInv, CreateTable, FaultsNeedOverlap
<1>6. QED
  BY <1>2, <1>3, <1>4, <1>5 DEF HistIInv

(* A thread that changes rc while another one is in a call has been seen. *)
LEMMA OthersKnown ==
  ASSUME HistIInv, NEW t \in Threads, ~Idle(t), NEW u \in Threads \ {t}, ~Idle(u)
  PROVE  Range(row[u]) \subseteq overlapped
BY DEF HistIInv, OverlapKnown

(* The look at rc in insertTable, and sqlite3_step. *)
LEMMA StepRowKeeps ==
  ASSUME HistIInv, NEW t \in Threads, StepRow(t)
  PROVE  HistIInv'
<1>0. HistTypeOK /\ OverlapKnown /\ FaultsNeedOverlap /\ at[t] = "prepared" /\ ~Idle(t)
  BY DEF HistIInv, StepRow, Idle
<1>1. Range(row[t]) \subseteq Rows
  BY <1>0 DEF HistTypeOK, Range
<1>2. CASE rc # OK /\ Returns(t)
           /\ lost' = lost \cup (IF stmt[t] THEN Range(row[t]) ELSE {})
           /\ UNCHANGED <<rc, rows, unwritten>> /\ UNCHANGED <<tables, ruined>>
  <2>1. /\ OverlapKnown'
        /\ \A u \in Threads \ {t} : at'[u] = at[u] /\ row'[u] = row[u] /\ stmt'[u] = stmt[u]
        /\ at'[t] = "idle" /\ overlapped' = overlapped
    BY <1>0, <1>2, ReturnsKeeps
  <2>2. HistTypeOK'
    BY <1>0, <1>1, <1>2, CallTypes DEF HistTypeOK
  <2>3. PreparedOwn' /\ SteppedOwn'
    BY <1>2, <2>1 DEF HistIInv, PreparedOwn, SteppedOwn
  <2>4. stmt[t] => Range(row[t]) \subseteq overlapped
    BY <1>0, <1>2 DEF HistIInv, PreparedOwn
  <2>5. FaultsNeedOverlap'
    BY <1>0, <1>2, <2>1, <2>4 DEF FaultsNeedOverlap
  <2>6. QED
    BY <2>1, <2>2, <2>3, <2>5 DEF HistIInv
<1>3. CASE /\ at' = [at EXCEPT ![t] = "stepped"]
           /\ UNCHANGED <<table, row, stmt, indexes, overlapped, lost>>
           /\ UNCHANGED <<tables, ruined>>
           /\ \/ /\ stmt[t] /\ rc' = DONE /\ UNCHANGED unwritten
                 /\ rows' = [rows EXCEPT ![table[t]] = @ \o row[t]]
              \/ /\ rc' = ERROR /\ UNCHANGED rows
                 /\ unwritten' = unwritten \cup Range(row[t])
  <2>1. /\ \A u \in Threads \ {t} : at'[u] = at[u] /\ row'[u] = row[u] /\ stmt'[u] = stmt[u]
        /\ at'[t] = "stepped" /\ row'[t] = row[t] /\ overlapped' = overlapped
    BY <1>0, <1>3 DEF HistTypeOK
  <2>2. OverlapKnown'
    BY <1>0, <2>1 DEF OverlapKnown, Idle
  <2>3. rows' \in [Tables -> Seq(Rows)]
    <3>1. CASE UNCHANGED rows
      BY <1>0, <3>1 DEF HistTypeOK
    <3>2. CASE rows' = [rows EXCEPT ![table[t]] = @ \o row[t]]
      <4>1. \A n \in Tables : rows[n] \o row[t] \in Seq(Rows)
        BY <1>0 DEF HistTypeOK
      <4>2. QED
        BY <1>0, <3>2, <4>1 DEF HistTypeOK
    <3>3. QED
      BY <1>3, <3>1, <3>2
  <2>4. HistTypeOK'
    BY <1>0, <1>1, <1>3, <2>3 DEF HistTypeOK
  <2>5. PreparedOwn'
    BY <1>0, <2>1, OthersKnown DEF PreparedOwn, Idle
  <2>6. SteppedOwn'
    <3> SUFFICES ASSUME NEW u \in Threads, at'[u] = "stepped", stmt'[u]
                 PROVE  rc' = DONE \/ Range(row'[u]) \subseteq overlapped' \cup unwritten'
      BY DEF SteppedOwn
    <3>1. CASE u = t
      BY <1>3, <2>1, <3>1
    <3>2. CASE u # t
      BY <1>0, <2>1, <3>2, OthersKnown DEF Idle
    <3>3. QED
      BY <3>1, <3>2
  <2>7. FaultsNeedOverlap'
    BY <1>0, <1>3 DEF FaultsNeedOverlap
  <2>8. QED
    BY <2>2, <2>4, <2>5, <2>6, <2>7 DEF HistIInv
<1>4. QED
  BY <1>2, <1>3 DEF StepRow

(* The second look at rc. *)
LEMMA FinishKeeps ==
  ASSUME HistIInv, NEW t \in Threads, Finish(t)
  PROVE  HistIInv'
<1>0. HistTypeOK /\ OverlapKnown /\ FaultsNeedOverlap /\ at[t] = "stepped" /\ Returns(t)
  BY DEF HistIInv, Finish
<1>1. /\ OverlapKnown'
      /\ \A u \in Threads \ {t} : at'[u] = at[u] /\ row'[u] = row[u] /\ stmt'[u] = stmt[u]
      /\ at'[t] = "idle" /\ overlapped' = overlapped
  BY <1>0, ReturnsKeeps
<1>2. Range(row[t]) \subseteq Rows
  BY <1>0 DEF HistTypeOK, Range
<1>3. HistTypeOK'
  BY <1>0, <1>2, CallTypes DEF HistTypeOK, Finish
<1>4. PreparedOwn' /\ SteppedOwn'
  BY <1>1 DEF HistIInv, Finish, PreparedOwn, SteppedOwn
<1>5. rc # DONE /\ stmt[t] => Range(row[t]) \subseteq overlapped \cup unwritten
  BY <1>0 DEF HistIInv, SteppedOwn
<1>6. FaultsNeedOverlap'
  BY <1>0, <1>1, <1>5 DEF FaultsNeedOverlap, Finish
<1>7. QED
  BY <1>1, <1>3, <1>4, <1>6 DEF HistIInv

(* The indexes of createTable. *)
LEMMA IndexKeeps ==
  ASSUME HistIInv, NEW t \in Threads, Index(t)
  PROVE  HistIInv'
<1>0. HistTypeOK /\ OverlapKnown /\ at[t] = "index" /\ ~Idle(t)
  BY DEF HistIInv, Index, Idle
<1>1. CASE Returns(t) /\ UNCHANGED rc /\ UNCHANGED <<tables, rows, lost, ruined, unwritten>>
  <2>1. /\ OverlapKnown'
        /\ \A u \in Threads \ {t} : at'[u] = at[u] /\ row'[u] = row[u] /\ stmt'[u] = stmt[u]
        /\ at'[t] = "idle" /\ overlapped' = overlapped
    BY <1>0, <1>1, ReturnsKeeps
  <2>2. HistTypeOK'
    BY <1>0, <1>1, CallTypes DEF HistTypeOK
  <2>3. PreparedOwn' /\ SteppedOwn' /\ FaultsNeedOverlap'
    BY <1>1, <2>1 DEF HistIInv, PreparedOwn, SteppedOwn, FaultsNeedOverlap
  <2>4. QED
    BY <2>1, <2>2, <2>3 DEF HistIInv
<1>2. CASE /\ indexes[t] < 3 /\ indexes' = [indexes EXCEPT ![t] = @ + 1] /\ rc' = OK
           /\ UNCHANGED <<at, table, row, stmt, overlapped>>
           /\ UNCHANGED <<tables, rows, lost, ruined, unwritten>>
  <2>1. HistTypeOK'
    BY <1>0, <1>2 DEF HistTypeOK
  <2>2. OverlapKnown' /\ FaultsNeedOverlap'
    BY <1>2 DEF HistIInv, OverlapKnown, Idle, FaultsNeedOverlap
  <2>3. PreparedOwn' /\ SteppedOwn'
    BY <1>0, <1>2, OthersKnown DEF PreparedOwn, SteppedOwn, Idle
  <2>4. QED
    BY <2>1, <2>2, <2>3 DEF HistIInv
<1>3. QED
  BY <1>1, <1>2 DEF Index

(* Every step keeps the invariant. *)
LEMMA HistNextIInv == HistIInv /\ [HistNext]_histVars => HistIInv'
<1> SUFFICES ASSUME HistIInv, [HistNext]_histVars PROVE HistIInv'
  OBVIOUS
<1>1. ASSUME NEW t \in Threads, HistStep(t) PROVE HistIInv'
  BY <1>1, StepRowKeeps, FinishKeeps, IndexKeeps DEF HistStep
<1>2. ASSUME NEW t \in Threads, NEW n \in Tables, CreateTable(t, n) PROVE HistIInv'
  BY <1>2, CreateTableKeeps
<1>3. ASSUME NEW t \in Threads, NEW n \in Tables, NEW r \in Rows \ Used, Prepare(t, n, r)
      PROVE  HistIInv'
  BY <1>3, PrepareKeeps
<1>4. CASE UNCHANGED histVars
  BY <1>4 DEF HistIInv, HistTypeOK, OverlapKnown, PreparedOwn, SteppedOwn, FaultsNeedOverlap,
              Idle, histVars, callVars, fateVars
<1>5. QED
  BY <1>1, <1>2, <1>3, <1>4 DEF HistNext

-----------------------------------------------------------------------------
(* The inductive invariant holds throughout. *)
THEOREM HistInductive == HistSpec => []HistIInv
BY HistInitIInv, HistNextIInv, PTL DEF HistSpec

(* Every variable of the history keeps its type. *)
THEOREM HistTypeCorrect == HistSpec => []HistTypeOK
<1>1. HistIInv => HistTypeOK
  BY DEF HistIInv
<1>2. QED
  BY <1>1, HistInductive, PTL

(* A row is left out, or its statement finalized twice, only if another thread's
   call overlapped its own or sqlite3_step failed (usersqlite.cpp:63-86), for
   every number of threads, tables and rows. *)
THEOREM FaultsAreShared == HistSpec => []FaultsNeedOverlap
<1>1. HistIInv => FaultsNeedOverlap
  BY DEF HistIInv
<1>2. QED
  BY <1>1, HistInductive, PTL

-----------------------------------------------------------------------------
(* Each row at most once *)

(* No table holds a row twice. *)
RowsOnce == \A n \in Tables : IsInjective(rows[n])

(* A row that sqlite3_step is still to insert is in no table, and in no other
   call. *)
PendingNew ==
  \A t \in Threads : at[t] = "prepared" =>
     \E r \in Rows : row[t] = <<r>> /\ \A n \in Tables : r \notin Range(rows[n])
PendingApart ==
  \A t, u \in Threads : t # u /\ at[t] = "prepared" /\ at[u] = "prepared" =>
     Range(row[t]) \cap Range(row[u]) = {}
Once == RowsOnce /\ PendingNew /\ PendingApart

(* A sequence without repetitions keeps so when something new is added. *)
LEMMA AppendOnce ==
  ASSUME NEW X, NEW s \in Seq(X), NEW r \in X, IsInjective(s), r \notin Range(s)
  PROVE  IsInjective(s \o <<r>>) /\ Range(s \o <<r>>) = Range(s) \cup {r}
<1> DEFINE q == s \o <<r>>
           n == Len(s)
<1>1. /\ n \in Nat /\ DOMAIN s = 1..n /\ DOMAIN q = 1..(n + 1)
      /\ q[n + 1] = r /\ \A i \in 1..n : q[i] = s[i]
  OBVIOUS
<1> HIDE DEF q, n
<1>2. \A i \in 1..(n + 1) : i \in 1..n \/ i = n + 1
  BY <1>1
<1>3. \A i \in 1..n : s[i] # r
  BY <1>1 DEF Range
<1>4. IsInjective(q)
  BY <1>1, <1>2, <1>3 DEF IsInjective
<1>5. Range(q) = Range(s) \cup {r}
  BY <1>1, <1>2 DEF Range
<1>6. QED
  BY <1>4, <1>5 DEF q

(* What is in two sequences. *)
LEMMA RangeOfBoth ==
  ASSUME NEW X, NEW s \in Seq(X), NEW q \in Seq(X)
  PROVE  Range(s \o q) \subseteq Range(s) \cup Range(q)
<1>1. Len(s) \in Nat /\ Len(q) \in Nat /\ Len(s \o q) = Len(s) + Len(q)
      /\ DOMAIN s = 1..Len(s) /\ DOMAIN q = 1..Len(q) /\ DOMAIN (s \o q) = 1..Len(s \o q)
  OBVIOUS
<1>2. ASSUME NEW i \in 1..Len(s \o q) PROVE (s \o q)[i] \in Range(s) \cup Range(q)
  <2>1. CASE i <= Len(s)
    BY <1>1, <2>1 DEF Range
  <2>2. CASE i > Len(s)
    <3>1. i - Len(s) \in 1..Len(q) /\ (s \o q)[i] = q[i - Len(s)]
      BY <1>1, <2>2
    <3>2. QED
      BY <1>1, <3>1 DEF Range
  <2>3. QED
    BY <1>1, <2>1, <2>2
<1>3. QED
  BY <1>1, <1>2 DEF Range

(* What the rows that calls have been made for become. *)
LEMMA UsedSteps ==
  ASSUME HistTypeOK, NEW t \in Threads
  PROVE  /\ HistStep(t) => Used' \subseteq Used
         /\ \A n : CreateTable(t, n) => Used' \subseteq Used
         /\ \A n, r : Prepare(t, n, r) => Used' \subseteq Used \cup {r}
<1>1. ASSUME NEW R, row' = [row EXCEPT ![t] = R], UNCHANGED <<rows, lost, ruined, unwritten>>
      PROVE  Used' \subseteq Used \cup Range(R)
  <2>1. ASSUME NEW u \in Threads PROVE Range(row'[u]) \subseteq Range(row[u]) \cup Range(R)
    BY <1>1 DEF HistTypeOK
  <2>2. (UNION {Range(row[u]) : u \in Threads})'
           \subseteq (UNION {Range(row[u]) : u \in Threads}) \cup Range(R)
    BY <2>1
  <2>3. QED
    BY <1>1, <2>2 DEF Used
<1>2. Range(<<>>) = {} /\ \A r : Range(<<r>>) = {r}
  BY DEF Range
<1>3. ASSUME NEW n, CreateTable(t, n) PROVE Used' \subseteq Used
  <2>1. row' = [row EXCEPT ![t] = <<>>] /\ UNCHANGED <<rows, lost, ruined, unwritten>>
    BY <1>3 DEF CreateTable, Begins
  <2>2. QED
    BY <1>1, <1>2, <2>1
<1>4. ASSUME NEW n, NEW r, Prepare(t, n, r) PROVE Used' \subseteq Used \cup {r}
  <2>1. row' = [row EXCEPT ![t] = <<r>>] /\ UNCHANGED <<rows, lost, ruined, unwritten>>
    BY <1>4 DEF Prepare, Begins
  <2>2. QED
    BY <1>1, <1>2, <2>1
<1>5. ASSUME HistStep(t) PROVE Used' \subseteq Used
  <2>1. Range(row[t]) \subseteq Used
    BY DEF Used
  <2>2. ASSUME NEW u \in Threads PROVE Range(row'[u]) \subseteq Range(row[u])
    BY <1>2, <1>5 DEF HistStep, StepRow, Finish, Index, Returns, HistTypeOK
  <2>3. /\ lost' \subseteq lost \cup Range(row[t])
        /\ ruined' \subseteq ruined \cup Range(row[t])
        /\ unwritten' \subseteq unwritten \cup Range(row[t])
    BY <1>5 DEF HistStep, StepRow, Finish, Index, Returns
  <2>4. ASSUME NEW n \in Tables PROVE Range(rows'[n]) \subseteq Range(rows[n]) \cup Range(row[t])
    <3>1. rows'[n] = rows[n] \/ rows'[n] = rows[n] \o row[t]
      BY <1>5 DEF HistStep, StepRow, Finish, Index, HistTypeOK
    <3>2. Range(rows[n] \o row[t]) \subseteq Range(rows[n]) \cup Range(row[t])
      <4> DEFINE s == rows[n]
                 q == row[t]
      <4>1. s \in Seq(Rows) /\ q \in Seq(Rows)
        BY DEF HistTypeOK
      <4> HIDE DEF s, q
      <4>2. QED
        BY <4>1, RangeOfBoth DEF s, q
    <3>3. QED
      BY <3>1, <3>2
  <2>5. /\ (UNION {Range(rows[n]) : n \in Tables})' \subseteq Used
        /\ (UNION {Range(row[u]) : u \in Threads})' \subseteq Used
    BY <2>1, <2>2, <2>4 DEF Used
  <2>6. lost' \subseteq Used /\ ruined' \subseteq Used /\ unwritten' \subseteq Used
    BY <2>1, <2>3 DEF Used
  <2>7. QED
    BY <2>5, <2>6 DEF Used
<1>6. QED
  BY <1>3, <1>4, <1>5

(* Every step keeps it so. *)
LEMMA OnceKept == HistTypeOK /\ Once /\ [HistNext]_histVars => Once'
<1> SUFFICES ASSUME HistTypeOK, Once, [HistNext]_histVars PROVE Once'
  OBVIOUS
<1> USE DEF Once
<1>1. ASSUME NEW t \in Threads, UNCHANGED rows, at'[t] # "prepared",
             \A u \in Threads \ {t} : at'[u] = at[u] /\ row'[u] = row[u]
      PROVE  Once'
  <2>1. RowsOnce'
    BY <1>1 DEF RowsOnce
  <2>2. PendingNew'
    BY <1>1 DEF PendingNew
  <2>3. PendingApart'
    BY <1>1 DEF PendingApart
  <2>4. QED
    BY <2>1, <2>2, <2>3
<1>2. ASSUME NEW t \in Threads, NEW n \in Tables, CreateTable(t, n) PROVE Once'
  BY <1>1, <1>2 DEF CreateTable, Begins, HistTypeOK
<1>3. ASSUME NEW t \in Threads, Index(t) PROVE Once'
  BY <1>1, <1>3 DEF Index, Returns, HistTypeOK
<1>4. ASSUME NEW t \in Threads, Finish(t) PROVE Once'
  BY <1>1, <1>4 DEF Finish, Returns, HistTypeOK
<1>5. ASSUME NEW t \in Threads, NEW n \in Tables, NEW r \in Rows \ Used, Prepare(t, n, r)
      PROVE  Once'
  <2>1. /\ at'[t] = "prepared" /\ row'[t] = <<r>> /\ UNCHANGED rows
        /\ \A u \in Threads \ {t} : at'[u] = at[u] /\ row'[u] = row[u]
    BY <1>5 DEF Prepare, Begins, HistTypeOK
  <2>2. Range(<<r>>) = {r}
    BY DEF Range
  <2>3. /\ \A k \in Tables : r \notin Range(rows[k])
        /\ \A u \in Threads : r \notin Range(row[u])
    BY <1>5 DEF Used
  <2>4. RowsOnce'
    BY <2>1 DEF RowsOnce
  <2>5. PendingNew'
    BY <2>1, <2>3 DEF PendingNew
  <2>6. PendingApart'
    BY <2>1, <2>2, <2>3 DEF PendingApart
  <2>7. QED
    BY <2>4, <2>5, <2>6
<1>6. ASSUME NEW t \in Threads, StepRow(t) PROVE Once'
  <2>1. CASE UNCHANGED rows
    BY <1>1, <1>6, <2>1 DEF StepRow, Returns, HistTypeOK
  <2>2. CASE rows' = [rows EXCEPT ![table[t]] = @ \o row[t]] /\ at' = [at EXCEPT ![t] = "stepped"]
             /\ UNCHANGED row
    <3>1. PICK r \in Rows : row[t] = <<r>> /\ \A n \in Tables : r \notin Range(rows[n])
      BY <1>6 DEF StepRow, PendingNew
    <3>2. ASSUME NEW n \in Tables
          PROVE  IsInjective(rows'[n]) /\ Range(rows'[n]) \subseteq Range(rows[n]) \cup {r}
      <4>1. rows[n] \in Seq(Rows) /\ IsInjective(rows[n]) /\ r \notin Range(rows[n])
        BY <3>1 DEF HistTypeOK, RowsOnce
      <4>2. rows'[n] = rows[n] \/ rows'[n] = rows[n] \o <<r>>
        BY <2>2, <3>1 DEF HistTypeOK
      <4> DEFINE s == rows[n]
      <4>3. s \in Seq(Rows) /\ IsInjective(s) /\ r \notin Range(s)
        BY <4>1
      <4> HIDE DEF s
      <4>4. IsInjective(s \o <<r>>) /\ Range(s \o <<r>>) = Range(s) \cup {r}
        BY <4>3, AppendOnce
      <4>5. QED
        BY <4>1, <4>2, <4>4 DEF s
    <3>3. at'[t] = "stepped" /\ \A u \in Threads \ {t} : at'[u] = at[u]
      BY <2>2 DEF HistTypeOK
    <3>4. PendingNew'
      <4> SUFFICES ASSUME NEW u \in Threads, at'[u] = "prepared"
                   PROVE  \E q \in Rows : row'[u] = <<q>> /\ \A n \in Tables : q \notin Range(rows'[n])
        BY DEF PendingNew
      <4>1. u # t /\ at[u] = "prepared" /\ at[t] = "prepared"
        BY <1>6, <3>3 DEF StepRow
      <4>2. PICK q \in Rows : row[u] = <<q>> /\ \A n \in Tables : q \notin Range(rows[n])
        BY <4>1 DEF PendingNew
      <4>3. Range(<<r>>) = {r} /\ Range(<<q>>) = {q}
        BY DEF Range
      <4>4. q # r
        BY <3>1, <4>1, <4>2, <4>3 DEF PendingApart
      <4>5. QED
        BY <2>2, <3>2, <4>2, <4>4
    <3>5. PendingApart'
      BY <2>2, <3>3 DEF PendingApart
    <3>6. QED
      BY <3>2, <3>4, <3>5 DEF RowsOnce
  <2>3. QED
    BY <1>6, <2>1, <2>2 DEF StepRow
<1>7. CASE UNCHANGED histVars
  BY <1>7 DEF histVars, callVars, RowsOnce, PendingNew, PendingApart
<1>8. QED
  BY <1>2, <1>3, <1>4, <1>5, <1>6, <1>7 DEF HistNext, HistStep

(* It is so at first. *)
LEMMA OnceInit == HistInit => Once
<1> SUFFICES ASSUME HistInit PROVE Once
  OBVIOUS
<1>1. \A n \in Tables : rows[n] = <<>>
  BY DEF HistInit
<1>2. IsInjective(<<>>)
  BY DEF IsInjective
<1>3. QED
  BY <1>1, <1>2 DEF HistInit, Once, RowsOnce, PendingNew, PendingApart

(* No table ever holds a row twice, whatever the threads do to each other's rc. *)
THEOREM NoRowTwice == HistSpec => []RowsOnce
<1>1. Once => RowsOnce
  BY DEF Once
<1>2. HistIInv /\ Once /\ [HistNext]_histVars => Once'
  BY OnceKept DEF HistIInv
<1>3. QED
  BY <1>1, <1>2, OnceInit, HistInductive, PTL DEF HistSpec

-----------------------------------------------------------------------------
(* The steps that touch the connection. *)
LinkStep ==
  \/ \E n \in DOMAIN Outgoing : SendMessage(Outgoing[n].to, Outgoing[n].text)
  \/ Connect \/ OnConnection \/ Flush \/ Disconnect
  \/ \E n \in 1..Len(stream) : Arrive(n)
  \/ OnMessage \/ Break
  \/ \E m \in Incoming : HandOver(m) \/ StoreRow(m)

(* All the others leave it alone. *)
LEMMA LinkSteps ==
  ASSUME [Next]_vars
  PROVE  LinkStep \/ UNCHANGED <<linkVars, queued, used>>
<1>1. ASSUME Login \/ GetFriendList \/ GetOfflinemsg \/ BeginTask \/ HistoryStep(Console)
             \/ HistoryStep(Loop) \/ CreateGroup
      PROVE  UNCHANGED <<linkVars, queued, used>>
  BY <1>1 DEF Login, GetFriendList, GetOfflinemsg, BeginTask, HistoryStep, CreateGroup
<1>2. ASSUME NEW place, NEW next, GetGroups(place, next)
      PROVE  UNCHANGED <<linkVars, queued, used>>
  BY <1>2 DEF GetGroups
<1>3. ASSUME NEW g, JoinGroup(g) \/ OtherCreates(g)
      PROVE  UNCHANGED <<linkVars, queued, used>>
  BY <1>3 DEF JoinGroup, OtherCreates
<1>4. ASSUME NEW to, NEW text, SendGroupMessage(to, text)
      PROVE  UNCHANGED <<linkVars, queued, used>>
  BY <1>4 DEF SendGroupMessage
<1>5. CASE ConsoleThread
  <2> HIDE DEF linkVars
  <2>1. QED
    BY <1>1, <1>2, <1>3, <1>4, <1>5 DEF ConsoleThread, LinkStep
<1>6. CASE LoopThread
  <2> HIDE DEF linkVars
  <2>1. QED
    BY <1>1, <1>6 DEF LoopThread, LinkStep
<1>7. CASE Server
  BY <1>3, <1>7 DEF Server, LinkStep
<1>8. CASE UNCHANGED vars
  BY <1>8 DEF vars
<1>9. QED
  BY <1>5, <1>6, <1>7, <1>8 DEF Next

-----------------------------------------------------------------------------
(* What the client writes *)

ChatFrames == {ChatFrame(Outgoing[n].to, Outgoing[n].text) : n \in DOMAIN Outgoing}

(* The frame of the login is none of a message. *)
LEMMA LoginIsNoChat == LoginFrame \notin ChatFrames
<1> DEFINE login == New("ChatMessage", [userid |-> Me])
<1>1. /\ Flat("ChatMessage") /\ InOrder("ChatMessage") /\ "method" \in DOMAIN Fields["ChatMessage"]
      /\ Fields["ChatMessage"]["method"] = Number
  BY ChatMessageTable DEF Flat
<1>2. Whole("ChatMessage", login) /\ login["method"] = 0
  <2> DEFINE v == [userid |-> Me]
  <2>1. DOMAIN v = {"userid"}
    OBVIOUS
  <2> HIDE DEF v
  <2>2. /\ Whole("ChatMessage", New("ChatMessage", v))
        /\ New("ChatMessage", v)["method"] = Zero(Number)
    BY <1>1, <2>1, NewFacts
  <2>3. QED
    BY <2>2, Kinds DEF v
<1>3. ASSUME NEW to, NEW text PROVE LoginFrame # ChatFrame(to, text)
  <2> DEFINE v == [method |-> 1, userid |-> to, friendid |-> Me, msg |-> text, send_time |-> Now]
             chat == New("ChatMessage", v)
             a == Serialize("ChatMessage", login)
             b == Serialize("ChatMessage", chat)
             X == ItemsIn("ChatMessage", login) \cup ItemsIn("ChatMessage", chat)
  <2>1. DOMAIN v = {"method", "userid", "friendid", "msg", "send_time"} /\ v["method"] = 1
    OBVIOUS
  <2>2. Whole("ChatMessage", chat) /\ chat["method"] = 1
    <3> HIDE DEF v
    <3>1. QED
      BY <1>1, <2>1, NewFacts
  <2>3. LoginFrame = Frame(a) /\ ChatFrame(to, text) = Frame(b)
    BY DEF LoginFrame, ChatFrame
  <2> HIDE DEF login, chat
  <2>4. /\ a \in Seq(ItemsIn("ChatMessage", login)) /\ Len(a) <= 7
        /\ Parse("ChatMessage", a) = login
    BY <1>1, <1>2, FlatSerialize, FlatRoundTrip DEF Whole
  <2>5. /\ b \in Seq(ItemsIn("ChatMessage", chat)) /\ Len(b) <= 7
        /\ Parse("ChatMessage", b) = chat
    BY <1>1, <2>2, FlatSerialize, FlatRoundTrip DEF Whole
  <2> HIDE DEF a, b
  <2>6. a \in Seq(X) /\ b \in Seq(X)
    BY <2>4, <2>5
  <2>7. a # b
    BY <1>2, <2>2, <2>4, <2>5
  <2>8. Frame(a) # Frame(b)
    BY <2>4, <2>5, <2>6, <2>7, FrameTells
  <2>9. QED
    BY <2>3, <2>8
<1>4. QED
  BY <1>3 DEF ChatFrames

(* The frames written are the login and messages, those queued are messages. *)
WroteRight ==
  /\ link \in {"none", "assigning", "up", "down"}
  /\ wrote \in Seq({LoginFrame} \cup ChatFrames)
  /\ link # "up" => wrote = <<>>
  /\ link = "up" => Len(wrote) >= 1 /\ wrote[1] = LoginFrame
  /\ \A i \in 2..Len(wrote) : wrote[i] \in ChatFrames
  /\ queued \in Seq(ChatFrames)

(* A message after others. *)
LEMMA WriteMore ==
  ASSUME NEW C, NEW f, NEW w \in Seq({f} \cup C), Len(w) >= 1, w[1] = f,
         \A i \in 2..Len(w) : w[i] \in C, NEW c \in C
  PROVE  /\ Append(w, c) \in Seq({f} \cup C)
         /\ Len(Append(w, c)) >= 1 /\ Append(w, c)[1] = f
         /\ \A i \in 2..Len(Append(w, c)) : Append(w, c)[i] \in C
OBVIOUS

(* Every step keeps them so. *)
LEMMA WroteKept == WroteRight /\ [Next]_vars => WroteRight'
<1> SUFFICES ASSUME WroteRight, [Next]_vars PROVE WroteRight'
  OBVIOUS
<1> USE DEF linkVars
<1>1. ASSUME NEW n \in DOMAIN Outgoing, SendMessage(Outgoing[n].to, Outgoing[n].text)
      PROVE  WroteRight'
  <2> DEFINE f == ChatFrame(Outgoing[n].to, Outgoing[n].text)
  <2>1. f \in ChatFrames
    BY DEF ChatFrames
  <2>2. UNCHANGED <<link, wrote>> /\ (queued' = queued \/ queued' = Append(queued, f))
    BY <1>1 DEF SendMessage, Write
  <2> HIDE DEF f
  <2>3. QED
    BY <2>1, <2>2 DEF WroteRight
<1>2. CASE Connect
  BY <1>2 DEF Connect, WroteRight
<1>3. CASE OnConnection
  <2>1. wrote = <<>> /\ wrote' = Append(wrote, LoginFrame) /\ link' = "up" /\ queued' = queued
    BY <1>3 DEF OnConnection, WroteRight
  <2>2. wrote' = <<LoginFrame>>
    BY <2>1
  <2>3. QED
    BY <2>1, <2>2 DEF WroteRight
<1>4. CASE Flush
  <2> DEFINE c == Head(queued)
  <2>1. /\ link = "up" /\ link' = link /\ queued # <<>> /\ queued' = Tail(queued)
        /\ wrote' = Append(wrote, c)
    BY <1>4 DEF Flush
  <2>2. c \in ChatFrames /\ queued' \in Seq(ChatFrames)
    BY <2>1 DEF WroteRight
  <2> HIDE DEF c
  <2>3. /\ wrote' \in Seq({LoginFrame} \cup ChatFrames)
        /\ Len(wrote') >= 1 /\ wrote'[1] = LoginFrame
        /\ \A i \in 2..Len(wrote') : wrote'[i] \in ChatFrames
    BY <2>1, <2>2, WriteMore DEF WroteRight
  <2>4. QED
    BY <2>1, <2>2, <2>3 DEF WroteRight
<1>5. CASE Disconnect
  BY <1>5 DEF Disconnect, WroteRight
<1>6. ASSUME UNCHANGED <<link, wrote, queued>> PROVE WroteRight'
  BY <1>6 DEF WroteRight
<1>7. ASSUME NEW n, Arrive(n) PROVE UNCHANGED <<link, wrote, queued>>
  BY <1>7 DEF Arrive
<1>8. CASE OnMessage \/ Break
  BY <1>6, <1>8 DEF OnMessage, Break
<1>9. ASSUME NEW m, HandOver(m) \/ StoreRow(m) PROVE UNCHANGED <<link, wrote, queued>>
  BY <1>9 DEF HandOver, StoreRow
<1>10. CASE UNCHANGED <<linkVars, queued, used>>
  BY <1>6, <1>10
<1>11. QED
  BY <1>1, <1>2, <1>3, <1>4, <1>5, <1>6, <1>7, <1>8, <1>9, <1>10, LinkSteps DEF LinkStep

(* Once up, a connection's frames are its login and then the user's messages. *)
THEOREM LoginComesFirst == Spec => []LoginFirst
<1>1. Init => WroteRight
  BY DEF Init, WroteRight
<1>2. WroteRight => LoginFirst
  <2> SUFFICES ASSUME WroteRight, NEW i \in DOMAIN wrote
               PROVE  (wrote[i] = LoginFrame) = (i = 1)
    BY DEF LoginFirst
  <2>1. Len(wrote) \in Nat /\ i \in 1..Len(wrote) /\ wrote # <<>>
    BY DEF WroteRight
  <2>2. i # 1 => i \in 2..Len(wrote)
    BY <2>1
  <2>3. wrote[1] = LoginFrame
    BY <2>1 DEF WroteRight
  <2>4. i # 1 => wrote[i] # LoginFrame
    BY <2>2, LoginIsNoChat DEF WroteRight
  <2>5. QED
    BY <2>3, <2>4
<1>3. QED
  BY <1>1, <1>2, WroteKept, PTL DEF Spec

-----------------------------------------------------------------------------
(* What the server hands over *)

BodyOf(m) == Serialize(NameOf(m), m.value)

(* A message is whole, and is shown as what it is: a group's, read as a chat
   message, has the method of a group's. *)
LEMMA BodyFacts ==
  ASSUME NEW m \in Incoming
  PROVE  /\ BodyOf(m) \in Seq(ItemsIn(NameOf(m), m.value)) /\ Len(BodyOf(m)) <= 7
         /\ Shows(BodyOf(m)) = {m}
<1> DEFINE v == m.value
           b == BodyOf(m)
<1>1. /\ m.as \in {"friend", "group"} /\ m = [as |-> m.as, value |-> v]
      /\ v = New(NameOf(m), v) /\ v["unknown"] = <<>>
      /\ v["method"] = IF m.as = "friend" THEN 1 ELSE 2
  BY IncomingAssumption
<1> HIDE DEF v
<1>2. /\ Flat("ChatMessage") /\ InOrder("ChatMessage") /\ "method" \in DOMAIN Fields["ChatMessage"]
      /\ Fields["ChatMessage"]["method"] = Number /\ Tags["ChatMessage"]["method"] = 8
  BY ChatMessageTable DEF Flat
<1>3. /\ Flat("GroupMessage") /\ InOrder("GroupMessage") /\ "method" \in DOMAIN Fields["GroupMessage"]
      /\ Fields["GroupMessage"]["method"] = Number /\ Tags["GroupMessage"]["method"] = 8
  BY GroupMessageTable DEF Flat
<1>4. Flat(NameOf(m)) /\ InOrder(NameOf(m))
  BY <1>1, <1>2, <1>3 DEF NameOf
<1>5. Whole(NameOf(m), v)
  <2> DEFINE name == NameOf(m)
  <2>1. DOMAIN Clear(name) = {"unknown"} \cup DOMAIN Fields[name]
    BY DEF Clear
  <2>2. v = [f \in {"unknown"} \cup DOMAIN Fields[name] |->
               IF f \in DOMAIN v THEN v[f] ELSE Clear(name)[f]]
    BY <1>1, <2>1 DEF New
  <2> HIDE DEF name
  <2>3. v = [f \in {"unknown"} \cup DOMAIN Fields[name] |-> v[f]]
    BY <2>2
  <2>4. QED
    BY <1>1, <2>3 DEF Whole, HasFields, name
<1>6. b \in Seq(ItemsIn(NameOf(m), v)) /\ Len(b) <= 7 /\ Parse(NameOf(m), b) = v
  BY <1>4, <1>5, FlatSerialize, FlatRoundTrip DEF Whole, BodyOf, v
<1>7. CASE m.as = "friend"
  <2>1. NameOf(m) = "ChatMessage"
    BY <1>7 DEF NameOf
  <2>2. Shows(b) = {[as |-> "friend", value |-> v]}
    <3> HIDE DEF b
    <3>1. QED
      BY <1>1, <1>6, <1>7, <2>1 DEF Shows, Meant
  <2>3. QED
    BY <1>1, <1>6, <1>7, <2>2 DEF v
<1>8. CASE m.as = "group"
  <2>1. NameOf(m) = "GroupMessage"
    BY <1>8 DEF NameOf
  <2>2. v["method"] = 2
    BY <1>1, <1>8
  <2>3. Item("GroupMessage", v, "method") \in Range(b)
    <3>1. \A f \in DOMAIN Fields["GroupMessage"] :
             v[f] # Zero(Fields["GroupMessage"][f]) => Item("GroupMessage", v, f) \in Range(b)
      BY <1>3, <1>5, <2>1, FlatSerialize DEF Whole, BodyOf, v
    <3>2. Zero(Number) = 0
      BY Kinds
    <3>3. QED
      BY <1>3, <2>2, <3>1, <3>2
  <2> HIDE DEF b
  <2>4. Len(b) \in Nat /\ DOMAIN b = 1..Len(b) /\ \A i \in 1..Len(b) : b[i] \in ItemsIn("GroupMessage", v)
    BY <1>6, <2>1
  <2>5. Item("GroupMessage", v, "method") = [tag |-> 8, int |-> 2]
    BY <1>3, <2>2 DEF Item
  <2>6. \A f \in DOMAIN Fields["GroupMessage"] :
           Item("GroupMessage", v, f).tag = Tags["GroupMessage"][f]
    BY DEF Item
  <2>7. \A i \in 1..Len(b) : b[i].tag = 8 => b[i] = [tag |-> 8, int |-> 2]
    <3> SUFFICES ASSUME NEW i \in 1..Len(b), b[i].tag = 8
                 PROVE  b[i] = [tag |-> 8, int |-> 2]
      OBVIOUS
    <3>1. PICK f \in DOMAIN Fields["GroupMessage"] : b[i] = Item("GroupMessage", v, f)
      BY <2>4 DEF ItemsIn
    <3>2. Tags["GroupMessage"][f] = 8
      BY <2>6, <3>1
    <3>3. f = "method"
      BY <1>3, <3>2 DEF InOrder
    <3>4. QED
      BY <2>5, <3>1, <3>3
  <2>8. \E i \in 1..Len(b) : b[i].tag = 8
    <3>1. PICK i \in DOMAIN b : b[i] = Item("GroupMessage", v, "method")
      BY <2>3 DEF Range
    <3>2. QED
      BY <2>4, <2>5, <3>1
  <2>9. Tells("ChatMessage", b, "method", 2)
    BY <1>2, <2>7 DEF Tells
  <2>10. Parse("ChatMessage", b)["method"] = 2
    <3>1. Fields["ChatMessage"]["method"] \in {Number, Bytes}
      BY <1>2
    <3>2. Parse("ChatMessage", b)["method"] =
            IF \E i \in 1..Len(b) : b[i].tag = Tags["ChatMessage"]["method"]
            THEN 2 ELSE Zero(Fields["ChatMessage"]["method"])
      BY <1>2, <2>4, <2>9, <3>1, ParseField
    <3>3. QED
      BY <1>2, <2>8, <3>2
  <2>11. Shows(b) = {[as |-> "group", value |-> v]}
    BY <1>6, <2>1, <2>10 DEF Shows, Meant
  <2>12. QED
    BY <1>1, <1>6, <1>8, <2>11 DEF b, v
<1>9. QED
  BY <1>1, <1>7, <1>8

(* The bytes that frames are made of. *)
Byte == UNION {{FrameOf(m)[i] : i \in 1..Len(FrameOf(m))} : m \in Incoming}

(* The frame of a message handed over. *)
LEMMA FrameOfFacts ==
  ASSUME NEW m \in Incoming
  PROVE  /\ FrameOf(m) \in Seq(Byte) /\ Len(BodyOf(m)) \in Nat
         /\ Carries(FrameOf(m), Len(BodyOf(m)), BodyOf(m))
<1> DEFINE X == ItemsIn(NameOf(m), m.value)
           b == BodyOf(m)
           F == FrameOf(m)
<1>1. b \in Seq(X) /\ Len(b) <= 7
  BY BodyFacts
<1>2. F = Frame(b)
  BY DEF FrameOf, BodyOf
<1> HIDE DEF b, X, F
<1>3. /\ Frame(b) \in Seq(X \cup [digit : Nat]) /\ Len(Frame(b)) = 4 + Len(b)
      /\ LengthIn(Frame(b)) = Len(b)
      /\ \A i \in 1..Len(b) : Frame(b)[4 + i] = b[i]
  BY <1>1, FrameFacts
<1>4. Len(b) \in Nat /\ b = [i \in 1..Len(b) |-> b[i]]
  BY <1>1
<1>5. F = [i \in 1..Len(F) |-> F[i]] /\ Len(F) \in Nat
  BY <1>2, <1>3
<1>6. \A i \in 1..Len(F) : F[i] \in Byte
  BY DEF Byte, F
<1>7. F \in Seq(Byte)
  BY <1>5, <1>6
<1>8. QED
  BY <1>2, <1>3, <1>4, <1>7 DEF F, b, Carries

(* What remains of the stream from each message on that has not been shown. *)
Remains(r) ==
  /\ r \in [Len(shown) + 1 .. Len(handed) + 1 -> Seq(Byte)]
  /\ r[Len(shown) + 1] = buffer \o stream
  /\ r[Len(handed) + 1] = <<>>
  /\ \A i \in Len(shown) + 1 .. Len(handed) : r[i] = FrameOf(handed[i]) \o r[i + 1]

StreamRight ==
  /\ handed \in Seq(Incoming) /\ shown \in Seq(Incoming)
  /\ Len(shown) <= Len(handed) /\ \A i \in 1..Len(shown) : shown[i] = handed[i]
  /\ buffer \in Seq(Byte) /\ stream \in Seq(Byte)
  /\ \E r : Remains(r)

(* What OnMessage finds in its buffer is the message handed over next. *)
LEMMA NextIsHanded ==
  ASSUME StreamRight, FrameReady(buffer), NEW r, Remains(r)
  PROVE  /\ Len(shown) + 1 \in 1..Len(handed)
         /\ BodyIn(buffer) = BodyOf(handed[Len(shown) + 1])
         /\ AfterFrame(buffer) \in Seq(Byte)
         /\ AfterFrame(buffer) \o stream = r[Len(shown) + 2]
<1> DEFINE k == Len(shown) + 1
<1>1. Len(shown) \in Nat /\ Len(handed) \in Nat /\ k \in Nat \ {0} /\ Len(handed) >= k - 1
      /\ Len(shown) + 2 = k + 1
  BY DEF StreamRight
<1>2. Len(buffer) \in Nat /\ Len(buffer) >= 4
  BY DEF StreamRight, FrameReady
<1>3. Len(buffer \o stream) = Len(buffer) + Len(stream) /\ Len(stream) \in Nat
  BY DEF StreamRight
<1>4. r[k] = buffer \o stream /\ r[Len(handed) + 1] = <<>>
  BY DEF Remains
<1>5. k # Len(handed) + 1
  <2>1. Len(r[k]) # 0
    BY <1>2, <1>3, <1>4
  <2>2. Len(r[Len(handed) + 1]) = 0
    BY <1>4
  <2> HIDE DEF k
  <2>3. QED
    BY <2>1, <2>2
<1>6. k \in 1..Len(handed)
  BY <1>1, <1>5
<1> DEFINE m == handed[k]
           F == FrameOf(m)
           b == BodyOf(m)
           n == Len(b)
           rest == r[k + 1]
<1>7. r[k] = F \o rest /\ rest \in Seq(Byte)
  <2>1. k \in Len(shown) + 1 .. Len(handed) /\ k + 1 \in Len(shown) + 1 .. Len(handed) + 1
    BY <1>1, <1>6
  <2> HIDE DEF k
  <2>2. QED
    BY <2>1 DEF Remains
<1>8. m \in Incoming
  BY <1>6 DEF StreamRight
<1>9. F \in Seq(Byte) /\ n \in Nat /\ Carries(F, n, b)
  <2> HIDE DEF m
  <2>1. QED
    BY <1>8, FrameOfFacts
<1>10. buffer \in Seq(Byte) /\ stream \in Seq(Byte)
  BY DEF StreamRight
<1>11. buffer \o stream = F \o rest
  BY <1>4, <1>7
<1>12. BodyIn(buffer) = b /\ AfterFrame(buffer) \in Seq(Byte) /\ AfterFrame(buffer) \o stream = rest
  <2>1. /\ F \in Seq(Byte) /\ n \in Nat /\ rest \in Seq(Byte)
        /\ Carries(F, n, b) /\ buffer \o stream = F \o rest
    BY <1>7, <1>9, <1>11
  <2> HIDE DEF F, b, n, rest, m, k
  <2>2. FrameAhead(Byte, buffer, stream, n, b, rest)
    BY <1>10, <2>1 DEF FrameAhead
  <2>3. QED
    BY <2>2, FrameRead
<1>13. QED
  BY <1>1, <1>6, <1>12

(* Every step keeps the stream so. *)
LEMMA StreamKept == StreamRight /\ [Next]_vars => StreamRight'
<1> SUFFICES ASSUME StreamRight, [Next]_vars PROVE StreamRight'
  OBVIOUS
<1> USE DEF linkVars
<1>0. PICK r : Remains(r)
  BY DEF StreamRight
<1>1. ASSUME UNCHANGED <<handed, shown, buffer, stream>> PROVE StreamRight'
  BY <1>1 DEF StreamRight, Remains
<1>2. CASE Disconnect
  <2>1. handed' = <<>> /\ shown' = <<>> /\ buffer' = <<>> /\ stream' = <<>>
    BY <1>2 DEF Disconnect
  <2>2. Remains([i \in 1..1 |-> <<>>])'
    BY <2>1 DEF Remains
  <2>3. QED
    BY <2>1, <2>2 DEF StreamRight
<1>3. ASSUME NEW n \in 1..Len(stream), Arrive(n) PROVE StreamRight'
  <2>1. /\ buffer' = buffer \o SubSeq(stream, 1, n)
        /\ stream' = SubSeq(stream, n + 1, Len(stream))
        /\ UNCHANGED <<handed, shown>>
    BY <1>3 DEF Arrive
  <2>2. buffer \in Seq(Byte) /\ stream \in Seq(Byte)
    BY DEF StreamRight
  <2>3. buffer' \in Seq(Byte) /\ stream' \in Seq(Byte)
    BY <2>1, <2>2
  <2>4. buffer' \o stream' = buffer \o stream
    <3>1. stream = SubSeq(stream, 1, n) \o SubSeq(stream, n + 1, Len(stream))
      BY <2>2
    <3> DEFINE s == SubSeq(stream, 1, n)
               t == SubSeq(stream, n + 1, Len(stream))
    <3>2. s \in Seq(Byte) /\ t \in Seq(Byte)
      BY <2>2
    <3> HIDE DEF s, t
    <3>3. (buffer \o s) \o t = buffer \o (s \o t)
      BY <2>2, <3>2
    <3>4. QED
      BY <2>1, <3>1, <3>3 DEF s, t
  <2>5. Remains(r)'
    BY <1>0, <2>1, <2>4 DEF Remains
  <2>6. QED
    BY <2>1, <2>3, <2>5 DEF StreamRight
<1>4. CASE OnMessage
  <2>1. /\ FrameReady(buffer) /\ buffer' = AfterFrame(buffer) /\ UNCHANGED <<handed, stream>>
    BY <1>4 DEF OnMessage
  <2>2. PICK m \in Shows(BodyIn(buffer)) : shown' = Append(shown, m)
    BY <1>4 DEF OnMessage
  <2> DEFINE k == Len(shown) + 1
  <2>3. /\ k \in 1..Len(handed) /\ BodyIn(buffer) = BodyOf(handed[k])
        /\ AfterFrame(buffer) \in Seq(Byte) /\ AfterFrame(buffer) \o stream = r[Len(shown) + 2]
    BY <1>0, <2>1, NextIsHanded
  <2>4. handed[k] \in Incoming
    BY <2>3 DEF StreamRight
  <2>5. m = handed[k]
    <3> HIDE DEF k
    <3>1. Shows(BodyOf(handed[k])) = {handed[k]}
      BY <2>4, BodyFacts
    <3>2. QED
      BY <2>2, <2>3, <3>1
  <2>6. /\ shown' \in Seq(Incoming) /\ Len(shown') = k
        /\ \A i \in 1..k : shown'[i] = handed[i]
    BY <2>2, <2>4, <2>5 DEF StreamRight
  <2>7. Len(shown) \in Nat /\ Len(handed) \in Nat
    BY DEF StreamRight
  <2>q. PICK q : q = [i \in k + 1 .. Len(handed) + 1 |-> r[i]]
    OBVIOUS
  <2>8. Remains(q)'
    <3>1. q \in [k + 1 .. Len(handed) + 1 -> Seq(Byte)]
      <4>1. \A i \in k + 1 .. Len(handed) + 1 : i \in Len(shown) + 1 .. Len(handed) + 1
        BY <2>7
      <4>2. \A i \in k + 1 .. Len(handed) + 1 : r[i] \in Seq(Byte)
        BY <1>0, <4>1 DEF Remains
      <4> HIDE DEF k
      <4>3. QED
        BY <2>q, <4>2
    <3>2. q[k + 1] = buffer' \o stream'
      BY <2>q, <2>1, <2>3, <2>7
    <3>3. q[Len(handed) + 1] = <<>>
      BY <2>q, <1>0, <2>3, <2>7 DEF Remains
    <3>4. ASSUME NEW i \in k + 1 .. Len(handed) PROVE q[i] = FrameOf(handed[i]) \o q[i + 1]
      <4>1. /\ i \in Len(shown) + 1 .. Len(handed)
            /\ i \in k + 1 .. Len(handed) + 1 /\ i + 1 \in k + 1 .. Len(handed) + 1
        BY <2>7
      <4>2. r[i] = FrameOf(handed[i]) \o r[i + 1]
        BY <1>0, <4>1 DEF Remains
      <4> HIDE DEF k
      <4>3. q[i] = r[i] /\ q[i + 1] = r[i + 1]
        BY <2>q, <4>1
      <4>4. QED
        BY <4>2, <4>3
    <3>5. Len(shown') + 1 = k + 1 /\ handed' = handed
      BY <2>1, <2>6
    <3> HIDE DEF k
    <3>6. QED
      BY <3>1, <3>2, <3>3, <3>4, <3>5 DEF Remains
  <2>9. handed' = handed /\ buffer' \in Seq(Byte) /\ stream' = stream /\ Len(shown') <= Len(handed)
    BY <2>1, <2>3, <2>6
  <2> HIDE DEF k
  <2>10. QED
    BY <2>6, <2>8, <2>9 DEF StreamRight
<1>5. ASSUME NEW m \in Incoming, HandOver(m) PROVE StreamRight'
  <2> DEFINE F == FrameOf(m)
             h == Len(handed)
             k == Len(shown) + 1
  <2>1. /\ stream' = stream \o F /\ handed' = Append(handed, m)
        /\ UNCHANGED <<shown, buffer>>
    BY <1>5 DEF HandOver
  <2>2. F \in Seq(Byte)
    BY FrameOfFacts
  <2>3. /\ handed' \in Seq(Incoming) /\ Len(handed') = h + 1 /\ h \in Nat /\ k \in Nat
        /\ handed'[h + 1] = m /\ \A i \in 1..h : handed'[i] = handed[i]
        /\ k <= h + 1 /\ k >= 1
    BY <2>1 DEF StreamRight
  <2>4. buffer \in Seq(Byte) /\ stream \in Seq(Byte) /\ shown \in Seq(Incoming)
    BY DEF StreamRight
  <2> HIDE DEF F
  <2>q. PICK q : q = [i \in k .. h + 2 |-> IF i = h + 2 THEN <<>> ELSE r[i] \o F]
    OBVIOUS
  <2>5. r \in [k .. h + 1 -> Seq(Byte)]
    BY <1>0 DEF Remains
  <2>6. \A i \in k .. h + 1 : q[i] = r[i] \o F /\ q[i] \in Seq(Byte)
    BY <2>q, <2>2, <2>3, <2>5
  <2>7. q[h + 2] = <<>>
    BY <2>q, <2>3
  <2>8. q \in [k .. h + 2 -> Seq(Byte)]
    <3>1. ASSUME NEW i \in k .. h + 2 PROVE q[i] \in Seq(Byte)
      <4>1. i = h + 2 \/ i \in k .. h + 1
        BY <2>3
      <4>2. <<>> \in Seq(Byte)
        OBVIOUS
      <4>3. QED
        BY <2>6, <2>7, <4>1, <4>2
    <3>2. q = [i \in k .. h + 2 |-> q[i]]
      BY <2>q
    <3>3. QED
      BY <3>1, <3>2
  <2>9. q[k] = buffer' \o stream'
    <3>1. r[k] = buffer \o stream /\ k \in k .. h + 1
      BY <1>0, <2>3 DEF Remains
    <3>2. (buffer \o stream) \o F = buffer \o (stream \o F)
      BY <2>2, <2>4
    <3>3. QED
      BY <2>1, <2>6, <3>1, <3>2
  <2>10. ASSUME NEW i \in k .. h + 1 PROVE q[i] = FrameOf(handed'[i]) \o q[i + 1]
    <3>1. CASE i = h + 1
      <4>1. r[h + 1] = <<>>
        BY <1>0 DEF Remains
      <4>2. q[i] = <<>> \o F
        BY <2>6, <3>1, <4>1
      <4>3. i + 1 = h + 2 /\ handed'[i] = m
        BY <2>3, <3>1
      <4>4. <<>> \o F = F \o <<>>
        BY <2>2
      <4>5. QED
        BY <2>7, <4>2, <4>3, <4>4 DEF F
    <3>2. CASE i # h + 1
      <4>1. i \in k .. h /\ i + 1 \in k .. h + 1 /\ i \in 1..h
        BY <2>3, <3>2
      <4>2. r[i] = FrameOf(handed[i]) \o r[i + 1]
        BY <1>0, <4>1 DEF Remains
      <4>3. handed[i] \in Incoming /\ handed'[i] = handed[i]
        BY <2>3, <4>1 DEF StreamRight
      <4> DEFINE G == FrameOf(handed[i])
                 s == r[i + 1]
      <4>4. G \in Seq(Byte)
        BY <4>3, FrameOfFacts
      <4>5. s \in Seq(Byte)
        BY <2>5, <4>1
      <4> HIDE DEF G, s
      <4>6. (G \o s) \o F = G \o (s \o F)
        BY <2>2, <4>4, <4>5
      <4>7. q[i] = (G \o s) \o F /\ q[i + 1] = s \o F
        BY <2>6, <4>1, <4>2 DEF G, s
      <4>8. QED
        BY <4>3, <4>6, <4>7 DEF G
    <3>3. QED
      BY <3>1, <3>2
  <2>11. Remains(q)'
    <3>1. Len(shown') + 1 = k /\ Len(handed') = h + 1 /\ Len(handed') + 1 = h + 2
      BY <2>1, <2>3
    <3> HIDE DEF k, h
    <3>2. /\ q \in [Len(shown') + 1 .. Len(handed') + 1 -> Seq(Byte)]
          /\ q[Len(shown') + 1] = buffer' \o stream'
          /\ q[Len(handed') + 1] = <<>>
      BY <2>7, <2>8, <2>9, <3>1
    <3>3. \A i \in Len(shown') + 1 .. Len(handed') : q[i] = FrameOf(handed'[i]) \o q[i + 1]
      BY <2>10, <3>1
    <3>4. QED
      BY <3>2, <3>3 DEF Remains
  <2>12. stream' \in Seq(Byte) /\ buffer' = buffer /\ shown' = shown
    BY <2>1, <2>2, <2>4
  <2>13. Len(shown') <= Len(handed') /\ \A i \in 1..Len(shown') : shown'[i] = handed'[i]
    <3>1. Len(shown) <= h /\ Len(shown) \in Nat /\ \A i \in 1..Len(shown) : shown[i] = handed[i]
      BY DEF StreamRight
    <3> HIDE DEF h
    <3>2. QED
      BY <2>1, <2>3, <3>1
  <2>14. QED
    BY <2>3, <2>4, <2>11, <2>12, <2>13 DEF StreamRight
<1>6. ASSUME NEW to, NEW text, SendMessage(to, text) PROVE StreamRight'
  BY <1>1, <1>6 DEF SendMessage
<1>7. CASE Connect \/ OnConnection \/ Flush \/ Break
  BY <1>1, <1>7 DEF Connect, OnConnection, Flush, Break
<1>8. ASSUME NEW m, StoreRow(m) PROVE StreamRight'
  BY <1>1, <1>8 DEF StoreRow
<1>9. CASE UNCHANGED <<linkVars, queued, used>>
  BY <1>1, <1>9
<1>10. QED
  BY <1>2, <1>3, <1>4, <1>5, <1>6, <1>7, <1>8, <1>9, LinkSteps DEF LinkStep

(* It is so at first. *)
LEMMA StreamInit == Init => StreamRight
<1> SUFFICES ASSUME Init PROVE StreamRight
  OBVIOUS
<1>1. handed = <<>> /\ shown = <<>> /\ buffer = <<>> /\ stream = <<>>
  BY DEF Init
<1>2. Remains([i \in 1..1 |-> <<>>])
  BY <1>1 DEF Remains
<1>3. QED
  BY <1>1, <1>2 DEF StreamRight

(* What is printed of a connection is what was handed over on it. *)
THEOREM ShownIsHanded == Spec => []ShownWasHanded
<1>2. StreamRight => ShownWasHanded
  <2> SUFFICES ASSUME StreamRight PROVE ShownWasHanded
    OBVIOUS
  <2> DEFINE n == Len(shown)
  <2>1. n \in Nat /\ n <= Len(handed) /\ \A i \in 1..n : shown[i] = handed[i]
    BY DEF StreamRight
  <2>2. shown \in Seq(Incoming) /\ handed \in Seq(Incoming)
    BY DEF StreamRight
  <2>3. SubSeq(shown, 1, n) = SubSeq(handed, 1, n)
    BY <2>1, <2>2
  <2>4. QED
    BY <2>1, <2>3 DEF ShownWasHanded, IsPrefix
<1>3. QED
  BY <1>2, StreamInit, StreamKept, PTL DEF Spec

-----------------------------------------------------------------------------
(* Remote calls *)

(* A run of the method with a first piece of the arguments. *)
RunsWith(service, method, args, k, ok, s) ==
  s \in Answered([service |-> service, method |-> method, args |-> SubSeq(args, 1, k)], db, ok)

(* What comes of a call: nothing, or a run of the method whose response arrives
   whole, or cut, or not at all.  Without a fault everything is whole. *)
CallLeft(e, service, method, args) ==
  \/ e.end.db = db /\ e.end.response = <<>> /\ e.faults = 1
  \/ /\ e.faults \in {0, 1}
     /\ \E k \in 0..Len(args), ok \in [1..2 -> BOOLEAN] : \E s :
          /\ RunsWith(service, method, args, k, ok, s)
          /\ e.end.db = s.db
          /\ e.end.response \in {s.response, <<>>} \cup Prefixes(s.response)
          /\ e.faults = 0 => /\ k = Len(args) /\ ok = AllOk
                             /\ e.end.end = "ok" /\ e.end.response = s.response

(* The ends of a call are those. *)
LEMMA CallEnds ==
  ASSUME NEW service, NEW method, NEW A, NEW args \in Seq(A),
         NEW e \in Ends(RequestFrame(service, method, args))
  PROVE  CallLeft(e, service, method, args)
<1> DEFINE header == Serialize("RpcHeader", New("RpcHeader",
                       [service_name |-> service, method_name |-> method,
                        args_size |-> Len(args)]))
           frame == RequestFrame(service, method, args)
           Req(k) == [service |-> service, method |-> method, args |-> SubSeq(args, 1, k)]
<1>1. frame = [header_size |-> Len(header), rest |-> header \o args]
  BY DEF RequestFrame, Framed
<1>2. /\ \E I : header \in Seq(I)
      /\ \A k \in 0..Len(args) :
            Request([header_size |-> Len(header), rest |-> header \o SubSeq(args, 1, k)]) = Req(k)
  <2>1. \E I : header \in Seq(I)
    <3>1. Len(args) \in 0..Len(args)
      OBVIOUS
    <3>2. QED
      BY <3>1, RequestFound
  <2>2. ASSUME NEW k \in 0..Len(args)
        PROVE  Request([header_size |-> Len(header), rest |-> header \o SubSeq(args, 1, k)]) = Req(k)
    BY RequestFound
  <2>3. QED
    BY <2>1, <2>2
<1>3. PICK I : header \in Seq(I)
  BY <1>2
<1> HIDE DEF header, frame, Req
<1>4. Len(args) \in Nat /\ Len(header) \in Nat /\ args = SubSeq(args, 1, Len(args))
  BY <1>3
<1>5. Request(frame) = Req(Len(args))
  <2>1. Len(args) \in 0..Len(args)
    BY <1>4
  <2>2. frame = [header_size |-> Len(header), rest |-> header \o SubSeq(args, 1, Len(args))]
    BY <1>1, <1>4
  <2>3. QED
    BY <1>2, <2>1, <2>2
<1>6. ASSUME NEW n \in frame.header_size .. Len(frame.rest)
      PROVE  \E k \in 0..Len(args) :
                Request([frame EXCEPT !.rest = SubSeq(@, 1, n)]) = Req(k)
  <2> DEFINE B == A \cup I
             k == n - Len(header)
  <2>1. header \in Seq(B) /\ args \in Seq(B)
    BY <1>3
  <2> HIDE DEF B
  <2>2. frame.header_size = Len(header) /\ frame.rest = header \o args
    BY <1>1
  <2>3. Len(frame.rest) = Len(header) + Len(args)
    BY <2>1, <2>2
  <2>4. k \in 0..Len(args) /\ n = Len(header) + k
    BY <1>4, <2>2, <2>3
  <2> HIDE DEF k
  <2>5. SubSeq(header \o args, 1, n) = header \o SubSeq(args, 1, k)
    BY <2>1, <2>4
  <2>6. [frame EXCEPT !.rest = SubSeq(@, 1, n)]
          = [header_size |-> Len(header), rest |-> header \o SubSeq(args, 1, k)]
    <3> DEFINE rest == header \o args
               cut == header \o SubSeq(args, 1, k)
    <3>1. frame = [header_size |-> Len(header), rest |-> rest] /\ SubSeq(rest, 1, n) = cut
      BY <1>1, <2>5
    <3> HIDE DEF rest, cut
    <3>2. [frame EXCEPT !.rest = SubSeq(@, 1, n)]
            = [header_size |-> Len(header), rest |-> SubSeq(rest, 1, n)]
      <4> DEFINE h == Len(header)
                 t == SubSeq(rest, 1, n)
      <4>1. frame = [header_size |-> h, rest |-> rest]
        BY <3>1
      <4>2. [frame EXCEPT !.rest = SubSeq(@, 1, n)] = [frame EXCEPT !.rest = t]
        BY <4>1
      <4> HIDE DEF h, t
      <4>3. [frame EXCEPT !.rest = t] = [header_size |-> h, rest |-> t]
        BY <4>1
      <4>4. QED
        BY <4>2, <4>3 DEF h, t
    <3>3. QED
      BY <3>1, <3>2 DEF cut
  <2>7. QED
    BY <1>2, <2>4, <2>6
<1>7. AllOk \in [1..2 -> BOOLEAN]
  BY DEF AllOk
<1>8. CASE e \in {[end |-> x, faults |-> 0] : x \in GoesWell(frame)}
  <2>1. PICK s \in Served(frame, db, AllOk) : e = [end |-> End(s.db, "ok", s.response), faults |-> 0]
    BY <1>8 DEF GoesWell
  <2>2. RunsWith(service, method, args, Len(args), AllOk, s)
    BY <1>5, <2>1 DEF Served, RunsWith, Req
  <2>3. /\ e.end.db = s.db /\ e.end.end = "ok" /\ e.end.response = s.response /\ e.faults = 0
    BY <2>1 DEF End
  <2>4. Len(args) \in 0..Len(args)
    BY <1>4
  <2>5. QED
    BY <1>7, <2>2, <2>3, <2>4 DEF CallLeft
<1>9. CASE e \in {[end |-> x, faults |-> 1] : x \in GoesWrong(frame)}
  <2>1. PICK x \in GoesWrong(frame) : e = [end |-> x, faults |-> 1]
    BY <1>9
  <2>2. CASE x \in {End(db, "failed", <<>>), End(db, "hung", <<>>), End(db, "ok", <<>>)}
    BY <2>1, <2>2 DEF CallLeft, End
  <2>3. ASSUME NEW s \in Partly(frame),
               x \in {End(s.db, "failed", <<>>)} \cup {End(s.db, "ok", p) : p \in Prefixes(s.response)}
        PROVE  CallLeft(e, service, method, args)
    <3>1. PICK piece \in Pieces(frame), ok \in [1..2 -> BOOLEAN] : s \in Served(piece, db, ok)
      BY DEF Partly
    <3>2. PICK n \in frame.header_size .. Len(frame.rest) : piece = [frame EXCEPT !.rest = SubSeq(@, 1, n)]
      BY DEF Pieces
    <3>3. PICK k \in 0..Len(args) : Request(piece) = Req(k)
      BY <1>6, <3>2
    <3>4. RunsWith(service, method, args, k, ok, s)
      BY <3>1, <3>3 DEF Served, RunsWith, Req
    <3>5. x.db = s.db /\ x.response \in {<<>>} \cup Prefixes(s.response)
      BY <2>3 DEF End
    <3>6. e.end.db = s.db /\ e.end.response \in {s.response, <<>>} \cup Prefixes(s.response) /\ e.faults = 1
      BY <2>1, <3>5
    <3>7. QED
      BY <3>4, <3>6 DEF CallLeft
  <2>4. QED
    BY <2>1, <2>2, <2>3 DEF GoesWrong
<1>10. QED
  BY <1>8, <1>9 DEF Ends, frame

(* A run is one of the service's method. *)
LEMMA MethodRun ==
  ASSUME NEW service, NEW method, NEW args, NEW k, NEW ok, NEW s,
         RunsWith(service, method, args, k, ok, s), NEW types,
         ServiceMap[service][method] = types
  PROVE  \E done \in CallMethod(method, db, Parse(types[1], SubSeq(args, 1, k)), ok) :
            s = [db |-> done.db, response |-> Serialize(types[2], done.response)]
BY DEF RunsWith, Answered, Runs

(* The methods the client calls, by their names. *)
LEMMA MethodTypes ==
  /\ ServiceMap["UserServiceRpc"]["Login"] = <<"LoginRequest", "LoginResponse">>
  /\ ServiceMap["UserServiceRpc"]["Getoffline"] = <<"offlineMsgRequest", "offlineMsgResponse">>
  /\ ServiceMap["FiendServiceRpc"]["GetFriendsList"]
       = <<"GetFriendsListRequest", "GetFriendsListResponse">>
  /\ ServiceMap["RpcGroupChat"]["AddGroup"] = <<"AddGroupRequest", "AddGroupResponse">>
  /\ ServiceMap["RpcGroupChat"]["SendMsg"] = <<"SendMessageRequest", "SendMessageResponse">>
  /\ ServiceMap["RpcGroupChat"]["GetGroup"] = <<"getGroupRequest", "getGroupResponse">>
  /\ ServiceMap["RpcGroupChat"]["createGroup"] = <<"createGroupRequest", "createGroupResponse">>
<1>1. ServiceMap["UserServiceRpc"] = UserServiceRpc /\ ServiceMap["FiendServiceRpc"] = FiendServiceRpc
      /\ ServiceMap["RpcGroupChat"] = RpcGroupChat
  BY DEF ServiceMap
<1>2. /\ UserServiceRpc["Login"] = <<"LoginRequest", "LoginResponse">>
      /\ UserServiceRpc["Getoffline"] = <<"offlineMsgRequest", "offlineMsgResponse">>
  BY DEF UserServiceRpc
<1>3. FiendServiceRpc["GetFriendsList"] = <<"GetFriendsListRequest", "GetFriendsListResponse">>
  BY DEF FiendServiceRpc
<1>4. /\ RpcGroupChat["AddGroup"] = <<"AddGroupRequest", "AddGroupResponse">>
      /\ RpcGroupChat["SendMsg"] = <<"SendMessageRequest", "SendMessageResponse">>
      /\ RpcGroupChat["GetGroup"] = <<"getGroupRequest", "getGroupResponse">>
      /\ RpcGroupChat["createGroup"] = <<"createGroupRequest", "createGroupResponse">>
  BY DEF RpcGroupChat
<1>5. QED
  BY <1>1, <1>2, <1>3, <1>4

-----------------------------------------------------------------------------
(* What each method does, whatever is lost of its arguments *)

(* The methods that only read. *)
LEMMA ReadsOnly ==
  ASSUME NEW e, NEW service, NEW method, NEW args, CallLeft(e, service, method, args),
         <<service, method>> \in {<<"UserServiceRpc", "Login">>, <<"UserServiceRpc", "Getoffline">>,
                                  <<"FiendServiceRpc", "GetFriendsList">>,
                                  <<"RpcGroupChat", "GetGroup">>, <<"RpcGroupChat", "SendMsg">>}
  PROVE  e.end.db = db
<1>1. ASSUME NEW request, NEW ok, NEW done \in CallMethod(method, db, request, ok)
      PROVE  done.db = db
  <2>1. \/ done \in UserLogin(db, request, ok) \/ done \in Getoffline(db, request, ok)
        \/ done \in GetFriendsList(db, request, ok) \/ done \in GetGroup(db, request, ok)
        \/ done \in SendMsg(db, request, ok)
    BY <1>1 DEF CallMethod
  <2>2. \A response : Done(db, response).db = db
    BY DEF Done
  <2>3. ASSUME done \in UserLogin(db, request, ok) \/ done \in SendMsg(db, request, ok)
        PROVE  done.db = db
    BY <2>2, <2>3 DEF UserLogin, SendMsg
  <2>4. ASSUME done \in Getoffline(db, request, ok) PROVE done.db = db
    BY <2>2, <2>4 DEF Getoffline
  <2>5. ASSUME done \in GetFriendsList(db, request, ok) PROVE done.db = db
    BY <2>2, <2>5 DEF GetFriendsList
  <2>6. ASSUME done \in GetGroup(db, request, ok) PROVE done.db = db
    BY <2>2, <2>6 DEF GetGroup
  <2>7. QED
    BY <2>1, <2>3, <2>4, <2>5, <2>6
<1>2. ASSUME NEW k, NEW ok, NEW s, RunsWith(service, method, args, k, ok, s)
      PROVE  s.db = db
  <2>1. PICK types : types = ServiceMap[service][method]
    OBVIOUS
  <2>2. PICK done \in CallMethod(method, db, Parse(types[1], SubSeq(args, 1, k)), ok) :
               s = [db |-> done.db, response |-> Serialize(types[2], done.response)]
    BY <1>2, <2>1, MethodRun
  <2>3. QED
    BY <1>1, <2>2
<1>3. QED
  BY <1>2 DEF CallLeft

(* The tables: the users and friends are those of the beginning, groups are
   numbered in order, and what is stored of a message is cut. *)
Users == {[userid |-> u, nickname |-> "nick", online |-> "1"] : u \in {Me} \cup Others}
Infos == [groupid : Nat, adminid : {0, Me} \cup Others, createTime : {0, Now}, usersnum : {1}]
Members == [groupid : Nat, userid : {0, Me} \cup Others]
Stored == {[userid |-> Me, msg |-> CString(FrameOf(m))] : m \in Incoming}

RightDb(d) ==
  /\ d = [user |-> Users, friendship |-> Friendship, groupinfo |-> d.groupinfo,
          groupuser |-> d.groupuser, offline_message |-> d.offline_message]
  /\ d.groupinfo \in Seq(Infos) /\ Len(d.groupinfo) <= MaxGroups
  /\ \A j \in 1..Len(d.groupinfo) : d.groupinfo[j].groupid = j
  /\ d.groupuser \in Seq(Members)
  /\ d.offline_message \in Seq(Stored)
DbRight == RightDb(db)

(* The tables only grow. *)
Grows(old, new) ==
  /\ new.user = old.user /\ new.friendship = old.friendship
  /\ GroupIds(old) \subseteq GroupIds(new)
  /\ \A j \in GroupIds(old) : new.groupinfo[j] = old.groupinfo[j]
  /\ \A u : MemberOf(old, u) \subseteq MemberOf(new, u)

Shaped(d, X) ==
  /\ d = [user |-> d.user, friendship |-> d.friendship, groupinfo |-> d.groupinfo,
          groupuser |-> d.groupuser, offline_message |-> d.offline_message]
  /\ d.groupuser \in Seq(X)

(* addGroup adds at most a row to groupuser. *)
LEMMA AddShaped ==
  ASSUME NEW d, NEW X, Shaped(d, X), NEW u, NEW g, NEW ok
  PROVE  /\ Add(d, u, g, ok).groupuser \in Seq(X \cup {[groupid |-> g, userid |-> u]})
         /\ Add(d, u, g, ok) = [user |-> d.user, friendship |-> d.friendship,
                                groupinfo |-> d.groupinfo,
                                groupuser |-> Add(d, u, g, ok).groupuser,
                                offline_message |-> d.offline_message]
         /\ \A v : MemberOf(d, v) \subseteq MemberOf(Add(d, u, g, ok), v)
         /\ ok => g \in MemberOf(Add(d, u, g, ok), u)
<1> DEFINE user == d.user
           friendship == d.friendship
           info == d.groupinfo
           members == d.groupuser
           offline == d.offline_message
<1>1. /\ members \in Seq(X)
      /\ d = [user |-> user, friendship |-> friendship, groupinfo |-> info,
              groupuser |-> members, offline_message |-> offline]
  BY DEF Shaped
<1> HIDE DEF user, friendship, info, members, offline
<1> DEFINE r == [groupid |-> g, userid |-> u]
           Y == X \cup {r}
           more == Append(members, r)
<1>2. members \in Seq(Y) /\ r \in Y
  BY <1>1
<1>3. CASE ~ok
  <2>1. Add(d, u, g, ok) = d
    BY <1>3 DEF Add
  <2>2. d.groupuser = members
    BY DEF members
  <2>3. QED
    BY <1>1, <1>2, <1>3, <2>1, <2>2 DEF r, Y
<1>4. CASE ok
  <2>1. Add(d, u, g, ok) = [user |-> user, friendship |-> friendship, groupinfo |-> info,
                            groupuser |-> more, offline_message |-> offline]
    <3>1. Add(d, u, g, ok) = [d EXCEPT !.groupuser = more]
      BY <1>4 DEF Add, members
    <3> HIDE DEF more
    <3>2. QED
      BY <1>1, <3>1
  <2>2. more \in Seq(Y) /\ Len(more) = Len(members) + 1 /\ more[Len(members) + 1] = r
        /\ Len(members) \in Nat /\ DOMAIN members = 1..Len(members) /\ DOMAIN more = 1..Len(more)
        /\ \A i \in 1..Len(members) : more[i] = members[i] /\ i \in 1..Len(more)
    <3> HIDE DEF r, Y
    <3>1. QED
      BY <1>2
  <2> HIDE DEF more, Y
  <2>3. d.groupuser = members /\ Add(d, u, g, ok).groupuser = more
    BY <2>1 DEF members
  <2>4. ASSUME NEW v, NEW h \in MemberOf(d, v) PROVE h \in MemberOf(Add(d, u, g, ok), v)
    <3>1. PICK i \in 1..Len(members) : members[i].userid = v /\ h = members[i].groupid
      BY <2>2, <2>3 DEF MemberOf
    <3>2. QED
      BY <2>2, <2>3, <3>1 DEF MemberOf
  <2>5. g \in MemberOf(Add(d, u, g, ok), u)
    <3>1. Len(members) + 1 \in DOMAIN more
      BY <2>2
    <3>2. QED
      BY <2>2, <2>3, <3>1 DEF MemberOf
  <2>6. more \in Seq(X \cup {[groupid |-> g, userid |-> u]})
    BY <2>2 DEF Y
  <2>7. Add(d, u, g, ok) = [user |-> user, friendship |-> friendship, groupinfo |-> info,
                            groupuser |-> Add(d, u, g, ok).groupuser, offline_message |-> offline]
    BY <2>1, <2>3
  <2>8. QED
    BY <2>3, <2>4, <2>5, <2>6, <2>7 DEF user, friendship, info, offline
<1>5. QED
  BY <1>3, <1>4

(* What is left of a request's fields. *)
LEMMA RequestRead ==
  ASSUME NEW name, Flat(name), NEW v, "unknown" \notin DOMAIN v,
         NEW f \in DOMAIN Fields[name], f \in DOMAIN v,
         NEW k \in 0..Len(Serialize(name, New(name, v)))
  PROVE  /\ Parse(name, SubSeq(Serialize(name, New(name, v)), 1, k))[f]
              \in {v[f], Zero(Fields[name][f])}
         /\ k = Len(Serialize(name, New(name, v))) =>
              Parse(name, SubSeq(Serialize(name, New(name, v)), 1, k))[f] = v[f]
<1> DEFINE m == New(name, v)
           w == Serialize(name, m)
<1>1. Whole(name, m) /\ m[f] = v[f]
  BY NewFacts DEF Flat
<1> HIDE DEF m
<1>2. Parse(name, SubSeq(w, 1, k))[f] \in {m[f], Zero(Fields[name][f])}
  BY <1>1, FlatPiece DEF Whole, m
<1>3. w \in Seq(ItemsIn(name, m)) /\ Parse(name, w) = m
  BY <1>1, FlatSerialize, FlatRoundTrip DEF Whole
<1> HIDE DEF w
<1>4. SubSeq(w, 1, Len(w)) = w
  BY <1>3
<1>5. QED
  BY <1>1, <1>2, <1>3, <1>4 DEF w, m

(* The wire of a request is a sequence. *)
LEMMA RequestWire ==
  ASSUME NEW name, Flat(name), NEW v, "unknown" \notin DOMAIN v
  PROVE  \E A : Serialize(name, New(name, v)) \in Seq(A)
<1>1. Whole(name, New(name, v))
  BY NewFacts DEF Flat
<1>2. QED
  BY <1>1, FlatSerialize DEF Whole

(* AddGroup *)
Joins(d, new) ==
  \/ new = d
  \/ \E u \in {Me, 0}, g \in Nat : new = Add(d, u, g, TRUE)

(* What a call of AddGroup may leave, whatever was cut of it or failed. *)
LEMMA AddGroupLeft ==
  ASSUME NEW g \in Nat, NEW e,
         CallLeft(e, "RpcGroupChat", "AddGroup",
                  Serialize("AddGroupRequest", New("AddGroupRequest", [userid |-> Me, groupid |-> g])))
  PROVE  Joins(db, e.end.db)
<1> DEFINE v == [userid |-> Me, groupid |-> g]
           args == Serialize("AddGroupRequest", New("AddGroupRequest", v))
<1>1. /\ Flat("AddGroupRequest") /\ DOMAIN Fields["AddGroupRequest"] = {"userid", "groupid"}
      /\ Fields["AddGroupRequest"]["userid"] = Number
      /\ Fields["AddGroupRequest"]["groupid"] = Number
  BY AddGroupRequestTable
<1>2. DOMAIN v = {"userid", "groupid"} /\ v["userid"] = Me /\ v["groupid"] = g
      /\ "unknown" \notin DOMAIN v
  OBVIOUS
<1>3. ASSUME NEW k \in 0..Len(args), NEW ok, NEW s,
             RunsWith("RpcGroupChat", "AddGroup", args, k, ok, s)
      PROVE  Joins(db, s.db)
  <2> DEFINE r == Parse("AddGroupRequest", SubSeq(args, 1, k))
  <2> HIDE DEF v
  <2>1. r["userid"] \in {v["userid"], 0} /\ r["groupid"] \in {v["groupid"], 0}
    <3>1. r["userid"] \in {v["userid"], Zero(Fields["AddGroupRequest"]["userid"])}
      BY <1>1, <1>2, RequestRead
    <3>2. r["groupid"] \in {v["groupid"], Zero(Fields["AddGroupRequest"]["groupid"])}
      BY <1>1, <1>2, RequestRead
    <3>3. QED
      BY <1>1, <3>1, <3>2, Kinds
  <2> HIDE DEF args, r
  <2>2. PICK done \in AddGroup(db, r, ok) : s.db = done.db
    <3>1. \E done \in CallMethod("AddGroup", db, r, ok) :
             s = [db |-> done.db, response |-> Serialize("AddGroupResponse", done.response)]
      BY <1>3, MethodRun, MethodTypes DEF r
    <3>2. CallMethod("AddGroup", db, r, ok) = AddGroup(db, r, ok)
      BY DEF CallMethod
    <3>3. QED
      BY <3>1, <3>2
  <2>3. done.db = Add(db, r.userid, r.groupid, ok[1])
    <3>1. \A x, response : Done(x, response).db = x
      BY DEF Done
    <3>2. QED
      BY <2>2, <3>1 DEF AddGroup
  <2>4. CASE ok[1]
    <3>1. done.db = Add(db, r.userid, r.groupid, TRUE)
      BY <2>3, <2>4 DEF Add
    <3>2. QED
      BY <1>2, <2>1, <2>2, <3>1 DEF Joins
  <2>5. CASE ~ok[1]
    BY <2>2, <2>3, <2>5 DEF Joins, Add
  <2>6. QED
    BY <2>4, <2>5
<1> HIDE DEF v, args
<1>4. CallLeft(e, "RpcGroupChat", "AddGroup", args)
  BY DEF args, v
<1>5. CASE e.end.db = db
  BY <1>5 DEF Joins
<1>6. QED
  BY <1>3, <1>4, <1>5 DEF CallLeft

(* createGroup *)
Creates(d, u, full, new) ==
  \E a \in {u, 0}, t \in {Now, 0}, ok \in [1..2 -> BOOLEAN] :
     LET next == Len(d.groupinfo) + 1
         info == [groupid |-> next, adminid |-> a, createTime |-> t, usersnum |-> 1]
     IN /\ full => a = u /\ ok = AllOk
        /\ \E id \in IF ok[1] THEN {next} ELSE {0} \cup GroupIds(d) :
              new = Add(IF ok[1] THEN [d EXCEPT !.groupinfo = Append(@, info)] ELSE d, a, id, ok[2])

(* What a run of createGroup leaves. *)
LEMMA CreateRun ==
  ASSUME NEW u, NEW t, t \in {Now, 0}, NEW a \in {u, 0}, NEW r, r["userid"] = a, r["createTime"] = t,
         NEW ok \in [1..2 -> BOOLEAN], NEW done \in createGroup(db, r, ok), NEW full,
         full => a = u /\ ok = AllOk
  PROVE  Creates(db, u, full, done.db)
<1> DEFINE next == Len(db.groupinfo) + 1
           info == [groupid |-> next, adminid |-> r["userid"], createTime |-> r["createTime"], usersnum |-> 1]
           inserted == IF ok[1] THEN [db EXCEPT !.groupinfo = Append(@, info)] ELSE db
<1>1. PICK id \in IF ok[1] THEN {next} ELSE {0} \cup GroupIds(db) :
        done = Done(Add(inserted, r["userid"], id, ok[2]), New("createGroupResponse", [groupid |-> id]))
  BY DEF createGroup
<1>2. done.db = Add(inserted, r["userid"], id, ok[2])
  BY <1>1 DEF Done
<1>3. QED
  BY <1>1, <1>2 DEF Creates

(* What a call of createGroup may leave. *)
LEMMA CreateGroupLeft ==
  ASSUME NEW u, NEW e,
         CallLeft(e, "RpcGroupChat", "createGroup",
                  Serialize("createGroupRequest",
                            New("createGroupRequest", [userid |-> u, createTime |-> Now])))
  PROVE  \/ e.faults = 1 /\ e.end.db = db
         \/ e.faults \in {0, 1} /\ Creates(db, u, e.faults = 0, e.end.db)
<1> DEFINE v == [userid |-> u, createTime |-> Now]
           args == Serialize("createGroupRequest", New("createGroupRequest", v))
<1>1. /\ Flat("createGroupRequest") /\ DOMAIN Fields["createGroupRequest"] = {"userid", "createTime"}
      /\ Fields["createGroupRequest"]["userid"] = Number
      /\ Fields["createGroupRequest"]["createTime"] = Number
  BY createGroupRequestTable
<1>2. /\ DOMAIN v = {"userid", "createTime"} /\ v["userid"] = u /\ v["createTime"] = Now
      /\ "unknown" \notin DOMAIN v
  OBVIOUS
<1>3. ASSUME NEW k \in 0..Len(args), NEW ok \in [1..2 -> BOOLEAN], NEW s,
             RunsWith("RpcGroupChat", "createGroup", args, k, ok, s),
             NEW full, full => k = Len(args) /\ ok = AllOk
      PROVE  Creates(db, u, full, s.db)
  <2> DEFINE r == Parse("createGroupRequest", SubSeq(args, 1, k))
  <2> HIDE DEF v
  <2>1. r["userid"] \in {u, 0} /\ r["createTime"] \in {Now, 0} /\ (k = Len(args) => r["userid"] = u)
    <3>1. /\ r["userid"] \in {v["userid"], Zero(Fields["createGroupRequest"]["userid"])}
          /\ k = Len(args) => r["userid"] = v["userid"]
      BY <1>1, <1>2, RequestRead
    <3>2. r["createTime"] \in {v["createTime"], Zero(Fields["createGroupRequest"]["createTime"])}
      BY <1>1, <1>2, RequestRead
    <3>3. QED
      BY <1>1, <1>2, <3>1, <3>2, Kinds
  <2> HIDE DEF args, r
  <2>2. PICK done \in createGroup(db, r, ok) : s.db = done.db
    <3>1. \E done \in CallMethod("createGroup", db, r, ok) :
             s = [db |-> done.db, response |-> Serialize("createGroupResponse", done.response)]
      BY <1>3, MethodRun, MethodTypes DEF r
    <3>2. CallMethod("createGroup", db, r, ok) = createGroup(db, r, ok)
      BY DEF CallMethod
    <3>3. QED
      BY <3>1, <3>2
  <2>3. QED
    BY <1>3, <2>1, <2>2, CreateRun
<1> HIDE DEF v, args
<1>4. CallLeft(e, "RpcGroupChat", "createGroup", args)
  BY DEF args, v
<1>5. CASE e.faults = 1 /\ e.end.db = db
  BY <1>5
<1>6. ASSUME NEW k \in 0..Len(args), NEW ok \in [1..2 -> BOOLEAN], NEW s,
             RunsWith("RpcGroupChat", "createGroup", args, k, ok, s), e.end.db = s.db,
             e.faults = 0 => k = Len(args) /\ ok = AllOk
      PROVE  Creates(db, u, e.faults = 0, e.end.db)
  <2>1. Creates(db, u, e.faults = 0, s.db)
    BY <1>3, <1>6
  <2>2. QED
    BY <1>6, <2>1
<1>7. QED
  BY <1>4, <1>5, <1>6 DEF CallLeft

(* A call that goes well is one without a fault. *)
LEMMA WellServed ==
  ASSUME NEW service, NEW method, NEW A, NEW args \in Seq(A),
         NEW s \in Served(RequestFrame(service, method, args), db, AllOk)
  PROVE  \E e : e.faults = 0 /\ e.end.db = s.db /\ CallLeft(e, service, method, args)
<1> DEFINE frame == RequestFrame(service, method, args)
           x == End(s.db, "ok", s.response)
           e == [end |-> x, faults |-> 0]
<1>1. x \in GoesWell(frame)
  BY DEF GoesWell
<1>2. x.db = s.db
  BY DEF End
<1> HIDE DEF x
<1>3. e \in Ends(frame)
  BY <1>1 DEF Ends
<1>4. e.faults = 0 /\ e.end.db = s.db
  BY <1>2
<1> HIDE DEF e
<1>5. CallLeft(e, service, method, args)
  BY <1>3, CallEnds
<1>6. QED
  BY <1>4, <1>5

-----------------------------------------------------------------------------
(* The list of groups *)

(* A row as it is sent. *)
LEMMA GroupRowFacts ==
  ASSUME NEW x \in Infos
  PROVE  /\ Whole("groupInfo", GroupRow(x)) /\ CopyFrom("groupInfo", GroupRow(x)) = GroupRow(x)
         /\ GroupRow(x).groupid = x.groupid
<1> DEFINE y == [x EXCEPT !.createTime = Year(@)]
           g == GroupRow(x)
<1>1. /\ Flat("groupInfo") /\ InOrder("groupInfo")
      /\ DOMAIN Fields["groupInfo"] = {"groupid", "adminid", "createTime", "usersnum"}
      /\ \A f \in DOMAIN Fields["groupInfo"] : Fields["groupInfo"][f] = Number
  BY groupInfoTable DEF Flat
<1>2. "unknown" \notin DOMAIN y /\ "groupid" \in DOMAIN y /\ y["groupid"] = x.groupid
  BY DEF Infos
<1> HIDE DEF y
<1>3. g = New("groupInfo", y)
  BY DEF GroupRow, y
<1>4. Whole("groupInfo", g) /\ g["groupid"] = x.groupid
  BY <1>1, <1>2, <1>3, NewFacts
<1> HIDE DEF g
<1>5. CopyFrom("groupInfo", g) = g
  <2> DEFINE D == {"unknown"} \cup DOMAIN Fields["groupInfo"]
             c == Clear("groupInfo")
  <2>1. /\ c["unknown"] = <<>> /\ \A f \in DOMAIN Fields["groupInfo"] : c[f] = 0
    BY <1>1, ClearFacts, Kinds
  <2>2. g["unknown"] = <<>> /\ g = [f \in D |-> g[f]]
    BY <1>4 DEF Whole, HasFields
  <2> HIDE DEF c
  <2>3. CopyFrom("groupInfo", g)
          = [f \in D |-> IF f = "unknown" THEN c["unknown"] \o g["unknown"]
                         ELSE Merged(Fields["groupInfo"][f], c[f], g[f])]
    BY DEF CopyFrom, MergeFrom, c
  <2>4. ASSUME NEW f \in DOMAIN Fields["groupInfo"]
        PROVE  Merged(Fields["groupInfo"][f], c[f], g[f]) = g[f]
    BY <1>1, <2>1, Kinds DEF Merged
  <2>5. c["unknown"] \o g["unknown"] = g["unknown"]
    <3>1. <<>> \o <<>> = <<>>
      OBVIOUS
    <3>2. QED
      BY <2>1, <2>2, <3>1
  <2>6. \A f \in D : (IF f = "unknown" THEN c["unknown"] \o g["unknown"]
                     ELSE Merged(Fields["groupInfo"][f], c[f], g[f])) = g[f]
    BY <2>4, <2>5
  <2> HIDE DEF D
  <2>7. QED
    BY <2>2, <2>3, <2>6
<1>6. QED
  BY <1>4, <1>5 DEF g

(* The rows of a user's groups. *)
GroupRows(d, q) == {GroupRow(d.groupinfo[j]) : j \in GroupIds(d) \cap MemberOf(d, q)}

(* Such rows, and, when the statement succeeds, all of them. *)
IsGroupList(v, d, q, all) ==
  /\ v \in Seq(GroupRows(d, q))
  /\ all => \A x \in GroupRows(d, q) : \E i \in DOMAIN v : v[i] = x

(* What GetGroup answers with. *)
LEMMA GetGroupRun ==
  ASSUME DbRight, NEW r, NEW ok, NEW done \in GetGroup(db, r, ok)
  PROVE  \E v : /\ done.response = New("getGroupResponse", [group |-> v])
               /\ IsGroupList(v, db, r["userid"], ok[1])
<1> DEFINE own == GroupIds(db) \cap MemberOf(db, r["userid"])
           mine == SetToSeq(own)
           E == GroupRows(db, r["userid"])
           v == IF ok[1] THEN [i \in DOMAIN mine |->
                                CopyFrom("groupInfo", GroupRow(db.groupinfo[mine[i]]))]
                ELSE <<>>
<1>1. DOMAIN db.groupinfo = 1..Len(db.groupinfo) /\ Len(db.groupinfo) \in Nat
      /\ \A j \in DOMAIN db.groupinfo : db.groupinfo[j] \in Infos
  BY DEF DbRight, RightDb
<1>2. IsFiniteSet(own)
  <2>1. IsFiniteSet(GroupIds(db))
    BY <1>1, FS_Interval DEF GroupIds
  <2>2. QED
    BY <2>1, FS_Subset
<1>3. E = {GroupRow(db.groupinfo[j]) : j \in own} /\ own \subseteq DOMAIN db.groupinfo
  BY DEF GroupRows, GroupIds
<1>4. done = Done(db, New("getGroupResponse", [group |-> v]))
  BY DEF GetGroup
<1>5. done.response = New("getGroupResponse", [group |-> v])
  BY <1>4 DEF Done
<1> HIDE DEF own, E
<1>6. mine \in Seq(own) /\ Range(mine) = own
  BY <1>2, SetToSeqFacts
<1> HIDE DEF mine
<1>7. DOMAIN mine = 1..Len(mine) /\ Len(mine) \in Nat /\ \A i \in DOMAIN mine : mine[i] \in own
  BY <1>6
<1>8. \A i \in DOMAIN mine : /\ CopyFrom("groupInfo", GroupRow(db.groupinfo[mine[i]]))
                                  = GroupRow(db.groupinfo[mine[i]])
                             /\ GroupRow(db.groupinfo[mine[i]]) \in E
  BY <1>1, <1>3, <1>7, GroupRowFacts
<1>9. v = IF ok[1] THEN [i \in 1..Len(mine) |-> GroupRow(db.groupinfo[mine[i]])] ELSE <<>>
  BY <1>7, <1>8
<1> HIDE DEF v
<1>10. v \in Seq(E)
  BY <1>7, <1>8, <1>9
<1>11. ASSUME ok[1], NEW x \in E PROVE \E i \in DOMAIN v : v[i] = x
  <2>1. PICK j \in own : x = GroupRow(db.groupinfo[j])
    BY <1>3, <1>11
  <2>2. PICK i \in DOMAIN mine : mine[i] = j
    BY <1>6 DEF Range
  <2>3. i \in DOMAIN v /\ v[i] = x
    BY <1>7, <1>9, <1>11, <2>1, <2>2
  <2>4. QED
    BY <2>3
<1>12. QED
  BY <1>5, <1>10, <1>11 DEF E, IsGroupList

(* An empty response has no element. *)
LEMMA EmptyResponse ==
  ASSUME NEW name, InOrder(name), NEW f \in DOMAIN Fields[name],
         Fields[name][f].is \in {"messages", "strings"}
  PROVE  Parse(name, <<>>)[f] = <<>>
<1>1. Len(<<>>) \in Nat /\ Len(<<>>) = 0
  OBVIOUS
<1>2. Parse(name, <<>>)[f] \in Seq({})
  BY <1>1, ParseRepeated
<1>3. QED
  BY <1>2

(* The list of groups: rows of the user's groups, or of user 0's when the id is
   lost; all of them without a fault. *)
LEMMA GetGroupLeft ==
  ASSUME DbRight, NEW e,
         CallLeft(e, "RpcGroupChat", "GetGroup",
                  Serialize("getGroupRequest", New("getGroupRequest", [userid |-> Me]))),
         NEW list, list = Parse("getGroupResponse", e.end.response)["group"]
  PROVE  /\ \E q \in {Me, 0} : list \in Seq(GroupRows(db, q))
         /\ e.faults = 0 => \A x \in GroupRows(db, Me) : \E i \in DOMAIN list : list[i] = x
<1> DEFINE u == [userid |-> Me]
           args == Serialize("getGroupRequest", New("getGroupRequest", u))
<1>1. /\ Flat("getGroupRequest") /\ DOMAIN Fields["getGroupRequest"] = {"userid"}
      /\ Fields["getGroupRequest"]["userid"] = Number
  BY getGroupRequestTable
<1>2. DOMAIN u = {"userid"} /\ u["userid"] = Me /\ "unknown" \notin DOMAIN u
  OBVIOUS
<1>0. Parse("getGroupResponse", <<>>)["group"] = <<>>
  <2>1. Fields["getGroupResponse"]["group"].is = "messages"
    BY getGroupResponseTable DEF Many
  <2>2. QED
    BY <2>1, EmptyResponse, getGroupResponseTable
<1>3. CASE e.end.response = <<>> /\ e.faults = 1
  <2>1. list = <<>> /\ ~(e.faults = 0)
    BY <1>0, <1>3
  <2>2. <<>> \in Seq(GroupRows(db, Me)) /\ Me \in {Me, 0}
    OBVIOUS
  <2>3. QED
    BY <2>1, <2>2
<1>4. ASSUME NEW k \in 0..Len(args), NEW ok \in [1..2 -> BOOLEAN], NEW s,
             RunsWith("RpcGroupChat", "GetGroup", args, k, ok, s),
             e.end.response \in {s.response, <<>>} \cup Prefixes(s.response),
             e.faults = 0 => k = Len(args) /\ ok = AllOk /\ e.end.response = s.response
      PROVE  /\ \E q \in {Me, 0} : list \in Seq(GroupRows(db, q))
             /\ e.faults = 0 => \A x \in GroupRows(db, Me) : \E i \in DOMAIN list : list[i] = x
  <2> DEFINE r == Parse("getGroupRequest", SubSeq(args, 1, k))
             q == r["userid"]
             E == GroupRows(db, q)
  <2> HIDE DEF u
  <2>1. q \in {Me, 0} /\ (k = Len(args) => q = Me)
    <3>1. /\ r["userid"] \in {u["userid"], Zero(Fields["getGroupRequest"]["userid"])}
          /\ k = Len(args) => r["userid"] = u["userid"]
      BY <1>1, <1>2, RequestRead
    <3>2. QED
      BY <1>1, <1>2, <3>1, Kinds
  <2> HIDE DEF args, r
  <2>2. PICK done \in GetGroup(db, r, ok) : s.response = Serialize("getGroupResponse", done.response)
    <3>1. \E done \in CallMethod("GetGroup", db, r, ok) :
             s = [db |-> done.db, response |-> Serialize("getGroupResponse", done.response)]
      BY <1>4, MethodRun, MethodTypes DEF r
    <3>2. CallMethod("GetGroup", db, r, ok) = GetGroup(db, r, ok)
      BY DEF CallMethod
    <3>3. QED
      BY <3>1, <3>2
  <2>v. PICK v : /\ done.response = New("getGroupResponse", [group |-> v])
                 /\ IsGroupList(v, db, q, ok[1])
    BY <2>2, GetGroupRun
  <2>3. /\ done.response = New("getGroupResponse", [group |-> v]) /\ v \in Seq(E)
        /\ ok[1] => \A x \in E : \E i \in DOMAIN v : v[i] = x
    BY <2>v DEF IsGroupList
  <2> DEFINE w == Serialize("getGroupResponse", New("getGroupResponse", [group |-> v]))
  <2>4. \A x \in E : Whole("groupInfo", x)
    <3>1. \A j \in GroupIds(db) : db.groupinfo[j] \in Infos
      BY DEF DbRight, RightDb, GroupIds
    <3>2. QED
      BY <3>1, GroupRowFacts DEF GroupRows
  <2> HIDE DEF E, q
  <2>5. /\ \A n \in 0..Len(w) : Parse("getGroupResponse", SubSeq(w, 1, n))["group"] = SubSeq(v, 1, n)
        /\ Len(w) = Len(v) /\ \E X : w \in Seq(X)
    <3>1. ASSUME NEW n \in 0..Len(v)
          PROVE  /\ Parse("getGroupResponse", SubSeq(w, 1, n))["group"] = SubSeq(v, 1, n)
                 /\ Len(w) = Len(v) /\ \E X : w \in Seq(X)
      BY <2>3, <2>4, GroupsRead
    <3>2. 0 \in 0..Len(v)
      BY <2>3
    <3>3. QED
      BY <3>1, <3>2
  <2>6. s.response = w
    BY <2>2, <2>3
  <2> HIDE DEF w
  <2>7. w = SubSeq(w, 1, Len(w)) /\ Len(w) \in Nat /\ Len(w) \in 0..Len(w)
    BY <2>5
  <2>8. \A n \in 0..Len(v) : SubSeq(v, 1, n) \in Seq(E)
    BY <2>3
  <2>9. e.end.response = w => list = v
    <3>1. Parse("getGroupResponse", SubSeq(w, 1, Len(w)))["group"] = SubSeq(v, 1, Len(v))
      BY <2>5, <2>7
    <3>2. SubSeq(v, 1, Len(v)) = v
      BY <2>3
    <3>3. QED
      BY <2>7, <3>1, <3>2
  <2>10. list \in Seq(E)
    <3>1. CASE e.end.response = <<>>
      <4>1. list = <<>>
        BY <1>0, <3>1
      <4>2. <<>> \in Seq(E)
        OBVIOUS
      <4>3. QED
        BY <4>1, <4>2
    <3>2. CASE e.end.response \in Prefixes(w)
      <4>1. PICK n \in 0..Len(w) : e.end.response = SubSeq(w, 1, n)
        BY <3>2 DEF Prefixes
      <4>2. list = SubSeq(v, 1, n) /\ n \in 0..Len(v)
        BY <2>5, <4>1
      <4>3. QED
        BY <2>8, <4>2
    <3>3. CASE e.end.response = w
      BY <2>3, <2>9, <3>3
    <3>4. QED
      BY <1>4, <2>6, <3>1, <3>2, <3>3
  <2>11. ASSUME e.faults = 0, NEW x \in GroupRows(db, Me) PROVE \E i \in DOMAIN list : list[i] = x
    <3>1. k = Len(args) /\ ok[1] /\ list = v
      BY <1>4, <2>6, <2>9, <2>11 DEF AllOk
    <3>2. x \in E
      BY <2>1, <3>1 DEF E
    <3>3. QED
      BY <2>3, <3>1, <3>2
  <2>12. QED
    BY <2>1, <2>10, <2>11 DEF E
<1> HIDE DEF u, args
<1>5. CallLeft(e, "RpcGroupChat", "GetGroup", args)
  BY DEF args, u
<1>6. QED
  BY <1>3, <1>4, <1>5 DEF CallLeft

-----------------------------------------------------------------------------
(* The list of friends *)

FriendRows(d, q) ==
  {New("Friends", [userid |-> u.userid, friendname |-> u.nickname, online |-> u.online]) :
     u \in {x \in d.user : <<q, x.userid>> \in d.friendship}}

(* What GetFriendsList answers with. *)
LEMMA FriendsRun ==
  ASSUME IsFiniteSet(db.user), NEW r, NEW ok, NEW done \in GetFriendsList(db, r, ok)
  PROVE  \E v \in Seq(FriendRows(db, r["userid"])) :
            done.response = New("GetFriendsListResponse", [result |-> <<Success>>, friends |-> v])
<1> DEFINE mates == {u \in db.user : <<r["userid"], u.userid>> \in db.friendship}
           Listed(u) == [userid |-> u.userid, friendname |-> u.nickname, online |-> u.online]
           listed == {Listed(u) : u \in mates}
           E == FriendRows(db, r["userid"])
<1>1. PICK s \in SetToSeqs(listed) :
        done = Done(db, New("GetFriendsListResponse",
                 [result |-> <<Success>>,
                  friends |-> IF ok[1] THEN [i \in DOMAIN s |-> New("Friends", s[i])] ELSE <<>>]))
  BY DEF GetFriendsList
<1> DEFINE v == IF ok[1] THEN [i \in DOMAIN s |-> New("Friends", s[i])] ELSE <<>>
<1>2. done.response = New("GetFriendsListResponse", [result |-> <<Success>>, friends |-> v])
  BY <1>1 DEF Done
<1>3. IsFiniteSet(listed)
  <2>1. IsFiniteSet(mates)
    BY FS_Subset
  <2> DEFINE f == [u \in mates |-> Listed(u)]
  <2> HIDE DEF mates, Listed
  <2>2. f \in Surjection(mates, listed)
    BY DEF Surjection
  <2> HIDE DEF listed
  <2>3. QED
    BY <2>1, <2>2, FS_Surjection
<1>4. Cardinality(listed) \in Nat
  BY <1>3, FS_CardinalityType
<1>5. s \in [1..Cardinality(listed) -> listed]
  <2> HIDE DEF listed
  <2>1. QED
    BY DEF SetToSeqs
<1>6. \A x \in listed : New("Friends", x) \in E
  BY DEF FriendRows
<1> HIDE DEF listed, E
<1>7. v \in Seq(E)
  BY <1>4, <1>5, <1>6
<1>8. QED
  BY <1>2, <1>7 DEF E

(* A row as it is sent. *)
LEMMA FriendRowFacts ==
  ASSUME NEW d, NEW q, NEW x \in FriendRows(d, q)
  PROVE  Whole("Friends", x)
<1>1. PICK u : x = New("Friends", [userid |-> u.userid, friendname |-> u.nickname, online |-> u.online])
  BY DEF FriendRows
<1> DEFINE v == [userid |-> u.userid, friendname |-> u.nickname, online |-> u.online]
<1>2. "unknown" \notin DOMAIN v
  OBVIOUS
<1> HIDE DEF v
<1>3. Whole("Friends", New("Friends", v))
  BY <1>2, NewFacts, FriendsTable DEF Flat
<1>4. QED
  BY <1>1, <1>3 DEF v

(* The list of friends: rows of the user's friends, or of user 0's when the id
   is lost. *)
LEMMA FriendsLeft ==
  ASSUME IsFiniteSet(db.user), NEW e,
         CallLeft(e, "FiendServiceRpc", "GetFriendsList",
                  Serialize("GetFriendsListRequest", New("GetFriendsListRequest", [userid |-> Me])))
  PROVE  \E q \in {Me, 0} : FriendsIn(Parse("GetFriendsListResponse", e.end.response)) \in Seq(FriendRows(db, q))
<1> DEFINE u == [userid |-> Me]
           args == Serialize("GetFriendsListRequest", New("GetFriendsListRequest", u))
           list == Parse("GetFriendsListResponse", e.end.response)["friends"]
<1>0. /\ Flat("GetFriendsListRequest") /\ DOMAIN Fields["GetFriendsListRequest"] = {"userid"}
      /\ Fields["GetFriendsListRequest"]["userid"] = Number
  BY GetFriendsListRequestTable
<1>1. DOMAIN u = {"userid"} /\ u["userid"] = Me /\ "unknown" \notin DOMAIN u
  OBVIOUS
<1>2. Parse("GetFriendsListResponse", <<>>)["friends"] = <<>>
  <2>1. Fields["GetFriendsListResponse"]["friends"].is = "messages"
    BY GetFriendsListResponseTable DEF Many
  <2>2. QED
    BY <2>1, EmptyResponse, GetFriendsListResponseTable
<1>3. CASE e.end.response = <<>>
  <2>1. list = <<>>
    BY <1>2, <1>3
  <2>2. <<>> \in Seq(FriendRows(db, Me)) /\ Me \in {Me, 0}
    OBVIOUS
  <2>3. QED
    BY <2>1, <2>2 DEF FriendsIn
<1>4. ASSUME NEW k \in 0..Len(args), NEW ok \in [1..2 -> BOOLEAN], NEW s,
             RunsWith("FiendServiceRpc", "GetFriendsList", args, k, ok, s),
             e.end.response \in {s.response, <<>>} \cup Prefixes(s.response)
      PROVE  \E q \in {Me, 0} : list \in Seq(FriendRows(db, q))
  <2> DEFINE r == Parse("GetFriendsListRequest", SubSeq(args, 1, k))
             q == r["userid"]
             E == FriendRows(db, q)
  <2> HIDE DEF u
  <2>1. q \in {Me, 0}
    <3>1. r["userid"] \in {u["userid"], Zero(Fields["GetFriendsListRequest"]["userid"])}
      BY <1>0, <1>1, RequestRead
    <3>2. QED
      BY <1>0, <1>1, <3>1, Kinds
  <2> HIDE DEF args, r
  <2>2. PICK done \in GetFriendsList(db, r, ok) :
           s.response = Serialize("GetFriendsListResponse", done.response)
    <3>1. \E done \in CallMethod("GetFriendsList", db, r, ok) :
             s = [db |-> done.db, response |-> Serialize("GetFriendsListResponse", done.response)]
      BY <1>4, MethodRun, MethodTypes DEF r
    <3>2. CallMethod("GetFriendsList", db, r, ok) = GetFriendsList(db, r, ok)
      BY DEF CallMethod
    <3>3. QED
      BY <3>1, <3>2
  <2>3. PICK v \in Seq(E) :
           done.response = New("GetFriendsListResponse", [result |-> <<Success>>, friends |-> v])
    BY <2>2, FriendsRun
  <2> DEFINE w == Serialize("GetFriendsListResponse",
                            New("GetFriendsListResponse", [result |-> <<Success>>, friends |-> v]))
  <2>4. \A x \in E : Whole("Friends", x)
    BY FriendRowFacts
  <2> HIDE DEF E, q
  <2>5. ASSUME NEW n \in 0..Len(w)
        PROVE  Parse("GetFriendsListResponse", SubSeq(w, 1, n))["friends"] \in Seq(E)
    BY <2>4, FriendsRead
  <2>6. \E X : w \in Seq(X)
    BY FriendsWire
  <2>7. s.response = w
    BY <2>2, <2>3
  <2> HIDE DEF w
  <2>8. w = SubSeq(w, 1, Len(w)) /\ Len(w) \in 0..Len(w)
    BY <2>6
  <2>9. list \in Seq(E)
    <3>1. CASE e.end.response = <<>>
      <4>1. list = <<>>
        BY <1>2, <3>1
      <4>2. <<>> \in Seq(E)
        OBVIOUS
      <4>3. QED
        BY <4>1, <4>2
    <3>2. CASE \E n \in 0..Len(w) : e.end.response = SubSeq(w, 1, n)
      BY <2>5, <3>2
    <3>3. QED
      BY <1>4, <2>7, <2>8, <3>1, <3>2 DEF Prefixes
  <2>10. QED
    BY <2>1, <2>9 DEF E
<1> HIDE DEF u, args
<1>5. CallLeft(e, "FiendServiceRpc", "GetFriendsList", args)
  BY DEF args, u
<1>6. e.end.response # <<>> => \E q \in {Me, 0} : list \in Seq(FriendRows(db, q))
  BY <1>4, <1>5 DEF CallLeft
<1>7. ASSUME NEW q \in {Me, 0}, list \in Seq(FriendRows(db, q))
      PROVE  FriendsIn(Parse("GetFriendsListResponse", e.end.response)) \in Seq(FriendRows(db, q))
  <2>1. <<>> \in Seq(FriendRows(db, q))
    OBVIOUS
  <2>2. QED
    BY <1>7, <2>1 DEF FriendsIn
<1>8. QED
  BY <1>3, <1>6, <1>7

-----------------------------------------------------------------------------
(* The stored messages *)

(* What Getoffline answers with. *)
LEMMA GetofflineRun ==
  ASSUME DbRight, NEW r, NEW ok, NEW done \in Getoffline(db, r, ok)
  PROVE  \E v \in Seq({x.msg : x \in Stored}) :
            done.response = New("offlineMsgResponse", [msg |-> v])
<1> DEFINE own == {i \in DOMAIN db.offline_message : db.offline_message[i].userid = r["userid"]}
           mine == SetToSeq(own)
           E == {x.msg : x \in Stored}
           v == IF ok[1] THEN [i \in DOMAIN mine |-> db.offline_message[mine[i]].msg] ELSE <<>>
<1>1. /\ DOMAIN db.offline_message = 1..Len(db.offline_message) /\ Len(db.offline_message) \in Nat
      /\ \A j \in DOMAIN db.offline_message : db.offline_message[j] \in Stored
  <2> HIDE DEF Stored
  <2>1. QED
    BY DEF DbRight, RightDb
<1>2. IsFiniteSet(own)
  <2>1. IsFiniteSet(DOMAIN db.offline_message) /\ own \subseteq DOMAIN db.offline_message
    BY <1>1, FS_Interval
  <2>2. QED
    BY <2>1, FS_Subset
<1>3. done.response = New("offlineMsgResponse", [msg |-> v])
  BY DEF Getoffline, Done
<1>4. \A j \in own : db.offline_message[j].msg \in E
  BY <1>1
<1> HIDE DEF own, E
<1>5. mine \in Seq(own)
  BY <1>2, SetToSeqFacts
<1> HIDE DEF mine
<1>6. DOMAIN mine = 1..Len(mine) /\ Len(mine) \in Nat /\ \A i \in DOMAIN mine : mine[i] \in own
  BY <1>5
<1>7. v \in Seq(E)
  BY <1>4, <1>6
<1>8. QED
  BY <1>3, <1>7 DEF E

(* The rows that come of Getoffline are stored ones. *)
LEMMA OfflineLeft ==
  ASSUME DbRight, NEW e, NEW args, CallLeft(e, "UserServiceRpc", "Getoffline", args)
  PROVE  Parse("offlineMsgResponse", e.end.response)["msg"] \in Seq({x.msg : x \in Stored})
<1> DEFINE E == {x.msg : x \in Stored}
           list == Parse("offlineMsgResponse", e.end.response)["msg"]
<1>1. Parse("offlineMsgResponse", <<>>)["msg"] = <<>>
  <2>1. Fields["offlineMsgResponse"]["msg"].is = "strings"
    BY offlineMsgResponseTable DEF ManyBytes
  <2>2. QED
    BY <2>1, EmptyResponse, offlineMsgResponseTable
<1>2. <<>> \in Seq(E)
  OBVIOUS
<1> HIDE DEF E
<1>3. CASE e.end.response = <<>>
  <2>1. list = <<>>
    BY <1>1, <1>3
  <2>2. QED
    BY <1>2, <2>1 DEF E
<1>4. ASSUME NEW k \in 0..Len(args), NEW ok \in [1..2 -> BOOLEAN], NEW s,
             RunsWith("UserServiceRpc", "Getoffline", args, k, ok, s),
             e.end.response \in {s.response} \cup Prefixes(s.response)
      PROVE  list \in Seq(E)
  <2> DEFINE r == Parse("offlineMsgRequest", SubSeq(args, 1, k))
  <2> HIDE DEF r
  <2>1. PICK done \in Getoffline(db, r, ok) :
           s.response = Serialize("offlineMsgResponse", done.response)
    <3>1. \E done \in CallMethod("Getoffline", db, r, ok) :
             s = [db |-> done.db, response |-> Serialize("offlineMsgResponse", done.response)]
      BY <1>4, MethodRun, MethodTypes DEF r
    <3>2. CallMethod("Getoffline", db, r, ok) = Getoffline(db, r, ok)
      BY DEF CallMethod
    <3>3. QED
      BY <3>1, <3>2
  <2>2. PICK v \in Seq(E) : done.response = New("offlineMsgResponse", [msg |-> v])
    BY <2>1, GetofflineRun DEF E
  <2> DEFINE w == Serialize("offlineMsgResponse", New("offlineMsgResponse", [msg |-> v]))
  <2>3. /\ \A n \in 0..Len(v) : Parse("offlineMsgResponse", SubSeq(w, 1, n))["msg"] \in Seq(E)
        /\ Len(w) = Len(v) /\ \E X : w \in Seq(X)
    <3>1. ASSUME NEW n \in 0..Len(v)
          PROVE  /\ Parse("offlineMsgResponse", SubSeq(w, 1, n))["msg"] \in Seq(E)
                 /\ Len(w) = Len(v) /\ \E X : w \in Seq(X)
      BY OfflineRead
    <3>2. 0 \in 0..Len(v)
      OBVIOUS
    <3>3. QED
      BY <3>1, <3>2
  <2>4. s.response = w
    BY <2>1, <2>2
  <2> HIDE DEF w
  <2>5. w = SubSeq(w, 1, Len(w)) /\ Len(w) \in 0..Len(w)
    BY <2>3
  <2>6. QED
    BY <1>4, <2>3, <2>4, <2>5 DEF Prefixes
<1>5. QED
  BY <1>3, <1>4 DEF CallLeft, E

-----------------------------------------------------------------------------
(* How the tables grow *)

(* Tables that stay have grown. *)
LEMMA SameGrows == \A d : Grows(d, d)
BY DEF Grows

(* A member is added. *)
LEMMA AddGrows ==
  ASSUME NEW d, RightDb(d), NEW u \in {0, Me} \cup Others, NEW g \in Nat, NEW ok
  PROVE  /\ RightDb(Add(d, u, g, ok)) /\ Grows(d, Add(d, u, g, ok))
         /\ Add(d, u, g, ok).groupinfo = d.groupinfo
         /\ ok => g \in MemberOf(Add(d, u, g, ok), u)
<1> DEFINE new == Add(d, u, g, ok)
<1>1. /\ d = [user |-> Users, friendship |-> Friendship, groupinfo |-> d.groupinfo,
              groupuser |-> d.groupuser, offline_message |-> d.offline_message]
      /\ d.groupuser \in Seq(Members)
  BY DEF RightDb
<1>2. /\ new.groupuser \in Seq(Members \cup {[groupid |-> g, userid |-> u]})
      /\ new = [user |-> Users, friendship |-> Friendship, groupinfo |-> d.groupinfo,
                groupuser |-> new.groupuser, offline_message |-> d.offline_message]
      /\ \A v : MemberOf(d, v) \subseteq MemberOf(new, v)
      /\ ok => g \in MemberOf(new, u)
  <2>1. Shaped(d, Members) /\ d.user = Users /\ d.friendship = Friendship
    <3>1. ASSUME NEW a, NEW b, NEW c, NEW h, NEW i, NEW x,
                 x = [user |-> a, friendship |-> b, groupinfo |-> c, groupuser |-> h,
                      offline_message |-> i]
          PROVE  x.user = a /\ x.friendship = b
      BY <3>1
    <3>2. d.user = Users /\ d.friendship = Friendship
      BY <1>1, <3>1
    <3>3. QED
      BY <1>1, <3>2 DEF Shaped
  <2>2. /\ Add(d, u, g, ok).groupuser \in Seq(Members \cup {[groupid |-> g, userid |-> u]})
        /\ Add(d, u, g, ok) = [user |-> d.user, friendship |-> d.friendship,
                               groupinfo |-> d.groupinfo,
                               groupuser |-> Add(d, u, g, ok).groupuser,
                               offline_message |-> d.offline_message]
        /\ \A v : MemberOf(d, v) \subseteq MemberOf(Add(d, u, g, ok), v)
        /\ ok => g \in MemberOf(Add(d, u, g, ok), u)
    <3> HIDE DEF new
    <3>1. QED
      BY <2>1, AddShaped
  <2>3. QED
    BY <2>1, <2>2 DEF new
<1>3. Members \cup {[groupid |-> g, userid |-> u]} = Members
  <2>1. [groupid |-> g, userid |-> u] \in Members
    BY DEF Members
  <2> DEFINE r == [groupid |-> g, userid |-> u]
  <2> HIDE DEF r
  <2>2. r \in Members
    BY <2>1 DEF r
  <2>3. Members \cup {r} = Members
    BY <2>2
  <2>4. QED
    BY <2>3 DEF r
<1> HIDE DEF new
<1>4. new.groupuser \in Seq(Members)
  BY <1>2, <1>3
<1>5. /\ new.groupinfo = d.groupinfo /\ new.offline_message = d.offline_message
      /\ new.user = Users /\ new.friendship = Friendship /\ d.user = Users /\ d.friendship = Friendship
  <2>1. ASSUME NEW a, NEW b, NEW c, NEW h, NEW i, NEW x,
               x = [user |-> a, friendship |-> b, groupinfo |-> c, groupuser |-> h,
                    offline_message |-> i]
        PROVE  x.user = a /\ x.friendship = b /\ x.groupinfo = c /\ x.offline_message = i
    BY <2>1
  <2>2. QED
    BY <1>1, <1>2, <2>1
<1>6. new = [user |-> Users, friendship |-> Friendship, groupinfo |-> new.groupinfo,
             groupuser |-> new.groupuser, offline_message |-> new.offline_message]
  BY <1>2, <1>5
<1>7. RightDb(new)
  BY <1>4, <1>5, <1>6 DEF RightDb
<1>8. Grows(d, new)
  BY <1>2, <1>5 DEF Grows, GroupIds
<1>9. QED
  BY <1>2, <1>5, <1>7, <1>8 DEF new

(* Growing is transitive. *)
LEMMA GrowsTwice ==
  ASSUME NEW a, NEW b, NEW c, Grows(a, b), Grows(b, c)
  PROVE  Grows(a, c)
<1>1. \A j \in GroupIds(a) : j \in GroupIds(b) /\ j \in GroupIds(c)
  BY DEF Grows
<1>2. \A j \in GroupIds(a) : c.groupinfo[j] = a.groupinfo[j]
  BY <1>1 DEF Grows
<1>3. \A u : MemberOf(a, u) \subseteq MemberOf(c, u)
  BY DEF Grows
<1>4. QED
  BY <1>1, <1>2, <1>3 DEF Grows

(* A group is added. *)
Inserts(d, a, t, new) ==
  \E info : /\ info = [groupid |-> Len(d.groupinfo) + 1, adminid |-> a, createTime |-> t,
                       usersnum |-> 1]
            /\ new = [d EXCEPT !.groupinfo = Append(@, info)]

(* A row is added to groupinfo. *)
LEMMA InsertGrows ==
  ASSUME NEW d, RightDb(d), Len(d.groupinfo) < MaxGroups,
         NEW a \in {0, Me} \cup Others, NEW t \in {0, Now},
         NEW new, Inserts(d, a, t, new)
  PROVE  /\ RightDb(new) /\ Grows(d, new)
         /\ GroupIds(new) = GroupIds(d) \cup {Len(d.groupinfo) + 1}
         /\ new.groupinfo[Len(d.groupinfo) + 1].adminid = a
<1>0. PICK info : /\ info = [groupid |-> Len(d.groupinfo) + 1, adminid |-> a,
                             createTime |-> t, usersnum |-> 1]
                  /\ new = [d EXCEPT !.groupinfo = Append(@, info)]
  BY DEF Inserts
<1> DEFINE n == Len(d.groupinfo)
           old == d.groupinfo
           more == Append(old, info)
<1>1. d = [user |-> Users, friendship |-> Friendship, groupinfo |-> d.groupinfo,
           groupuser |-> d.groupuser, offline_message |-> d.offline_message]
  BY DEF RightDb
<1>2. new = [user |-> Users, friendship |-> Friendship, groupinfo |-> more,
             groupuser |-> d.groupuser, offline_message |-> d.offline_message]
  <2>1. new = [d EXCEPT !.groupinfo = more]
    BY <1>0
  <2>2. ASSUME NEW x, NEW y, NEW z, NEW p, NEW q, NEW r,
               x = [user |-> Users, friendship |-> Friendship, groupinfo |-> y,
                    groupuser |-> z, offline_message |-> p]
        PROVE  [x EXCEPT !.groupinfo = q]
                 = [user |-> Users, friendship |-> Friendship, groupinfo |-> q,
                    groupuser |-> z, offline_message |-> p]
    BY <2>2
  <2> DEFINE f == d.groupinfo
             h == d.groupuser
             o == d.offline_message
  <2>3. d = [user |-> Users, friendship |-> Friendship, groupinfo |-> f,
             groupuser |-> h, offline_message |-> o]
    BY <1>1
  <2> HIDE DEF more, f, h, o
  <2>4. new = [user |-> Users, friendship |-> Friendship, groupinfo |-> more,
               groupuser |-> h, offline_message |-> o]
    BY <2>1, <2>2, <2>3
  <2>5. QED
    BY <2>4 DEF h, o
<1>3. /\ new.groupinfo = more /\ new.groupuser = d.groupuser /\ new.user = Users
      /\ new.friendship = Friendship /\ new.offline_message = d.offline_message
      /\ d.user = Users /\ d.friendship = Friendship
  <2>1. ASSUME NEW p, NEW b, NEW c, NEW h, NEW i, NEW x,
               x = [user |-> p, friendship |-> b, groupinfo |-> c, groupuser |-> h,
                    offline_message |-> i]
        PROVE  /\ x.user = p /\ x.friendship = b /\ x.groupinfo = c /\ x.groupuser = h
               /\ x.offline_message = i
    BY <2>1
  <2> HIDE DEF more
  <2>2. QED
    BY <1>1, <1>2, <2>1
<1>4. old \in Seq(Infos) /\ n \in Nat /\ \A j \in 1..n : old[j].groupid = j
  BY DEF RightDb
<1>5. info \in Infos /\ info.groupid = n + 1 /\ info.adminid = a
  BY <1>0, <1>4 DEF Infos
<1> HIDE DEF old
<1>6. /\ more \in Seq(Infos) /\ Len(more) = Len(old) + 1 /\ more[Len(old) + 1] = info
      /\ \A j \in 1..Len(old) : more[j] = old[j] /\ j \in 1..Len(more)
      /\ Len(old) \in Nat /\ DOMAIN old = 1..Len(old) /\ DOMAIN more = 1..Len(more)
      /\ Len(old) + 1 \in 1..Len(more)
  BY <1>4, <1>5
<1> HIDE DEF more
<1>7. Len(old) = n
  BY DEF old
<1>8. \A j \in 1..Len(more) : more[j].groupid = j
  <2> SUFFICES ASSUME NEW j \in 1..Len(more) PROVE more[j].groupid = j
    OBVIOUS
  <2>1. j \in 1..Len(old) \/ j = Len(old) + 1
    BY <1>6
  <2>2. QED
    BY <1>4, <1>5, <1>6, <1>7, <2>1
<1>9. DOMAIN new.groupinfo = DOMAIN d.groupinfo \cup {n + 1}
  <2>1. 1..Len(more) = 1..Len(old) \cup {Len(old) + 1}
    BY <1>6
  <2>2. QED
    BY <1>3, <1>6, <1>7, <2>1 DEF old
<1>10. RightDb(new)
  <2>1. Len(new.groupinfo) <= MaxGroups
    BY <1>3, <1>4, <1>6, <1>7, BoundsAssumption
  <2>2. new.groupuser \in Seq(Members) /\ new.offline_message \in Seq(Stored)
    BY <1>3 DEF RightDb
  <2>3. new = [user |-> Users, friendship |-> Friendship, groupinfo |-> new.groupinfo,
               groupuser |-> new.groupuser, offline_message |-> new.offline_message]
    BY <1>2, <1>3
  <2>4. new.groupinfo \in Seq(Infos) /\ \A j \in 1..Len(new.groupinfo) : new.groupinfo[j].groupid = j
    BY <1>3, <1>6, <1>8
  <2>5. QED
    BY <2>1, <2>2, <2>3, <2>4 DEF RightDb
<1>11. \A u : MemberOf(new, u) = MemberOf(d, u)
  BY <1>3 DEF MemberOf
<1>12. \A j \in GroupIds(d) : new.groupinfo[j] = d.groupinfo[j]
  BY <1>3, <1>6 DEF GroupIds, old
<1>13. Grows(d, new)
  BY <1>3, <1>9, <1>11, <1>12 DEF Grows, GroupIds
<1>14. new.groupinfo[n + 1].adminid = a
  BY <1>3, <1>5, <1>6, <1>7
<1>15. QED
  BY <1>9, <1>10, <1>13, <1>14 DEF GroupIds

(* AddGroup keeps the tables right. *)
LEMMA JoinsGrows ==
  ASSUME NEW d, RightDb(d), NEW new, Joins(d, new)
  PROVE  RightDb(new) /\ Grows(d, new) /\ new.groupinfo = d.groupinfo
<1>1. CASE new = d
  BY <1>1, SameGrows
<1>2. ASSUME NEW u \in {Me, 0}, NEW g \in Nat, new = Add(d, u, g, TRUE)
      PROVE  RightDb(new) /\ Grows(d, new) /\ new.groupinfo = d.groupinfo
  BY <1>2, AddGrows
<1>3. QED
  BY <1>1, <1>2 DEF Joins

(* And so does createGroup: the new group's creator is a member of it unless
   there is a fault. *)
LEMMA CreatesGrows ==
  ASSUME NEW d, RightDb(d), Len(d.groupinfo) < MaxGroups, NEW u \in {Me} \cup Others,
         NEW full, NEW new, Creates(d, u, full, new)
  PROVE  /\ RightDb(new) /\ Grows(d, new)
         /\ \A j \in GroupIds(new) \ GroupIds(d) :
               full => new.groupinfo[j].adminid = u /\ j \in MemberOf(new, u)
<1> DEFINE n == Len(d.groupinfo) + 1
<1>0. PICK a \in {u, 0}, t \in {Now, 0}, ok \in [1..2 -> BOOLEAN] : \E info :
        /\ info = [groupid |-> Len(d.groupinfo) + 1, adminid |-> a, createTime |-> t, usersnum |-> 1]
        /\ full => a = u /\ ok = AllOk
        /\ \E id \in IF ok[1] THEN {n} ELSE {0} \cup GroupIds(d) :
              new = Add(IF ok[1] THEN [d EXCEPT !.groupinfo = Append(@, info)] ELSE d, a, id, ok[2])
  BY DEF Creates
<1>1. PICK info :
        /\ info = [groupid |-> Len(d.groupinfo) + 1, adminid |-> a, createTime |-> t, usersnum |-> 1]
        /\ full => a = u /\ ok = AllOk
        /\ \E id \in IF ok[1] THEN {n} ELSE {0} \cup GroupIds(d) :
              new = Add(IF ok[1] THEN [d EXCEPT !.groupinfo = Append(@, info)] ELSE d, a, id, ok[2])
  BY <1>0
<1>2. PICK id \in IF ok[1] THEN {n} ELSE {0} \cup GroupIds(d) :
        new = Add(IF ok[1] THEN [d EXCEPT !.groupinfo = Append(@, info)] ELSE d, a, id, ok[2])
  BY <1>1
<1>3. a \in {0, Me} \cup Others /\ t \in {0, Now} /\ (full => a = u /\ ok[1] /\ ok[2])
  BY <1>0, <1>1 DEF AllOk
<1>4. id \in Nat /\ n \in Nat
  <2>1. Len(d.groupinfo) \in Nat /\ DOMAIN d.groupinfo = 1..Len(d.groupinfo)
    BY DEF RightDb
  <2>2. QED
    BY <2>1 DEF GroupIds
<1>5. CASE ok[1]
  <2> DEFINE with == [d EXCEPT !.groupinfo = Append(@, info)]
  <2>1. /\ RightDb(with) /\ Grows(d, with)
        /\ GroupIds(with) = GroupIds(d) \cup {Len(d.groupinfo) + 1}
        /\ with.groupinfo[Len(d.groupinfo) + 1].adminid = a
    <3> HIDE DEF with
    <3>1. Inserts(d, a, t, with)
      BY <1>1 DEF with, Inserts
    <3>2. QED
      BY <1>3, <3>1, InsertGrows
  <2>2. new = Add(with, a, id, ok[2]) /\ id = n
    BY <1>2, <1>5
  <2> HIDE DEF with
  <2>3. /\ RightDb(new) /\ Grows(with, new) /\ new.groupinfo = with.groupinfo
        /\ ok[2] => n \in MemberOf(new, a)
    BY <1>3, <1>4, <2>1, <2>2, AddGrows
  <2>4. Grows(d, new)
    BY <2>1, <2>3, GrowsTwice
  <2>5. ASSUME NEW j \in GroupIds(new) \ GroupIds(d), full
        PROVE  new.groupinfo[j].adminid = u /\ j \in MemberOf(new, u)
    <3>1. j = n
      BY <2>1, <2>3 DEF GroupIds
    <3>2. QED
      BY <1>3, <2>1, <2>3, <2>5, <3>1
  <2>6. QED
    BY <2>3, <2>4, <2>5
<1>6. CASE ~ok[1]
  <2>1. new = Add(d, a, id, ok[2])
    BY <1>2, <1>6
  <2>2. RightDb(new) /\ Grows(d, new) /\ new.groupinfo = d.groupinfo
    BY <1>3, <1>4, <2>1, AddGrows
  <2>3. GroupIds(new) = GroupIds(d) /\ ~full
    BY <1>3, <1>6, <2>2 DEF GroupIds
  <2>4. QED
    BY <2>2, <2>3
<1>7. QED
  BY <1>5, <1>6

-----------------------------------------------------------------------------
(* What the steps do to the tables and the lists *)

(* The users are finite in number. *)
LEMMA FiniteUsers == ASSUME DbRight PROVE IsFiniteSet(db.user)
<1> DEFINE ids == {Me} \cup Others
           f == [u \in ids |-> [userid |-> u, nickname |-> "nick", online |-> "1"]]
<1>1. IsFiniteSet(ids)
  <2>1. IsFiniteSet({Me})
    BY FS_Singleton
  <2>2. QED
    BY <2>1, UsersAssumption, FS_Union
<1>2. f \in Surjection(ids, Users)
  BY DEF Surjection, Users
<1>3. IsFiniteSet(Users)
  <2> HIDE DEF f, ids
  <2>1. QED
    BY <1>1, <1>2, FS_Surjection
<1>4. db.user = Users
  <2>1. ASSUME NEW a, NEW b, NEW c, NEW h, NEW i, NEW x,
               x = [user |-> a, friendship |-> b, groupinfo |-> c, groupuser |-> h,
                    offline_message |-> i]
        PROVE  x.user = a
    BY <2>1
  <2>2. QED
    BY <2>1 DEF DbRight, RightDb
<1>5. QED
  BY <1>3, <1>4

(* The steps that leave tables and lists alone. *)
Bides == /\ UNCHANGED <<db, friends, groups, shownRows>>
         /\ faults' \in {faults, faults + 1}
         /\ pc' \in {"offline", "menu"} => pc' = pc

(* A call's fault is one. *)
LEMMA CallFaults ==
  ASSUME NEW e, NEW service, NEW method, NEW args, CallLeft(e, service, method, args)
  PROVE  e.faults \in {0, 1} /\ (e.faults = 0 => e.end.end = "ok")
BY DEF CallLeft

(* A login reads. *)
LEMMA LoginBides == ASSUME Login, faults \in Nat PROVE Bides
<1> DEFINE v == [username |-> Me, pwd |-> "pwd"]
           args == Serialize("LoginRequest", New("LoginRequest", v))
<1>1. PICK e \in Ends(RequestFrame("UserServiceRpc", "Login", args)) :
         /\ faults' = faults + e.faults
         /\ db' = e.end.db
         /\ pc' \in {"crashed", "hung", "friends", "login"}
  BY MethodTypes DEF Login, Call, Crashes, Hangs
<1>2. \E A : args \in Seq(A)
  <2>1. Flat("LoginRequest")
    BY LoginRequestTable DEF Flat
  <2>2. "unknown" \notin DOMAIN v
    OBVIOUS
  <2> HIDE DEF v
  <2>3. QED
    BY <2>1, <2>2, RequestWire
<1> HIDE DEF args
<1>3. CallLeft(e, "UserServiceRpc", "Login", args)
  BY <1>1, <1>2, CallEnds
<1>4. e.end.db = db
  BY <1>3, ReadsOnly
<1>5. UNCHANGED <<friends, groups, shownRows>>
  BY DEF Login
<1>6. e.faults \in {0, 1}
  BY <1>3, CallFaults
<1>7. QED
  BY <1>1, <1>4, <1>5, <1>6 DEF Bides

(* So does the sending of a group's message. *)
LEMMA SendBides ==
  ASSUME NEW g, NEW text, SendGroupMessage(g, text), faults \in Nat
  PROVE  Bides
<1> DEFINE v == Sub("GroupMessage", [method |-> 2, groupid |-> g, memberid |-> Me,
                                     msg |-> text, send_time |-> Now])
           args == Serialize("SendMessageRequest", New("SendMessageRequest", [msg |-> v]))
<1>1. PICK e \in Ends(RequestFrame("RpcGroupChat", "SendMsg", args)) :
         /\ faults' = faults + e.faults
         /\ db' = e.end.db
         /\ pc' \in {"crashed", "hung", pc}
  BY MethodTypes DEF SendGroupMessage, Call, Crashes, Hangs
<1>2. \E A : args \in Seq(A)
  BY SendMessageWire DEF Sub
<1> HIDE DEF args
<1>3. CallLeft(e, "RpcGroupChat", "SendMsg", args)
  BY <1>1, <1>2, CallEnds
<1>4. e.end.db = db
  BY <1>3, ReadsOnly
<1>5. UNCHANGED <<friends, groups, shownRows>>
  BY DEF SendGroupMessage
<1>6. e.faults \in {0, 1}
  BY <1>3, CallFaults
<1>7. QED
  BY <1>1, <1>4, <1>5, <1>6 DEF Bides

(* The list of friends. *)
LEMMA FriendsListed ==
  ASSUME GetFriendList, faults \in Nat, DbRight
  PROVE  /\ UNCHANGED <<db, groups, shownRows>>
         /\ faults' \in {faults, faults + 1}
         /\ pc' \notin {"offline", "menu"}
         /\ friends' = friends \/ \E q \in {Me, 0} : friends' \in Seq(FriendRows(db, q))
<1> DEFINE v == [userid |-> Me]
           args == Serialize("GetFriendsListRequest", New("GetFriendsListRequest", v))
<1>1. PICK e \in Ends(RequestFrame("FiendServiceRpc", "GetFriendsList", args)) :
         /\ faults' = faults + e.faults
         /\ db' = e.end.db
         /\ pc' \in {"hung", "groups"}
         /\ \/ friends' = friends \/ friends' = <<>>
            \/ friends' = FriendsIn(Parse("GetFriendsListResponse", e.end.response))
  BY MethodTypes DEF GetFriendList, Call, Hangs, ListsFriends
<1>2. \E A : args \in Seq(A)
  <2>1. Flat("GetFriendsListRequest")
    BY GetFriendsListRequestTable DEF Flat
  <2>2. "unknown" \notin DOMAIN v
    OBVIOUS
  <2> HIDE DEF v
  <2>3. QED
    BY <2>1, <2>2, RequestWire
<1>b. CallLeft(e, "FiendServiceRpc", "GetFriendsList", args)
  <2> HIDE DEF args
  <2>1. QED
    BY <1>1, <1>2, CallEnds
<1>c. \E q \in {Me, 0} : FriendsIn(Parse("GetFriendsListResponse", e.end.response)) \in Seq(FriendRows(db, q))
  BY <1>b, FiniteUsers, FriendsLeft
<1> HIDE DEF args
<1>4. e.end.db = db
  BY <1>b, ReadsOnly
<1>5. UNCHANGED <<groups, shownRows>>
  BY DEF GetFriendList
<1>6. e.faults \in {0, 1}
  BY <1>b, CallFaults
<1>7. <<>> \in Seq(FriendRows(db, Me))
  OBVIOUS
<1>8. friends' = friends \/ \E q \in {Me, 0} : friends' \in Seq(FriendRows(db, q))
  <2>1. CASE friends' = <<>>
    BY <1>7, <2>1
  <2>2. CASE friends' = FriendsIn(Parse("GetFriendsListResponse", e.end.response))
    BY <1>c, <2>2
  <2>3. QED
    BY <1>1, <2>1, <2>2
<1>9. QED
  BY <1>1, <1>4, <1>5, <1>6, <1>8

(* The list of groups. *)
LEMMA GroupsListed ==
  ASSUME NEW place, NEW next, GetGroups(place, next), faults \in Nat, DbRight,
         next \in {"offline", "menu"}
  PROVE  /\ UNCHANGED <<db, friends, shownRows>>
         /\ faults' \in {faults, faults + 1}
         /\ groups' = groups \/ \E q \in {Me, 0} : groups' \in Seq(GroupRows(db, q))
         /\ faults' = 0 /\ pc' \in {"offline", "menu"} =>
              \A x \in GroupRows(db, Me) : \E i \in DOMAIN groups' : groups'[i] = x
<1> DEFINE v == [userid |-> Me]
           args == Serialize("getGroupRequest", New("getGroupRequest", v))
<1>1. PICK e \in Ends(RequestFrame("RpcGroupChat", "GetGroup", args)) :
         /\ faults' = faults + e.faults
         /\ db' = e.end.db
         /\ \/ e.end.end = "hung" /\ pc' = "hung" /\ groups' = groups
            \/ e.end.end = "failed" /\ groups' = <<>>
            \/ e.end.end = "ok" /\ groups' = Parse("getGroupResponse", e.end.response).group
  BY MethodTypes DEF GetGroups, Call, Hangs, ListsGroups
<1>2. \E A : args \in Seq(A)
  <2>1. Flat("getGroupRequest")
    BY getGroupRequestTable DEF Flat
  <2>2. "unknown" \notin DOMAIN v
    OBVIOUS
  <2> HIDE DEF v
  <2>3. QED
    BY <2>1, <2>2, RequestWire
<1>b. CallLeft(e, "RpcGroupChat", "GetGroup", args)
  <2> HIDE DEF args
  <2>1. QED
    BY <1>1, <1>2, CallEnds
<1>3. PICK list : list = Parse("getGroupResponse", e.end.response)["group"]
  OBVIOUS
<1>c. /\ \E q \in {Me, 0} : list \in Seq(GroupRows(db, q))
      /\ e.faults = 0 => \A x \in GroupRows(db, Me) : \E i \in DOMAIN list : list[i] = x
  BY <1>b, <1>3, GetGroupLeft
<1> HIDE DEF args
<1>4. e.end.db = db
  BY <1>b, ReadsOnly
<1>5. UNCHANGED <<friends, shownRows>>
  BY DEF GetGroups
<1>6. e.faults \in {0, 1} /\ (e.faults = 0 => e.end.end = "ok")
  BY <1>b, CallFaults
<1>7. <<>> \in Seq(GroupRows(db, Me))
  OBVIOUS
<1>8. \/ e.end.end = "hung" /\ pc' = "hung" /\ groups' = groups
      \/ e.end.end = "failed" /\ groups' = <<>>
      \/ e.end.end = "ok" /\ groups' = list
  BY <1>1, <1>3
<1>9. faults' = 0 => e.faults = 0
  BY <1>1, <1>6
<1>10. groups' = groups \/ \E q \in {Me, 0} : groups' \in Seq(GroupRows(db, q))
  <2>1. CASE groups' = <<>>
    BY <1>7, <2>1
  <2>2. CASE groups' = list
    BY <1>c, <2>2
  <2>3. QED
    BY <1>8, <2>1, <2>2
<1>11. faults' = 0 /\ pc' \in {"offline", "menu"} =>
         \A x \in GroupRows(db, Me) : \E i \in DOMAIN groups' : groups'[i] = x
  <2>1. ASSUME faults' = 0 PROVE groups' = list
    BY <1>6, <1>8, <1>9, <2>1
  <2>2. QED
    BY <1>9, <1>c, <2>1
<1>12. faults' \in {faults, faults + 1}
  BY <1>1, <1>6
<1>13. QED
  BY <1>1, <1>4, <1>5, <1>10, <1>11, <1>12

(* What is stored of a frame ends inside its length. *)
LEMMA StoredCut ==
  ASSUME NEW m \in Incoming
  PROVE  Len(CString(FrameOf(m))) \in Nat /\ Len(CString(FrameOf(m))) <= 3
<1>1. FrameOf(m) = Frame(BodyOf(m))
  BY DEF FrameOf, BodyOf
<1>2. PICK X : BodyOf(m) \in Seq(X) /\ Len(BodyOf(m)) <= 7
  BY BodyFacts
<1>3. PICK s : s = CString(Frame(BodyOf(m)))
  OBVIOUS
<1>4. s \in Seq(X \cup [digit : Nat]) /\ Len(s) <= 3
  BY <1>2, <1>3, FrameCut
<1>5. QED
  BY <1>1, <1>3, <1>4

(* No stored row is long enough to be shown. *)
LEMMA OfflineBides ==
  ASSUME GetOfflinemsg, faults \in Nat, DbRight, shownRows = <<>>
  PROVE  /\ UNCHANGED <<db, friends, groups>> /\ shownRows' = <<>>
         /\ faults' \in {faults, faults + 1}
         /\ pc = "offline" /\ todo' \in {todo, <<>>}
<1> DEFINE v == [userid |-> Me]
           args == Serialize("offlineMsgRequest", New("offlineMsgRequest", v))
<1>1. PICK e \in Ends(RequestFrame("UserServiceRpc", "Getoffline", args)) :
         /\ faults' = faults + e.faults
         /\ db' = e.end.db
         /\ \/ UNCHANGED <<todo, shownRows>>
            \/ PrintOffline(ShownOf(Parse("offlineMsgResponse", e.end.response).msg))
  BY MethodTypes DEF GetOfflinemsg, Call, Hangs, Crashes
<1>2. \E A : args \in Seq(A)
  <2>1. Flat("offlineMsgRequest")
    BY offlineMsgRequestTable DEF Flat
  <2>2. "unknown" \notin DOMAIN v
    OBVIOUS
  <2> HIDE DEF v
  <2>3. QED
    BY <2>1, <2>2, RequestWire
<1> HIDE DEF args
<1>3. CallLeft(e, "UserServiceRpc", "Getoffline", args)
  BY <1>1, <1>2, CallEnds
<1>4. e.end.db = db
  BY <1>3, ReadsOnly
<1>5. UNCHANGED <<friends, groups>> /\ pc = "offline"
  BY DEF GetOfflinemsg, AtConsole
<1>6. e.faults \in {0, 1}
  BY <1>3, CallFaults
<1>7. PICK list : list = Parse("offlineMsgResponse", e.end.response)["msg"]
  OBVIOUS
<1>8. list \in Seq({x.msg : x \in Stored})
  BY <1>3, <1>7, OfflineLeft
<1>9. ShownOf(list) = <<>>
  <2>1. ASSUME NEW i \in DOMAIN list PROVE ~(Len(list[i]) > 4)
    <3>1. PICK m \in Incoming : list[i] = CString(FrameOf(m))
      BY <1>8 DEF Stored
    <3>2. Len(list[i]) \in Nat /\ Len(list[i]) <= 3
      BY <3>1, StoredCut
    <3>3. QED
      BY <3>2
  <2> DEFINE f == [i \in DOMAIN list |-> <<>>]
             F == [i \in DOMAIN list |->
                     IF Len(list[i]) > 4 THEN SetToSeq(Shows(SubSeq(list[i], 5, Len(list[i])))) ELSE <<>>]
  <2>2. F = f
    BY <2>1
  <2>3. FlattenSeq(f) = <<>>
    <3>1. DOMAIN list = 1..Len(list) /\ Len(list) \in Nat
      BY <1>8
    <3>2. f \in Seq({<<>>}) /\ \A i \in 1..Len(f) : f[i] = <<>>
      BY <3>1
    <3> HIDE DEF f
    <3>3. QED
      BY <3>2, FlattenEmpty
  <2>4. ShownOf(list) = FlattenSeq(F)
    BY DEF ShownOf
  <2> HIDE DEF f, F
  <2>5. QED
    BY <2>2, <2>3, <2>4
<1>10. shownRows' = <<>> /\ todo' \in {todo, <<>>}
  <2>1. UNCHANGED <<todo, shownRows>> \/ PrintOffline(<<>>)
    BY <1>1, <1>7, <1>9
  <2>2. PrintOffline(<<>>) => shownRows' = shownRows \o <<>> /\ todo' = <<>>
    BY DEF PrintOffline
  <2>3. <<>> \o <<>> = <<>>
    OBVIOUS
  <2>4. QED
    BY <2>1, <2>2, <2>3
<1>11. QED
  BY <1>1, <1>4, <1>5, <1>6, <1>10

-----------------------------------------------------------------------------
(* The steps that change the tables *)

(* The tables grow, and the groups there are new are of others, or, without a
   fault, have their creator as a member. *)
DbGrows ==
  /\ RightDb(db') /\ Grows(db, db')
  /\ faults' = 0 => \A j \in GroupIds(db') \ GroupIds(db) :
                       db'.groupinfo[j].adminid = Me =>
                         j \in MemberOf(db', Me) /\ pc' \notin {"offline", "menu"}
Spares == UNCHANGED <<friends, groups, shownRows>>

(* createGroup, called by the user. *)
LEMMA CreateGrows ==
  ASSUME CreateGroup, faults \in Nat, DbRight
  PROVE  /\ Spares /\ DbGrows
         /\ faults' \in {faults, faults + 1}
         /\ pc' \notin {"offline", "menu"}
<1> DEFINE v == [userid |-> Me, createTime |-> Now]
           args == Serialize("createGroupRequest", New("createGroupRequest", v))
<1>1. PICK e \in Ends(RequestFrame("RpcGroupChat", "createGroup", args)) :
         /\ faults' = faults + e.faults
         /\ db' = e.end.db
         /\ pc' \in {"crashed", "hung", "regroup"}
  BY MethodTypes DEF CreateGroup, Call, Crashes, Hangs
<1>2. \E A : args \in Seq(A)
  <2>1. Flat("createGroupRequest")
    BY createGroupRequestTable DEF Flat
  <2>2. "unknown" \notin DOMAIN v
    OBVIOUS
  <2> HIDE DEF v
  <2>3. QED
    BY <2>1, <2>2, RequestWire
<1>3. CallLeft(e, "RpcGroupChat", "createGroup", args)
  <2> HIDE DEF args
  <2>1. QED
    BY <1>1, <1>2, CallEnds
<1>4. \/ e.faults = 1 /\ db' = db
      \/ e.faults \in {0, 1} /\ Creates(db, Me, e.faults = 0, db')
  BY <1>1, <1>3, CreateGroupLeft
<1>5. Spares /\ Len(db.groupinfo) < MaxGroups
  BY DEF CreateGroup, Spares
<1>6. DbGrows
  <2>1. CASE db' = db
    <3>1. RightDb(db') /\ Grows(db, db') /\ GroupIds(db') = GroupIds(db)
      BY <2>1, SameGrows DEF DbRight
    <3>2. QED
      BY <3>1 DEF DbGrows
  <2>2. CASE Creates(db, Me, e.faults = 0, db')
    <3>1. PICK new, full : new = db' /\ full = (e.faults = 0)
      OBVIOUS
    <3>2. /\ RightDb(new) /\ Grows(db, new)
          /\ \A j \in GroupIds(new) \ GroupIds(db) :
               full => new.groupinfo[j].adminid = Me /\ j \in MemberOf(new, Me)
      BY <1>5, <2>2, <3>1, CreatesGrows DEF DbRight
    <3>3. faults' = 0 => e.faults = 0
      BY <1>1, <1>4
    <3>4. QED
      BY <1>1, <3>1, <3>2, <3>3 DEF DbGrows
  <2>3. QED
    BY <1>4, <2>1, <2>2
<1>7. e.faults \in {0, 1}
  BY <1>3, CallFaults
<1>8. QED
  BY <1>1, <1>5, <1>6, <1>7

(* AddGroup. *)
LEMMA JoinGrows ==
  ASSUME NEW g \in Nat, JoinGroup(g), faults \in Nat, DbRight
  PROVE  /\ Spares /\ DbGrows
         /\ faults' \in {faults, faults + 1}
         /\ pc' \in {"offline", "menu"} => pc' = pc
         /\ GroupIds(db') = GroupIds(db)
<1> DEFINE v == [userid |-> Me, groupid |-> g]
           args == Serialize("AddGroupRequest", New("AddGroupRequest", v))
<1>1. PICK e \in Ends(RequestFrame("RpcGroupChat", "AddGroup", args)) :
         /\ faults' = faults + e.faults
         /\ db' = e.end.db
         /\ pc' \in {"crashed", "hung", "regroup", pc}
  BY MethodTypes DEF JoinGroup, Call, Crashes, Hangs
<1>2. \E A : args \in Seq(A)
  <2>1. Flat("AddGroupRequest")
    BY AddGroupRequestTable DEF Flat
  <2>2. "unknown" \notin DOMAIN v
    OBVIOUS
  <2> HIDE DEF v
  <2>3. QED
    BY <2>1, <2>2, RequestWire
<1>3. CallLeft(e, "RpcGroupChat", "AddGroup", args)
  <2> HIDE DEF args
  <2>1. QED
    BY <1>1, <1>2, CallEnds
<1>4. Joins(db, db')
  BY <1>1, <1>3, AddGroupLeft
<1>5. RightDb(db') /\ Grows(db, db') /\ db'.groupinfo = db.groupinfo
  <2>1. PICK new : new = db'
    OBVIOUS
  <2>2. QED
    BY <1>4, <2>1, JoinsGrows DEF DbRight
<1>6. GroupIds(db') = GroupIds(db)
  BY <1>5 DEF GroupIds
<1>7. Spares
  BY DEF JoinGroup, Spares
<1>8. e.faults \in {0, 1}
  BY <1>3, CallFaults
<1>9. QED
  BY <1>1, <1>5, <1>6, <1>7, <1>8 DEF DbGrows

(* createGroup, called by another user. *)
LEMMA OtherGrows ==
  ASSUME NEW u \in Others, OtherCreates(u), DbRight
  PROVE  Spares /\ DbGrows /\ faults' = faults /\ pc' = pc
         /\ \A j \in GroupIds(db') \ GroupIds(db) : db'.groupinfo[j].adminid # Me
<1> DEFINE v == [userid |-> u, createTime |-> Now]
           args == Serialize("createGroupRequest", New("createGroupRequest", v))
<1>1. PICK s \in Served(RequestFrame("RpcGroupChat", "createGroup", args), db, AllOk) :
         db' = s.db
  BY DEF OtherCreates
<1>2. \E A : args \in Seq(A)
  <2>1. Flat("createGroupRequest")
    BY createGroupRequestTable DEF Flat
  <2>2. "unknown" \notin DOMAIN v
    OBVIOUS
  <2> HIDE DEF v
  <2>3. QED
    BY <2>1, <2>2, RequestWire
<1>3. PICK e : e.faults = 0 /\ e.end.db = s.db /\ CallLeft(e, "RpcGroupChat", "createGroup", args)
  <2> HIDE DEF args
  <2>1. QED
    BY <1>1, <1>2, WellServed
<1>4. Creates(db, u, TRUE, s.db)
  <2>1. Creates(db, u, e.faults = 0, e.end.db)
    BY <1>3, CreateGroupLeft
  <2>2. (e.faults = 0) = TRUE
    BY <1>3
  <2>3. QED
    BY <1>3, <2>1, <2>2
<1>5. Spares /\ Len(db.groupinfo) < MaxGroups /\ faults' = faults /\ pc' = pc
  BY DEF OtherCreates, Spares, consoleVars, boundVars
<1>6. /\ RightDb(s.db) /\ Grows(db, s.db)
      /\ \A j \in GroupIds(s.db) \ GroupIds(db) : s.db.groupinfo[j].adminid = u
  <2>1. PICK new, full : new = s.db /\ full = TRUE
    OBVIOUS
  <2>2. Creates(db, u, full, new) /\ u \in {Me} \cup Others /\ RightDb(db) /\ Len(db.groupinfo) < MaxGroups
    BY <1>4, <1>5, <2>1 DEF DbRight
  <2>3. /\ RightDb(new) /\ Grows(db, new)
        /\ \A j \in GroupIds(new) \ GroupIds(db) :
             full => new.groupinfo[j].adminid = u /\ j \in MemberOf(new, u)
    BY <2>2, CreatesGrows
  <2>4. QED
    BY <2>1, <2>3
<1>7. u # Me
  BY UsersAssumption
<1>8. QED
  BY <1>1, <1>5, <1>6, <1>7 DEF DbGrows

(* insertOffline of the chat server. *)
LEMMA StoreGrows ==
  ASSUME NEW m \in Incoming, StoreRow(m), DbRight
  PROVE  /\ Spares /\ DbGrows /\ faults' = faults /\ pc' = pc
         /\ GroupIds(db') = GroupIds(db)
<1> DEFINE r == [userid |-> Me, msg |-> CString(FrameOf(m))]
           f == db.groupinfo
           h == db.groupuser
           o == db.offline_message
           more == Append(o, r)
<1>1. db' = [db EXCEPT !.offline_message = more]
  BY DEF StoreRow
<1>2. /\ db = [user |-> Users, friendship |-> Friendship, groupinfo |-> f,
               groupuser |-> h, offline_message |-> o]
      /\ o \in Seq(Stored)
  BY DEF DbRight, RightDb
<1>3. more \in Seq(Stored)
  <2>1. r \in Stored
    BY DEF Stored
  <2> HIDE DEF r, o
  <2>2. QED
    BY <1>2, <2>1
<1> HIDE DEF f, h, o, more
<1>4. db' = [user |-> Users, friendship |-> Friendship, groupinfo |-> f,
             groupuser |-> h, offline_message |-> more]
  BY <1>1, <1>2
<1>5. PICK new : new = db'
  OBVIOUS
<1>6. /\ new.user = Users /\ new.friendship = Friendship /\ new.groupinfo = f
      /\ new.groupuser = h /\ new.offline_message = more
      /\ db.user = Users /\ db.friendship = Friendship /\ db.groupinfo = f /\ db.groupuser = h
  BY <1>2, <1>4, <1>5
<1>7. RightDb(new)
  <2>1. new = [user |-> Users, friendship |-> Friendship, groupinfo |-> new.groupinfo,
               groupuser |-> new.groupuser, offline_message |-> new.offline_message]
    BY <1>4, <1>5, <1>6
  <2>2. /\ db.groupinfo \in Seq(Infos) /\ Len(db.groupinfo) <= MaxGroups
        /\ \A j \in 1..Len(db.groupinfo) : db.groupinfo[j].groupid = j
        /\ db.groupuser \in Seq(Members)
    BY DEF DbRight, RightDb
  <2>3. QED
    BY <1>3, <1>6, <2>1, <2>2 DEF RightDb
<1>8. Grows(db, new) /\ GroupIds(new) = GroupIds(db)
  BY <1>6 DEF Grows, GroupIds, MemberOf
<1>9. Spares /\ faults' = faults /\ pc' = pc
  BY DEF StoreRow, Spares, consoleVars, boundVars
<1>10. QED
  BY <1>5, <1>7, <1>8, <1>9 DEF DbGrows

-----------------------------------------------------------------------------
(* The tables and the lists, over the steps *)

(* The steps that do something to tables or lists; all the others bide. *)
LEMMA ListSteps ==
  ASSUME [Next]_vars, faults \in Nat, DbRight
  PROVE  \/ Bides \/ GetFriendList \/ GetOfflinemsg \/ CreateGroup
         \/ \E place : \E next \in {"offline", "menu"} : GetGroups(place, next)
         \/ \E g \in Nat : JoinGroup(g)
         \/ \E u \in Others : OtherCreates(u)
         \/ \E m \in Incoming : StoreRow(m)
<1>1. ASSUME NEW to, NEW text, SendMessage(to, text) PROVE Bides
  BY <1>1 DEF SendMessage, Bides
<1>2. ASSUME NEW t, HistoryStep(t) PROVE Bides
  BY <1>2 DEF HistoryStep, Bides, boundVars
<1>3. ASSUME BeginTask PROVE Bides
  BY <1>3 DEF BeginTask, Bides, boundVars
<1>4. ASSUME NEW n, \/ Connect \/ OnConnection \/ Flush \/ Arrive(n) \/ OnMessage \/ Break
                    \/ HandOver(n) \/ Disconnect \/ UNCHANGED vars
      PROVE  Bides
  BY <1>4 DEF Connect, OnConnection, Flush, Arrive, OnMessage, Break, HandOver, Disconnect,
              Bides, consoleVars, boundVars, vars
<1>5. 1..MaxGroups \subseteq Nat
  BY BoundsAssumption
<1>6. CASE ConsoleThread
  BY <1>1, <1>2, <1>3, <1>5, <1>6, LoginBides, SendBides DEF ConsoleThread
<1>7. CASE LoopThread
  BY <1>2, <1>4, <1>7 DEF LoopThread
<1>8. CASE Server
  BY <1>4, <1>8 DEF Server
<1>9. CASE UNCHANGED vars
  BY <1>4, <1>9
<1>10. QED
  BY <1>6, <1>7, <1>8, <1>9 DEF Next

(* Rows stay when the tables grow. *)
LEMMA RowsStay ==
  ASSUME NEW a, NEW b, Grows(a, b), NEW q
  PROVE  FriendRows(a, q) = FriendRows(b, q) /\ GroupRows(a, q) \subseteq GroupRows(b, q)
<1>1. FriendRows(a, q) = FriendRows(b, q)
  BY DEF Grows, FriendRows
<1>2. ASSUME NEW j \in GroupIds(a) \cap MemberOf(a, q)
      PROVE  GroupRow(a.groupinfo[j]) \in GroupRows(b, q)
  <2>1. j \in GroupIds(b) \cap MemberOf(b, q) /\ b.groupinfo[j] = a.groupinfo[j]
    BY DEF Grows
  <2>2. QED
    BY <2>1 DEF GroupRows
<1>3. QED
  BY <1>1, <1>2 DEF GroupRows

(* The lists hold rows; without a fault, every group of the user's own has its
   member row, and is on the screen while the console is at the menu or at the
   call before it. *)
Own(d) == {j \in GroupIds(d) : d.groupinfo[j].adminid = Me}
FriendsAreRows == \E q \in {Me, 0} : friends \in Seq(FriendRows(db, q))
GroupsAreRows == \E q \in {Me, 0} : groups \in Seq(GroupRows(db, q))
OwnIsMember == faults = 0 => \A j \in Own(db) : j \in MemberOf(db, Me)
OwnIsListed ==
  faults = 0 /\ pc \in {"offline", "menu"} =>
    \A j \in Own(db) : \E i \in DOMAIN groups : groups[i].groupid = j
Lists ==
  /\ faults \in Nat /\ DbRight /\ shownRows = <<>>
  /\ FriendsAreRows /\ GroupsAreRows /\ OwnIsMember /\ OwnIsListed

(* They do at first. *)
LEMMA ListsInit == Init => Lists
<1> SUFFICES ASSUME Init PROVE Lists
  OBVIOUS
<1>1. db = Tables0(Users, Friendship)
  BY DEF Init, Users
<1>2. /\ db.groupinfo = <<>> /\ db.groupuser = <<>> /\ db.offline_message = <<>>
      /\ db = [user |-> Users, friendship |-> Friendship, groupinfo |-> <<>>,
               groupuser |-> <<>>, offline_message |-> <<>>]
  BY <1>1 DEF Tables0
<1>3. DbRight
  <2>1. db = [user |-> Users, friendship |-> Friendship, groupinfo |-> db.groupinfo,
              groupuser |-> db.groupuser, offline_message |-> db.offline_message]
    BY <1>2
  <2>2. <<>> \in Seq(Infos) /\ <<>> \in Seq(Members) /\ <<>> \in Seq(Stored) /\ Len(<<>>) = 0
    OBVIOUS
  <2>3. QED
    BY <1>2, <2>1, <2>2, BoundsAssumption DEF DbRight, RightDb
<1>4. Own(db) = {}
  BY <1>2 DEF Own, GroupIds
<1>5. faults = 0 /\ shownRows = <<>> /\ friends = <<>> /\ groups = <<>>
  BY DEF Init
<1>6. FriendsAreRows /\ GroupsAreRows
  BY <1>5 DEF FriendsAreRows, GroupsAreRows
<1>7. QED
  BY <1>3, <1>4, <1>5, <1>6 DEF Lists, OwnIsMember, OwnIsListed

(* Lists that stay are right when the tables grow. *)
LEMMA ListsStay ==
  ASSUME FriendsAreRows, GroupsAreRows, Grows(db, db')
  PROVE  /\ UNCHANGED friends => FriendsAreRows'
         /\ UNCHANGED groups => GroupsAreRows'
<1>1. ASSUME UNCHANGED friends PROVE FriendsAreRows'
  <2>1. PICK q \in {Me, 0} : friends \in Seq(FriendRows(db, q))
    BY DEF FriendsAreRows
  <2>2. FriendRows(db, q) = FriendRows(db', q)
    BY RowsStay
  <2>3. QED
    BY <1>1, <2>1, <2>2 DEF FriendsAreRows
<1>2. ASSUME UNCHANGED groups PROVE GroupsAreRows'
  <2>1. PICK q \in {Me, 0} : groups \in Seq(GroupRows(db, q))
    BY DEF GroupsAreRows
  <2>2. GroupRows(db, q) \subseteq GroupRows(db', q)
    BY RowsStay
  <2> DEFINE A == GroupRows(db, q)
             B == GroupRows(db', q)
  <2> HIDE DEF A, B
  <2>3. groups \in Seq(B)
    BY <2>1, <2>2 DEF A, B
  <2>4. QED
    BY <1>2, <2>3 DEF GroupsAreRows, B
<1>3. QED
  BY <1>1, <1>2

(* When the tables grow and the lists stay, what is said of the user's own groups
   has to be seen of the new ones. *)
LEMMA OwnStays ==
  ASSUME Lists, Grows(db, db'), faults' \in {faults, faults + 1}, UNCHANGED groups,
         faults' = 0 => \A j \in GroupIds(db') \ GroupIds(db) :
                          db'.groupinfo[j].adminid = Me =>
                            j \in MemberOf(db', Me) /\ pc' \notin {"offline", "menu"},
         pc' \in {"offline", "menu"} => pc = pc'
  PROVE  OwnIsMember' /\ OwnIsListed'
<1>1. faults' = 0 => faults = 0
  BY DEF Lists
<1>2. ASSUME NEW j \in Own(db'), j \in GroupIds(db) PROVE j \in Own(db)
  BY <1>2 DEF Own, Grows
<1>3. ASSUME faults' = 0, NEW j \in Own(db')
      PROVE  j \in MemberOf(db', Me)
  <2>1. CASE j \in GroupIds(db)
    BY <1>1, <1>2, <1>3, <2>1 DEF Lists, OwnIsMember, Grows
  <2>2. CASE j \notin GroupIds(db)
    BY <1>3, <2>2 DEF Own
  <2>3. QED
    BY <2>1, <2>2
<1>4. ASSUME faults' = 0, pc' \in {"offline", "menu"}, NEW j \in Own(db')
      PROVE  \E i \in DOMAIN groups' : groups'[i].groupid = j
  <2>1. j \in GroupIds(db)
    BY <1>4 DEF Own
  <2>2. QED
    BY <1>1, <1>2, <1>4, <2>1 DEF Lists, OwnIsListed
<1>5. QED
  BY <1>3, <1>4 DEF OwnIsMember, OwnIsListed

(* And after every step. *)
LEMMA ListsNext == Lists /\ [Next]_vars => Lists'
<1> SUFFICES ASSUME Lists, [Next]_vars PROVE Lists'
  OBVIOUS
<1> USE DEF Lists
<1>1. CASE Bides
  <2>1. Grows(db, db') /\ DbRight' /\ GroupIds(db') \ GroupIds(db) = {}
    BY <1>1, SameGrows DEF Bides, DbRight
  <2>2. QED
    BY <1>1, <2>1, ListsStay, OwnStays DEF Bides
<1>2. CASE GetFriendList
  <2>1. /\ UNCHANGED <<db, groups, shownRows>> /\ faults' \in {faults, faults + 1}
        /\ pc' \notin {"offline", "menu"}
        /\ friends' = friends \/ \E q \in {Me, 0} : friends' \in Seq(FriendRows(db, q))
    BY <1>2, FriendsListed
  <2>2. Grows(db, db') /\ DbRight' /\ GroupIds(db') \ GroupIds(db) = {}
    BY <2>1, SameGrows DEF DbRight
  <2>3. FriendsAreRows'
    BY <2>1 DEF FriendsAreRows
  <2>4. QED
    BY <2>1, <2>2, <2>3, ListsStay, OwnStays
<1>3. ASSUME NEW place, NEW next \in {"offline", "menu"}, GetGroups(place, next) PROVE Lists'
  <2>1. /\ UNCHANGED <<db, friends, shownRows>> /\ faults' \in {faults, faults + 1}
        /\ groups' = groups \/ \E q \in {Me, 0} : groups' \in Seq(GroupRows(db, q))
        /\ faults' = 0 /\ pc' \in {"offline", "menu"} =>
             \A x \in GroupRows(db, Me) : \E i \in DOMAIN groups' : groups'[i] = x
    BY <1>3, GroupsListed
  <2>2. Grows(db, db') /\ DbRight'
    BY <2>1, SameGrows DEF DbRight
  <2>3. GroupsAreRows'
    BY <2>1 DEF GroupsAreRows
  <2>4. OwnIsMember'
    BY <2>1 DEF OwnIsMember
  <2>5. ASSUME faults' = 0, pc' \in {"offline", "menu"}, NEW j \in Own(db')
        PROVE  \E i \in DOMAIN groups' : groups'[i].groupid = j
    <3>1. j \in GroupIds(db) \cap MemberOf(db, Me)
      BY <2>1, <2>5 DEF OwnIsMember, Own
    <3>2. PICK x : x = GroupRow(db.groupinfo[j])
      OBVIOUS
    <3>3. x.groupid = j
      <4>1. db.groupinfo[j] \in Infos /\ db.groupinfo[j].groupid = j
        BY <3>1 DEF DbRight, RightDb, GroupIds
      <4>2. QED
        BY <3>2, <4>1, GroupRowFacts
    <3>4. x \in GroupRows(db, Me)
      BY <3>1, <3>2 DEF GroupRows
    <3>5. QED
      BY <2>1, <2>5, <3>3, <3>4
  <2>6. QED
    BY <2>1, <2>2, <2>3, <2>4, <2>5, ListsStay DEF OwnIsListed
<1>4. CASE GetOfflinemsg
  <2>1. /\ UNCHANGED <<db, friends, groups>> /\ shownRows' = <<>>
        /\ faults' \in {faults, faults + 1} /\ pc = "offline"
    BY <1>4, OfflineBides
  <2>2. Grows(db, db') /\ DbRight'
    BY <2>1, SameGrows DEF DbRight
  <2>3. faults' = 0 => faults = 0
    BY <2>1
  <2>4. OwnIsMember' /\ OwnIsListed'
    BY <2>1, <2>3 DEF OwnIsMember, OwnIsListed
  <2>5. QED
    BY <2>1, <2>2, <2>4, ListsStay
<1>5. ASSUME Spares, DbGrows, faults' \in {faults, faults + 1}, pc' \in {"offline", "menu"} => pc = pc'
      PROVE  Lists'
  BY <1>5, ListsStay, OwnStays DEF Spares, DbGrows, DbRight
<1>6. CASE CreateGroup
  BY <1>5, <1>6, CreateGrows
<1>7. ASSUME NEW g \in Nat, JoinGroup(g) PROVE Lists'
  BY <1>5, <1>7, JoinGrows
<1>8. ASSUME NEW u \in Others, OtherCreates(u) PROVE Lists'
  BY <1>5, <1>8, OtherGrows
<1>9. ASSUME NEW m \in Incoming, StoreRow(m) PROVE Lists'
  BY <1>5, <1>9, StoreGrows
<1>10. QED
  BY <1>1, <1>2, <1>3, <1>4, <1>6, <1>7, <1>8, <1>9, ListSteps

(* The lists are right in every state. *)
LEMMA ListsHold == Spec => []Lists
BY ListsInit, ListsNext, PTL DEF Spec

(* No message that was stored while the user was away is ever printed: a frame's
   row ends inside the four bytes of its length, which begin with a zero byte
   because a body is short, and GetOfflinemsg passes over rows of up to four bytes
   (mysqlmodel.cpp:23, rpcclient.cpp:178), whatever a call loses. *)
THEOREM NeverShown == Spec => []StoredIsNeverShown
<1>1. Lists => StoredIsNeverShown
  BY DEF Lists, StoredIsNeverShown
<1>2. QED
  BY <1>1, ListsHold, PTL

(* The columns of a friend's row. *)
LEMMA FriendRowColumns ==
  ASSUME NEW d, NEW q, NEW x \in FriendRows(d, q)
  PROVE  \E u \in d.user : /\ <<q, u.userid>> \in d.friendship /\ x.userid = u.userid
                           /\ x.friendname = u.nickname /\ x.online = u.online
<1>1. PICK u \in d.user :
        /\ <<q, u.userid>> \in d.friendship
        /\ x = New("Friends", [userid |-> u.userid, friendname |-> u.nickname, online |-> u.online])
  BY DEF FriendRows
<1> DEFINE v == [userid |-> u.userid, friendname |-> u.nickname, online |-> u.online]
           y == New("Friends", v)
<1>2. /\ DOMAIN v = {"userid", "friendname", "online"} /\ "unknown" \notin DOMAIN v
      /\ v["userid"] = u.userid /\ v["friendname"] = u.nickname /\ v["online"] = u.online
  OBVIOUS
<1> HIDE DEF v
<1>3. \A f \in DOMAIN Fields["Friends"] :
         y[f] = IF f \in DOMAIN v THEN v[f] ELSE Zero(Fields["Friends"][f])
  BY <1>2, NewFacts, FriendsTable DEF Flat
<1>4. x = y
  BY <1>1 DEF v
<1> HIDE DEF y
<1>5. y["userid"] = v["userid"] /\ y["friendname"] = v["friendname"] /\ y["online"] = v["online"]
  BY <1>2, <1>3, FriendsTable
<1>6. QED
  BY <1>1, <1>2, <1>4, <1>5

(* What getFriendList and getGroup put on the screen are rows of the tables,
   column for column, of the user's or, when a request has lost its userid, of
   user 0, however requests and responses are cut (rpcclient.cpp:118-165,
   user.pb.cc, group.pb.cc). *)
THEOREM ListsHoldRows == Spec => []ListsAreRows
<1>1. ASSUME Lists PROVE ListsAreRows
  <2>1. ASSUME NEW i \in DOMAIN friends
        PROVE  /\ <<Me, friends[i].userid>> \in db.friendship
               /\ \E u \in db.user : /\ u.userid = friends[i].userid
                                    /\ u.nickname = friends[i].friendname
                                    /\ u.online = friends[i].online
    <3>1. PICK q \in {Me, 0} : friends[i] \in FriendRows(db, q)
      BY <1>1 DEF Lists, FriendsAreRows
    <3>2. PICK x : x = friends[i]
      OBVIOUS
    <3>3. PICK u \in db.user : /\ <<q, u.userid>> \in db.friendship /\ x.userid = u.userid
                              /\ x.friendname = u.nickname /\ x.online = u.online
      BY <3>1, <3>2, FriendRowColumns
    <3>4. q = Me
      BY <1>1, <3>3, UsersAssumption DEF Lists, DbRight, RightDb
    <3>5. QED
      BY <3>2, <3>3, <3>4
  <2>2. ASSUME NEW i \in DOMAIN groups
        PROVE  /\ groups[i].groupid \in MemberOf(db, Me) \cup MemberOf(db, 0)
               /\ \E j \in GroupIds(db) : groups[i] = GroupRow(db.groupinfo[j])
    <3>1. PICK q \in {Me, 0} : groups[i] \in GroupRows(db, q)
      BY <1>1 DEF Lists, GroupsAreRows
    <3>2. PICK j \in GroupIds(db) \cap MemberOf(db, q) : groups[i] = GroupRow(db.groupinfo[j])
      BY <3>1 DEF GroupRows
    <3>3. PICK x : x = groups[i]
      OBVIOUS
    <3>4. x.groupid = j
      <4>1. db.groupinfo[j] \in Infos /\ db.groupinfo[j].groupid = j
        BY <1>1 DEF Lists, DbRight, RightDb, GroupIds
      <4>2. QED
        BY <3>2, <3>3, <4>1, GroupRowFacts
    <3>5. QED
      BY <3>2, <3>3, <3>4
  <2>3. QED
    BY <2>1, <2>2 DEF ListsAreRows
<1>2. QED
  BY <1>1, ListsHold, PTL

(* Without a fault the menu shows every group the user has created: insertGroup,
   addGroup and the new list are three statements in two calls
   (groupChat.cpp, rpcclient.cpp). *)
THEOREM OwnAreListed == Spec => []OwnGroupsListed
<1>1. Lists => OwnGroupsListed
  BY DEF Lists, OwnIsListed, Own, OwnGroupsListed, AtConsole
<1>2. QED
  BY <1>1, ListsHold, PTL

-----------------------------------------------------------------------------
(* The two threads at the history *)

(* What OnMessage shows is the message handed over next. *)
LEMMA ShowsHanded ==
  ASSUME StreamRight, FrameReady(buffer), NEW m \in Shows(BodyIn(buffer))
  PROVE  Len(shown) + 1 \in 1..Len(handed) /\ m = handed[Len(shown) + 1]
<1> DEFINE k == Len(shown) + 1
<1>0. PICK r : Remains(r)
  BY DEF StreamRight
<1>1. k \in 1..Len(handed) /\ BodyIn(buffer) = BodyOf(handed[k])
  BY <1>0, NextIsHanded
<1>2. handed[k] \in Incoming
  BY <1>1 DEF StreamRight
<1> HIDE DEF k
<1>3. Shows(BodyOf(handed[k])) = {handed[k]}
  BY <1>2, BodyFacts
<1>4. QED
  BY <1>1, <1>3 DEF k

(* The steps at the history; all the others leave it alone. *)
LEMMA HistoryMoves ==
  ASSUME [Next]_vars
  PROVE  UNCHANGED histVars \/ BeginTask \/ OnMessage \/ \E t \in Threads : HistoryStep(t)
<1> HIDE DEF histVars
<1>1. ASSUME NEW p, NEW q, \/ Login \/ GetFriendList \/ GetOfflinemsg \/ CreateGroup
                           \/ GetGroups(p, q) \/ JoinGroup(p) \/ OtherCreates(p)
                           \/ SendMessage(p, q) \/ SendGroupMessage(p, q)
      PROVE  UNCHANGED histVars
  BY <1>1 DEF Login, GetFriendList, GetOfflinemsg, CreateGroup, GetGroups, JoinGroup,
              OtherCreates, SendMessage, SendGroupMessage
<1>2. ASSUME NEW p, \/ Connect \/ OnConnection \/ Flush \/ Disconnect \/ Break \/ Arrive(p)
                    \/ HandOver(p) \/ StoreRow(p) \/ UNCHANGED vars
      PROVE  UNCHANGED histVars
  BY <1>2 DEF Connect, OnConnection, Flush, Disconnect, Break, Arrive, HandOver, StoreRow, vars
<1>3. Console \in Threads /\ Loop \in Threads
  BY ThreadsAssumption
<1>4. CASE ConsoleThread
  BY <1>1, <1>3, <1>4 DEF ConsoleThread
<1>5. CASE LoopThread
  BY <1>2, <1>3, <1>5 DEF LoopThread
<1>6. CASE Server
  BY <1>1, <1>2, <1>6 DEF Server
<1>7. QED
  BY <1>2, <1>4, <1>5, <1>6 DEF Next

(* The steps that hand messages over, store or show them. *)
LEMMA UsedMoves ==
  ASSUME [Next]_vars
  PROVE  \/ UNCHANGED <<used, handed, shown>> \/ Disconnect \/ OnMessage
         \/ \E m \in Incoming : HandOver(m) \/ StoreRow(m)
<1>1. ASSUME NEW p, NEW q, \/ SendMessage(p, q) \/ Connect \/ OnConnection \/ Flush \/ Break \/ Arrive(p)
      PROVE  UNCHANGED <<used, handed, shown>>
  BY <1>1 DEF SendMessage, Connect, OnConnection, Flush, Break, Arrive
<1>2. CASE UNCHANGED <<linkVars, queued, used>>
  BY <1>2 DEF linkVars
<1>3. QED
  BY <1>1, <1>2, LinkSteps DEF LinkStep

(* What the console has to do at the history. *)
Creations == {Create(n) : n \in Tables}
OwnRow(i) == HistoryRow(Me, "", Outgoing[i].text, Now)
OwnInsert(i) == Insert(FriendTable(Outgoing[i].to), OwnRow(i))

(* The tables getFriendList creates are tables of the history. *)
LEMMA FriendTables ==
  ASSUME NEW d, RightDb(d), NEW q \in {Me, 0}, NEW list \in Seq(FriendRows(d, q))
  PROVE  [i \in DOMAIN list |-> Create(FriendTable(list[i].userid))] \in Seq(Creations)
<1>1. Len(list) \in Nat /\ DOMAIN list = 1..Len(list)
  OBVIOUS
<1>2. ASSUME NEW x \in FriendRows(d, q) PROVE FriendTable(x.userid) \in Tables
  <2>1. PICK u \in d.user : <<q, u.userid>> \in d.friendship /\ x.userid = u.userid
    BY FriendRowColumns
  <2>2. u.userid \in {Me} \cup Others
    BY <2>1, UsersAssumption DEF RightDb
  <2>3. QED
    BY <2>1, <2>2, TablesAssumption
<1>3. \A i \in 1..Len(list) : Create(FriendTable(list[i].userid)) \in Creations
  BY <1>2 DEF Creations
<1>4. QED
  BY <1>1, <1>3

(* So are those getGroup creates. *)
LEMMA GroupTables ==
  ASSUME NEW d, RightDb(d), NEW q \in {Me, 0}, NEW list \in Seq(GroupRows(d, q))
  PROVE  [i \in DOMAIN list |-> Create(GroupTable(list[i].groupid))] \in Seq(Creations)
<1>1. Len(list) \in Nat /\ DOMAIN list = 1..Len(list)
  OBVIOUS
<1>2. ASSUME NEW x \in GroupRows(d, q) PROVE GroupTable(x.groupid) \in Tables
  <2>1. PICK j \in GroupIds(d) \cap MemberOf(d, q) : x = GroupRow(d.groupinfo[j])
    BY DEF GroupRows
  <2>2. /\ d.groupinfo \in Seq(Infos) /\ j \in 1..Len(d.groupinfo) /\ Len(d.groupinfo) \in Nat
        /\ Len(d.groupinfo) <= MaxGroups /\ d.groupinfo[j] \in Infos /\ d.groupinfo[j].groupid = j
    BY <2>1 DEF RightDb, GroupIds
  <2>3. x.groupid = j
    BY <2>1, <2>2, GroupRowFacts
  <2>4. j \in 1..MaxGroups
    BY <2>2, BoundsAssumption
  <2>5. QED
    BY <2>3, <2>4, TablesAssumption
<1>3. \A i \in 1..Len(list) : Create(GroupTable(list[i].groupid)) \in Creations
  BY <1>2 DEF Creations
<1>4. QED
  BY <1>1, <1>3

(* How what the console has to do changes. *)
LEMMA TodoMoves ==
  ASSUME Lists, Lists', [Next]_vars
  PROVE  \/ UNCHANGED <<todo, commands>>
         \/ BeginTask
         \/ /\ todo = <<>> /\ todo' \in Seq(Creations)
            /\ commands' \in {commands, commands + 1}
         \/ \E n \in DOMAIN Outgoing :
              /\ n = commands + 1 /\ commands' = n /\ todo = <<>>
              /\ todo' = <<OwnInsert(n)>> /\ UNCHANGED <<histVars, used, handed, shown>>
<1> HIDE DEF histVars
<1>0. <<>> \in Seq(Creations)
  OBVIOUS
<1>1. CASE Login
  BY <1>1 DEF Login
<1>2. CASE GetFriendList
  <2>1. todo = <<>> /\ UNCHANGED commands
    BY <1>2 DEF GetFriendList, AtConsole
  <2>2. todo' = todo \/ todo' = [i \in DOMAIN friends' |-> Create(FriendTable(friends'[i].userid))]
    BY <1>2 DEF GetFriendList, Call, ListsFriends
  <2>3. PICK new, list : new = db' /\ list = friends'
    OBVIOUS
  <2>4. [i \in DOMAIN friends' |-> Create(FriendTable(friends'[i].userid))] \in Seq(Creations)
    <3>1. PICK q \in {Me, 0} : list \in Seq(FriendRows(new, q))
      BY <2>3 DEF Lists, FriendsAreRows
    <3>2. RightDb(new)
      BY <2>3 DEF Lists, DbRight
    <3>3. [i \in DOMAIN list |-> Create(FriendTable(list[i].userid))] \in Seq(Creations)
      BY <3>1, <3>2, FriendTables
    <3>4. QED
      BY <2>3, <3>3
  <2>5. QED
    BY <2>1, <2>2, <2>4
<1>3. ASSUME NEW place, NEW next, GetGroups(place, next)
      PROVE  todo = <<>> /\ UNCHANGED commands /\ (todo' = todo \/ todo' \in Seq(Creations))
  <2>1. todo = <<>> /\ UNCHANGED commands
    BY <1>3 DEF GetGroups, AtConsole
  <2>2. todo' = todo \/ todo' = [i \in DOMAIN groups' |-> Create(GroupTable(groups'[i].groupid))]
    BY <1>3 DEF GetGroups, Call, ListsGroups
  <2>3. PICK new, list : new = db' /\ list = groups'
    OBVIOUS
  <2>4. [i \in DOMAIN groups' |-> Create(GroupTable(groups'[i].groupid))] \in Seq(Creations)
    <3>1. PICK q \in {Me, 0} : list \in Seq(GroupRows(new, q))
      BY <2>3 DEF Lists, GroupsAreRows
    <3>2. RightDb(new)
      BY <2>3 DEF Lists, DbRight
    <3>3. [i \in DOMAIN list |-> Create(GroupTable(list[i].groupid))] \in Seq(Creations)
      BY <3>1, <3>2, GroupTables
    <3>4. QED
      BY <2>3, <3>3
  <2>5. QED
    BY <2>1, <2>2, <2>4
<1>4. CASE GetOfflinemsg
  <2>1. todo = <<>> /\ UNCHANGED commands
    BY <1>4 DEF GetOfflinemsg, AtConsole
  <2>2. todo' \in {todo, <<>>}
    BY <1>4, OfflineBides DEF Lists
  <2>3. QED
    BY <1>0, <2>1, <2>2
<1>5. ASSUME NEW n \in DOMAIN Outgoing, n = commands + 1,
             SendMessage(Outgoing[n].to, Outgoing[n].text)
      PROVE  /\ n = commands + 1 /\ commands' = n /\ todo = <<>>
             /\ \/ todo' = todo
                \/ todo' = <<OwnInsert(n)>> /\ UNCHANGED <<histVars, used, handed, shown>>
  BY <1>5 DEF SendMessage, AtMenu, AtConsole, OwnInsert, OwnRow
<1>6. ASSUME NEW p, NEW q, CreateGroup \/ JoinGroup(p) \/ SendGroupMessage(p, q)
      PROVE  todo = <<>> /\ todo' = todo /\ commands' = commands + 1
  BY <1>6 DEF CreateGroup, JoinGroup, SendGroupMessage, AtMenu, AtConsole
<1>7. ASSUME NEW t, HistoryStep(t) PROVE UNCHANGED <<todo, commands>>
  BY <1>7 DEF HistoryStep, boundVars
<1>8. ASSUME NEW p, \/ Connect \/ OnConnection \/ Flush \/ Disconnect \/ Break \/ Arrive(p)
                    \/ HandOver(p) \/ StoreRow(p) \/ OtherCreates(p) \/ OnMessage \/ UNCHANGED vars
      PROVE  UNCHANGED <<todo, commands>>
  BY <1>8 DEF Connect, OnConnection, Flush, Disconnect, Break, Arrive, HandOver, StoreRow,
              OtherCreates, OnMessage, consoleVars, boundVars, vars
<1>9. CASE ConsoleThread
  BY <1>0, <1>1, <1>2, <1>3, <1>4, <1>5, <1>6, <1>7, <1>9 DEF ConsoleThread
<1>10. CASE LoopThread
  BY <1>7, <1>8, <1>10 DEF LoopThread
<1>11. CASE Server
  BY <1>8, <1>11 DEF Server
<1>12. QED
  BY <1>8, <1>9, <1>10, <1>11 DEF Next

-----------------------------------------------------------------------------
(* Whose rows there are *)

(* The messages handed over that OnMessage has not shown. *)
Waiting == {handed[j] : j \in Len(shown) + 1 .. Len(handed)}
FromMessage(r) == \E m \in used \ Waiting : r = RowOf(m)
FromCommand(r) == \E i \in DOMAIN Outgoing \cap (1..commands) : r = OwnRow(i)
UsedKnown == \A r \in Used : FromMessage(r) \/ FromCommand(r)

(* The console has tables to create, or the row of its last command to insert. *)
TodoRight ==
  \/ todo \in Seq(Creations)
  \/ \E i \in DOMAIN Outgoing \cap (1..commands) :
        todo = <<OwnInsert(i)>> /\ OwnRow(i) \notin Used

(* A message is handed over once. *)
HandedOnce ==
  /\ used \subseteq Incoming /\ \A j \in 1..Len(handed) : handed[j] \in used
  /\ \A j, k \in 1..Len(handed) : handed[j] = handed[k] => j = k

(* Every row is, or will be, in the table of the one it was exchanged with. *)
Comes(n, r) ==
  \/ \E m \in Incoming : n = TableOf(m) /\ r = RowOf(m)
  \/ \E i \in DOMAIN Outgoing : n = FriendTable(Outgoing[i].to) /\ r = OwnRow(i)
RowsCome == \A n \in Tables : \A r \in Range(rows[n]) : Comes(n, r)
CallsCome == \A t \in Threads : \A r \in Range(row[t]) : Comes(table[t], r)

HistoryRight ==
  /\ HistIInv /\ Once /\ commands \in Nat
  /\ UsedKnown /\ TodoRight /\ HandedOnce /\ RowsCome /\ CallsCome

(* Texts tell rows apart. *)
LEMMA RowsApart ==
  /\ \A m, o \in Incoming : RowOf(m) = RowOf(o) => m = o
  /\ \A i, j \in DOMAIN Outgoing : OwnRow(i) = OwnRow(j) => i = j
  /\ \A m \in Incoming : \A i \in DOMAIN Outgoing : RowOf(m) # OwnRow(i)
<1>1. ASSUME NEW m PROVE RowOf(m).msg = m.value.msg
  BY DEF RowOf, HistoryRow
<1>2. ASSUME NEW i PROVE OwnRow(i).msg = Outgoing[i].text
  BY DEF OwnRow, HistoryRow
<1>3. ASSUME NEW m \in Incoming, NEW o \in Incoming, RowOf(m) = RowOf(o) PROVE m = o
  <2>1. m.value.msg = o.value.msg
    BY <1>1, <1>3
  <2>2. QED
    BY <2>1, TextsAssumption
<1>4. ASSUME NEW i \in DOMAIN Outgoing, NEW j \in DOMAIN Outgoing, OwnRow(i) = OwnRow(j) PROVE i = j
  <2>1. Outgoing[i].text = Outgoing[j].text
    BY <1>2, <1>4
  <2>2. QED
    BY <2>1, TextsAssumption
<1>5. ASSUME NEW m \in Incoming, NEW i \in DOMAIN Outgoing, RowOf(m) = OwnRow(i) PROVE FALSE
  <2>1. m.value.msg = Outgoing[i].text
    BY <1>1, <1>2, <1>5
  <2>2. QED
    BY <2>1, TextsAssumption
<1>6. QED
  BY <1>3, <1>4, <1>5

(* OnMessage begins a call for the next message's row, which is new. *)
LEMMA NextRowNew ==
  ASSUME StreamRight, HistoryRight, OnMessage
  PROVE  \E m \in Incoming :
           /\ Len(shown) + 1 \in 1..Len(handed) /\ m = handed[Len(shown) + 1]
           /\ shown' = Append(shown, m) /\ UNCHANGED <<handed, used, commands, todo>>
           /\ TableOf(m) \in Tables /\ RowOf(m) \in Rows \ Used
           /\ Prepare(Loop, TableOf(m), RowOf(m))
<1>1. PICK m \in Shows(BodyIn(buffer)) :
         shown' = Append(shown, m) /\ Prepare(Loop, TableOf(m), RowOf(m))
  BY DEF OnMessage
<1>2. FrameReady(buffer) /\ UNCHANGED <<handed, used, commands, todo>>
  BY DEF OnMessage, consoleVars, boundVars
<1>3. Len(shown) + 1 \in 1..Len(handed) /\ m = handed[Len(shown) + 1]
  BY <1>1, <1>2, ShowsHanded
<1>4. m \in Incoming
  BY <1>3 DEF StreamRight
<1>5. m \in Waiting
  <2>1. Len(shown) + 1 \in Len(shown) + 1 .. Len(handed)
    BY <1>3 DEF StreamRight
  <2>2. QED
    BY <1>3, <2>1 DEF Waiting
<1>6. RowOf(m) \notin Used
  <2> SUFFICES ASSUME RowOf(m) \in Used PROVE FALSE
    OBVIOUS
  <2>1. CASE FromMessage(RowOf(m))
    <3>1. PICK o \in used \ Waiting : RowOf(m) = RowOf(o)
      BY <2>1 DEF FromMessage
    <3>2. o \in Incoming
      BY DEF HistoryRight, HandedOnce
    <3>3. QED
      BY <1>4, <1>5, <3>1, <3>2, RowsApart
  <2>2. CASE FromCommand(RowOf(m))
    BY <1>4, <2>2, RowsApart DEF FromCommand
  <2>3. QED
    BY <2>1, <2>2 DEF HistoryRight, UsedKnown
<1>7. TableOf(m) \in Tables /\ RowOf(m) \in Rows
  BY <1>4, TablesAssumption
<1>8. QED
  BY <1>1, <1>2, <1>3, <1>4, <1>6, <1>7

(* BeginTask begins one for a table, or for the last command's row, which is new. *)
LEMMA TaskNew ==
  ASSUME HistoryRight, BeginTask
  PROVE  /\ UNCHANGED <<handed, shown, used, commands>>
         /\ \/ todo' \in Seq(Creations) /\ \E n \in Tables : CreateTable(Console, n)
            \/ /\ todo' = <<>>
               /\ \E i \in DOMAIN Outgoing \cap (1..commands) :
                    /\ OwnRow(i) \in Rows \ Used /\ FriendTable(Outgoing[i].to) \in Tables
                    /\ Prepare(Console, FriendTable(Outgoing[i].to), OwnRow(i))
<1>1. UNCHANGED <<handed, shown, used, commands>> /\ todo' = Tail(todo) /\ todo # <<>>
  BY DEF BeginTask, linkVars, boundVars
<1>2. PICK task : /\ task = Head(todo)
                  /\ \/ task.op = "create" /\ CreateTable(Console, task.table)
                     \/ task.op = "insert" /\ Prepare(Console, task.table, task.row)
  BY DEF BeginTask
<1>3. CASE todo \in Seq(Creations)
  <2>1. task \in Creations /\ Tail(todo) \in Seq(Creations)
    BY <1>1, <1>2, <1>3
  <2>2. PICK n \in Tables : task = Create(n)
    BY <2>1 DEF Creations
  <2>3. task.op = "create" /\ task.table = n
    BY <2>2 DEF Create
  <2>4. QED
    BY <1>1, <1>2, <2>1, <2>3
<1>4. ASSUME NEW i \in DOMAIN Outgoing \cap (1..commands), todo = <<OwnInsert(i)>>, OwnRow(i) \notin Used
      PROVE  /\ todo' = <<>>
             /\ \E k \in DOMAIN Outgoing \cap (1..commands) :
                    /\ OwnRow(k) \in Rows \ Used /\ FriendTable(Outgoing[k].to) \in Tables
                    /\ Prepare(Console, FriendTable(Outgoing[k].to), OwnRow(k))
  <2>1. task = OwnInsert(i) /\ todo' = <<>>
    <3>1. Head(<<OwnInsert(i)>>) = OwnInsert(i) /\ Tail(<<OwnInsert(i)>>) = <<>>
      OBVIOUS
    <3>2. QED
      BY <1>1, <1>2, <1>4, <3>1
  <2>2. task.op = "insert" /\ task.table = FriendTable(Outgoing[i].to) /\ task.row = OwnRow(i)
    BY <2>1 DEF OwnInsert, Insert
  <2>3. OwnRow(i) \in Rows /\ FriendTable(Outgoing[i].to) \in Tables
    BY TablesAssumption DEF OwnRow
  <2>4. QED
    BY <1>2, <1>4, <2>1, <2>2, <2>3
<1>5. QED
  BY <1>1, <1>3, <1>4 DEF HistoryRight, TodoRight

(* So a step is a step of the history's specification. *)
LEMMA StepsUseHistory ==
  ASSUME StreamRight, HistoryRight, [Next]_vars
  PROVE  [HistNext]_histVars
<1> HIDE DEF histVars
<1>1. CASE OnMessage
  BY <1>1, NextRowNew, ThreadsAssumption DEF HistNext
<1>2. CASE BeginTask
  BY <1>2, TaskNew, ThreadsAssumption DEF HistNext
<1>3. ASSUME NEW t \in Threads, HistoryStep(t) PROVE HistNext
  BY <1>3 DEF HistNext, HistoryStep
<1>4. QED
  BY <1>1, <1>2, <1>3, HistoryMoves

-----------------------------------------------------------------------------
(* The messages' origins, over the steps *)

(* The commands are counted. *)
LEMMA CommandsCount ==
  ASSUME commands \in Nat, Lists, Lists', [Next]_vars
  PROVE  commands' \in Nat /\ 1..commands \subseteq 1..commands'
<1>1. commands' \in {commands, commands + 1}
  <2>1. BeginTask => commands' = commands
    BY DEF BeginTask, boundVars
  <2>2. QED
    BY <2>1, TodoMoves
<1>2. QED
  BY <1>1

(* A message that has been shown, or stored, waits no more; one that is handed
   over has not been seen before. *)
LEMMA WaitingMoves ==
  ASSUME StreamRight, HistoryRight, [Next]_vars
  PROVE  /\ HandedOnce' /\ used \subseteq used'
         /\ \A m \in used : m \in Waiting' => m \in Waiting
         /\ OnMessage => handed[Len(shown) + 1] \in used' \ Waiting'
<1>0. /\ used \subseteq Incoming /\ \A j \in 1..Len(handed) : handed[j] \in used
      /\ \A j, k \in 1..Len(handed) : handed[j] = handed[k] => j = k
      /\ handed \in Seq(Incoming) /\ shown \in Seq(Incoming)
      /\ Len(handed) \in Nat /\ Len(shown) \in Nat /\ Len(shown) <= Len(handed)
  BY DEF HistoryRight, HandedOnce, StreamRight
<1>1. CASE UNCHANGED <<used, handed, shown>>
  <2>1. ~OnMessage
    <3> SUFFICES ASSUME OnMessage PROVE FALSE
      OBVIOUS
    <3>1. PICK m : shown' = Append(shown, m)
      BY DEF OnMessage
    <3>2. Len(Append(shown, m)) = Len(shown) + 1
      BY <1>0
    <3>3. QED
      BY <1>0, <1>1, <3>1, <3>2
  <2>2. QED
    BY <1>0, <1>1, <2>1 DEF HandedOnce, Waiting
<1>2. CASE Disconnect
  <2>1. handed' = <<>> /\ shown' = <<>> /\ used' = used
    BY <1>2 DEF Disconnect
  <2>2. Waiting' = {} /\ HandedOnce'
    BY <1>0, <2>1 DEF Waiting, HandedOnce
  <2>3. ~OnMessage
    BY <1>2 DEF OnMessage, Disconnect, AtLoop
  <2>4. QED
    BY <2>1, <2>2, <2>3
<1>3. CASE OnMessage
  <2> DEFINE k == Len(shown) + 1
  <2>1. PICK m \in Incoming : /\ k \in 1..Len(handed) /\ m = handed[k] /\ shown' = Append(shown, m)
                             /\ UNCHANGED <<handed, used>>
    BY <1>3, NextRowNew
  <2>2. Len(shown') = k /\ k \in Nat
    BY <1>0, <2>1
  <2>3. handed[k] \in used'
    BY <1>0, <2>1
  <2> HIDE DEF k
  <2>4. Waiting' = {handed[j] : j \in k + 1 .. Len(handed)}
    BY <2>1, <2>2 DEF Waiting
  <2>5. \A j \in k + 1 .. Len(handed) : j \in k .. Len(handed) /\ j # k /\ j \in 1..Len(handed)
    BY <1>0, <2>1, <2>2
  <2>6. Waiting' \subseteq Waiting
    BY <2>4, <2>5 DEF Waiting, k
  <2>7. handed[k] \notin Waiting'
    BY <1>0, <2>1, <2>4, <2>5
  <2>8. HandedOnce'
    BY <1>0, <2>1 DEF HandedOnce
  <2>9. QED
    BY <2>1, <2>3, <2>6, <2>7, <2>8 DEF k
<1>4. ASSUME NEW m \in Incoming, HandOver(m)
      PROVE  /\ HandedOnce' /\ used \subseteq used'
             /\ \A o \in used : o \in Waiting' => o \in Waiting
             /\ ~OnMessage
  <2> DEFINE h == Len(handed)
  <2>1. /\ m \notin used /\ handed' = Append(handed, m) /\ used' = used \cup {m}
        /\ shown' = shown /\ loop' = loop
    BY <1>4 DEF HandOver
  <2>2. /\ Len(handed') = h + 1 /\ handed'[h + 1] = m /\ h \in Nat
        /\ \A i \in 1..h : handed'[i] = handed[i]
    BY <1>0, <2>1
  <2> HIDE DEF h
  <2>3. \A j \in 1..(h + 1) : j \in 1..h \/ j = h + 1
    BY <2>2
  <2>4. \A j \in Len(shown) + 1 .. (h + 1) : (j \in Len(shown) + 1 .. h /\ j \in 1..h) \/ j = h + 1
    BY <1>0, <2>2
  <2>5. \A j \in 1..h : handed[j] \in used
    BY <1>0 DEF h
  <2>6. HandedOnce'
    <3>1. \A j \in 1..(h + 1) : handed'[j] \in used'
      BY <2>1, <2>2, <2>3, <2>5
    <3>2. \A j, k \in 1..(h + 1) : handed'[j] = handed'[k] => j = k
      BY <1>0, <2>1, <2>2, <2>3, <2>5 DEF h
    <3>3. QED
      BY <1>0, <2>1, <2>2, <3>1, <3>2 DEF HandedOnce
  <2>7. ASSUME NEW o \in used, o \in Waiting' PROVE o \in Waiting
    <3>1. PICK j \in Len(shown) + 1 .. (h + 1) : o = handed'[j]
      BY <2>1, <2>2, <2>7 DEF Waiting
    <3>2. j # h + 1
      BY <2>1, <2>2, <2>7, <3>1
    <3>3. QED
      BY <2>2, <2>4, <3>1, <3>2 DEF Waiting, h
  <2>8. ~OnMessage
    <3> SUFFICES ASSUME OnMessage PROVE FALSE
      OBVIOUS
    <3>1. PICK x : shown' = Append(shown, x)
      BY DEF OnMessage
    <3>2. Len(Append(shown, x)) = Len(shown) + 1
      BY <1>0
    <3>3. QED
      BY <1>0, <2>1, <3>1, <3>2
  <2>9. QED
    BY <2>1, <2>6, <2>7, <2>8
<1>5. ASSUME NEW m \in Incoming, StoreRow(m)
      PROVE  /\ HandedOnce' /\ used \subseteq used' /\ Waiting' = Waiting
             /\ UNCHANGED shown
  <2>1. used' = used \cup {m} /\ UNCHANGED <<handed, shown>>
    BY <1>5 DEF StoreRow, linkVars
  <2>2. QED
    BY <1>0, <2>1 DEF HandedOnce, Waiting
<1>6. ASSUME OnMessage PROVE shown' # shown
  <2>1. PICK x : shown' = Append(shown, x)
    BY <1>6 DEF OnMessage
  <2>2. Len(Append(shown, x)) = Len(shown) + 1
    BY <1>0
  <2>3. QED
    BY <1>0, <2>1, <2>2
<1>7. QED
  BY <1>1, <1>2, <1>3, <1>4, <1>5, <1>6, UsedMoves

(* The origins stay. *)
LEMMA OriginsStay ==
  ASSUME StreamRight, HistoryRight, Lists, Lists', [Next]_vars, NEW r
  PROVE  (FromMessage(r) => FromMessage(r)') /\ (FromCommand(r) => FromCommand(r)')
<1>1. FromMessage(r) => FromMessage(r)'
  BY WaitingMoves DEF FromMessage
<1>2. FromCommand(r) => FromCommand(r)'
  BY CommandsCount DEF FromCommand, HistoryRight
<1>3. QED
  BY <1>1, <1>2

(* Rows come from messages, over a step of the history. *)
LEMMA ComesKept ==
  ASSUME HistTypeOK, RowsCome, CallsCome, NEW t \in Threads,
         \/ HistStep(t)
         \/ \E n \in Tables : \/ CreateTable(t, n)
                             \/ \E r \in Rows : Comes(n, r) /\ Prepare(t, n, r)
  PROVE  RowsCome' /\ CallsCome'
<1>1. Range(<<>>) = {} /\ \A r : Range(<<r>>) = {r}
  BY DEF Range
<1>2. ASSUME NEW n, NEW R, NEW stage, Begins(t, stage, n, R), UNCHANGED rows,
             \A r \in Range(R) : Comes(n, r)
      PROVE  RowsCome' /\ CallsCome'
  <2>1. \A u \in Threads : (row'[u] = row[u] /\ table'[u] = table[u]) \/ (row'[u] = R /\ table'[u] = n)
    BY <1>2 DEF Begins, HistTypeOK
  <2>2. QED
    BY <1>2, <2>1 DEF RowsCome, CallsCome
<1>3. ASSUME NEW n \in Tables, CreateTable(t, n) PROVE RowsCome' /\ CallsCome'
  BY <1>1, <1>2, <1>3 DEF CreateTable
<1>4. ASSUME NEW n \in Tables, NEW r \in Rows, Comes(n, r), Prepare(t, n, r)
      PROVE  RowsCome' /\ CallsCome'
  BY <1>1, <1>2, <1>4 DEF Prepare
<1>5. ASSUME HistStep(t) PROVE RowsCome' /\ CallsCome'
  <2>1. \A u \in Threads : row'[u] = <<>> \/ (row'[u] = row[u] /\ table'[u] = table[u])
    BY <1>5 DEF HistStep, StepRow, Finish, Index, Returns, HistTypeOK
  <2>2. CallsCome'
    BY <1>1, <2>1 DEF CallsCome
  <2>3. ASSUME NEW n \in Tables, NEW r \in Range(rows'[n]) PROVE Comes(n, r)
    <3>1. rows'[n] = rows[n] \/ (n = table[t] /\ rows'[n] = rows[n] \o row[t])
      BY <1>5 DEF HistStep, StepRow, Finish, Index, HistTypeOK
    <3>2. r \in Range(rows[n]) \/ (n = table[t] /\ r \in Range(row[t]))
      <4> DEFINE s == rows[n]
                 q == row[t]
      <4>1. s \in Seq(Rows) /\ q \in Seq(Rows)
        BY DEF HistTypeOK
      <4> HIDE DEF s, q
      <4>2. Range(s \o q) \subseteq Range(s) \cup Range(q)
        BY <4>1, RangeOfBoth
      <4>3. QED
        BY <2>3, <3>1, <4>2 DEF s, q
    <3>3. QED
      BY <3>2 DEF RowsCome, CallsCome
  <2>4. QED
    BY <2>2, <2>3 DEF RowsCome
<1>6. QED
  BY <1>3, <1>4, <1>5

(* Every step keeps the history right. *)
LEMMA HistoryKept ==
  ASSUME StreamRight, HistoryRight, Lists, Lists', [Next]_vars
  PROVE  HistoryRight'
<1>0. HistTypeOK /\ [HistNext]_histVars
  BY StepsUseHistory DEF HistoryRight, HistIInv
<1>1. HistIInv' /\ Once'
  BY <1>0, HistNextIInv, OnceKept DEF HistoryRight
<1>2. commands' \in Nat
  BY CommandsCount DEF HistoryRight
<1>3. HandedOnce'
  BY WaitingMoves
<1> DEFINE Kept == UsedKnown' /\ TodoRight' /\ RowsCome' /\ CallsCome'
<1>o. \A r : (FromMessage(r) => FromMessage(r)') /\ (FromCommand(r) => FromCommand(r)')
  BY OriginsStay
<1>4. ASSUME NEW q, Used' \subseteq Used \cup {q}, FromMessage(q)' \/ FromCommand(q)'
      PROVE  UsedKnown'
  BY <1>4, <1>o DEF HistoryRight, UsedKnown
<1>p. ASSUME Used' \subseteq Used PROVE UsedKnown'
  BY <1>p, <1>o DEF HistoryRight, UsedKnown
<1>5. ASSUME OnMessage PROVE Kept
  <2>1. PICK m \in Incoming :
           /\ Len(shown) + 1 \in 1..Len(handed) /\ m = handed[Len(shown) + 1]
           /\ UNCHANGED <<todo, commands>> /\ TableOf(m) \in Tables /\ RowOf(m) \in Rows
           /\ Prepare(Loop, TableOf(m), RowOf(m))
    BY <1>5, NextRowNew
  <2>2. Used' \subseteq Used \cup {RowOf(m)}
    BY <1>0, <2>1, UsedSteps, ThreadsAssumption
  <2>3. FromMessage(RowOf(m))'
    BY <1>5, <2>1, WaitingMoves DEF FromMessage
  <2>4. UsedKnown'
    BY <1>4, <2>2, <2>3
  <2>5. TodoRight'
    BY <2>1, <2>2, RowsApart DEF HistoryRight, TodoRight
  <2>6. RowsCome' /\ CallsCome'
    BY <1>0, <2>1, ComesKept, ThreadsAssumption DEF HistoryRight, Comes
  <2>7. QED
    BY <2>4, <2>5, <2>6
<1>6. ASSUME BeginTask PROVE Kept
  <2>1. CASE todo' \in Seq(Creations) /\ \E n \in Tables : CreateTable(Console, n)
    <3>1. Used' \subseteq Used
      BY <1>0, <2>1, UsedSteps, ThreadsAssumption
    <3>2. RowsCome' /\ CallsCome'
      BY <1>0, <2>1, ComesKept, ThreadsAssumption DEF HistoryRight
    <3>3. QED
      BY <1>p, <2>1, <3>1, <3>2 DEF TodoRight
  <2>2. ASSUME todo' = <<>>, NEW i \in DOMAIN Outgoing \cap (1..commands),
               OwnRow(i) \in Rows \ Used, FriendTable(Outgoing[i].to) \in Tables,
               Prepare(Console, FriendTable(Outgoing[i].to), OwnRow(i))
        PROVE  Kept
    <3>1. Used' \subseteq Used \cup {OwnRow(i)}
      BY <1>0, <2>2, UsedSteps, ThreadsAssumption
    <3>2. FromCommand(OwnRow(i))'
      BY OriginsStay DEF FromCommand
    <3>3. UsedKnown'
      BY <1>4, <3>1, <3>2
    <3>4. RowsCome' /\ CallsCome'
      BY <1>0, <2>2, ComesKept, ThreadsAssumption DEF HistoryRight, Comes
    <3>5. TodoRight'
      BY <2>2 DEF TodoRight
    <3>6. QED
      BY <3>3, <3>4, <3>5
  <2>3. QED
    BY <1>6, <2>1, <2>2, TaskNew
<1>7. ASSUME NEW t \in Threads, HistoryStep(t) PROVE Kept
  <2>1. HistStep(t) /\ UNCHANGED <<todo, commands>>
    BY <1>7 DEF HistoryStep, boundVars
  <2>2. Used' \subseteq Used
    BY <1>0, <2>1, UsedSteps
  <2>3. UsedKnown'
    BY <1>p, <2>2
  <2>4. RowsCome' /\ CallsCome'
    BY <1>0, <2>1, ComesKept DEF HistoryRight
  <2>5. TodoRight'
    BY <2>1, <2>2 DEF HistoryRight, TodoRight
  <2>6. QED
    BY <2>3, <2>4, <2>5
<1>8. ASSUME UNCHANGED histVars, ~BeginTask PROVE Kept
  <2>1. Used' = Used /\ RowsCome' /\ CallsCome'
    BY <1>8 DEF histVars, callVars, fateVars, Used, HistoryRight, RowsCome, CallsCome
  <2>2. UsedKnown'
    BY <1>p, <2>1
  <2>3. TodoRight'
    <3>1. CASE UNCHANGED <<todo, commands>>
      BY <2>1, <3>1 DEF HistoryRight, TodoRight
    <3>2. CASE todo' \in Seq(Creations)
      BY <3>2 DEF TodoRight
    <3>3. ASSUME NEW n \in DOMAIN Outgoing, n = commands + 1, commands' = n, todo' = <<OwnInsert(n)>>
          PROVE  TodoRight'
      <4>1. OwnRow(n) \notin Used
        <5> SUFFICES ASSUME OwnRow(n) \in Used PROVE FALSE
          OBVIOUS
        <5>1. CASE FromMessage(OwnRow(n))
          BY <5>1, RowsApart DEF FromMessage, HistoryRight, HandedOnce
        <5>2. CASE FromCommand(OwnRow(n))
          <6>1. PICK i \in DOMAIN Outgoing \cap (1..commands) : OwnRow(n) = OwnRow(i)
            BY <5>2 DEF FromCommand
          <6>2. n = i
            BY <6>1, RowsApart
          <6>3. QED
            BY <3>3, <6>1, <6>2 DEF HistoryRight
        <5>3. QED
          BY <5>1, <5>2 DEF HistoryRight, UsedKnown
      <4>2. n \in DOMAIN Outgoing \cap (1..commands')
        BY <3>3 DEF HistoryRight
      <4>3. QED
        BY <2>1, <3>3, <4>1, <4>2 DEF TodoRight
    <3>4. QED
      BY <1>8, <3>1, <3>2, <3>3, TodoMoves
  <2>4. QED
    BY <2>1, <2>2, <2>3
<1>9. QED
  BY <1>1, <1>2, <1>3, <1>5, <1>6, <1>7, <1>8, HistoryMoves DEF HistoryRight

(* It is right at first. *)
LEMMA HistoryInit == Init => HistoryRight
<1> SUFFICES ASSUME Init PROVE HistoryRight
  OBVIOUS
<1>1. HistIInv /\ Once
  BY HistInitIInv, OnceInit DEF Init
<1>2. Used = {} /\ RowsCome /\ CallsCome
  <2>1. Range(<<>>) = {}
    BY DEF Range
  <2>2. QED
    BY <2>1 DEF Init, HistInit, Used, RowsCome, CallsCome
<1>3. commands \in Nat /\ TodoRight /\ HandedOnce
  BY DEF Init, TodoRight, HandedOnce
<1>4. QED
  BY <1>1, <1>2, <1>3 DEF HistoryRight, UsedKnown

-----------------------------------------------------------------------------
(* The theorems *)

(* Where the threads and the connection are. *)
Places ==
  /\ pc \in {"login", "friends", "groups", "offline", "menu", "regroup", "hung", "crashed"}
  /\ joined \subseteq Nat
  /\ link \in {"none", "assigning", "up", "down"}
  /\ loop \in {"ready", "reading"}

(* Every step leads to such places. *)
LEMMA PlacesNext == Places /\ [Next]_vars => Places'
<1> SUFFICES ASSUME Places, [Next]_vars PROVE Places'
  OBVIOUS
<1> USE DEF Places
<1>1. ASSUME UNCHANGED <<joined, link, loop>>,
             pc' \in {pc, "login", "friends", "groups", "offline", "menu", "regroup", "hung", "crashed"}
      PROVE  Places'
  BY <1>1
<1>2. CASE Login
  BY <1>1, <1>2 DEF Login, Call, Crashes, Hangs, linkVars
<1>3. CASE GetFriendList
  BY <1>1, <1>3 DEF GetFriendList, Call, Hangs, ListsFriends, linkVars
<1>4. ASSUME NEW place, NEW next \in {"offline", "menu"}, GetGroups(place, next) PROVE Places'
  BY <1>1, <1>4 DEF GetGroups, Call, Hangs, ListsGroups, linkVars
<1>5. CASE GetOfflinemsg
  BY <1>1, <1>5 DEF GetOfflinemsg, Call, Crashes, Hangs, PrintOffline, linkVars
<1>6. ASSUME NEW p, NEW q, SendMessage(p, q) PROVE Places'
  BY <1>1, <1>6 DEF SendMessage
<1>7. CASE CreateGroup
  BY <1>1, <1>7 DEF CreateGroup, Call, Crashes, Hangs, linkVars
<1>8. ASSUME NEW g \in Nat, JoinGroup(g) PROVE Places'
  <2>1. /\ UNCHANGED <<link, loop>> /\ joined' \in {joined, joined \cup {g}}
        /\ pc' \in {pc, "regroup", "hung", "crashed"}
    BY <1>8 DEF JoinGroup, Call, Crashes, Hangs, linkVars
  <2>2. QED
    BY <2>1
<1>9. ASSUME NEW p, NEW q, SendGroupMessage(p, q) PROVE Places'
  BY <1>1, <1>9 DEF SendGroupMessage, Call, Crashes, Hangs, linkVars
<1>10. ASSUME NEW t, HistoryStep(t) PROVE Places'
  BY <1>1, <1>10 DEF HistoryStep, linkVars
<1>11. CASE BeginTask
  BY <1>1, <1>11 DEF BeginTask, linkVars
<1>12. ASSUME NEW p, \/ Connect \/ OnConnection \/ Flush \/ Disconnect \/ Break \/ Arrive(p)
                     \/ HandOver(p) \/ StoreRow(p) \/ OtherCreates(p) \/ OnMessage \/ UNCHANGED vars
       PROVE  Places'
  BY <1>12 DEF Connect, OnConnection, Flush, Disconnect, Break, Arrive, HandOver, StoreRow,
               OtherCreates, OnMessage, NextRound, consoleVars, linkVars, vars
<1>13. 1..MaxGroups \subseteq Nat
  BY BoundsAssumption
<1>14. CASE ConsoleThread
  BY <1>2, <1>3, <1>4, <1>5, <1>6, <1>7, <1>8, <1>9, <1>10, <1>11, <1>13, <1>14 DEF ConsoleThread
<1>15. CASE LoopThread
  BY <1>10, <1>12, <1>15 DEF LoopThread
<1>16. CASE Server
  BY <1>12, <1>16 DEF Server
<1>17. QED
  BY <1>12, <1>14, <1>15, <1>16 DEF Next

(* The inductive invariant of a session. *)
SessionIInv == StreamRight /\ Lists /\ HistoryRight /\ Places

(* It holds at first. *)
LEMMA SessionInit == Init => SessionIInv
BY StreamInit, ListsInit, HistoryInit DEF SessionIInv, Init, Places

(* Every step keeps it, and is a step of the history or none. *)
LEMMA SessionNext == SessionIInv /\ [Next]_vars => SessionIInv' /\ [HistNext]_histVars
<1> SUFFICES ASSUME SessionIInv, [Next]_vars PROVE SessionIInv' /\ [HistNext]_histVars
  OBVIOUS
<1>1. StreamRight' /\ Lists' /\ Places'
  BY StreamKept, ListsNext, PlacesNext DEF SessionIInv
<1>2. HistoryRight'
  BY <1>1, HistoryKept DEF SessionIInv
<1>3. [HistNext]_histVars
  BY StepsUseHistory DEF SessionIInv
<1>4. QED
  BY <1>1, <1>2, <1>3 DEF SessionIInv

(* The inductive invariant of a session holds throughout: the stream
   (rpcclient.cpp:64-97), the tables behind the calls, the lists and the history. *)
THEOREM SessionInductive == Spec => []SessionIInv
BY SessionInit, SessionNext, PTL DEF Spec

(* A session implements the history's specification: the console's and the loop's
   thread call createTable and insertTable one at a time each, and every
   insertTable is for a row of its own (rpcclient.cpp:82-92, 178-195, 224). *)
THEOREM ThreadsUseHistory == Spec => UsesHistory
<1>1. Init => HistInit
  BY DEF Init
<1>2. QED
  BY <1>1, SessionNext, SessionInductive, PTL DEF Spec, UsesHistory, HistSpec

(* In a session, too, a row is left out or its statement finalized twice only where
   the console's and the loop's calls overlapped or sqlite3_step failed
   (rpcclient.cpp:82-92, 178-195, 224; usersqlite.cpp:63-86). *)
THEOREM SessionFaultsAreShared == Spec => []FaultsNeedOverlap
<1>1. SessionIInv => FaultsNeedOverlap
  BY DEF SessionIInv, HistoryRight, HistIInv
<1>2. QED
  BY <1>1, SessionInductive, PTL

(* Every variable of a session keeps its type: what OnMessage makes of the
   stream's bytes is a whole message of a known kind (rpcclient.cpp:64-97). *)
THEOREM TypeCorrect == Spec => []TypeOK
<1>1. ASSUME SessionIInv PROVE TypeOK
  <2>1. HistTypeOK
    BY <1>1 DEF SessionIInv, HistoryRight, HistIInv
  <2>2. used \subseteq Incoming
    BY <1>1 DEF SessionIInv, HistoryRight, HandedOnce
  <2>3. Range(shown) \subseteq [as : {"friend", "group"}, value : {m.value : m \in Incoming}]
    <3>1. Range(shown) \subseteq Incoming
      BY <1>1 DEF SessionIInv, StreamRight, Range
    <3>2. ASSUME NEW m \in Incoming
          PROVE  m \in [as : {"friend", "group"}, value : {o.value : o \in Incoming}]
      <4> DEFINE V == {o.value : o \in Incoming}
      <4>1. m.value \in V
        OBVIOUS
      <4>2. m = [as |-> m.as, value |-> m.value] /\ m.as \in {"friend", "group"}
        BY IncomingAssumption
      <4> HIDE DEF V
      <4>3. PICK a, v : a = m.as /\ v = m.value
        OBVIOUS
      <4>4. m = [as |-> a, value |-> v] /\ v \in V /\ a \in {"friend", "group"}
        BY <4>1, <4>2, <4>3
      <4>5. m \in [as : {"friend", "group"}, value : V]
        BY <4>4
      <4>6. QED
        BY <4>5 DEF V
    <3>3. QED
      BY <3>1, <3>2
  <2>4. DOMAIN db = DOMAIN Tables0({}, {})
    <3>1. ASSUME NEW a, NEW b, NEW c, NEW h, NEW i
          PROVE  DOMAIN [user |-> a, friendship |-> b, groupinfo |-> c, groupuser |-> h,
                         offline_message |-> i]
                   = {"user", "friendship", "groupinfo", "groupuser", "offline_message"}
      OBVIOUS
    <3>2. DOMAIN db = {"user", "friendship", "groupinfo", "groupuser", "offline_message"}
      BY <1>1, <3>1 DEF SessionIInv, Lists, DbRight, RightDb
    <3>3. QED
      BY <3>1, <3>2 DEF Tables0
  <2>5. QED
    BY <1>1, <2>1, <2>2, <2>3, <2>4 DEF SessionIInv, Places, TypeOK
<1>2. QED
  BY <1>1, SessionInductive, PTL

(* Every row of the history is in the table of the friend or group it was
   exchanged with, under its writer, and once, whatever the two threads do to each
   other's rc (usersqlite.cpp:63-86, rpcclient.cpp:82-92, 178-195, 224). *)
THEOREM PeersHistory == Spec => []HistoryByPeer
<1>1. ASSUME SessionIInv PROVE HistoryByPeer
  <2>1. ASSUME NEW n \in Tables PROVE IsInjective(rows[n])
    BY <1>1 DEF SessionIInv, HistoryRight, Once, RowsOnce
  <2>2. ASSUME NEW n \in Tables, NEW r \in Range(rows[n]), NEW m \in Incoming,
               n = TableOf(m), r = RowOf(m)
        PROVE  /\ r.msg = m.value.msg /\ r.msgtime = m.value.send_time
               /\ IF m.as = "friend"
                  THEN n = FriendTable(m.value.friendid) /\ r.user = m.value.friendid
                  ELSE n = GroupTable(m.value.groupid) /\ r.user = m.value.memberid
    BY <2>2 DEF TableOf, RowOf, HistoryRow
  <2>3. ASSUME NEW n \in Tables, NEW r \in Range(rows[n]), NEW i \in DOMAIN Outgoing,
               n = FriendTable(Outgoing[i].to), r = OwnRow(i)
        PROVE  /\ r.user = Me /\ r.msg = Outgoing[i].text
               /\ n = FriendTable(Outgoing[i].to)
    BY <2>3 DEF OwnRow, HistoryRow
  <2>4. ASSUME NEW n \in Tables, NEW r \in Range(rows[n])
        PROVE  \/ \E m \in Incoming : n = TableOf(m) /\ r = RowOf(m)
               \/ \E i \in DOMAIN Outgoing : n = FriendTable(Outgoing[i].to) /\ r = OwnRow(i)
    BY <1>1 DEF SessionIInv, HistoryRight, RowsCome, Comes
  <2>5. ASSUME NEW n \in Tables, NEW r \in Range(rows[n])
        PROVE  \/ \E m \in Incoming :
                    /\ r.msg = m.value.msg /\ r.msgtime = m.value.send_time
                    /\ IF m.as = "friend"
                       THEN n = FriendTable(m.value.friendid) /\ r.user = m.value.friendid
                       ELSE n = GroupTable(m.value.groupid) /\ r.user = m.value.memberid
               \/ \E i \in DOMAIN Outgoing :
                    /\ r.user = Me /\ r.msg = Outgoing[i].text
                    /\ n = FriendTable(Outgoing[i].to)
    BY <2>2, <2>3, <2>4
  <2>6. QED
    BY <2>1, <2>5 DEF HistoryByPeer
<1>2. QED
  BY <1>1, SessionInductive, PTL

=============================================================================
