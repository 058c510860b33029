------------------------------ MODULE LocalHistory ------------------------------
(***************************************************************************)
(* The client's local history, example/tool/usersqlite.cpp, under the two  *)
(* threads that use it: the console's, in createTable and insertTable, and *)
(* the loop's, in insertTable.                                             *)
(*                                                                         *)
(* SQLite takes one call at a time, but both threads keep its results in   *)
(* the one member rc and read them from there: a step ends where a thread  *)
(* has assigned rc, and the next one begins with reading it.               *)
(***************************************************************************)
EXTENDS Naturals, Sequences, SequencesExt

CONSTANTS Threads,   \* those that use the SqliteModel
          Tables,    \* the names tables may have
          Rows,      \* the rows, each inserted by one call
          DiskFails, \* whether sqlite3_step may fail
          NoTable    \* no call

ASSUME HistoryAssumption == NoTable \notin Tables /\ DiskFails \in BOOLEAN

OK == "SQLITE_OK"
DONE == "SQLITE_DONE"
ERROR == "SQLITE_ERROR"

VARIABLES
  rc,       \* the member rc
  tables,   \* the tables that exist
  rows,     \* the rows of each table, in order
  at,       \* where each thread is: "idle", "prepared", "stepped" in
            \* insertTable, "index" in createTable
  table,    \* the table of its call
  row,      \* the rows of its call: one, or none in createTable
  stmt,     \* whether its sqlite3_prepare_v2 gave it a statement
  indexes,  \* the indexes its createTable has made
  lost,     \* rows whose call returned without inserting them, though their
            \* table was there
  ruined,   \* rows whose statement was finalized twice
  overlapped, \* rows whose call the other thread's calls overlapped
  unwritten   \* rows that sqlite3_step failed to insert

callVars == <<at, table, row, stmt, indexes>>
fateVars == <<lost, ruined, overlapped, unwritten>>
histVars == <<rc, tables, rows, callVars, fateVars>>

HistTypeOK ==
  /\ rc \in {OK, DONE, ERROR}
  /\ tables \in SUBSET Tables
  /\ rows \in [Tables -> Seq(Rows)]
  /\ at \in [Threads -> {"idle", "prepared", "stepped", "index"}]
  /\ table \in [Threads -> Tables \cup {NoTable}]
  /\ row \in [Threads -> Seq(Rows)]
  /\ stmt \in [Threads -> BOOLEAN]
  /\ indexes \in [Threads -> 0..3]
  /\ lost \in SUBSET Rows
  /\ ruined \in SUBSET Rows
  /\ overlapped \in SUBSET Rows
  /\ unwritten \in SUBSET Rows

HistInit ==
  /\ rc = OK
  /\ tables = {}
  /\ rows = [n \in Tables |-> <<>>]
  /\ at = [t \in Threads |-> "idle"]
  /\ table = [t \in Threads |-> NoTable]
  /\ row = [t \in Threads |-> <<>>]
  /\ stmt = [t \in Threads |-> FALSE]
  /\ indexes = [t \in Threads |-> 0]
  /\ lost = {}
  /\ ruined = {}
  /\ overlapped = {}
  /\ unwritten = {}

-----------------------------------------------------------------------------
Idle(t) == at[t] = "idle"

(* The rows of the calls that overlap one that thread t begins for R. *)
Overlap(t, R) ==
  LET others == {u \in Threads \ {t} : ~Idle(u)}
  IN IF others = {} THEN {} ELSE Range(R) \cup UNION {Range(row[u]) : u \in others}

Begins(t, stage, n, R) ==
  /\ Idle(t)
  /\ at' = [at EXCEPT ![t] = stage]
  /\ table' = [table EXCEPT ![t] = n]
  /\ row' = [row EXCEPT ![t] = R]
  /\ stmt' = [stmt EXCEPT ![t] = n \in tables]
  /\ indexes' = [indexes EXCEPT ![t] = 0]
  /\ overlapped' = overlapped \cup Overlap(t, R)

Returns(t) ==
  /\ at' = [at EXCEPT ![t] = "idle"]
  /\ table' = [table EXCEPT ![t] = NoTable]
  /\ row' = [row EXCEPT ![t] = <<>>]
  /\ UNCHANGED <<stmt, indexes, overlapped>>

(* A mutant: the result of sqlite3_prepare_v2 is not kept. *)
Prepare_NotKept(t, n, r) ==
  /\ Begins(t, "prepared", n, <<r>>)
  /\ UNCHANGED <<rc, tables, rows, lost, ruined, unwritten>>

(* insertTable: sqlite3_prepare_v2 fails when the table does not exist. *)
Prepare(t, n, r) ==
  /\ Begins(t, "prepared", n, <<r>>)
  /\ rc' = IF n \in tables THEN OK ELSE ERROR
  /\ UNCHANGED <<tables, rows, lost, ruined, unwritten>>

(* `if (rc != SQLITE_OK)' returns; otherwise sqlite3_step inserts the row,
   unless it fails, or the statement is null because prepare had failed. *)
StepRow(t) ==
  /\ at[t] = "prepared"
  /\ \/ /\ rc # OK
        /\ Returns(t)
        /\ lost' = lost \cup (IF stmt[t] THEN Range(row[t]) ELSE {})
        /\ UNCHANGED <<rc, rows, unwritten>>
     \/ /\ rc = OK /\ stmt[t]
        /\ rc' = DONE
        /\ rows' = [rows EXCEPT ![table[t]] = @ \o row[t]]
        /\ at' = [at EXCEPT ![t] = "stepped"]
        /\ UNCHANGED <<table, row, stmt, indexes, overlapped, lost, unwritten>>
     \/ /\ rc = OK /\ (~stmt[t] \/ DiskFails)
        /\ rc' = ERROR
        /\ unwritten' = unwritten \cup Range(row[t])
        /\ at' = [at EXCEPT ![t] = "stepped"]
        /\ UNCHANGED <<rows, table, row, stmt, indexes, overlapped, lost>>
  /\ UNCHANGED <<tables, ruined>>

(* `if (rc != SQLITE_DONE)' finalizes the statement, which has been finalized,
   a second time, unless it is null. *)
Finish(t) ==
  /\ at[t] = "stepped"
  /\ Returns(t)
  /\ ruined' = ruined \cup (IF rc # DONE /\ stmt[t] THEN Range(row[t]) ELSE {})
  /\ UNCHANGED <<rc, tables, rows, lost, unwritten>>

(* createTable: CREATE TABLE IF NOT EXISTS ... *)
CreateTable(t, n) ==
  /\ Begins(t, "index", n, <<>>)
  /\ rc' = OK
  /\ tables' = tables \cup {n}
  /\ UNCHANGED <<rows, lost, ruined, unwritten>>

(* ... and three indexes, each after a look at rc. *)
Index(t) ==
  /\ at[t] = "index"
  /\ \/ /\ rc = OK /\ indexes[t] < 3
        /\ indexes' = [indexes EXCEPT ![t] = @ + 1]
        /\ rc' = OK
        /\ UNCHANGED <<at, table, row, stmt, overlapped>>
     \/ /\ rc # OK \/ indexes[t] = 3
        /\ Returns(t)
        /\ UNCHANGED rc
  /\ UNCHANGED <<tables, rows, lost, ruined, unwritten>>

HistStep(t) == StepRow(t) \/ Finish(t) \/ Index(t)

(* The rows that some call has been made for. *)
Used == (UNION {Range(rows[n]) : n \in Tables}) \cup (UNION {Range(row[t]) : t \in Threads})
        \cup lost \cup ruined \cup unwritten

HistNext ==
  \E t \in Threads :
     \/ HistStep(t)
     \/ \E n \in Tables : \/ CreateTable(t, n)
                          \/ \E r \in Rows \ Used : Prepare(t, n, r)

HistSpec == HistInit /\ [][HistNext]_histVars

-----------------------------------------------------------------------------
(* Properties *)

(* What goes wrong between two threads needs two threads: a row is left out, or
   its statement finalized a second time, only if the other thread was in a
   call of its own meanwhile, or sqlite3_step failed (usersqlite.cpp:63-86). *)
FaultsNeedOverlap ==
  /\ lost \subseteq overlapped
  /\ ruined \subseteq overlapped \cup unwritten

=============================================================================
