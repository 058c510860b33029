--------------------------------- MODULE Logger ---------------------------------
(***************************************************************************)
(* The logger, src/logger.cc, over its LockQueue: the threads that use     *)
(* LOG_INFO and LOG_ERR and the one thread that writes the file.           *)
(*                                                                         *)
(* A thread sets the level of the one Logger and then pushes its line; the *)
(* writer takes the time and opens the file of that day, waits for a line, *)
(* and reads the level when it writes it.                                  *)
(***************************************************************************)
EXTENDS Naturals, Sequences

CONSTANTS Threads,   \* those that log
          Lines,     \* the lines, each logged once
          LevelOf,   \* the level of the macro that logs each
          OpenFails, \* whether fopen may fail
          MaxClock   \* bound: the clock's last value

INFO == "INFO"
ERROR == "ERROR"

ASSUME LoggerAssumption ==
  /\ LevelOf \in [Lines -> {INFO, ERROR}]
  /\ OpenFails \in BOOLEAN
  /\ MaxClock \in Nat

VARIABLES
  m_loglevel,
  m_queue,   \* of m_lckQue
  line,      \* the line each thread is in a macro with: one, or none
  writer,    \* where the writer is: "time", "pop", "waiting" for
             \* m_condvariable, "write", "exited" with its process
  now,       \* the time it has taken
  msg,       \* the line it has popped: one, or none
  file,      \* what it has written: [line, level, stamp, at]
  clock,
  logged,    \* the lines that have been pushed, in order
  begun,     \* the lines whose level has been set
  crossed    \* those that were not yet written when another one's level was set

logVars == <<m_loglevel, m_queue, line>>
writerVars == <<writer, now, msg, file>>
histVars == <<logged, begun, crossed>>
vars == <<logVars, writerVars, clock, histVars>>

LTypeOK ==
  /\ m_loglevel \in {INFO, ERROR}
  /\ m_queue \in Seq(Lines)
  /\ line \in [Threads -> SUBSET Lines]
  /\ writer \in {"time", "pop", "waiting", "write", "exited"}
  /\ now \in Nat
  /\ msg \in Seq(Lines) /\ Len(msg) = IF writer = "write" THEN 1 ELSE 0
  /\ file \in Seq([line : Lines, level : {INFO, ERROR}, stamp : Nat, at : Nat])
  /\ clock \in Nat
  /\ logged \in Seq(Lines)
  /\ begun \in SUBSET Lines
  /\ crossed \in SUBSET Lines

(* The constructor does not set m_loglevel. *)
Init ==
  /\ m_loglevel \in {INFO, ERROR}
  /\ m_queue = <<>>
  /\ line = [t \in Threads |-> {}]
  /\ writer = "time"
  /\ now = 0
  /\ msg = <<>>
  /\ file = <<>>
  /\ clock = 0
  /\ logged = <<>>
  /\ begun = {}
  /\ crossed = {}

Alive == writer # "exited"
Written == {file[i].line : i \in DOMAIN file}

-----------------------------------------------------------------------------
(* LOG_INFO and LOG_ERR in thread t *)

SetLogLevel(t, l) ==
  /\ Alive /\ line[t] = {} /\ l \notin begun
  /\ m_loglevel' = LevelOf[l]
  /\ line' = [line EXCEPT ![t] = {l}]
  /\ begun' = begun \cup {l}
  /\ crossed' = crossed \cup (begun \ Written)
  /\ UNCHANGED <<m_queue, writerVars, clock, logged>>

(* A mutant: no notify_one. *)
Push_Silent(t) ==
  /\ Alive
  /\ \E l \in line[t] : m_queue' = Append(m_queue, l) /\ logged' = Append(logged, l)
  /\ line' = [line EXCEPT ![t] = {}]
  /\ UNCHANGED <<m_loglevel, writer, now, msg, file, clock, begun, crossed>>

(* Log: LockQueue's Push, which notifies the writer. *)
Push(t) ==
  /\ Alive
  /\ \E l \in line[t] : m_queue' = Append(m_queue, l) /\ logged' = Append(logged, l)
  /\ line' = [line EXCEPT ![t] = {}]
  /\ writer' = IF writer = "waiting" THEN "pop" ELSE writer
  /\ UNCHANGED <<m_loglevel, now, msg, file, clock, begun, crossed>>

-----------------------------------------------------------------------------
(* The writer *)

(* A mutant: the time is taken for the first line only. *)
TakeTime_Once ==
  /\ writer = "time"
  /\ writer' = "pop"
  /\ now' = IF file = <<>> THEN clock ELSE now
  /\ UNCHANGED <<logVars, msg, file, clock, histVars>>

(* The time and the file of its day; the process exits when that does not open. *)
TakeTime ==
  /\ writer = "time"
  /\ \/ writer' = "pop"
     \/ OpenFails /\ writer' = "exited"
  /\ now' = clock
  /\ UNCHANGED <<logVars, msg, file, clock, histVars>>

(* A mutant: the last line in is the first one out. *)
Pop_Newest ==
  /\ writer = "pop" /\ m_queue # <<>>
  /\ msg' = <<m_queue[Len(m_queue)]>>
  /\ m_queue' = SubSeq(m_queue, 1, Len(m_queue) - 1)
  /\ writer' = "write"
  /\ UNCHANGED <<m_loglevel, line, now, file, clock, histVars>>

(* LockQueue's Pop *)
Pop ==
  /\ writer = "pop" /\ m_queue # <<>>
  /\ msg' = <<Head(m_queue)>>
  /\ m_queue' = Tail(m_queue)
  /\ writer' = "write"
  /\ UNCHANGED <<m_loglevel, line, now, file, clock, histVars>>

Wait ==
  /\ writer = "pop" /\ m_queue = <<>>
  /\ writer' = "waiting"
  /\ UNCHANGED <<logVars, now, msg, file, clock, histVars>>

(* A mutant: the level is tested the other way round. *)
Write_Inverted ==
  /\ writer = "write"
  /\ file' = Append(file, [line |-> msg[1],
                           level |-> IF m_loglevel = INFO THEN ERROR ELSE INFO,
                           stamp |-> now, at |-> clock])
  /\ msg' = <<>>
  /\ writer' = "time"
  /\ UNCHANGED <<logVars, now, clock, histVars>>

(* The level is that of m_loglevel now. *)
Write ==
  /\ writer = "write"
  /\ file' = Append(file, [line |-> msg[1], level |-> m_loglevel, stamp |-> now, at |-> clock])
  /\ msg' = <<>>
  /\ writer' = "time"
  /\ UNCHANGED <<logVars, now, clock, histVars>>

Tick ==
  /\ clock < MaxClock
  /\ clock' = clock + 1
  /\ UNCHANGED <<logVars, writerVars, histVars>>

-----------------------------------------------------------------------------
WriterThread == TakeTime \/ Pop \/ Wait \/ Write

Next == \/ \E t \in Threads : Push(t) \/ \E l \in Lines : SetLogLevel(t, l)
        \/ WriterThread
        \/ Tick

Spec == Init /\ [][Next]_vars

(* The writer is scheduled; who logs what is open. *)
FairSpec == Spec /\ WF_vars(WriterThread)

-----------------------------------------------------------------------------
(* Properties *)

LinesOf(s) == [i \in DOMAIN s |-> s[i].line]

(* Every line that is pushed is in one place, and the file has them in the
   order they were pushed, whichever threads push (lockqueue.h:13-34,
   logger.cc:32-43). *)
WrittenInOrder == LinesOf(file) \o msg \o m_queue = logged

(* A line may be written with the level of another one, which sets m_loglevel
   before it is written; left alone, it has its own (logger.cc:39, 52-55,
   logger.h:10, 20). *)
LevelNeedsCrossing ==
  \A i \in DOMAIN file :
     file[i].level # LevelOf[file[i].line] => file[i].line \in crossed

(* The time in front of a line, by which its file is named, is taken before the
   line is popped; it is never that of the line before, however long the writer
   has waited (logger.cc:19-45). *)
StampAfterLast ==
  \A i \in DOMAIN file :
     /\ file[i].stamp <= file[i].at
     /\ i > 1 => file[i - 1].at <= file[i].stamp

(* A line that has been pushed is written, unless the process exits. *)
LoggedIsWritten ==
  \A l \in Lines :
     (\E i \in DOMAIN logged : logged[i] = l) ~> (l \in Written \/ writer = "exited")

=============================================================================
