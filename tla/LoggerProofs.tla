------------------------------ MODULE LoggerProofs ------------------------------
(***************************************************************************)
(* What the log file says, for every number of threads and lines.  The     *)
(* inductive invariant states WrittenInOrder position by position, that no *)
(* line is pushed twice, that a line whose level has been overwritten is   *)
(* known to be crossed, and how far the writer's time may be behind.       *)
(***************************************************************************)
EXTENDS Logger, SequenceTheorems, TLAPS

(* Where the lines that have been pushed are. *)
InPlace ==
  /\ Len(file) + Len(msg) + Len(m_queue) = Len(logged)
  /\ \A i \in 1..Len(file) : file[i].line = logged[i]
  /\ \A i \in 1..Len(msg) : msg[i] = logged[Len(file) + i]
  /\ \A i \in 1..Len(m_queue) : m_queue[i] = logged[Len(file) + Len(msg) + i]

(* A line that some thread still has in hand has not been pushed. *)
LoggedOnce ==
  /\ \A i \in 1..Len(logged) : logged[i] \in begun
  /\ \A i, j \in 1..Len(logged) : logged[i] = logged[j] => i = j
  /\ \A t \in Threads : \A l \in line[t] :
        l \in begun /\ \A i \in 1..Len(logged) : logged[i] # l
  /\ \A t, u \in Threads : t # u => line[t] \cap line[u] = {}

(* The level is that of every line in progress that has not been crossed. *)
LevelOfUncrossed ==
  \A l \in begun : l \in crossed \/ l \in Written \/ m_loglevel = LevelOf[l]

(* The writer's time is between the last line's and now. *)
TimeBetween ==
  /\ now <= clock
  /\ \A i \in 1..Len(file) : file[i].at <= clock
  /\ writer \in {"pop", "waiting", "write"} =>
        \A i \in 1..Len(file) : file[i].at <= now

LIInv == LTypeOK /\ InPlace /\ LoggedOnce /\ LevelOfUncrossed /\ TimeBetween
         /\ LevelNeedsCrossing /\ StampAfterLast

-----------------------------------------------------------------------------
(* The initial states satisfy the inductive invariant. *)
LEMMA LInit == Init => LIInv
<1> SUFFICES ASSUME Init PROVE LIInv
  OBVIOUS
<1>1. LTypeOK
  BY DEF Init, LTypeOK
<1>2. InPlace /\ LoggedOnce /\ LevelOfUncrossed /\ TimeBetween
      /\ LevelNeedsCrossing /\ StampAfterLast
  BY DEF Init, InPlace, LoggedOnce, LevelOfUncrossed, TimeBetween, LevelNeedsCrossing,
         StampAfterLast
<1>3. QED
  BY <1>1, <1>2 DEF LIInv

(* The file by its positions. *)
LEMMA FileFacts ==
  ASSUME LTypeOK
  PROVE  /\ Len(file) \in Nat /\ DOMAIN file = 1..Len(file)
         /\ \A i \in 1..Len(file) : /\ file[i].line \in Lines
                                   /\ file[i].stamp \in Nat /\ file[i].at \in Nat
<1> DEFINE R == [line : Lines, level : {INFO, ERROR}, stamp : Nat, at : Nat]
<1>1. file \in Seq(R)
  BY DEF LTypeOK
<1>2. \A r \in R : r.line \in Lines /\ r.stamp \in Nat /\ r.at \in Nat
  OBVIOUS
<1> HIDE DEF R
<1>3. Len(file) \in Nat /\ DOMAIN file = 1..Len(file)
  BY <1>1, LenProperties
<1>4. \A i \in 1..Len(file) : file[i] \in R
  BY <1>1, ElementOfSeq
<1>5. QED
  BY <1>2, <1>3, <1>4

(* What a change of the file's end does to the lines in it. *)
LEMMA WrittenGrows ==
  ASSUME LTypeOK, NEW r, file' = Append(file, r)
  PROVE  /\ Len(file') = Len(file) + 1
         /\ \A i \in 1..Len(file) : file'[i] = file[i]
         /\ file'[Len(file) + 1] = r
         /\ Written \subseteq Written' /\ r.line \in Written'
<1>1. /\ Len(file') = Len(file) + 1
      /\ \A i \in 1..Len(file) : file'[i] = file[i]
      /\ file'[Len(file) + 1] = r
      /\ DOMAIN file = 1..Len(file) /\ DOMAIN file' = 1..(Len(file) + 1) /\ Len(file) \in Nat
  BY DEF LTypeOK
<1>2. QED
  BY <1>1 DEF Written

-----------------------------------------------------------------------------
(* Setting the level crosses whatever is in progress. *)
LEMMA SetLogLevelKeeps ==
  ASSUME LIInv, NEW t \in Threads, NEW l \in Lines, SetLogLevel(t, l)
  PROVE  LIInv'
<1>0. LTypeOK /\ UNCHANGED <<m_queue, writer, now, msg, file, clock, logged>>
  BY DEF LIInv, SetLogLevel, writerVars
<1>1. LTypeOK'
  BY <1>0, LoggerAssumption DEF LTypeOK, SetLogLevel
<1>2. InPlace' /\ TimeBetween' /\ StampAfterLast'
  BY <1>0 DEF LIInv, InPlace, TimeBetween, StampAfterLast
<1>3. /\ line'[t] = {l} /\ l \notin begun /\ l \in begun'
      /\ \A u \in Threads \ {t} : line'[u] = line[u]
      /\ begun' = begun \cup {l} /\ crossed' = crossed \cup (begun \ Written)
      /\ m_loglevel' = LevelOf[l]
  BY <1>0 DEF SetLogLevel, LTypeOK
<1>4. LoggedOnce'
  <2>1. \A i \in 1..Len(logged) : logged[i] # l
    BY <1>3 DEF LIInv, LoggedOnce
  <2>2. \A u \in Threads : l \notin line[u]
    BY <1>3 DEF LIInv, LoggedOnce
  <2>3. QED
    BY <1>0, <1>3, <2>1, <2>2 DEF LIInv, LoggedOnce
<1>5. LevelOfUncrossed'
  BY <1>0, <1>3 DEF LevelOfUncrossed, Written
<1>6. LevelNeedsCrossing'
  BY <1>0, <1>3 DEF LIInv, LevelNeedsCrossing
<1>7. QED
  BY <1>1, <1>2, <1>4, <1>5, <1>6 DEF LIInv

(* A push adds a line that was not there. *)
LEMMA PushKeeps ==
  ASSUME LIInv, NEW t \in Threads, Push(t)
  PROVE  LIInv'
<1>0. LTypeOK /\ UNCHANGED <<m_loglevel, now, msg, file, clock, begun, crossed>>
  BY DEF LIInv, Push
<1>1. PICK l \in line[t] : m_queue' = Append(m_queue, l) /\ logged' = Append(logged, l)
  BY DEF Push
<1>2. l \in Lines /\ l \in begun /\ \A i \in 1..Len(logged) : logged[i] # l
  BY <1>0 DEF LIInv, LTypeOK, LoggedOnce
<1>3. /\ Len(logged') = Len(logged) + 1 /\ logged'[Len(logged) + 1] = l
      /\ \A i \in 1..Len(logged) : logged'[i] = logged[i]
      /\ Len(m_queue') = Len(m_queue) + 1 /\ m_queue'[Len(m_queue) + 1] = l
      /\ \A i \in 1..Len(m_queue) : m_queue'[i] = m_queue[i]
      /\ Len(logged) \in Nat /\ Len(m_queue) \in Nat /\ Len(file) \in Nat /\ Len(msg) \in Nat
  BY <1>0, <1>1, <1>2 DEF LTypeOK
<1>4. /\ line'[t] = {} /\ \A u \in Threads \ {t} : line'[u] = line[u]
      /\ writer' = IF writer = "waiting" THEN "pop" ELSE writer
  BY <1>0 DEF Push, LTypeOK
<1>5. LTypeOK'
  BY <1>0, <1>1, <1>2, <1>4 DEF LTypeOK, Push
<1>6. InPlace'
  <2>0. InPlace
    BY DEF LIInv
  <2>1. \A i \in 1..Len(m_queue') : i \in 1..Len(m_queue) \/ i = Len(m_queue) + 1
    BY <1>3
  <2>2. Len(file') + Len(msg') + Len(m_queue') = Len(logged')
    <3>1. Len(file) + Len(msg) + Len(m_queue) = Len(logged)
      BY <2>0 DEF InPlace
    <3>2. Len(file') = Len(file) /\ Len(msg') = Len(msg)
      BY <1>0
    <3>3. Len(file) + Len(msg) + (Len(m_queue) + 1) = Len(logged) + 1
      BY <1>3, <3>1
    <3>4. QED
      BY <1>3, <3>2, <3>3
  <2>3. \A i \in 1..Len(file) : i \in 1..Len(logged)
    BY <1>3, <2>0 DEF InPlace
  <2>4. \A i \in 1..Len(msg) : Len(file) + i \in 1..Len(logged)
    BY <1>3, <2>0 DEF InPlace
  <2>5. \A i \in 1..Len(m_queue) : Len(file) + Len(msg) + i \in 1..Len(logged)
    BY <1>3, <2>0 DEF InPlace
  <2>6. Len(file) + Len(msg) + (Len(m_queue) + 1) = Len(logged) + 1
    BY <1>3, <2>0 DEF InPlace
  <2>7. \A i \in 1..Len(file') : file'[i].line = logged'[i]
    BY <1>0, <1>3, <2>0, <2>3 DEF InPlace
  <2>8. \A i \in 1..Len(msg') : msg'[i] = logged'[Len(file') + i]
    BY <1>0, <1>3, <2>0, <2>4 DEF InPlace
  <2>9. \A i \in 1..Len(m_queue') : m_queue'[i] = logged'[Len(file') + Len(msg') + i]
    <3> SUFFICES ASSUME NEW i \in 1..Len(m_queue')
                 PROVE  m_queue'[i] = logged'[Len(file) + Len(msg) + i]
      BY <1>0
    <3>1. CASE i \in 1..Len(m_queue)
      BY <1>3, <2>0, <2>5, <3>1 DEF InPlace
    <3>2. CASE i = Len(m_queue) + 1
      BY <1>3, <2>6, <3>2
    <3>3. QED
      BY <2>1, <3>1, <3>2
  <2>10. QED
    BY <2>2, <2>7, <2>8, <2>9 DEF InPlace
<1>7. LoggedOnce'
  <2>1. \A i \in 1..Len(logged') : i \in 1..Len(logged) \/ i = Len(logged) + 1
    BY <1>3
  <2>2. \A i \in 1..Len(logged') : logged'[i] \in begun'
    BY <1>0, <1>2, <1>3, <2>1 DEF LIInv, LoggedOnce
  <2>3. \A i, j \in 1..Len(logged') : logged'[i] = logged'[j] => i = j
    BY <1>2, <1>3, <2>1 DEF LIInv, LoggedOnce
  <2>4. \A u \in Threads \ {t} : l \notin line[u]
    BY <1>1 DEF LIInv, LoggedOnce
  <2>5. \A u \in Threads : \A k \in line'[u] :
           k \in begun' /\ \A i \in 1..Len(logged') : logged'[i] # k
    BY <1>0, <1>3, <1>4, <2>1, <2>4 DEF LIInv, LoggedOnce
  <2>6. \A u, v \in Threads : u # v => line'[u] \cap line'[v] = {}
    BY <1>4 DEF LIInv, LoggedOnce
  <2>7. QED
    BY <2>2, <2>3, <2>5, <2>6 DEF LoggedOnce
<1>8. LevelOfUncrossed' /\ LevelNeedsCrossing'
  BY <1>0 DEF LIInv, LevelOfUncrossed, LevelNeedsCrossing, Written
<1>9. TimeBetween' /\ StampAfterLast'
  BY <1>0, <1>4 DEF LIInv, TimeBetween, StampAfterLast
<1>10. QED
  BY <1>5, <1>6, <1>7, <1>8, <1>9 DEF LIInv

(* The writer's steps before it writes. *)
LEMMA WriterKeeps ==
  ASSUME LIInv, TakeTime \/ Pop \/ Wait
  PROVE  LIInv'
<1>0. /\ LTypeOK
      /\ UNCHANGED <<m_loglevel, line, file, clock, logged, begun, crossed>>
  BY DEF LIInv, TakeTime, Pop, Wait, logVars, histVars
<1>1. LoggedOnce' /\ LevelOfUncrossed' /\ LevelNeedsCrossing' /\ StampAfterLast'
  BY <1>0 DEF LIInv, LoggedOnce, LevelOfUncrossed, LevelNeedsCrossing, StampAfterLast, Written
<1>2. CASE TakeTime
  <2>1. /\ UNCHANGED <<m_queue, msg>> /\ now' = clock
        /\ writer = "time" /\ writer' \in {"pop", "exited"}
    BY <1>2 DEF TakeTime, logVars
  <2>2. LTypeOK'
    BY <1>0, <2>1 DEF LTypeOK
  <2>3. InPlace' /\ TimeBetween'
    BY <1>0, <2>1 DEF LIInv, InPlace, TimeBetween, LTypeOK
  <2>4. QED
    BY <1>1, <2>2, <2>3 DEF LIInv
<1>3. CASE Pop
  <2>1. /\ writer = "pop" /\ writer' = "write" /\ m_queue # <<>> /\ now' = now
        /\ msg' = <<Head(m_queue)>> /\ m_queue' = Tail(m_queue) /\ Len(msg) = 0
    BY <1>0, <1>3 DEF Pop, LTypeOK
  <2>2. /\ Head(m_queue) \in Lines /\ m_queue' \in Seq(Lines)
        /\ Len(m_queue) >= 1 /\ Len(m_queue') = Len(m_queue) - 1
        /\ Head(m_queue) = m_queue[1]
        /\ \A i \in 1..Len(m_queue') : m_queue'[i] = m_queue[i + 1]
        /\ Len(msg') = 1 /\ msg'[1] = m_queue[1] /\ msg' \in Seq(Lines)
        /\ Len(m_queue) \in Nat /\ Len(file) \in Nat /\ Len(logged) \in Nat
    BY <1>0, <2>1 DEF LTypeOK
  <2>3. LTypeOK'
    BY <1>0, <2>1, <2>2 DEF LTypeOK
  <2>4. InPlace'
    <3>1. Len(file') + Len(msg') + Len(m_queue') = Len(logged')
      BY <1>0, <2>1, <2>2 DEF LIInv, InPlace
    <3>2. msg'[1] = logged[Len(file) + 1]
      BY <2>1, <2>2 DEF LIInv, InPlace
    <3>3. \A i \in 1..Len(m_queue') : m_queue'[i] = logged[Len(file) + 1 + i]
      <4> SUFFICES ASSUME NEW i \in 1..Len(m_queue')
                   PROVE  m_queue'[i] = logged[Len(file) + 1 + i]
        OBVIOUS
      <4>1. i + 1 \in 1..Len(m_queue) /\ m_queue'[i] = m_queue[i + 1]
        BY <2>2
      <4>2. m_queue[i + 1] = logged[Len(file) + 0 + (i + 1)]
        BY <2>1, <4>1 DEF LIInv, InPlace
      <4>3. QED
        BY <2>2, <4>1, <4>2
    <3>4. QED
      BY <1>0, <2>2, <3>1, <3>2, <3>3 DEF LIInv, InPlace
  <2>5. TimeBetween'
    BY <1>0, <2>1 DEF LIInv, TimeBetween
  <2>6. QED
    BY <1>1, <2>3, <2>4, <2>5 DEF LIInv
<1>4. CASE Wait
  <2>1. UNCHANGED <<m_queue, msg, now>> /\ writer = "pop" /\ writer' = "waiting"
    BY <1>4 DEF Wait, logVars
  <2>2. LTypeOK'
    BY <1>0, <2>1 DEF LTypeOK
  <2>3. InPlace' /\ TimeBetween'
    BY <1>0, <2>1 DEF LIInv, InPlace, TimeBetween
  <2>4. QED
    BY <1>1, <2>2, <2>3 DEF LIInv
<1>5. QED
  BY <1>2, <1>3, <1>4

(* A line is written once, under the level of the moment. *)
LEMMA WriteKeeps ==
  ASSUME LIInv, Write
  PROVE  LIInv'
<1> DEFINE r == [line |-> msg[1], level |-> m_loglevel, stamp |-> now, at |-> clock]
<1>0. /\ LTypeOK /\ writer = "write" /\ writer' = "time" /\ msg' = <<>>
      /\ file' = Append(file, r)
      /\ UNCHANGED <<m_loglevel, m_queue, line, now, clock, logged, begun, crossed>>
  BY DEF LIInv, Write, logVars, histVars
<1>1. Len(msg) = 1 /\ msg[1] \in Lines /\ Len(file) \in Nat /\ Len(logged) \in Nat
      /\ Len(m_queue) \in Nat /\ now \in Nat /\ clock \in Nat
  <2>1. Len(file) \in Nat
    BY <1>0, FileFacts
  <2>2. Len(msg) = 1 /\ msg \in Seq(Lines)
    BY <1>0 DEF LTypeOK
  <2>3. msg[1] \in Lines
    BY <2>2
  <2>4. Len(logged) \in Nat /\ Len(m_queue) \in Nat /\ now \in Nat /\ clock \in Nat
    BY <1>0 DEF LTypeOK
  <2>5. QED
    BY <2>1, <2>2, <2>3, <2>4
<1>2. r \in [line : Lines, level : {INFO, ERROR}, stamp : Nat, at : Nat]
  BY <1>0, <1>1 DEF LTypeOK
<1>3. /\ Len(file') = Len(file) + 1
      /\ \A i \in 1..Len(file) : file'[i] = file[i]
      /\ file'[Len(file) + 1] = r
      /\ Written \subseteq Written' /\ msg[1] \in Written'
  BY <1>0, WrittenGrows
<1>3a. \A i \in 1..Len(file') : i \in 1..Len(file) \/ i = Len(file) + 1
  BY <1>1, <1>3
<1>4. LTypeOK'
  BY <1>0, <1>2 DEF LTypeOK
<1>5. Len(file) + 1 \in 1..Len(logged) /\ msg[1] = logged[Len(file) + 1]
  BY <1>1 DEF LIInv, InPlace
<1>6. InPlace'
  <2>1. Len(file') + Len(msg') + Len(m_queue') = Len(logged')
    BY <1>0, <1>1, <1>3 DEF LIInv, InPlace
  <2>2. \A i \in 1..Len(file') : file'[i].line = logged'[i]
    BY <1>0, <1>3, <1>3a, <1>5 DEF LIInv, InPlace
  <2>3. \A i \in 1..Len(m_queue) : m_queue[i] = logged[Len(file) + 1 + i]
    BY <1>1 DEF LIInv, InPlace
  <2>4. \A i \in 1..Len(m_queue') : m_queue'[i] = logged'[Len(file') + Len(msg') + i]
    <3> SUFFICES ASSUME NEW i \in 1..Len(m_queue')
                 PROVE  m_queue'[i] = logged'[Len(file') + Len(msg') + i]
      OBVIOUS
    <3>1. Len(file') + Len(msg') + i = Len(file) + 1 + i
      BY <1>0, <1>1, <1>3
    <3>2. QED
      BY <1>0, <2>3, <3>1
  <2>5. QED
    BY <1>0, <2>1, <2>2, <2>4 DEF InPlace
<1>7. LoggedOnce'
  BY <1>0 DEF LIInv, LoggedOnce
<1>8. LevelOfUncrossed'
  BY <1>0, <1>3 DEF LIInv, LevelOfUncrossed
<1>9. msg[1] \in begun /\ msg[1] \notin Written
  <2>1. msg[1] \in begun
    BY <1>5 DEF LIInv, LoggedOnce
  <2>2. \A i \in 1..Len(file) : i \in 1..Len(logged) /\ file[i].line = logged[i] /\ i # Len(file) + 1
    BY <1>1 DEF LIInv, InPlace
  <2>3. \A i \in 1..Len(file) : file[i].line # msg[1]
    BY <1>5, <2>2 DEF LIInv, LoggedOnce
  <2>4. DOMAIN file = 1..Len(file)
    BY <1>0 DEF LTypeOK
  <2>5. QED
    BY <2>1, <2>3, <2>4 DEF Written
<1>10. DOMAIN file' = 1..Len(file') /\ DOMAIN file = 1..Len(file)
  <2>1. DOMAIN file = 1..Len(file)
    BY <1>0, FileFacts
  <2>2. DOMAIN file' = 1..(Len(file) + 1)
    BY <1>0, <1>1, <2>1
  <2>3. QED
    BY <1>3, <2>1, <2>2
<1>11. LevelNeedsCrossing'
  <2>1. r.level # LevelOf[r.line] => r.line \in crossed
    BY <1>9 DEF LIInv, LevelOfUncrossed
  <2> HIDE DEF r
  <2>2. QED
    BY <1>0, <1>3, <1>3a, <1>10, <2>1 DEF LIInv, LevelNeedsCrossing
<1>12. r.stamp = now /\ r.at = clock
  OBVIOUS
<1> HIDE DEF r
<1>13. TimeBetween'
  BY <1>0, <1>1, <1>3, <1>3a, <1>12 DEF LIInv, TimeBetween
<1>14. StampAfterLast'
  <2> SUFFICES ASSUME NEW i \in DOMAIN file'
               PROVE  file'[i].stamp <= file'[i].at
                      /\ (i > 1 => file'[i - 1].at <= file'[i].stamp)
    BY DEF StampAfterLast
  <2>1. CASE i \in 1..Len(file)
    <3>1. file'[i] = file[i] /\ (i > 1 => i - 1 \in 1..Len(file) /\ file'[i - 1] = file[i - 1])
      BY <1>1, <1>3, <2>1
    <3>2. QED
      BY <1>10, <2>1, <3>1 DEF LIInv, StampAfterLast
  <2>2. CASE i = Len(file) + 1
    <3>1. i > 1 => i - 1 \in 1..Len(file) /\ file'[i - 1] = file[i - 1]
      BY <1>1, <1>3, <2>2
    <3>2. now <= clock /\ \A j \in 1..Len(file) : file[j].at <= now
      BY <1>0 DEF LIInv, TimeBetween
    <3>3. QED
      BY <1>3, <1>12, <2>2, <3>1, <3>2
  <2>3. QED
    BY <1>3a, <1>10, <2>1, <2>2
<1>15. QED
  BY <1>4, <1>6, <1>7, <1>8, <1>11, <1>13, <1>14 DEF LIInv

(* The clock. *)
LEMMA TickKeeps ==
  ASSUME LIInv, Tick
  PROVE  LIInv'
<1>1. /\ UNCHANGED <<m_loglevel, m_queue, line, writer, now, msg, file, logged, begun, crossed>>
      /\ clock' = clock + 1 /\ LTypeOK
  BY DEF LIInv, Tick, logVars, writerVars, histVars
<1>2. LTypeOK'
  BY <1>1 DEF LTypeOK
<1>3. InPlace' /\ LoggedOnce' /\ LevelOfUncrossed' /\ LevelNeedsCrossing' /\ StampAfterLast'
  BY <1>1 DEF LIInv, InPlace, LoggedOnce, LevelOfUncrossed, LevelNeedsCrossing,
              StampAfterLast, Written
<1>4. TimeBetween'
  <2>1. \A i \in 1..Len(file) : file[i].at \in Nat
    BY <1>1, FileFacts
  <2>2. clock \in Nat /\ now \in Nat
    BY <1>1 DEF LTypeOK
  <2>3. QED
    BY <1>1, <2>1, <2>2 DEF LIInv, TimeBetween
<1>5. QED
  BY <1>2, <1>3, <1>4 DEF LIInv

(* Every step keeps the invariant. *)
LEMMA LNext == LIInv /\ [Next]_vars => LIInv'
<1> SUFFICES ASSUME LIInv, [Next]_vars PROVE LIInv'
  OBVIOUS
<1>1. ASSUME NEW t \in Threads, Push(t) PROVE LIInv'
  BY <1>1, PushKeeps
<1>2. ASSUME NEW t \in Threads, NEW l \in Lines, SetLogLevel(t, l) PROVE LIInv'
  BY <1>2, SetLogLevelKeeps
<1>3. CASE WriterThread
  BY <1>3, WriterKeeps, WriteKeeps DEF WriterThread
<1>4. CASE Tick
  BY <1>4, TickKeeps
<1>5. CASE UNCHANGED vars
  <2>1. UNCHANGED <<m_loglevel, m_queue, line, writer, now, msg, file, clock, logged, begun,
                    crossed>>
    BY <1>5 DEF vars, logVars, writerVars, histVars
  <2>2. LTypeOK'
    BY <2>1 DEF LIInv, LTypeOK
  <2>3. InPlace' /\ LoggedOnce' /\ TimeBetween' /\ StampAfterLast'
    BY <2>1 DEF LIInv, InPlace, LoggedOnce, TimeBetween, StampAfterLast
  <2>4. LevelOfUncrossed' /\ LevelNeedsCrossing'
    BY <2>1 DEF LIInv, LevelOfUncrossed, LevelNeedsCrossing, Written
  <2>5. QED
    BY <2>2, <2>3, <2>4 DEF LIInv
<1>6. QED
  BY <1>1, <1>2, <1>3, <1>4, <1>5 DEF Next

-----------------------------------------------------------------------------
(* The inductive invariant holds throughout. *)
THEOREM LInductive == Spec => []LIInv
BY LInit, LNext, PTL DEF Spec

(* Every variable of the logger keeps its type, and the writer has a line
   exactly when it writes. *)
THEOREM LTypeCorrect == Spec => []LTypeOK
<1>1. LIInv => LTypeOK
  BY DEF LIInv
<1>2. QED
  BY <1>1, LInductive, PTL

(* Position by position, the two sides of WrittenInOrder are the same. *)
LEMMA InPlaceInOrder == ASSUME LTypeOK, InPlace PROVE WrittenInOrder
<1>1. /\ LinesOf(file) \in Seq(Lines) /\ Len(LinesOf(file)) = Len(file)
      /\ \A i \in 1..Len(file) : LinesOf(file)[i] = file[i].line
  <2>1. LinesOf(file) = [i \in 1..Len(file) |-> file[i].line]
    BY FileFacts DEF LinesOf
  <2>2. Len(file) \in Nat /\ \A i \in 1..Len(file) : file[i].line \in Lines
    BY FileFacts
  <2>3. [i \in 1..Len(file) |-> file[i].line] \in Seq(Lines)
    BY <2>2
  <2>4. QED
    BY <2>1, <2>2, <2>3
<1>2. msg \in Seq(Lines) /\ m_queue \in Seq(Lines) /\ logged \in Seq(Lines)
      /\ Len(msg) \in Nat /\ Len(m_queue) \in Nat /\ Len(file) \in Nat
  BY DEF LTypeOK
<1> DEFINE s == LinesOf(file) \o msg
<1>3. /\ s \in Seq(Lines) /\ Len(s) = Len(file) + Len(msg)
      /\ \A i \in 1..Len(s) : s[i] = logged[i]
  <2>1. s \in Seq(Lines) /\ Len(s) = Len(file) + Len(msg)
    <3>1. /\ LinesOf(file) \o msg \in Seq(Lines)
          /\ Len(LinesOf(file) \o msg) = Len(LinesOf(file)) + Len(msg)
      BY <1>1, <1>2, ConcatProperties, Zenon
    <3>2. QED
      BY <1>1, <3>1
  <2>2. ASSUME NEW i \in 1..Len(s) PROVE s[i] = logged[i]
    <3>1. CASE i \in 1..Len(file)
      BY <1>1, <1>2, <3>1 DEF InPlace
    <3>2. CASE i \notin 1..Len(file)
      <4>1. i - Len(file) \in 1..Len(msg) /\ s[i] = msg[i - Len(file)]
        BY <1>1, <1>2, <2>1, <3>2
      <4>2. msg[i - Len(file)] = logged[Len(file) + (i - Len(file))]
        BY <4>1 DEF InPlace
      <4>3. Len(file) + (i - Len(file)) = i
        BY <1>2
      <4>4. QED
        BY <4>1, <4>2, <4>3
    <3>3. QED
      BY <3>1, <3>2
  <2>3. QED
    BY <2>1, <2>2
<1> HIDE DEF s
<1>4. /\ s \o m_queue \in Seq(Lines) /\ Len(s \o m_queue) = Len(logged)
      /\ \A i \in 1..Len(logged) : (s \o m_queue)[i] = logged[i]
  <2>1. s \o m_queue \in Seq(Lines) /\ Len(s \o m_queue) = Len(s) + Len(m_queue)
    BY <1>2, <1>3
  <2>2. Len(s \o m_queue) = Len(logged)
    BY <1>3, <2>1 DEF InPlace
  <2>3. ASSUME NEW i \in 1..Len(logged) PROVE (s \o m_queue)[i] = logged[i]
    <3>1. CASE i \in 1..Len(s)
      BY <1>2, <1>3, <3>1
    <3>2. CASE i \notin 1..Len(s)
      <4>1. i - Len(s) \in 1..Len(m_queue) /\ (s \o m_queue)[i] = m_queue[i - Len(s)]
        BY <1>2, <1>3, <2>1, <2>2, <3>2
      <4>2. m_queue[i - Len(s)] = logged[Len(file) + Len(msg) + (i - Len(s))]
        BY <4>1 DEF InPlace
      <4>3. Len(file) + Len(msg) + (i - Len(s)) = i
        BY <1>2, <1>3
      <4>4. QED
        BY <4>1, <4>2, <4>3
    <3>3. QED
      BY <3>1, <3>2
  <2>4. QED
    BY <2>1, <2>2, <2>3
<1>5. s \o m_queue = logged
  <2> DEFINE whole == s \o m_queue
  <2>1. whole \in Seq(Lines) /\ Len(whole) = Len(logged)
        /\ \A i \in 1..Len(whole) : whole[i] = logged[i]
    BY <1>4
  <2> HIDE DEF whole
  <2>2. whole = logged
    BY <1>2, <2>1, SeqEqual
  <2>3. QED
    BY <2>2 DEF whole
<1>6. QED
  BY <1>5 DEF s, WrittenInOrder

(* Every line that is pushed is in one place, and the file has them in the order
   they were pushed (lockqueue.h, logger.cc:32-43), for every number of threads
   and lines. *)
THEOREM FileInOrder == Spec => []WrittenInOrder
<1>1. LIInv => WrittenInOrder
  BY InPlaceInOrder DEF LIInv
<1>2. QED
  BY <1>1, LInductive, PTL

(* A line has its own level unless another one's was set before it was written
   (logger.cc:39, 52-54). *)
THEOREM OwnLevel == Spec => []LevelNeedsCrossing
<1>1. LIInv => LevelNeedsCrossing
  BY DEF LIInv
<1>2. QED
  BY <1>1, LInductive, PTL

(* The time in front of a line is between those at which the line before and the
   line itself were written (logger.cc:19-45). *)
THEOREM StampsFollow == Spec => []StampAfterLast
<1>1. LIInv => StampAfterLast
  BY DEF LIInv
<1>2. QED
  BY <1>1, LInductive, PTL

=============================================================================
