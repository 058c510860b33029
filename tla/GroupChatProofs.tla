----------------------------- MODULE GroupChatProofs -----------------------------
(***************************************************************************)
(* GroupChat keeps the promise of Broadcast, for every number of users,    *)
(* groups, messages, threads, rows and restarts, whatever the constructor  *)
(* has read into its map.  The invariant says who has a message in hand:   *)
(* one thread at most, which has begun it and not answered it.             *)
(***************************************************************************)
EXTENDS GroupChat, FiniteSetTheorems, TLAPS

(* The shape of the variables the promise is about. *)
Shape ==
  /\ at \in [Threads -> {"idle", "add", "publish", "hung"}]
  /\ task \in [Threads -> SUBSET Msgs]
  /\ left = [t \in Threads |-> left[t]]
  /\ posted \in [Users -> Seq(Msgs)]
  /\ started \in SUBSET Msgs
  /\ answered \in SUBSET started
  /\ before \in [Msgs -> SUBSET Msgs]

(* A thread in SendMsg has one message, which has begun and is not answered ... *)
InHand ==
  \A t \in Threads :
     /\ at[t] \in {"idle", "add"} => task[t] = {}
     /\ at[t] \in {"publish", "hung"} =>
          \E m \in started : m \notin answered /\ task[t] = {m}

(* ... and no other thread has it. *)
OneHand == \A t, u \in Threads : t # u => task[t] \cap task[u] = {}

(* What has been posted has begun, and what came before a call was answered. *)
PostedBegun == \A u \in Users : \A i \in 1..Len(posted[u]) : posted[u][i] \in started
BeforeAnswered == \A m \in Msgs : before[m] \subseteq answered

GIInv == Shape /\ InHand /\ OneHand /\ PostedBegun /\ BeforeAnswered /\ AnsweredFirst

(* AnsweredFirst by the positions of a channel. *)
LEMMA ByPosition ==
  ASSUME Shape
  PROVE  /\ \A u \in Users : Len(posted[u]) \in Nat /\ DOMAIN posted[u] = 1..Len(posted[u])
         /\ AnsweredFirst <=>
              \A u \in Users : \A i, j \in 1..Len(posted[u]) :
                 posted[u][j] \in before[posted[u][i]] => j < i
<1>1. \A u \in Users : Len(posted[u]) \in Nat /\ DOMAIN posted[u] = 1..Len(posted[u])
  BY DEF Shape
<1>2. QED
  BY <1>1 DEF AnsweredFirst, Promise!AnsweredFirst

-----------------------------------------------------------------------------
(* The initial states. *)
LEMMA GInit == Init => GIInv
<1> SUFFICES ASSUME Init PROVE GIInv
  OBVIOUS
<1>1. Shape
  BY DEF Init, Shape
<1>2. InHand /\ OneHand /\ PostedBegun /\ BeforeAnswered
  BY DEF Init, InHand, OneHand, PostedBegun, BeforeAnswered
<1>3. AnsweredFirst
  BY <1>1, ByPosition DEF Init
<1>4. QED
  BY <1>1, <1>2, <1>3 DEF GIInv

(* Steps that leave the messages alone keep the invariant. *)
LEMMA Elsewhere ==
  ASSUME GIInv, UNCHANGED <<task, left, fateVars>>,
         at' \in [Threads -> {"idle", "add", "publish", "hung"}],
         \A t \in Threads : /\ at'[t] \in {"idle", "add"} => at[t] \in {"idle", "add"}
                            /\ at'[t] \in {"publish", "hung"} => at[t] \in {"publish", "hung"}
  PROVE  GIInv'
<1>1. UNCHANGED <<task, left, posted, started, answered, before>>
  BY DEF fateVars
<1>2. Shape' /\ InHand' /\ OneHand' /\ PostedBegun' /\ BeforeAnswered'
  BY <1>1 DEF GIInv, Shape, InHand, OneHand, PostedBegun, BeforeAnswered
<1>3. AnsweredFirst'
  BY <1>1 DEF GIInv, AnsweredFirst, Promise!AnsweredFirst
<1>4. QED
  BY <1>2, <1>3 DEF GIInv

(* A call that begins has every answered message before it. *)
LEMMA SendMsgKeeps ==
  ASSUME GIInv, NEW t \in Threads, NEW m \in Msgs, SendMsg(t, m)
  PROVE  GIInv'
<1>0. /\ Shape /\ at[t] = "idle" /\ m \notin started
      /\ started' = started \cup {m} /\ UNCHANGED <<answered, posted>>
      /\ before' = [before EXCEPT ![m] = answered]
      /\ at' = [at EXCEPT ![t] = "publish"] /\ task' = [task EXCEPT ![t] = {m}]
  BY DEF GIInv, SendMsg, Free
<1>1. left' = [u \in Threads |-> left'[u]]
  BY <1>0 DEF SendMsg, Shape
<1>2. Shape'
  BY <1>0, <1>1 DEF Shape
<1>3. \A u \in Threads : m \notin task[u]
  BY <1>0 DEF GIInv, Shape, InHand
<1>4. InHand'
  BY <1>0 DEF GIInv, Shape, InHand
<1>5. OneHand'
  BY <1>0, <1>3 DEF GIInv, Shape, OneHand
<1>6. PostedBegun' /\ BeforeAnswered'
  BY <1>0 DEF GIInv, Shape, PostedBegun, BeforeAnswered
<1>7. \A u \in Users : \A i \in 1..Len(posted[u]) : posted[u][i] # m
  BY <1>0 DEF GIInv, PostedBegun
<1>8. \A u \in Users : \A i, j \in 1..Len(posted[u]) :
         posted[u][j] \in before[posted[u][i]] => j < i
  BY <1>0, ByPosition DEF GIInv
<1>9. \A u \in Users : \A i \in 1..Len(posted[u]) : before'[posted[u][i]] = before[posted[u][i]]
  BY <1>0, <1>7 DEF Shape
<1>10. AnsweredFirst'
  BY <1>0, <1>8, <1>9, ByPosition DEF AnsweredFirst, Promise!AnsweredFirst
<1>11. QED
  BY <1>2, <1>4, <1>5, <1>6, <1>10 DEF GIInv

(* What a publication does to the channels: at most one more entry at the end of
   one of them. *)
LEMMA PublishFacts ==
  ASSUME GIInv, NEW t \in Threads, Publish(t)
  PROVE  \E m \in started :
           /\ m \notin answered /\ task[t] = {m}
           /\ \/ posted' = [posted EXCEPT ![Head(left[t])] = Append(@, m)]
              \/ posted' = posted
<1>1. PICK m \in started : m \notin answered /\ task[t] = {m}
  BY DEF GIInv, InHand, Publish
<1>2. QED
  BY <1>1 DEF Publish

(* A publication adds a message that nobody has had answered. *)
LEMMA PublishKeeps ==
  ASSUME GIInv, NEW t \in Threads, Publish(t)
  PROVE  GIInv'
<1>0. /\ Shape /\ at[t] = "publish"
      /\ UNCHANGED <<task, started, answered, before>>
      /\ left' = [left EXCEPT ![t] = Tail(@)]
  BY DEF GIInv, Publish, threadVars
<1>1. PICK m \in started :
         /\ m \notin answered /\ task[t] = {m}
         /\ \/ posted' = [posted EXCEPT ![Head(left[t])] = Append(@, m)]
            \/ posted' = posted
  BY PublishFacts
<1>2. m \in Msgs
  BY <1>0 DEF Shape
<1>3. /\ at' \in [Threads -> {"idle", "add", "publish", "hung"}]
      /\ \A u \in Threads : /\ at'[u] \in {"idle", "add"} => at[u] \in {"idle", "add"}
                            /\ at'[u] \in {"publish", "hung"} => at[u] \in {"publish", "hung"}
  BY <1>0 DEF Publish, TakesReply, Waiting, Shape
<1>4. \A u \in Users : posted'[u] \in {posted[u], Append(posted[u], m)}
  BY <1>0, <1>1 DEF Shape
<1>5. posted' \in [Users -> Seq(Msgs)]
  <2>1. \A u \in Users : Append(posted[u], m) \in Seq(Msgs)
    BY <1>0, <1>2 DEF Shape
  <2> DEFINE h == Head(left[t])
  <2>2. posted' = [posted EXCEPT ![h] = Append(@, m)] \/ posted' = posted
    BY <1>1
  <2> HIDE DEF h
  <2>3. QED
    BY <1>0, <2>1, <2>2 DEF Shape
<1>6. left' = [u \in Threads |-> left'[u]]
  BY <1>0 DEF Shape
<1>7. Shape'
  BY <1>0, <1>3, <1>5, <1>6 DEF Shape
<1>8. InHand' /\ OneHand' /\ BeforeAnswered'
  BY <1>0, <1>3 DEF GIInv, InHand, OneHand, BeforeAnswered, Shape
<1>9. ASSUME NEW u \in Users
      PROVE  /\ \A i \in 1..Len(posted'[u]) : posted'[u][i] \in started
             /\ \A i, j \in 1..Len(posted'[u]) :
                  posted'[u][j] \in before[posted'[u][i]] => j < i
  <2>0. /\ Len(posted[u]) \in Nat /\ posted[u] \in Seq(Msgs)
        /\ \A i \in 1..Len(posted[u]) : posted[u][i] \in started
        /\ \A i, j \in 1..Len(posted[u]) :
             posted[u][j] \in before[posted[u][i]] => j < i
    BY <1>0, ByPosition DEF GIInv, PostedBegun, Shape
  <2>1. CASE posted'[u] = posted[u]
    BY <2>0, <2>1
  <2>2. CASE posted'[u] = Append(posted[u], m)
    <3>1. /\ Len(posted'[u]) = Len(posted[u]) + 1
          /\ posted'[u][Len(posted[u]) + 1] = m
          /\ \A i \in 1..Len(posted[u]) : posted'[u][i] = posted[u][i]
          /\ \A i \in 1..Len(posted'[u]) : i \in 1..Len(posted[u]) \/ i = Len(posted[u]) + 1
      BY <1>2, <2>0, <2>2
    <3>2. \A i \in 1..Len(posted'[u]) : posted'[u][i] \in started
      BY <2>0, <3>1
    <3>3. \A i \in 1..Len(posted'[u]) : before[posted'[u][i]] \subseteq answered
      BY <1>0, <3>2 DEF GIInv, BeforeAnswered, Shape
    <3>4. ASSUME NEW i \in 1..Len(posted'[u]), NEW j \in 1..Len(posted'[u]),
                 posted'[u][j] \in before[posted'[u][i]]
          PROVE  j < i
      <4>1. posted'[u][j] \in answered
        BY <3>3, <3>4
      <4>2. j \in 1..Len(posted[u])
        BY <1>1, <3>1, <4>1
      <4>3. CASE i \in 1..Len(posted[u])
        BY <2>0, <3>1, <3>4, <4>2, <4>3
      <4>4. CASE i = Len(posted[u]) + 1
        BY <2>0, <4>2, <4>4
      <4>5. QED
        BY <3>1, <4>3, <4>4
    <3>5. QED
      BY <3>2, <3>4
  <2>3. QED
    BY <1>4, <2>1, <2>2
<1>10. PostedBegun'
  BY <1>0, <1>9 DEF PostedBegun
<1>11. AnsweredFirst'
  <2>1. \A u \in Users : DOMAIN posted'[u] = 1..Len(posted'[u])
    BY <1>5
  <2>2. QED
    BY <1>0, <1>9, <2>1 DEF AnsweredFirst, Promise!AnsweredFirst
<1>12. QED
  BY <1>7, <1>8, <1>10, <1>11 DEF GIInv

(* An answer ends the call. *)
LEMMA AnswerKeeps ==
  ASSUME GIInv, NEW t \in Threads, Answer(t)
  PROVE  GIInv'
<1>0. /\ Shape /\ at[t] = "publish"
      /\ UNCHANGED <<left, started, before, posted>>
      /\ answered' = answered \cup task[t]
      /\ at' = [at EXCEPT ![t] = "idle"] /\ task' = [task EXCEPT ![t] = {}]
  BY DEF GIInv, Answer
<1>1. PICK m \in started : m \notin answered /\ task[t] = {m}
  BY <1>0 DEF GIInv, InHand
<1>2. Shape'
  BY <1>0, <1>1 DEF Shape
<1>3. \A u \in Threads \ {t} : m \notin task[u]
  BY <1>1 DEF GIInv, OneHand
<1>4. InHand'
  <2> SUFFICES ASSUME NEW u \in Threads
               PROVE  /\ at'[u] \in {"idle", "add"} => task'[u] = {}
                      /\ at'[u] \in {"publish", "hung"} =>
                           \E n \in started' : n \notin answered' /\ task'[u] = {n}
    BY DEF InHand
  <2>1. CASE u = t
    BY <1>0, <2>1 DEF Shape
  <2>2. CASE u # t
    <3>1. at'[u] = at[u] /\ task'[u] = task[u]
      BY <1>0, <2>2 DEF Shape
    <3>2. at[u] \in {"publish", "hung"} => \E n \in started : n \notin answered /\ task[u] = {n} /\ n # m
      BY <1>3, <2>2 DEF GIInv, InHand
    <3>3. QED
      BY <1>0, <1>1, <3>1, <3>2 DEF GIInv, InHand
  <2>3. QED
    BY <2>1, <2>2
<1>5. OneHand' /\ PostedBegun' /\ BeforeAnswered'
  BY <1>0 DEF GIInv, Shape, OneHand, PostedBegun, BeforeAnswered
<1>6. AnsweredFirst'
  BY <1>0 DEF GIInv, AnsweredFirst, Promise!AnsweredFirst
<1>7. QED
  BY <1>2, <1>4, <1>5, <1>6 DEF GIInv

(* A restart drops what the threads had in hand. *)
LEMMA RestartKeeps == ASSUME GIInv, Restart PROVE GIInv'
<1>0. /\ Shape /\ UNCHANGED <<started, answered, before, posted>>
      /\ at' = [t \in Threads |-> "idle"] /\ task' = [t \in Threads |-> {}]
      /\ left' = [t \in Threads |-> <<>>]
  BY DEF GIInv, Restart, fateVars
<1>1. Shape' /\ InHand' /\ OneHand' /\ PostedBegun' /\ BeforeAnswered'
  BY <1>0 DEF GIInv, Shape, InHand, OneHand, PostedBegun, BeforeAnswered
<1>2. AnsweredFirst'
  BY <1>0 DEF GIInv, AnsweredFirst, Promise!AnsweredFirst
<1>3. QED
  BY <1>1, <1>2 DEF GIInv

(* The steps that leave the messages alone. *)
Aside == \/ ReadGroups \/ Run
         \/ \E g \in Groups : ReadMembers(g)
         \/ \E t \in Threads :
              \/ Add(t)
              \/ \E u \in Users : \/ InsertGroup(t, u)
                                  \/ \E g \in Groups : AddGroup(t, u, g)
         \/ UNCHANGED vars

LEMMA AsideKeeps ==
  ASSUME GIInv, Aside
  PROVE  GIInv' /\ UNCHANGED <<task, left, fateVars>>
<1>0. Shape
  BY DEF GIInv
<1>1. CASE ReadGroups \/ Run \/ (\E g \in Groups : ReadMembers(g)) \/ UNCHANGED vars
  <2>1. UNCHANGED <<at, task, left, fateVars>>
    BY <1>1 DEF ReadGroups, Run, ReadMembers, vars, threadVars
  <2>2. QED
    BY <1>0, <2>1, Elsewhere DEF Shape
<1>2. ASSUME NEW t \in Threads,
             \/ Add(t)
             \/ \E u \in Users : \/ InsertGroup(t, u)
                                 \/ \E g \in Groups : AddGroup(t, u, g)
      PROVE  GIInv' /\ UNCHANGED <<task, left, fateVars>>
  <2>1. /\ UNCHANGED <<task, left, fateVars>>
        /\ at[t] \in {"idle", "add"}
        /\ at' = [at EXCEPT ![t] = "idle"] \/ at' = [at EXCEPT ![t] = "add"]
    BY <1>2 DEF Add, InsertGroup, AddGroup, Free
  <2>2. /\ at' \in [Threads -> {"idle", "add", "publish", "hung"}]
        /\ \A u \in Threads :
             /\ at'[u] \in {"idle", "add"} => at[u] \in {"idle", "add"}
             /\ at'[u] \in {"publish", "hung"} => at[u] \in {"publish", "hung"}
    BY <1>0, <2>1 DEF Shape
  <2>3. QED
    BY <2>1, <2>2, Elsewhere
<1>3. QED
  BY <1>1, <1>2 DEF Aside

(* The step relation, by what it does to the messages. *)
LEMMA StepKinds ==
  ASSUME [Next]_vars
  PROVE  \/ Aside \/ Restart
         \/ \E t \in Threads : \/ Publish(t) \/ Answer(t)
                               \/ \E m \in Msgs : SendMsg(t, m)
BY DEF Next, IOThread, Aside

LEMMA GNext == GIInv /\ [Next]_vars => GIInv'
BY StepKinds, AsideKeeps, RestartKeeps, PublishKeeps, AnswerKeeps, SendMsgKeeps

-----------------------------------------------------------------------------
(* The step simulation.  A thread that has m in hand is the one Due looks at. *)
DueRight ==
  /\ Due = [m \in Msgs |-> Due[m]]
  /\ \A m \in Msgs, t \in Threads : m \in task[t] => Due[m] = left[t]
  /\ \A m \in Msgs : (\A t \in Threads : m \notin task[t]) => Due[m] = <<>>

LEMMA DueFacts == OneHand => DueRight
<1> SUFFICES ASSUME OneHand PROVE DueRight
  OBVIOUS
<1>1. ASSUME NEW m \in Msgs, NEW t \in Threads, m \in task[t]
      PROVE  Due[m] = left[t]
  <2>1. {u \in Threads : m \in task[u]} = {t}
    BY <1>1 DEF OneHand
  <2>2. Due[m] = IF {u \in Threads : m \in task[u]} = {} THEN <<>>
                 ELSE left[CHOOSE u \in {u \in Threads : m \in task[u]} : TRUE]
    BY DEF Due
  <2>3. (CHOOSE u \in {t} : TRUE) = t
    OBVIOUS
  <2>4. QED
    BY <2>1, <2>2, <2>3
<1>2. ASSUME NEW m \in Msgs, \A t \in Threads : m \notin task[t]
      PROVE  Due[m] = <<>>
  <2>1. {u \in Threads : m \in task[u]} = {}
    BY <1>2
  <2>2. QED
    BY <2>1 DEF Due
<1>3. Due = [m \in Msgs |-> Due[m]]
  BY DEF Due
<1>4. QED
  BY <1>1, <1>2, <1>3 DEF DueRight

LEMMA DueFactsNext == OneHand' => DueRight'
BY DueFacts, PTL

(* Due stays as it is when task and left do. *)
LEMMA DueStays == ASSUME UNCHANGED <<task, left>> PROVE Due' = Due
BY DEF Due

LEMMA SimSend ==
  ASSUME GIInv, GIInv', NEW t \in Threads, NEW m \in Msgs, SendMsg(t, m)
  PROVE  Promise!Start(m)
<1>0. /\ Shape /\ m \notin started
      /\ task' = [task EXCEPT ![t] = {m}]
      /\ \A u \in Threads \ {t} : left'[u] = left[u]
      /\ at[t] = "idle" /\ OneHand /\ OneHand'
  BY DEF GIInv, SendMsg, Free, Shape
<1>1. task[t] = {} /\ \A u \in Threads : m \notin task[u]
  <2>1. \A u \in Threads : at[u] \in {"idle", "add", "publish", "hung"}
    BY <1>0 DEF Shape
  <2>2. InHand
    BY DEF GIInv
  <2>3. QED
    BY <1>0, <2>1, <2>2 DEF InHand
<1>2. ASSUME NEW n \in Msgs \ {m} PROVE Due'[n] = Due[n]
  <2>1. CASE \E u \in Threads : n \in task[u]
    <3>1. PICK u \in Threads : n \in task[u]
      BY <2>1
    <3>2. u # t /\ n \in task'[u] /\ left'[u] = left[u]
      BY <1>0, <1>1, <3>1 DEF Shape
    <3>3. Due[n] = left[u]
      BY <1>0, <3>1, DueFacts, DueFactsNext DEF DueRight
    <3>4. Due'[n] = left'[u]
      BY <1>0, <3>2, DueFacts, DueFactsNext DEF DueRight
    <3>5. QED
      BY <3>2, <3>3, <3>4
  <2>2. CASE \A u \in Threads : n \notin task[u]
    <3>1. \A u \in Threads : n \notin task'[u]
      BY <1>0, <2>2 DEF Shape
    <3>2. Due[n] = <<>>
      BY <1>0, <2>2, DueFacts, DueFactsNext DEF DueRight
    <3>3. Due'[n] = <<>>
      BY <1>0, <3>1, DueFacts, DueFactsNext DEF DueRight
    <3>4. QED
      BY <3>2, <3>3
  <2>3. QED
    BY <2>1, <2>2
<1>3. Due' = [Due EXCEPT ![m] = Due'[m]]
  <2>1. Due = [n \in Msgs |-> Due[n]] /\ Due' = [n \in Msgs |-> Due'[n]]
    BY <1>0, DueFacts, DueFactsNext DEF DueRight
  <2>2. QED
    BY <1>2, <2>1
<1>4. QED
  BY <1>3 DEF Promise!Start, SendMsg

LEMMA SimPublish ==
  ASSUME GIInv, GIInv', NEW t \in Threads, Publish(t)
  PROVE  \E m \in Msgs : Promise!Post(m)
<1>0. /\ Shape /\ UNCHANGED <<task, started, answered, before>>
      /\ left[t] # <<>> /\ left' = [left EXCEPT ![t] = Tail(@)] /\ OneHand /\ OneHand'
  BY DEF GIInv, Publish
<1>1. PICK m \in started :
         /\ m \notin answered /\ task[t] = {m}
         /\ \/ posted' = [posted EXCEPT ![Head(left[t])] = Append(@, m)]
            \/ posted' = posted
  BY PublishFacts
<1>2. m \in Msgs /\ Due[m] = left[t]
  BY <1>0, <1>1, DueFacts, DueFactsNext DEF DueRight, Shape
<1>3. Due'[m] = Tail(left[t])
  <2>1. Due'[m] = left'[t]
    BY <1>0, <1>1, <1>2, DueFacts, DueFactsNext DEF DueRight
  <2>2. left'[t] = Tail(left[t])
    BY <1>0 DEF Shape
  <2>3. QED
    BY <2>1, <2>2
<1>4. ASSUME NEW n \in Msgs \ {m} PROVE Due'[n] = Due[n]
  <2>1. CASE \E u \in Threads : n \in task[u]
    <3>1. PICK u \in Threads : n \in task[u]
      BY <2>1
    <3>2. u # t /\ left'[u] = left[u] /\ n \in task'[u]
      BY <1>0, <1>1, <3>1 DEF Shape
    <3>3. Due[n] = left[u]
      BY <1>0, <3>1, DueFacts, DueFactsNext DEF DueRight
    <3>4. Due'[n] = left'[u]
      BY <1>0, <3>2, DueFacts, DueFactsNext DEF DueRight
    <3>5. QED
      BY <3>2, <3>3, <3>4
  <2>2. CASE \A u \in Threads : n \notin task[u]
    <3>1. \A u \in Threads : n \notin task'[u]
      BY <1>0, <2>2
    <3>2. Due[n] = <<>>
      BY <1>0, <2>2, DueFacts, DueFactsNext DEF DueRight
    <3>3. Due'[n] = <<>>
      BY <1>0, <3>1, DueFacts, DueFactsNext DEF DueRight
    <3>4. QED
      BY <3>2, <3>3
  <2>3. QED
    BY <2>1, <2>2
<1>5. Due' = [Due EXCEPT ![m] = Tail(@)]
  <2>1. Due = [n \in Msgs |-> Due[n]] /\ Due' = [n \in Msgs |-> Due'[n]]
    BY <1>0, DueFacts, DueFactsNext DEF DueRight
  <2>2. QED
    BY <1>2, <1>3, <1>4, <2>1
<1>6. QED
  BY <1>0, <1>1, <1>2, <1>5 DEF Promise!Post

LEMMA SimAnswer ==
  ASSUME GIInv, GIInv', NEW t \in Threads, Answer(t)
  PROVE  \E m \in Msgs : Promise!Answer(m)
<1>0. /\ Shape /\ UNCHANGED <<left, started, before, posted>>
      /\ answered' = answered \cup task[t] /\ left[t] = <<>> /\ at[t] = "publish"
      /\ task' = [task EXCEPT ![t] = {}] /\ OneHand /\ OneHand'
  BY DEF GIInv, Answer
<1>1. PICK m \in started : m \notin answered /\ task[t] = {m}
  BY <1>0 DEF GIInv, InHand
<1>2. m \in Msgs /\ Due[m] = <<>>
  BY <1>0, <1>1, DueFacts, DueFactsNext DEF DueRight, Shape
<1>3. Due'[m] = <<>>
  <2>1. \A u \in Threads : m \notin task'[u]
    BY <1>0, <1>1 DEF Shape, OneHand
  <2>2. QED
    BY <1>0, <1>2, <2>1, DueFacts, DueFactsNext DEF DueRight
<1>4. ASSUME NEW n \in Msgs \ {m} PROVE Due'[n] = Due[n]
  <2>1. CASE \E u \in Threads : n \in task[u]
    <3>1. PICK u \in Threads : n \in task[u]
      BY <2>1
    <3>2. u # t /\ left'[u] = left[u] /\ n \in task'[u]
      BY <1>0, <1>1, <3>1 DEF Shape
    <3>3. Due[n] = left[u]
      BY <1>0, <3>1, DueFacts, DueFactsNext DEF DueRight
    <3>4. Due'[n] = left'[u]
      BY <1>0, <3>2, DueFacts, DueFactsNext DEF DueRight
    <3>5. QED
      BY <3>2, <3>3, <3>4
  <2>2. CASE \A u \in Threads : n \notin task[u]
    <3>1. \A u \in Threads : n \notin task'[u]
      BY <1>0, <2>2 DEF Shape
    <3>2. Due[n] = <<>>
      BY <1>0, <2>2, DueFacts, DueFactsNext DEF DueRight
    <3>3. Due'[n] = <<>>
      BY <1>0, <3>1, DueFacts, DueFactsNext DEF DueRight
    <3>4. QED
      BY <3>2, <3>3
  <2>3. QED
    BY <2>1, <2>2
<1>5. Due' = Due
  <2>1. Due = [n \in Msgs |-> Due[n]] /\ Due' = [n \in Msgs |-> Due'[n]]
    BY <1>0, DueFacts, DueFactsNext DEF DueRight
  <2>2. QED
    BY <1>2, <1>3, <1>4, <2>1
<1>6. QED
  BY <1>0, <1>1, <1>2, <1>5 DEF Promise!Answer

LEMMA SimRestart ==
  ASSUME GIInv, GIInv', Restart
  PROVE  Promise!Cut(Msgs)
<1>1. UNCHANGED <<started, posted, answered, before>> /\ task' = [t \in Threads |-> {}]
  BY DEF Restart, fateVars
<1>2. Due' = [m \in Msgs |-> <<>>]
  <2>1. OneHand'
    BY DEF GIInv
  <2>2. \A m \in Msgs : \A t \in Threads : m \notin task'[t]
    BY <1>1
  <2>3. Due' = [m \in Msgs |-> Due'[m]] /\ \A m \in Msgs : Due'[m] = <<>>
    BY <2>1, <2>2, DueFacts, DueFactsNext DEF DueRight
  <2>4. QED
    BY <2>3
<1>3. QED
  BY <1>1, <1>2 DEF Promise!Cut

LEMMA SimStep == GIInv /\ GIInv' /\ [Next]_vars => [Promise!BNext]_(Promise!bvars)
<1> SUFFICES ASSUME GIInv, GIInv', [Next]_vars PROVE [Promise!BNext]_(Promise!bvars)
  OBVIOUS
<1>1. CASE Aside
  <2>1. UNCHANGED <<task, left, started, answered, before, posted>>
    BY <1>1, AsideKeeps DEF fateVars
  <2>2. Due' = Due
    BY <2>1, DueStays
  <2>3. QED
    BY <2>1, <2>2 DEF Promise!bvars
<1>2. CASE Restart
  BY <1>2, SimRestart DEF Promise!BNext
<1>3. ASSUME NEW t \in Threads, Publish(t) PROVE Promise!BNext
  BY <1>3, SimPublish DEF Promise!BNext
<1>4. ASSUME NEW t \in Threads, Answer(t) PROVE Promise!BNext
  BY <1>4, SimAnswer DEF Promise!BNext
<1>5. ASSUME NEW t \in Threads, NEW m \in Msgs, SendMsg(t, m) PROVE Promise!BNext
  BY <1>5, SimSend DEF Promise!BNext
<1>6. QED
  BY <1>1, <1>2, <1>3, <1>4, <1>5, StepKinds

LEMMA SimInit == Init => Promise!BInit
<1> SUFFICES ASSUME Init PROVE Promise!BInit
  OBVIOUS
<1>1. OneHand /\ \A m \in Msgs, t \in Threads : m \notin task[t]
  BY DEF Init, OneHand
<1>2. Due = [m \in Msgs |-> <<>>]
  BY <1>1, DueFacts, DueFactsNext DEF DueRight
<1>3. QED
  BY <1>2 DEF Init, Promise!BInit

-----------------------------------------------------------------------------
(* The inductive invariant holds throughout. *)
THEOREM GInductive == Spec => []GIInv
BY GInit, GNext, PTL DEF Spec

(* GroupChat implements Broadcast: a call has one list of receivers from its
   start and posts to each entry once, in order, before it is answered
   (groupservice.cc:19-36, 88-97), for every number of users, groups, messages,
   IO threads and restarts. *)
THEOREM KeepsPromise == Spec => ImplementsBroadcast
<1>1. Init => Promise!BInit
  BY SimInit
<1>2. GIInv /\ GIInv' /\ [Next]_vars => [Promise!BNext]_(Promise!bvars)
  BY SimStep
<1>3. QED
  BY <1>1, <1>2, GInductive, PTL DEF Spec, ImplementsBroadcast, Promise!BSpec

(* Of two messages the one answered before the other's call began comes first
   on every channel. *)
THEOREM AnsweredComeFirst == Spec => []AnsweredFirst
<1>1. GIInv => AnsweredFirst
  BY DEF GIInv
<1>2. QED
  BY <1>1, GInductive, PTL

-----------------------------------------------------------------------------
(* How often something stands in a sequence. *)

LEMMA TimesNat ==
  ASSUME NEW S, NEW s \in Seq(S), NEW x
  PROVE  IsFiniteSet({i \in DOMAIN s : s[i] = x}) /\ Times(x, s) \in Nat
<1>1. IsFiniteSet(1..Len(s)) /\ {i \in DOMAIN s : s[i] = x} \in SUBSET (1..Len(s))
  BY FS_Interval
<1>2. IsFiniteSet({i \in DOMAIN s : s[i] = x})
  BY <1>1, FS_Subset
<1>3. QED
  BY <1>2, FS_CardinalityType DEF Times

LEMMA TimesEmpty == \A x : Times(x, <<>>) = 0
<1>1. ASSUME NEW x PROVE Times(x, <<>>) = 0
  <2>1. {i \in DOMAIN <<>> : <<>>[i] = x} = {}
    OBVIOUS
  <2>2. QED
    BY <2>1, FS_EmptySet DEF Times
<1>2. QED
  BY <1>1

LEMMA TimesAppend ==
  ASSUME NEW S, NEW s \in Seq(S), NEW y \in S, NEW x
  PROVE  Times(x, Append(s, y)) = Times(x, s) + (IF x = y THEN 1 ELSE 0)
<1> DEFINE I == {i \in DOMAIN s : s[i] = x}
           J == {i \in DOMAIN Append(s, y) : Append(s, y)[i] = x}
<1>1. IsFiniteSet(I) /\ Cardinality(I) \in Nat
  BY TimesNat DEF Times
<1>0. Times(x, s) = Cardinality(I) /\ Times(x, Append(s, y)) = Cardinality(J)
  BY DEF Times
<1>2. CASE x = y
  <2>1. J = I \cup {Len(s) + 1} /\ Len(s) + 1 \notin I
    BY <1>2
  <2>2. Cardinality(J) = Cardinality(I) + 1
    BY <1>1, <2>1, FS_AddElement
  <2>3. QED
    BY <1>0, <1>2, <2>2
<1>3. CASE x # y
  <2>1. J = I
    BY <1>3
  <2> HIDE DEF I, J
  <2>2. QED
    BY <1>0, <1>1, <1>3, <2>1
<1>4. QED
  BY <1>2, <1>3

LEMMA TimesTail ==
  ASSUME NEW S, NEW s \in Seq(S), s # <<>>, NEW x
  PROVE  Times(x, s) = Times(x, Tail(s)) + (IF x = Head(s) THEN 1 ELSE 0)
<1> DEFINE I == {i \in DOMAIN Tail(s) : Tail(s)[i] = x}
           J == {i \in DOMAIN s : s[i] = x}
           f == [i \in I |-> i + 1]
<1>0. Tail(s) \in Seq(S) /\ Len(Tail(s)) = Len(s) - 1 /\ Len(s) \in Nat \ {0}
  OBVIOUS
<1>1. IsFiniteSet(I) /\ Cardinality(I) \in Nat
  BY <1>0, TimesNat DEF Times
<1>9. Times(x, Tail(s)) = Cardinality(I) /\ Times(x, s) = Cardinality(J)
  BY DEF Times
<1>2. \A i \in I : i \in Nat /\ i + 1 \in J \ {1}
  BY <1>0
<1>3. \A j \in J \ {1} : j - 1 \in I /\ j = (j - 1) + 1
  BY <1>0
<1>4. f \in Bijection(I, J \ {1})
  <2>1. f \in [I -> J \ {1}] /\ \A a, b \in I : f[a] = f[b] => a = b
    BY <1>2
  <2>2. \A t \in J \ {1} : f[t - 1] = t /\ t - 1 \in I
    BY <1>3
  <2>3. QED
    BY <2>1, <2>2 DEF Bijection, Injection, IsInjective, Surjection
<1>5. Cardinality(J \ {1}) = Cardinality(I) /\ IsFiniteSet(J \ {1})
  BY <1>1, <1>4, FS_Bijection DEF ExistsBijection
<1>6. CASE x = Head(s)
  <2>1. J = (J \ {1}) \cup {1}
    BY <1>0, <1>6
  <2>2. Cardinality(J) = Cardinality(I) + 1
    BY <1>5, <2>1, FS_AddElement
  <2>3. QED
    BY <1>6, <1>9, <2>2
<1>7. CASE x # Head(s)
  <2>1. J = J \ {1}
    BY <1>0, <1>7
  <2>2. Cardinality(J) = Cardinality(I)
    BY <1>5, <2>1
  <2> HIDE DEF I, J
  <2>3. QED
    BY <1>1, <1>7, <1>9, <2>2
<1>8. QED
  BY <1>6, <1>7

-----------------------------------------------------------------------------
(* UsersIn lists the rows of a group: the places of a finite set of numbers are
   counted through without gap or repetition. *)

LEMMA PlaceIsNumber ==
  ASSUME NEW own, own \subseteq Nat, IsFiniteSet(own)
  PROVE  /\ \A i \in own : Cardinality(UpTo(own, i)) \in 1..Cardinality(own)
         /\ \A i, j \in own : i < j => Cardinality(UpTo(own, i)) < Cardinality(UpTo(own, j))
<1>1. ASSUME NEW i \in own
      PROVE  /\ IsFiniteSet(UpTo(own, i))
             /\ Cardinality(UpTo(own, i)) \in 1..Cardinality(own)
  <2>1. UpTo(own, i) \in SUBSET own /\ i \in UpTo(own, i)
    BY DEF UpTo
  <2>2. IsFiniteSet(UpTo(own, i)) /\ Cardinality(UpTo(own, i)) <= Cardinality(own)
    BY <2>1, FS_Subset
  <2>3. Cardinality(UpTo(own, i)) \in Nat /\ Cardinality(own) \in Nat
    BY <2>2, FS_CardinalityType
  <2>4. Cardinality(UpTo(own, i)) # 0
    BY <2>1, <2>2, FS_EmptySet
  <2>5. QED
    BY <2>2, <2>3, <2>4
<1>2. ASSUME NEW i \in own, NEW j \in own, i < j
      PROVE  Cardinality(UpTo(own, i)) < Cardinality(UpTo(own, j))
  <2>1. UpTo(own, i) \in SUBSET UpTo(own, j)
    <3>1. \A k \in own : k <= i => k <= j
      BY <1>2
    <3>2. QED
      BY <3>1 DEF UpTo
  <2>2. j \in UpTo(own, j) /\ j \notin UpTo(own, i)
    BY <1>2 DEF UpTo
  <2>3. Cardinality(UpTo(own, i)) <= Cardinality(UpTo(own, j))
    BY <1>1, <2>1, FS_Subset
  <2>4. Cardinality(UpTo(own, i)) # Cardinality(UpTo(own, j))
    BY <1>1, <2>1, <2>2, FS_Subset
  <2>5. Cardinality(UpTo(own, i)) \in Nat /\ Cardinality(UpTo(own, j)) \in Nat
    BY <1>1
  <2>6. QED
    BY <2>3, <2>4, <2>5
<1>3. QED
  BY <1>1, <1>2

LEMMA NthIsBijection ==
  ASSUME NEW own, own \subseteq Nat, IsFiniteSet(own)
  PROVE  /\ Cardinality(own) \in Nat
         /\ \A k \in 1..Cardinality(own) :
              Nth(own, k) \in own /\ Cardinality(UpTo(own, Nth(own, k))) = k
         /\ \A i \in own : Nth(own, Cardinality(UpTo(own, i))) = i
<1> DEFINE n == Cardinality(own)
           p == [i \in own |-> Cardinality(UpTo(own, i))]
<1>0. n \in Nat
  BY FS_CardinalityType
<1>1. \A i \in own : p[i] \in 1..n
  BY PlaceIsNumber
<1>2. \A i, j \in own : p[i] = p[j] => i = j
  <2> SUFFICES ASSUME NEW i \in own, NEW j \in own, p[i] = p[j], i # j
               PROVE  FALSE
    OBVIOUS
  <2>1. i < j \/ j < i
    OBVIOUS
  <2>2. p[i] < p[j] \/ p[j] < p[i]
    BY <2>1, PlaceIsNumber
  <2>3. p[i] \in Nat /\ p[j] \in Nat
    BY <1>0, <1>1
  <2>4. QED
    BY <2>2, <2>3
<1>3. p \in Injection(own, 1..n)
  BY <1>1, <1>2 DEF Injection, IsInjective
<1>4. IsFiniteSet(1..n) /\ Cardinality(1..n) = n
  BY <1>0, FS_Interval
<1>5. p \in Surjection(own, 1..n)
  BY <1>3, <1>4, FS_Injection
<1>6. \A k \in 1..n : \E i \in own : p[i] = k
  BY <1>5 DEF Surjection
<1>7. \A k \in 1..n : Nth(own, k) \in own /\ Cardinality(UpTo(own, Nth(own, k))) = k
  BY <1>6 DEF Nth
<1>8. ASSUME NEW i \in own PROVE Nth(own, Cardinality(UpTo(own, i))) = i
  BY <1>1, <1>2, <1>7
<1>9. QED
  BY <1>0, <1>7, <1>8

LEMMA RowsOfFacts ==
  ASSUME NEW rows \in Seq(Rows), NEW g
  PROVE  RowsOf(rows, g) \subseteq Nat /\ IsFiniteSet(RowsOf(rows, g))
<1>1. IsFiniteSet(1..Len(rows)) /\ Len(rows) \in Nat
  BY FS_Interval
<1>3. RowsOf(rows, g) \in SUBSET (1..Len(rows))
  BY DEF RowsOf
<1>2. QED
  BY <1>1, <1>3, FS_Subset

(* Each user stands in the list as often as there are rows with the user. *)
LEMMA TimesUsersIn ==
  ASSUME NEW rows \in Seq(Rows), NEW g \in Groups
  PROVE  /\ UsersIn(rows, g) \in Seq(Users)
         /\ \A u \in Users : Times(u, UsersIn(rows, g)) = Times(<<g, u>>, rows)
<1> DEFINE own == RowsOf(rows, g)
           n == Cardinality(own)
<1>1. own \subseteq Nat /\ IsFiniteSet(own)
  BY RowsOfFacts
<1>2. /\ n \in Nat
      /\ \A k \in 1..n : Nth(own, k) \in own /\ Cardinality(UpTo(own, Nth(own, k))) = k
      /\ \A i \in own : Nth(own, Cardinality(UpTo(own, i))) = i
  BY <1>1, NthIsBijection
<1>3. \A i \in own : Cardinality(UpTo(own, i)) \in 1..n
  BY <1>1, PlaceIsNumber
<1>4. \A i \in own : rows[i] \in Rows /\ rows[i][1] = g /\ i \in DOMAIN rows
  BY DEF RowsOf
<1>5. UsersIn(rows, g) = [k \in 1..n |-> rows[Nth(own, k)][2]]
  BY DEF UsersIn
<1>6. \A k \in 1..n : rows[Nth(own, k)][2] \in Users
  BY <1>2, <1>4 DEF Rows
<1> HIDE DEF own, n
<1>7. UsersIn(rows, g) \in Seq(Users) /\ DOMAIN UsersIn(rows, g) = 1..n
  BY <1>2, <1>5, <1>6
<1>8. ASSUME NEW u \in Users PROVE Times(u, UsersIn(rows, g)) = Times(<<g, u>>, rows)
  <2> DEFINE I == {k \in DOMAIN UsersIn(rows, g) : UsersIn(rows, g)[k] = u}
             J == {i \in DOMAIN rows : rows[i] = <<g, u>>}
             f == [k \in I |-> Nth(own, k)]
  <2>1. \A k \in I : k \in 1..n /\ Nth(own, k) \in J
    BY <1>2, <1>4, <1>5, <1>7 DEF Rows
  <2>2. \A i \in J : i \in own
    BY DEF own, RowsOf
  <2>3. \A i \in J : Cardinality(UpTo(own, i)) \in I
    BY <1>2, <1>3, <1>5, <1>7, <2>2
  <2>4. \A a, b \in I : f[a] = f[b] => a = b
    BY <1>2, <2>1
  <2>5. \A i \in J : f[Cardinality(UpTo(own, i))] = i
    BY <1>2, <2>2, <2>3
  <2>6. f \in [I -> J]
    BY <2>1
  <2>7. f \in Bijection(I, J)
    BY <2>3, <2>4, <2>5, <2>6 DEF Bijection, Injection, IsInjective, Surjection
  <2>8. IsFiniteSet(I)
    BY <1>7, TimesNat
  <2>9. Cardinality(I) = Cardinality(J)
    BY <2>7, <2>8, FS_Bijection DEF ExistsBijection
  <2>10. QED
    BY <2>9 DEF Times
<1>9. QED
  BY <1>7, <1>8

-----------------------------------------------------------------------------
(* The count of OncePerOldRow.  Until the provider runs, its threads are idle
   and the tables as they were when the constructor began ... *)
AtStart ==
  phase # "running" => rowsAtStart = RowsNow /\ \A t \in Threads : at[t] = "idle"

(* ... so that a list that has been read has every row of its group, and one
   that could not be read none. *)
Cached ==
  /\ toRead \subseteq groupinfo /\ (phase = "groups" => unread = {})
  /\ (phase # "members" => toRead = {}) /\ toRead \cap unread = {}
  /\ \A g \in Groups :
       phase = "groups" \/ g \in toRead \cup unread => group[g] = <<>>
  /\ phase # "groups" =>
       \A g \in Groups \ toRead : \A u \in Users : Times(u, group[g]) = DueBy(g)[u]

(* A call in hand has published, lost or has left what its list had for each
   user; one that has not begun has done nothing. *)
InHandCounted ==
  \A t \in Threads : \A m \in task[t] : \A u \in Users :
     Times(m, posted[u]) + Times(<<m, u>>, lost) + Times(u, left[t]) = expected[m][u]
NotBegun ==
  \A m \in Msgs \ started : \A u \in Users : Times(m, posted[u]) + Times(<<m, u>>, lost) = 0

Counts == AtStart /\ Cached /\ InHandCounted /\ NotBegun /\ OncePerOldRow

(* Types. *)
LEMMA TypeInit == Init => TypeOK
<1> SUFFICES ASSUME Init PROVE TypeOK
  OBVIOUS
<1>1. MaxRestarts \in Nat
  BY GroupAssumption
<1>2. groupuser \in Seq(Rows) /\ lost \in Seq(Msgs \X Users)
  BY DEF Init
<1>3. QED
  BY <1>1, <1>2 DEF Init, TypeOK

LEMMA TypeRead ==
  ASSUME TypeOK, ReadGroups \/ Run \/ \E g \in Groups : ReadMembers(g)
  PROVE  TypeOK'
<1>1. CASE ReadGroups
  BY <1>1 DEF ReadGroups, TypeOK, tableVars, threadVars, fateVars
<1>2. CASE Run
  BY <1>2 DEF Run, TypeOK, tableVars, threadVars, fateVars
<1>3. ASSUME NEW g \in Groups, ReadMembers(g) PROVE TypeOK'
  <2>1. UsersIn(groupuser, g) \in Seq(Users)
    BY TimesUsersIn DEF TypeOK
  <2>2. group' \in [Groups -> Seq(Users)]
    BY <1>3, <2>1 DEF ReadMembers, TypeOK
  <2>3. unread' \in SUBSET Groups
    BY <1>3 DEF ReadMembers, TypeOK
  <2>4. QED
    BY <1>3, <2>2, <2>3 DEF ReadMembers, TypeOK, tableVars, threadVars, fateVars
<1>4. QED
  BY <1>1, <1>2, <1>3

LEMMA TypeJoin ==
  ASSUME TypeOK, NEW t \in Threads,
         \/ Add(t)
         \/ \E u \in Users : \/ InsertGroup(t, u)
                             \/ \E g \in Groups : AddGroup(t, u, g)
  PROVE  TypeOK'
<1>1. CASE Add(t)
  <2>1. groupuser' \in Seq(Rows)
    <3>1. \A r \in row[t] : Append(groupuser, r) \in Seq(Rows)
      BY DEF TypeOK
    <3>2. QED
      BY <1>1, <3>1 DEF Add, TypeOK
  <2>2. row' \in [Threads -> SUBSET Rows] /\ at' \in [Threads -> {"idle", "add", "publish", "hung"}]
    BY <1>1 DEF Add, TypeOK
  <2>3. QED
    BY <1>1, <2>1, <2>2 DEF Add, TypeOK, cacheVars, fateVars
<1>2. ASSUME NEW u \in Users, NEW g \in Groups,
             row' = [row EXCEPT ![t] = {<<g, u>>}], at' = [at EXCEPT ![t] = "add"]
      PROVE  /\ row' \in [Threads -> SUBSET Rows]
             /\ at' \in [Threads -> {"idle", "add", "publish", "hung"}]
  BY <1>2 DEF TypeOK, Rows
<1>3. ASSUME NEW u \in Users, InsertGroup(t, u) PROVE TypeOK'
  <2>1. PICK g \in Groups \ groupinfo : /\ groupinfo' = groupinfo \cup {g}
                                        /\ row' = [row EXCEPT ![t] = {<<g, u>>}]
    BY <1>3 DEF InsertGroup
  <2>2. QED
    BY <1>2, <1>3, <2>1 DEF InsertGroup, TypeOK, cacheVars, fateVars
<1>4. ASSUME NEW u \in Users, NEW g \in Groups, AddGroup(t, u, g) PROVE TypeOK'
  BY <1>2, <1>4 DEF AddGroup, TypeOK, tableVars, cacheVars, fateVars
<1>5. QED
  BY <1>1, <1>3, <1>4

LEMMA DueByType == ASSUME TypeOK, NEW g \in Groups PROVE DueBy(g) \in [Users -> Nat]
BY DEF TypeOK, DueBy, Rows

LEMMA TypeSend ==
  ASSUME TypeOK, NEW t \in Threads, NEW m \in Msgs, SendMsg(t, m)
  PROVE  TypeOK'
<1>1. GroupOf[m] \in Groups
  BY GroupAssumption
<1>2. left' \in [Threads -> Seq(Users)] /\ expected' \in [Msgs -> [Users -> Nat]]
  BY <1>1, DueByType DEF SendMsg, TypeOK
<1>3. /\ at' \in [Threads -> {"idle", "add", "publish", "hung"}]
      /\ task' \in [Threads -> SUBSET Msgs]
      /\ started' \in SUBSET Msgs /\ before' \in [Msgs -> SUBSET Msgs]
  BY DEF SendMsg, TypeOK
<1>4. QED
  BY <1>2, <1>3 DEF SendMsg, TypeOK, tableVars, cacheVars

LEMMA TypePublish ==
  ASSUME TypeOK, NEW t \in Threads, Publish(t)
  PROVE  TypeOK'
<1>1. PICK m \in task[t] :
         \/ posted' = [posted EXCEPT ![Head(left[t])] = Append(@, m)] /\ UNCHANGED lost
         \/ lost' = Append(lost, <<m, Head(left[t])>>) /\ UNCHANGED posted
  BY DEF Publish
<1>2. m \in Msgs /\ left[t] \in Seq(Users) /\ left[t] # <<>>
  BY DEF TypeOK, Publish
<1> DEFINE h == Head(left[t])
<1>3. h \in Users /\ Tail(left[t]) \in Seq(Users)
  BY <1>2
<1>4. left' \in [Threads -> Seq(Users)]
  BY <1>3 DEF Publish, TypeOK
<1>5. posted' \in [Users -> Seq(Msgs)] /\ lost' \in Seq(Msgs \X Users)
  <2>1. Append(posted[h], m) \in Seq(Msgs) /\ Append(lost, <<m, h>>) \in Seq(Msgs \X Users)
    BY <1>2, <1>3 DEF TypeOK
  <2>2. \/ posted' = [posted EXCEPT ![h] = Append(@, m)] /\ UNCHANGED lost
        \/ lost' = Append(lost, <<m, h>>) /\ UNCHANGED posted
    BY <1>1
  <2> HIDE DEF h
  <2>3. QED
    BY <2>1, <2>2 DEF TypeOK
<1>6. at' \in [Threads -> {"idle", "add", "publish", "hung"}]
  BY DEF Publish, TakesReply, Waiting, TypeOK
<1>7. crowded' \in SUBSET Msgs
  <2>1. \A v \in Waiting : v \in Threads
    BY DEF Waiting
  <2>2. Crowd(t) \in SUBSET Msgs
    BY <2>1 DEF Crowd, TypeOK
  <2>3. QED
    BY <2>2 DEF Publish, TypeOK
<1>8. QED
  BY <1>4, <1>5, <1>6, <1>7 DEF Publish, TypeOK, tableVars, cacheVars

LEMMA TypeAnswer ==
  ASSUME TypeOK, NEW t \in Threads, Answer(t)
  PROVE  TypeOK'
<1>1. /\ at' \in [Threads -> {"idle", "add", "publish", "hung"}]
      /\ task' \in [Threads -> SUBSET Msgs] /\ answered' \in SUBSET Msgs
  BY DEF Answer, TypeOK
<1>2. QED
  BY <1>1 DEF Answer, TypeOK, tableVars, cacheVars

LEMMA RowsNowType == ASSUME TypeOK PROVE RowsNow \in [Rows -> Nat]
<1>1. \A r \in Rows : Times(r, groupuser) \in Nat
  BY TimesNat DEF TypeOK
<1>2. QED
  BY <1>1 DEF RowsNow

LEMMA TypeRestart == ASSUME TypeOK, Restart PROVE TypeOK'
<1>1. MaxRestarts \in Nat
  BY GroupAssumption
<1>2. rowsAtStart' \in [Rows -> Nat]
  BY RowsNowType DEF Restart
<1>3. restarts' \in 0..MaxRestarts
  BY <1>1 DEF Restart, TypeOK
<1>4. QED
  BY <1>2, <1>3 DEF Restart, TypeOK, tableVars, fateVars

LEMMA TypeStep == TypeOK /\ [Next]_vars => TypeOK'
<1> SUFFICES ASSUME TypeOK, [Next]_vars PROVE TypeOK'
  OBVIOUS
<1>1. CASE UNCHANGED vars
  BY <1>1 DEF vars, tableVars, cacheVars, threadVars, fateVars, TypeOK
<1>2. CASE Aside
  BY <1>1, <1>2, TypeRead, TypeJoin DEF Aside
<1>3. QED
  BY <1>2, StepKinds, TypeRestart, TypePublish, TypeAnswer, TypeSend

(* The variables hold what they are declared to hold, for every number of users,
   groups, messages, threads, rows and restarts (groupservice.cc:98-113). *)
THEOREM TypeCorrect == Spec => []TypeOK
BY TypeInit, TypeStep, PTL DEF Spec

-----------------------------------------------------------------------------
(* The initial states and the steps. *)
LEMMA CountInit == Init => Counts
<1> SUFFICES ASSUME Init PROVE Counts
  OBVIOUS
<1>1. AtStart
  BY TimesEmpty DEF Init, AtStart, RowsNow
<1>2. Cached
  BY DEF Init, Cached
<1>3. InHandCounted /\ NotBegun /\ OncePerOldRow
  BY TimesEmpty DEF Init, InHandCounted, NotBegun, OncePerOldRow
<1>4. QED
  BY <1>1, <1>2, <1>3 DEF Counts

(* A step that leaves the messages alone leaves their counts alone. *)
LEMMA CountsAside ==
  ASSUME Counts, UNCHANGED <<task, left, fateVars>>
  PROVE  (InHandCounted /\ NotBegun /\ OncePerOldRow)'
BY DEF Counts, fateVars, InHandCounted, NotBegun, OncePerOldRow

LEMMA CountRead ==
  ASSUME TypeOK, Counts, ReadGroups \/ Run \/ \E g \in Groups : ReadMembers(g)
  PROVE  Counts'
<1>0. /\ UNCHANGED <<tableVars, rowsAtStart, threadVars, fateVars, restarts>>
      /\ phase # "running"
  BY DEF ReadGroups, Run, ReadMembers
<1>1. (InHandCounted /\ NotBegun /\ OncePerOldRow)'
  BY <1>0, CountsAside DEF threadVars
<1>2. AtStart'
  BY <1>0 DEF Counts, AtStart, tableVars, threadVars, RowsNow
<1>3. \A g \in Groups : \A u \in Users :
         DueBy(g)[u] = IF g \in unread THEN 0
                       ELSE IF g \in groupinfo THEN Times(<<g, u>>, groupuser) ELSE 0
  BY <1>0 DEF Counts, AtStart, DueBy, RowsNow, Rows
<1>4. \A g \in Groups : \A u \in Users :
         DueBy(g)'[u] = IF g \in unread' THEN 0
                        ELSE IF g \in groupinfo THEN Times(<<g, u>>, groupuser) ELSE 0
  BY <1>0 DEF Counts, AtStart, DueBy, RowsNow, Rows
<1>5. Cached'
  <2>1. CASE ReadGroups
    <3>1. /\ phase' = "members" /\ group' = group /\ groupinfo' = groupinfo
          /\ \/ toRead' = groupinfo /\ unread' = {}
             \/ toRead' = {} /\ unread' = groupinfo
          /\ \A g \in Groups : group[g] = <<>>
      BY <2>1 DEF ReadGroups, Counts, Cached, tableVars
    <3>2. \A g \in Groups \ toRead' : \A u \in Users : DueBy(g)'[u] = 0
      BY <1>4, <3>1
    <3>3. \A g \in Groups \ toRead' : \A u \in Users : Times(u, group'[g]) = DueBy(g)'[u]
      BY <3>1, <3>2, TimesEmpty
    <3>4. QED
      BY <3>1, <3>3 DEF Cached
  <2>2. ASSUME NEW g \in Groups, ReadMembers(g) PROVE Cached'
    <3>1. /\ phase = "members" /\ phase' = "members" /\ groupinfo' = groupinfo
          /\ g \in toRead /\ toRead' = toRead \ {g} /\ g \in groupinfo /\ group[g] = <<>>
          /\ g \notin unread /\ toRead \cap unread = {}
          /\ \/ group' = [group EXCEPT ![g] = UsersIn(groupuser, g)] /\ unread' = unread
             \/ group' = group /\ unread' = unread \cup {g}
      BY <2>2 DEF ReadMembers, Counts, Cached, tableVars
    <3>2. /\ toRead \subseteq groupinfo
          /\ \A h \in Groups : h \in toRead \cup unread => group[h] = <<>>
          /\ \A h \in Groups \ toRead : \A u \in Users : Times(u, group[h]) = DueBy(h)[u]
      BY <3>1 DEF Counts, Cached
    <3>3. \A u \in Users : Times(u, UsersIn(groupuser, g)) = Times(<<g, u>>, groupuser)
      BY TimesUsersIn DEF TypeOK
    <3>4. \A h \in Groups \ {g} : group'[h] = group[h] /\ (h \in unread' <=> h \in unread)
      BY <3>1 DEF TypeOK
    <3>5. CASE group' = [group EXCEPT ![g] = UsersIn(groupuser, g)] /\ unread' = unread
      <4>1. group'[g] = UsersIn(groupuser, g)
        BY <3>5 DEF TypeOK
      <4>2. \A h \in Groups \ toRead' : \A u \in Users : Times(u, group'[h]) = DueBy(h)'[u]
        <5>1. \A u \in Users : Times(u, group'[g]) = DueBy(g)'[u]
          BY <1>4, <3>1, <3>3, <3>5, <4>1
        <5>2. \A h \in Groups \ {g} : \A u \in Users : DueBy(h)'[u] = DueBy(h)[u]
          BY <1>0, <3>4 DEF DueBy
        <5>3. \A h \in Groups \ toRead' : h = g \/ h \in (Groups \ toRead) \ {g}
          BY <3>1
        <5>4. QED
          BY <3>2, <3>4, <5>1, <5>2, <5>3
      <4>3. \A h \in Groups : h \in toRead' \cup unread' => group'[h] = <<>>
        BY <3>1, <3>2, <3>4, <3>5
      <4>4. QED
        BY <3>1, <3>2, <3>5, <4>2, <4>3 DEF Cached
    <3>6. CASE group' = group /\ unread' = unread \cup {g}
      <4>1. \A u \in Users : Times(u, group'[g]) = 0
        BY <3>1, <3>6, TimesEmpty
      <4>2. \A h \in Groups \ toRead' : \A u \in Users : Times(u, group'[h]) = DueBy(h)'[u]
        <5>1. \A u \in Users : Times(u, group'[g]) = DueBy(g)'[u]
          BY <1>4, <3>6, <4>1
        <5>2. \A h \in Groups \ {g} : \A u \in Users : DueBy(h)'[u] = DueBy(h)[u]
          BY <1>0, <3>4 DEF DueBy
        <5>3. \A h \in Groups \ toRead' : h = g \/ h \in (Groups \ toRead) \ {g}
          BY <3>1
        <5>4. QED
          BY <3>2, <3>4, <5>1, <5>2, <5>3
      <4>3. \A h \in Groups : h \in toRead' \cup unread' => group'[h] = <<>>
        BY <3>1, <3>2, <3>6
      <4>4. QED
        BY <3>1, <3>2, <3>6, <4>2, <4>3 DEF Cached
    <3>7. QED
      BY <3>1, <3>5, <3>6
  <2>3. CASE Run
    <3>1. /\ phase = "members" /\ toRead = {} /\ phase' = "running"
          /\ UNCHANGED <<groupinfo, toRead, group, unread, rowsAtStart>>
      BY <2>3 DEF Run, tableVars
    <3>2. \A g \in Groups : \A u \in Users : DueBy(g)'[u] = DueBy(g)[u]
      BY <3>1 DEF DueBy
    <3>3. QED
      BY <3>1, <3>2 DEF Counts, Cached
  <2>4. QED
    BY <2>1, <2>2, <2>3
<1>6. QED
  BY <1>1, <1>2, <1>5 DEF Counts

(* While it runs, rows and groups come, and the cache stays. *)
LEMMA CountJoin ==
  ASSUME TypeOK, Counts, NEW t \in Threads,
         \/ Add(t)
         \/ \E u \in Users : \/ InsertGroup(t, u)
                             \/ \E g \in Groups : AddGroup(t, u, g)
  PROVE  Counts'
<1>1. /\ UNCHANGED <<cacheVars, task, left, fateVars>>
      /\ groupinfo \subseteq groupinfo' /\ phase = "running"
  <2>1. phase = "running"
    BY DEF Add, InsertGroup, AddGroup, Free, Counts, AtStart
  <2>2. QED
    BY <2>1 DEF Add, InsertGroup, AddGroup, tableVars
<1>2. (InHandCounted /\ NotBegun /\ OncePerOldRow)'
  BY <1>1, CountsAside
<1>3. AtStart'
  BY <1>1 DEF AtStart, cacheVars
<1>4. Cached'
  BY <1>1 DEF Counts, Cached, cacheVars, DueBy
<1>5. QED
  BY <1>2, <1>3, <1>4 DEF Counts

(* Nothing but the constructor changes the cache. *)
LEMMA CacheStays ==
  ASSUME Counts, phase = "running", UNCHANGED <<tableVars, cacheVars>>
  PROVE  AtStart' /\ Cached'
<1>1. AtStart'
  BY DEF AtStart, cacheVars
<1>2. Cached'
  BY DEF Counts, Cached, tableVars, cacheVars, DueBy
<1>3. QED
  BY <1>1, <1>2

(* A call begins with the list of its group, nothing published yet. *)
LEMMA CountSend ==
  ASSUME TypeOK, GIInv, Counts, NEW t \in Threads, NEW m \in Msgs, SendMsg(t, m)
  PROVE  Counts'
<1>0. /\ phase = "running" /\ m \notin started
      /\ task' = [task EXCEPT ![t] = {m}]
      /\ left' = [left EXCEPT ![t] = group[GroupOf[m]]]
      /\ expected' = [expected EXCEPT ![m] = DueBy(GroupOf[m])]
      /\ started' = started \cup {m}
      /\ UNCHANGED <<tableVars, cacheVars, answered, posted, lost>>
  BY DEF SendMsg, Free
<1>1. AtStart' /\ Cached'
  BY <1>0, CacheStays
<1>2. GroupOf[m] \in Groups /\ answered \subseteq started
  BY GroupAssumption DEF GIInv, Shape
<1>3. \A u \in Users : Times(m, posted[u]) + Times(<<m, u>>, lost) = 0
  BY <1>0 DEF Counts, NotBegun
<1>4. \A u \in Users : Times(u, group[GroupOf[m]]) = DueBy(GroupOf[m])[u]
  BY <1>0, <1>2 DEF Counts, Cached
<1>5. \A v \in Threads \ {t} : task'[v] = task[v] /\ left'[v] = left[v] /\ m \notin task[v]
  BY <1>0 DEF TypeOK, GIInv, InHand
<1>6. \A n \in Msgs \ {m} : expected'[n] = expected[n]
  BY <1>0 DEF TypeOK
<1>7. InHandCounted'
  <2>1. ASSUME NEW v \in Threads, NEW n \in task'[v], NEW u \in Users
        PROVE  Times(n, posted[u]) + Times(<<n, u>>, lost) + Times(u, left'[v]) = expected'[n][u]
    <3>1. CASE v = t
      <4>1. n = m /\ left'[v] = group[GroupOf[m]] /\ expected'[n] = DueBy(GroupOf[m])
        BY <1>0, <2>1, <3>1 DEF TypeOK
      <4>2. DueBy(GroupOf[m])[u] \in Nat
        BY <1>2, DueByType
      <4>3. QED
        BY <1>3, <1>4, <4>1, <4>2
    <3>2. CASE v # t
      <4>1. n \in task[v] /\ left'[v] = left[v] /\ n \in Msgs \ {m}
        BY <1>5, <2>1, <3>2 DEF TypeOK
      <4>2. QED
        BY <1>6, <4>1 DEF Counts, InHandCounted
    <3>3. QED
      BY <3>1, <3>2
  <2>2. QED
    BY <1>0, <2>1 DEF InHandCounted
<1>8. NotBegun'
  BY <1>0 DEF Counts, NotBegun
<1>9. OncePerOldRow'
  BY <1>0, <1>2, <1>6 DEF Counts, OncePerOldRow, TypeOK
<1>10. QED
  BY <1>1, <1>7, <1>8, <1>9 DEF Counts

(* A publication moves one entry from what is left to what is published or lost. *)
LEMMA CountPublish ==
  ASSUME TypeOK, GIInv, Counts, NEW t \in Threads, Publish(t)
  PROVE  Counts'
<1>0. /\ at[t] = "publish" /\ left[t] # <<>> /\ left' = [left EXCEPT ![t] = Tail(@)]
      /\ UNCHANGED <<tableVars, cacheVars, task, started, answered, expected>>
  BY DEF Publish
<1>1. phase = "running"
  BY <1>0 DEF Counts, AtStart
<1>2. AtStart' /\ Cached'
  BY <1>0, <1>1, CacheStays
<1>3. PICK m \in started : m \notin answered /\ task[t] = {m}
  BY <1>0 DEF GIInv, InHand
<1> DEFINE h == Head(left[t])
<1>4. /\ m \in Msgs /\ h \in Users /\ left[t] \in Seq(Users)
      /\ left'[t] = Tail(left[t]) /\ \A v \in Threads \ {t} : left'[v] = left[v]
  BY <1>0, <1>3 DEF TypeOK
<1>5. \A v \in Threads \ {t} : m \notin task[v]
  BY <1>3 DEF GIInv, OneHand
<1>6. \/ posted' = [posted EXCEPT ![h] = Append(@, m)] /\ lost' = lost
      \/ lost' = Append(lost, <<m, h>>) /\ posted' = posted
  BY <1>3 DEF Publish
<1> HIDE DEF h
<1>7. ASSUME NEW n \in Msgs, NEW u \in Users
      PROVE  /\ Times(n, posted[u]) \in Nat /\ Times(<<n, u>>, lost) \in Nat
             /\ Times(n, posted'[u]) + Times(<<n, u>>, lost')
                  = Times(n, posted[u]) + Times(<<n, u>>, lost)
                      + (IF n = m /\ u = h THEN 1 ELSE 0)
  <2>1. Times(n, posted[u]) \in Nat /\ Times(<<n, u>>, lost) \in Nat
    BY TimesNat DEF TypeOK
  <2>2. CASE posted' = [posted EXCEPT ![h] = Append(@, m)] /\ lost' = lost
    <3>1. CASE u = h
      <4>1. Times(n, posted'[u]) = Times(n, posted[u]) + (IF n = m THEN 1 ELSE 0)
        BY <1>4, <2>2, <3>1, TimesAppend DEF TypeOK
      <4>2. QED
        BY <2>1, <2>2, <3>1, <4>1
    <3>2. CASE u # h
      <4>1. posted'[u] = posted[u]
        BY <2>2, <3>2 DEF TypeOK
      <4>2. QED
        BY <2>1, <2>2, <3>2, <4>1
    <3>3. QED
      BY <3>1, <3>2
  <2>3. CASE lost' = Append(lost, <<m, h>>) /\ posted' = posted
    <3>1. lost \in Seq(Msgs \X Users) /\ <<m, h>> \in Msgs \X Users
      BY <1>4 DEF TypeOK
    <3>2. Times(<<n, u>>, lost') = Times(<<n, u>>, lost) + (IF <<n, u>> = <<m, h>> THEN 1 ELSE 0)
      BY <2>3, <3>1, TimesAppend
    <3>3. <<n, u>> = <<m, h>> <=> n = m /\ u = h
      OBVIOUS
    <3>4. QED
      BY <2>1, <2>3, <3>2, <3>3
  <2>4. QED
    BY <1>6, <2>1, <2>2, <2>3
<1>8. \A u \in Users : /\ Times(u, left'[t]) \in Nat
                       /\ Times(u, left[t]) = Times(u, left'[t]) + (IF u = h THEN 1 ELSE 0)
  <2>1. Tail(left[t]) \in Seq(Users)
    BY <1>0, <1>4
  <2>2. QED
    BY <1>0, <1>4, <2>1, TimesTail, TimesNat DEF h
<1>9. InHandCounted'
  <2>1. ASSUME NEW v \in Threads, NEW n \in task[v], NEW u \in Users
        PROVE  Times(n, posted'[u]) + Times(<<n, u>>, lost') + Times(u, left'[v]) = expected[n][u]
    <3>0. /\ n \in Msgs
          /\ Times(n, posted[u]) + Times(<<n, u>>, lost) + Times(u, left[v]) = expected[n][u]
      BY <2>1 DEF Counts, InHandCounted, TypeOK
    <3>1. CASE v = t
      <4>1. n = m
        BY <1>3, <2>1, <3>1
      <4>2. QED
        BY <1>7, <1>8, <3>0, <3>1, <4>1
    <3>2. CASE v # t
      <4>1. n # m /\ left'[v] = left[v]
        BY <1>4, <1>5, <2>1, <3>2
      <4>2. Times(n, posted'[u]) + Times(<<n, u>>, lost') = Times(n, posted[u]) + Times(<<n, u>>, lost)
        BY <1>7, <3>0, <4>1
      <4>3. QED
        BY <3>0, <4>1, <4>2
    <3>3. QED
      BY <3>1, <3>2
  <2>2. QED
    <3>1. task' = task /\ expected' = expected
      BY <1>0
    <3>2. QED
      BY <2>1, <3>1 DEF InHandCounted
<1>10. ASSUME NEW n \in Msgs \ {m}, NEW u \in Users
       PROVE  Times(n, posted'[u]) + Times(<<n, u>>, lost') = Times(n, posted[u]) + Times(<<n, u>>, lost)
  BY <1>7
<1>11. NotBegun'
  BY <1>0, <1>3, <1>10 DEF Counts, NotBegun
<1>12. OncePerOldRow'
  <2>1. answered' = answered /\ expected' = expected /\ answered \subseteq Msgs \ {m}
    BY <1>0, <1>3 DEF TypeOK
  <2>2. QED
    BY <1>10, <2>1 DEF Counts, OncePerOldRow
<1>13. QED
  BY <1>2, <1>9, <1>11, <1>12 DEF Counts

(* An answer finds nothing left. *)
LEMMA CountAnswer ==
  ASSUME TypeOK, GIInv, Counts, NEW t \in Threads, Answer(t)
  PROVE  Counts'
<1>0. /\ at[t] = "publish" /\ left[t] = <<>>
      /\ answered' = answered \cup task[t] /\ task' = [task EXCEPT ![t] = {}]
      /\ UNCHANGED <<tableVars, cacheVars, left, started, posted, lost, expected>>
  BY DEF Answer
<1>1. phase = "running"
  BY <1>0 DEF Counts, AtStart
<1>2. AtStart' /\ Cached'
  BY <1>0, <1>1, CacheStays
<1>3. InHandCounted' /\ NotBegun'
  BY <1>0 DEF Counts, InHandCounted, NotBegun, TypeOK
<1>4. ASSUME NEW m \in task[t], NEW u \in Users
      PROVE  Times(m, posted[u]) + Times(<<m, u>>, lost) = expected[m][u]
  <2>1. Times(m, posted[u]) + Times(<<m, u>>, lost) + Times(u, left[t]) = expected[m][u]
    BY <1>4 DEF Counts, InHandCounted
  <2>2. Times(u, left[t]) = 0
    BY <1>0, TimesEmpty
  <2>3. Times(m, posted[u]) \in Nat /\ Times(<<m, u>>, lost) \in Nat
    BY TimesNat DEF TypeOK
  <2>4. QED
    BY <2>1, <2>2, <2>3
<1>5. OncePerOldRow'
  BY <1>0, <1>4 DEF Counts, OncePerOldRow
<1>6. QED
  BY <1>2, <1>3, <1>5 DEF Counts

(* A restart drops the calls in hand and has the rows of now before it. *)
LEMMA CountRestart == ASSUME TypeOK, Counts, Restart PROVE Counts'
<1>0. /\ phase' = "groups" /\ toRead' = {} /\ unread' = {} /\ group' = [g \in Groups |-> <<>>]
      /\ rowsAtStart' = RowsNow /\ at' = [t \in Threads |-> "idle"]
      /\ task' = [t \in Threads |-> {}] /\ UNCHANGED <<tableVars, fateVars>>
  BY DEF Restart
<1>1. AtStart'
  BY <1>0 DEF AtStart, RowsNow, tableVars
<1>2. Cached'
  BY <1>0 DEF Cached
<1>3. InHandCounted' /\ NotBegun' /\ OncePerOldRow'
  BY <1>0 DEF Counts, InHandCounted, NotBegun, OncePerOldRow, fateVars
<1>4. QED
  BY <1>1, <1>2, <1>3 DEF Counts

LEMMA CountStep == TypeOK /\ GIInv /\ Counts /\ [Next]_vars => Counts'
<1> SUFFICES ASSUME TypeOK, GIInv, Counts, [Next]_vars PROVE Counts'
  OBVIOUS
<1>1. CASE UNCHANGED vars
  <2>1. (InHandCounted /\ NotBegun /\ OncePerOldRow)'
    BY <1>1, CountsAside DEF vars, threadVars
  <2>2. AtStart' /\ Cached'
    BY <1>1 DEF vars, tableVars, cacheVars, threadVars, Counts, AtStart, Cached, RowsNow, DueBy
  <2>3. QED
    BY <2>1, <2>2 DEF Counts
<1>2. CASE Aside
  BY <1>1, <1>2, CountRead, CountJoin DEF Aside
<1>3. QED
  BY <1>2, StepKinds, CountRestart, CountPublish, CountAnswer, CountSend

(* When a call is answered, each user has had, published or lost, as many
   publications as there were rows of the user in the group when the provider
   started: a member who joined twice has two, one who has joined since has none,
   and nobody has any if the group's rows could not be read (groupservice.cc:19-36,
   98-108); for every number of users, groups, messages, threads, rows and
   restarts, and whatever fails. *)
THEOREM OldRowsOnce == Spec => []OncePerOldRow
<1>1. Counts => OncePerOldRow
  BY DEF Counts
<1>2. QED
  BY <1>1, CountInit, CountStep, TypeCorrect, GInductive, PTL DEF Spec

=============================================================================
