------------------------------ MODULE RpcCallProofs ------------------------------
(***************************************************************************)
(* Registration is sound for every number of providers, methods and        *)
(* restarts.  The inductive invariant adds three facts to the properties:  *)
(* no znode is owned by a session, a provider has found or made every      *)
(* path it has passed, and the providers that have lost the race, or are   *)
(* about to, are never all of them.                                        *)
(*                                                                         *)
(* Calls leave registration alone, so that what is proved of Registry      *)
(* holds here; and for every number of calls and providers, an answer is   *)
(* that of the one run, and only failed lookups leave a socket open.       *)
(***************************************************************************)
EXTENDS RpcCall, TLAPS

-----------------------------------------------------------------------------
(* Registration *)

(* Nothing that exists can be dropped with a session. *)
AllPersistent == \A q \in Paths : owner[q] = 0

(* The paths a provider has been through. *)
Passed(p) == IF process[p] = "serving" THEN DOMAIN Walk ELSE 1..(place[p] - 1)
PassedExist ==
  \A p \in Providers :
     process[p] \in {"exists", "create", "serving"} /\ p \notin misled
       => \A i \in Passed(p) : znode[Walk[i]] # Absent

(* Those whose zoo_create has failed, or will. *)
Unlucky == collided \cup {p \in Providers : /\ process[p] = "create"
                                            /\ znode[Here(p)] # Absent}
OneIsLucky == Unlucky # Providers

(* A process that starts has passed no path yet; one that is up has a session
   number and has not collided. *)
WellStarted ==
  \A p \in Providers :
     /\ process[p] = "starting" => place[p] = 1
     /\ process[p] # "down" => session[p] # 0 /\ p \notin collided

RegIInv == RegTypeOK /\ AllPersistent /\ PassedExist /\ OneIsLucky /\ WellStarted

-----------------------------------------------------------------------------
(* What is in Walk is a path, and the service is one. *)
LEMMA WalkFacts ==
  /\ Len(Walk) \in Nat /\ Len(Walk) >= 1
  /\ DOMAIN Walk = 1..Len(Walk)
  /\ \A i \in 1..Len(Walk) : Walk[i] \in Paths
  /\ \A q \in Paths : \E i \in 1..Len(Walk) : q = Walk[i]
  /\ 0 \in 0..MaxBoots
  /\ Absent \notin Providers /\ NoData \notin Providers /\ NoData # Absent
<1>1. Len(Walk) \in Nat /\ DOMAIN Walk = 1..Len(Walk) /\ Len(Walk) >= 1
  BY RegistryAssumption
<1>2. /\ \A i \in 1..Len(Walk) : Walk[i] \in Paths
      /\ \A q \in Paths : \E i \in 1..Len(Walk) : q = Walk[i]
  BY <1>1 DEF Paths, Range
<1>3. Absent \notin Providers /\ NoData \notin Providers
  BY NamesAssumption
<1>4. NoData # Absent
  BY DEF NoData, Absent
<1>5. 0 \in 0..MaxBoots
  BY RegistryAssumption
<1>6. QED
  BY <1>1, <1>2, <1>3, <1>4, <1>5

(* The initial states satisfy the inductive invariant. *)
LEMMA RegInitIInv == RegInit => RegIInv
<1> SUFFICES ASSUME RegInit PROVE RegIInv
  OBVIOUS
<1>1. RegTypeOK
  BY WalkFacts, RegistryAssumption DEF RegInit, RegTypeOK
<1>2. AllPersistent /\ PassedExist /\ WellStarted
  BY DEF RegInit, AllPersistent, PassedExist, WellStarted
<1>3. OneIsLucky
  BY RegistryAssumption DEF RegInit, OneIsLucky, Unlucky
<1>4. QED
  BY <1>1, <1>2, <1>3 DEF RegIInv

(* Where Proceed takes a provider. *)
LEMMA ProceedFacts ==
  ASSUME RegTypeOK, NEW p \in Providers, Proceed(p),
         process[p] \in {"exists", "create"},
         p \notin misled' => znode'[Here(p)] # Absent,
         PassedExist, \A q \in Paths : znode[q] # Absent => znode'[q] # Absent,
         misled \subseteq misled'
  PROVE  /\ process' \in [Providers -> {"down", "starting", "exists", "create", "serving"}]
         /\ place' \in [Providers -> DOMAIN Walk]
         /\ process'[p] \in {"exists", "serving"}
         /\ \A r \in Providers \ {p} : process'[r] = process[r] /\ place'[r] = place[r]
         /\ p \notin misled' => \A i \in Passed(p)' : znode'[Walk[i]] # Absent
<1>1. place[p] \in 1..Len(Walk)
  BY WalkFacts DEF RegTypeOK
<1>2. CASE place[p] = Len(Walk)
  <2>1. process' = [process EXCEPT ![p] = "serving"] /\ place' = place
    BY <1>2 DEF Proceed
  <2>2. Passed(p)' = 1..Len(Walk)
    BY <2>1, WalkFacts DEF Passed, RegTypeOK
  <2>3. p \notin misled' => \A i \in 1..Len(Walk) : znode'[Walk[i]] # Absent
    <3> SUFFICES ASSUME p \notin misled', NEW i \in 1..Len(Walk)
                 PROVE  znode'[Walk[i]] # Absent
      OBVIOUS
    <3>1. CASE i = place[p]
      BY <3>1 DEF Here
    <3>2. CASE i # place[p]
      <4>1. i \in Passed(p)
        <5>0. Len(Walk) \in Nat
          BY WalkFacts
        <5>1. i \in 1..(place[p] - 1)
          BY <5>0, <1>2, <3>2
        <5>2. process[p] # "serving"
          OBVIOUS
        <5>3. QED
          BY <5>1, <5>2 DEF Passed
      <4>2. znode[Walk[i]] # Absent
        BY <4>1 DEF PassedExist
      <4>3. QED
        BY <4>2, WalkFacts
    <3>3. QED
      BY <3>1, <3>2
  <2>4. QED
    BY <2>1, <2>2, <2>3 DEF RegTypeOK
<1>3. CASE place[p] # Len(Walk)
  <2>1. /\ process' = [process EXCEPT ![p] = "exists"]
        /\ place' = [place EXCEPT ![p] = @ + 1]
    BY <1>3 DEF Proceed
  <2>2. place[p] + 1 \in 1..Len(Walk)
    BY <1>1, <1>3, WalkFacts
  <2>3. Passed(p)' = 1..place[p]
    BY <1>1, <2>1 DEF Passed, RegTypeOK
  <2>4. p \notin misled' => \A i \in 1..place[p] : znode'[Walk[i]] # Absent
    <3> SUFFICES ASSUME p \notin misled', NEW i \in 1..place[p]
                 PROVE  znode'[Walk[i]] # Absent
      OBVIOUS
    <3>1. CASE i = place[p]
      BY <3>1 DEF Here
    <3>2. CASE i # place[p]
      <4>1. i \in Passed(p) /\ i \in 1..Len(Walk)
        BY <1>1, <3>2, WalkFacts DEF Passed
      <4>2. znode[Walk[i]] # Absent
        BY <4>1 DEF PassedExist
      <4>3. QED
        BY <4>1, <4>2, WalkFacts
    <3>3. QED
      BY <3>1, <3>2
  <2>5. QED
    BY <2>1, <2>2, <2>3, <2>4, WalkFacts DEF RegTypeOK
<1>4. QED
  BY <1>2, <1>3

(* No znode goes away. *)
LEMMA NothingVanishes ==
  ASSUME RegIInv, [RegNext]_regVars
  PROVE  \A q \in Paths : znode[q] # Absent => znode'[q] = znode[q]
<1> USE DEF RegIInv
<1>1. CASE UNCHANGED regVars
  BY <1>1 DEF regVars, zkVars
<1>2. ASSUME NEW p \in Providers,
             Boot(p) \/ Start(p) \/ ZkExists(p) \/ ZkCollides(p) \/ Kill(p)
      PROVE  znode' = znode
  BY <1>2 DEF Boot, Start, ZkExists, ZkCollides, Kill, zkVars
<1>3. ASSUME NEW p \in Providers, ZkCreate(p)
      PROVE  \A q \in Paths : znode[q] # Absent => znode'[q] = znode[q]
  BY <1>3 DEF ZkCreate, RegTypeOK
<1>4. ASSUME NEW s \in sessions, Expire(s)
      PROVE  \A q \in Paths : znode'[q] = znode[q]
  <2>1. \A q \in Paths : owner[q] # s
    BY DEF RegTypeOK, AllPersistent
  <2>2. QED
    BY <1>4, <2>1 DEF Expire
<1>5. QED
  BY <1>1, <1>2, <1>3, <1>4 DEF RegNext

(* Every step keeps the inductive invariant. *)
LEMMA BootStep ==
  ASSUME RegIInv, NEW p \in Providers, Boot(p)  PROVE  RegIInv'
<1> USE DEF RegIInv
<1>1. RegTypeOK'
  BY WalkFacts, RegistryAssumption DEF Boot, RegTypeOK, zkVars
<1>2. AllPersistent' /\ WellStarted'
  BY RegistryAssumption DEF Boot, AllPersistent, WellStarted, RegTypeOK, zkVars
<1>3. PassedExist'
  BY DEF Boot, PassedExist, Passed, RegTypeOK, zkVars
<1>4. OneIsLucky'
  BY DEF Boot, OneIsLucky, Unlucky, Here, RegTypeOK, zkVars
<1>5. QED
  BY <1>1, <1>2, <1>3, <1>4

LEMMA StartStep ==
  ASSUME RegIInv, NEW p \in Providers, Start(p)  PROVE  RegIInv'
<1> USE DEF RegIInv
<1>1. RegTypeOK'
  <2>1. session[p] \in 1..MaxBoots
    BY RegistryAssumption DEF Start, RegTypeOK, WellStarted
  <2>2. QED
    BY <2>1 DEF Start, RegTypeOK
<1>2. AllPersistent' /\ WellStarted'
  BY DEF Start, AllPersistent, WellStarted, RegTypeOK
<1>3. PassedExist'
  BY WalkFacts DEF Start, PassedExist, Passed, RegTypeOK, WellStarted
<1>4. OneIsLucky'
  BY DEF Start, OneIsLucky, Unlucky, Here, RegTypeOK
<1>5. QED
  BY <1>1, <1>2, <1>3, <1>4

LEMMA KillStep ==
  ASSUME RegIInv, NEW p \in Providers, Kill(p)  PROVE  RegIInv'
<1> USE DEF RegIInv
<1>1. RegTypeOK' /\ AllPersistent' /\ WellStarted'
  BY DEF Kill, RegTypeOK, AllPersistent, WellStarted, zkVars
<1>2. PassedExist'
  BY DEF Kill, PassedExist, Passed, RegTypeOK, zkVars
<1>3. OneIsLucky'
  BY DEF Kill, OneIsLucky, Unlucky, Here, RegTypeOK, zkVars
<1>4. QED
  BY <1>1, <1>2, <1>3

(* Who collides was unlucky before. *)
LEMMA CollidesStep ==
  ASSUME RegIInv, NEW p \in Providers, ZkCollides(p)  PROVE  RegIInv'
<1> USE DEF RegIInv
<1>1. RegTypeOK' /\ AllPersistent' /\ WellStarted'
  BY DEF ZkCollides, RegTypeOK, AllPersistent, WellStarted, zkVars
<1>2. PassedExist'
  BY DEF ZkCollides, PassedExist, Passed, RegTypeOK, zkVars
<1>3. Unlucky' = Unlucky
  BY DEF ZkCollides, Unlucky, Here, RegTypeOK, zkVars
<1>4. OneIsLucky'
  BY <1>3 DEF OneIsLucky
<1>5. QED
  BY <1>1, <1>2, <1>4

(* zoo_exists makes nobody unlucky: who goes on to zoo_create saw no znode. *)
LEMMA ExistsStep ==
  ASSUME RegIInv, NEW p \in Providers, ZkExists(p)  PROVE  RegIInv'
<1> USE DEF RegIInv
<1>0. /\ process[p] = "exists"
      /\ UNCHANGED <<zkVars, session, boots, collided>>
      /\ misled \subseteq misled' /\ misled' \subseteq Providers
  BY DEF ZkExists, RegTypeOK
<1>1. CASE /\ MustCreate(p)
           /\ process' = [process EXCEPT ![p] = "create"]
           /\ UNCHANGED <<place, misled>>
  <2>1. RegTypeOK' /\ AllPersistent' /\ WellStarted'
    BY <1>0, <1>1 DEF RegTypeOK, AllPersistent, WellStarted, zkVars
  <2>2. PassedExist'
    BY <1>0, <1>1 DEF PassedExist, Passed, RegTypeOK, zkVars
  <2>3. OneIsLucky'
    BY <1>0, <1>1 DEF OneIsLucky, Unlucky, Here, MustCreate, RegTypeOK, zkVars
  <2>4. QED
    BY <2>1, <2>2, <2>3
<1>2. CASE Proceed(p) /\ (p \notin misled' => ~MustCreate(p))
  <2>1. /\ process' \in [Providers -> {"down", "starting", "exists", "create", "serving"}]
        /\ place' \in [Providers -> DOMAIN Walk]
        /\ process'[p] \in {"exists", "serving"}
        /\ \A r \in Providers \ {p} : process'[r] = process[r] /\ place'[r] = place[r]
        /\ p \notin misled' => \A i \in Passed(p)' : znode'[Walk[i]] # Absent
    BY <1>0, <1>2, ProceedFacts DEF MustCreate, zkVars
  <2>2. RegTypeOK' /\ AllPersistent' /\ WellStarted'
    BY <1>0, <2>1 DEF RegTypeOK, AllPersistent, WellStarted, zkVars
  <2>3. PassedExist'
    BY <1>0, <2>1 DEF PassedExist, Passed, zkVars
  <2>4. OneIsLucky'
    BY <1>0, <2>1 DEF OneIsLucky, Unlucky, Here, zkVars
  <2>5. QED
    BY <2>2, <2>3, <2>4
<1>3. QED
  BY <1>1, <1>2 DEF ZkExists

(* zoo_create makes others unlucky, and its caller lucky. *)
LEMMA CreateStep ==
  ASSUME RegIInv, NEW p \in Providers, ZkCreate(p)  PROVE  RegIInv'
<1> USE DEF RegIInv
<1>0. /\ process[p] = "create"
      /\ UNCHANGED <<session, sessions, boots, misled, collided>>
      /\ Proceed(p)
      /\ znode[Here(p)] = Absent /\ Here(p) \in Paths
      /\ znode' = [znode EXCEPT ![Here(p)] = Data(p, Here(p))]
      /\ owner' = [owner EXCEPT ![Here(p)] = 0]
      /\ Data(p, Here(p)) \in Providers \cup {NoData}
  BY WalkFacts DEF ZkCreate, Here, Data, Ephemeral, RegTypeOK
<1>1. /\ znode'[Here(p)] # Absent
      /\ \A q \in Paths : znode[q] # Absent => znode'[q] # Absent
  BY <1>0, WalkFacts DEF RegTypeOK
<1>2. /\ process' \in [Providers -> {"down", "starting", "exists", "create", "serving"}]
      /\ place' \in [Providers -> DOMAIN Walk]
      /\ process'[p] \in {"exists", "serving"}
      /\ \A r \in Providers \ {p} : process'[r] = process[r] /\ place'[r] = place[r]
      /\ p \notin misled' => \A i \in Passed(p)' : znode'[Walk[i]] # Absent
  BY <1>0, <1>1, ProceedFacts
<1>3. RegTypeOK' /\ AllPersistent' /\ WellStarted'
  BY <1>0, <1>2, WalkFacts DEF RegTypeOK, AllPersistent, WellStarted
<1>4. PassedExist'
  <2> SUFFICES ASSUME NEW r \in Providers \ {p}, NEW i \in Passed(r),
                      process[r] \in {"exists", "create", "serving"}, r \notin misled
               PROVE  znode'[Walk[i]] # Absent
    BY <1>0, <1>2 DEF PassedExist, Passed
  <2>1. i \in 1..Len(Walk)
    BY WalkFacts DEF Passed, RegTypeOK
  <2>2. QED
    BY <1>1, <2>1, WalkFacts DEF PassedExist
<1>5. OneIsLucky'
  <2>1. p \notin collided
    BY <1>0 DEF WellStarted
  <2>2. p \notin Unlucky'
    BY <1>0, <1>2, <2>1 DEF Unlucky
  <2>3. QED
    BY <2>2 DEF OneIsLucky
<1>6. QED
  BY <1>3, <1>4, <1>5

LEMMA ExpireStep ==
  ASSUME RegIInv, NEW s \in sessions, Expire(s)  PROVE  RegIInv'
<1> USE DEF RegIInv
<1>1. \A q \in Paths : owner[q] # s
  BY DEF RegTypeOK, AllPersistent
<1>2. znode' = znode /\ owner' = owner
  BY <1>1 DEF Expire, RegTypeOK
<1>3. RegTypeOK' /\ AllPersistent' /\ WellStarted'
  BY <1>2 DEF Expire, RegTypeOK, AllPersistent, WellStarted
<1>4. PassedExist' /\ OneIsLucky'
  BY <1>2 DEF Expire, PassedExist, Passed, OneIsLucky, Unlucky, Here
<1>5. QED
  BY <1>3, <1>4

(* The step of the induction. *)
LEMMA RegNextIInv == RegIInv /\ [RegNext]_regVars => RegIInv'
<1> SUFFICES ASSUME RegIInv, [RegNext]_regVars PROVE RegIInv'
  OBVIOUS
<1>1. CASE UNCHANGED regVars
  BY <1>1 DEF RegIInv, RegTypeOK, AllPersistent, PassedExist, Passed, OneIsLucky,
              Unlucky, Here, WellStarted, regVars, zkVars
<1>2. CASE RegNext
  BY <1>2, BootStep, StartStep, ExistsStep, CreateStep, CollidesStep, KillStep,
     ExpireStep DEF RegNext
<1>3. QED
  BY <1>1, <1>2

(* The inductive invariant is one. *)
THEOREM RegInductive == RegSpec => []RegIInv
<1>1. QED
  BY RegInitIInv, RegNextIInv, PTL DEF RegSpec

(* Every variable of the registration keeps its type. *)
THEOREM RegTypeCorrect == RegSpec => []RegTypeOK
<1>1. RegIInv => RegTypeOK
  BY DEF RegIInv
<1>2. QED
  BY <1>1, RegInductive, PTL

(* Whoever serves, and was answered by ZooKeeper, is in the registry under
   every path (rpcprovider.cc:63-85), for every number of providers, methods,
   restarts and lost sessions. *)
THEOREM Registered == RegSpec => []ServingIsRegistered
<1>1. RegIInv => ServingIsRegistered
  <2> SUFFICES ASSUME RegIInv, NEW p \in Providers, process[p] = "serving",
                      p \notin misled, NEW q \in Paths
               PROVE  znode[q] # Absent
    BY DEF ServingIsRegistered
  <2>1. PICK i \in 1..Len(Walk) : q = Walk[i]
    BY WalkFacts
  <2>2. i \in Passed(p)
    BY WalkFacts DEF Passed
  <2>3. QED
    BY <2>1, <2>2 DEF RegIInv, PassedExist
<1>2. QED
  BY <1>1, RegInductive, PTL

(* However many processes race to register, not all of them exit for it
   (zookeeperutil.cc:81-96). *)
THEOREM Winner == RegSpec => []RaceHasWinner
<1>1. RegIInv => RaceHasWinner
  <2> SUFFICES ASSUME RegIInv, collided = Providers PROVE FALSE
    BY DEF RaceHasWinner
  <2>1. Unlucky = Providers
    BY DEF Unlucky
  <2>2. QED
    BY <2>1 DEF RegIInv, OneIsLucky
<1>2. QED
  BY <1>1, RegInductive, PTL

(* A registered address is final (zookeeperutil.cc:81-82, rpcprovider.cc:77):
   no restart and no lost session ever replaces it. *)
THEOREM FinalAddress == RegSpec => AddressIsFinal
<1>1. RegIInv /\ [RegNext]_regVars
      => [\A q \in Paths : znode[q] # Absent => znode'[q] = znode[q]]_regVars
  BY NothingVanishes
<1>2. QED
  BY <1>1, RegInductive, PTL DEF RegSpec, AddressIsFinal

-----------------------------------------------------------------------------
(* Calls *)

(* The znode of a method holds an address. *)
MethodData == \A q \in Paths \ {Service} : znode[q] # NoData

(* How the parts of a call fit together. *)
Staged(k) ==
  /\ pc[k] \in {"socket", "lookup"} => target[k] = Nobody
  /\ pc[k] \in {"socket", "lookup", "connect"} => conn[k] = "none"
  /\ conn[k] # "none" => target[k] \in Providers
  /\ outcome[k] # "none" => pc[k] = "done"
RunFits(k) ==
  /\ runs[k] = <<>> \/ runs[k] \in {<<"own">>, <<"other">>}
  /\ runs[k] # <<>> => arrived[k] > 0
  /\ method[k] = "running" => runs[k] # <<>> /\ conn[k] \in {"open", "shut"}
  /\ reply[k] # "none" => runs[k] = <<reply[k]>>
  /\ conn[k] = "shut" => reply[k] # "none"
Answered(k) ==
  /\ outcome[k] \in {"own", "other"} => runs[k] = <<outcome[k]>>
  /\ outcome[k] = "part" => runs[k] # <<>>
  /\ outcome[k] = "empty" => conn[k] = "down"
Accounted(k) ==
  pc[k] = "done" /\ fd[k] = "open" => outcome[k] = "failed" /\ target[k] = Nobody
                                      /\ conn[k] = "none"
CallInv(k) == Staged(k) /\ RunFits(k) /\ Answered(k) /\ Accounted(k)

IInv == RegIInv /\ MethodData /\ TypeOK /\ \A k \in Calls : CallInv(k)

-----------------------------------------------------------------------------
(* Facts of sequences of one run. *)
LEMMA NotEmpty ==
  \A x : <<x>> # <<>> /\ Len(<<x>>) = 1 /\ <<x>>[1] = x /\ Append(<<>>, x) = <<x>>
  OBVIOUS

LEMMA InitCalls == Init => IInv
<1> SUFFICES ASSUME Init PROVE IInv
  OBVIOUS
<1>1. RegIInv
  BY RegInitIInv DEF Init
<1>2. MethodData
  BY WalkFacts DEF Init, RegInit, MethodData
<1>3. TypeOK
  BY DEF Init, TypeOK, Stages, Outcomes
<1>4. \A k \in Calls : CallInv(k)
  BY DEF Init, CallInv, Staged, RunFits, Answered, Accounted
<1>5. QED
  BY <1>1, <1>2, <1>3, <1>4 DEF IInv

(* Registration never puts the service's empty data under a method. *)
LEMMA MethodDataStep == RegTypeOK /\ MethodData /\ [RegNext]_regVars => MethodData'
<1> SUFFICES ASSUME RegTypeOK, MethodData, [RegNext]_regVars,
                    NEW q \in Paths, q # Service
             PROVE  znode'[q] # NoData
  BY DEF MethodData
<1>1. znode[q] # NoData
  BY DEF MethodData
<1>2. CASE UNCHANGED regVars
  BY <1>1, <1>2 DEF regVars, zkVars
<1>3. ASSUME NEW p \in Providers,
             Boot(p) \/ Start(p) \/ ZkExists(p) \/ ZkCollides(p) \/ Kill(p)
      PROVE  znode'[q] # NoData
  BY <1>1, <1>3 DEF Boot, Start, ZkExists, ZkCollides, Kill, zkVars
<1>4. ASSUME NEW p \in Providers, ZkCreate(p) PROVE znode'[q] # NoData
  BY <1>1, <1>4, WalkFacts DEF ZkCreate, Data, RegTypeOK
<1>5. ASSUME NEW s \in sessions, Expire(s) PROVE znode'[q] # NoData
  BY <1>1, <1>5, WalkFacts DEF Expire
<1>6. QED
  BY <1>2, <1>3, <1>4, <1>5 DEF RegNext

(* A step of a call is one of the registry, or leaves it alone. *)
LEMMA StepsRegister == IInv /\ [Next]_vars => [RegNext]_regVars
<1> SUFFICES ASSUME IInv, [Next]_vars PROVE [RegNext]_regVars
  OBVIOUS
<1>1. ASSUME NEW k \in Calls, Caller(k) \/ SendRpcResponse(k)
      PROVE  UNCHANGED regVars
  BY <1>1 DEF Caller, Socket, Lookup, Connect, SendRequest, Recv, SendRpcResponse
<1>2. ASSUME NEW k \in Calls, OnMessage(k) PROVE [RegNext]_regVars
  <2>1. ASSUME NEW e \in 1..4, OnMessageThrows(k, e) PROVE RegNext
    <3>1. target[k] \in Providers
      BY <2>1 DEF OnMessageThrows, Piece, IInv, CallInv, Staged
    <3>2. QED
      BY <2>1, <3>1 DEF OnMessageThrows, RegNext
  <2>2. ASSUME NEW e \in 1..4, OnMessageReturns(k, e) \/ OnMessageRuns(k, e)
        PROVE  UNCHANGED regVars
    BY <2>2 DEF OnMessageReturns, OnMessageRuns
  <2>3. QED
    BY <1>2, <2>1, <2>2 DEF OnMessage
<1>3. CASE \E p \in Providers : Stop(p)
  BY <1>3 DEF Stop, RegNext
<1>4. CASE Registers
  BY <1>4 DEF Registers, RegNext
<1>5. CASE UNCHANGED vars
  BY <1>5 DEF vars
<1>6. QED
  BY <1>1, <1>2, <1>3, <1>4, <1>5 DEF Next

-----------------------------------------------------------------------------
(* Each action keeps the types and what is said of each call. *)
CallsFit == TypeOK /\ \A k \in Calls : CallInv(k)

LEMMA SocketStep ==
  ASSUME CallsFit, NEW j \in Calls, Socket(j)  PROVE  CallsFit'
<1> USE DEF CallsFit
<1>1. TypeOK'
  BY DEF Socket, Continues, Ends, TypeOK, Stages, Outcomes, serverVars
<1>2. ASSUME NEW k \in Calls PROVE CallInv(k)'
  BY <1>2 DEF Socket, Continues, Ends, TypeOK, serverVars, CallInv, Staged, RunFits,
              Answered, Accounted
<1>3. QED
  BY <1>1, <1>2

LEMMA LookupStep ==
  ASSUME CallsFit, RegTypeOK, MethodData, NEW j \in Calls, Lookup(j)  PROVE  CallsFit'
<1> USE DEF CallsFit
<1>1. GetData(Method[j]) \subseteq Providers \cup {Nobody}
  BY CallAssumption DEF GetData, RegTypeOK, MethodData
<1>2. TypeOK'
  <2>1. CASE /\ \E t \in GetData(Method[j]) : target' = [target EXCEPT ![j] = t]
             /\ Continues(j, "connect")
             /\ UNCHANGED fd
    <3>1. PICK t \in Providers \cup {Nobody} : target' = [target EXCEPT ![j] = t]
      BY <1>1, <2>1
    <3>2. QED
      BY <2>1, <3>1 DEF Lookup, Continues, TypeOK, Stages, Outcomes, serverVars
  <2>2. CASE Ends(j, "failed", FALSE) /\ UNCHANGED target
    BY <2>2 DEF Lookup, Ends, TypeOK, Stages, Outcomes, serverVars
  <2>3. QED
    BY <2>1, <2>2 DEF Lookup
<1>3. ASSUME NEW k \in Calls PROVE CallInv(k)'
  BY <1>3 DEF Lookup, Continues, Ends, TypeOK, serverVars, CallInv, Staged, RunFits,
              Answered, Accounted
<1>4. QED
  BY <1>2, <1>3

LEMMA ConnectStep ==
  ASSUME CallsFit, NEW j \in Calls, Connect(j)  PROVE  CallsFit'
<1> USE DEF CallsFit
<1>1. TypeOK'
  BY DEF Connect, Continues, Ends, TypeOK, Stages, Outcomes
<1>2. ASSUME NEW k \in Calls PROVE CallInv(k)'
  BY <1>2 DEF Connect, Listens, Continues, Ends, TypeOK, CallInv, Staged, RunFits,
              Answered, Accounted
<1>3. QED
  BY <1>1, <1>2

LEMMA SendStep ==
  ASSUME CallsFit, NEW j \in Calls, SendRequest(j)  PROVE  CallsFit'
<1> USE DEF CallsFit
<1>1. TypeOK'
  BY DEF SendRequest, Continues, Ends, TypeOK, Stages, Outcomes, serverVars
<1>2. ASSUME NEW k \in Calls PROVE CallInv(k)'
  BY <1>2 DEF SendRequest, Continues, Ends, TypeOK, serverVars, CallInv, Staged,
              RunFits, Answered, Accounted
<1>3. QED
  BY <1>1, <1>2

LEMMA RecvStep ==
  ASSUME CallsFit, NEW j \in Calls, Recv(j)  PROVE  CallsFit'
<1> USE DEF CallsFit
<1>0. PICK result \in Outcomes :
         /\ pc' = [pc EXCEPT ![j] = "done"]
         /\ outcome' = [outcome EXCEPT ![j] = result]
         /\ fd' = [fd EXCEPT ![j] = "closed"]
         /\ result \in {"own", "other"} => result = reply[j]
         /\ result = "part" => reply[j] # "none"
         /\ result = "empty" => reply[j] = "none" /\ conn[j] \in {"shut", "down"}
  <2>1. CASE /\ reply[j] # "none"
             /\ \E result \in {reply[j], "part", "failed"} : Ends(j, result, TRUE)
    <3>1. PICK result \in {reply[j], "part", "failed"} : Ends(j, result, TRUE)
      BY <2>1
    <3>2. reply[j] \in {"own", "other"}
      BY <2>1 DEF TypeOK
    <3>3. QED
      BY <2>1, <3>1, <3>2 DEF Ends, Outcomes
  <2>2. CASE /\ reply[j] = "none" /\ conn[j] \in {"shut", "down"}
             /\ Ends(j, "empty", TRUE)
    BY <2>2 DEF Ends, Outcomes
  <2>3. CASE conn[j] = "down" /\ Ends(j, "failed", TRUE)
    BY <2>3 DEF Ends, Outcomes
  <2>4. QED
    BY <2>1, <2>2, <2>3 DEF Recv
<1>1. TypeOK'
  BY <1>0 DEF Recv, TypeOK, Stages, serverVars
<1>2. ASSUME NEW k \in Calls PROVE CallInv(k)'
  <2>1. CASE k # j
    BY <1>0, <1>2, <2>1 DEF Recv, TypeOK, serverVars, CallInv, Staged, RunFits,
       Answered, Accounted
  <2>2. CASE k = j
    <3>1. RunFits(j) /\ Staged(j) /\ pc[j] = "recv"
      BY DEF CallInv, Recv
    <3>2. UNCHANGED serverVars /\ target' = target
      BY DEF Recv
    <3>3. Answered(j)'
      BY <1>0, <3>1, <3>2, NotEmpty DEF RunFits, Answered, serverVars, TypeOK
    <3>4. Staged(j)' /\ RunFits(j)' /\ Accounted(j)'
      BY <1>0, <3>1, <3>2 DEF RunFits, Staged, Accounted, serverVars, TypeOK
    <3>5. QED
      BY <2>2, <3>3, <3>4 DEF CallInv
  <2>3. QED
    BY <2>1, <2>2
<1>3. QED
  BY <1>1, <1>2

(* A process takes its connections and its running methods with it. *)
LEMMA DropsTypes ==
  ASSUME CallsFit, NEW p \in Providers, Drops(p)
  PROVE  /\ conn' \in [Calls -> {"none", "open", "shut", "down"}]
         /\ method' \in [Calls -> {"idle", "running"}]
  BY DEF Drops, CallsFit, TypeOK

LEMMA DropsFit ==
  ASSUME CallsFit, NEW p \in Providers, Drops(p), NEW k \in Calls
  PROVE  /\ conn'[k] = conn[k] \/ (conn'[k] = "down" /\ conn[k] # "none"
                                   /\ method'[k] = "idle")
         /\ method'[k] = "running" => method[k] = "running"
  BY DEF Drops, CallsFit, TypeOK

LEMMA ThrowsStep ==
  ASSUME CallsFit, NEW j \in Calls, NEW e \in 1..4, OnMessageThrows(j, e)
  PROVE  CallsFit'
<1> USE DEF CallsFit
<1>0. target[j] \in Providers
  BY DEF OnMessageThrows, Piece, CallInv, Staged
<1>1. /\ arrived' = [arrived EXCEPT ![j] = e]
      /\ UNCHANGED <<clientVars, reply, runs, ignored>>
      /\ Drops(target[j]) /\ e > arrived[j]
  BY DEF OnMessageThrows, Piece
<1>2. TypeOK'
  BY <1>0, <1>1, DropsTypes DEF TypeOK, clientVars
<1>3. ASSUME NEW k \in Calls PROVE CallInv(k)'
  <2>1. /\ conn'[k] = conn[k] \/ (conn'[k] = "down" /\ conn[k] # "none"
                                  /\ method'[k] = "idle")
        /\ method'[k] = "running" => method[k] = "running"
    BY <1>0, <1>1, <1>3, DropsFit
  <2>2. arrived[k] > 0 => arrived'[k] > 0
    BY <1>1 DEF TypeOK
  <2>3. CallInv(k)
    BY <1>3
  <2>4. QED
    BY <1>1, <2>1, <2>2, <2>3 DEF clientVars, CallInv, Staged, RunFits, Answered, Accounted
<1>4. QED
  BY <1>2, <1>3

LEMMA StopStep ==
  ASSUME CallsFit, NEW p \in Providers, Stop(p)  PROVE  CallsFit'
<1> USE DEF CallsFit
<1>1. UNCHANGED <<clientVars, arrived, runs, reply, ignored>> /\ Drops(p)
  BY DEF Stop
<1>2. TypeOK'
  BY <1>1, DropsTypes DEF TypeOK, clientVars
<1>3. ASSUME NEW k \in Calls PROVE CallInv(k)'
  <2>1. /\ conn'[k] = conn[k] \/ (conn'[k] = "down" /\ conn[k] # "none"
                                  /\ method'[k] = "idle")
        /\ method'[k] = "running" => method[k] = "running"
    BY <1>1, <1>3, DropsFit
  <2>2. CallInv(k)
    BY <1>3
  <2>3. QED
    BY <1>1, <2>1, <2>2 DEF clientVars, CallInv, Staged, RunFits, Answered, Accounted
<1>4. QED
  BY <1>2, <1>3

LEMMA ReturnsStep ==
  ASSUME CallsFit, NEW j \in Calls, NEW e \in 1..4, OnMessageReturns(j, e)
  PROVE  CallsFit'
<1> USE DEF CallsFit
<1>1. TypeOK'
  BY DEF OnMessageReturns, Piece, TypeOK, clientVars
<1>2. ASSUME NEW k \in Calls PROVE CallInv(k)'
  BY <1>2 DEF OnMessageReturns, Piece, TypeOK, clientVars, CallInv, Staged, RunFits,
              Answered, Accounted
<1>3. QED
  BY <1>1, <1>2

(* A method runs on the first piece only, so that it has not run before. *)
LEMMA RunsStep ==
  ASSUME CallsFit, NEW j \in Calls, NEW e \in 1..4, OnMessageRuns(j, e)
  PROVE  CallsFit'
<1> USE DEF CallsFit
<1>0. runs[j] = <<>> /\ reply[j] = "none"
  BY DEF OnMessageRuns, Runs, Starts, CallInv, RunFits
<1>1. runs' = [runs EXCEPT ![j] = IF e = 4 THEN <<"own">> ELSE <<"other">>]
  BY <1>0, NotEmpty DEF OnMessageRuns, TypeOK
<1>2. TypeOK'
  BY <1>1 DEF OnMessageRuns, Piece, TypeOK, clientVars
<1>3. ASSUME NEW k \in Calls PROVE CallInv(k)'
  <2>1. CASE k # j
    BY <1>1, <1>3, <2>1 DEF OnMessageRuns, Piece, TypeOK, clientVars, CallInv, Staged,
       RunFits, Answered, Accounted
  <2>2. CASE k = j
    <3>1. /\ runs'[j] \in {<<"own">>, <<"other">>}
          /\ arrived'[j] > 0 /\ conn'[j] = conn[j] /\ reply'[j] = "none"
          /\ conn[j] \in {"open", "shut"} /\ UNCHANGED clientVars
      BY <1>0, <1>1 DEF OnMessageRuns, Piece, TypeOK
    <3>2. outcome[j] \notin {"own", "other"}
      BY <1>0, NotEmpty DEF CallInv, Answered
    <3>3. CallInv(j)
      OBVIOUS
    <3>4. RunFits(j)'
      <4>1. runs'[j] # <<>>
        BY <3>1, NotEmpty
      <4>2. conn[j] # "shut"
        BY <1>0, <3>3 DEF CallInv, RunFits
      <4>3. QED
        BY <3>1, <4>1, <4>2 DEF RunFits
    <3>5. Answered(j)'
      <4>1. runs'[j] # <<>>
        BY <3>1, NotEmpty
      <4>2. outcome'[j] = outcome[j]
        BY <3>1 DEF clientVars
      <4>3. QED
        BY <3>1, <3>2, <3>3, <4>1, <4>2 DEF CallInv, Answered
    <3>6. Staged(j)' /\ Accounted(j)'
      BY <3>1, <3>3 DEF clientVars, CallInv, Staged, Accounted
    <3>7. QED
      BY <2>2, <3>4, <3>5, <3>6 DEF CallInv
  <2>3. QED
    BY <2>1, <2>2
<1>4. QED
  BY <1>2, <1>3

LEMMA RespondStep ==
  ASSUME CallsFit, NEW j \in Calls, SendRpcResponse(j)  PROVE  CallsFit'
<1> USE DEF CallsFit
<1>0. /\ runs[j] \in {<<"own">>, <<"other">>} /\ conn[j] \in {"open", "shut"}
      /\ CallInv(j)
  BY DEF SendRpcResponse, CallInv, RunFits
<1>1. Last(runs[j]) \in {"own", "other"} /\ runs[j] = <<Last(runs[j])>>
  BY <1>0 DEF Last
<1>2. TypeOK'
  BY <1>1 DEF SendRpcResponse, TypeOK, clientVars
<1>3. ASSUME NEW k \in Calls PROVE CallInv(k)'
  BY <1>0, <1>1, <1>3 DEF SendRpcResponse, TypeOK, clientVars, CallInv, Staged,
     RunFits, Answered, Accounted
<1>4. QED
  BY <1>2, <1>3

LEMMA NextCalls == IInv /\ [Next]_vars => IInv'
<1> SUFFICES ASSUME IInv, [Next]_vars PROVE IInv'
  OBVIOUS
<1>1. [RegNext]_regVars
  BY StepsRegister
<1>2. RegIInv' /\ MethodData'
  BY <1>1, RegNextIInv, MethodDataStep DEF IInv, RegIInv
<1>3. CallsFit
  BY DEF IInv, CallsFit
<1>4. CallsFit'
  <2>1. CASE \E k \in Calls : Caller(k) \/ OnMessage(k) \/ SendRpcResponse(k)
    BY <1>3, <2>1, SocketStep, LookupStep, ConnectStep, SendStep, RecvStep, ThrowsStep,
       ReturnsStep, RunsStep, RespondStep DEF Caller, OnMessage, IInv, RegIInv
  <2>2. CASE \E p \in Providers : Stop(p)
    BY <1>3, <2>2, StopStep
  <2>3. CASE Registers \/ UNCHANGED vars
    BY <1>3, <2>3 DEF Registers, vars, callVars, serverVars, clientVars, CallsFit, TypeOK,
       CallInv, Staged, RunFits, Answered, Accounted
  <2>4. QED
    BY <2>1, <2>2, <2>3 DEF Next
<1>5. QED
  BY <1>2, <1>4 DEF IInv, CallsFit

(* The inductive invariant is one. *)
THEOREM CallsInductive == Spec => []IInv
<1>1. QED
  BY InitCalls, NextCalls, PTL DEF Spec

(* Calls refine the registry: whatever is proved of RegSpec holds with calls
   under way, a provider that a call brings down included. *)
THEOREM CallsRegister == Spec => RegSpec
<1>1. Init => RegInit
  BY DEF Init
<1>2. QED
  BY <1>1, StepsRegister, CallsInductive, PTL DEF Spec, RegSpec

(* Every variable of a call keeps its type. *)
THEOREM CallsTypeCorrect == Spec => []TypeOK
<1>1. IInv => TypeOK
  BY DEF IInv
<1>2. QED
  BY <1>1, CallsInductive, PTL

(* A call runs at most once, and its caller's answer is that of the run, for
   every number of calls, providers and restarts, and every way TCP cuts the
   frames (mprpcchannel.cc:134-155, rpcprovider.cc:111-208). *)
THEOREM AnswersTrue == Spec => []AnswersAreRuns
<1>1. IInv => AnswersAreRuns
  <2> SUFFICES ASSUME IInv, NEW k \in Calls
               PROVE  /\ Len(runs[k]) <= 1
                      /\ outcome[k] \in {"own", "other"} => runs[k] = <<outcome[k]>>
                      /\ outcome[k] = "part" => runs[k] # <<>>
                      /\ outcome[k] = "empty" => conn[k] = "down"
    BY DEF AnswersAreRuns
  <2>1. RunFits(k) /\ Answered(k)
    BY DEF IInv, CallInv
  <2>2. Len(runs[k]) <= 1
    <3>1. CASE runs[k] = <<>>
      BY <3>1
    <3>2. CASE runs[k] \in {<<"own">>, <<"other">>}
      <4>1. Len(runs[k]) = 1
        BY <3>2, NotEmpty
      <4>2. QED
        BY <4>1
    <3>3. QED
      BY <2>1, <3>1, <3>2 DEF RunFits
  <2>3. QED
    BY <2>1, <2>2 DEF Answered
<1>2. QED
  BY <1>1, CallsInductive, PTL

(* A finished call has closed its socket unless its lookup failed
   (mprpcchannel.cc:94-157). *)
THEOREM SocketsClosed == Spec => []SocketsAccounted
<1>1. IInv => SocketsAccounted
  BY DEF IInv, CallInv, Accounted, SocketsAccounted
<1>2. QED
  BY <1>1, CallsInductive, PTL

=============================================================================
