-------------------------------- MODULE Registry --------------------------------
(***************************************************************************)
(* How the providers of a service register it with ZooKeeper: the part of  *)
(* RpcProvider::Run before server.start(), with ZkClient::Start and        *)
(* ZkClient::Create (rpcprovider.cc, zookeeperutil.cc).                    *)
(*                                                                         *)
(* Each provider process walks the same paths, the service's and then its  *)
(* methods'.  At each one it asks zoo_exists, and calls zoo_create only    *)
(* when the answer was ZNONODE; other processes act in between.  ZooKeeper *)
(* drops a session some time after its process is gone, or cut off, and    *)
(* with it the znodes that were created as ephemeral ones.                 *)
(***************************************************************************)
EXTENDS Naturals, Sequences, Functions

CONSTANTS Providers,  \* the processes that serve it, each at an address of its own
          Walk,       \* the paths in the order of Run's two loops
          MaxBoots    \* bound: how often a provider process is started

ASSUME RegistryAssumption ==
  /\ Providers # {}
  /\ Walk \in Seq(STRING) /\ Walk # <<>>
  /\ MaxBoots \in Nat

Paths == Range(Walk)
Service == Walk[1]

Absent == "absent"   \* no znode at the path
NoData == "no data"  \* a znode with the nullptr data of the service's path
ASSUME NamesAssumption == {Absent, NoData} \cap Providers = {}

VARIABLES
  znode,     \* what ZooKeeper has at each path
  owner,     \* the session of an ephemeral znode, 0 for another one
  process,   \* each provider: "down", "starting", in Create before its
             \* zoo_exists ("exists") or its zoo_create ("create"), "serving"
  place,     \* how far each provider is in Walk
  session,   \* the ZooKeeper session of each process
  sessions,  \* the sessions ZooKeeper has not dropped
  boots,     \* how many processes have been started
  misled,    \* providers whose zoo_exists failed, which counts as "exists"
  collided   \* providers whose zoo_create found the znode there, and exited

zkVars == <<znode, owner, sessions>>
regVars == <<zkVars, process, place, session, boots, misled, collided>>

RegTypeOK ==
  /\ znode \in [Paths -> Providers \cup {Absent, NoData}]
  /\ owner \in [Paths -> 0..MaxBoots]
  /\ process \in [Providers -> {"down", "starting", "exists", "create", "serving"}]
  /\ place \in [Providers -> DOMAIN Walk]
  /\ session \in [Providers -> 0..MaxBoots]
  /\ sessions \in SUBSET (1..MaxBoots)
  /\ boots \in 0..MaxBoots
  /\ misled \in SUBSET Providers
  /\ collided \in SUBSET Providers

RegInit ==
  /\ znode = [q \in Paths |-> Absent]
  /\ owner = [q \in Paths |-> 0]
  /\ process = [p \in Providers |-> "down"]
  /\ place = [p \in Providers |-> 1]
  /\ session = [p \in Providers |-> 0]
  /\ sessions = {}
  /\ boots = 0
  /\ misled = {}
  /\ collided = {}

-----------------------------------------------------------------------------
(* A mutant: the flag the comments of Run speak of. *)
Ephemeral_Methods(q) == q # Service

(* Whether Create is given ZOO_EPHEMERAL for path q: its last argument is 0
   in both calls. *)
Ephemeral(q) == FALSE

(* The data Create is given: the address, or nothing for the service. *)
Data(p, q) == IF q = Service THEN NoData ELSE p

Here(p) == Walk[place[p]]

(* The process is started; zookeeper_init, then sem_wait for the session. *)
Boot(p) ==
  /\ process[p] = "down"
  /\ boots < MaxBoots
  /\ boots' = boots + 1
  /\ process' = [process EXCEPT ![p] = "starting"]
  /\ place' = [place EXCEPT ![p] = 1]
  /\ session' = [session EXCEPT ![p] = boots + 1]
  /\ misled' = misled \ {p}
  /\ collided' = collided \ {p}
  /\ UNCHANGED zkVars

(* global_watcher posts the semaphore and Start returns. *)
Start(p) ==
  /\ process[p] = "starting"
  /\ process' = [process EXCEPT ![p] = "exists"]
  /\ sessions' = sessions \cup {session[p]}
  /\ UNCHANGED <<znode, owner, place, session, boots, misled, collided>>

(* On to the next path, or to server.start() and the loop. *)
Proceed(p) ==
  IF place[p] = Len(Walk)
  THEN /\ process' = [process EXCEPT ![p] = "serving"]
       /\ UNCHANGED place
  ELSE /\ process' = [process EXCEPT ![p] = "exists"]
       /\ place' = [place EXCEPT ![p] = @ + 1]

(* A mutant: the answer of zoo_exists is not looked at. *)
MustCreate_Always(p) == TRUE

(* flag == ZNONODE *)
MustCreate(p) == znode[Here(p)] = Absent

(* zoo_exists.  Create goes on to zoo_create on ZNONODE alone: an error is
   taken for a znode that exists. *)
ZkExists(p) ==
  /\ process[p] = "exists"
  /\ \/ /\ MustCreate(p)
        /\ process' = [process EXCEPT ![p] = "create"]
        /\ UNCHANGED <<place, misled>>
     \/ /\ ~MustCreate(p)
        /\ Proceed(p)
        /\ UNCHANGED misled
     \/ /\ Proceed(p)
        /\ misled' = misled \cup {p}
  /\ UNCHANGED <<zkVars, session, boots, collided>>

(* zoo_create succeeds ... *)
ZkCreate(p) ==
  /\ process[p] = "create"
  /\ session[p] \in sessions
  /\ znode[Here(p)] = Absent
  /\ Here(p) = Service \/ znode[Service] # Absent
  /\ znode' = [znode EXCEPT ![Here(p)] = Data(p, Here(p))]
  /\ owner' = [owner EXCEPT ![Here(p)] = IF Ephemeral(Here(p)) THEN session[p] ELSE 0]
  /\ Proceed(p)
  /\ UNCHANGED <<session, sessions, boots, misled, collided>>

(* ... or finds the znode there, and exit(EXIT_FAILURE) ends the process. *)
ZkCollides(p) ==
  /\ process[p] = "create"
  /\ znode[Here(p)] # Absent
  /\ process' = [process EXCEPT ![p] = "down"]
  /\ collided' = collided \cup {p}
  /\ UNCHANGED <<zkVars, place, session, boots, misled>>

(* The process ends at any other point: stop.sh, a crash, or exit() when
   zookeeper_init or zoo_create fails for another reason. *)
Kill(p) ==
  /\ process[p] # "down"
  /\ process' = [process EXCEPT ![p] = "down"]
  /\ UNCHANGED <<zkVars, place, session, boots, misled, collided>>

(* ZooKeeper drops a session, of a process that is gone or cut off, and the
   session's ephemeral znodes. *)
Expire(s) ==
  /\ s \in sessions
  /\ sessions' = sessions \ {s}
  /\ znode' = [q \in Paths |-> IF owner[q] = s THEN Absent ELSE znode[q]]
  /\ owner' = [q \in Paths |-> IF owner[q] = s THEN 0 ELSE owner[q]]
  /\ UNCHANGED <<process, place, session, boots, misled, collided>>

RegNext ==
  \/ \E p \in Providers : \/ Boot(p) \/ Start(p) \/ ZkExists(p) \/ ZkCreate(p)
                          \/ ZkCollides(p) \/ Kill(p)
  \/ \E s \in sessions : Expire(s)

RegSpec == RegInit /\ [][RegNext]_regVars

-----------------------------------------------------------------------------
(* Properties *)

(* A provider that serves is in the registry under every path, if ZooKeeper
   answered it, however processes were killed, restarted and raced, and
   whatever sessions ZooKeeper has dropped since (rpcprovider.cc:63-85).  With
   ephemeral znodes a process restarted within the session timeout would
   find its predecessor's znode, leave it, and lose it. *)
ServingIsRegistered ==
  \A p \in Providers :
     process[p] = "serving" /\ p \notin misled => \A q \in Paths : znode[q] # Absent

(* Processes that start at the same time may lose the race between zoo_exists
   and zoo_create (zookeeperutil.cc:81-96) and exit, but never all of them:
   whoever creates the last znode does not lose. *)
RaceHasWinner == collided # Providers

(* The first address a method is registered under is its address for ever,
   also after its provider is gone (zookeeperutil.cc:81-82, rpcprovider.cc:77). *)
AddressIsFinal ==
  [][\A q \in Paths : znode[q] # Absent => znode'[q] = znode[q]]_regVars

(* What the comments of Run say (rpcprovider.cc:72, 76): the znode of a method
   holds the address of the provider that serves it, here of one that is alone
   and whose session is the only one left. *)
ServesItsOwnAddress ==
  \A p \in Providers :
     process[p] = "serving" /\ p \notin misled /\ sessions = {session[p]}
       => \A q \in Paths \ {Service} : znode[q] = p

=============================================================================
