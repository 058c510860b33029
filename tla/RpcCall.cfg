\* A call of a service of one method, whose two providers are started, killed, by
\* the call or otherwise, and restarted meanwhile, three processes in all.  The
\* system stops when the call and the boots are used up.
SPECIFICATION FairSpec
CONSTANTS
  p1 = p1
  p2 = p2
  k1 = k1
  k2 = k2
  Providers = {p1, p2}
  Walk <- UserService
  MaxBoots = 3
  Calls = {k1}
  Method <- Login
  Nobody = Nobody
INVARIANTS AnswersAreRuns SocketsAccounted ServingIsRegistered RaceHasWinner
PROPERTIES AddressIsFinal 
CHECK_DEADLOCK FALSE
