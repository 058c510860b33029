\* A frame that comes in two pieces leaves its connection open for ever, and
\* the caller in recv().
SPECIFICATION FairSpec
CONSTANTS
  p1 = p1
  p2 = p2
  k1 = k1
  k2 = k2
  Providers = {p1}
  Walk <- UserService
  MaxBoots = 1
  Calls = {k1}
  Method <- Login
  Nobody = Nobody
PROPERTIES ProviderDisconnects
CHECK_DEADLOCK FALSE
