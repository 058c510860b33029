\* A provider that takes over a service finds its predecessor's znodes, which
\* are not ephemeral, and serves under the predecessor's address.
SPECIFICATION RegSpec
CONSTANTS
  p1 = p1
  p2 = p2
  Providers = {p1, p2}
  Walk <- UserService
  MaxBoots = 2
INVARIANTS ServesItsOwnAddress
CHECK_DEADLOCK FALSE
