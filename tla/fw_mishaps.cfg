SPECIFICATION SerialSpec
CONSTANTS
  eth0 = eth0
  eth1 = eth1
  d1 = d1
  d2 = d2
  ai = ai
  NoChain = NoChain
  Iface = {eth0}
  Dest <- MCDest
  Policies <- MCPolicies
  StemOf <- OwnStem
  MayFail <- EveryFailure
INVARIANTS
  TypeOK
  HookedOnce
PROPERTIES
  StaysClosed
