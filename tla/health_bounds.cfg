SPECIFICATION HSpec
CONSTANTS
  eth1 = eth1
  eth2 = eth2
  Iface = {eth1, eth2}
  FailureThreshold = 3
  RecoveryThreshold = 2
  MaxCount = 4
INVARIANTS
  TypeOK
  AvailabilityTracksProbes
PROPERTIES
  FlappingBounded
