SPECIFICATION Spec
CONSTANTS
  wan = wan
  eth1 = eth1
  eth2 = eth2
  srv = srv
  gw = gw
  NoDev = NoDev
  NoGateway = NoGateway
  NoName = NoName
  NoAddr = NoAddr
  NoPolicy = NoPolicy
  Addr <- MCAddr
  Dst <- MCDst
  Dev <- MCDev
  Gateway = {gw}
  Table <- MCTable
  Priority <- MCPriority
  Domain = {srv}
  Wan = wan
  WanGateway = gw
  Isolated = 52000
  Configs <- MCConfigs
  NewTargets <- MCTargets
  MaxTargets = 2
INVARIANTS
  TypeOK
  LabNeverOnWan
  BlacklistNeverOnLan
  
  ExplainAgrees
PROPERTIES
  FailoverKeepsCover
