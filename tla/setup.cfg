SPECIFICATION Spec
CONSTANTS
  wan = wan
  eth1 = eth1
  eth2 = eth2
  docker = docker
  srv = srv
  web = web
  gw = gw
  NoDev = NoDev
  NoGateway = NoGateway
  NoName = NoName
  NoAddr = NoAddr
  NoPort = NoPort
  AutoWan = AutoWan
  Missing = Missing
  Malformed = Malformed
  Addr <- MCAddr
  Dst <- MCDst
  Dev <- MCDev
  Gateway = {gw}
  Table <- MCTable
  Priority <- MCPriority
  Domain = {srv}
  Wan = wan
  WanGateway = gw
  Isolated = 52000
  Port = {web}
  Kind <- MCKind
  Attached <- MCAttached
  Files <- MCFilesBroken
  Envs <- MCEnvs
INVARIANTS
  AutoconfigSettles
  EnvEnforced
PROPERTIES
  ManualKept
