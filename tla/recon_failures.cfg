SPECIFICATION SerialSpec
CONSTANTS
  wan = wan
  eth1 = eth1
  eth2 = eth2
  bad = bad
  lab = lab
  lab2 = lab2
  gw1 = gw1
  gw2 = gw2
  pA = pA
  pB = pB
  NoDev = NoDev
  NoGateway = NoGateway
  NoPolicy = NoPolicy
  NoGuard = NoGuard
  Absent = Absent
  Corrupt = Corrupt
  NoWant = NoWant
  Dst <- MCDst
  Dev <- MCDev
  Gateway <- MCGateway
  Table <- MCTable
  Priority <- MCPriority
  Policy <- MCPolicy
  Rule0 <- MCRule0
  Desireds <- MCAll
  DefaultDevs = {wan, eth1}
  WlanDevs = {}
  MayFail <- Handled
  EnvEvents = {"default"}
INVARIANTS
  TypeOK
  NoNeedlessRollback
  KernelMatchesRecord
  LabTargetsCovered
  CleanExit
PROPERTIES
  ForwardStepsKeepCover
  Transactional
