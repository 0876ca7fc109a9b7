SPECIFICATION FSpec
CONSTANTS
  wan = wan
  usb = usb
  eth1 = eth1
  eth2 = eth2
  tgt = tgt
  dom = dom
  NoPolicy = NoPolicy
  NoDev = NoDev
  Iface = {eth1, eth2}
  Wan = {wan}
  Rule = {tgt, dom}
  FailureThreshold = 3
  RecoveryThreshold = 2
  MaxCount = 4
  Configs <- MCConfigs
  ApplyMayFail = TRUE
INVARIANTS
  FTypeOK
  KernelTracksHealth
PROPERTIES
  AbandonsDeadPath
  FailsBack
  RogueDefaultsPurged
