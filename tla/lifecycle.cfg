SPECIFICATION Spec
CONSTANTS
  Daemon = {d1, d2}
  Command = {c1}
  Policy = {p1, p2}
  Absent = Absent
  Nobody = Nobody
  MaxCrashes = 1
  Impatient = FALSE
  TornStop = FALSE
INVARIANTS
  LTypeOK
  OneProgrammer
  SocketReachesDaemon
  ServedAsRecorded
  Ephemeral
PROPERTIES
  StopEndsDaemon
  RestartServes
