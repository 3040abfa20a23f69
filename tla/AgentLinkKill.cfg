SPECIFICATION Spec
CONSTANTS
  Addrs = {a1, a2}
  SyncMode = TRUE
  TimeOut = 1
  Warmup = 1
  MaxConnects = 3
  MaxMessages = 2
PROPERTIES
  PatientKill
