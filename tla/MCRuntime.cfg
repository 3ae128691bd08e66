SPECIFICATION FairSpec
CONSTANTS
  Modulus = 8
  SecondMs = 2
  InitialInterval = 2
  MaxInterval = 6
  c1 = c1
  c2 = c2
  Configs = {c1, c2}
  DefaultConfig = c1
  SerialSize = 3
  StartupDelay = 3
  PollMs = 1
  RefreshMs = 2
  ServiceMs = 2
  RetryMs = 3
  StepMs = 1
  ConnectMs = 2
  NtpMs = 1
  Faults <- AllFaults
  Marks = {"input", "sync"}
  AgeCap = 8
INVARIANTS
  TypeOK
  NetworkWaitsForWindow
  WindowClosesInTime
  ClockAccurate
PROPERTIES
  ConfigFrozen
  WindowHonoured
  SyncOnTime
  TimeAcquired
