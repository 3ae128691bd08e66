SPECIFICATION Spec
CONSTANTS
  Modulus = 16
  SecondMs = 2
  InitialInterval = 2
  MaxInterval = 6
  c1 = c1
  c2 = c2
  Configs = {c1}
  DefaultConfig = c1
  SerialSize = 3
  StartupDelay = 4
  PollMs = 1
  RefreshMs = 2
  ServiceMs = 2
  RetryMs = 5
  StepMs = 1
  ConnectMs = 3
  NtpMs = 2
  Faults <- NoFaults
  Marks = {"render"}
  AgeCap = 18
INVARIANTS
  DisplayResponsive
