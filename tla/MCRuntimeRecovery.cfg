SPECIFICATION FairSpec
CONSTANTS
  Modulus = 8
  SecondMs = 2
  InitialInterval = 2
  MaxInterval = 4
  c1 = c1
  c2 = c2
  Configs = {c1}
  DefaultConfig = c1
  SerialSize = 2
  StartupDelay = 3
  PollMs = 1
  RefreshMs = 2
  ServiceMs = 2
  RetryMs = 3
  StepMs = 1
  ConnectMs = 1
  NtpMs = 1
  Faults <- LinkFault
  Marks = {}
  AgeCap = 8
PROPERTIES
  LinkRecovers
