SPECIFICATION Spec
CONSTANTS
  Modulus = 32
  SecondMs = 4
  InitialInterval = 2
  MaxInterval = 4
  Servers = 2
  DelayMs = 5
  ServerMs = 1
  TimeoutMs = 7
  EpochOffset = 2
  Era = 5
  Readings = {0, 27}
  Horizon = 26
INVARIANTS
  RefusedOnlyBefore1970
