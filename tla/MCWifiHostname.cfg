SPECIFICATION Spec
CONSTANTS
  n1 = n1
  n2 = n2
  n3 = n3
  n4 = n4
  None = None
  Networks = {n1, n2, n3, n4}
  OpenOnes = {n1, n2, n3}
  MaxSsids = 2
  ScanPolls = 1
INVARIANTS
  HostnameAnnounced
