SPECIFICATION Spec
CONSTANTS
  Lists <- NoLists
  MaxServers = 3
  Polls = 2
PROPERTIES
  FallsBackToIPv4
