SPECIFICATION FairSpec
CONSTANTS
  Last = 2
  Expected <- TitleAnd204
  s1 = s1
  s2 = s2
  Pcbs = {s1, s2}
  Polls = 2
  Capacity = 3
INVARIANTS
  TypeOK
  Accounted
  AddressFresh
PROPERTIES
  OnlineIsComplete
  ImplementsProbe
  EndpointRecovers
