SPECIFICATION FairSpec
CONSTANTS
  Pictures = 3
  Height = 4
  TmdsBuffers = 3
INVARIANTS
  TypeOK
  NoOverlap
  NoTear
PROPERTIES
  ImplementsStream
  PresentReturns
  StreamFlows
