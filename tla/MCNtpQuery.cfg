SPECIFICATION FairSpec
CONSTANTS
  Lists <- SomeLists
  MaxServers = 3
  Polls = 2
INVARIANTS
  TypeOK
  NothingLeftBehind
  SampleChecked
PROPERTIES
  AnswerUsed
  SyncReturns
