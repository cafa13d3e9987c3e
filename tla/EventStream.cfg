\* A client, possibly slow, whose connections may break twice.
CONSTANTS
  turn = turn
  handler = handler
  Publishers = {turn, handler}
  Scenarios <- BothScenarios
  Clients = {c1}
  Cap = 1
  MaxConnects = 5
  MaxBreaks = 2
SPECIFICATION FairSpec
INVARIANTS
  TypeOK
  NoDuplicates
  LiveStreamLosesNothing
  NoGaps
PROPERTIES
  SeesEnd
CHECK_DEADLOCK FALSE
