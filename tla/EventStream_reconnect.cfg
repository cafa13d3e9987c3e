\* A user event next to the end of a turn, checked against "reconnecting deadlocks no more".
CONSTANTS
  turn = turn
  handler = handler
  Publishers = {turn, handler}
  Scenarios <- UserEventScenario
  Clients = {c1}
  Cap = 1
  MaxConnects = 3
  MaxBreaks = 1
SPECIFICATION FairSpec
PROPERTIES
  ReconnectNeverDeadlocks
CHECK_DEADLOCK FALSE
