\* A slow client and two publishers, checked against the handling of slow consumers.
CONSTANTS
  turn = turn
  handler = handler
  Publishers = {turn, handler}
  Scenarios <- UserEventScenario
  Clients = {c1}
  Cap = 1
  MaxConnects = 3
  MaxBreaks = 0
SPECIFICATION Spec
INVARIANTS
  SlowConsumerHarmless
CHECK_DEADLOCK FALSE
