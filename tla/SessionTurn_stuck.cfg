\* An interrupt during a turn, checked against RunThread's promise never to stay running.
CONSTANTS
  r1 = r1
  r2 = r2
  r3 = r3
  Requests = {r1, r2}
  Threads = {"main"}
  Primary = "main"
  Scenarios <- RoughScenarios
  Replies <- RoughReplies
  MaxRetries = 1
  Backoff = TRUE
  MaxSteps = 2
  MaxTroubles = 0
  NoTurn = NoTurn
SPECIFICATION Spec
INVARIANTS
  NeverStuckRunning
CHECK_DEADLOCK FALSE
