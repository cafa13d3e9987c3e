\* An interrupt during the last attempt of a model call.
CONSTANTS
  r1 = r1
  r2 = r2
  r3 = r3
  Requests = {r1, r2}
  Threads = {"main"}
  Primary = "main"
  Scenarios <- RoughScenarios
  Replies <- RoughReplies
  MaxRetries = 1
  Backoff = TRUE
  MaxSteps = 2
  MaxTroubles = 0
  NoTurn = NoTurn
SPECIFICATION Spec
PROPERTIES
  InterruptIsNoError
CHECK_DEADLOCK FALSE
