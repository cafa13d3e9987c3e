\* Messages to two threads, tools and confirmations; nothing fails.
CONSTANTS
  r1 = r1
  r2 = r2
  r3 = r3
  Requests = {r1, r2, r3}
  Threads <- MCThreads
  Primary = "main"
  Scenarios <- CalmScenarios
  Replies <- CalmReplies
  MaxRetries = 0
  Backoff = TRUE
  MaxSteps = 2
  MaxTroubles = 0
  NoTurn = NoTurn
SPECIFICATION Spec
INVARIANTS
  TypeOK
  OneTurnAtATime
  RowMatchesLog
  TurnClosedOnce
  RunsOnlyIfAllowed
  RunsOnce
  OneResultPerUse
CHECK_DEADLOCK FALSE
