\* Interrupts, and two lost writes, outages, failed listings or crashes anywhere, also
\* of the recovery itself.
CONSTANTS
  r1 = r1
  r2 = r2
  r3 = r3
  Requests = {r1, r2}
  Threads = {"main"}
  Primary = "main"
  Scenarios <- RoughScenarios
  Replies <- RoughReplies
  MaxRetries = 1
  Backoff = TRUE
  MaxSteps = 1
  MaxTroubles = 2
  NoTurn = NoTurn
SPECIFICATION FairSpec
INVARIANTS
  InterruptHasCause
  NoZombieSession
PROPERTIES
  TurnsEnd
  MessagesReachModel
CHECK_DEADLOCK FALSE
