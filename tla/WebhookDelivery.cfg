SPECIFICATION MCSpec
CONSTANTS
  Endpoints = {"whk1", "whk2"}
  Events = {"running", "idle"}
  TypeLists = {{}, {"idle"}}
  AllowPrivate = FALSE
  Delays = 1
  BatchLimit = 2
  MaxTroubles = 1
INVARIANTS TypeOK PostsAccounted NotDropped QuietAfterDelete SubscribersInformed
PROPERTY DeliveriesSettle
CHECK_DEADLOCK FALSE
