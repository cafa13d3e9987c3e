SPECIFICATION MCSpec
CONSTANTS
  Vaults = {"v1", "v2"}
  Hosts = {"h1", "h2"}
  Sessions = {"s1"}
  Tasks = {"c1", "c2", "c3"}
  FirstCredentials = {"k1"}
  MaxTime = 2
  MaxFaults = 1
  Emails = {"u1", "u2"}
  Passwords = {"p1", "p2"}
  Visits = {"a1", "a2", "a3"}
  FirstKeys = {"k1"}
  FirstLogins = {"l1"}
  NoOne = "no one"
  Everyone = "usr-default"
  MaxDead = 1
INVARIANTS AccessTypeOK InjectedRightly RefreshTokenKept IdentityEarned
CHECK_DEADLOCK FALSE
