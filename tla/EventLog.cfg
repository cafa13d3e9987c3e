\* AppendEvent in both dialects: three calls over two sessions.
CONSTANTS
  Calls = {c1, c2, c3}
  Sessions = {s1, s2}
  Dialects = {"sqlite", "postgres"}
  NoCall = NoCall
SPECIFICATION FairSpec
INVARIANTS
  TypeOK
  DenseLog
  Accounted
  NoAppendConflict
PROPERTIES
  AppendOnly
  CallsServed
  ImplementsAppendLog
CHECK_DEADLOCK FALSE
