SPECIFICATION FairSpec
CONSTANTS
  r1 = r1
  r2 = r2
  s = s
  w = w
  Reads <- TwoReads
  Triggers <- OneTrigger
  Loops <- OneLoop
  MaxConns = 1
  MaxCalls = 1
INVARIANTS TypeOK WaitsForQueries DrainedFirst
PROPERTIES RequestsEnd ShutdownEnds WaitersServed
CHECK_DEADLOCK FALSE
