SPECIFICATION MCSpec
CONSTANTS
  Heights <- SomeHeights
  MaxLen = 4
  Events <- SomeEvents
  Messages <- SomeMessages
  Parties <- SomeParties
  MaxEvents = 2
  MaxLogs = 1
  Rows = {n1, n2}
  Contents = {1, 2}
  PerSecond = 2
  MaxNow = 4
SYMMETRY RowSymmetry
INVARIANTS TypeOK ChosenIsLatest FlowTypeOK ChosenIsBest OneTransfer GetTypeOK Fresh ProbeNeverOlder
PROPERTY LaterProbeShown
CHECK_DEADLOCK FALSE
