SPECIFICATION FairSpec
CONSTANTS
  Accounts <- OneAccount
  Addrs <- SomeAddrs
  Probeable <- GoodAddrs
  Monikers <- NoMonikers
  Versions <- NoVersions
  Manuals = {g1}
  PageSize = 1
  MaxHeight = 2
  MaxTime = 1
  MaxErrs = 1
INVARIANTS RowsBehindChain
PROPERTIES ManualEnds Converges
CHECK_DEADLOCK FALSE
