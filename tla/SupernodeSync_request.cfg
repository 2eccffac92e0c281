SPECIFICATION FairSpec
CONSTANTS
  Accounts <- OneAccount
  Addrs <- SomeAddrs
  Probeable <- GoodAddrs
  Monikers <- NoMonikers
  Versions <- NoVersions
  Manuals = {g1}
  PageSize = 1
  MaxHeight = 1
  MaxTime = 1
  MaxErrs = 0
PROPERTY ManualRunProbes
CHECK_DEADLOCK FALSE
