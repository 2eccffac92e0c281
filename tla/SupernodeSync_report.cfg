SPECIFICATION Spec
CONSTANTS
  Accounts <- OneAccount
  Addrs <- SomeAddrs
  Probeable <- GoodAddrs
  Monikers <- NoMonikers
  Versions <- NoVersions
  Manuals = {g1}
  PageSize = 1
  MaxHeight = 1
  MaxTime = 1
  MaxErrs = 0
PROPERTY ProbeReportKept
CHECK_DEADLOCK FALSE
