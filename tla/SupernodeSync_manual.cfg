SPECIFICATION Spec
CONSTANTS
  Accounts <- OneAccount
  Addrs <- SomeAddrs
  Probeable <- GoodAddrs
  Monikers <- OneMoniker
  Versions <- OneVersion
  Manuals = {g1, g2}
  PageSize = 1
  MaxHeight = 1
  MaxTime = 2
  MaxErrs = 1
SYMMETRY ManualSymmetry
INVARIANTS TypeOK ProbeColumnsAgree VersionsAgree ManualExclusive
PROPERTIES CutShortNeverStored MonikerKept
CHECK_DEADLOCK FALSE
