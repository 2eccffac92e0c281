SPECIFICATION Spec
CONSTANTS
  Accounts <- TwoAccounts
  Addrs <- SomeAddrs
  Probeable <- GoodAddrs
  Monikers <- NoMonikers
  Versions <- NoVersions
  Manuals <- NoManuals
  PageSize = 1
  MaxHeight = 2
  MaxTime = 2
  MaxErrs = 1
PROPERTIES HeightNeverDecreases CheckTimesInOrder
CHECK_DEADLOCK FALSE
