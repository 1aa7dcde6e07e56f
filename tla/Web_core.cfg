CONSTANTS
  Final = 2
  MaxFaults = 1
  MaxViews = 1
  Customers = {"c1"}
  PostalCodes = {"z1", "z2"}
  Options = {"o1", "o2"}
  NumSlots = 2
  MaxSims = 2
  MaxEdits = 2
  MaxActions = 3
  Documents = {"d1"}
  PerPage = 1
  MaxFound = 1
  MaxCustomers = 2
  MaxClicks = 2
  MaxLost = 1
SPECIFICATION WebSpec
INVARIANTS QuietPageIsRight ShipsWhatWasShown TableIsCurrent
PROPERTIES PollingCatchesUp JoinedCatchesUp
CHECK_DEADLOCK FALSE
