CONSTANTS
  Shapes <- MCShapes
  Past <- MCPast
  Chosen <- MCChosen
  Shipped <- MCShipped
  Jobs <- MCJobs
  Statuses = {"DELIVERED", "DELIVERY_FAILED"}
  Window = 2
  MaxRows = 8
  MaxSavingsRows = 4
  MaxEntries = 2
  MaxLabels = 2
  Filters <- MCFilters
  Reqs = {r1, r2}
  MaxDay = 5
  MaxEvents = 1
  MaxRefreshes = 2
SPECIFICATION Spec
SYMMETRY Symmetry
INVARIANTS FindingsKept StatusFilterSplits  SavingsAgree
CHECK_DEADLOCK FALSE
