CONSTANTS
  Jobs = {j1}
  Files = {f1}
  Reqs = {r1}
  Outcomes = {"SUCCESS"}
  Workers = {w1}
  NumRows = 1
  Attempts = 1
  MaxStalls = 1
  MaxRetries = 1
  MaxFaults = 0
SPECIFICATION Spec
PROPERTIES CanceledStays
CHECK_DEADLOCK FALSE
