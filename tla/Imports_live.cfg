CONSTANTS
  Jobs = {j1}
  Files = {f1}
  Reqs = {r1}
  Outcomes = {"SUCCESS", "ERROR"}
  Workers = {w1, w2}
  NumRows = 1
  Attempts = 2
  MaxStalls = 1
  MaxRetries = 1
  MaxFaults = 1
SPECIFICATION FairSpec
PROPERTIES ImportsEnd QueueDrains
CHECK_DEADLOCK FALSE
