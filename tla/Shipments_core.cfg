CONSTANTS
  Sims = {s1}
  Options = {o1, o2}
  Keys = {k1}
  Reported = {"PICKUP_SCHEDULED", "PICKED_UP", "IN_TRANSIT", "OUT_FOR_DELIVERY", "DELIVERED", "RETURNING"}
  Reqs = {r1, r2}
  MaxEvents = 6
  SeedAllowed = TRUE
  Runs = {q1, q2, q3}
  MaxInserts = 1
SPECIFICATION MCSpec
SYMMETRY Symmetry
INVARIANTS StatusIsLastEvent DeliveredAtMatchesStatus  SeededStory
CHECK_DEADLOCK FALSE
