----------------------------- MODULE MCInsights -----------------------------
(* Two routes whose prices rose alike and on which simulations were made on  *)
(* each of the four days of both periods; one more may be made, at a price   *)
(* out of line or on a route of its own. With it the period has a simulation *)
(* more than the savings insight takes, and a carrier or a route more than   *)
(* a chart has entries; over all the days there are more simulations and     *)
(* options than a chart is computed from. The jobs are at the share of       *)
(* errors that makes an insight.                                             *)
EXTENDS Insights

MCOption(id, carrier, price, days) == [id |-> id, carrier |-> carrier, price |-> price, days |-> days]

MCShape(route, customer, price) ==
  [route |-> route, customer |-> customer,
   options |-> {MCOption("o1", "x", price, 2), MCOption("o2", "y", price + 500, 1)}]

MCShapes ==
  [a1 |-> MCShape("a", "c", 10000), a2 |-> MCShape("a", "c", 10000),
   a3 |-> MCShape("a", "none", 11500), a4 |-> MCShape("a", "c", 11500),
   b1 |-> MCShape("b", "none", 10000), b2 |-> MCShape("b", "c", 10000),
   b3 |-> MCShape("b", "c", 11500), b4 |-> MCShape("b", "d", 11500),
   new |-> [route |-> "a", customer |-> "d", options |-> {MCOption("o1", "z", 30000, 1)}],
   far |-> [route |-> "e", customer |-> "c", options |-> {MCOption("o1", "x", 9000, 1)}]]

MCPast == [a1 |-> 1, a2 |-> 2, a3 |-> 3, a4 |-> 4, b1 |-> 1, b2 |-> 2, b3 |-> 3, b4 |-> 4]

MCChosen ==
  [a1 |-> "o1", a2 |-> "o2", a3 |-> "o2", a4 |-> "o2",
   b1 |-> "none", b2 |-> "o1", b3 |-> "none", b4 |-> "o2"]

MCShipped ==
  [a2 |-> [day |-> 2, status |-> "IN_TRANSIT", carrier |-> "y", due |-> 3],
   a3 |-> [day |-> 3, status |-> "CREATED", carrier |-> "y", due |-> 4]]

MCJobs ==
  [j1 |-> [day |-> 3, total |-> 5, errors |-> 1, status |-> "COMPLETED", idle |-> TRUE],
   j2 |-> [day |-> 4, total |-> 4, errors |-> 2, status |-> "PROCESSING", idle |-> FALSE]]

MCFilter(customer, carrier, start, end) ==
  [customer |-> customer, carrier |-> carrier, status |-> "none", startDate |-> start, endDate |-> end]

MCFilters ==
  {MCFilter("none", "none", -1, -1), MCFilter("c", "none", -1, -1), MCFilter("none", "y", 1, 4),
   MCFilter("none", "none", 1, 5)}

Symmetry == Permutations(Reqs)
=============================================================================
