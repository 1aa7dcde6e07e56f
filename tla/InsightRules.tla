---------------------------- MODULE InsightRules ----------------------------
(***************************************************************************)
(* CostInsightsGenerator and PerformanceInsightsGenerator. Rows come from  *)
(* queries that mostly have no order, so where a rule takes the first of a *)
(* sorted list, each of the groups that share the lead may be it: such a   *)
(* rule is the set of the answers it may give, each a set of candidates.   *)
(*                                                                         *)
(* Averages are compared as fractions, as floating-point numbers would be  *)
(* but for rounding. Facts are the evidence and the metric of a candidate. *)
(***************************************************************************)
EXTENDS Figures

Candidate(type, severity, resourceType, resource, facts) ==
  [type |-> type, severity |-> severity, resourceType |-> resourceType,
   resource |-> resource, facts |-> facts]

\* One of the candidates a rule may give, or none if there is none.
OneOf(S) == IF S = {} THEN {{}} ELSE {{c} : c \in S}

TotalLowest(sims) == SumOf(LowestPrice, sims)

AverageLowest(sims) == Average(LowestPrice, sims)

TotalCost(options) == SumOf(Cost, options)

AverageCost(options) == Average(Cost, options)

Days(p) == p.option.days * 100

AverageDays(options) == Average(Days, options)

\* The average of f over g is below that over h.
Below(f(_), g, h) == SumOf(f, g) * Cardinality(h) < SumOf(f, h) * Cardinality(g)

Largest(groups) == Leaders(Larger, groups)

ByCarrier(options) == Groups(LAMBDA p : p.option.carrier, options)

CarrierOf(g) == (CHOOSE p \in g : TRUE).option.carrier

-----------------------------------------------------------------------------
(* Cost *)

Dearer(sims) == {s \in sims : Saving(s) > 0}

Taken(s) == SelectedOption(s).carrier

Forgone(s) == (CHOOSE o \in s.options : o.price = LowestPrice(s)).carrier

\* The carriers chosen most often and forgone most often, any if level.
MostTaken(dear) == {Taken(CHOOSE s \in g : TRUE) : g \in Largest(Groups(Taken, dear))}

MostForgone(dear) == {Forgone(CHOOSE s \in g : TRUE) : g \in Largest(Groups(Forgone, dear))}

SavingsIn(sims) ==
  LET dear == Dearer(sims)
  IN OneOf({Candidate("COST_SAVINGS_NOT_SELECTED", "OPPORTUNITY", "FreightSimulation", None,
              [cheaperCarrier |-> p[1], occurrences |-> Cardinality(dear), selectedCarrier |-> p[2],
               savings |-> EstimateSavings(sims)]) :
            p \in {q \in MostForgone(dear) \X MostTaken(dear) : Cardinality(dear) >= 2}})

\* The newest simulations are looked at; the dashboard sums the oldest.
SavingsOpportunity(sims) == UNION {SavingsIn(taken) : taken \in FirstOf(MaxSavingsRows, Newer, sims)}

\* Routes with two simulations in each period whose average rose by 15 %.
RouteCostIncrease(sims, sooner) ==
  LET On(r, S) == {s \in S : s.route = r}
      Level(r) == TotalLowest(On(r, sooner)) * Cardinality(On(r, sims))
      Rise(r) == TotalLowest(On(r, sims)) * Cardinality(On(r, sooner)) - Level(r)
      routes == {r \in {s.route : s \in sims} :
                   /\ Cardinality(On(r, sims)) >= 2
                   /\ Cardinality(On(r, sooner)) >= 2
                   /\ Rise(r) > 0
                   /\ Rise(r) * 100 >= 15 * Level(r)}
  IN {Candidate("ROUTE_COST_INCREASE",
        IF Rise(r) * 100 >= 30 * Level(r) THEN "WARNING" ELSE "INFO", "Route", None,
        [currentAverage |-> AverageLowest(On(r, sims)),
         currentCount |-> Cardinality(On(r, sims)),
         previousAverage |-> AverageLowest(On(r, sooner)),
         previousCount |-> Cardinality(On(r, sooner)),
         route |-> r]) : r \in routes}

\* The carriers with two options or more.
Compared(sims) == {g \in ByCarrier(OptionsOf(sims)) : Cardinality(g) >= 2}

Cheapest(groups) == Leaders(LAMBDA g, h : Below(Cost, g, h), groups)

CheapestCarrier(sims) ==
  OneOf({Candidate("CHEAPEST_CARRIER", "OPPORTUNITY", "Carrier", CarrierOf(g),
           [average |-> AverageCost(g), carrierName |-> CarrierOf(g),
            optionCount |-> Cardinality(g)]) : g \in Cheapest(Compared(sims))})

\* Options 35 % above the average of a route with four options or more.
FreightOutliers(sims) ==
  LET On(r) == {p \in OptionsOf(sims) : p.sim.route = r}
      High(r) == {p \in On(r) : Cost(p) * Cardinality(On(r)) * 100 > TotalCost(On(r)) * 135}
      routes == {r \in {s.route : s \in sims} : Cardinality(On(r)) >= 4 /\ High(r) # {}}
  IN {Candidate("FREIGHT_PRICE_OUTLIER", "WARNING", "Route", None,
        [average |-> AverageCost(On(r)), outliers |-> Cardinality(High(r)), route |-> r]) :
      r \in routes}

CostGenerator(sims, sooner) ==
  {a \cup b \cup RouteCostIncrease(sims, sooner) \cup FreightOutliers(sims) :
     a \in SavingsOpportunity(sims), b \in CheapestCarrier(sims)}

-----------------------------------------------------------------------------
(* Deadlines, carriers, routes, customers *)

Fastest(groups) == Leaders(LAMBDA g, h : Below(Days, g, h), groups)

FastestCarrier(sims) ==
  OneOf({Candidate("FASTEST_CARRIER", "INFO", "Carrier", CarrierOf(g),
           [average |-> AverageDays(g), carrierName |-> CarrierOf(g),
            optionCount |-> Cardinality(g)]) : g \in Fastest(Compared(sims))})

\* 65 % of four selected options or more are of one carrier.
CarrierDependency(sims) ==
  LET chosen == {p \in OptionsOf(sims) : IsSelected(p)}
      all == Cardinality(chosen)
  IN OneOf({Candidate("CARRIER_DEPENDENCY",
              IF Cardinality(g) * 100 >= 80 * all THEN "WARNING" ELSE "INFO", "Carrier", CarrierOf(g),
              [selectedCount |-> Cardinality(g), totalSelected |-> all]) :
            g \in {h \in Largest(ByCarrier(chosen)) : all >= 4 /\ Cardinality(h) * 100 >= 65 * all}})

ByRoute(sims) == Groups(LAMBDA s : s.route, sims)

RouteConcentration(sims) ==
  OneOf({Candidate("ROUTE_NEGOTIATION_POTENTIAL", "OPPORTUNITY", "Route", None,
           [route |-> (CHOOSE s \in g : TRUE).route, simulationCount |-> Cardinality(g),
            totalSimulations |-> Cardinality(sims)]) :
         g \in {h \in Largest(ByRoute(sims)) : Cardinality(h) >= 3}})

ByCustomer(sims) == Groups(LAMBDA s : s.customer, {s \in sims : s.customer # None})

CustomerVolume(sims) ==
  LET Name(g) == (CHOOSE s \in g : TRUE).customer
  IN OneOf({Candidate("CUSTOMER_SIMULATION_VOLUME", "INFO", "Customer", Name(g),
              [customerName |-> Name(g), simulationCount |-> Cardinality(g)]) :
            g \in {h \in Largest(ByCustomer(sims)) : Cardinality(h) >= 2}})

-----------------------------------------------------------------------------
(* Operation and imports *)

Overdue(shipments, today) ==
  {s \in shipments : s.due < today /\ s.status \notin TerminalStatuses}

\* Late shipments of any age; the conversion of the period.
OperationRisks(sims, shipments, sent, today) ==
  LET delayed == Cardinality(Overdue(shipments, today))
      quoted == Cardinality(sims)
      shipped == Cardinality(sent)
  IN {Candidate("DELAYED_SHIPMENTS", IF delayed >= 3 THEN "CRITICAL" ELSE "WARNING", "Shipment", None,
        [delayedShipments |-> d]) : d \in {delayed} \ {0}}
     \cup {Candidate("LOW_SIMULATION_CONVERSION", "OPPORTUNITY", None, None,
             [shipments |-> n, simulations |-> quoted]) :
           n \in {k \in {shipped} : quoted >= 3 /\ k * 100 < 40 * quoted}}

ImportQuality(jobs) ==
  {Candidate("IMPORT_HIGH_ERROR_RATE", IF j.errors * 2 >= j.total THEN "WARNING" ELSE "INFO",
     "ImportJob", j.id, [errorRows |-> j.errors, totalRows |-> j.total]) :
   j \in {k \in jobs : k.total > 0 /\ k.errors * 5 >= k.total}}
  \cup {Candidate("IMPORT_STALLED", "WARNING", "ImportJob", j.id, [filename |-> j.id]) :
        j \in {k \in jobs : k.status = "PROCESSING" /\ k.idle}}

PerformanceGenerator(sims, shipments, sent, jobs, today) ==
  {a \cup b \cup c \cup d \cup OperationRisks(sims, shipments, sent, today) \cup ImportQuality(jobs) :
     a \in FastestCarrier(sims), b \in CarrierDependency(sims),
     c \in RouteConcentration(sims), d \in CustomerVolume(sims)}
=============================================================================
