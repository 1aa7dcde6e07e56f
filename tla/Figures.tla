------------------------------ MODULE Figures ------------------------------
(***************************************************************************)
(* What DashboardService and the two insight generators compute from the   *)
(* rows of a tenant. A row of the model holds what they read of it:        *)
(*                                                                         *)
(*   simulation  id, day, route, customer, options, selected               *)
(*   option      id, carrier, price, days, cheapest                        *)
(*   shipment    id, day, customer, carrier, status, due                   *)
(*   job         id, day, total, errors, status, idle                      *)
(*                                                                         *)
(* Prices are cents, days are dates, idle says that a job was not touched  *)
(* for 30 minutes. A branch is filtered like a customer and a service like *)
(* a carrier. Averages and percentages are hundredths.                     *)
(*                                                                         *)
(* The figures of a dashboard are counted by the database, its charts and  *)
(* savings computed from the first rows of a query, and charts keep their  *)
(* first entries. Rows of one day come in any order, and so do entries     *)
(* that a sort leaves level: what is computed from them is the set of the  *)
(* answers there may be. The generators take the newest rows for savings;  *)
(* their other takes, of 200 and 1000 rows in no order, and their slices   *)
(* of 5 and 3 insights are beyond the bounds and left out.                 *)
(***************************************************************************)
EXTENDS Integers, FiniteSets, FiniteSetsExt

CONSTANTS
  MaxRows,        \* rows that a chart is computed from (1000)
  MaxSavingsRows, \* simulations that the savings insight is computed from (500)
  MaxEntries,     \* carriers and routes in a chart (8)
  MaxLabels       \* days in a chart (14)

None == "none"

\* null where a number is expected that is never negative.
NoValue == -1

ActiveStatuses == {"CREATED", "PICKUP_SCHEDULED", "PICKED_UP", "IN_TRANSIT",
                   "ARRIVED_AT_HUB", "OUT_FOR_DELIVERY"}

TerminalStatuses == {"DELIVERED", "CANCELED", "RETURNED"}

-----------------------------------------------------------------------------
(* Arithmetic *)

\* Math.round: the nearest integer to n / d, a half goes up.
Round(n, d) == (2 * n + d) \div (2 * d)

SumOf(f(_), S) == FoldSet(LAMBDA x, sum : sum + f(x), 0, S)

Average(f(_), S) == Round(SumOf(f, S), Cardinality(S))

AverageOrNull(f(_), S) == IF S = {} THEN NoValue ELSE Average(f, S)

Percent(n, d) == IF d > 0 THEN Round(n * 10000, d) ELSE 0

PercentageChange(current, previous) ==
  IF previous = 0 THEN (IF current = 0 THEN 0 ELSE None)
  ELSE Round((current - previous) * 10000, previous)

Trend(current, previous, higherIsGood) ==
  IF current = NoValue \/ previous = NoValue THEN [direction |-> "NONE", change |-> None]
  ELSE [direction |-> IF current > previous
                      THEN (IF higherIsGood THEN "BETTER" ELSE "WORSE")
                      ELSE IF current < previous
                           THEN (IF higherIsGood THEN "WORSE" ELSE "BETTER")
                           ELSE "FLAT",
        change |-> PercentageChange(current, previous)]

\* The groups of S by key, as sets.
Groups(key(_), S) == {{x \in S : key(x) = k} : k \in {key(x) : x \in S}}

\* Groups no other group is ahead of: a sort leaves any of them in front, as
\* rows come in no particular order.
Leaders(ahead(_, _), S) == {g \in S : \A h \in S : ~ahead(h, g)}

Larger(g, h) == Cardinality(g) > Cardinality(h)

\* What take and slice may leave of S: n of its elements with none before them
\* left out. Of those that share the n-th place, some get in.
FirstOf(n, before(_, _), S) ==
  LET size == Min({n, Cardinality(S)})
      upTo(x) == {y \in S : ~before(x, y)}
      ahead(x) == {y \in S : before(y, x)}
      sure == {x \in S : Cardinality(upTo(x)) <= size}
      level == {x \in S \ sure : Cardinality(ahead(x)) < size}
  IN IF Cardinality(S) <= n THEN {S}
     ELSE {sure \cup some : some \in kSubset(size - Cardinality(sure), level)}

Older(x, y) == x.day < y.day

Newer(x, y) == x.day > y.day

\* The last days of a chart by day, whose entries come in the order of rows.
LastDays(chart) ==
  {e \in chart : Cardinality({d \in chart : d.label > e.label}) < MaxLabels}

-----------------------------------------------------------------------------
(* The dashboard: periods and filters *)

\* The last window days, or the days entered, and as many days before them.
\* Periods are half open; an end that is entered as a date is that day's end.
PeriodFromFilters(f, today, window) ==
  LET end == IF f.endDate = NoValue THEN today + 1 ELSE f.endDate + 1
      start == IF f.startDate = NoValue THEN today + 1 - window ELSE f.startDate
  IN [start |-> start, end |-> end, previousStart |-> start - (end - start)]

In(day, start, end) == start <= day /\ day < end

Wants(filter, value) == filter = None \/ filter = value

SimulationWhere(sims, f, start, end) ==
  {s \in sims : /\ In(s.day, start, end)
                /\ Wants(f.customer, s.customer)
                /\ f.carrier # None => \E o \in s.options : o.carrier = f.carrier}

\* Options with their simulation; they are created with it.
OptionsOf(sims) == UNION {{[sim |-> s, option |-> o] : o \in s.options} : s \in sims}


OptionWhere(sims, f, start, end) ==
  {p \in OptionsOf(sims) : /\ In(p.sim.day, start, end)
                           /\ Wants(f.customer, p.sim.customer)
                           /\ Wants(f.carrier, p.option.carrier)}

ShipmentWhere(shipments, f, start, end) ==
  {s \in shipments : /\ In(s.day, start, end)
                     /\ Wants(f.customer, s.customer)
                     /\ Wants(f.carrier, s.carrier)
                     /\ Wants(f.status, s.status)}

\* A status that is asked for replaces the one a metric is about.
StatusMetric(base, requested, allowed) ==
  IF requested # None THEN (IF requested \in allowed THEN base ELSE {})
  ELSE {s \in base : s.status \in allowed}

\* Faulty variant: a status that is asked for is counted, be it terminal.
DelayedMetricAny(base, requested, cutoff) ==
  {s \in base : /\ s.due < cutoff
                /\ requested = None => s.status \notin TerminalStatuses}

DelayedMetric(base, requested, cutoff) ==
  IF requested \in TerminalStatuses THEN {}
  ELSE {s \in base : /\ s.due < cutoff
                     /\ requested = None => s.status \notin TerminalStatuses}

Operations(shipments, f, p, today) ==
  LET sent == ShipmentWhere(shipments, f, p.start, p.end)
      Count(allowed) == Cardinality(StatusMetric(sent, f.status, allowed))
  IN [totalShipments |-> Cardinality(sent),
      delayedShipments |-> Cardinality(DelayedMetric(sent, f.status, today)),
      deliveredShipments |-> Count({"DELIVERED"}),
      failedShipments |-> Count({"DELIVERY_FAILED"}),
      inTransitShipments |-> Count(ActiveStatuses),
      successRate |-> Percent(Count({"DELIVERED"}), Cardinality(sent))]

-----------------------------------------------------------------------------
(* The dashboard: savings and charts *)

\* Several options may cost the least; selected may be dearer than them.
LowestPrice(s) == Min({o.price : o \in s.options})

SelectedOption(s) == CHOOSE o \in s.options : o.id = s.selected

\* Faulty variant: the comparison of prices is the wrong way round.
SavingFromDearest(s) ==
  IF s.selected = None THEN 0
  ELSE LET dearest == Max({o.price : o \in s.options})
       IN IF SelectedOption(s).price > dearest THEN SelectedOption(s).price - dearest ELSE 0

Saving(s) ==
  IF s.selected = None THEN 0 ELSE SelectedOption(s).price - LowestPrice(s)

EstimateSavings(sims) == SumOf(Saving, sims)

IsSelected(p) == p.option.id = p.sim.selected

Cost(p) == p.option.price

\* By selections, then by price; an OPERATOR has no prices (full).
CarrierPerformance(options, full) ==
  LET Entry(c) ==
        LET g == {p \in options : p.option.carrier = c}
        IN [carrier |-> c, optionCount |-> Cardinality(g),
            selectedCount |-> Cardinality({p \in g : IsSelected(p)}),
            averagePrice |-> IF full THEN Average(Cost, g) ELSE NoValue,
            averageDeadlineDays |-> Average(LAMBDA p : p.option.days * 100, g)]
      before(c, d) == \/ c.selectedCount > d.selectedCount
                      \/ (c.selectedCount = d.selectedCount /\ c.averagePrice < d.averagePrice)
  IN FirstOf(MaxEntries, before, {Entry(c) : c \in {p.option.carrier : p \in options}})

RoutePerformance(sims, full) ==
  LET Entry(r) ==
        LET on == {s \in sims : s.route = r}
        IN [route |-> r, simulationCount |-> Cardinality(on),
            optionCount |-> SumOf(LAMBDA s : Cardinality(s.options), on),
            averagePrice |-> IF full THEN Average(LowestPrice, on) ELSE NoValue]
      before(r, q) == r.simulationCount > q.simulationCount
  IN FirstOf(MaxEntries, before, {Entry(r) : r \in {s.route : s \in sims}})

CountBy(key(_), S) ==
  {[label |-> k, value |-> Cardinality({x \in S : key(x) = k})] : k \in {key(x) : x \in S}}

SelectedCarriers(options) ==
  LET chart == CountBy(LAMBDA p : p.option.carrier, {p \in options : IsSelected(p)})
  IN FirstOf(MaxEntries, LAMBDA x, y : x.value > y.value, chart)

\* Shipments of days without a simulation are not shown.
ConversionByPeriod(sims, shipments) ==
  {[label |-> d, value |-> Percent(Cardinality({s \in shipments : s.day = d}),
                                   Cardinality({s \in sims : s.day = d}))] : d \in {s.day : s \in sims}}

CostByPeriod(sims) ==
  {[label |-> d, value |-> Average(LowestPrice, {s \in sims : s.day = d})] : d \in {s.day : s \in sims}}

\* The rows that the charts of a dashboard may be computed from.
ChartRows(now, options, sent) ==
  [sims : FirstOf(MaxRows, Older, now),
   options : FirstOf(MaxRows, LAMBDA p, q : Newer(p.sim, q.sim), options),
   shipments : FirstOf(MaxRows, Older, sent)]

\* Charts that are cut off to their first entries.
CutCharts(rows, full) ==
  [carrierPerformance : CarrierPerformance(rows.options, full),
   routePerformance : RoutePerformance(rows.sims, full),
   selectedCarriers : SelectedCarriers(rows.options)]

\* calculateSummary: the answers there may be. What is a price is null for an
\* OPERATOR, but the trend of the average.
CalculateSummary(sims, shipments, jobs, f, today, window, role) ==
  LET p == PeriodFromFilters(f, today, window)
      full == role # "OPERATOR"
      Priced(x) == IF full THEN x ELSE NoValue
      now == SimulationWhere(sims, f, p.start, p.end)
      before == SimulationWhere(sims, f, p.previousStart, p.start)
      options == OptionWhere(sims, f, p.start, p.end)
      chosen == {o \in options : IsSelected(o)}
      sent == ShipmentWhere(shipments, f, p.start, p.end)
      sentBefore == ShipmentWhere(shipments, f, p.previousStart, p.start)
      late == Operations(shipments, f, p, today).delayedShipments
      lateBefore == Cardinality(DelayedMetric(sentBefore, f.status, p.start))
      imports == {j \in jobs : In(j.day, p.start, p.end)}
      importsBefore == {j \in jobs : In(j.day, p.previousStart, p.start)}
      ErrorRate(js) == Percent(SumOf(LAMBDA j : j.errors, js), SumOf(LAMBDA j : j.total, js))
      price == AverageOrNull(LowestPrice, now)
      priceBefore == AverageOrNull(LowestPrice, before)
      Summary(rows, cut) ==
        [comparisons |->
           [costAverage |-> Trend(price, priceBefore, FALSE),
            delayedShipments |-> Trend(late, lateBefore, FALSE),
            freightSimulations |-> Trend(Cardinality(now), Cardinality(before), TRUE),
            importErrorRate |-> Trend(ErrorRate(imports), ErrorRate(importsBefore), FALSE),
            shipments |-> Trend(Cardinality(sent), Cardinality(sentBefore), TRUE)],
         freight |->
           [averageEstimatedPrice |-> Priced(price),
            averageLowestOption |-> Priced(AverageOrNull(Cost, {o \in options : o.option.cheapest})),
            selectedAveragePrice |-> Priced(AverageOrNull(Cost, chosen)),
            selectedOptions |-> Cardinality(chosen),
            freightSimulations |-> Cardinality(now),
            conversionRate |-> Percent(Cardinality(sent), Cardinality(now)),
            estimatedSavings |-> IF full THEN EstimateSavings(rows.sims) ELSE 0],
         imports |->
           [completed |-> Cardinality({j \in imports : j.status = "COMPLETED"}),
            failed |-> Cardinality({j \in imports : j.status = "FAILED"}),
            processing |-> Cardinality({j \in jobs : j.status = "PROCESSING"}),
            stalled |-> Cardinality({j \in jobs : j.status = "PROCESSING" /\ j.idle}),
            errorRate |-> ErrorRate(imports)],
         operations |-> Operations(shipments, f, p, today),
         charts |->
           [carrierPerformance |-> cut.carrierPerformance,
            routePerformance |-> cut.routePerformance,
            selectedCarriers |-> cut.selectedCarriers,
            conversionByPeriod |-> LastDays(ConversionByPeriod(rows.sims, rows.shipments)),
            costByPeriod |-> IF full THEN LastDays(CostByPeriod(rows.sims)) ELSE {},
            shipmentStatus |-> CountBy(LAMBDA s : s.status, rows.shipments),
            simulationsByPeriod |-> LastDays(CountBy(LAMBDA s : s.day, rows.sims))]]
  IN UNION {{Summary(rows, cut) : cut \in CutCharts(rows, full)} :
            rows \in ChartRows(now, options, sent)}
=============================================================================
