--------------------------- MODULE InsightsProofs ---------------------------
(***************************************************************************)
(* What a refresh promises, for all simulations, shipments and jobs, any   *)
(* number of refreshes and any bounds: FindingsAreKept.                    *)
(*                                                                         *)
(* The first part is about what a generator may find: which candidates can *)
(* meet under one dedupe key, whatever the rows are (Tells). The second is *)
(* the inductive invariant, which follows a refresh from its generators to *)
(* its last upsert.                                                        *)
(***************************************************************************)
EXTENDS Insights, TLAPS

-----------------------------------------------------------------------------
(* What the generators may find *)

\* All that a rule found is one candidate, of its type.
Single(found, type) == \A c \in found : c.type = type /\ \A d \in found : d = c

LEMMA OneSingle ==
  ASSUME NEW S, NEW type, \A c \in S : c.type = type, NEW found \in OneOf(S)
  PROVE  Single(found, type)
BY DEF OneOf, Single

LEMMA SavingsSingle ==
  ASSUME NEW S, NEW a \in SavingsOpportunity(S)
  PROVE  Single(a, "COST_SAVINGS_NOT_SELECTED")
<1>1. PICK taken : a \in SavingsIn(taken)
  BY DEF SavingsOpportunity
<1> QED
  BY <1>1, OneSingle DEF SavingsIn, Candidate

LEMMA CheapestSingle ==
  ASSUME NEW S, NEW a \in CheapestCarrier(S)
  PROVE  Single(a, "CHEAPEST_CARRIER")
BY OneSingle DEF CheapestCarrier, Candidate

LEMMA FastestSingle ==
  ASSUME NEW S, NEW a \in FastestCarrier(S)
  PROVE  Single(a, "FASTEST_CARRIER")
BY OneSingle DEF FastestCarrier, Candidate

LEMMA DependencySingle ==
  ASSUME NEW S, NEW a \in CarrierDependency(S)
  PROVE  Single(a, "CARRIER_DEPENDENCY")
<1> DEFINE chosen == {p \in OptionsOf(S) : IsSelected(p)}
           all == Cardinality(chosen)
           Of(g) == Candidate("CARRIER_DEPENDENCY",
                      IF Cardinality(g) * 100 >= 80 * all THEN "WARNING" ELSE "INFO", "Carrier",
                      CarrierOf(g), [selectedCount |-> Cardinality(g), totalSelected |-> all])
           top == {h \in Largest(ByCarrier(chosen)) : all >= 4 /\ Cardinality(h) * 100 >= 65 * all}
<1>1. a \in OneOf({Of(g) : g \in top})
  BY DEF CarrierDependency
<1>2. \A g : Of(g).type = "CARRIER_DEPENDENCY"
  BY DEF Candidate
<1> HIDE DEF Of, top
<1>3. QED  BY <1>1, <1>2, OneSingle

LEMMA ConcentrationSingle ==
  ASSUME NEW S, NEW a \in RouteConcentration(S)
  PROVE  Single(a, "ROUTE_NEGOTIATION_POTENTIAL")
BY OneSingle DEF RouteConcentration, Candidate

LEMMA VolumeSingle ==
  ASSUME NEW S, NEW a \in CustomerVolume(S)
  PROVE  Single(a, "CUSTOMER_SIMULATION_VOLUME")
BY OneSingle DEF CustomerVolume, Candidate

LEMMA Rises ==
  ASSUME NEW S, NEW T, NEW c \in RouteCostIncrease(S, T), NEW d \in RouteCostIncrease(S, T)
  PROVE  c.type = "ROUTE_COST_INCREASE" /\ (c.facts.route = d.facts.route => c.facts = d.facts)
<1> DEFINE On(r, U) == {s \in U : s.route = r}
           Level(r) == TotalLowest(On(r, T)) * Cardinality(On(r, S))
           Rise(r) == TotalLowest(On(r, S)) * Cardinality(On(r, T)) - Level(r)
           routes == {r \in {s.route : s \in S} :
                        /\ Cardinality(On(r, S)) >= 2
                        /\ Cardinality(On(r, T)) >= 2
                        /\ Rise(r) > 0
                        /\ Rise(r) * 100 >= 15 * Level(r)}
           Facts(r) == [currentAverage |-> AverageLowest(On(r, S)),
                        currentCount |-> Cardinality(On(r, S)),
                        previousAverage |-> AverageLowest(On(r, T)),
                        previousCount |-> Cardinality(On(r, T)),
                        route |-> r]
           Of(r) == Candidate("ROUTE_COST_INCREASE",
                      IF Rise(r) * 100 >= 30 * Level(r) THEN "WARNING" ELSE "INFO", "Route", None,
                      Facts(r))
<1>1. RouteCostIncrease(S, T) = {Of(r) : r \in routes}
  BY DEF RouteCostIncrease
<1>2. \A r : Of(r).type = "ROUTE_COST_INCREASE" /\ Of(r).facts = Facts(r) /\ Facts(r).route = r
  BY DEF Candidate
<1> HIDE DEF Facts, Of, routes
<1>3. QED  BY <1>1, <1>2

LEMMA Outliers ==
  ASSUME NEW S, NEW c \in FreightOutliers(S)
  PROVE  c.type = "FREIGHT_PRICE_OUTLIER" /\ c.resource = None
<1> DEFINE On(r) == {p \in OptionsOf(S) : p.sim.route = r}
           High(r) == {p \in On(r) : Cost(p) * Cardinality(On(r)) * 100 > TotalCost(On(r)) * 135}
           routes == {r \in {s.route : s \in S} : Cardinality(On(r)) >= 4 /\ High(r) # {}}
           Of(r) == Candidate("FREIGHT_PRICE_OUTLIER", "WARNING", "Route", None,
                      [average |-> AverageCost(On(r)), outliers |-> Cardinality(High(r)), route |-> r])
<1>1. FreightOutliers(S) = {Of(r) : r \in routes}
  BY DEF FreightOutliers
<1>2. \A r : Of(r).type = "FREIGHT_PRICE_OUTLIER" /\ Of(r).resource = None
  BY DEF Candidate
<1> HIDE DEF Of, routes
<1>3. QED  BY <1>1, <1>2

LEMMA Risks ==
  ASSUME NEW S, NEW T, NEW U, NEW n, NEW c \in OperationRisks(S, T, U, n)
  PROVE  c.type \in {"DELAYED_SHIPMENTS", "LOW_SIMULATION_CONVERSION"} /\ c.resource = None
BY DEF OperationRisks, Candidate

LEMMA Quality ==
  ASSUME NEW S, \A j, k \in S : j.id = k.id => j = k,
         NEW c \in ImportQuality(S), NEW d \in ImportQuality(S)
  PROVE  c.type \in {"IMPORT_HIGH_ERROR_RATE", "IMPORT_STALLED"}
         /\ (c.type = d.type /\ c.resource = d.resource => c.facts = d.facts)
BY DEF ImportQuality, Candidate

CostTypes ==
  {"COST_SAVINGS_NOT_SELECTED", "ROUTE_COST_INCREASE", "CHEAPEST_CARRIER", "FREIGHT_PRICE_OUTLIER"}

PerformanceTypes ==
  {"FASTEST_CARRIER", "CARRIER_DEPENDENCY", "ROUTE_NEGOTIATION_POTENTIAL",
   "CUSTOMER_SIMULATION_VOLUME", "DELAYED_SHIPMENTS", "LOW_SIMULATION_CONVERSION",
   "IMPORT_HIGH_ERROR_RATE", "IMPORT_STALLED"}

\* What two candidates under one key have in common, on any day.
SameKey(c, d) ==
  /\ c.type = d.type
  /\ c.resource = d.resource
  /\ c.resource = None => StableEvidenceKey(c) = StableEvidenceKey(d)

\* Candidates that share a key tell the same, but for costs that rose alike.
Tells(S) ==
  \A c, d \in S : SameKey(c, d) =>
    \/ c.facts = d.facts
    \/ c.type = "ROUTE_COST_INCREASE" /\ c.facts.route # d.facts.route

LEMMA KeyTells ==
  ASSUME NEW c, NEW d, NEW day, DedupeKey(c, day) = DedupeKey(d, day)
  PROVE  SameKey(c, d)
BY DEF DedupeKey, SameKey

LEMMA EvidenceIsFacts ==
  ASSUME NEW c, c.type \notin {"ROUTE_COST_INCREASE", "COST_SAVINGS_NOT_SELECTED"}
  PROVE  StableEvidenceKey(c) = c.facts
BY DEF StableEvidenceKey

LEMMA CostTells ==
  ASSUME NEW S, NEW T, NEW found \in CostGenerator(S, T)
  PROVE  Tells(found) /\ \A c \in found : c.type \in CostTypes
<1>1. PICK a \in SavingsOpportunity(S), b \in CheapestCarrier(S) :
        found = a \cup b \cup RouteCostIncrease(S, T) \cup FreightOutliers(S)
  BY DEF CostGenerator
<1>2. \A c \in a : c.type = "COST_SAVINGS_NOT_SELECTED" /\ \A d \in a : d = c
  BY SavingsSingle DEF Single
<1>3. \A c \in b : c.type = "CHEAPEST_CARRIER" /\ \A d \in b : d = c
  BY CheapestSingle DEF Single
<1>4. \A c \in RouteCostIncrease(S, T) : c.type = "ROUTE_COST_INCREASE"
  BY Rises
<1>5. \A c, d \in RouteCostIncrease(S, T) : c.facts.route = d.facts.route => c.facts = d.facts
  BY Rises
<1>6. \A c \in FreightOutliers(S) : c.type = "FREIGHT_PRICE_OUTLIER" /\ c.resource = None
  BY Outliers
<1>7. \A c \in found : c.type \in CostTypes
  BY <1>1, <1>2, <1>3, <1>4, <1>6 DEF CostTypes
<1>8. ASSUME NEW c \in found, NEW d \in found, SameKey(c, d)
      PROVE  c.facts = d.facts \/ (c.type = "ROUTE_COST_INCREASE" /\ c.facts.route # d.facts.route)
  <2>1. c.type = d.type
    BY <1>8 DEF SameKey
  <2>2. CASE c \in a
    BY <2>1, <2>2, <1>1, <1>2, <1>3, <1>4, <1>6
  <2>3. CASE c \in b
    BY <2>1, <2>3, <1>1, <1>2, <1>3, <1>4, <1>6
  <2>4. CASE c \in RouteCostIncrease(S, T)
    <3>1. d \in RouteCostIncrease(S, T)
      BY <2>1, <2>4, <1>1, <1>2, <1>3, <1>4, <1>6
    <3>2. QED  BY <3>1, <2>4, <1>4, <1>5
  <2>5. CASE c \in FreightOutliers(S)
    <3>1. c.resource = None /\ c.type = "FREIGHT_PRICE_OUTLIER"
      BY <2>5, <1>6
    <3>2. StableEvidenceKey(c) = c.facts /\ StableEvidenceKey(d) = d.facts
      BY <3>1, <2>1, EvidenceIsFacts
    <3>3. QED  BY <3>1, <3>2, <1>8 DEF SameKey
  <2>6. QED  BY <1>1, <2>2, <2>3, <2>4, <2>5
<1>9. QED  BY <1>7, <1>8 DEF Tells

LEMMA PerformanceTells ==
  ASSUME NEW S, NEW T, NEW U, NEW V, NEW n, \A j, k \in V : j.id = k.id => j = k,
         NEW found \in PerformanceGenerator(S, T, U, V, n)
  PROVE  Tells(found) /\ \A c \in found : c.type \in PerformanceTypes
<1>1. PICK f \in FastestCarrier(S), p \in CarrierDependency(S), r \in RouteConcentration(S),
           v \in CustomerVolume(S) :
        found = f \cup p \cup r \cup v \cup OperationRisks(S, T, U, n) \cup ImportQuality(V)
  BY DEF PerformanceGenerator
<1>2. \A c \in f : c.type = "FASTEST_CARRIER" /\ \A d \in f : d = c
  BY FastestSingle DEF Single
<1>3. \A c \in p : c.type = "CARRIER_DEPENDENCY" /\ \A d \in p : d = c
  BY DependencySingle DEF Single
<1>4. \A c \in r : c.type = "ROUTE_NEGOTIATION_POTENTIAL" /\ \A d \in r : d = c
  BY ConcentrationSingle DEF Single
<1>5. \A c \in v : c.type = "CUSTOMER_SIMULATION_VOLUME" /\ \A d \in v : d = c
  BY VolumeSingle DEF Single
<1>6. \A c \in OperationRisks(S, T, U, n) :
        c.type \in {"DELAYED_SHIPMENTS", "LOW_SIMULATION_CONVERSION"} /\ c.resource = None
  BY Risks
<1>7. \A c \in ImportQuality(V) : c.type \in {"IMPORT_HIGH_ERROR_RATE", "IMPORT_STALLED"}
  BY Quality
<1>8. \A c, d \in ImportQuality(V) : c.type = d.type /\ c.resource = d.resource => c.facts = d.facts
  BY Quality
<1>9. \A c \in found : c.type \in PerformanceTypes
  BY <1>1, <1>2, <1>3, <1>4, <1>5, <1>6, <1>7 DEF PerformanceTypes
<1>10. ASSUME NEW c \in found, NEW d \in found, SameKey(c, d)
       PROVE  c.facts = d.facts
  <2>1. c.type = d.type /\ c.resource = d.resource
    BY <1>10 DEF SameKey
  <2>2. CASE c \in f
    BY <2>1, <2>2, <1>1, <1>2, <1>3, <1>4, <1>5, <1>6, <1>7
  <2>3. CASE c \in p
    BY <2>1, <2>3, <1>1, <1>2, <1>3, <1>4, <1>5, <1>6, <1>7
  <2>4. CASE c \in r
    BY <2>1, <2>4, <1>1, <1>2, <1>3, <1>4, <1>5, <1>6, <1>7
  <2>5. CASE c \in v
    BY <2>1, <2>5, <1>1, <1>2, <1>3, <1>4, <1>5, <1>6, <1>7
  <2>6. CASE c \in OperationRisks(S, T, U, n)
    <3>1. /\ c.resource = None
          /\ c.type \notin {"ROUTE_COST_INCREASE", "COST_SAVINGS_NOT_SELECTED"}
      BY <2>6, <1>6
    <3>2. StableEvidenceKey(c) = c.facts /\ StableEvidenceKey(d) = d.facts
      BY <3>1, <2>1, EvidenceIsFacts
    <3>3. QED  BY <3>1, <3>2, <1>10 DEF SameKey
  <2>7. CASE c \in ImportQuality(V)
    <3>1. d \in ImportQuality(V)
      BY <2>1, <2>7, <1>1, <1>2, <1>3, <1>4, <1>5, <1>6, <1>7
    <3>2. QED  BY <3>1, <2>7, <2>1, <1>8
  <2>8. QED  BY <1>1, <2>2, <2>3, <2>4, <2>5, <2>6, <2>7
<1>11. QED  BY <1>9, <1>10 DEF Tells

-----------------------------------------------------------------------------
(* The inductive invariant *)

Sources == {"cost", "performance"}

TypesOf(g) == IF g = "cost" THEN CostTypes ELSE PerformanceTypes

\* A refresh under way: it holds nothing of a generator that is still to run,
\* and unless an upsert failed what is left to write is of what was found.
Working(f) ==
  /\ f = [pc |-> f.pc, day |-> f.day, todo |-> f.todo, left |-> f.left, all |-> f.all,
          alone |-> f.alone]
  /\ f.pc \in {"generate", "persist"}
  /\ f.todo \subseteq Sources
  /\ f.pc = "generate" => f.left = f.all
  /\ f.all = {} \/ f.left \subseteq f.all
  /\ \A c \in f.all : \E g \in Sources \ f.todo : c.type \in TypesOf(g)
  /\ Tells(f.all)

RefreshOK ==
  /\ refresh = [r \in Reqs |-> refresh[r]]
  /\ \A r \in Reqs : refresh[r] = Idle \/ Working(refresh[r])

\* A refresh that had the service to itself until now has it to itself.
AloneOK ==
  \A r \in Reqs :
    (refresh[r] # Idle /\ refresh[r].alone) => \A q \in Reqs \ {r} : refresh[q] = Idle

RowsOK ==
  \A k \in DOMAIN insights :
    insights[k] = [status |-> insights[k].status, readAt |-> insights[k].readAt,
                   dismissedAt |-> insights[k].dismissedAt, facts |-> insights[k].facts,
                   severity |-> insights[k].severity]

\* Of the candidates S of a refresh, c has its row, or one of S that rose alike.
Kept(c, S, day) ==
  LET key == DedupeKey(c, day) IN
  /\ key \in DOMAIN insights
  /\ \/ insights[key].facts = c.facts
     \/ /\ c.type = "ROUTE_COST_INCREASE"
        /\ insights[key].facts.route # c.facts.route
        /\ \E d \in S : d.type = c.type /\ d.facts = insights[key].facts

WrittenOK ==
  \A r \in Reqs : (refresh[r] # Idle /\ refresh[r].alone) =>
    \A c \in refresh[r].all \ refresh[r].left : Kept(c, refresh[r].all, refresh[r].day)

ReportOK ==
  (report.alone /\ \A r \in Reqs : refresh[r] = Idle) =>
    \A c \in report.candidates : Kept(c, report.candidates, report.day)

InsightsInv == RefreshOK /\ AloneOK /\ RowsOK /\ WrittenOK /\ ReportOK

LEMMA GeneratedTells ==
  ASSUME NEW g \in Sources, NEW day, NEW found \in Generated(g, day)
  PROVE  Tells(found) /\ \A c \in found : c.type \in TypesOf(g)
<1> DEFINE Since(S, start, end) == {s \in S : In(s.day, start, end)}
           now == Since(SimRows, day + 1 - Window, day + 1)
           before == Since(SimRows, day + 1 - 2 * Window, day + 1 - Window)
           sent == Since(ShipmentRows, day + 1 - Window, day + 1)
           recent == Since(JobRows, day + 1 - Window, day + 1)
<1>1. \A j, k \in recent : j.id = k.id => j = k
  BY DEF JobRows
<1>2. CASE g = "cost"
  <2>1. found \in CostGenerator(now, before)
    BY <1>2 DEF Generated
  <2> HIDE DEF now, before
  <2>2. QED  BY <2>1, <1>2, CostTells DEF TypesOf
<1>3. CASE g = "performance"
  <2>1. found \in PerformanceGenerator(now, ShipmentRows, sent, recent, today)
    BY <1>3 DEF Generated
  <2> HIDE DEF now, sent, recent
  <2>2. QED  BY <2>1, <1>1, <1>3, PerformanceTells DEF TypesOf
<1>4. QED  BY <1>2, <1>3 DEF Sources

\* What two generators found may be put together: no type is of both.
LEMMA TogetherTells ==
  ASSUME NEW A, NEW B, Tells(A), Tells(B), \A c \in A, d \in B : c.type # d.type
  PROVE  Tells(A \cup B)
BY DEF Tells, SameKey

LEMMA SourcesApart ==
  ASSUME NEW g \in Sources, NEW h \in Sources, g # h, NEW c, NEW d,
         c.type \in TypesOf(g), d.type \in TypesOf(h)
  PROVE  c.type # d.type
BY DEF Sources, TypesOf, CostTypes, PerformanceTypes

LEMMA IdleOrWorking ==
  ASSUME RefreshOK, NEW r \in Reqs
  PROVE  /\ refresh[r].pc \in {"generate", "persist"} => refresh[r] # Idle /\ Working(refresh[r])
         /\ refresh[r] # Idle => Working(refresh[r]) /\ refresh[r].pc \in {"generate", "persist"}
BY DEF RefreshOK, Idle, Working

LEMMA InsightsStart == Init => InsightsInv
<1> SUFFICES ASSUME Init PROVE InsightsInv
  OBVIOUS
<1>1. refresh = [r \in Reqs |-> Idle] /\ DOMAIN insights = {} /\ ~report.alone
  BY DEF Init, NoReport
<1>2. RefreshOK /\ AloneOK /\ WrittenOK
  BY <1>1 DEF RefreshOK, AloneOK, WrittenOK
<1>3. RowsOK /\ ReportOK
  BY <1>1 DEF RowsOK, ReportOK
<1>4. QED  BY <1>2, <1>3 DEF InsightsInv

LEMMA Aside ==
  ASSUME InsightsInv, UNCHANGED <<insights, refresh, report>>
  PROVE  InsightsInv'
BY DEF InsightsInv, RefreshOK, AloneOK, RowsOK, WrittenOK, ReportOK, Kept

LEMMA StartKeeps ==
  ASSUME InsightsInv, NEW r \in Reqs, StartRefresh(r)
  PROVE  InsightsInv'
<1> DEFINE new == [pc |-> "generate", day |-> today, todo |-> {"cost", "performance"},
                   left |-> {}, all |-> {}, alone |-> \A p \in Reqs \ {r} : refresh[p] = Idle]
           After(q) == IF q = r THEN new
                       ELSE IF refresh[q] = Idle THEN Idle ELSE [refresh[q] EXCEPT !.alone = FALSE]
<1>1. /\ refresh' = [q \in Reqs |-> After(q)]
      /\ UNCHANGED <<insights, report>>
  BY DEF StartRefresh
<1>2. Working(new) /\ new # Idle
  BY DEF Working, Sources, Tells, Idle
<1>3. \A q \in Reqs \ {r} : refresh[q] # Idle =>
        /\ Working(refresh'[q])
        /\ ~refresh'[q].alone
  <2> SUFFICES ASSUME NEW q \in Reqs \ {r}, refresh[q] # Idle
               PROVE  Working(refresh'[q]) /\ ~refresh'[q].alone
    OBVIOUS
  <2>1. PICK f : f = refresh[q]
    OBVIOUS
  <2>2. Working(f)
    BY <2>1, IdleOrWorking DEF InsightsInv
  <2>3. f = [pc |-> f.pc, day |-> f.day, todo |-> f.todo, left |-> f.left, all |-> f.all,
             alone |-> f.alone]
    BY <2>2 DEF Working
  <2>4. refresh'[q] = [pc |-> f.pc, day |-> f.day, todo |-> f.todo, left |-> f.left,
                       all |-> f.all, alone |-> FALSE]
    BY <1>1, <2>1, <2>3
  <2>5. QED  BY <2>2, <2>4 DEF Working
<1> HIDE DEF new
<1>4. \A q \in Reqs \ {r} : refresh[q] = Idle => refresh'[q] = Idle
  BY <1>1
<1>5. refresh'[r] = new
  BY <1>1
<1>6. RefreshOK'
  BY <1>1, <1>2, <1>3, <1>4, <1>5 DEF RefreshOK, Idle
<1>7. AloneOK'
  <2>1. new.alone => \A q \in Reqs \ {r} : refresh'[q] = Idle
    BY <1>4 DEF new
  <2>2. QED  BY <1>3, <1>4, <1>5, <2>1 DEF AloneOK, Idle
<1>8. WrittenOK'
  <2>1. new.all = {}
    BY DEF new
  <2>2. QED  BY <1>3, <1>4, <1>5, <2>1 DEF WrittenOK, Idle
<1>9. ReportOK'
  BY <1>2, <1>5 DEF ReportOK, Idle
<1>10. RowsOK'
  BY <1>1 DEF InsightsInv, RowsOK
<1>11. QED  BY <1>6, <1>7, <1>8, <1>9, <1>10 DEF InsightsInv

\* A refresh that goes on: the others do not, and what it holds is all right.
LEMMA GoesOn ==
  ASSUME InsightsInv, NEW r \in Reqs, NEW h, refresh[r] # Idle,
         refresh' = [refresh EXCEPT ![r] = h], Working(h), h # Idle,
         h.alone = refresh[r].alone
  PROVE  RefreshOK' /\ AloneOK'
<1>1. /\ refresh = [q \in Reqs |-> refresh[q]]
      /\ \A q \in Reqs : refresh[q] = Idle \/ Working(refresh[q])
  BY DEF InsightsInv, RefreshOK
<1>2. refresh' = [q \in Reqs |-> IF q = r THEN h ELSE refresh[q]]
  BY <1>1
<1>3. RefreshOK'
  BY <1>1, <1>2 DEF RefreshOK, Idle
<1>4. \A q \in Reqs : (refresh[q] # Idle /\ refresh[q].alone) =>
        \A p \in Reqs \ {q} : refresh[p] = Idle
  BY DEF InsightsInv, AloneOK
<1>5. AloneOK'
  BY <1>2, <1>4 DEF AloneOK, Idle
<1>6. QED  BY <1>3, <1>5

LEMMA GenerateKeeps ==
  ASSUME InsightsInv, NEW r \in Reqs, NEW g \in Sources, Generate(r, g)
  PROVE  InsightsInv'
<1>1. /\ refresh[r].pc = "generate" /\ g \in refresh[r].todo
      /\ UNCHANGED <<insights, report>>
  BY DEF Generate
<1>2. PICK f : f = refresh[r]
  OBVIOUS
<1>3. Working(f) /\ f # Idle
  BY <1>1, <1>2, IdleOrWorking DEF InsightsInv
<1>4. PICK pc : pc = IF f.todo = {g} THEN "persist" ELSE "generate"
  OBVIOUS
<1>5. PICK found \in Generated(g, f.day) :
        refresh' = [refresh EXCEPT ![r] = [f EXCEPT !.todo = f.todo \ {g},
                                                    !.left = f.left \cup found,
                                                    !.all = f.all \cup found,
                                                    !.pc = pc]]
  BY <1>2, <1>4 DEF Generate
<1>6. PICK h : h = [pc |-> pc, day |-> f.day, todo |-> f.todo \ {g}, left |-> f.left \cup found,
                    all |-> f.all \cup found, alone |-> f.alone]
  OBVIOUS
<1>8. refresh' = [refresh EXCEPT ![r] = h]
  <2>1. [f EXCEPT !.todo = f.todo \ {g}, !.left = f.left \cup found, !.all = f.all \cup found,
                  !.pc = pc] = h
    <3>1. PICK f1 : f1 = [f EXCEPT !.todo = f.todo \ {g}]
      OBVIOUS
    <3>2. PICK f2 : f2 = [f1 EXCEPT !.left = f.left \cup found]
      OBVIOUS
    <3>3. PICK f3 : f3 = [f2 EXCEPT !.all = f.all \cup found]
      OBVIOUS
    <3>4. f1 = [pc |-> f.pc, day |-> f.day, todo |-> f.todo \ {g}, left |-> f.left,
                all |-> f.all, alone |-> f.alone]
      BY <1>3, <3>1 DEF Working
    <3>5. f2 = [pc |-> f.pc, day |-> f.day, todo |-> f.todo \ {g}, left |-> f.left \cup found,
                all |-> f.all, alone |-> f.alone]
      BY <3>2, <3>4
    <3>6. f3 = [pc |-> f.pc, day |-> f.day, todo |-> f.todo \ {g}, left |-> f.left \cup found,
                all |-> f.all \cup found, alone |-> f.alone]
      BY <3>3, <3>5
    <3>7. [f3 EXCEPT !.pc = pc] =
          [pc |-> pc, day |-> f.day, todo |-> f.todo \ {g}, left |-> f.left \cup found,
           all |-> f.all \cup found, alone |-> f.alone]
      BY <3>6
    <3>8. QED  BY <3>1, <3>2, <3>3, <3>7, <1>6, Zenon
  <2>2. QED  BY <1>5, <2>1
<1>9. /\ Tells(found) /\ Tells(f.all)
      /\ \A c \in found : c.type \in TypesOf(g)
      /\ \A c \in f.all : \E s \in Sources \ f.todo : c.type \in TypesOf(s)
  BY <1>3, <1>5, GeneratedTells DEF Working
<1>10. Tells(f.all \cup found)
  <2>1. \A c \in f.all, d \in found : c.type # d.type
    BY <1>1, <1>2, <1>9, SourcesApart
  <2>2. QED  BY <1>9, <2>1, TogetherTells
<1>11. f.left = f.all
  BY <1>1, <1>2, <1>3 DEF Working
<1>12. Working(h)
  <2>1. /\ h.pc = pc /\ h.day = f.day /\ h.todo = f.todo \ {g}
        /\ h.left = f.left \cup found
        /\ h.all = f.all \cup found /\ h.alone = f.alone
    BY <1>6
  <2>2. h = [pc |-> h.pc, day |-> h.day, todo |-> h.todo, left |-> h.left, all |-> h.all,
             alone |-> h.alone]
    BY <1>6
  <2>3. h.pc \in {"generate", "persist"} /\ h.todo \subseteq Sources
    BY <2>1, <1>3, <1>4 DEF Working
  <2>4. \A c \in h.all : \E s \in Sources \ h.todo : c.type \in TypesOf(s)
    BY <2>1, <1>9
  <2>5. QED  BY <2>1, <2>2, <2>3, <2>4, <1>10, <1>11 DEF Working
<1>13. h # Idle /\ h.alone = f.alone /\ h.left = h.all
  <2>1. h.pc # "idle"
    BY <1>12 DEF Working
  <2>2. QED  BY <2>1, <1>6, <1>11 DEF Idle
<1>14. RefreshOK' /\ AloneOK'
  BY <1>2, <1>3, <1>8, <1>12, <1>13, GoesOn
<1>15. refresh' = [q \in Reqs |-> IF q = r THEN h ELSE refresh[q]]
  BY <1>8 DEF InsightsInv, RefreshOK
<1>16. WrittenOK'
  <2>1. \A q \in Reqs \ {r} : (refresh[q] # Idle /\ refresh[q].alone) =>
          \A c \in refresh[q].all \ refresh[q].left : Kept(c, refresh[q].all, refresh[q].day)
    BY DEF InsightsInv, WrittenOK
  <2>2. \A c, S, day : Kept(c, S, day) => Kept(c, S, day)'
    BY <1>1 DEF Kept
  <2>3. QED  BY <1>13, <1>15, <2>1, <2>2 DEF WrittenOK, Idle
<1>17. RowsOK' /\ ReportOK'
  BY <1>1, <1>13, <1>15 DEF InsightsInv, RowsOK, ReportOK, Idle
<1>18. QED  BY <1>14, <1>16, <1>17 DEF InsightsInv

\* A refresh writes down one of its candidates: how its state changes, whether
\* the upsert is made or fails.
LEMMA LeftLess ==
  ASSUME InsightsInv, NEW r \in Reqs, NEW c \in refresh[r].left, refresh[r].pc = "persist",
         NEW all, all = refresh[r].all \/ all = {}, NEW h,
         h = [pc |-> refresh[r].pc, day |-> refresh[r].day, todo |-> refresh[r].todo,
              left |-> refresh[r].left \ {c}, all |-> all, alone |-> refresh[r].alone],
         refresh' = [refresh EXCEPT ![r] = h]
  PROVE  /\ RefreshOK' /\ AloneOK'
         /\ refresh' = [q \in Reqs |-> IF q = r THEN h ELSE refresh[q]]
         /\ refresh[r] # Idle /\ h # Idle
<1>1. PICK f : f = refresh[r]
  OBVIOUS
<1>2. Working(f) /\ f # Idle
  BY <1>1, IdleOrWorking DEF InsightsInv
<1>3. /\ h.pc = f.pc /\ h.day = f.day /\ h.todo = f.todo /\ h.left = f.left \ {c}
      /\ h.all = all /\ h.alone = f.alone
  BY <1>1
<1>4. h = [pc |-> h.pc, day |-> h.day, todo |-> h.todo, left |-> h.left, all |-> h.all,
           alone |-> h.alone]
  BY <1>1
<1>5. f.pc = "persist"
  BY <1>1
<1>6. Working(h)
  <2>1. all = f.all \/ all = {}
    BY <1>1
  <2>2. Tells(all) /\ \A d \in all : \E g \in Sources \ f.todo : d.type \in TypesOf(g)
    BY <2>1, <1>2 DEF Working, Tells
  <2>3. all = {} \/ f.left \ {c} \subseteq all
    BY <2>1, <1>2 DEF Working
  <2>4. QED  BY <2>2, <2>3, <1>2, <1>3, <1>4, <1>5 DEF Working
<1>7. h # Idle
  BY <1>3, <1>5 DEF Idle
<1>8. RefreshOK' /\ AloneOK'
  BY <1>1, <1>2, <1>3, <1>6, <1>7, GoesOn
<1>9. QED  BY <1>1, <1>2, <1>7, <1>8 DEF InsightsInv, RefreshOK

LEMMA FailKeeps ==
  ASSUME InsightsInv, NEW r \in Reqs, NEW c \in refresh[r].left, PersistFails(r, c)
  PROVE  InsightsInv'
<1>1. PICK f : f = refresh[r]
  OBVIOUS
<1>2. /\ refresh[r].pc = "persist"
      /\ refresh' = [refresh EXCEPT ![r] = [f EXCEPT !.left = f.left \ {c}, !.all = {}]]
      /\ UNCHANGED <<insights, report>>
  BY <1>1 DEF PersistFails
<1>3. PICK all : all = {}
  OBVIOUS
<1>4. PICK h : h = [pc |-> refresh[r].pc, day |-> refresh[r].day, todo |-> refresh[r].todo,
                    left |-> refresh[r].left \ {c}, all |-> all, alone |-> refresh[r].alone]
  OBVIOUS
<1>5. refresh' = [refresh EXCEPT ![r] = h]
  <2>1. Working(f)
    BY <1>1, <1>2, IdleOrWorking DEF InsightsInv
  <2>2. PICK f1 : f1 = [f EXCEPT !.left = f.left \ {c}]
    OBVIOUS
  <2>3. f1 = [pc |-> f.pc, day |-> f.day, todo |-> f.todo, left |-> f.left \ {c}, all |-> f.all,
              alone |-> f.alone]
    BY <2>1, <2>2 DEF Working
  <2>4. [f1 EXCEPT !.all = all] =
        [pc |-> f.pc, day |-> f.day, todo |-> f.todo, left |-> f.left \ {c}, all |-> all,
         alone |-> f.alone]
    BY <2>3
  <2>5. QED  BY <1>1, <1>2, <1>3, <1>4, <2>2, <2>4, Zenon
<1>6. /\ RefreshOK' /\ AloneOK'
      /\ refresh' = [q \in Reqs |-> IF q = r THEN h ELSE refresh[q]]
      /\ h # Idle
  <2>1. all = refresh[r].all \/ all = {}
    BY <1>3
  <2>2. refresh[r].pc = "persist"
    BY <1>2
  <2>3. QED  BY <2>1, <2>2, <1>4, <1>5, LeftLess
<1>7. WrittenOK'
  <2>1. \A q \in Reqs \ {r} : (refresh[q] # Idle /\ refresh[q].alone) =>
          \A d \in refresh[q].all \ refresh[q].left : Kept(d, refresh[q].all, refresh[q].day)
    BY DEF InsightsInv, WrittenOK
  <2>2. \A d, S, day : Kept(d, S, day) => Kept(d, S, day)'
    BY <1>2 DEF Kept
  <2>3. h.all = {}
    BY <1>3, <1>4
  <2>4. QED  BY <1>6, <2>1, <2>2, <2>3 DEF WrittenOK, Idle
<1>8. RowsOK' /\ ReportOK'
  BY <1>2, <1>6 DEF InsightsInv, RowsOK, ReportOK, Idle
<1>9. QED  BY <1>6, <1>7, <1>8 DEF InsightsInv

LEMMA EndKeeps ==
  ASSUME InsightsInv, NEW r \in Reqs, EndRefresh(r)
  PROVE  InsightsInv'
<1>1. /\ refresh[r].pc = "persist" /\ refresh[r].left = {}
      /\ report' = [candidates |-> refresh[r].all, alone |-> refresh[r].alone,
                    day |-> refresh[r].day]
      /\ refresh' = [refresh EXCEPT ![r] = Idle]
      /\ UNCHANGED insights
  BY DEF EndRefresh
<1>2. refresh' = [q \in Reqs |-> IF q = r THEN Idle ELSE refresh[q]]
  BY <1>1 DEF InsightsInv, RefreshOK
<1>3. RefreshOK' /\ AloneOK'
  BY <1>2 DEF InsightsInv, RefreshOK, AloneOK, Idle
<1>4. \A d, S, day : Kept(d, S, day) => Kept(d, S, day)'
  BY <1>1 DEF Kept
<1>5. WrittenOK'
  BY <1>2, <1>4 DEF InsightsInv, WrittenOK, Idle
<1>6. RowsOK'
  BY <1>1 DEF InsightsInv, RowsOK
<1>7. ReportOK'
  <2>1. refresh[r] # Idle
    BY <1>1, IdleOrWorking DEF InsightsInv
  <2>2. refresh[r].alone =>
          \A d \in refresh[r].all : Kept(d, refresh[r].all, refresh[r].day)
    BY <1>1, <2>1 DEF InsightsInv, WrittenOK
  <2>3. report'.alone = refresh[r].alone /\ report'.candidates = refresh[r].all
        /\ report'.day = refresh[r].day
    BY <1>1
  <2>4. QED  BY <1>4, <2>2, <2>3 DEF ReportOK
<1>8. QED  BY <1>3, <1>5, <1>6, <1>7 DEF InsightsInv

LEMMA PersistKeeps ==
  ASSUME InsightsInv, NEW r \in Reqs, NEW c \in refresh[r].left, PersistCandidate(r, c)
  PROVE  InsightsInv'
<1>1. PICK f : f = refresh[r]
  OBVIOUS
<1>2. PICK key : key = DedupeKey(c, f.day)
  OBVIOUS
<1>3. /\ f.pc = "persist"
      /\ insights' = [k \in DOMAIN insights \cup {key} |-> IF k = key THEN RowOf(c) ELSE insights[k]]
      /\ refresh' = [refresh EXCEPT ![r].left = @ \ {c}]
      /\ UNCHANGED report
  BY <1>1, <1>2 DEF PersistCandidate
<1>4. Working(f)
  BY <1>1, <1>3, IdleOrWorking DEF InsightsInv
<1>5. PICK h : h = [pc |-> refresh[r].pc, day |-> refresh[r].day, todo |-> refresh[r].todo,
                    left |-> refresh[r].left \ {c}, all |-> refresh[r].all,
                    alone |-> refresh[r].alone]
  OBVIOUS
<1>6. refresh' = [refresh EXCEPT ![r] = h]
  <2>1. [f EXCEPT !.left = f.left \ {c}] =
        [pc |-> f.pc, day |-> f.day, todo |-> f.todo, left |-> f.left \ {c}, all |-> f.all,
         alone |-> f.alone]
    BY <1>4 DEF Working
  <2>2. refresh' = [refresh EXCEPT ![r] = [f EXCEPT !.left = f.left \ {c}]]
    BY <1>1, <1>3 DEF InsightsInv, RefreshOK
  <2>3. QED  BY <1>1, <1>5, <2>1, <2>2
<1>7. /\ RefreshOK' /\ AloneOK'
      /\ refresh' = [q \in Reqs |-> IF q = r THEN h ELSE refresh[q]]
      /\ h # Idle /\ refresh[r] # Idle
  <2>1. refresh[r].pc = "persist"
    BY <1>1, <1>3
  <2>2. QED  BY <2>1, <1>5, <1>6, LeftLess
<1>8. /\ key \in DOMAIN insights' /\ insights'[key].facts = c.facts
      /\ DOMAIN insights' = DOMAIN insights \cup {key}
      /\ \A k \in DOMAIN insights \ {key} : insights'[k] = insights[k]
  BY <1>3 DEF RowOf
<1>9. RowsOK'
  <2>1. \A k \in DOMAIN insights \ {key} :
          insights'[k] = [status |-> insights'[k].status, readAt |-> insights'[k].readAt,
                          dismissedAt |-> insights'[k].dismissedAt, facts |-> insights'[k].facts,
                          severity |-> insights'[k].severity]
    BY <1>8 DEF InsightsInv, RowsOK
  <2>2. insights'[key] = RowOf(c)
    BY <1>3
  <2>3. insights'[key] =
          [status |-> insights'[key].status, readAt |-> insights'[key].readAt,
           dismissedAt |-> insights'[key].dismissedAt, facts |-> insights'[key].facts,
           severity |-> insights'[key].severity]
    BY <2>2 DEF RowOf
  <2>4. QED  BY <1>8, <2>1, <2>3 DEF RowsOK
<1>10. ASSUME f.alone, NEW d \in f.all \ (f.left \ {c})
       PROVE  Kept(d, f.all, f.day)'
  <2>1. c \in f.all /\ Tells(f.all)
    BY <1>1, <1>4, <1>10 DEF Working
  <2>2. CASE d = c
    BY <2>2, <1>2, <1>8 DEF Kept
  <2>3. CASE d # c
    <3>1. Kept(d, f.all, f.day)
      BY <1>1, <1>7, <1>10, <2>3 DEF InsightsInv, WrittenOK
    <3>2. CASE DedupeKey(d, f.day) # key
      BY <3>1, <3>2, <1>8 DEF Kept
    <3>3. CASE DedupeKey(d, f.day) = key
      <4>1. SameKey(d, c)
        BY <3>3, <1>2, KeyTells
      <4>2. d.type = c.type
        BY <4>1 DEF SameKey
      <4>3. d.facts = c.facts \/ (d.type = "ROUTE_COST_INCREASE" /\ d.facts.route # c.facts.route)
        BY <4>1, <2>1, <1>10 DEF Tells
      <4>4. CASE d.facts = c.facts
        BY <4>4, <3>3, <1>8 DEF Kept
      <4>5. CASE d.type = "ROUTE_COST_INCREASE" /\ d.facts.route # c.facts.route
        BY <4>5, <4>2, <2>1, <3>3, <1>8 DEF Kept
      <4>6. QED  BY <4>3, <4>4, <4>5
    <3>4. QED  BY <3>2, <3>3
  <2>4. QED  BY <2>2, <2>3
<1>11. WrittenOK'
  <2>1. h.alone = f.alone /\ h.all = f.all /\ h.left = f.left \ {c} /\ h.day = f.day
    BY <1>1, <1>5
  <2>2. (h # Idle /\ h.alone) => \A d \in h.all \ h.left : Kept(d, h.all, h.day)'
    BY <2>1, <1>10
  <2>3. ASSUME NEW q \in Reqs \ {r}
        PROVE  refresh[q] = Idle \/ ~refresh[q].alone
    BY <2>3, <1>7 DEF InsightsInv, AloneOK
  <2>4. QED  BY <1>7, <2>2, <2>3 DEF WrittenOK, Idle
<1>12. ReportOK'
  BY <1>7 DEF ReportOK, Idle
<1>13. QED  BY <1>7, <1>9, <1>11, <1>12 DEF InsightsInv

LEMMA HandleKeeps ==
  ASSUME InsightsInv, NEW k \in DOMAIN insights, MarkRead(k) \/ Dismiss(k)
  PROVE  InsightsInv'
<1>1. PICK row : row = insights[k]
  OBVIOUS
<1>2. row = [status |-> row.status, readAt |-> row.readAt, dismissedAt |-> row.dismissedAt,
             facts |-> row.facts, severity |-> row.severity]
  BY <1>1 DEF InsightsInv, RowsOK
<1>3. PICK new : /\ insights' = [insights EXCEPT ![k] = new]
                 /\ new = [row EXCEPT !.status = "READ", !.readAt = TRUE]
                    \/ new = [row EXCEPT !.status = "DISMISSED", !.dismissedAt = TRUE]
  BY <1>1 DEF MarkRead, Dismiss, Handle
<1>4. UNCHANGED <<refresh, report>>
  BY DEF MarkRead, Dismiss, Handle
<1>5. /\ new.facts = row.facts
      /\ new = [status |-> new.status, readAt |-> new.readAt, dismissedAt |-> new.dismissedAt,
                facts |-> new.facts, severity |-> new.severity]
  BY <1>2, <1>3
<1>6. DOMAIN insights' = DOMAIN insights /\ insights'[k] = new
      /\ \A j \in DOMAIN insights \ {k} : insights'[j] = insights[j]
  BY <1>3
<1>7. RowsOK'
  BY <1>5, <1>6 DEF InsightsInv, RowsOK
<1>8. \A j \in DOMAIN insights : insights'[j].facts = insights[j].facts
  BY <1>1, <1>5, <1>6
<1>9. \A d, S, day : Kept(d, S, day) => Kept(d, S, day)'
  BY <1>6, <1>8 DEF Kept
<1>10. WrittenOK' /\ ReportOK'
  BY <1>4, <1>9 DEF InsightsInv, WrittenOK, ReportOK, Idle
<1>11. QED  BY <1>4, <1>7, <1>10 DEF InsightsInv, RefreshOK, AloneOK

LEMMA InsightsNext ==
  ASSUME InsightsInv, [Next]_vars
  PROVE  InsightsInv'
<1>1. CASE UNCHANGED vars
  BY <1>1, Aside DEF vars
<1>2. ASSUME NEW i, Simulate(i) \/ (\E o : Select(i, o)) \/ Ship(i) \/ (\E st : Track(i, st)) \/ Import(i)
      PROVE  InsightsInv'
  BY <1>2, Aside DEF Simulate, Select, Ship, Track, Import, Change
<1>3. CASE NewDay
  BY <1>3, Aside DEF NewDay
<1>4. ASSUME NEW r \in Reqs,
             \/ StartRefresh(r)
             \/ \E g \in {"cost", "performance"} : Generate(r, g)
             \/ refresh[r] # Idle /\ \E c \in refresh[r].left :
                  PersistCandidate(r, c) \/ PersistFails(r, c)
             \/ EndRefresh(r)
      PROVE  InsightsInv'
  BY <1>4, StartKeeps, GenerateKeeps, PersistKeeps, FailKeeps, EndKeeps DEF Sources
<1>5. ASSUME NEW k \in DOMAIN insights, MarkRead(k) \/ Dismiss(k)
      PROVE  InsightsInv'
  BY <1>5, HandleKeeps
<1>6. QED  BY <1>1, <1>2, <1>3, <1>4, <1>5 DEF Next

\* FindingsKept, whatever the rows of the tenant are and however many refreshes
\* there are: a refresh that had InsightsService to itself and was answered has
\* a row for each of its candidates (refreshForTenant, persistCandidate).
THEOREM FindingsAreKept == Spec => []FindingsKept
<1>1. InsightsInv => FindingsKept
  BY DEF InsightsInv, ReportOK, Kept, FindingsKept
<1>2. QED  BY <1>1, InsightsStart, InsightsNext, PTL DEF Spec
=============================================================================
