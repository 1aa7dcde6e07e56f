------------------------------ MODULE Insights ------------------------------
(***************************************************************************)
(* InsightsService: refreshes that turn the rows of a tenant into insights,*)
(* and users who read and dismiss them; and the dashboard of the same rows.*)
(*                                                                         *)
(* A refresh runs the generators, which read while others write, and then  *)
(* upserts its candidates one by one under a key: what the candidate is    *)
(* about, and the day. Nothing ties the upserts of a refresh together, and *)
(* nothing keeps two refreshes apart.                                      *)
(*                                                                         *)
(* Simulations, shipments and jobs change as their services change them;   *)
(* what these check is in Freight, Shipments and Imports.                  *)
(***************************************************************************)
EXTENDS InsightRules, TLC

CONSTANTS
  Shapes,        \* simulations by id: route, customer, options
  Past,          \* days of the simulations that exist at the start
  Chosen,        \* options selected at the start, by simulation
  Shipped,       \* shipments at the start: day, status, due
  Jobs,          \* import jobs at the start
  Statuses,      \* statuses that shipments get here
  Window,        \* days of a period (30 in the code)
  Filters,       \* filters that the dashboard is asked with
  Reqs,          \* refreshes in flight at one time
  MaxDay,        \* bound on days
  MaxEvents,     \* bound on changes of rows, insights handled, upserts that fail
  MaxRefreshes   \* bound on refreshes

VARIABLES
  today,
  sims,          \* freight_simulations and their options: day, selected
  shipments,     \* shipments, by simulation
  jobs,          \* import_jobs
  insights,      \* insights, by dedupe key
  refresh,       \* refresh requests in flight
  report,        \* candidates of the last refresh that was answered, alone or not
  events, started

data == <<today, sims, shipments, jobs>>

vars == <<data, insights, refresh, report, events, started>>

Idle == [pc |-> "idle"]

NoReport == [candidates |-> {}, alone |-> FALSE, day |-> 0]

Init ==
  /\ today = MaxDay - 1
  /\ sims = [i \in DOMAIN Past |-> [day |-> Past[i], selected |-> Chosen[i]]]
  /\ shipments = Shipped
  /\ jobs = Jobs
  /\ insights = << >>
  /\ refresh = [r \in Reqs |-> Idle]
  /\ report = NoReport
  /\ events = 0 /\ started = 0

-----------------------------------------------------------------------------
(* Rows, as the queries return them *)

SimRows ==
  {[id |-> i, day |-> sims[i].day, selected |-> sims[i].selected, route |-> Shapes[i].route,
    customer |-> Shapes[i].customer,
    options |-> {[id |-> o.id, carrier |-> o.carrier, price |-> o.price, days |-> o.days,
                  cheapest |-> \A p \in Shapes[i].options : o.price <= p.price] :
                 o \in Shapes[i].options}] : i \in DOMAIN sims}

ShipmentRows ==
  {[id |-> i, day |-> shipments[i].day, status |-> shipments[i].status, due |-> shipments[i].due,
    carrier |-> shipments[i].carrier, customer |-> Shapes[i].customer] : i \in DOMAIN shipments}

JobRows ==
  {[id |-> j, day |-> jobs[j].day, total |-> jobs[j].total, errors |-> jobs[j].errors,
    status |-> jobs[j].status, idle |-> jobs[j].idle] : j \in DOMAIN jobs}

-----------------------------------------------------------------------------
(* Activity of the tenant *)

Event == events < MaxEvents /\ events' = events + 1

Change == Event /\ UNCHANGED <<insights, refresh, report, started>>

Simulate(i) ==
  /\ i \notin DOMAIN sims
  /\ sims' = sims @@ (i :> [day |-> today, selected |-> None])
  /\ UNCHANGED <<today, shipments, jobs>>
  /\ Change

Select(i, o) ==
  /\ sims[i].selected # o.id
  /\ sims' = [sims EXCEPT ![i].selected = o.id]
  /\ UNCHANGED <<today, shipments, jobs>>
  /\ Change

Ship(i) ==
  /\ i \notin DOMAIN shipments
  /\ sims[i].selected # None
  /\ LET o == CHOOSE p \in Shapes[i].options : p.id = sims[i].selected
     IN shipments' = shipments @@ (i :> [day |-> today, status |-> "CREATED",
                                         carrier |-> o.carrier, due |-> today + o.days])
  /\ UNCHANGED <<today, sims, jobs>>
  /\ Change

\* One tracking event or several.
Track(i, status) ==
  /\ shipments[i].status \notin TerminalStatuses
  /\ shipments[i].status # status
  /\ shipments' = [shipments EXCEPT ![i].status = status]
  /\ UNCHANGED <<today, sims, jobs>>
  /\ Change

\* A job in progress ends with some of its rows in error, or is silent.
Import(j) ==
  /\ jobs[j].status = "PROCESSING"
  /\ \/ \E e \in {0, 1, jobs[j].total} :
          jobs' = [jobs EXCEPT ![j].status = IF e = jobs[j].total THEN "FAILED" ELSE "COMPLETED",
                               ![j].errors = e]
     \/ ~jobs[j].idle /\ jobs' = [jobs EXCEPT ![j].idle = TRUE]
  /\ UNCHANGED <<today, sims, shipments>>
  /\ Change

NewDay ==
  /\ today < MaxDay
  /\ today' = today + 1
  /\ UNCHANGED <<sims, shipments, jobs, insights, refresh, report, events, started>>

-----------------------------------------------------------------------------
(* Refreshing *)

\* stableEvidenceKey keeps 60 characters of the evidence: the fields that fit.
StableEvidenceKey(c) ==
  CASE c.type = "ROUTE_COST_INCREASE" ->
         [currentAverage |-> c.facts.currentAverage, currentCount |-> c.facts.currentCount,
          previousAverage |-> c.facts.previousAverage]
    [] c.type = "COST_SAVINGS_NOT_SELECTED" ->
         [cheaperCarrier |-> c.facts.cheaperCarrier, occurrences |-> c.facts.occurrences]
    [] OTHER -> c.facts

\* Faulty variant: the resource is left to the evidence.
DedupeKeyNoResource(c, day) ==
  [type |-> c.type, resourceType |-> c.resourceType, resource |-> "-",
   evidence |-> IF c.resource = None THEN StableEvidenceKey(c) ELSE [none |-> 0], day |-> day]

DedupeKey(c, day) ==
  [type |-> c.type, resourceType |-> c.resourceType, resource |-> c.resource,
   evidence |-> IF c.resource = None THEN StableEvidenceKey(c) ELSE [none |-> 0], day |-> day]

StartRefresh(r) ==
  /\ refresh[r] = Idle
  /\ started < MaxRefreshes
  /\ started' = started + 1
  /\ refresh' =
       [q \in Reqs |->
          IF q = r THEN [pc |-> "generate", day |-> today, todo |-> {"cost", "performance"},
                         left |-> {}, all |-> {},
                         alone |-> \A p \in Reqs \ {r} : refresh[p] = Idle]
          ELSE IF refresh[q] = Idle THEN Idle ELSE [refresh[q] EXCEPT !.alone = FALSE]]
  /\ UNCHANGED <<data, insights, report, events>>

\* What a generator may find now, for a period that ends with day.
Generated(g, day) ==
  LET Since(S, start, end) == {s \in S : In(s.day, start, end)}
      now == Since(SimRows, day + 1 - Window, day + 1)
  IN IF g = "cost"
     THEN CostGenerator(now, Since(SimRows, day + 1 - 2 * Window, day + 1 - Window))
     ELSE PerformanceGenerator(now, ShipmentRows, Since(ShipmentRows, day + 1 - Window, day + 1),
                               Since(JobRows, day + 1 - Window, day + 1), today)

Generate(r, g) ==
  LET f == refresh[r] IN
  /\ f.pc = "generate"
  /\ g \in f.todo
  /\ \E found \in Generated(g, f.day) :
       refresh' = [refresh EXCEPT ![r] =
                     [f EXCEPT !.todo = f.todo \ {g},
                               !.left = f.left \cup found,
                               !.all = f.all \cup found,
                               !.pc = IF f.todo = {g} THEN "persist" ELSE "generate"]]
  /\ UNCHANGED <<data, insights, report, events, started>>

\* What an upsert writes, whether the row is there or not.
RowOf(c) ==
  [status |-> "NEW", readAt |-> FALSE, dismissedAt |-> FALSE,
   facts |-> c.facts, severity |-> c.severity]

\* Upserts of different rows do not meet: they are taken row by row.
NextKey(r) == CHOOSE k \in {DedupeKey(c, refresh[r].day) : c \in refresh[r].left} : TRUE

PersistCandidate(r, c) ==
  LET key == DedupeKey(c, refresh[r].day) IN
  /\ refresh[r].pc = "persist"
  /\ c \in refresh[r].left
  /\ key = NextKey(r)
  /\ insights' = [k \in DOMAIN insights \cup {key} |-> IF k = key THEN RowOf(c) ELSE insights[k]]
  /\ refresh' = [refresh EXCEPT ![r].left = @ \ {c}]
  /\ UNCHANGED <<data, report, events, started>>

\* An upsert fails: the others go on, the request is answered with an error.
PersistFails(r, c) ==
  LET f == refresh[r] IN
  /\ f.pc = "persist"
  /\ c \in f.left
  /\ DedupeKey(c, f.day) = NextKey(r)
  /\ refresh' = [refresh EXCEPT ![r] = [f EXCEPT !.left = f.left \ {c}, !.all = {}]]
  /\ Event
  /\ UNCHANGED <<data, insights, report, started>>

EndRefresh(r) ==
  /\ refresh[r].pc = "persist"
  /\ refresh[r].left = {}
  /\ report' = [candidates |-> refresh[r].all, alone |-> refresh[r].alone, day |-> refresh[r].day]
  /\ refresh' = [refresh EXCEPT ![r] = Idle]
  /\ UNCHANGED <<data, insights, events, started>>

-----------------------------------------------------------------------------
(* Reading and dismissing *)

Handle(k, row) ==
  /\ Event
  /\ insights' = [insights EXCEPT ![k] = row]
  /\ UNCHANGED <<data, refresh, report, started>>

MarkRead(k) == Handle(k, [insights[k] EXCEPT !.status = "READ", !.readAt = TRUE])

Dismiss(k) == Handle(k, [insights[k] EXCEPT !.status = "DISMISSED", !.dismissedAt = TRUE])

-----------------------------------------------------------------------------
Next ==
  \/ \E i \in DOMAIN Shapes : Simulate(i)
  \/ \E i \in DOMAIN sims : \E o \in Shapes[i].options : Select(i, o)
  \/ \E i \in DOMAIN sims : Ship(i)
  \/ \E i \in DOMAIN shipments, st \in Statuses : Track(i, st)
  \/ \E j \in DOMAIN jobs : Import(j)
  \/ NewDay
  \/ \E r \in Reqs : \/ StartRefresh(r)
                     \/ \E g \in {"cost", "performance"} : Generate(r, g)
                     \/ refresh[r] # Idle /\ \E c \in refresh[r].left :
                          PersistCandidate(r, c) \/ PersistFails(r, c)
                     \/ EndRefresh(r)
  \/ \E k \in DOMAIN insights : MarkRead(k) \/ Dismiss(k)

Spec == Init /\ [][Next]_vars
-----------------------------------------------------------------------------
(* Properties *)

\* A refresh that had the service to itself and was answered has a row for each
\* of its candidates, with what the candidate found, although the candidates
\* are upserted one by one under keys cut out of their facts. Only costs that
\* rose alike on two routes share a row: their key ends before the route.
FindingsKept ==
  (report.alone /\ \A r \in Reqs : refresh[r] = Idle) =>
    \A c \in report.candidates :
      LET key == DedupeKey(c, report.day) IN
      /\ key \in DOMAIN insights
      /\ \/ insights[key].facts = c.facts
         \/ /\ c.type = "ROUTE_COST_INCREASE"
            /\ insights[key].facts.route # c.facts.route
            /\ \E d \in report.candidates : d.type = c.type /\ d.facts = insights[key].facts

\* The dashboard reads nothing that a refresh writes: its properties are looked
\* at in the states without a refresh, which are all that its rows can be in.
NoRefreshYet == DOMAIN insights = {} /\ \A r \in Reqs : refresh[r] = Idle

Metrics == {"totalShipments", "delayedShipments", "deliveredShipments", "failedShipments",
            "inTransitShipments"}

AllStatuses ==
  ActiveStatuses \cup TerminalStatuses \cup {"DELIVERY_FAILED", "RETURNING"}

\* The dashboard may be asked for one status: what it then counts adds up, over
\* the statuses, to what it counts without, late shipments included, although
\* statusMetricWhere and delayedMetricWhere drop their own status for it.
StatusFilterSplits ==
  NoRefreshYet => \A f \in Filters :
    LET p == PeriodFromFilters(f, today, Window)
        Of(st) == Operations(ShipmentRows, [f EXCEPT !.status = st], p, today)
        byStatus == [st \in AllStatuses |-> Of(st)]
        all == Of(None)
    IN \A m \in Metrics : all[m] = SumOf(LAMBDA st : byStatus[st][m], AllStatuses)


\* Dashboard and insight agree on savings. As long as the period has no more
\* simulations than the dashboard takes (1000), it shows some exactly when an
\* option was selected that create did not flag as cheapest, and an insight
\* tells no more than that. It tells the same amount as long as there are no
\* more than the generator takes (500): beyond that it looks at the newest
\* simulations and the dashboard at the oldest.
SavingsAgree ==
  LET none == [customer |-> None, carrier |-> None, status |-> None,
               startDate |-> NoValue, endDate |-> NoValue]
      now == {s \in SimRows : In(s.day, today + 1 - Window, today + 1)}
  IN NoRefreshYet =>
     \A summary \in CalculateSummary(SimRows, {}, {}, none, today, Window, "ADMIN") :
       LET shown == summary.freight.estimatedSavings IN
       Cardinality(now) <= MaxRows =>
         /\ shown > 0 <=> \E p \in OptionsOf(now) : IsSelected(p) /\ ~p.option.cheapest
         /\ \A c \in UNION SavingsOpportunity(now) :
              /\ c.facts.savings <= shown
              /\ Cardinality(now) <= MaxSavingsRows => c.facts.savings = shown
=============================================================================
