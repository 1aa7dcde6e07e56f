------------------------------ MODULE Freight ------------------------------
(***************************************************************************)
(* Rate tables and coverages of LogisticsAdminService, and the simulations *)
(* of FreightSimulationsService.create that are priced from them.          *)
(*                                                                         *)
(* A simulation reads services, coverages and tables in one query, prices  *)
(* in memory, and stores its options in a later transaction, which repeats *)
(* table and version but keeps no link to the ranges that were read.       *)
(* updateRateTable counts such options, and rewrites the table later.      *)
(*                                                                         *)
(* A tariff is what a rate table holds: ranges, charges, and the ship      *)
(* dates it is valid for. History: raced options are those whose request   *)
(* overlapped an update of their table; tariff, load and minimum are what  *)
(* the option was priced from.                                             *)
(***************************************************************************)
EXTENDS Pricing, FiniteSets

CONSTANTS
  Tables,     \* ids of rate tables
  Services,   \* carrier services
  Offers,     \* what services are entered with: status, weight limits, cubic
              \* factor and minimum
  Coverages,  \* ids of coverages
  Areas,      \* sets of routes that coverages are entered for
  Tariffs,    \* contents that rate tables are entered with
  Loads,      \* what is simulated: packages, cargo value, route, ship date
  Sims,       \* ids of simulations
  Statuses,   \* bound: statuses that inputs carry, "none" if they do not
  Calls       \* HTTP requests in flight at one time

\* A weight is entered as a number that is not negative (RateRangeInputDto), and
\* the weight a load is charged for is whole grams.
ASSUME InputsAssumption ==
  /\ IsFiniteSet(Tables)
  /\ \A tf \in Tariffs : \A i \in DOMAIN tf.ranges :
       tf.ranges[i].min \in Nat /\ tf.ranges[i].max \in Nat
  /\ \A o \in Offers, l \in Loads : ChargeableWeight(l.packages, o.cubicFactor) \in Int

VARIABLES
  carriers,   \* services whose carrier is active
  service,    \* carrier_services
  coverage,   \* carrier_coverages
  table,      \* freight_rate_tables with their ranges and charges
  options,    \* freight_simulation_options, by simulation
  call        \* HTTP requests in flight

freightVars == <<carriers, service, coverage, table, options, call>>

Versions == 1..Cardinality(Tables)

Row(s, v, st, tf) == [service |-> s, version |-> v, status |-> st, tariff |-> tf]

NoRow == [status |-> "none"]

NoCall == [pc |-> "idle"]

Exists(t) == table[t] # NoRow

TablesOf(s) == {t \in Tables : Exists(t) /\ table[t].service = s}

AllOptions == UNION {options[m] : m \in Sims}

\* @@unique([tenantId, carrierServiceId, version])
VersionTaken(s, v, except) == \E t \in TablesOf(s) \ {except} : table[t].version = v

FreightInit ==
  /\ carriers = Services
  /\ service = [s \in Services |-> NoRow]
  /\ coverage = [c \in Coverages |-> NoRow]
  /\ table = [t \in Tables |-> NoRow]
  /\ options = [m \in Sims |-> {}]
  /\ call = [r \in Calls |-> NoCall]

-----------------------------------------------------------------------------
(* Carriers and coverages *)

\* CarriersService.updateStatus, seen from a service of the carrier.
UpdateCarrierStatus(s) ==
  /\ carriers' \in {carriers \cup {s}, carriers \ {s}}
  /\ UNCHANGED <<service, coverage, table, options, call>>

\* The limits of a service before it is given any.
Limits(s) ==
  IF service[s] = NoRow THEN [minWeight |-> NoLimit, maxWeight |-> NoLimit] ELSE service[s]

Limit(entered, kept) == IF entered = NoLimit THEN kept ELSE WeightColumn(entered)

\* createService and updateService: a limit that is not given stays what it was,
\* and nothing keeps the terms of earlier prices.
SaveService(s, offer) ==
  /\ offer.minWeight # NoLimit /\ offer.maxWeight # NoLimit => offer.minWeight < offer.maxWeight
  /\ service' = [service EXCEPT ![s] =
       [status |-> offer.status, cubicFactor |-> offer.cubicFactor,
        minWeight |-> Limit(offer.minWeight, Limits(s).minWeight),
        maxWeight |-> Limit(offer.maxWeight, Limits(s).maxWeight),
        minimumValue |-> offer.minimumValue]]
  /\ UNCHANGED <<carriers, coverage, table, options, call>>

\* createCoverage and updateCoverage; no operation takes one out of use.
SaveCoverage(c, s, a) ==
  /\ service[s] # NoRow
  /\ coverage' = [coverage EXCEPT ![c] = [status |-> "ACTIVE", service |-> s, area |-> a]]
  /\ UNCHANGED <<carriers, service, table, options, call>>

-----------------------------------------------------------------------------
(* Rate tables *)

\* The status of the service itself does not matter to its tables.
CanHaveTable(s) == service[s] # NoRow /\ s \in carriers

MaxVersion(s) ==
  IF TablesOf(s) = {} THEN 0
  ELSE CHOOSE v \in Versions : /\ \E t \in TablesOf(s) : table[t].version = v
                               /\ \A t \in TablesOf(s) : table[t].version <= v

\* createRateTable without a previous version: the checks.
CreateCheck(r, s, st, tf) ==
  /\ call[r] = NoCall
  /\ ValidRanges(tf.ranges)
  /\ CanHaveTable(s)
  /\ call' = [call EXCEPT ![r] = [pc |-> "insert",
               row |-> Row(s, 1, IF st = "none" THEN "INACTIVE" ELSE st, TariffRow(tf))]]
  /\ UNCHANGED <<carriers, service, coverage, table, options>>

\* createRateTableVersion copies the table ...
VersionRead(r, t) ==
  /\ call[r] = NoCall
  /\ Exists(t)
  /\ call' = [call EXCEPT ![r] = [pc |-> "number",
               row |-> Row(table[t].service, 1, "INACTIVE", table[t].tariff)]]
  /\ UNCHANGED <<carriers, service, coverage, table, options>>

\* ... and hands it to createRateTable, which checks the numbers as they were
\* stored, and reads the maximum: a table of ranges that touch has no versions.
VersionNumber(r) ==
  /\ call[r].pc = "number"
  /\ ValidRanges(call[r].row.tariff.ranges)
  /\ CanHaveTable(call[r].row.service)
  /\ MaxVersion(call[r].row.service) + 1 \in Versions
  /\ call' = [call EXCEPT ![r].pc = "insert",
                        ![r].row.version = MaxVersion(call[r].row.service) + 1]
  /\ UNCHANGED <<carriers, service, coverage, table, options>>

CreateInsert(r, t) ==
  /\ call[r].pc = "insert"
  /\ ~Exists(t)
  /\ ~VersionTaken(call[r].row.service, call[r].row.version, t)
  /\ table' = [table EXCEPT ![t] = call[r].row]
  /\ call' = [call EXCEPT ![r] = NoCall]
  /\ UNCHANGED <<carriers, service, coverage, options>>

Used(t) == \E o \in AllOptions : o.table = t

\* Faulty variant: use by simulations does not matter.
UpdateCheckUsed(r, t, s, st, tf) ==
  /\ call[r] = NoCall
  /\ Exists(t)
  /\ ValidRanges(tf.ranges)
  /\ CanHaveTable(s)
  /\ call' = [call EXCEPT ![r] = [pc |-> "rewrite", table |-> t,
               row |-> Row(s, table[t].version, IF st = "none" THEN table[t].status ELSE st, TariffRow(tf))]]
  /\ UNCHANGED <<carriers, service, coverage, table, options>>

\* updateRateTable: the table is read, no simulation has used it, the input is
\* valid. A status that the input leaves out is the one read here.
UpdateCheck(r, t, s, st, tf) ==
  /\ call[r] = NoCall
  /\ Exists(t)
  /\ ~Used(t)
  /\ ValidRanges(tf.ranges)
  /\ CanHaveTable(s)
  /\ call' = [call EXCEPT ![r] = [pc |-> "rewrite", table |-> t,
               row |-> Row(s, table[t].version, IF st = "none" THEN table[t].status ELSE st, TariffRow(tf))]]
  /\ UNCHANGED <<carriers, service, coverage, table, options>>

\* Requests for simulations that are overtaken by a rewrite of table t.
Overtake(t) ==
  [q \in Calls |-> IF call[q].pc = "store"
                  THEN [call[q] EXCEPT !.overtaken = @ \cup {t}] ELSE call[q]]

\* The transaction replaces ranges, charges and columns.
UpdateWrite(r) ==
  LET t == call[r].table IN
  /\ call[r].pc = "rewrite"
  /\ ~VersionTaken(call[r].row.service, call[r].row.version, t)
  /\ table' = [table EXCEPT ![t] = call[r].row]
  /\ call' = [Overtake(t) EXCEPT ![r] = NoCall]
  /\ UNCHANGED <<carriers, service, coverage, options>>

\* updateRateTableStatus: ranges are looked at before a table is activated.
TableStatusRead(r, t, st) ==
  /\ call[r] = NoCall
  /\ Exists(t)
  /\ st = "ACTIVE" => table[t].tariff.ranges # << >>
  /\ call' = [call EXCEPT ![r] = [pc |-> "status", table |-> t, status |-> st]]
  /\ UNCHANGED <<carriers, service, coverage, table, options>>

TableStatusWrite(r) ==
  /\ call[r].pc = "status"
  /\ table' = [table EXCEPT ![call[r].table].status = call[r].status]
  /\ call' = [call EXCEPT ![r] = NoCall]
  /\ UNCHANGED <<carriers, service, coverage, options>>

-----------------------------------------------------------------------------
(* Simulations *)

MatchesCoverage(s, route) ==
  \E c \in Coverages : /\ coverage[c] # NoRow
                       /\ coverage[c].service = s
                       /\ route \in coverage[c].area

\* The newest active table of a service that is valid on the ship date.
InForce(s, date) ==
  {t \in TablesOf(s) : /\ table[t].status = "ACTIVE"
                       /\ date \in table[t].tariff.valid}

RateTable(s, date) ==
  CHOOSE t \in InForce(s, date) :
    \A u \in InForce(s, date) : table[u].version <= table[t].version

\* Ranges come by priority, then by their start; the first that applies is used.
RateRange(tf, weight) ==
  LET fits == {i \in DOMAIN tf.ranges : Applies(tf.ranges[i], weight)}
      before(a, b) == \/ a.priority < b.priority
                      \/ (a.priority = b.priority /\ a.min <= b.min)
  IN tf.ranges[CHOOSE i \in fits : \A j \in fits : before(tf.ranges[i], tf.ranges[j])]

Eligible(s, load) ==
  LET weight == ChargeableWeight(load.packages, service[s].cubicFactor) IN
  /\ s \in carriers
  /\ service[s].status = "ACTIVE"
  /\ MatchesCoverage(s, load.route)
  /\ WithinLimits(service[s], weight)
  /\ InForce(s, load.date) # {}
  /\ \E i \in DOMAIN table[RateTable(s, load.date)].tariff.ranges :
       Applies(table[RateTable(s, load.date)].tariff.ranges[i], weight)

Candidate(s, load) ==
  LET t == RateTable(s, load.date)
      tf == table[t].tariff
      weight == ChargeableWeight(load.packages, service[s].cubicFactor)
  IN [service |-> s, table |-> t, version |-> table[t].version, tariff |-> tf,
      load |-> load, minimum |-> service[s].minimumValue,
      price |-> Calculate(service[s], RateRange(tf, weight), tf.charges, load)]

\* create: everything a simulation is priced from is read here; without a
\* candidate it is refused.
ReadServices(r, load) ==
  LET candidates == {Candidate(s, load) : s \in {q \in Services : Eligible(q, load)}} IN
  /\ call[r] = NoCall
  /\ candidates # {}
  /\ call' = [call EXCEPT ![r] = [pc |-> "store", candidates |-> candidates, overtaken |-> {}]]
  /\ UNCHANGED <<carriers, service, coverage, table, options>>

Cheapest(c, candidates) ==
  \A d \in candidates : c.price.totalPrice <= d.price.totalPrice

Fastest(c, candidates) ==
  \A d \in candidates : c.price.deadlineDays <= d.price.deadlineDays

Rewriting(t) == \E q \in Calls : call[q].pc = "rewrite" /\ call[q].table = t

Option(c, candidates, raced) ==
  [service |-> c.service, table |-> c.table, version |-> c.version,
   tariff |-> c.tariff, load |-> c.load, minimum |-> c.minimum, price |-> c.price,
   cheapest |-> Cheapest(c, candidates), fastest |-> Fastest(c, candidates),
   raced |-> raced]

\* The transaction that stores the simulation and its options.
StoreSimulation(r, m) ==
  /\ call[r].pc = "store"
  /\ options[m] = {}
  /\ options' = [options EXCEPT ![m] =
       {Option(c, call[r].candidates, c.table \in call[r].overtaken \/ Rewriting(c.table)) :
          c \in call[r].candidates}]
  /\ call' = [call EXCEPT ![r] = NoCall]
  /\ UNCHANGED <<carriers, service, coverage, table>>

\* A request is refused by a check, by the unique key, or fails half-way.
Reject(r) ==
  /\ call[r] # NoCall
  /\ call' = [call EXCEPT ![r] = NoCall]
  /\ UNCHANGED <<carriers, service, coverage, table, options>>

-----------------------------------------------------------------------------
Administrate(r) ==
  \/ \E s \in Services, st \in Statuses, tf \in Tariffs : CreateCheck(r, s, st, tf)
  \/ \E t \in Tables : VersionRead(r, t) \/ CreateInsert(r, t)
  \/ VersionNumber(r)
  \/ \E t \in Tables, s \in Services, st \in Statuses, tf \in Tariffs :
       UpdateCheck(r, t, s, st, tf)
  \/ UpdateWrite(r)
  \/ \E t \in Tables, st \in {"ACTIVE", "INACTIVE"} : TableStatusRead(r, t, st)
  \/ TableStatusWrite(r)

Simulate(r) ==
  \/ \E load \in Loads : ReadServices(r, load)
  \/ \E m \in Sims : StoreSimulation(r, m)

FreightNext ==
  \/ \E s \in Services : UpdateCarrierStatus(s)
  \/ \E s \in Services, offer \in Offers : SaveService(s, offer)
  \/ \E c \in Coverages, s \in Services, a \in Areas : SaveCoverage(c, s, a)
  \/ \E r \in Calls : Administrate(r) \/ Simulate(r) \/ Reject(r)

FreightSpec == FreightInit /\ [][FreightNext]_freightVars

-----------------------------------------------------------------------------
(* Properties *)

\* An option goes on saying what its rate table says: the table and version it
\* names still hold the tariff it was priced from (updateRateTable refuses used
\* tables "para preservar o historico"), unless the simulation overlapped an
\* update of that table, which counted before the options were stored.
HistoryPreserved ==
  \A o \in AllOptions :
    ~o.raced => /\ Exists(o.table)
                /\ table[o.table].tariff = o.tariff
                /\ table[o.table].version = o.version

\* Two ranges of a tariff that share the bound w.
TouchAt(a, b, w) == (a.max = w /\ b.min = w) \/ (b.max = w /\ a.min = w)

\* A weight has one price in a tariff: of the ranges that validateRanges let in,
\* one applies to the weight of an option, and a second one only where the two
\* were rounded to a common bound after the check and the load weighs just
\* that. Nowhere else does the priority that ranges are searched by decide.
OneRangeApplies ==
  \A o \in AllOptions :
    LET ranges == o.tariff.ranges
        weight == o.price.weight
        fits == {i \in DOMAIN ranges : Applies(ranges[i], weight)}
    IN /\ fits # {}
       /\ \A i, j \in fits : i = j \/ TouchAt(ranges[i], ranges[j], weight)

\* What a charge adds to a price whose freight is f.
Share(charge, f, cargoValue) ==
  LET basis == IF charge.type \in {"AD_VALOREM", "INSURANCE"} THEN cargoValue ELSE f
      amount == charge.fixed + Scale(basis * charge.percentage, 1000000)
  IN IF charge.type = "DISCOUNT" THEN -amount ELSE amount

\* The price of an option is its freight, at least the minimum of the service,
\* plus the charges on that freight and on the cargo: it can be recomputed from
\* the table the option names and the minimum it was priced with, whatever the
\* order calculate works in. Without a discount it is never below the minimum.
PriceExplained ==
  \A o \in AllOptions :
    LET range == RateRange(o.tariff, o.price.weight)
        freight == range.base + Scale((o.price.weight - range.min) * range.perKg, 100000)
        paid == Max({freight, o.minimum})
        charges == o.tariff.charges
    IN /\ o.price.totalPrice =
            paid + MapThenSumSet(LAMBDA i : Share(charges[i], paid, o.load.cargoValue), DOMAIN charges)
       /\ (\A i \in DOMAIN charges : charges[i].type # "DISCOUNT")
            => o.price.totalPrice >= o.minimum

=============================================================================
