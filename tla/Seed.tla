-------------------------------- MODULE Seed --------------------------------
(***************************************************************************)
(* The demonstration seed (prisma/seed.ts), which the api container runs   *)
(* at every start: it looks up the demonstration tenants, removes them in  *)
(* one transaction and makes each of the two again in one of its own.      *)
(* Runs may overlap, a run may be killed, and the API works on meanwhile.  *)
(*                                                                         *)
(* A tenant is the set of tables that hold rows of it, with the tenants    *)
(* its users came from; the rows the seed makes are modelled as far as     *)
(* they refer to one another. deleteMany by tenant locks the range of the  *)
(* tenant in the index it reads, so writers wait for the removal: each     *)
(* transaction is one step. Dates are hours from now, weights grams,       *)
(* prices thousandths of a cent.                                           *)
(***************************************************************************)
EXTENDS Shipments, Pricing, CheckDigits, FiniteSets

CONSTANTS
  SeedAllowed, \* not in production, or ALLOW_DEMO_SEED=true
  Runs,        \* executions of the seed
  MaxInserts   \* bound: writes of the API meanwhile

VARIABLES
  db,       \* a tenant by its slug: who made it, the tables with rows, and the
            \* tenants that hold import jobs made by users who are here now
  run,      \* an execution: how far it is, and the tenants it has found
  batch,    \* history: the executions since none was under way
  clean,    \* history: none of them was killed
  taken,    \* history: the API gave away a demonstration slug during them
  inserts   \* writes of the API so far

seedVars == <<db, run, batch, clean, taken, inserts>>

DemoSlugs == {"alpha-logistics", "beta-transportes", "demo-logistics", "satellite-logistics"}

Slugs == DemoSlugs \cup {"other"}

Made(by, rows) == [by |-> by, rows |-> rows, left |-> {}]

NoTenant == Made("none", {})

-----------------------------------------------------------------------------
(* The foreign keys (schema.prisma and the migrations) *)

\* The tables whose rows a delete takes along, and those whose rows refuse it.
CascadesTo ==
  [Tenant |-> {"TenantSettings", "TenantOnboarding", "Branch", "User", "OAuthAccount",
               "PasswordResetToken", "UserInvitation", "MfaRecoveryCode", "MfaChallenge",
               "RefreshToken", "Customer", "CustomerAddress", "Carrier", "CarrierService",
               "CarrierCoverage", "FreightRateTable", "FreightRateRange",
               "FreightAdditionalCharge", "FreightSimulation", "Shipment", "TrackingEvent",
               "ImportJob", "ImportRowResult", "Insight"},
   User |-> {"OAuthAccount", "PasswordResetToken", "MfaRecoveryCode", "MfaChallenge", "RefreshToken"},
   Customer |-> {"CustomerAddress"},
   Carrier |-> {"CarrierService"},
   CarrierService |-> {"CarrierCoverage", "FreightRateTable"},
   CarrierCoverage |-> {"FreightRateTableCoverage"},
   FreightRateTable |-> {"FreightRateRange", "FreightAdditionalCharge", "FreightRateTableCoverage"},
   FreightSimulation |-> {"FreightSimulationAddress", "FreightSimulationPackage",
                          "FreightSimulationOption"},
   FreightSimulationOption |-> {"FreightSimulationPriceComponent"},
   Shipment |-> {"ShipmentAddress", "ShipmentPackage", "TrackingEvent"},
   ImportJob |-> {"ImportRowResult"}]

RestrictedBy ==
  [User |-> {"UserInvitation", "ImportJob"},
   Carrier |-> {"FreightSimulationOption", "Shipment"},
   CarrierService |-> {"FreightSimulationOption", "Shipment"},
   FreightRateTable |-> {"FreightSimulationOption"},
   FreightRateRange |-> {"FreightSimulationOption"},
   FreightSimulation |-> {"Shipment"},
   FreightSimulationOption |-> {"Shipment"}]

Referring(keys, t) == IF t \in DOMAIN keys THEN keys[t] ELSE {}


-----------------------------------------------------------------------------
(* removeDemoTenants *)

RemovalOrder ==
  <<"AuditLog", "Insight", "ImportRowResult", "ImportJob", "TrackingEvent", "ShipmentPackage",
    "ShipmentAddress", "Shipment", "FreightSimulationPriceComponent", "FreightSimulationOption",
    "FreightSimulationPackage", "FreightSimulationAddress", "FreightSimulation",
    "FreightAdditionalCharge", "FreightRateTableCoverage", "FreightRateRange",
    "FreightRateTable", "CarrierCoverage", "CarrierService", "Carrier", "CustomerAddress",
    "Customer", "RefreshToken", "OAuthAccount", "OAuthState", "MfaRecoveryCode", "MfaChallenge",
    "PasswordResetToken", "UserInvitation", "User", "TenantOnboarding", "TenantSettings",
    "Branch", "Tenant">>

Tables == {RemovalOrder[i] : i \in DOMAIN RemovalOrder}

\* No chain of keys that cascade is longer than four.
TakenAlong ==
  LET grow(ts, k) == ts \cup UNION {Referring(CascadesTo, u) : u \in ts}
  IN [t \in Tables |-> FoldLeft(grow, {t}, <<1, 2, 3, 4>>)]

Parents ==
  [t \in Tables |-> {p \in Tables : t \in Referring(CascadesTo, p) \cup Referring(RestrictedBy, p)}]

\* deleteMany on one table: refused by a row that restricts one it takes along.
DeleteMany(left, t) ==
  LET gone == TakenAlong[t] \cap left.rows
      refused == \E u \in gone : Referring(RestrictedBy, u) \cap left.rows # {}
  IN IF ~left.ok \/ t \notin left.rows THEN left
     ELSE IF refused THEN [left EXCEPT !.ok = FALSE]
     ELSE [left EXCEPT !.rows = @ \ gone]


RemoveRows(rows) == FoldLeft(DeleteMany, [ok |-> TRUE, rows |-> rows], RemovalOrder)

-----------------------------------------------------------------------------
(* The demonstration data. Lists count from 0, as the code's do. *)

DemoUser(branch, role, status) == [branch |-> branch, role |-> role, status |-> status]

Route(origin, destination) == [origin |-> origin, destination |-> destination]

AlphaTenant ==
  [slug |-> "alpha-logistics", documentBase |-> <<1, 2, 4, 5, 7, 8, 9, 6, 0, 0, 0, 1>>,
   branches |-> 5, customers |-> 6, carriers |-> 5,
   users |-> <<DemoUser(0, "ADMIN", "ACTIVE"), DemoUser(0, "MANAGER", "ACTIVE"),
               DemoUser(1, "OPERATOR", "ACTIVE"), DemoUser(2, "MANAGER", "ACTIVE"),
               DemoUser(3, "OPERATOR", "ACTIVE"), DemoUser(4, "OPERATOR", "DISABLED"),
               DemoUser(0, "ADMIN", "ACTIVE"), DemoUser(1, "MANAGER", "ACTIVE"),
               DemoUser(2, "OPERATOR", "ACTIVE")>>,
   routes |-> <<Route(0, 2), Route(0, 3), Route(2, 3), Route(2, 4), Route(1, 4), Route(4, 0)>>]

BetaTenant ==
  [slug |-> "beta-transportes", documentBase |-> <<1, 9, 8, 7, 6, 5, 4, 3, 0, 0, 0, 1>>,
   branches |-> 5, customers |-> 6, carriers |-> 5,
   users |-> <<DemoUser(0, "ADMIN", "ACTIVE"), DemoUser(1, "MANAGER", "ACTIVE"),
               DemoUser(2, "OPERATOR", "ACTIVE"), DemoUser(3, "MANAGER", "ACTIVE"),
               DemoUser(4, "OPERATOR", "ACTIVE"), DemoUser(4, "OPERATOR", "DISABLED")>>,
   routes |-> <<Route(0, 1), Route(0, 2), Route(1, 2), Route(1, 3), Route(3, 4), Route(4, 0)>>]

\* serviceCatalog, alike for every carrier: economic, express and by air.
ServiceCatalog == <<[deadline |-> 5, level |-> 1], [deadline |-> 3, level |-> 3],
                    [deadline |-> 2, level |-> 5]>>

\* at: a position outside the list throws, and the transaction of the tenant fails.
At(n, index) == index \in 0 .. n - 1

\* The CNPJ of the company, of its customers and of its carriers.
CompanyDocument(data) == Cnpj(data.documentBase)

CustomerDocuments(data) ==
  [i \in 0 .. data.customers - 1 |->
     Cnpj(SubSeq(data.documentBase, 1, 8) \o <<0, 0, (i + 11) \div 10, (i + 11) % 10>>)]

CarrierDocuments(data) ==
  [i \in 0 .. data.carriers - 1 |-> Cnpj(SubSeq(data.documentBase, 1, 7) \o <<3, 0, 0, 0, i>>)]

SeedCompany == {"Tenant", "TenantSettings", "TenantOnboarding"}

SeedBranches == {"Branch"}

SeedUsers(data) ==
  [ok |-> /\ \A i \in DOMAIN data.users : At(data.branches, data.users[i].branch)
          /\ At(Len(data.users), 0) /\ At(Len(data.users), 1),
   rows |-> {"User"}]

\* Two linked accounts, the tokens of three users, and two invitations, one of
\* them accepted by the fourth user.
SeedIdentity(data) ==
  [ok |-> At(Len(data.users), 3),
   rows |-> {"OAuthAccount", "RefreshToken", "UserInvitation"}]

\* @@unique([tenantId, document]) of customers, and so of carriers below.
SeedCustomers(data) ==
  [ok |-> IsInjective(CustomerDocuments(data)), rows |-> {"Customer", "CustomerAddress"}]

\* A service of the fifth carrier is active only if it is its first.
Services(data) ==
  [k \in 1 .. 3 * data.carriers |->
     [carrier |-> (k - 1) \div 3, seed |-> ServiceCatalog[((k - 1) % 3) + 1],
      active |-> (k - 1) \div 3 # 4 \/ (k - 1) % 3 = 0]]

\* The services with two routes covered each, an old table and the current one.
SeedCarriers(data) ==
  [ok |-> /\ IsInjective(CarrierDocuments(data))
          /\ \A i \in DOMAIN data.routes :
               At(data.branches, data.routes[i].origin) /\ At(data.branches, data.routes[i].destination),
   rows |-> {"Carrier", "CarrierService", "CarrierCoverage"}]

\* createRateTableWithDetails: the ranges of every table, and four charges.
RateRanges == <<[min |-> 1, max |-> 50000], [min |-> 50001, max |-> 200000],
                [min |-> 200001, max |-> 1200000]>>

CreateRateTableWithDetails == {"FreightRateTable", "FreightRateRange", "FreightAdditionalCharge"}

\* Every table is tied to the first coverage of its service, which has some.
SeedTableCoverages == {"FreightRateTableCoverage"}

ChargeableOf(i) == IF 18000 + 11750 * i >= 24000 + 8100 * i THEN 18000 + 11750 * i ELSE 24000 + 8100 * i

\* The simulations are five days apart.
SimulatedAt(i) == -24 * (88 - 5 * i)

\* The options of a simulation: three of the active services, from position i % 4 on.
SeedOptions(data, i) ==
  LET active == SelectSeq(Services(data), LAMBDA s : s.active)
      chosen == SubSeq(active, (i % 4) + 1, (i % 4) + 3)
      total(k) == 7000000 + ChargeableOf(i) * (145 + 10 * chosen[k].seed.level)
                    + (k - 1) * 2200000 + i * 400000
      first(better(_, _)) ==
        CHOOSE k \in DOMAIN chosen : \A j \in DOMAIN chosen :
          ~better(j, k) /\ (j < k => better(k, j))
      cheapest == first(LAMBDA j, k : total(j) < total(k))
      fastest == first(LAMBDA j, k : chosen[j].seed.deadline < chosen[k].seed.deadline)
      pick == IF i % 3 = 0 THEN cheapest ELSE IF i % 3 = 1 THEN fastest ELSE 1
  IN [k \in DOMAIN chosen |->
        [total |-> total(k), days |-> chosen[k].seed.deadline, carrier |-> chosen[k].carrier,
         cheapest |-> k = cheapest, fastest |-> k = fastest, selected |-> k = pick,
         selectedAt |-> IF k = pick THEN SimulatedAt(i) + 2 ELSE 1]]

\* Faulty variant: what the parts miss of the price is added, what they have too
\* much is not taken off.
AdjustmentUp(total, subtotal) == IF total >= 1000 * subtotal THEN (total - 1000 * subtotal) \div 1000 ELSE 0

\* What the parts of a price miss, or have too much.
Adjustment(total, subtotal) == (total - 1000 * subtotal + 500) \div 1000

\* createPriceComponents, in cents. Math.round takes a half up; that the code
\* computes with binary fractions may move a half by a cent.
CreatePriceComponents(total, weight, cargoValue) ==
  LET round(n, d) == (2 * n + d) \div (2 * d)
      insurance == round(cargoValue * 12, 10000)
      parts == <<round(total * 21, 50000), round(weight * 155, 1000),
                 round(cargoValue * 35, 10000), round(total * 8, 100000),
                 round(cargoValue * 18, 10000), IF insurance >= 800 THEN insurance ELSE 800>>
      subtotal == FoldLeft(LAMBDA sum, p : sum + p, 0, parts)
  IN Append(parts, Adjustment(total, subtotal))

\* Fourteen simulations; the last one failed and has no option.
SeedSimulations(data) ==
  [i \in 0 .. 13 |->
     [status |-> IF i = 13 THEN "FAILED" ELSE "CALCULATED",
      createdAt |-> SimulatedAt(i),
      createdBy |-> LET k == (i % Len(data.users)) + 1
                    IN IF data.users[k].status = "ACTIVE" THEN k ELSE 1,
      cargoValue |-> 125000 + 74000 * i,
      options |-> IF i = 13 THEN << >> ELSE SeedOptions(data, i)]]

SimulationTables ==
  {"FreightSimulation", "FreightSimulationAddress", "FreightSimulationPackage",
   "FreightSimulationOption", "FreightSimulationPriceComponent"}

SeedStatuses ==
  <<"CREATED", "PICKED_UP", "IN_TRANSIT", "OUT_FOR_DELIVERY", "DELIVERED", "CANCELED",
    "DELIVERY_FAILED", "RETURNING", "RETURNED">>

BaseEvents ==
  <<"CREATED", "PICKUP_SCHEDULED", "PICKED_UP", "IN_TRANSIT", "ARRIVED_AT_HUB", "OUT_FOR_DELIVERY">>

TerminalEvents(final) ==
  CASE final \in {"DELIVERED", "CANCELED", "DELIVERY_FAILED"} -> <<final>>
    [] final = "RETURNING" -> <<"DELIVERY_FAILED", "RETURNING">>
    [] final = "RETURNED" -> <<"DELIVERY_FAILED", "RETURNING", "RETURNED">>
    [] OTHER -> << >>

\* How many base events lead to a final status.
Cutoff(final) ==
  IF \E k \in DOMAIN BaseEvents : BaseEvents[k] = final
  THEN CHOOSE k \in DOMAIN BaseEvents : BaseEvents[k] = final
  ELSE Len(BaseEvents)

\* createTrackingTimeline: an event every eight hours, and two without a status.
CreateTrackingTimeline(final, createdAt) ==
  LET all == SubSeq(BaseEvents, 1, Cutoff(final)) \o TerminalEvents(final) \o <<"none", "none">>
  IN [k \in DOMAIN all |-> [status |-> all[k], occurredAt |-> createdAt + 8 * (k - 1)]]

\* The first nine selected options are shipped, each with a status of its own, and
\* dated as the simulation is; unlike the API, a returned shipment gets a
\* deliveredAt too.
SeedShipments(data) ==
  LET sims == SeedSimulations(data)
      chosen(i) == CHOOSE o \in Range(sims[i].options) : o.selected
  IN [i \in 0 .. 8 |->
        [simulation |-> i, status |-> SeedStatuses[i + 1], createdAt |-> sims[i].createdAt,
         selectedAt |-> chosen(i).selectedAt,
         deliveredAt |-> IF SeedStatuses[i + 1] \in {"DELIVERED", "RETURNED"}
                         THEN sims[i].createdAt + 24 * (chosen(i).days + (i % 2)) ELSE 1,
         events |-> CreateTrackingTimeline(SeedStatuses[i + 1], sims[i].createdAt)]]

ShipmentTables == {"Shipment", "ShipmentAddress", "ShipmentPackage", "TrackingEvent"}

\* createImportHistory: no job of it is in the queue, the one PROCESSING either.
CreateImportHistory ==
  LET job(status, total, success, errors, skipped) ==
        [status |-> status, total |-> total, success |-> success, errors |-> errors,
         skipped |-> skipped,
         processed |-> IF status = "PROCESSING" THEN (total * 62) \div 100 ELSE total]
  IN <<job("COMPLETED", 19, 18, 0, 1), job("COMPLETED", 26, 21, 3, 2), job("COMPLETED", 8, 8, 0, 0),
       job("FAILED", 9, 2, 6, 1), job("PROCESSING", 50, 31, 1, 0)>>

\* createInsights names two carriers, three branches and a customer.
CreateInsights(data) ==
  [ok |-> /\ At(data.carriers, 1) /\ At(data.carriers, 3) /\ At(data.customers, 0)
          /\ At(data.branches, 0) /\ At(data.branches, 2) /\ At(data.branches, 3),
   rows |-> {"Insight"}]

\* createAuditTrail: 36 entries, two days apart.
CreateAuditTrail == [i \in 0 .. 35 |-> -24 * (89 - 2 * i)]

-----------------------------------------------------------------------------
(* seedTenant *)

DataOf(slug) == IF slug = "alpha-logistics" THEN AlphaTenant ELSE BetaTenant

SeededTables ==
  [slug \in {"alpha-logistics", "beta-transportes"} |->
     LET data == DataOf(slug)
     IN SeedCompany \cup SeedBranches \cup SeedUsers(data).rows \cup SeedIdentity(data).rows
          \cup SeedCustomers(data).rows \cup SeedCarriers(data).rows \cup CreateRateTableWithDetails
          \cup SeedTableCoverages \cup SimulationTables \cup ShipmentTables
          \cup {"ImportJob", "ImportRowResult", "AuditLog"} \cup CreateInsights(data).rows]

Seedable(data) ==
  /\ SeedUsers(data).ok /\ SeedIdentity(data).ok
  /\ SeedCustomers(data).ok /\ SeedCarriers(data).ok /\ CreateInsights(data).ok

UnderWay(r) == run[r].pc \in {"remove", "alpha-logistics", "beta-transportes"}

SetRun(r, pc, found) == run' = [run EXCEPT ![r] = [pc |-> pc, found |-> found]]

\* main refuses in production, and removeDemoTenants looks the tenants up ...
FindDemoTenants(r) ==
  /\ SeedAllowed
  /\ run[r].pc = "idle"
  /\ SetRun(r, "remove", {[slug |-> s, by |-> db[s].by] : s \in {t \in DemoSlugs : db[t] # NoTenant}})
  /\ IF \E q \in Runs : UnderWay(q)
     THEN batch' = batch \cup {r} /\ UNCHANGED <<clean, taken>>
     ELSE batch' = {r} /\ clean' = TRUE /\ taken' = FALSE
  /\ UNCHANGED <<db, inserts>>

\* ... and removes by their ids those it has found; a refusal ends the run. The
\* users are refused by the import jobs they have left in a tenant that stays.
RemoveDemoTenants(r) ==
  LET found == {s \in DemoSlugs : [slug |-> s, by |-> db[s].by] \in run[r].found}
  IN /\ run[r].pc = "remove"
     /\ IF \A s \in found : RemoveRows(db[s].rows).ok /\ db[s].left \subseteq found
        THEN /\ db' = [s \in Slugs |-> IF s \in found THEN NoTenant
                                      ELSE [db[s] EXCEPT !.left = @ \ found]]
             /\ SetRun(r, "alpha-logistics", {})
        ELSE SetRun(r, "failed", {}) /\ UNCHANGED db
     /\ UNCHANGED <<batch, clean, taken, inserts>>

\* seedTenant fails on a slug that is taken and on data that do not fit.
SeedTenant(r, slug, next) ==
  /\ run[r].pc = slug
  /\ IF db[slug] = NoTenant /\ Seedable(DataOf(slug))
     THEN /\ db' = [db EXCEPT ![slug] = Made(r, SeededTables[slug])]
          /\ SetRun(r, next, {})
     ELSE SetRun(r, "failed", {}) /\ UNCHANGED db
  /\ UNCHANGED <<batch, clean, taken, inserts>>

\* The container stops, or a transaction runs into its time limit.
KillRun(r) ==
  /\ UnderWay(r)
  /\ SetRun(r, "failed", {})
  /\ clean' = FALSE
  /\ UNCHANGED <<db, batch, taken, inserts>>

\* The API makes a row whose keys hold.
ApiInsert(s, t) ==
  /\ inserts < MaxInserts
  /\ db[s] # NoTenant
  /\ t \in Tables \ db[s].rows
  /\ Parents[t] \subseteq db[s].rows
  /\ db' = [db EXCEPT ![s].rows = @ \cup {t}]
  /\ inserts' = inserts + 1
  /\ UNCHANGED <<run, batch, clean, taken>>

\* AuthService.registerTenant, open to everybody: a slug made of the company's
\* name is free when it is looked up, and unique when the tenant is made.
RegisterTenantAs(s) ==
  /\ inserts < MaxInserts
  /\ db[s] = NoTenant
  /\ db' = [db EXCEPT ![s] = Made("api",
              {"Tenant", "TenantSettings", "TenantOnboarding", "Branch", "User", "AuditLog"})]
  /\ inserts' = inserts + 1
  /\ taken' = (taken \/ (s \in DemoSlugs /\ \E r \in Runs : UnderWay(r)))
  /\ UNCHANGED <<run, batch, clean>>

\* completeOAuthRegistration moves a user of tenant o to s; the import jobs the
\* user has made stay behind.
MoveUser(o, s) ==
  /\ inserts < MaxInserts
  /\ o # s /\ db[s] # NoTenant
  /\ {"User", "ImportJob"} \subseteq db[o].rows
  /\ db' = [db EXCEPT ![s].rows = @ \cup {"User"}, ![s].left = @ \cup {o}]
  /\ inserts' = inserts + 1
  /\ UNCHANGED <<run, batch, clean, taken>>

\* Tenants of an earlier time: one that has imported rows and priced simulations.
EarlierRows ==
  {"Tenant", "User", "ImportJob", "Carrier", "CarrierService", "CarrierCoverage",
   "FreightRateTable", "FreightRateRange", "FreightSimulation", "FreightSimulationOption"}

SeedInit ==
  /\ db \in [Slugs -> {NoTenant, Made("earlier", EarlierRows)}]
  /\ db["satellite-logistics"] = NoTenant
  /\ db["demo-logistics"] # NoTenant /\ db["other"] # NoTenant
  /\ run = [r \in Runs |-> [pc |-> "idle", found |-> {}]]
  /\ batch = {} /\ clean = TRUE /\ taken = FALSE /\ inserts = 0

SeedNext ==
  \/ \E r \in Runs :
       \/ FindDemoTenants(r) \/ RemoveDemoTenants(r) \/ KillRun(r)
       \/ SeedTenant(r, "alpha-logistics", "beta-transportes")
       \/ SeedTenant(r, "beta-transportes", "done")
  \/ \E s \in Slugs, t \in Tables : ApiInsert(s, t)
  \/ \E s \in Slugs : RegisterTenantAs(s)
  \/ \E o, s \in Slugs : MoveUser(o, s)

-----------------------------------------------------------------------------
(* Properties *)

\* A user of a demonstration tenant has import jobs in another tenant.
JobsElsewhere == \E s \in DemoSlugs : db[s].left # {}


\* The seeded data that tell one story.
Coherent ==
  {data \in {AlphaTenant, BetaTenant} :
    LET sims == SeedSimulations(data)
        shipments == SeedShipments(data)
    IN /\ \A i \in DOMAIN sims :
            LET chosen == {k \in DOMAIN sims[i].options : sims[i].options[k].selected}
            IN /\ Cardinality(chosen) = (IF sims[i].status = "CALCULATED" THEN 1 ELSE 0)
               /\ data.users[sims[i].createdBy].status = "ACTIVE"
               /\ \A k \in DOMAIN sims[i].options :
                    LET o == sims[i].options[k]
                        parts == CreatePriceComponents(o.total, ChargeableOf(i), sims[i].cargoValue)
                    IN /\ FoldLeft(LAMBDA sum, p : sum + p, 0, parts) - (o.total \div 1000) \in -1 .. 1
                       /\ \A j \in DOMAIN sims[i].options :
                            /\ o.cheapest => o.total <= sims[i].options[j].total
                            /\ o.fastest => o.days <= sims[i].options[j].days
       /\ \A i \in DOMAIN shipments :
            LET s == shipments[i]
                told == SelectSeq(s.events, LAMBDA e : e.status # "none")
            IN /\ sims[s.simulation].status = "CALCULATED"
               /\ told[Len(told)].status = s.status
               /\ \A k \in 2 .. Len(told) :
                    \/ told[k].status = "CANCELED"
                    \/ told[k].status \in Transitions[told[k - 1].status]
               /\ \A k \in DOMAIN s.events :
                    /\ s.events[k].occurredAt <= 0
                    /\ k > 1 => s.events[k].occurredAt >= s.selectedAt
                    /\ s.events[k].status = "OUT_FOR_DELIVERY" /\ s.deliveredAt <= 0
                         => s.events[k].occurredAt <= s.deliveredAt
               /\ s.selectedAt \in sims[s.simulation].createdAt .. 0
               /\ s.status = "DELIVERED" => s.deliveredAt <= 0
       /\ \A k \in DOMAIN CreateImportHistory :
            LET j == CreateImportHistory[k]
            IN j.status # "PROCESSING" => j.processed = j.success + j.errors + j.skipped
       /\ ValidRanges(RateRanges)
       /\ \A d \in {CompanyDocument(data)} \cup Range(CustomerDocuments(data)) \cup Range(CarrierDocuments(data)) :
            IsValidDocument(d) /\ ValidateDocument(d)
       /\ Range(CreateAuditTrail) \subseteq -24 * 90 .. 0}

\* The seeded rows tell one story: a simulation that was calculated has one option
\* selected and its price is, to the cent, the sum of its parts; a shipment is of
\* such a simulation, its last status event names its status, each event but a
\* cancellation may follow the one before by the rules of the API, an option is
\* selected once it is calculated, the goods move once it is selected and arrive once
\* they were out for delivery, and no event is still to come (but the shipment and
\* its first event are dated as the simulation is, two hours before an option of it
\* was selected); an import that is over accounts
\* for each of its rows; the ranges would pass validateRanges, and each document
\* both the import of customers and CustomersService.
SeededStory ==
  \A data \in {AlphaTenant, BetaTenant} : db[data.slug].by \in Runs => data \in Coherent
=============================================================================
