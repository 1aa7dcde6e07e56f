-------------------------- MODULE LogisticsProofs --------------------------
(***************************************************************************)
(* Proofs about Freight, Catalog and Storage, each for every value of its  *)
(* constants: any number of services, tables and simulations; of branches, *)
(* customers, carriers and runs of a file; of jobs, keys and uploads; and  *)
(* of requests that overlap.                                               *)
(*                                                                         *)
(* What an option names is still what it was priced from (HistoryKept),    *)
(* and a weight has one price in a tariff, but where the columns made two  *)
(* ranges touch (PricesAreUnique). An import that does not update leaves   *)
(* what is there alone (ExistingKept), it adds an address to a customer    *)
(* once (OneImportedAddress), and an owner has one main place unless two   *)
(* changes of the flag overlapped (OneMainPlace). A name never points to   *)
(* half a file (FilesAreWhole).                                            *)
(*                                                                         *)
(* What the amounts of a price add up to is a fold over the charges, which *)
(* is left to TLC (PriceExplained).                                        *)
(***************************************************************************)
EXTENDS Freight, Catalog, Storage, FiniteSetTheorems, WellFoundedInduction, TLAPS

-----------------------------------------------------------------------------
(* Rate tables and simulations *)

\* Tariffs that validateRanges lets in, as they are stored.
ValidTariffs == {TariffRow(tf) : tf \in {e \in Tariffs : ValidRanges(e.ranges)}}

StatusesOfTables == (Statuses \cup {"ACTIVE", "INACTIVE"}) \ {"none"}

Rows ==
  [service : Services, version : Versions \cup {1}, status : StatusesOfTables,
   tariff : ValidTariffs]

\* What a request holds between its queries.
Holding(q) ==
  \/ q = NoCall
  \/ q \in [pc : {"insert", "number"}, row : Rows]
  \/ q \in [pc : {"rewrite"}, table : Tables, row : Rows]
  \/ q \in [pc : {"status"}, table : Tables, status : {"ACTIVE", "INACTIVE"}]
  \/ q = [pc |-> "store", candidates |-> q.candidates, overtaken |-> q.overtaken]

\* A service has the cubic factor it was entered with.
IsOffered(row) == row = NoRow \/ \E o \in Offers : row.cubicFactor = o.cubicFactor

FreightTypeOK ==
  /\ service = [s \in Services |-> service[s]]
  /\ \A s \in Services : IsOffered(service[s])
  /\ table \in [Tables -> Rows \cup {NoRow}]
  /\ options = [m \in Sims |-> options[m]]
  /\ call = [r \in Calls |-> call[r]]
  /\ \A r \in Calls : Holding(call[r])
  /\ \A r \in Calls : call[r].pc \in {"rewrite", "status"} => Exists(call[r].table)

\* The ranges that apply to a weight: one, or some that touch there.
Fits(ranges, weight) == {i \in DOMAIN ranges : Applies(ranges[i], weight)}

OneRange(tf, weight) ==
  /\ Fits(tf.ranges, weight) # {}
  /\ \A i, j \in Fits(tf.ranges, weight) : i = j \/ TouchAt(tf.ranges[i], tf.ranges[j], weight)

\* The table still says what a candidate or an option was priced from.
Says(o) ==
  /\ o.table \in Tables /\ Exists(o.table)
  /\ table[o.table].tariff = o.tariff
  /\ table[o.table].version = o.version

\* Candidates were priced by a range of their own, and are still true unless a
\* rewrite of their table has overtaken the request that holds them.
CandidatesSound ==
  \A r \in Calls : call[r].pc = "store" =>
    \A c \in call[r].candidates :
      /\ OneRange(c.tariff, c.price.weight)
      /\ c.table \notin call[r].overtaken => Says(c)

OptionsSound == \A o \in AllOptions : OneRange(o.tariff, o.price.weight) /\ (~o.raced => Says(o))

\* updateRateTable saw no option of the table: those it has are raced.
RewritesCounted ==
  \A r \in Calls : call[r].pc = "rewrite" =>
    \A o \in AllOptions : o.table = call[r].table => o.raced

FInv == FreightTypeOK /\ CandidatesSound /\ OptionsSound /\ RewritesCounted

-----------------------------------------------------------------------------
(* The newest table of a service *)

\* The versions of tables are bounded, so that one of them is the newest.
LEMMA LargestExists ==
  ASSUME NEW n \in Nat, NEW V, V \subseteq 1..n, V # {}
  PROVE  \E v \in V : \A w \in V : w <= v
<1> DEFINE T == {n - v : v \in V}
<1>1. T \subseteq Nat /\ T # {}
  <2>1. \A v \in V : n - v \in Nat
    OBVIOUS
  <2>2. T # {}
    BY Zenon
  <2> QED
    BY <2>1, <2>2, Zenon
<1>2. PICK x \in T : \A y \in T : ~ (<<y, x>> \in OpToRel(<, Nat))
  BY <1>1, NatLessThanWellFounded, WFMin, Zenon
<1>3. \A y \in T : ~ (y < x)
  BY <1>1, <1>2 DEF OpToRel
<1>4. PICK v \in V : x = n - v
  OBVIOUS
<1>5. \A w \in V : w <= v
  <2> TAKE w \in V
  <2>1. n - w \in T /\ n - v \in T
    OBVIOUS
  <2>2. ~ (n - w < n - v)
    BY <1>3, <1>4, <2>1
  <2> QED
    BY <2>2
<1> QED
  BY <1>5

LEMMA NewestInForce ==
  ASSUME FreightTypeOK, NEW s, NEW d, InForce(s, d) # {}
  PROVE  /\ RateTable(s, d) \in InForce(s, d)
         /\ InForce(s, d) \subseteq Tables
         /\ \A t \in InForce(s, d) : table[t] \in Rows
<1>1. Cardinality(Tables) \in Nat
  BY InputsAssumption, FS_CardinalityType
<1>2. InForce(s, d) \subseteq Tables /\ \A t \in InForce(s, d) : table[t] \in Rows
  BY DEF InForce, TablesOf, Exists, FreightTypeOK
<1> DEFINE V == {table[t].version : t \in InForce(s, d)}
<1>3. V \subseteq 1..(Cardinality(Tables) + 1) /\ V # {}
  <2>1. \A t \in InForce(s, d) : table[t].version \in 1..(Cardinality(Tables) + 1)
    BY <1>1, <1>2 DEF Rows, Versions
  <2>2. V # {}
    BY Zenon
  <2> QED
    BY <2>1, <2>2
<1>4. PICK v \in V : \A w \in V : w <= v
  <2> HIDE DEF V
  <2>1. PICK n \in Nat : n = Cardinality(Tables) + 1
    BY <1>1
  <2> QED
    BY <1>3, <2>1, LargestExists
<1>5. \E t \in InForce(s, d) : \A u \in InForce(s, d) : table[u].version <= table[t].version
  BY <1>4
<1> QED
  BY <1>2, <1>5 DEF RateTable

-----------------------------------------------------------------------------
(* Types *)

LEMMA HoldingStep ==
  ASSUME FreightTypeOK, NEW r \in Calls, NEW x, Holding(x), call' = [call EXCEPT ![r] = x]
  PROVE  /\ call' = [q \in Calls |-> call'[q]]
         /\ call'[r] = x
         /\ \A q \in Calls \ {r} : call'[q] = call[q]
         /\ \A q \in Calls : Holding(call'[q])
<1>1. call' = [q \in Calls |-> IF q = r THEN x ELSE call[q]]
  BY DEF FreightTypeOK
<1>2. call'[r] = x /\ \A q \in Calls \ {r} : call'[q] = call[q]
  BY <1>1
<1>3. call' = [q \in Calls |-> call'[q]]
  BY <1>1
<1>4. \A q \in Calls : Holding(call'[q])
  BY <1>2, Zenon DEF FreightTypeOK
<1> QED
  BY <1>2, <1>3, <1>4

LEMMA IdleHolds == Holding(NoCall)
BY DEF Holding

\* Rows that requests hold, by what they are about to do.
LEMMA CallHeld ==
  ASSUME FreightTypeOK, NEW r \in Calls
  PROVE  /\ call[r].pc \in {"insert", "number"} => call[r] \in [pc : {"insert", "number"}, row : Rows]
         /\ call[r].pc = "rewrite" => call[r] \in [pc : {"rewrite"}, table : Tables, row : Rows]
         /\ call[r].pc = "status" =>
              call[r] \in [pc : {"status"}, table : Tables, status : {"ACTIVE", "INACTIVE"}]
         /\ call[r].pc = "store" =>
              call[r] = [pc |-> "store", candidates |-> call[r].candidates,
                        overtaken |-> call[r].overtaken]
<1>1. Holding(call[r])
  BY DEF FreightTypeOK
<1> QED
  BY <1>1 DEF Holding, NoCall

LEMMA RowInRows ==
  ASSUME NEW s \in Services, NEW v \in Versions \cup {1}, NEW st \in StatusesOfTables, NEW tf \in ValidTariffs
  PROVE  Row(s, v, st, tf) \in Rows
BY DEF Row, Rows

\* A row's status sets it apart from no row.
LEMMA RowExists ==
  ASSUME NEW row \in Rows
  PROVE  row # NoRow
BY DEF Rows, NoRow, StatusesOfTables

\* What a request holds between its queries, when it names a table that is there.
CanHold(x) ==
  Holding(x) /\ (x.pc \in {"rewrite", "status"} => x.table \in Tables /\ Exists(x.table))

LEMMA IdleCanHold == CanHold(NoCall)
BY IdleHolds DEF CanHold, NoCall

\* What a request holds, action by action.
LEMMA AdministrateHolds ==
  ASSUME FreightTypeOK, NEW r \in Calls, Administrate(r)
  PROVE  \/ \E x : CanHold(x) /\ call' = [call EXCEPT ![r] = x]
         \/ UpdateWrite(r)
<1>1. ASSUME NEW s \in Services, NEW st \in Statuses, NEW tf \in Tariffs, CreateCheck(r, s, st, tf)
      PROVE  \E x : CanHold(x) /\ call' = [call EXCEPT ![r] = x]
  <2>1. PICK x : x = [pc |-> "insert",
                      row |-> Row(s, 1, IF st = "none" THEN "INACTIVE" ELSE st, TariffRow(tf))]
    OBVIOUS
  <2>2. Row(s, 1, IF st = "none" THEN "INACTIVE" ELSE st, TariffRow(tf)) \in Rows
    <3>1. (IF st = "none" THEN "INACTIVE" ELSE st) \in StatusesOfTables /\ TariffRow(tf) \in ValidTariffs
      BY <1>1 DEF StatusesOfTables, ValidTariffs, CreateCheck
    <3> QED
      BY <3>1, RowInRows
  <2>3. CanHold(x)
    BY <2>1, <2>2 DEF CanHold, Holding
  <2> QED
    BY <1>1, <2>1, <2>3 DEF CreateCheck
<1>2. ASSUME NEW t \in Tables, VersionRead(r, t)
      PROVE  \E x : CanHold(x) /\ call' = [call EXCEPT ![r] = x]
  <2>1. PICK x : x = [pc |-> "number", row |-> Row(table[t].service, 1, "INACTIVE", table[t].tariff)]
    OBVIOUS
  <2>2. table[t] \in Rows
    BY <1>2 DEF VersionRead, Exists, FreightTypeOK
  <2>3. Row(table[t].service, 1, "INACTIVE", table[t].tariff) \in Rows
    <3>1. table[t].service \in Services /\ table[t].tariff \in ValidTariffs /\ "INACTIVE" \in StatusesOfTables
      BY <2>2 DEF Rows, StatusesOfTables
    <3> QED
      BY <3>1, RowInRows
  <2>4. CanHold(x)
    BY <2>1, <2>3 DEF CanHold, Holding
  <2> QED
    BY <1>2, <2>1, <2>4 DEF VersionRead
<1>3. CASE VersionNumber(r)
  <2> DEFINE v == MaxVersion(call[r].row.service) + 1
  <2>1. call[r] \in [pc : {"insert", "number"}, row : Rows] /\ v \in Versions
    BY <1>3, CallHeld DEF VersionNumber
  <2> HIDE DEF v
  <2>2. PICK x : x = [call[r] EXCEPT !.pc = "insert", !.row.version = v]
    OBVIOUS
  <2>3. x \in [pc : {"insert", "number"}, row : Rows]
    BY <2>1, <2>2 DEF Rows
  <2>4. call' = [call EXCEPT ![r] = x]
    BY <1>3, <2>2 DEF VersionNumber, v, FreightTypeOK
  <2> QED
    BY <2>3, <2>4 DEF CanHold, Holding
<1>4. ASSUME NEW t \in Tables, CreateInsert(r, t)
      PROVE  \E x : CanHold(x) /\ call' = [call EXCEPT ![r] = x]
  BY <1>4, IdleCanHold DEF CreateInsert
<1>5. ASSUME NEW t \in Tables, NEW s \in Services, NEW st \in Statuses, NEW tf \in Tariffs,
             UpdateCheck(r, t, s, st, tf)
      PROVE  \E x : CanHold(x) /\ call' = [call EXCEPT ![r] = x]
  <2>1. PICK status : status = IF st = "none" THEN table[t].status ELSE st
    OBVIOUS
  <2>2. PICK x : x = [pc |-> "rewrite", table |-> t, row |-> Row(s, table[t].version, status, TariffRow(tf))]
    OBVIOUS
  <2>3. table[t] \in Rows
    BY <1>5 DEF UpdateCheck, Exists, FreightTypeOK
  <2>4. Row(s, table[t].version, status, TariffRow(tf)) \in Rows
    <3>1. /\ table[t].version \in Versions \cup {1} /\ status \in StatusesOfTables
          /\ TariffRow(tf) \in ValidTariffs
      BY <1>5, <2>1, <2>3 DEF Rows, StatusesOfTables, ValidTariffs, UpdateCheck
    <3> QED
      BY <3>1, RowInRows
  <2>5. CanHold(x)
    BY <1>5, <2>2, <2>4 DEF CanHold, Holding, UpdateCheck
  <2>6. call' = [call EXCEPT ![r] = x]
    BY <1>5, <2>1, <2>2 DEF UpdateCheck
  <2> QED
    BY <2>5, <2>6
<1>6. ASSUME NEW t \in Tables, NEW st \in {"ACTIVE", "INACTIVE"}, TableStatusRead(r, t, st)
      PROVE  \E x : CanHold(x) /\ call' = [call EXCEPT ![r] = x]
  <2>1. PICK x : x = [pc |-> "status", table |-> t, status |-> st]
    OBVIOUS
  <2>2. CanHold(x)
    BY <1>6, <2>1 DEF CanHold, Holding, TableStatusRead
  <2> QED
    BY <1>6, <2>1, <2>2 DEF TableStatusRead
<1>7. CASE TableStatusWrite(r)
  BY <1>7, IdleCanHold DEF TableStatusWrite
<1> QED
  BY <1>1, <1>2, <1>3, <1>4, <1>5, <1>6, <1>7 DEF Administrate

\* A rewrite lets go of its own request and marks the simulations it overtakes.
LEMMA RewriteHolds ==
  ASSUME FreightTypeOK, NEW r \in Calls, UpdateWrite(r)
  PROVE  /\ call' = [q \in Calls |-> call'[q]]
         /\ call'[r] = NoCall
         /\ \A q \in Calls \ {r} :
              IF call[q].pc = "store"
              THEN call'[q] = [pc |-> "store", candidates |-> call[q].candidates,
                              overtaken |-> call[q].overtaken \cup {call[r].table}]
              ELSE call'[q] = call[q]
         /\ \A q \in Calls : Holding(call'[q])
<1>1. call' = [q \in Calls |-> IF q = r THEN NoCall ELSE Overtake(call[r].table)[q]]
  BY DEF UpdateWrite, Overtake
<1>2. call' = [q \in Calls |-> call'[q]] /\ call'[r] = NoCall
  BY <1>1
<1>3. ASSUME NEW q \in Calls \ {r}, call[q].pc = "store"
      PROVE  call'[q] = [pc |-> "store", candidates |-> call[q].candidates,
                        overtaken |-> call[q].overtaken \cup {call[r].table}]
  <2>1. call[q] = [pc |-> "store", candidates |-> call[q].candidates, overtaken |-> call[q].overtaken]
    BY <1>3, CallHeld
  <2>2. call'[q] = [call[q] EXCEPT !.overtaken = call[q].overtaken \cup {call[r].table}]
    BY <1>1, <1>3 DEF Overtake
  <2> QED
    BY <2>1, <2>2
<1>4. ASSUME NEW q \in Calls \ {r}, call[q].pc # "store"
      PROVE  call'[q] = call[q]
  BY <1>1, <1>4 DEF Overtake
<1>5. \A q \in Calls : Holding(call'[q])
  <2> TAKE q \in Calls
  <2>1. CASE q = r
    BY <1>2, <2>1, IdleHolds
  <2>2. CASE q # r /\ call[q].pc = "store"
    <3>1. PICK x : x = call'[q]
      OBVIOUS
    <3>2. x = [pc |-> "store", candidates |-> call[q].candidates,
               overtaken |-> call[q].overtaken \cup {call[r].table}]
      BY <1>3, <2>2, <3>1
    <3>3. x = [pc |-> "store", candidates |-> x.candidates, overtaken |-> x.overtaken]
      BY <3>2
    <3> QED
      BY <3>1, <3>3, Zenon DEF Holding
  <2>3. CASE q # r /\ call[q].pc # "store"
    BY <1>4, <2>3 DEF FreightTypeOK
  <2> QED
    BY <2>1, <2>2, <2>3
<1> QED
  BY <1>2, <1>3, <1>4, <1>5

LEMMA SimulateHolds ==
  ASSUME FreightTypeOK, NEW r \in Calls, Simulate(r)
  PROVE  \E x : CanHold(x) /\ call' = [call EXCEPT ![r] = x]
<1>1. ASSUME NEW load \in Loads, ReadServices(r, load)
      PROVE  \E x : CanHold(x) /\ call' = [call EXCEPT ![r] = x]
  <2>1. PICK candidates : call' = [call EXCEPT ![r] = [pc |-> "store", candidates |-> candidates,
                                                     overtaken |-> {}]]
    BY <1>1, Zenon DEF ReadServices
  <2>2. PICK x : x = [pc |-> "store", candidates |-> candidates, overtaken |-> {}]
    OBVIOUS
  <2>3. CanHold(x)
    BY <2>2 DEF CanHold, Holding
  <2> QED
    BY <2>1, <2>2, <2>3
<1>2. ASSUME NEW m \in Sims, StoreSimulation(r, m)
      PROVE  \E x : CanHold(x) /\ call' = [call EXCEPT ![r] = x]
  <2>1. call' = [call EXCEPT ![r] = NoCall]
    BY <1>2, Zenon DEF StoreSimulation
  <2> QED
    BY <2>1, IdleCanHold
<1> QED
  BY <1>1, <1>2 DEF Simulate

\* What a step does to the tables.
LEMMA TableStep ==
  ASSUME FreightTypeOK, FreightNext
  PROVE  \/ UNCHANGED table
         \/ \E t \in Tables, row \in Rows :
              /\ table' = [table EXCEPT ![t] = row]
              /\ \/ ~ Exists(t)
                 \/ row.tariff = table[t].tariff /\ row.version = table[t].version
                 \/ \E r \in Calls : UpdateWrite(r) /\ t = call[r].table /\ row = call[r].row
<1>1. ASSUME NEW r \in Calls, NEW t \in Tables, CreateInsert(r, t)
      PROVE  /\ ~ Exists(t)
             /\ call[r].row \in Rows
             /\ table' = [table EXCEPT ![t] = call[r].row]
  BY <1>1, CallHeld DEF CreateInsert
<1>2. ASSUME NEW r \in Calls, UpdateWrite(r)
      PROVE  /\ call[r].table \in Tables
             /\ call[r].row \in Rows
             /\ table' = [table EXCEPT ![call[r].table] = call[r].row]
  BY <1>2, CallHeld DEF UpdateWrite
<1>3. ASSUME NEW r \in Calls, TableStatusWrite(r)
      PROVE  \E t \in Tables, row \in Rows :
               /\ table' = [table EXCEPT ![t] = row]
               /\ \/ ~ Exists(t)
                  \/ row.tariff = table[t].tariff /\ row.version = table[t].version
  <2>1. call[r].table \in Tables /\ call[r].status \in StatusesOfTables
    BY <1>3, CallHeld DEF TableStatusWrite, StatusesOfTables
  <2>2. PICK t \in Tables : t = call[r].table
    BY <2>1
  <2>3. PICK row : row = [table[t] EXCEPT !.status = call[r].status]
    OBVIOUS
  <2>4. table' = [table EXCEPT ![t] = row]
    BY <1>3, <2>2, <2>3 DEF TableStatusWrite, FreightTypeOK
  <2>5. table[t] \in Rows
    BY <1>3, <2>2 DEF FreightTypeOK, Exists, TableStatusWrite
  <2>6. row \in Rows /\ row.tariff = table[t].tariff /\ row.version = table[t].version
    BY <2>1, <2>3, <2>5 DEF Rows
  <2> QED
    BY <2>4, <2>6
<1>4. ASSUME NEW r \in Calls, Administrate(r), ~ UNCHANGED table
      PROVE  \/ \E t \in Tables : CreateInsert(r, t)
             \/ UpdateWrite(r) \/ TableStatusWrite(r)
  BY <1>4, Zenon DEF Administrate, CreateCheck, VersionRead, VersionNumber, UpdateCheck, TableStatusRead
<1>5. ASSUME NEW r \in Calls, Simulate(r) \/ Reject(r)
      PROVE  UNCHANGED table
  BY <1>5, Zenon DEF Simulate, ReadServices, StoreSimulation, Reject
<1>6. (\/ \E s \in Services : UpdateCarrierStatus(s)
       \/ \E s \in Services, offer \in Offers : SaveService(s, offer)
       \/ \E c \in Coverages, s \in Services, a \in Areas : SaveCoverage(c, s, a))
        => UNCHANGED table
  BY Zenon DEF UpdateCarrierStatus, SaveService, SaveCoverage
<1> QED
  BY <1>1, <1>2, <1>3, <1>4, <1>5, <1>6, Zenon DEF FreightNext

\* Only the transaction of a simulation stores options.
LEMMA OptionsKept ==
  ASSUME FreightNext
  PROVE  UNCHANGED options \/ \E r \in Calls, m \in Sims : StoreSimulation(r, m)
<1>1. \A r \in Calls : Administrate(r) => UNCHANGED options
  BY Zenon DEF Administrate, CreateCheck, VersionRead, VersionNumber, CreateInsert, UpdateCheck,
     UpdateWrite, TableStatusRead, TableStatusWrite
<1>2. \A r \in Calls : (\E load \in Loads : ReadServices(r, load)) \/ Reject(r) => UNCHANGED options
  BY Zenon DEF ReadServices, Reject
<1>3. /\ \A s \in Services : UpdateCarrierStatus(s) => UNCHANGED options
      /\ \A s \in Services, offer \in Offers : SaveService(s, offer) => UNCHANGED options
      /\ \A c \in Coverages, s \in Services, a \in Areas : SaveCoverage(c, s, a) => UNCHANGED options
  BY Zenon DEF UpdateCarrierStatus, SaveService, SaveCoverage
<1> QED
  BY <1>1, <1>2, <1>3, Zenon DEF FreightNext, Simulate

LEMMA TypeStep ==
  ASSUME FreightTypeOK, [FreightNext]_freightVars
  PROVE  FreightTypeOK'
<1>1. CASE UNCHANGED freightVars
  BY <1>1 DEF FreightTypeOK, freightVars, Exists
<1> SUFFICES ASSUME FreightNext
             PROVE  FreightTypeOK'
  BY <1>1
<1>2. service' = [s \in Services |-> service'[s]] /\ \A s \in Services : IsOffered(service'[s])
  <2>1. ASSUME NEW s \in Services, NEW offer \in Offers, SaveService(s, offer)
        PROVE  service' = [q \in Services |-> service'[q]] /\ \A q \in Services : IsOffered(service'[q])
    <3>1. PICK row :
            row = [status |-> offer.status, cubicFactor |-> offer.cubicFactor,
                   minWeight |-> Limit(offer.minWeight, Limits(s).minWeight),
                   maxWeight |-> Limit(offer.maxWeight, Limits(s).maxWeight),
                   minimumValue |-> offer.minimumValue]
      OBVIOUS
    <3>2. service' = [q \in Services |-> IF q = s THEN row ELSE service[q]]
      BY <2>1, <3>1 DEF SaveService, FreightTypeOK
    <3>3. IsOffered(row)
      BY <3>1 DEF IsOffered
    <3>4. \A q \in Services : IsOffered(service'[q])
      BY <3>2, <3>3, Zenon DEF FreightTypeOK
    <3> QED
      BY <3>2, <3>4
  <2>2. \A r \in Calls : Administrate(r) => UNCHANGED service
    BY Zenon DEF Administrate, CreateCheck, VersionRead, VersionNumber, CreateInsert, UpdateCheck,
       UpdateWrite, TableStatusRead, TableStatusWrite
  <2>3. \A r \in Calls : Simulate(r) \/ Reject(r) => UNCHANGED service
    BY Zenon DEF Simulate, ReadServices, StoreSimulation, Reject
  <2>4. /\ \A s \in Services : UpdateCarrierStatus(s) => UNCHANGED service
        /\ \A c \in Coverages, s \in Services, a \in Areas : SaveCoverage(c, s, a) => UNCHANGED service
    BY Zenon DEF UpdateCarrierStatus, SaveCoverage
  <2>5. UNCHANGED service =>
          service' = [s \in Services |-> service'[s]] /\ \A s \in Services : IsOffered(service'[s])
    BY DEF FreightTypeOK, IsOffered
  <2> QED
    BY <2>1, <2>2, <2>3, <2>4, <2>5, Zenon DEF FreightNext
<1>3. /\ table' \in [Tables -> Rows \cup {NoRow}]
      /\ \A t \in Tables : Exists(t) => Exists(t)'
  BY TableStep, RowExists DEF FreightTypeOK, Exists
<1>4. options' = [m \in Sims |-> options'[m]]
  <2>1. ASSUME NEW r \in Calls, NEW m \in Sims, StoreSimulation(r, m)
        PROVE  options' = [n \in Sims |-> options'[n]]
    <3>1. PICK S : options' = [options EXCEPT ![m] = S]
      BY <2>1, Zenon DEF StoreSimulation
    <3> QED
      BY <3>1 DEF FreightTypeOK
  <2>2. UNCHANGED options => options' = [m \in Sims |-> options'[m]]
    BY DEF FreightTypeOK
  <2> QED
    BY <2>1, <2>2, OptionsKept
<1> DEFINE Rest == /\ call' = [r \in Calls |-> call'[r]]
                   /\ \A r \in Calls : Holding(call'[r])
                   /\ \A r \in Calls : call'[r].pc \in {"rewrite", "status"} => table'[call'[r].table] # NoRow
<1>5. ASSUME NEW r \in Calls, UpdateWrite(r)
      PROVE  Rest
  <2>1. ASSUME NEW q \in Calls, call'[q].pc \in {"rewrite", "status"}
        PROVE  call'[q] = call[q]
    <3>1. /\ call'[r] = NoCall
          /\ q # r /\ call[q].pc = "store" => call'[q].pc = "store"
          /\ q # r /\ call[q].pc # "store" => call'[q] = call[q]
      <4>1. /\ call'[r] = NoCall
            /\ q # r => IF call[q].pc = "store"
                        THEN call'[q] = [pc |-> "store", candidates |-> call[q].candidates,
                                        overtaken |-> call[q].overtaken \cup {call[r].table}]
                        ELSE call'[q] = call[q]
        BY <1>5, RewriteHolds, Zenon
      <4> QED
        BY <4>1
    <3> QED
      BY <2>1, <3>1 DEF NoCall
  <2>2. ASSUME NEW q \in Calls, call'[q].pc \in {"rewrite", "status"}
        PROVE  table'[call'[q].table] # NoRow
    <3>1. call'[q] = call[q] /\ call[q].table \in Tables
      BY <2>1, <2>2, CallHeld
    <3>2. PICK t \in Tables : t = call[q].table
      BY <3>1
    <3>3. Exists(t)'
      BY <1>3, <2>2, <3>1, <3>2 DEF FreightTypeOK
    <3> QED
      BY <3>1, <3>2, <3>3 DEF Exists
  <2> QED
    BY <1>5, <2>2, RewriteHolds
<1>6. ASSUME NEW r \in Calls, NEW x, CanHold(x), call' = [call EXCEPT ![r] = x]
      PROVE  Rest
  <2>0. Holding(x)
    BY <1>6 DEF CanHold
  <2>1. ASSUME NEW q \in Calls, call'[q].pc \in {"rewrite", "status"}
        PROVE  call'[q].table \in Tables /\ Exists(call'[q].table)
    BY <1>6, <2>0, <2>1, HoldingStep, CallHeld DEF FreightTypeOK, CanHold
  <2>2. ASSUME NEW q \in Calls, call'[q].pc \in {"rewrite", "status"}
        PROVE  table'[call'[q].table] # NoRow
    <3>1. PICK t \in Tables : t = call'[q].table
      BY <2>1, <2>2
    <3>2. Exists(t)'
      BY <1>3, <2>1, <2>2, <3>1
    <3> QED
      BY <3>1, <3>2 DEF Exists
  <2> QED
    BY <1>6, <2>0, <2>2, HoldingStep
<1>7. UNCHANGED call => Rest
  <2>1. ASSUME UNCHANGED call, NEW q \in Calls, call[q].pc \in {"rewrite", "status"}
        PROVE  table'[call'[q].table] # NoRow
    <3>1. PICK t \in Tables : t = call[q].table
      BY <2>1, CallHeld
    <3>2. Exists(t)'
      BY <1>3, <2>1, <3>1 DEF FreightTypeOK
    <3> QED
      BY <2>1, <3>1, <3>2 DEF Exists
  <2> QED
    BY <2>1 DEF FreightTypeOK
<1>8. Rest
  <2>1. ASSUME NEW r \in Calls, Administrate(r)
        PROVE  Rest
    BY <1>5, <1>6, <2>1, AdministrateHolds
  <2>2. ASSUME NEW r \in Calls, Simulate(r)
        PROVE  Rest
    BY <1>6, <2>2, SimulateHolds
  <2>3. ASSUME NEW r \in Calls, Reject(r)
        PROVE  Rest
    BY <1>6, <2>3, IdleCanHold DEF Reject
  <2>4. (\/ \E s \in Services : UpdateCarrierStatus(s)
         \/ \E s \in Services, offer \in Offers : SaveService(s, offer)
         \/ \E c \in Coverages, s \in Services, a \in Areas : SaveCoverage(c, s, a))
          => UNCHANGED call
    BY Zenon DEF UpdateCarrierStatus, SaveService, SaveCoverage
  <2> QED
    BY <1>7, <2>1, <2>2, <2>3, <2>4 DEF FreightNext
<1> QED
  BY <1>2, <1>3, <1>4, <1>8 DEF FreightTypeOK, Exists

-----------------------------------------------------------------------------
(* What a candidate is priced from *)

\* Rounding keeps the order of weights, but may make two of them one.
LEMMA ColumnKeepsOrder ==
  ASSUME NEW a \in Nat, NEW b \in Nat, a < b
  PROVE  /\ WeightColumn(a) \in Int /\ WeightColumn(b) \in Int
         /\ WeightColumn(a) <= WeightColumn(b)
<1>1. \A n \in Nat : n \div 10 \in Int /\ n % 10 \in 0..9 /\ n = 10 * (n \div 10) + (n % 10)
  OBVIOUS
<1>2. /\ WeightColumn(a) = (a \div 10) + (IF 2 * (a % 10) >= 10 THEN 1 ELSE 0)
      /\ WeightColumn(b) = (b \div 10) + (IF 2 * (b % 10) >= 10 THEN 1 ELSE 0)
  BY DEF WeightColumn, Scale
<1>3. PICK p \in Int, q \in Int, x \in 0..9, y \in 0..9 :
        p = a \div 10 /\ q = b \div 10 /\ x = a % 10 /\ y = b % 10
  BY <1>1
<1> QED
  BY <1>1, <1>2, <1>3

\* Of ranges that validateRanges lets in, two apply to the same weight only if
\* it is the bound that the columns made of the two they had.
LEMMA RangesApart ==
  ASSUME NEW tf \in ValidTariffs, NEW weight \in Int,
         NEW k \in DOMAIN tf.ranges, Applies(tf.ranges[k], weight)
  PROVE  OneRange(tf, weight)
<1>1. PICK e \in Tariffs : ValidRanges(e.ranges) /\ tf = TariffRow(e)
  BY DEF ValidTariffs
<1>2. /\ DOMAIN tf.ranges = DOMAIN e.ranges
      /\ \A i \in DOMAIN e.ranges : /\ tf.ranges[i].min = WeightColumn(e.ranges[i].min)
                                    /\ tf.ranges[i].max = WeightColumn(e.ranges[i].max)
  BY <1>1 DEF TariffRow, InColumns
<1>3. \A i \in DOMAIN e.ranges : e.ranges[i].min \in Nat /\ e.ranges[i].max \in Nat
  BY InputsAssumption
<1>4. ASSUME NEW i \in DOMAIN e.ranges, NEW j \in DOMAIN e.ranges,
             e.ranges[i].max < e.ranges[j].min,
             Applies(tf.ranges[i], weight), Applies(tf.ranges[j], weight)
      PROVE  tf.ranges[i].max = weight /\ tf.ranges[j].min = weight
  <2>1. /\ tf.ranges[i].max \in Int /\ tf.ranges[j].min \in Int
        /\ tf.ranges[i].max <= tf.ranges[j].min
    BY <1>2, <1>3, <1>4, ColumnKeepsOrder
  <2>2. weight <= tf.ranges[i].max /\ tf.ranges[j].min <= weight
    BY <1>4 DEF Applies
  <2> QED
    BY <2>1, <2>2
<1>5. ASSUME NEW i \in Fits(tf.ranges, weight), NEW j \in Fits(tf.ranges, weight), i # j
      PROVE  TouchAt(tf.ranges[i], tf.ranges[j], weight)
  <2>1. /\ i \in DOMAIN e.ranges /\ Applies(tf.ranges[i], weight)
        /\ j \in DOMAIN e.ranges /\ Applies(tf.ranges[j], weight)
    BY <1>2 DEF Fits
  <2>2. e.ranges[i].max < e.ranges[j].min \/ e.ranges[j].max < e.ranges[i].min
    BY <1>1, <1>5, <2>1 DEF ValidRanges
  <2> QED
    BY <1>4, <2>1, <2>2 DEF TouchAt
<1> QED
  BY <1>5 DEF OneRange, Fits

\* The weight a price is computed for.
LEMMA PricedWeight ==
  ASSUME NEW svc, NEW range, NEW charges, NEW load
  PROVE  Calculate(svc, range, charges, load).weight
           = ChargeableWeight(load.packages, svc.cubicFactor)
BY DEF Calculate

LEMMA CandidateSound ==
  ASSUME FreightTypeOK, NEW s \in Services, NEW load \in Loads, Eligible(s, load), NEW c,
         c = Candidate(s, load)
  PROVE  OneRange(c.tariff, c.price.weight) /\ Says(c)
<1> DEFINE t == RateTable(s, load.date)
           weight == ChargeableWeight(load.packages, service[s].cubicFactor)
<1>1. t \in Tables /\ table[t] \in Rows
  BY NewestInForce DEF Eligible
<1>2. \E o \in Offers : service[s].cubicFactor = o.cubicFactor
  <2>1. IsOffered(service[s])
    BY DEF FreightTypeOK
  <2>2. service[s] # NoRow
    BY DEF Eligible, NoRow
  <2> QED
    BY <2>1, <2>2 DEF IsOffered
<1>3. weight \in Int
  BY <1>2, InputsAssumption
<1>4. table[t].tariff \in ValidTariffs
  BY <1>1 DEF Rows
<1>5. \E i \in DOMAIN table[t].tariff.ranges : Applies(table[t].tariff.ranges[i], weight)
  BY DEF Eligible
<1>6. OneRange(table[t].tariff, weight)
  <2> HIDE DEF t, weight
  <2> QED
    BY <1>3, <1>4, <1>5, RangesApart
<1>7. /\ c.table = t /\ c.tariff = table[t].tariff /\ c.version = table[t].version
      /\ c.price = Calculate(service[s], RateRange(table[t].tariff, weight),
                             table[t].tariff.charges, load)
  BY DEF Candidate
<1>8. c.price.weight = weight
  BY <1>7, PricedWeight
<1>9. Exists(t)
  BY <1>1, RowExists DEF Exists
<1> HIDE DEF t, weight
<1>10. Says(c)
  BY <1>1, <1>7, <1>9 DEF Says
<1> QED
  BY <1>6, <1>7, <1>8, <1>10

\* A table goes on saying what it said but for a rewrite.
LEMMA SaysStep ==
  ASSUME FreightTypeOK, FreightNext, NEW o, Says(o),
         \A r \in Calls : UpdateWrite(r) => o.table # call[r].table
  PROVE  Says(o)'
<1>1. CASE UNCHANGED table
  BY <1>1 DEF Says, Exists
<1>2. ASSUME NEW t \in Tables, NEW row \in Rows, table' = [table EXCEPT ![t] = row],
             ~ Exists(t) \/ (row.tariff = table[t].tariff /\ row.version = table[t].version)
      PROVE  Says(o)'
  BY <1>2, RowExists DEF Says, Exists, FreightTypeOK
<1>3. ASSUME NEW r \in Calls, NEW row \in Rows, table' = [table EXCEPT ![call[r].table] = row],
             UpdateWrite(r)
      PROVE  Says(o)'
  BY <1>3 DEF Says, Exists, FreightTypeOK
<1> QED
  BY <1>1, <1>2, <1>3, TableStep

-----------------------------------------------------------------------------
(* What requests and options come from *)

\* One request moves, the others hold what they held.
LEMMA Moves ==
  ASSUME FreightTypeOK, NEW r \in Calls, NEW x, call' = [call EXCEPT ![r] = x]
  PROVE  call'[r] = x /\ \A q \in Calls \ {r} : call'[q] = call[q]
<1>1. call' = [q \in Calls |-> IF q = r THEN x ELSE call[q]]
  BY DEF FreightTypeOK
<1> QED
  BY <1>1

\* A request that holds a rewrite or candidates read them now or has kept them.
LEMMA ReqStep ==
  ASSUME FreightTypeOK, FreightNext, NEW q \in Calls
  PROVE  /\ call'[q].pc = "rewrite" =>
              \/ call'[q] = call[q]
              \/ \E t \in Tables, s \in Services, st \in Statuses, tf \in Tariffs :
                   UpdateCheck(q, t, s, st, tf)
         /\ call'[q].pc = "store" =>
              \/ \E load \in Loads : ReadServices(q, load)
              \/ /\ call[q].pc = "store"
                 /\ call'[q].candidates = call[q].candidates
                 /\ call[q].overtaken \subseteq call'[q].overtaken
<1> DEFINE Came == /\ call'[q].pc = "rewrite" =>
                        \/ call'[q] = call[q]
                        \/ \E t \in Tables, s \in Services, st \in Statuses, tf \in Tariffs :
                             UpdateCheck(q, t, s, st, tf)
                   /\ call'[q].pc = "store" =>
                        \/ \E load \in Loads : ReadServices(q, load)
                        \/ /\ call[q].pc = "store"
                           /\ call'[q].candidates = call[q].candidates
                           /\ call[q].overtaken \subseteq call'[q].overtaken
<1>1. call'[q] = call[q] => Came
  OBVIOUS
<1>2. call'[q].pc \notin {"rewrite", "store"} => Came
  OBVIOUS
<1>3. ASSUME NEW r \in Calls, NEW x, call' = [call EXCEPT ![r] = x], x.pc \notin {"rewrite", "store"}
      PROVE  Came
  <2>1. call'[q] = call[q] \/ call'[q] = x
    BY <1>3, Moves
  <2> QED
    BY <1>1, <1>2, <1>3, <2>1
<1>4. ASSUME NEW r \in Calls, UpdateWrite(r)
      PROVE  Came
  <2>1. CASE q = r
    <3>1. call'[q] = NoCall
      BY <1>4, <2>1, RewriteHolds
    <3> QED
      BY <1>2, <3>1 DEF NoCall
  <2>2. CASE q # r /\ call[q].pc = "store"
    <3>1. call'[q] = [pc |-> "store", candidates |-> call[q].candidates,
                     overtaken |-> call[q].overtaken \cup {call[r].table}]
      BY <1>4, <2>2, RewriteHolds
    <3> QED
      BY <2>2, <3>1
  <2>3. CASE q # r /\ call[q].pc # "store"
    <3>1. call'[q] = call[q]
      BY <1>4, <2>3, RewriteHolds
    <3> QED
      BY <1>1, <3>1
  <2> QED
    BY <2>1, <2>2, <2>3
<1>5. ASSUME NEW r \in Calls, NEW t \in Tables, NEW s \in Services, NEW st \in Statuses,
             NEW tf \in Tariffs, UpdateCheck(r, t, s, st, tf)
      PROVE  Came
  <2>0. PICK x : x = [pc |-> "rewrite", table |-> t,
                      row |-> Row(s, table[t].version, IF st = "none" THEN table[t].status ELSE st,
                                  TariffRow(tf))]
    OBVIOUS
  <2>1. call' = [call EXCEPT ![r] = x] /\ x.pc = "rewrite"
    BY <1>5, <2>0 DEF UpdateCheck
  <2>2. q # r => call'[q] = call[q]
    BY <2>1, Moves
  <2>3. q = r => call'[q].pc = "rewrite"
    BY <2>1, Moves
  <2> QED
    BY <1>1, <1>5, <2>2, <2>3
<1>6. ASSUME NEW r \in Calls, NEW load \in Loads, ReadServices(r, load)
      PROVE  Came
  <2>0. PICK candidates : call' = [call EXCEPT ![r] = [pc |-> "store", candidates |-> candidates,
                                                     overtaken |-> {}]]
    BY <1>6, Zenon DEF ReadServices
  <2>a. PICK x : x = [pc |-> "store", candidates |-> candidates, overtaken |-> {}]
    OBVIOUS
  <2>1. call' = [call EXCEPT ![r] = x] /\ x.pc = "store"
    BY <2>0, <2>a
  <2>2. q # r => call'[q] = call[q]
    BY <2>1, Moves
  <2>3. q = r => call'[q].pc = "store"
    BY <2>1, Moves
  <2> QED
    BY <1>1, <1>6, <2>2, <2>3
<1>7. ASSUME NEW r \in Calls, Administrate(r)
      PROVE  Came
  <2>1. ASSUME NEW s \in Services, NEW st \in Statuses, NEW tf \in Tariffs, CreateCheck(r, s, st, tf)
        PROVE  Came
    <3>1. PICK x : x = [pc |-> "insert",
                        row |-> Row(s, 1, IF st = "none" THEN "INACTIVE" ELSE st, TariffRow(tf))]
      OBVIOUS
    <3>2. call' = [call EXCEPT ![r] = x] /\ x.pc = "insert"
      BY <2>1, <3>1 DEF CreateCheck
    <3> QED
      BY <1>3, <3>2
  <2>2. ASSUME NEW t \in Tables, VersionRead(r, t)
        PROVE  Came
    <3>1. PICK x : x = [pc |-> "number", row |-> Row(table[t].service, 1, "INACTIVE", table[t].tariff)]
      OBVIOUS
    <3>2. call' = [call EXCEPT ![r] = x] /\ x.pc = "number"
      BY <2>2, <3>1 DEF VersionRead
    <3> QED
      BY <1>3, <3>2
  <2>3. CASE VersionNumber(r)
    <3> DEFINE v == MaxVersion(call[r].row.service) + 1
    <3>1. call[r] \in [pc : {"insert", "number"}, row : Rows]
      BY <2>3, CallHeld DEF VersionNumber
    <3> HIDE DEF v
    <3>2. PICK x : x = [call[r] EXCEPT !.pc = "insert", !.row.version = v]
      OBVIOUS
    <3>3. call' = [call EXCEPT ![r] = x]
      BY <2>3, <3>2 DEF VersionNumber, v, FreightTypeOK
    <3>4. x.pc = "insert"
      BY <3>1, <3>2
    <3> QED
      BY <1>3, <3>3, <3>4
  <2>4. ASSUME NEW t \in Tables, NEW st \in {"ACTIVE", "INACTIVE"}, TableStatusRead(r, t, st)
        PROVE  Came
    <3>1. PICK x : x = [pc |-> "status", table |-> t, status |-> st]
      OBVIOUS
    <3>2. call' = [call EXCEPT ![r] = x] /\ x.pc = "status"
      BY <2>4, <3>1 DEF TableStatusRead
    <3> QED
      BY <1>3, <3>2
  <2>5. (\E t \in Tables : CreateInsert(r, t)) \/ TableStatusWrite(r) => Came
    <3>1. (\E t \in Tables : CreateInsert(r, t)) \/ TableStatusWrite(r) => call' = [call EXCEPT ![r] = NoCall]
      BY Zenon DEF CreateInsert, TableStatusWrite
    <3> QED
      BY <1>3, <3>1 DEF NoCall
  <2> QED
    BY <1>4, <1>5, <1>7, <2>1, <2>2, <2>3, <2>4, <2>5, Zenon DEF Administrate
<1>8. ASSUME NEW r \in Calls, (\E m \in Sims : StoreSimulation(r, m)) \/ Reject(r)
      PROVE  Came
  <2>1. call' = [call EXCEPT ![r] = NoCall]
    BY <1>8, Zenon DEF StoreSimulation, Reject
  <2> QED
    BY <1>3, <2>1 DEF NoCall
<1>9. (\/ \E s \in Services : UpdateCarrierStatus(s)
       \/ \E s \in Services, offer \in Offers : SaveService(s, offer)
       \/ \E c \in Coverages, s \in Services, a \in Areas : SaveCoverage(c, s, a)) => Came
  <2>1. (\/ \E s \in Services : UpdateCarrierStatus(s)
         \/ \E s \in Services, offer \in Offers : SaveService(s, offer)
         \/ \E c \in Coverages, s \in Services, a \in Areas : SaveCoverage(c, s, a))
          => UNCHANGED call
    BY Zenon DEF UpdateCarrierStatus, SaveService, SaveCoverage
  <2> QED
    BY <1>1, <2>1
<1> QED
  BY <1>6, <1>7, <1>8, <1>9, Zenon DEF FreightNext, Simulate

LEMMA StoredOptions ==
  ASSUME FreightTypeOK, NEW r \in Calls, NEW m \in Sims, StoreSimulation(r, m), NEW o, o \in AllOptions'
  PROVE  \/ o \in AllOptions
         \/ \E c \in call[r].candidates :
              /\ o.table = c.table /\ o.version = c.version
              /\ o.tariff = c.tariff /\ o.price = c.price
              /\ o.raced <=> (c.table \in call[r].overtaken \/ Rewriting(c.table))
<1> DEFINE New == {Option(c, call[r].candidates, c.table \in call[r].overtaken \/ Rewriting(c.table)) :
                     c \in call[r].candidates}
<1>1. options' = [options EXCEPT ![m] = New]
  BY DEF StoreSimulation
<1> HIDE DEF New
<1>2. o \in AllOptions \/ o \in New
  <2>1. PICK n \in Sims : o \in options'[n]
    BY DEF AllOptions
  <2>2. n = m => options'[n] = New
    BY <1>1 DEF FreightTypeOK
  <2>3. n # m => options'[n] = options[n]
    BY <1>1 DEF FreightTypeOK
  <2> QED
    BY <2>1, <2>2, <2>3 DEF AllOptions
<1>3. ASSUME NEW c \in call[r].candidates,
             o = Option(c, call[r].candidates, c.table \in call[r].overtaken \/ Rewriting(c.table))
      PROVE  /\ o.table = c.table /\ o.version = c.version
             /\ o.tariff = c.tariff /\ o.price = c.price
             /\ o.raced <=> (c.table \in call[r].overtaken \/ Rewriting(c.table))
  <2>1. PICK b \in BOOLEAN : b = (c.table \in call[r].overtaken \/ Rewriting(c.table))
    BY Zenon
  <2>2. o = Option(c, call[r].candidates, b)
    BY <1>3, <2>1, Zenon
  <2>3. /\ o.table = c.table /\ o.version = c.version
        /\ o.tariff = c.tariff /\ o.price = c.price /\ o.raced = b
    BY <2>2 DEF Option
  <2> QED
    BY <2>1, <2>3, Zenon
<1> QED
  BY <1>2, <1>3 DEF New

-----------------------------------------------------------------------------
(* The invariant *)

LEMMA CandidatesStep ==
  ASSUME FInv, FreightNext
  PROVE  CandidatesSound'
<1> SUFFICES ASSUME NEW q \in Calls, call'[q].pc = "store", NEW c \in call'[q].candidates
             PROVE  /\ OneRange(c.tariff, c.price.weight)
                    /\ c.table \notin call'[q].overtaken => Says(c)'
  BY DEF CandidatesSound, OneRange
<1> USE DEF FInv
<1>1. ASSUME NEW load \in Loads, ReadServices(q, load)
      PROVE  OneRange(c.tariff, c.price.weight) /\ Says(c)'
  <2>1. PICK candidates : /\ call' = [call EXCEPT ![q] = [pc |-> "store", candidates |-> candidates,
                                                       overtaken |-> {}]]
                          /\ candidates = {Candidate(s, load) : s \in {u \in Services : Eligible(u, load)}}
    BY <1>1, Zenon DEF ReadServices
  <2>2. call'[q].candidates = candidates
    <3>1. PICK x : x = [pc |-> "store", candidates |-> candidates, overtaken |-> {}]
      OBVIOUS
    <3>2. call'[q] = x
      BY <2>1, <3>1, Moves
    <3> QED
      BY <3>1, <3>2
  <2>3. PICK s \in Services : Eligible(s, load) /\ c = Candidate(s, load)
    BY <2>1, <2>2, Zenon
  <2>4. OneRange(c.tariff, c.price.weight) /\ Says(c)
    BY <2>3, CandidateSound
  <2>5. UNCHANGED table
    BY <1>1 DEF ReadServices
  <2> QED
    BY <2>4, <2>5 DEF Says, Exists
<1>2. ASSUME call[q].pc = "store", call'[q].candidates = call[q].candidates,
             call[q].overtaken \subseteq call'[q].overtaken
      PROVE  /\ OneRange(c.tariff, c.price.weight)
             /\ c.table \notin call'[q].overtaken => Says(c)'
  <2>1. OneRange(c.tariff, c.price.weight) /\ (c.table \notin call[q].overtaken => Says(c))
    BY <1>2 DEF CandidatesSound
  <2>2. ASSUME NEW r \in Calls, UpdateWrite(r), c.table \notin call'[q].overtaken
        PROVE  c.table # call[r].table
    <3>1. q # r
      BY <1>2, <2>2 DEF UpdateWrite
    <3>2. call'[q] = [pc |-> "store", candidates |-> call[q].candidates,
                     overtaken |-> call[q].overtaken \cup {call[r].table}]
      BY <1>2, <2>2, <3>1, RewriteHolds
    <3> QED
      BY <2>2, <3>2
  <2> QED
    BY <1>2, <2>1, <2>2, SaysStep
<1> QED
  BY <1>1, <1>2, ReqStep

LEMMA OptionsSoundStep ==
  ASSUME FInv, FreightNext
  PROVE  OptionsSound'
<1> SUFFICES ASSUME NEW o, o \in AllOptions'
             PROVE  /\ OneRange(o.tariff, o.price.weight)
                    /\ ~ o.raced => Says(o)'
  BY DEF OptionsSound, OneRange
<1> USE DEF FInv
<1>1. ASSUME o \in AllOptions
      PROVE  OneRange(o.tariff, o.price.weight) /\ (~ o.raced => Says(o)')
  <2>1. OneRange(o.tariff, o.price.weight) /\ (~ o.raced => Says(o))
    BY <1>1, Zenon DEF OptionsSound
  <2>2. ASSUME ~ o.raced, NEW r \in Calls, UpdateWrite(r)
        PROVE  o.table # call[r].table
    BY <1>1, <2>2, Zenon DEF RewritesCounted, UpdateWrite
  <2> QED
    BY <2>1, <2>2, SaysStep, Zenon
<1>2. ASSUME NEW r \in Calls, NEW m \in Sims, StoreSimulation(r, m), o \notin AllOptions
      PROVE  OneRange(o.tariff, o.price.weight) /\ (~ o.raced => Says(o)')
  <2>1. PICK c \in call[r].candidates :
              /\ o.table = c.table /\ o.version = c.version
              /\ o.tariff = c.tariff /\ o.price = c.price
              /\ o.raced <=> (c.table \in call[r].overtaken \/ Rewriting(c.table))
    BY <1>2, StoredOptions, Zenon
  <2>2. call[r].pc = "store" /\ UNCHANGED table
    BY <1>2 DEF StoreSimulation
  <2>3. OneRange(c.tariff, c.price.weight) /\ (c.table \notin call[r].overtaken => Says(c))
    BY <2>2 DEF CandidatesSound
  <2>4. ~ o.raced => c.table \notin call[r].overtaken
    BY <2>1, Zenon
  <2>5. Says(c) => Says(o)'
    BY <2>1, <2>2 DEF Says, Exists
  <2> QED
    BY <2>1, <2>3, <2>4, <2>5, Zenon
<1>3. UNCHANGED options => o \in AllOptions
  BY DEF AllOptions
<1> QED
  BY <1>1, <1>2, <1>3, OptionsKept, Zenon

LEMMA RewritesStep ==
  ASSUME FInv, FreightNext
  PROVE  RewritesCounted'
<1> SUFFICES ASSUME NEW q \in Calls, call'[q].pc = "rewrite", NEW o, o \in AllOptions',
                    o.table = call'[q].table
             PROVE  o.raced
  BY DEF RewritesCounted
<1> USE DEF FInv
<1>1. UNCHANGED options => o \in AllOptions
  BY DEF AllOptions
<1>2. ASSUME NEW t \in Tables, NEW s \in Services, NEW st \in Statuses, NEW tf \in Tariffs,
             UpdateCheck(q, t, s, st, tf)
      PROVE  FALSE
  <2>1. PICK row : call' = [call EXCEPT ![q] = [pc |-> "rewrite", table |-> t, row |-> row]]
    BY <1>2, Zenon DEF UpdateCheck
  <2>2. call'[q] = [pc |-> "rewrite", table |-> t, row |-> row]
    BY <2>1, Moves
  <2>3. o.table = t
    BY <2>2
  <2> QED
    BY <1>1, <1>2, <2>3 DEF UpdateCheck, Used
<1>3. ASSUME call'[q] = call[q], o \in AllOptions
      PROVE  o.raced
  BY <1>3, Zenon DEF RewritesCounted
<1>4. ASSUME call'[q] = call[q], NEW r \in Calls, NEW m \in Sims, StoreSimulation(r, m), o \notin AllOptions
      PROVE  o.raced
  <2>1. PICK c \in call[r].candidates :
              /\ o.table = c.table
              /\ o.raced <=> (c.table \in call[r].overtaken \/ Rewriting(c.table))
    BY <1>4, StoredOptions, Zenon
  <2>2. Rewriting(c.table)
    BY <1>4, <2>1 DEF Rewriting
  <2> QED
    BY <2>1, <2>2, Zenon
<1> QED
  BY <1>1, <1>2, <1>3, <1>4, ReqStep, OptionsKept, Zenon

\* Candidates and options stand for what their tables say: every step of an
\* administrator or of a simulation keeps it (see FInv).
THEOREM FreightInvariant == FreightSpec => []FInv
<1>1. FreightInit => FInv
  <2> SUFFICES ASSUME FreightInit
               PROVE  FInv
    OBVIOUS
  <2>1. FreightTypeOK
    BY IdleHolds DEF FreightInit, FreightTypeOK, IsOffered, NoCall
  <2>2. CandidatesSound /\ RewritesCounted
    BY DEF FreightInit, CandidatesSound, RewritesCounted, NoCall
  <2>3. AllOptions = {}
    BY DEF FreightInit, AllOptions
  <2> QED
    BY <2>1, <2>2, <2>3 DEF FInv, OptionsSound
<1>2. FInv /\ [FreightNext]_freightVars => FInv'
  <2>1. CASE FreightNext
    BY <2>1, TypeStep, CandidatesStep, OptionsSoundStep, RewritesStep DEF FInv
  <2>2. CASE UNCHANGED freightVars
    <3>1. AllOptions' = AllOptions /\ (\A o : Says(o)' <=> Says(o)) /\ UNCHANGED call
      BY <2>2 DEF freightVars, AllOptions, Says, Exists
    <3>2. FreightTypeOK' <=> FreightTypeOK
      BY <2>2 DEF freightVars, FreightTypeOK, Exists
    <3>3. CandidatesSound' <=> CandidatesSound
      BY <3>1 DEF CandidatesSound, OneRange
    <3>4. OptionsSound' <=> OptionsSound
      BY <3>1, Zenon DEF OptionsSound, OneRange
    <3>5. RewritesCounted' <=> RewritesCounted
      BY <3>1, Zenon DEF RewritesCounted
    <3> QED
      BY <3>2, <3>3, <3>4, <3>5 DEF FInv
  <2> QED
    BY <2>1, <2>2
<1> QED
  BY <1>1, <1>2, PTL DEF FreightSpec

\* The history of simulations is kept: as long as an option did not race with an
\* updateRateTable of its table, the table and version that it names hold the
\* tariff it was priced from, because updateRateTable counts options before it
\* rewrites, and a version that is there is never inserted again.
THEOREM HistoryKept == FreightSpec => []HistoryPreserved
<1>1. FInv => HistoryPreserved
  BY Zenon DEF FInv, OptionsSound, HistoryPreserved, Says
<1> QED
  BY <1>1, FreightInvariant, PTL

\* Whatever the tariffs that administrators enter: of the ranges validateRanges
\* lets in, one applies to the weight of an option, and a second one only where
\* the columns rounded the bounds of the two to one number and the load weighs
\* that. The order in which create searches the ranges decides nowhere else.
THEOREM PricesAreUnique == FreightSpec => []OneRangeApplies
<1>1. FInv => OneRangeApplies
  BY Zenon DEF FInv, OptionsSound, OneRangeApplies, OneRange, Fits
<1> QED
  BY <1>1, FreightInvariant, PTL

-----------------------------------------------------------------------------
(* Branches, customers and carriers *)

PlaceRows ==
  [kind : {"place"}, owner : Owners, main : BOOLEAN, active : BOOLEAN, imported : BOOLEAN]

Changes ==
  [pc : {"clear", "write"}, owner : Owners, target : Places \cup {"new"}, main : BOOLEAN,
   active : BOOLEAN]

StatusChanges == [pc : {"status"}, target : Places, active : BOOLEAN]

IsParty(row) == row = None \/ row.kind \in {"customer", "carrier"}

\* A file at work, whatever its rows are.
IsWork(w) ==
  /\ w = [pc |-> w.pc, file |-> w.file, index |-> w.index, seen |-> w.seen,
          attempt |-> w.attempt, found |-> w.found]
  /\ w.pc \in {"lookup", "row", "address"}
  /\ w.file \in Files
  /\ w.found \in Parties \cup {"none"}

TypeOK ==
  /\ place \in [Places -> {None} \cup PlaceRows]
  /\ party = [i \in Parties |-> party[i]]
  /\ \A i \in Parties : IsParty(party[i])
  /\ worker = Idle \/ IsWork(worker)
  /\ req \in [Reqs -> {Idle} \cup Changes \cup StatusChanges]

Owned(p, o) == place[p] # None /\ place[p].owner = o

IsMain(p, o) == Owned(p, o) /\ place[p].main

IsImported(p, o) == Owned(p, o) /\ place[p].imported

\* Owners are never removed, and a request keeps to the place that it read.
OwnersThere ==
  /\ \A p \in Places, o \in Parties : Owned(p, o) => party[o] # None
  /\ \A r \in Reqs : req[r].pc \in {"clear", "write"} =>
       /\ req[r].owner \in Parties => party[req[r].owner] # None
       /\ req[r].target \in Places => Owned(req[r].target, req[r].owner)
  /\ \A r \in Reqs : req[r].pc = "status" => place[req[r].target] # None

\* A request is about to set the main flag of a place of o.
Setting(r, o) == req[r].pc = "write" /\ req[r].owner = o /\ req[r].main

\* Places that an import has made.
ImportedApart ==
  /\ \A o \in Parties, p, q \in Places : IsImported(p, o) /\ IsImported(q, o) => p = q
  /\ worker.pc = "address" =>
       /\ worker.found \in Parties /\ party[worker.found] # None
       /\ \A p \in Places : ~ IsImported(p, worker.found)

\* Without a race, whoever is about to set the flag has cleared the others.
MainApart ==
  \A o \in Owners \ raced :
    /\ \A p, q \in Places : IsMain(p, o) /\ IsMain(q, o) => p = q
    /\ \A r \in Reqs : Setting(r, o) =>
         /\ \A p \in Places : IsMain(p, o) => p = req[r].target
         /\ \A q \in Reqs : Setting(q, o) => q = r
    /\ worker.pc = "address" /\ worker.found = o =>
         /\ \A p \in Places : ~ IsMain(p, o)
         /\ \A r \in Reqs : ~ Setting(r, o)

\* The handler goes on with a row that exists only to update it.
MayUpdate == worker.pc = "row" /\ worker.found # "none" => worker.file.strategy = "UPDATE"

CInv == TypeOK /\ OwnersThere /\ ImportedApart /\ MainApart /\ MayUpdate

-----------------------------------------------------------------------------
(* Records *)

LEMMA PlaceBuilt ==
  ASSUME NEW o \in Owners, NEW m \in BOOLEAN, NEW a \in BOOLEAN, NEW i \in BOOLEAN
  PROVE  /\ Place(o, m, a, i) \in PlaceRows /\ Place(o, m, a, i) # None
         /\ Place(o, m, a, i).owner = o
         /\ Place(o, m, a, i).main = m /\ Place(o, m, a, i).imported = i
BY DEF Place, PlaceRows, None

LEMMA RowThere == \A row \in PlaceRows : row # None
<1>1. \A row \in PlaceRows : row.kind = "place"
  BY DEF PlaceRows
<1> QED
  BY <1>1 DEF None

LEMMA PartyBuilt ==
  ASSUME NEW k \in {"customer", "carrier"}, NEW c, NEW d
  PROVE  IsParty(Party(k, c, d)) /\ Party(k, c, d) # None
BY DEF Party, IsParty, None

\* What a request holds tells what it is about to do.
LEMMA Held ==
  ASSUME TypeOK, NEW r \in Reqs
  PROVE  /\ req[r].pc \in {"clear", "write"} => req[r] \in Changes
         /\ req[r].pc = "status" => req[r] \in StatusChanges
BY DEF TypeOK, Changes, StatusChanges, Idle

LEMMA Working ==
  ASSUME TypeOK, worker.pc # "idle"
  PROVE  IsWork(worker)
BY DEF TypeOK, Idle

LEMMA NextRowWork ==
  ASSUME TypeOK, worker.pc # "idle"
  PROVE  NextRow = Idle \/ (IsWork(NextRow) /\ NextRow.pc = "lookup" /\ NextRow.found = "none")
<1>1. PICK index : index = worker.index + 1
  OBVIOUS
<1>2. PICK seen : seen = worker.seen \cup {Reference(CurrentRow)}
  OBVIOUS
<1>3. PICK w : w = [worker EXCEPT !.pc = "lookup", !.index = index, !.seen = seen, !.found = "none"]
  OBVIOUS
<1>4. NextRow = Idle \/ NextRow = w
  BY <1>1, <1>2, <1>3, Zenon DEF NextRow
<1>5. IsWork(w) /\ w.pc = "lookup" /\ w.found = "none"
  BY <1>3, Working DEF IsWork
<1> QED
  BY <1>4, <1>5

-----------------------------------------------------------------------------
(* Steps that leave a part of the invariant alone *)

LEMMA OwnersKept ==
  ASSUME OwnersThere,
         \A i \in Parties : party[i] # None => party'[i] # None,
         \A p \in Places : \A o : Owned(p, o)' => Owned(p, o),
         \A p \in Places : \A o : Owned(p, o) => Owned(p, o)',
         \A r \in Reqs : req'[r] = req[r] \/ req'[r].pc = "idle"
                         \/ (req[r].pc = "clear" /\ req' = [req EXCEPT ![r].pc = "write"]
                             /\ req'[r].owner = req[r].owner /\ req'[r].target = req[r].target),
         TypeOK
  PROVE  OwnersThere'
<1>1. \A p \in Places, o \in Parties : Owned(p, o)' => party'[o] # None
  BY DEF OwnersThere
<1>2. ASSUME NEW r \in Reqs, req'[r].pc \in {"clear", "write"}
      PROVE  /\ req'[r].owner \in Parties => party'[req'[r].owner] # None
             /\ req'[r].target \in Places =>
                  /\ place'[req'[r].target] # None
                  /\ place'[req'[r].target].owner = req'[r].owner
  <2>1. req[r].pc \in {"clear", "write"} /\ req'[r].owner = req[r].owner /\ req'[r].target = req[r].target
    BY <1>2
  <2>2. PICK o, t : o = req[r].owner /\ t = req[r].target
    OBVIOUS
  <2>3. t \in Places => Owned(t, o)'
    BY <2>1, <2>2 DEF OwnersThere
  <2>4. o \in Parties => party'[o] # None
    BY <2>1, <2>2 DEF OwnersThere
  <2> QED
    BY <2>1, <2>2, <2>3, <2>4 DEF Owned
<1>3. ASSUME NEW r \in Reqs, req'[r].pc = "status"
      PROVE  place'[req'[r].target] # None
  <2>1. req[r].pc = "status" /\ req'[r] = req[r]
    <3>1. ~ (req[r].pc = "clear" /\ req' = [req EXCEPT ![r].pc = "write"])
      BY <1>3 DEF TypeOK, Changes, StatusChanges, Idle
    <3> QED
      BY <1>3, <3>1
  <2>2. PICK t, o : t \in Places /\ t = req[r].target /\ Owned(t, o)
    BY <2>1, Held DEF OwnersThere, StatusChanges, Owned
  <2>3. Owned(t, o)'
    BY <2>2
  <2> QED
    BY <2>1, <2>2, <2>3 DEF Owned
<1> QED
  BY <1>1, <1>2, <1>3 DEF OwnersThere, Owned

LEMMA ImportedKept ==
  ASSUME ImportedApart,
         \A i \in Parties : party[i] # None => party'[i] # None,
         \A p \in Places, o \in Parties : IsImported(p, o)' => IsImported(p, o),
         worker'.pc = "address" => worker.pc = "address" /\ worker'.found = worker.found
  PROVE  ImportedApart'
<1>1. \A o \in Parties, p, q \in Places : IsImported(p, o)' /\ IsImported(q, o)' => p = q
  BY Zenon DEF ImportedApart
<1>2. ASSUME worker'.pc = "address"
      PROVE  /\ worker'.found \in Parties /\ party'[worker'.found] # None
             /\ \A p \in Places : ~ IsImported(p, worker.found)'
  <2>1. PICK o \in Parties : o = worker.found /\ worker'.found = o
    BY <1>2 DEF ImportedApart
  <2>2. party[o] # None /\ \A p \in Places : ~ IsImported(p, o)
    BY <1>2, <2>1 DEF ImportedApart
  <2>3. \A p \in Places : ~ IsImported(p, o)'
    BY <2>2
  <2> QED
    BY <2>1, <2>2, <2>3 DEF IsImported, Owned
<1> QED
  BY <1>1, <1>2, Zenon DEF ImportedApart

LEMMA MainKept ==
  ASSUME MainApart, raced \subseteq raced',
         \A p \in Places, o \in Owners : IsMain(p, o)' => IsMain(p, o),
         \A r \in Reqs, o \in Owners : Setting(r, o)' => Setting(r, o) /\ req'[r] = req[r],
         worker'.pc = "address" => worker.pc = "address" /\ worker'.found = worker.found
  PROVE  MainApart'
<1> SUFFICES ASSUME NEW o \in Owners \ raced'
             PROVE  /\ \A p, q \in Places : IsMain(p, o)' /\ IsMain(q, o)' => p = q
                    /\ \A r \in Reqs : Setting(r, o)' =>
                         /\ \A p \in Places : IsMain(p, o)' => p = req'[r].target
                         /\ \A q \in Reqs : Setting(q, o)' => q = r
                    /\ worker'.pc = "address" /\ worker'.found = o =>
                         /\ \A p \in Places : ~ IsMain(p, o)'
                         /\ \A r \in Reqs : ~ Setting(r, o)'
  BY Zenon DEF MainApart
<1>1. o \in Owners \ raced
  OBVIOUS
<1>2. \A p, q \in Places : IsMain(p, o)' /\ IsMain(q, o)' => p = q
  BY <1>1, Zenon DEF MainApart
<1>3. ASSUME NEW r \in Reqs, Setting(r, o)'
      PROVE  /\ \A p \in Places : IsMain(p, o)' => p = req'[r].target
             /\ \A q \in Reqs : Setting(q, o)' => q = r
  <2>1. Setting(r, o) /\ req'[r] = req[r]
    BY <1>1, <1>3
  <2>2. /\ \A p \in Places : IsMain(p, o) => p = req[r].target
        /\ \A q \in Reqs : Setting(q, o) => q = r
    BY <1>1, <2>1, Zenon DEF MainApart
  <2> QED
    BY <1>1, <2>1, <2>2
<1>4. ASSUME worker'.pc = "address", worker'.found = o
      PROVE  /\ \A p \in Places : ~ IsMain(p, o)'
             /\ \A r \in Reqs : ~ Setting(r, o)'
  <2>1. worker.pc = "address" /\ worker.found = o
    BY <1>4
  <2>2. /\ \A p \in Places : ~ IsMain(p, o)
        /\ \A r \in Reqs : ~ Setting(r, o)
    BY <1>1, <2>1, Zenon DEF MainApart
  <2> QED
    BY <1>1, <2>2
<1> QED
  BY <1>2, <1>3, <1>4

-----------------------------------------------------------------------------
(* Steps of the requests *)

\* A request reads, or lets go of what it read.
LEMMA ReadStep ==
  ASSUME CInv, NEW r \in Reqs, NEW x \in {Idle} \cup Changes \cup StatusChanges,
         req' = [req EXCEPT ![r] = x], UNCHANGED <<place, party, worker, raced>>,
         x.pc # "write",
         x.pc = "clear" => /\ x.owner \in Parties => party[x.owner] # None
                           /\ x.target \in Places => Owned(x.target, x.owner),
         x.pc = "status" => place[x.target] # None
  PROVE  CInv'
<1> USE DEF CInv
<1>1. req'[r] = x /\ \A q \in Reqs \ {r} : req'[q] = req[q]
  BY DEF TypeOK
<1>2. \A p, o : /\ Owned(p, o)' <=> Owned(p, o)
                /\ IsMain(p, o)' <=> IsMain(p, o)
                /\ IsImported(p, o)' <=> IsImported(p, o)
  BY Zenon DEF Owned, IsMain, IsImported
<1>3. TypeOK'
  BY DEF TypeOK
<1>4. OwnersThere'
  <2>1. \A p \in Places, o \in Parties : Owned(p, o)' => party'[o] # None
    BY <1>2 DEF OwnersThere
  <2>2. ASSUME NEW q \in Reqs, req'[q].pc \in {"clear", "write"}
        PROVE  /\ req'[q].owner \in Parties => party'[req'[q].owner] # None
               /\ req'[q].target \in Places =>
                    /\ place'[req'[q].target] # None
                    /\ place'[req'[q].target].owner = req'[q].owner
    <3>1. CASE q = r
      BY <1>1, <2>2, <3>1 DEF Owned
    <3>2. CASE q # r
      BY <1>1, <2>2, <3>2 DEF OwnersThere, Owned
    <3> QED
      BY <3>1, <3>2
  <2>3. ASSUME NEW q \in Reqs, req'[q].pc = "status"
        PROVE  place'[req'[q].target] # None
    BY <1>1, <2>3 DEF OwnersThere
  <2> QED
    BY <2>1, <2>2, <2>3 DEF OwnersThere, Owned
<1>5. ImportedApart'
  BY <1>2, Zenon DEF ImportedApart
<1>6. \A q \in Reqs : \A o : Setting(q, o)' => Setting(q, o) /\ req'[q] = req[q]
  BY <1>1, Zenon DEF Setting
<1>7. MainApart'
  BY <1>2, <1>6, MainKept
<1>8. MayUpdate'
  BY DEF MayUpdate
<1> QED
  BY <1>3, <1>4, <1>5, <1>7, <1>8

LEMMA ManageReads ==
  ASSUME CInv, NEW r \in Reqs,
         \/ CreateBranch(r) \/ CreateAddress(r) \/ UpdateBranch(r) \/ RequestFails(r)
         \/ \E p \in Places, a \in BOOLEAN : StatusRead(r, p, a)
  PROVE  CInv'
<1>1. ASSUME NEW o \in Owners, NEW t \in Places \cup {"new"}, NEW m \in BOOLEAN, NEW a \in BOOLEAN,
             Begin(r, o, t, m, a), o \in Parties => party[o] # None, t \in Places => Owned(t, o)
      PROVE  CInv'
  <2>1. PICK x : x = [pc |-> "clear", owner |-> o, target |-> t, main |-> m, active |-> a]
    OBVIOUS
  <2>2. x \in Changes /\ x.pc = "clear" /\ x.owner = o /\ x.target = t
    BY <2>1 DEF Changes
  <2>3. req' = [req EXCEPT ![r] = x] /\ UNCHANGED <<place, party, worker, raced>>
    BY <1>1, <2>1 DEF Begin
  <2> QED
    BY <1>1, <2>2, <2>3, ReadStep
<1>2. ASSUME CreateBranch(r)
      PROVE  CInv'
  <2>1. PICK m \in BOOLEAN : Begin(r, "tenant", "new", m, TRUE)
    BY <1>2 DEF CreateBranch
  <2>2. "tenant" \in Owners /\ "tenant" \notin Parties /\ "new" \notin Places
    BY ConstantsAssumption DEF Owners
  <2> QED
    BY <1>1, <2>1, <2>2
<1>3. ASSUME CreateAddress(r)
      PROVE  CInv'
  <2>1. PICK i \in Parties, m \in BOOLEAN : party[i].kind = "customer" /\ Begin(r, i, "new", m, TRUE)
    BY <1>3 DEF CreateAddress
  <2>2. i \in Owners /\ party[i] # None /\ "new" \notin Places
    BY <2>1, ConstantsAssumption DEF Owners, None
  <2> QED
    BY <1>1, <2>1, <2>2
<1>4. ASSUME UpdateBranch(r)
      PROVE  CInv'
  <2>1. PICK p \in PlacesOf("tenant") : \E m \in BOOLEAN : Begin(r, "tenant", p, m, place[p].active)
    BY <1>4 DEF UpdateBranch
  <2>2. PICK m \in BOOLEAN : Begin(r, "tenant", p, m, place[p].active)
    BY <2>1
  <2>3. p \in Places /\ Owned(p, "tenant")
    BY DEF PlacesOf, Owned
  <2>4. place[p].active \in BOOLEAN
    BY <2>3 DEF CInv, TypeOK, PlaceRows, Owned
  <2>5. "tenant" \in Owners /\ "tenant" \notin Parties
    BY ConstantsAssumption DEF Owners
  <2> QED
    BY <1>1, <2>2, <2>3, <2>4, <2>5
<1>5. ASSUME NEW p \in Places, NEW a \in BOOLEAN, StatusRead(r, p, a)
      PROVE  CInv'
  <2>1. PICK x : x = [pc |-> "status", target |-> p, active |-> a]
    OBVIOUS
  <2>2. x \in StatusChanges /\ x.pc = "status" /\ x.target = p
    BY <2>1 DEF StatusChanges
  <2>3. /\ req' = [req EXCEPT ![r] = x] /\ UNCHANGED <<place, party, worker, raced>>
        /\ place[p] # None
    BY <1>5, <2>1 DEF StatusRead, PlacesOf
  <2> QED
    BY <2>2, <2>3, ReadStep
<1>6. ASSUME RequestFails(r)
      PROVE  CInv'
  <2>1. req' = [req EXCEPT ![r] = Idle] /\ UNCHANGED <<place, party, worker, raced>>
    BY <1>6, Zenon DEF RequestFails
  <2>2. Idle.pc = "idle"
    BY DEF Idle
  <2> QED
    BY <2>1, <2>2, ReadStep
<1> QED
  BY <1>2, <1>3, <1>4, <1>5, <1>6

\* updateMany leaves the flag of no place of the owner but the target's.
LEMMA ClearMainStep ==
  ASSUME CInv, NEW r \in Reqs, ClearMain(r)
  PROVE  CInv'
<1> USE DEF CInv
<1> DEFINE others == IF req[r].main THEN PlacesOf(req[r].owner) \ {req[r].target} ELSE {}
<1>1. req[r] \in Changes /\ req[r].pc = "clear"
  BY Held DEF ClearMain
<1>2. PICK x : x = [req[r] EXCEPT !.pc = "write"]
  OBVIOUS
<1>3. /\ x \in Changes /\ x.pc = "write" /\ x.owner = req[r].owner
      /\ x.target = req[r].target
  BY <1>1, <1>2 DEF Changes
<1>4. x.main = req[r].main
  BY <1>1, <1>2, Zenon DEF Changes
<1>5. /\ req' = [req EXCEPT ![r] = x] /\ UNCHANGED <<party, worker>>
      /\ place' = [p \in Places |-> IF p \in others THEN [place[p] EXCEPT !.main = FALSE] ELSE place[p]]
      /\ raced' = IF req[r].main /\ Overlapped(req[r].owner, r) THEN raced \cup {req[r].owner} ELSE raced
  BY <1>2 DEF ClearMain, TypeOK
<1>6. req'[r] = x /\ \A q \in Reqs \ {r} : req'[q] = req[q]
  BY <1>5 DEF TypeOK
<1>7. others \subseteq Places /\ \A p \in others : place[p] \in PlaceRows
  BY DEF PlacesOf, TypeOK
<1> HIDE DEF others
<1>8. ASSUME NEW p \in Places, p \in others
      PROVE  /\ place'[p] \in PlaceRows /\ place'[p].owner = place[p].owner
             /\ place'[p].main = FALSE /\ place'[p].imported = place[p].imported
  BY <1>5, <1>7, <1>8 DEF PlaceRows
<1>9. ASSUME NEW p \in Places, p \notin others
      PROVE  place'[p] = place[p]
  BY <1>5, <1>9
<1>10. TypeOK'
  <2>1. place' \in [Places -> {None} \cup PlaceRows]
    BY <1>5, <1>8, <1>9 DEF TypeOK
  <2>2. req' \in [Reqs -> {Idle} \cup Changes \cup StatusChanges]
    BY <1>3, <1>5 DEF TypeOK
  <2> QED
    BY <1>5, <2>1, <2>2 DEF TypeOK
<1>11. \A p \in Places : \A o : Owned(p, o)' <=> Owned(p, o)
  <2> TAKE p \in Places
  <2> TAKE o
  <2>1. CASE p \in others
    <3>1. place[p] # None /\ place'[p] # None
      BY <1>7, <1>8, <2>1, RowThere
    <3> QED
      BY <1>8, <2>1, <3>1 DEF Owned
  <2>2. CASE p \notin others
    BY <1>9, <2>2 DEF Owned
  <2> QED
    BY <2>1, <2>2
<1>12. \A p \in Places : \A o : IsImported(p, o)' <=> IsImported(p, o)
  BY <1>8, <1>9, <1>11, Zenon DEF IsImported
<1>13. \A p \in Places : \A o : IsMain(p, o)' => IsMain(p, o) /\ p \notin others
  BY <1>8, <1>9, <1>11, Zenon DEF IsMain
<1>14. OwnersThere'
  <2>1. \A q \in Reqs : \/ req'[q] = req[q]
                        \/ /\ req[q].pc = "clear" /\ req' = [req EXCEPT ![q].pc = "write"]
                           /\ req'[q].owner = req[q].owner /\ req'[q].target = req[q].target
    BY <1>1, <1>3, <1>6 DEF ClearMain
  <2> QED
    BY <1>5, <1>11, <2>1, OwnersKept
<1>15. ImportedApart'
  BY <1>5, <1>12, ImportedKept
<1>16. ASSUME NEW o \in Owners \ raced'
       PROVE  /\ \A p, q \in Places : IsMain(p, o)' /\ IsMain(q, o)' => p = q
              /\ \A s \in Reqs : Setting(s, o)' =>
                   /\ \A p \in Places : IsMain(p, o)' => p = req'[s].target
                   /\ \A q \in Reqs : Setting(q, o)' => q = s
              /\ worker'.pc = "address" /\ worker'.found = o =>
                   /\ \A p \in Places : ~ IsMain(p, o)'
                   /\ \A s \in Reqs : ~ Setting(s, o)'
  <2>1. o \in Owners \ raced
    BY <1>5, <1>16, Zenon
  <2>2. Setting(r, o)' <=> req[r].main /\ req[r].owner = o
    BY <1>3, <1>4, <1>6, Zenon DEF Setting
  <2>3. \A q \in Reqs \ {r} : Setting(q, o)' <=> Setting(q, o)
    BY <1>6, Zenon DEF Setting
  <2>4. Setting(r, o)' => ~ Overlapped(o, r)
    BY <1>5, <1>16, <2>2, Zenon
  <2>5. \A p, q \in Places : IsMain(p, o)' /\ IsMain(q, o)' => p = q
    BY <1>13, <2>1, Zenon DEF MainApart
  <2>6. ASSUME Setting(r, o)'
        PROVE  /\ \A p \in Places : IsMain(p, o)' => p = req'[r].target
               /\ \A q \in Reqs : Setting(q, o)' => q = r
               /\ ~ (worker'.pc = "address" /\ worker'.found = o)
    <3>1. ~ Overlapped(o, r) /\ req[r].owner = o /\ req[r].main
      BY <2>2, <2>4, <2>6
    <3>2. \A q \in Reqs \ {r} : ~ Setting(q, o)
      BY <3>1, Zenon DEF Overlapped, Setting
    <3>3. ASSUME NEW p \in Places, IsMain(p, o)'
          PROVE  p = req[r].target
      <4>1. p \notin others /\ Owned(p, o)
        BY <1>13, <3>3 DEF IsMain
      <4>2. p \in PlacesOf(o)
        BY <4>1 DEF Owned, PlacesOf
      <4>3. others = PlacesOf(o) \ {req[r].target}
        BY <3>1, Zenon DEF others
      <4> QED
        BY <4>1, <4>2, <4>3
    <3>4. ~ (worker.pc = "address" /\ worker.found = o)
      BY <3>1, Zenon DEF Overlapped
    <3> QED
      BY <1>3, <1>5, <1>6, <2>3, <3>2, <3>3, <3>4
  <2>7. ASSUME NEW s \in Reqs, s # r, Setting(s, o)'
        PROVE  /\ \A p \in Places : IsMain(p, o)' => p = req'[s].target
               /\ \A q \in Reqs : Setting(q, o)' => q = s
    <3>1. Setting(s, o) /\ req'[s] = req[s]
      BY <1>6, <2>3, <2>7
    <3>2. /\ \A p \in Places : IsMain(p, o) => p = req[s].target
          /\ \A q \in Reqs : Setting(q, o) => q = s
      BY <2>1, <3>1, Zenon DEF MainApart
    <3>3. ~ Setting(r, o)'
      BY <2>6, <2>7
    <3> QED
      BY <1>13, <2>3, <3>1, <3>2, <3>3
  <2>8. ASSUME worker'.pc = "address", worker'.found = o
        PROVE  /\ \A p \in Places : ~ IsMain(p, o)'
               /\ \A s \in Reqs : ~ Setting(s, o)'
    <3>1. worker.pc = "address" /\ worker.found = o
      BY <1>5, <2>8
    <3>2. /\ \A p \in Places : ~ IsMain(p, o)
          /\ \A s \in Reqs : ~ Setting(s, o)
      BY <2>1, <3>1, Zenon DEF MainApart
    <3> QED
      BY <1>13, <2>3, <2>6, <2>8, <3>2
  <2> QED
    BY <2>5, <2>6, <2>7, <2>8
<1>17. MainApart'
  BY <1>16, Zenon DEF MainApart
<1>18. MayUpdate'
  BY <1>5 DEF MayUpdate
<1> QED
  BY <1>10, <1>14, <1>15, <1>17, <1>18

\* What a new place, or one rewritten, changes for the owners.
LEMMA Rewritten ==
  ASSUME TypeOK, NEW p \in Places, NEW row \in PlaceRows, place' = [place EXCEPT ![p] = row],
         place[p] = None \/ place[p].owner = row.owner
  PROVE  /\ place' \in [Places -> {None} \cup PlaceRows]
         /\ place'[p] = row
         /\ \A q \in Places : \A o : Owned(q, o) => Owned(q, o)'
         /\ \A q \in Places : \A o : Owned(q, o)' => Owned(q, o) \/ (q = p /\ o = row.owner)
         /\ \A q \in Places : \A o : q # p =>
              (IsMain(q, o)' => IsMain(q, o)) /\ (IsImported(q, o)' => IsImported(q, o))
<1>1. place' \in [Places -> {None} \cup PlaceRows] /\ place'[p] = row
  BY DEF TypeOK
<1>2. \A q \in Places : q # p => place'[q] = place[q]
  BY DEF TypeOK
<1>3. row # None
  BY RowThere
<1>4. ASSUME NEW q \in Places, NEW o, Owned(q, o)
      PROVE  Owned(q, o)'
  BY <1>1, <1>2, <1>3, <1>4 DEF Owned
<1>5. ASSUME NEW q \in Places, NEW o, Owned(q, o)'
      PROVE  Owned(q, o) \/ (q = p /\ o = row.owner)
  BY <1>1, <1>2, <1>5 DEF Owned
<1>6. \A q \in Places : \A o : q # p =>
        (IsMain(q, o)' => IsMain(q, o)) /\ (IsImported(q, o)' => IsImported(q, o))
  BY <1>2, Zenon DEF IsMain, IsImported, Owned
<1> QED
  BY <1>1, <1>4, <1>5, <1>6

LEMMA WritePlaceStep ==
  ASSUME CInv, NEW r \in Reqs, NEW p \in Places, WritePlace(r, p)
  PROVE  CInv'
<1> USE DEF CInv
<1>1. req[r] \in Changes /\ req[r].pc = "write"
  BY Held DEF WritePlace
<1> DEFINE o == req[r].owner
           row == Place(o, req[r].main, req[r].active, FALSE)
<1>2. o \in Owners /\ req[r].main \in BOOLEAN /\ req[r].active \in BOOLEAN
  BY <1>1 DEF Changes
<1>3. /\ row \in PlaceRows /\ row.owner = o
      /\ row.main = req[r].main /\ row.imported = FALSE
  <2>1. FALSE \in BOOLEAN
    OBVIOUS
  <2> QED
    <3>1. PICK u \in Owners : u = o
      BY <1>2
    <3>2. PICK m \in BOOLEAN : m = req[r].main
      BY <1>2, Zenon
    <3>3. PICK a \in BOOLEAN : a = req[r].active
      BY <1>2, Zenon
    <3>4. row = Place(u, m, a, FALSE)
      BY <3>1, <3>2, <3>3, Zenon
    <3> HIDE DEF row, o
    <3>5. /\ Place(u, m, a, FALSE) \in PlaceRows
          /\ Place(u, m, a, FALSE).owner = u
          /\ Place(u, m, a, FALSE).main = m /\ Place(u, m, a, FALSE).imported = FALSE
      BY DEF Place, PlaceRows
    <3> QED
      BY <3>1, <3>2, <3>4, <3>5, Zenon
<1>4. /\ place' = [place EXCEPT ![p] = row]
      /\ req' = [req EXCEPT ![r] = Idle] /\ UNCHANGED <<party, worker, raced>>
  BY DEF WritePlace
<1>5. place[p] = None \/ (Owned(p, o) /\ p = req[r].target)
  BY <1>1 DEF WritePlace, OwnersThere
<1>6. req'[r] = Idle /\ \A q \in Reqs \ {r} : req'[q] = req[q]
  BY <1>4 DEF TypeOK
<1> HIDE DEF row
<1>7. /\ place' \in [Places -> {None} \cup PlaceRows]
      /\ place'[p] = row
      /\ \A q \in Places : \A u : Owned(q, u) => Owned(q, u)'
      /\ \A q \in Places : \A u : Owned(q, u)' => Owned(q, u) \/ (q = p /\ u = o)
      /\ \A q \in Places : \A u : q # p =>
           (IsMain(q, u)' => IsMain(q, u)) /\ (IsImported(q, u)' => IsImported(q, u))
  <2>1. place[p] = None \/ place[p].owner = row.owner
    BY <1>3, <1>5 DEF Owned
  <2> QED
    BY <1>3, <1>4, <2>1, Rewritten
<1>8. /\ \A u : ~ IsImported(p, u)'
      /\ \A u : IsMain(p, u)' => u = o /\ req[r].main
  BY <1>3, <1>7, Zenon DEF IsImported, IsMain, Owned
<1>9. TypeOK'
  <2>1. req' \in [Reqs -> {Idle} \cup Changes \cup StatusChanges]
    BY <1>4 DEF TypeOK
  <2> QED
    BY <1>4, <1>7, <2>1 DEF TypeOK
<1>10. OwnersThere'
  <2>1. \A q \in Places, u \in Parties : Owned(q, u)' => party'[u] # None
    <3>1. o \in Parties => party[o] # None
      BY <1>1 DEF OwnersThere
    <3>2. \A q \in Places, u \in Parties : Owned(q, u) => party[u] # None
      BY DEF OwnersThere
    <3> QED
      BY <1>4, <1>7, <3>1, <3>2
  <2>2. ASSUME NEW q \in Reqs, req'[q].pc \in {"clear", "write"}
        PROVE  /\ req'[q].owner \in Parties => party'[req'[q].owner] # None
               /\ req'[q].target \in Places =>
                    /\ place'[req'[q].target] # None
                    /\ place'[req'[q].target].owner = req'[q].owner
    <3>1. q # r /\ req'[q] = req[q]
      BY <1>6, <2>2 DEF Idle
    <3>2. PICK u, t : u = req[q].owner /\ t = req[q].target
      OBVIOUS
    <3>3. t \in Places => Owned(t, u)'
      BY <1>7, <2>2, <3>1, <3>2 DEF OwnersThere
    <3>4. u \in Parties => party[u] # None
      BY <2>2, <3>1, <3>2 DEF OwnersThere
    <3> QED
      BY <1>4, <3>1, <3>2, <3>3, <3>4 DEF Owned
  <2>3. ASSUME NEW q \in Reqs, req'[q].pc = "status"
        PROVE  place'[req'[q].target] # None
    <3>1. q # r /\ req'[q] = req[q]
      BY <1>6, <2>3 DEF Idle
    <3>2. PICK t, u : t \in Places /\ t = req[q].target /\ Owned(t, u)
      BY <2>3, <3>1, Held DEF OwnersThere, StatusChanges, Owned
    <3>3. Owned(t, u)'
      BY <1>7, <3>2
    <3> QED
      BY <3>1, <3>2, <3>3 DEF Owned
  <2> QED
    BY <2>1, <2>2, <2>3 DEF OwnersThere, Owned
<1>11. ImportedApart'
  <2>1. \A q \in Places, u \in Parties : IsImported(q, u)' => IsImported(q, u)
    BY <1>7, <1>8
  <2> QED
    BY <1>4, <2>1, ImportedKept
<1>12. ASSUME NEW u \in Owners \ raced'
       PROVE  /\ \A q, s \in Places : IsMain(q, u)' /\ IsMain(s, u)' => q = s
              /\ \A s \in Reqs : Setting(s, u)' =>
                   /\ \A q \in Places : IsMain(q, u)' => q = req'[s].target
                   /\ \A q \in Reqs : Setting(q, u)' => q = s
              /\ worker'.pc = "address" /\ worker'.found = u =>
                   /\ \A q \in Places : ~ IsMain(q, u)'
                   /\ \A s \in Reqs : ~ Setting(s, u)'
  <2>1. u \in Owners \ raced
    BY <1>4, <1>12
  <2>2. \A s \in Reqs : Setting(s, u)' => s # r /\ Setting(s, u) /\ req'[s] = req[s]
    <3>1. ~ Setting(r, u)'
      BY <1>6 DEF Setting, Idle
    <3>2. \A s \in Reqs : s # r => (Setting(s, u)' => Setting(s, u))
      BY <1>6, Zenon DEF Setting
    <3> QED
      BY <1>6, <3>1, <3>2
  <2>3. CASE u = o /\ req[r].main
    <3>1. Setting(r, u)
      BY <1>1, <2>3 DEF Setting
    <3>2. /\ \A q \in Places : IsMain(q, u) => q = req[r].target
          /\ \A q \in Reqs : Setting(q, u) => q = r
          /\ ~ (worker.pc = "address" /\ worker.found = u)
      BY <2>1, <3>1, Zenon DEF MainApart
    <3>3. \A q \in Places : IsMain(q, u)' => q = p
      <4>1. ASSUME NEW q \in Places, IsMain(q, u)', q # p
            PROVE  FALSE
        <5>1. IsMain(q, u) /\ q = req[r].target
          BY <1>7, <3>2, <4>1
        <5>2. req[r].target # "new"
          BY <5>1, ConstantsAssumption
        <5> QED
          BY <4>1, <5>1, <5>2 DEF WritePlace
      <4> QED
        BY <4>1
    <3>4. \A s \in Reqs : ~ Setting(s, u)'
      BY <2>2, <3>2
    <3> QED
      BY <1>4, <3>2, <3>3, <3>4
  <2>4. CASE ~ (u = o /\ req[r].main)
    <3>1. \A q \in Places : IsMain(q, u)' => IsMain(q, u)
      BY <1>7, <1>8, <2>4
    <3>2. \A q, s \in Places : IsMain(q, u)' /\ IsMain(s, u)' => q = s
      BY <2>1, <3>1, Zenon DEF MainApart
    <3>3. ASSUME NEW s \in Reqs, Setting(s, u)'
          PROVE  /\ \A q \in Places : IsMain(q, u)' => q = req'[s].target
                 /\ \A q \in Reqs : Setting(q, u)' => q = s
      <4>1. /\ \A q \in Places : IsMain(q, u) => q = req[s].target
            /\ \A q \in Reqs : Setting(q, u) => q = s
        BY <2>1, <2>2, <3>3, Zenon DEF MainApart
      <4> QED
        BY <2>2, <3>1, <3>3, <4>1
    <3>4. ASSUME worker'.pc = "address", worker'.found = u
          PROVE  /\ \A q \in Places : ~ IsMain(q, u)'
                 /\ \A s \in Reqs : ~ Setting(s, u)'
      <4>1. worker.pc = "address" /\ worker.found = u
        BY <1>4, <3>4
      <4>2. /\ \A q \in Places : ~ IsMain(q, u)
            /\ \A s \in Reqs : ~ Setting(s, u)
        BY <2>1, <4>1, Zenon DEF MainApart
      <4> QED
        BY <2>2, <3>1, <4>2
    <3> QED
      BY <3>2, <3>3, <3>4
  <2> QED
    BY <2>3, <2>4
<1>13. MainApart'
  BY <1>12, Zenon DEF MainApart
<1>14. MayUpdate'
  BY <1>4 DEF MayUpdate
<1> QED
  BY <1>9, <1>10, <1>11, <1>13, <1>14

LEMMA StatusWriteStep ==
  ASSUME CInv, NEW r \in Reqs, StatusWrite(r)
  PROVE  CInv'
<1> USE DEF CInv
<1>1. PICK p \in Places : p = req[r].target /\ place[p] # None
  BY Held DEF StatusWrite, StatusChanges, OwnersThere
<1>2. place[p] \in PlaceRows
  BY <1>1 DEF TypeOK
<1>3. PICK row : row = [place[p] EXCEPT !.active = req[r].active]
  OBVIOUS
<1>4. req[r].active \in BOOLEAN
  BY Held DEF StatusWrite, StatusChanges
<1>5. /\ row \in PlaceRows /\ row.owner = place[p].owner
      /\ row.main = place[p].main /\ row.imported = place[p].imported
  BY <1>2, <1>3, <1>4 DEF PlaceRows
<1>6. /\ place' = [place EXCEPT ![p] = row]
      /\ req' = [req EXCEPT ![r] = Idle] /\ UNCHANGED <<party, worker, raced>>
  BY <1>1, <1>3 DEF StatusWrite, TypeOK
<1>7. req'[r] = Idle /\ \A q \in Reqs \ {r} : req'[q] = req[q]
  BY <1>6 DEF TypeOK
<1>8. /\ place' \in [Places -> {None} \cup PlaceRows]
      /\ place'[p] = row
      /\ \A q \in Places : \A u : Owned(q, u) => Owned(q, u)'
      /\ \A q \in Places : \A u : Owned(q, u)' => Owned(q, u) \/ (q = p /\ u = row.owner)
      /\ \A q \in Places : \A u : q # p =>
           (IsMain(q, u)' => IsMain(q, u)) /\ (IsImported(q, u)' => IsImported(q, u))
  BY <1>5, <1>6, Rewritten
<1>9. \A q \in Places : \A u : Owned(q, u)' => Owned(q, u)
  BY <1>1, <1>5, <1>8 DEF Owned
<1>10. \A q \in Places : \A u : /\ IsMain(q, u)' => IsMain(q, u)
                                /\ IsImported(q, u)' => IsImported(q, u)
  BY <1>5, <1>8, <1>9, Zenon DEF IsMain, IsImported
<1>11. TypeOK'
  <2>1. req' \in [Reqs -> {Idle} \cup Changes \cup StatusChanges]
    BY <1>6 DEF TypeOK
  <2> QED
    BY <1>6, <1>8, <2>1 DEF TypeOK
<1>12. OwnersThere'
  <2>1. \A q \in Reqs : req'[q] = req[q] \/ req'[q].pc = "idle"
    BY <1>7 DEF Idle
  <2> QED
    BY <1>6, <1>8, <1>9, <2>1, OwnersKept
<1>13. ImportedApart'
  <2>1. \A q \in Places, o \in Parties : IsImported(q, o)' => IsImported(q, o)
    BY <1>10, Zenon
  <2> QED
    BY <1>6, <2>1, ImportedKept
<1>14. MainApart'
  <2>0. \A q \in Places, o \in Owners : IsMain(q, o)' => IsMain(q, o)
    BY <1>10, Zenon
  <2>1. \A q \in Reqs : \A o : Setting(q, o)' => q # r
    BY <1>7 DEF Setting, Idle
  <2>2. \A q \in Reqs : \A o : Setting(q, o)' => Setting(q, o) /\ req'[q] = req[q]
    BY <1>7, <2>1, Zenon DEF Setting
  <2> QED
    BY <1>6, <2>0, <2>2, MainKept
<1>15. MayUpdate'
  BY <1>6 DEF MayUpdate
<1> QED
  BY <1>11, <1>12, <1>13, <1>14, <1>15

-----------------------------------------------------------------------------
(* Steps of the users and of the import that leave the places alone *)

LEMMA PlacesStay ==
  ASSUME CInv, UNCHANGED <<place, raced, req>>,
         party' = [i \in Parties |-> party'[i]],
         \A i \in Parties : IsParty(party'[i]) /\ (party[i] # None => party'[i] # None),
         worker' = Idle \/ IsWork(worker'),
         worker'.pc = "address" => worker.pc = "address" /\ worker'.found = worker.found,
         worker'.pc = "row" /\ worker'.found # "none" => worker'.file.strategy = "UPDATE"
  PROVE  CInv'
<1> USE DEF CInv
<1>1. \A p, o : /\ Owned(p, o)' <=> Owned(p, o)
                /\ IsMain(p, o)' <=> IsMain(p, o)
                /\ IsImported(p, o)' <=> IsImported(p, o)
  BY Zenon DEF Owned, IsMain, IsImported
<1>2. TypeOK'
  BY DEF TypeOK
<1>3. OwnersThere'
  BY <1>1, OwnersKept
<1>4. ImportedApart'
  BY <1>1, ImportedKept
<1>5. MainApart'
  <2>1. \A r \in Reqs : \A o : Setting(r, o)' <=> Setting(r, o)
    BY Zenon DEF Setting
  <2> QED
    BY <1>1, <2>1, MainKept
<1>6. MayUpdate'
  BY DEF MayUpdate
<1> QED
  BY <1>2, <1>3, <1>4, <1>5, <1>6

LEMMA PartyWritten ==
  ASSUME TypeOK, NEW i \in Parties, NEW row, IsParty(row), row # None \/ row = party[i],
         party' = [party EXCEPT ![i] = row]
  PROVE  /\ party' = [j \in Parties |-> party'[j]]
         /\ \A j \in Parties : IsParty(party'[j]) /\ (party[j] # None => party'[j] # None)
         /\ party'[i] = row /\ \A j \in Parties : j # i => party'[j] = party[j]
BY DEF TypeOK

LEMMA ManagePartiesStep ==
  ASSUME CInv, ManageParties
  PROVE  CInv'
<1> USE DEF CInv
<1>0. PICK i \in Parties, k \in {"customer", "carrier"} : \E c, d :
        party' = [party EXCEPT ![i] = Party(k, c, d)] /\ UNCHANGED <<place, worker, raced, req>>
  <2>1. PICK i \in Parties : \E e \in Entered :
          \/ CreateCustomer(i, e.document) \/ UpdateCustomer(i, e.document)
          \/ CreateCarrier(i, e.code, e.document) \/ UpdateCarrier(i, e.code, e.document)
    BY DEF ManageParties
  <2>2. PICK e \in Entered :
          \/ CreateCustomer(i, e.document) \/ UpdateCustomer(i, e.document)
          \/ CreateCarrier(i, e.code, e.document) \/ UpdateCarrier(i, e.code, e.document)
    BY <2>1
  <2>3. \E k \in {"customer", "carrier"} : \E c, d :
          party' = [party EXCEPT ![i] = Party(k, c, d)] /\ UNCHANGED <<place, worker, raced, req>>
    <3>1. ASSUME NEW k \in {"customer", "carrier"}, NEW c, NEW d,
                 Insert(i, Party(k, c, d)) \/ ReplaceKeys(i, Party(k, c, d))
          PROVE  party' = [party EXCEPT ![i] = Party(k, c, d)] /\ UNCHANGED <<place, worker, raced, req>>
      BY <3>1, Zenon DEF Insert, ReplaceKeys
    <3>2. "customer" \in {"customer", "carrier"} /\ "carrier" \in {"customer", "carrier"}
      OBVIOUS
    <3> QED
      BY <2>2, <3>1, <3>2, Zenon DEF CreateCustomer, UpdateCustomer, CreateCarrier, UpdateCarrier
  <2> QED
    BY <2>3
<1>1. PICK c, d : party' = [party EXCEPT ![i] = Party(k, c, d)] /\ UNCHANGED <<place, worker, raced, req>>
  BY <1>0
<1>2. IsParty(Party(k, c, d)) /\ Party(k, c, d) # None
  BY PartyBuilt
<1>3. /\ party' = [j \in Parties |-> party'[j]]
      /\ \A j \in Parties : IsParty(party'[j]) /\ (party[j] # None => party'[j] # None)
  BY <1>1, <1>2, PartyWritten
<1>4. worker' = Idle \/ IsWork(worker')
  BY <1>1 DEF TypeOK
<1> QED
  BY <1>1, <1>3, <1>4, PlacesStay DEF MayUpdate

\* The keys that a row of a file leaves.
LEMMA RowOfParty ==
  ASSUME TypeOK, NEW i \in Parties, NEW row
  PROVE  /\ IsParty(RowOf(i, row))
         /\ RowOf(i, row) # None
BY PartyBuilt DEF RowOf, TypeOK

LEMMA ImportReads ==
  ASSUME CInv, UNCHANGED <<place, party, raced, req>>, worker' = Idle \/ IsWork(worker'),
         worker'.pc # "address",
         worker'.pc = "row" /\ worker'.found # "none" => worker'.file.strategy = "UPDATE"
  PROVE  CInv'
<1> USE DEF CInv
<1>1. /\ party' = [i \in Parties |-> party'[i]]
      /\ \A i \in Parties : IsParty(party'[i]) /\ (party[i] # None => party'[i] # None)
  BY DEF TypeOK
<1> QED
  BY <1>1, PlacesStay

LEMMA ImportReadSteps ==
  ASSUME CInv, \/ \E f \in Files : StartFile(f)
               \/ RefuseRow \/ Lookup \/ AttemptFails
  PROVE  CInv'
<1> USE DEF CInv
<1>1. ASSUME NEW f \in Files, StartFile(f)
      PROVE  CInv'
  <2>1. PICK w : w = [pc |-> "lookup", file |-> f, index |-> 1, seen |-> {}, attempt |-> 1, found |-> "none"]
    OBVIOUS
  <2>2. IsWork(w) /\ w.pc = "lookup"
    BY <2>1 DEF IsWork
  <2>3. worker' = w /\ UNCHANGED <<place, party, raced, req>>
    BY <1>1, <2>1 DEF StartFile
  <2> QED
    BY <2>2, <2>3, ImportReads
<1>2. ASSUME RefuseRow
      PROVE  CInv'
  <2>1. worker.pc # "idle" /\ worker' = NextRow /\ UNCHANGED <<place, party, raced, req>>
    BY <1>2 DEF RefuseRow
  <2>2. (worker' = Idle \/ IsWork(worker')) /\ worker'.pc \in {"idle", "lookup"}
    BY <2>1, NextRowWork DEF Idle
  <2> QED
    BY <2>1, <2>2, ImportReads
<1>3. ASSUME Lookup
      PROVE  CInv'
  <2>1. PICK found : found = IF FindExisting(CurrentRow) = {} THEN "none"
                             ELSE CHOOSE i \in FindExisting(CurrentRow) : TRUE
    OBVIOUS
  <2>2. FindExisting(CurrentRow) \subseteq Parties
    BY DEF FindExisting
  <2>3. /\ found \in Parties \cup {"none"}
        /\ found # "none" => FindExisting(CurrentRow) # {}
    BY <2>1, <2>2
  <2>4. PICK w : w = [worker EXCEPT !.pc = "row", !.found = found]
    OBVIOUS
  <2>5. IsWork(worker)
    BY <1>3, Working DEF Lookup
  <2>6. IsWork(w) /\ w.pc = "row" /\ w.found = found /\ w.file = worker.file
    BY <2>3, <2>4, <2>5 DEF IsWork
  <2>7. worker' = w /\ UNCHANGED <<place, party, raced, req>>
    BY <1>3, <2>1, <2>4 DEF Lookup
  <2>8. found # "none" => worker.file.strategy = "UPDATE"
    BY <1>3, <2>3 DEF Lookup
  <2> QED
    BY <2>6, <2>7, <2>8, ImportReads
<1>4. ASSUME AttemptFails
      PROVE  CInv'
  <2>1. PICK attempt : attempt = worker.attempt + 1
    OBVIOUS
  <2>2. PICK w : w = [worker EXCEPT !.pc = "lookup", !.index = 1, !.seen = {},
                                    !.attempt = attempt, !.found = "none"]
    OBVIOUS
  <2>3. IsWork(worker)
    BY <1>4, Working DEF AttemptFails
  <2>4. IsWork(w) /\ w.pc = "lookup"
    BY <2>2, <2>3 DEF IsWork
  <2>5. (worker' = Idle \/ worker' = w) /\ UNCHANGED <<place, party, raced, req>>
    BY <1>4, <2>1, <2>2, Zenon DEF AttemptFails
  <2> QED
    BY <2>4, <2>5, ImportReads DEF Idle
<1> QED
  BY <1>1, <1>2, <1>3, <1>4

LEMMA UpdateRowStep ==
  ASSUME CInv, UpdateRow
  PROVE  CInv'
<1> USE DEF CInv
<1>1. worker.pc # "idle" /\ worker.found \in Parties
  BY Working DEF UpdateRow, IsWork
<1>2. PICK i \in Parties : i = worker.found
  BY <1>1
<1>3. PICK row : row = RowOf(i, CurrentRow)
  OBVIOUS
<1>4. IsParty(row) /\ row # None
  BY <1>3, RowOfParty
<1>5. party' = [party EXCEPT ![i] = row] /\ worker' = NextRow /\ UNCHANGED <<place, raced, req>>
  BY <1>2, <1>3 DEF UpdateRow
<1>6. /\ party' = [j \in Parties |-> party'[j]]
      /\ \A j \in Parties : IsParty(party'[j]) /\ (party[j] # None => party'[j] # None)
  BY <1>4, <1>5, PartyWritten
<1>7. (worker' = Idle \/ IsWork(worker')) /\ worker'.pc \in {"idle", "lookup"}
  BY <1>1, <1>5, NextRowWork DEF Idle
<1> QED
  BY <1>5, <1>6, <1>7, PlacesStay

\* Who is created has no place yet, and no request is about to give it one.
LEMMA CreateRowStep ==
  ASSUME CInv, NEW i \in Parties, CreateRow(i)
  PROVE  CInv'
<1> USE DEF CInv
<1>1. PICK row : row = RowOf(i, CurrentRow)
  OBVIOUS
<1>2. IsParty(row) /\ row # None
  BY <1>1, RowOfParty
<1>3. party' = [party EXCEPT ![i] = row] /\ UNCHANGED <<place, raced, req>>
  BY <1>1 DEF CreateRow
<1>4. /\ party' = [j \in Parties |-> party'[j]]
      /\ \A j \in Parties : IsParty(party'[j]) /\ (party[j] # None => party'[j] # None)
      /\ party'[i] = row
  BY <1>2, <1>3, PartyWritten
<1>5. PICK w : w = [worker EXCEPT !.pc = "address", !.found = i]
  OBVIOUS
<1>6. worker' = w \/ worker' = NextRow
  BY <1>5, Zenon DEF CreateRow
<1>7. worker.pc = "row" /\ party[i] = None
  BY DEF CreateRow
<1>8. IsWork(w) /\ w.pc = "address" /\ w.found = i
  BY <1>5, <1>7, Working DEF IsWork
<1>9. CASE worker' = NextRow
  <2>1. (worker' = Idle \/ IsWork(worker')) /\ worker'.pc \in {"idle", "lookup"}
    BY <1>7, <1>9, NextRowWork DEF Idle
  <2> QED
    BY <1>3, <1>4, <2>1, PlacesStay
<1>10. CASE worker' = w
  <2>1. /\ \A p \in Places : ~ Owned(p, i)
        /\ \A r \in Reqs : ~ Setting(r, i)
    BY <1>7 DEF OwnersThere, Setting
  <2>2. \A p, o : /\ Owned(p, o)' <=> Owned(p, o)
                  /\ IsMain(p, o)' <=> IsMain(p, o)
                  /\ IsImported(p, o)' <=> IsImported(p, o)
    BY <1>3, Zenon DEF Owned, IsMain, IsImported
  <2>3. TypeOK'
    BY <1>3, <1>4, <1>8, <1>10 DEF TypeOK
  <2>4. OwnersThere'
    BY <1>3, <1>4, <2>2, OwnersKept
  <2>5. ImportedApart'
    <3>1. \A o \in Parties, p, q \in Places : IsImported(p, o)' /\ IsImported(q, o)' => p = q
      BY <2>2, Zenon DEF ImportedApart
    <3>2. \A p \in Places : ~ IsImported(p, i)'
      BY <2>1, <2>2, Zenon DEF IsImported
    <3>3. worker'.found = i /\ party'[i] # None
      BY <1>2, <1>4, <1>8, <1>10
    <3>4. \A p \in Places : ~ (place'[p] # None /\ place'[p].owner = worker'.found /\ place'[p].imported)
      BY <3>2, <3>3, Zenon DEF IsImported, Owned
    <3> QED
      BY <3>1, <3>3, <3>4, Zenon DEF ImportedApart, IsImported, Owned
  <2>6. MainApart'
    <3> SUFFICES ASSUME NEW o \in Owners \ raced'
                 PROVE  /\ \A p, q \in Places : IsMain(p, o)' /\ IsMain(q, o)' => p = q
                        /\ \A r \in Reqs : Setting(r, o)' =>
                             /\ \A p \in Places : IsMain(p, o)' => p = req'[r].target
                             /\ \A q \in Reqs : Setting(q, o)' => q = r
                        /\ worker'.pc = "address" /\ worker'.found = o =>
                             /\ \A p \in Places : ~ IsMain(p, o)'
                             /\ \A r \in Reqs : ~ Setting(r, o)'
      BY Zenon DEF MainApart
    <3>1. o \in Owners \ raced
      BY <1>3
    <3>2. \A r \in Reqs : Setting(r, o)' <=> Setting(r, o)
      BY <1>3, Zenon DEF Setting
    <3>3. /\ \A p, q \in Places : IsMain(p, o)' /\ IsMain(q, o)' => p = q
          /\ \A r \in Reqs : Setting(r, o)' =>
               /\ \A p \in Places : IsMain(p, o)' => p = req'[r].target
               /\ \A q \in Reqs : Setting(q, o)' => q = r
      BY <1>3, <2>2, <3>1, <3>2, Zenon DEF MainApart
    <3>4. ASSUME worker'.found = o
          PROVE  /\ \A p \in Places : ~ IsMain(p, o)'
                 /\ \A r \in Reqs : ~ Setting(r, o)'
      <4>1. o = i
        BY <1>8, <1>10, <3>4
      <4> QED
        BY <2>1, <2>2, <3>2, <4>1, Zenon DEF IsMain
    <3> QED
      BY <3>3, <3>4
  <2>7. MayUpdate'
    BY <1>8, <1>10 DEF MayUpdate
  <2> QED
    BY <2>3, <2>4, <2>5, <2>6, <2>7
<1> QED
  BY <1>6, <1>9, <1>10

LEMMA CreateRowAddressStep ==
  ASSUME CInv, NEW p \in Places, CreateRowAddress(p)
  PROVE  CInv'
<1> USE DEF CInv
<1>1. PICK o \in Parties : o = worker.found
  BY DEF CreateRowAddress, ImportedApart
<1>2. PICK row : row = Place(o, TRUE, TRUE, TRUE)
  OBVIOUS
<1>3. row \in PlaceRows /\ row.owner = o
  BY <1>2 DEF Place, PlaceRows, Owners
<1>4. /\ place' = [place EXCEPT ![p] = row] /\ place[p] = None
      /\ worker' = NextRow /\ worker.pc = "address" /\ UNCHANGED <<party, raced, req>>
  BY <1>1, <1>2 DEF CreateRowAddress
<1>5. (worker' = Idle \/ IsWork(worker')) /\ worker'.pc \in {"idle", "lookup"}
  BY <1>4, NextRowWork DEF Idle
<1>6. /\ place' \in [Places -> {None} \cup PlaceRows]
      /\ place'[p] = row
      /\ \A q \in Places : \A u : Owned(q, u) => Owned(q, u)'
      /\ \A q \in Places : \A u : Owned(q, u)' => Owned(q, u) \/ (q = p /\ u = o)
      /\ \A q \in Places : \A u : q # p =>
           (IsMain(q, u)' => IsMain(q, u)) /\ (IsImported(q, u)' => IsImported(q, u))
  BY <1>3, <1>4, Rewritten
<1>7. \A u : Owned(p, u)' => u = o
  BY <1>3, <1>6 DEF Owned
<1>8. \A q \in Places : \A u :
        /\ IsMain(q, u)' => IsMain(q, u) \/ (q = p /\ u = o)
        /\ IsImported(q, u)' => IsImported(q, u) \/ (q = p /\ u = o)
  BY <1>6, <1>7, Zenon DEF IsMain, IsImported
<1>9. TypeOK'
  BY <1>4, <1>5, <1>6 DEF TypeOK
<1>10. OwnersThere'
  <2>1. \A q \in Places, u \in Parties : Owned(q, u)' => party'[u] # None
    BY <1>1, <1>4, <1>6 DEF OwnersThere, ImportedApart
  <2>2. ASSUME NEW q \in Reqs, req'[q].pc \in {"clear", "write"}
        PROVE  /\ req'[q].owner \in Parties => party'[req'[q].owner] # None
               /\ req'[q].target \in Places =>
                    /\ place'[req'[q].target] # None
                    /\ place'[req'[q].target].owner = req'[q].owner
    <3>1. req'[q] = req[q]
      BY <1>4
    <3>2. PICK u, t : u = req[q].owner /\ t = req[q].target
      OBVIOUS
    <3>3. t \in Places => Owned(t, u)'
      BY <1>6, <2>2, <3>1, <3>2 DEF OwnersThere
    <3>4. u \in Parties => party[u] # None
      BY <2>2, <3>1, <3>2 DEF OwnersThere
    <3> QED
      BY <1>4, <3>1, <3>2, <3>3, <3>4 DEF Owned
  <2>3. ASSUME NEW q \in Reqs, req'[q].pc = "status"
        PROVE  place'[req'[q].target] # None
    <3>1. req'[q] = req[q]
      BY <1>4
    <3>2. PICK t, u : t \in Places /\ t = req[q].target /\ Owned(t, u)
      BY <2>3, <3>1, Held DEF OwnersThere, StatusChanges, Owned
    <3>3. Owned(t, u)'
      BY <1>6, <3>2
    <3> QED
      BY <3>1, <3>2, <3>3 DEF Owned
  <2> QED
    BY <2>1, <2>2, <2>3 DEF OwnersThere, Owned
<1>11. ImportedApart'
  <2>1. \A q \in Places : ~ IsImported(q, o)
    BY <1>1, <1>4, Zenon DEF ImportedApart
  <2>2. \A u \in Parties, q, s \in Places : IsImported(q, u)' /\ IsImported(s, u)' => q = s
    <3> TAKE u \in Parties, q \in Places, s \in Places
    <3>1. IsImported(q, u) /\ IsImported(s, u) => q = s
      BY Zenon DEF ImportedApart
    <3> QED
      BY <1>8, <2>1, <3>1
  <2> QED
    BY <1>5, <2>2, Zenon DEF ImportedApart
<1>12. ASSUME NEW u \in Owners \ raced'
       PROVE  /\ \A q, s \in Places : IsMain(q, u)' /\ IsMain(s, u)' => q = s
              /\ \A s \in Reqs : Setting(s, u)' =>
                   /\ \A q \in Places : IsMain(q, u)' => q = req'[s].target
                   /\ \A q \in Reqs : Setting(q, u)' => q = s
  <2>1. u \in Owners \ raced
    BY <1>4, <1>12
  <2>2. \A s \in Reqs : Setting(s, u)' <=> Setting(s, u)
    BY <1>4, Zenon DEF Setting
  <2>3. u = o => (\A q \in Places : ~ IsMain(q, u)) /\ (\A s \in Reqs : ~ Setting(s, u))
    BY <1>1, <1>4, <2>1, Zenon DEF MainApart
  <2>4. \A q, s \in Places : IsMain(q, u)' /\ IsMain(s, u)' => q = s
    <3> TAKE q, s \in Places
    <3>1. IsMain(q, u) /\ IsMain(s, u) => q = s
      BY <2>1, Zenon DEF MainApart
    <3> QED
      BY <1>8, <2>3, <3>1
  <2>5. ASSUME NEW s \in Reqs, Setting(s, u)'
        PROVE  /\ \A q \in Places : IsMain(q, u)' => q = req'[s].target
               /\ \A q \in Reqs : Setting(q, u)' => q = s
    <3>1. /\ \A q \in Places : IsMain(q, u) => q = req[s].target
          /\ \A q \in Reqs : Setting(q, u) => q = s
      BY <2>1, <2>2, <2>5, Zenon DEF MainApart
    <3> QED
      BY <1>4, <1>8, <2>2, <2>3, <2>5, <3>1
  <2> QED
    BY <2>4, <2>5
<1>13. MainApart'
  BY <1>5, <1>12, Zenon DEF MainApart
<1>14. MayUpdate'
  BY <1>5 DEF MayUpdate
<1> QED
  BY <1>9, <1>10, <1>11, <1>13, <1>14

-----------------------------------------------------------------------------
(* The invariant *)

\* Owners stay, an imported address is alone, and so is a main place without a
\* race: every step of a request, a user or the import keeps it (see CInv).
THEOREM CatalogInvariant == Spec => []CInv
<1>1. Init => CInv
  <2> SUFFICES ASSUME Init
               PROVE  CInv
    OBVIOUS
  <2>1. \A p \in Places : \A o : ~ Owned(p, o) /\ ~ IsMain(p, o) /\ ~ IsImported(p, o)
    BY DEF Init, Owned, IsMain, IsImported
  <2>2. (\A r \in Reqs : req[r].pc = "idle" /\ \A o : ~ Setting(r, o)) /\ worker.pc = "idle"
    BY DEF Init, Idle, Setting
  <2>3. TypeOK
    BY DEF Init, TypeOK, IsParty
  <2>4. OwnersThere /\ ImportedApart /\ MainApart /\ MayUpdate
    BY <2>1, <2>2, Zenon DEF OwnersThere, ImportedApart, MainApart, MayUpdate
  <2> QED
    BY <2>3, <2>4 DEF CInv
<1>2. CInv /\ [Next]_vars => CInv'
  <2> SUFFICES ASSUME CInv, [Next]_vars
               PROVE  CInv'
    OBVIOUS
  <2>1. ASSUME NEW r \in Reqs, Manage(r)
        PROVE  CInv'
    BY <2>1, ManageReads, ClearMainStep, WritePlaceStep, StatusWriteStep, Zenon DEF Manage
  <2>2. CASE ManageParties
    BY <2>2, ManagePartiesStep
  <2>3. CASE Import
    BY <2>3, ImportReadSteps, UpdateRowStep, CreateRowStep, CreateRowAddressStep, Zenon DEF Import
  <2>4. CASE UNCHANGED vars
    <3>1. UNCHANGED <<place, party, worker, raced, req>>
      BY <2>4 DEF vars
    <3>2. worker' = Idle \/ IsWork(worker')
      BY <3>1 DEF CInv, TypeOK
    <3>3. /\ party' = [i \in Parties |-> party'[i]]
          /\ \A i \in Parties : IsParty(party'[i]) /\ (party[i] # None => party'[i] # None)
      BY <3>1 DEF CInv, TypeOK
    <3>4. worker'.pc = "row" /\ worker'.found # "none" => worker'.file.strategy = "UPDATE"
      BY <3>1 DEF CInv, MayUpdate
    <3> QED
      BY <3>1, <3>2, <3>3, <3>4, PlacesStay
  <2> QED
    BY <2>1, <2>2, <2>3, <2>4 DEF Next
<1> QED
  BY <1>1, <1>2, PTL DEF Spec

LEMMA AtMostOne ==
  ASSUME NEW S, \A x, y \in S : x = y
  PROVE  Cardinality(S) <= 1
<1>1. CASE S = {}
  BY <1>1, FS_EmptySet
<1>2. CASE S # {}
  <2>1. PICK x \in S : S = {x}
    BY <1>2
  <2> QED
    BY <2>1, FS_Singleton
<1> QED
  BY <1>1, <1>2

\* A tenant has one main branch and a customer one main address at most, as long
\* as no two changes of the flag overlapped: whoever is about to set the flag has
\* cleared the others, and nobody sets one in between (create and update of
\* BranchesService, CustomersService.createAddress, the import of customers).
THEOREM OneMainPlace == Spec => []OneMain
<1>1. CInv => OneMain
  <2> SUFFICES ASSUME CInv, NEW o \in Owners \ raced
               PROVE  Cardinality({p \in PlacesOf(o) : place[p].main}) <= 1
    BY DEF OneMain
  <2>1. \A p, q \in {s \in PlacesOf(o) : place[s].main} : p = q
    BY Zenon DEF CInv, MainApart, IsMain, Owned, PlacesOf
  <2> QED
    BY <2>1, AtMostOne
<1> QED
  BY <1>1, CatalogInvariant, PTL

\* The import gives a customer one address, however often the file is run: a row
\* whose customer is there adds none (CustomerImportHandler).
THEOREM OneImportedAddress == Spec => []ImportedAddressOnce
<1>1. CInv => ImportedAddressOnce
  <2> SUFFICES ASSUME CInv, NEW o \in Parties
               PROVE  Cardinality({p \in PlacesOf(o) : place[p].imported}) <= 1
    BY DEF ImportedAddressOnce
  <2>1. \A p, q \in {s \in PlacesOf(o) : place[s].imported} : p = q
    BY Zenon DEF CInv, ImportedApart, IsImported, Owned, PlacesOf
  <2> QED
    BY <2>1, AtMostOne
<1> QED
  BY <1>1, CatalogInvariant, PTL

\* An import whose strategy is FAIL or SKIP changes no row that is there: the
\* handlers go on with a row they found only to update it, and who was entered
\* after the look-up is in the way of a create (the unique keys).
THEOREM ExistingKept == Spec => KeepsExisting
<1> DEFINE Keeps == (worker # worker' /\ worker.pc # "idle" /\ worker.file.strategy # "UPDATE")
                      => \A i \in Parties : party[i] # None => party'[i] = party[i]
<1>1. CInv /\ [Next]_vars => [Keeps]_vars
  <2> SUFFICES ASSUME CInv, Next, worker # worker', worker.pc # "idle",
                      worker.file.strategy # "UPDATE", NEW i \in Parties, party[i] # None
               PROVE  party'[i] = party[i]
    BY Zenon
  <2>1. UNCHANGED party => party'[i] = party[i]
    OBVIOUS
  <2>2. \A r \in Reqs : ~ Manage(r)
    BY Zenon DEF Manage, CreateBranch, CreateAddress, UpdateBranch, Begin, ClearMain, WritePlace,
       StatusRead, StatusWrite, RequestFails
  <2>3. ~ ManageParties
    BY Zenon DEF ManageParties, CreateCustomer, UpdateCustomer, CreateCarrier, UpdateCarrier,
       Insert, ReplaceKeys
  <2>4. ~ UpdateRow
    BY Zenon DEF CInv, MayUpdate, UpdateRow
  <2>5. ASSUME NEW j \in Parties, CreateRow(j)
        PROVE  party'[i] = party[i]
    <3>1. PICK row : party' = [party EXCEPT ![j] = row] /\ party[j] = None
      BY <2>5, Zenon DEF CreateRow
    <3> QED
      BY <3>1 DEF CInv, TypeOK
  <2>6. (\E f \in Files : StartFile(f)) \/ RefuseRow \/ Lookup \/ AttemptFails
        \/ (\E p \in Places : CreateRowAddress(p)) => UNCHANGED party
    BY Zenon DEF StartFile, RefuseRow, Lookup, AttemptFails, CreateRowAddress
  <2> QED
    BY <2>1, <2>2, <2>3, <2>4, <2>5, <2>6, Zenon DEF Next, Import
<1> QED
  BY <1>1, CatalogInvariant, PTL DEF Spec, KeepsExisting

-----------------------------------------------------------------------------
(* The stored files, for every set of carriers, jobs, keys, uploads and      *)
(* requests, however uploads overlap or are cut off.                         *)
(*                                                                           *)
(* A path that is taken never looks free again, so that flag wx keeps        *)
(* every other upload away from it: what is named or still being written     *)
(* has an extension, and that is all the invariant adds to the property      *)
(* besides who holds which path.                                             *)

Safe(o, file) == IF o \in Carriers THEN SafeImageExtension(file) ELSE SafeExtension(file)

RequestType ==
  {NoUpload} \cup
  [pc : {"save"}, owner : FileOwners, file : Uploads] \cup
  [pc : {"fill", "name"}, owner : FileOwners, file : Uploads, key : Keys]

Paths == {PathOf(o, k) : o \in FileOwners, k \in Keys}

DiskType(d) == d = [p \in Paths |-> d[p]]

StorageTypeOK ==
  /\ DiskType(disk)
  /\ named \in [FileOwners -> Keys \cup {"none"}]
  /\ request \in [Requests -> RequestType]
  /\ DOMAIN accepted = FileOwners

\* A request that has created its file.
Writing(q) == request[q].pc \in {"fill", "name"}

PathOfRequest(q) == PathOf(request[q].owner, request[q].key)

Stored(content, file) == [content |-> content, extension |-> file.extension]

\* The file of a request is what the request has written so far.
FilesInWork ==
  \A q \in Requests : Writing(q) =>
    /\ Safe(request[q].owner, request[q].file)
    /\ request[q].pc = "fill" => disk[PathOfRequest(q)] = Stored("part", request[q].file)
    /\ request[q].pc = "name" => disk[PathOfRequest(q)] = Stored(request[q].file.content, request[q].file)

\* The file of a row is what was accepted for it.
FilesNamed ==
  \A o \in FileOwners : named[o] # "none" =>
    /\ Safe(o, accepted[o])
    /\ disk[PathOf(o, named[o])] = Stored(accepted[o].content, accepted[o])
    /\ accepted[o] = Stored(accepted[o].content, accepted[o])

\* Nobody shares a path.
PathsApart ==
  /\ \A q, r \in Requests : q # r /\ Writing(q) /\ Writing(r) => PathOfRequest(q) # PathOfRequest(r)
  /\ \A q \in Requests, o \in FileOwners :
       Writing(q) /\ named[o] # "none" => PathOfRequest(q) # PathOf(o, named[o])
  /\ \A o, p \in FileOwners :
       o # p /\ named[o] # "none" => PathOf(o, named[o]) # PathOf(p, named[p])

StorageInv == StorageTypeOK /\ FilesInWork /\ FilesNamed /\ PathsApart

-----------------------------------------------------------------------------
(* Paths and requests *)

\* The path of a carrier's logo has the carrier and the key in it.
LEMMA ImagesApart ==
  ASSUME NEW c \in Carriers, NEW o \in FileOwners, NEW k, NEW l,
         PathOf(c, k) = PathOf(o, l)
  PROVE  o = c /\ k = l
<1>1. o \in Carriers
  BY DEF PathOf, ImagePath, ImportPath
<1> QED
  BY <1>1 DEF PathOf, ImagePath

\* The path of a job's file has the key in it.
LEMMA ImportsApart ==
  ASSUME NEW j \in FileOwners \ Carriers, NEW o \in FileOwners, NEW k, NEW l,
         PathOf(j, k) = PathOf(o, l)
  PROVE  k = l
<1>1. o \notin Carriers
  BY DEF PathOf, ImagePath, ImportPath
<1> QED
  BY <1>1 DEF PathOf, ImportPath

\* Two paths are one only with the same key.
LEMMA KeysApart ==
  ASSUME NEW o \in FileOwners, NEW p \in FileOwners, NEW k, NEW l, k # l
  PROVE  PathOf(o, k) # PathOf(p, l)
  BY ImagesApart, ImportsApart

LEMMA PathOnDisk ==
  ASSUME NEW o \in FileOwners, NEW k \in Keys, DiskType(disk)
  PROVE  PathOf(o, k) \in DOMAIN disk
<1>1. PathOf(o, k) \in Paths
  BY DEF Paths
<1> QED
  BY <1>1 DEF DiskType

LEMMA DiskWritten ==
  ASSUME NEW d, DiskType(d), NEW path, NEW x
  PROVE  DiskType([d EXCEPT ![path] = x])
<1>1. DOMAIN d = Paths
  BY DEF DiskType
<1>2. PICK e : e = [d EXCEPT ![path] = x]
  OBVIOUS
<1>3. e = [p \in Paths |-> IF p = path THEN x ELSE d[p]]
  BY <1>1, <1>2
<1>4. e = [p \in Paths |-> e[p]]
  BY <1>3
<1> QED
  BY <1>2, <1>4 DEF DiskType

\* A file that was let in has an extension: it is not the empty place.
LEMMA SafeIsThere ==
  ASSUME NEW o, NEW file, NEW content, Safe(o, file)
  PROVE  Stored(content, file) # NoFile
  BY DEF Safe, SafeImageExtension, SafeExtension, Stored, NoFile

LEMMA IdleRequest == NoUpload \in RequestType /\ NoUpload.pc = "idle"
  BY DEF NoUpload, RequestType

LEMMA RequestFields ==
  ASSUME NEW x \in RequestType, x.pc # "idle"
  PROVE  /\ x.owner \in FileOwners
         /\ x.file \in Uploads
         /\ x.pc \in {"fill", "name"} => x.key \in Keys
         /\ x.pc \in {"save", "fill", "name"}
  BY DEF RequestType, NoUpload

-----------------------------------------------------------------------------
(* Steps *)

\* A request that ends, or begins, holds no path.
LEMMA NothingWritten ==
  ASSUME StorageInv, NEW q \in Requests, NEW x \in RequestType, x.pc \notin {"fill", "name"},
         request' = [request EXCEPT ![q] = x], UNCHANGED <<disk, named, accepted>>
  PROVE  StorageInv'
<1> USE DEF StorageInv, StorageTypeOK
<1>1. StorageTypeOK'
  OBVIOUS
<1>2. \A r \in Requests : (Writing(r))' => r # q /\ Writing(r) /\ request'[r] = request[r]
  BY DEF Writing
<1>3. FilesInWork'
  BY <1>2 DEF FilesInWork, PathOfRequest
<1>4. FilesNamed'
  BY DEF FilesNamed
<1>5. PathsApart'
  BY <1>2 DEF PathsApart, PathOfRequest
<1> QED
  BY <1>1, <1>3, <1>4, <1>5

\* writeFile with flag wx: the path was nobody's.
LEMMA WriteStep ==
  ASSUME StorageInv, NEW q \in Requests, NEW k \in Keys,
         request[q].pc = "save", Safe(request[q].owner, request[q].file),
         disk[PathOf(request[q].owner, k)] = NoFile,
         Write(q, PathOf(request[q].owner, k), k)
  PROVE  StorageInv'
<1> USE DEF StorageInv, StorageTypeOK
<1>q. request[q] \in RequestType
  OBVIOUS
<1>o. request[q].owner \in FileOwners /\ request[q].file \in Uploads
  BY <1>q, RequestFields
<1>x. PICK x : x = [pc |-> "fill", owner |-> request[q].owner, file |-> request[q].file, key |-> k]
  OBVIOUS
<1>p. PICK path : path = PathOf(request[q].owner, k)
  OBVIOUS
<1>1. /\ request' = [request EXCEPT ![q] = x]
      /\ disk' = [disk EXCEPT ![path] = Stored("part", request[q].file)]
      /\ UNCHANGED <<named, accepted>>
  BY <1>x, <1>p DEF Write, Stored
<1>2. x \in RequestType
  BY <1>x, <1>o DEF RequestType
<1>3. path \in DOMAIN disk
  BY <1>o, <1>p, PathOnDisk
<1>4. DiskType(disk')
  BY <1>1, DiskWritten
<1>5. StorageTypeOK'
  BY <1>1, <1>2, <1>4
<1>6. \A r \in Requests : Writing(r) => PathOfRequest(r) # path /\ r # q
  <2>1. SUFFICES ASSUME NEW r \in Requests, Writing(r), PathOfRequest(r) = path
                 PROVE  FALSE
    BY DEF Writing
  <2>2. disk[PathOfRequest(r)] # NoFile
    BY <2>1, SafeIsThere DEF FilesInWork, Writing
  <2> QED
    BY <2>1, <2>2, <1>p
<1>7. \A o \in FileOwners : named[o] # "none" => PathOf(o, named[o]) # path
  <2>1. SUFFICES ASSUME NEW o \in FileOwners, named[o] # "none", PathOf(o, named[o]) = path
                 PROVE  FALSE
    OBVIOUS
  <2>2. disk[PathOf(o, named[o])] # NoFile
    BY <2>1, SafeIsThere DEF FilesNamed
  <2> QED
    BY <2>1, <2>2, <1>p
<1>8. /\ x.pc = "fill" /\ x.file = request[q].file /\ x.owner = request[q].owner /\ x.key = k
      /\ request'[q] = x
  BY <1>x, <1>1
<1>9. /\ \A r \in Requests \ {q} : request'[r] = request[r]
      /\ (PathOfRequest(q))' = path
  BY <1>1, <1>8, <1>p DEF PathOfRequest
<1>10. \A r \in Requests \ {q} : /\ (Writing(r))' <=> Writing(r)
                                 /\ (PathOfRequest(r))' = PathOfRequest(r)
  BY <1>9 DEF Writing, PathOfRequest
<1>11. FilesInWork'
  <2>1. SUFFICES ASSUME NEW r \in Requests, (Writing(r))'
                 PROVE  /\ Safe(request'[r].owner, request'[r].file)
                        /\ request'[r].pc = "fill" =>
                             disk'[(PathOfRequest(r))'] = Stored("part", request'[r].file)
                        /\ request'[r].pc = "name" =>
                             disk'[(PathOfRequest(r))'] = Stored(request'[r].file.content, request'[r].file)
    BY DEF FilesInWork, Safe, Stored, SafeExtension, SafeImageExtension
  <2>2. CASE r = q
    BY <2>2, <1>1, <1>3, <1>8, <1>9
  <2>3. CASE r # q
    <3>1. disk'[PathOfRequest(r)] = disk[PathOfRequest(r)]
      BY <2>1, <2>3, <1>1, <1>6, <1>10 DEF DiskType
    <3> QED
      BY <2>1, <2>3, <3>1, <1>9, <1>10 DEF FilesInWork
  <2> QED
    BY <2>2, <2>3
<1>12. FilesNamed'
  <2>1. SUFFICES ASSUME NEW o \in FileOwners, named[o] # "none"
                 PROVE  disk'[PathOf(o, named[o])] = disk[PathOf(o, named[o])]
    BY <1>1 DEF FilesNamed, Stored, Safe, SafeExtension, SafeImageExtension, PathOf, ImagePath, ImportPath
  <2>2. PathOf(o, named[o]) \in DOMAIN disk
    BY <2>1, PathOnDisk
  <2> QED
    BY <2>1, <2>2, <1>1, <1>7
<1>13. PathsApart'
  BY <1>1, <1>6, <1>7, <1>9, <1>10 DEF PathsApart
<1> QED
  BY <1>5, <1>11, <1>12, <1>13

\* The content follows into a file that nobody else holds.
LEMMA FileWrittenStep ==
  ASSUME StorageInv, NEW q \in Requests, FileWritten(q)
  PROVE  StorageInv'
<1> USE DEF StorageInv, StorageTypeOK
<1>q. request[q] \in RequestType /\ request[q].pc = "fill"
  BY DEF FileWritten
<1>o. request[q].owner \in FileOwners /\ request[q].file \in Uploads /\ request[q].key \in Keys
  BY <1>q, RequestFields
<1>x. PICK x : x = [request[q] EXCEPT !.pc = "name"]
  OBVIOUS
<1>p. PICK path : path = PathOfRequest(q)
  OBVIOUS
<1>0. disk[path] = Stored("part", request[q].file)
  BY <1>q, <1>p DEF FilesInWork, Writing
<1>1. /\ request' = [request EXCEPT ![q] = x]
      /\ disk' = [disk EXCEPT ![path] = Stored(request[q].file.content, request[q].file)]
      /\ UNCHANGED <<named, accepted>>
  <2>1. [disk[path] EXCEPT !.content = request[q].file.content] = Stored(request[q].file.content, request[q].file)
    BY <1>0 DEF Stored
  <2>2. disk' = [disk EXCEPT ![path] = [disk[path] EXCEPT !.content = request[q].file.content]]
    BY <1>p DEF FileWritten, PathOfRequest
  <2> QED
    BY <2>1, <2>2, <1>x DEF FileWritten
<1>2. /\ x \in RequestType
      /\ x.pc = "name" /\ x.file = request[q].file /\ x.owner = request[q].owner /\ x.key = request[q].key
  BY <1>x, <1>q DEF RequestType, NoUpload
<1>3. path \in DOMAIN disk
  BY <1>o, <1>p, PathOnDisk DEF PathOfRequest
<1>4. DiskType(disk')
  BY <1>1, DiskWritten
<1>5. StorageTypeOK'
  BY <1>1, <1>2, <1>4
<1>6. \A r \in Requests : Writing(r) /\ r # q => PathOfRequest(r) # path
  BY <1>q, <1>p DEF PathsApart, Writing
<1>7. \A o \in FileOwners : named[o] # "none" => PathOf(o, named[o]) # path
  BY <1>q, <1>p DEF PathsApart, Writing
<1>8. /\ request'[q] = x
      /\ \A r \in Requests \ {q} : request'[r] = request[r]
  BY <1>1
<1>9. \A r \in Requests : /\ (Writing(r))' <=> Writing(r)
                          /\ (PathOfRequest(r))' = PathOfRequest(r)
  BY <1>q, <1>2, <1>8 DEF Writing, PathOfRequest
<1>11. FilesInWork'
  <2>1. SUFFICES ASSUME NEW r \in Requests, (Writing(r))'
                 PROVE  /\ Safe(request'[r].owner, request'[r].file)
                        /\ request'[r].pc = "fill" =>
                             disk'[(PathOfRequest(r))'] = Stored("part", request'[r].file)
                        /\ request'[r].pc = "name" =>
                             disk'[(PathOfRequest(r))'] = Stored(request'[r].file.content, request'[r].file)
    BY DEF FilesInWork, Safe, Stored, SafeExtension, SafeImageExtension
  <2>2. CASE r = q
    <3>1. Safe(request[q].owner, request[q].file)
      BY <1>q DEF FilesInWork, Writing
    <3> QED
      BY <2>2, <3>1, <1>1, <1>2, <1>3, <1>8, <1>9, <1>p
  <2>3. CASE r # q
    <3>1. disk'[PathOfRequest(r)] = disk[PathOfRequest(r)]
      BY <2>1, <2>3, <1>1, <1>6, <1>9 DEF DiskType
    <3> QED
      BY <2>1, <2>3, <3>1, <1>8, <1>9 DEF FilesInWork
  <2> QED
    BY <2>2, <2>3
<1>12. FilesNamed'
  <2>1. SUFFICES ASSUME NEW o \in FileOwners, named[o] # "none"
                 PROVE  disk'[PathOf(o, named[o])] = disk[PathOf(o, named[o])]
    BY <1>1 DEF FilesNamed, Stored, Safe, SafeExtension, SafeImageExtension, PathOf, ImagePath, ImportPath
  <2>2. PathOf(o, named[o]) \in DOMAIN disk
    BY <2>1, PathOnDisk
  <2> QED
    BY <2>1, <2>2, <1>1, <1>7
<1>13. PathsApart'
  BY <1>1, <1>9 DEF PathsApart
<1> QED
  BY <1>5, <1>11, <1>12, <1>13

\* The row names the file of the request, which becomes that of the row.
LEMMA NameStep ==
  ASSUME StorageInv, NEW q \in Requests, Name(q)
  PROVE  StorageInv'
<1> USE DEF StorageInv, StorageTypeOK
<1>q. request[q] \in RequestType /\ request[q].pc = "name"
  BY DEF Name
<1>c. PICK c : c = request[q].owner
  OBVIOUS
<1>k. PICK k : k = request[q].key
  OBVIOUS
<1>f. PICK file : file = request[q].file
  OBVIOUS
<1>o. c \in FileOwners /\ k \in Keys /\ k # "none"
  BY <1>q, <1>c, <1>k, RequestFields, PathsAssumption
<1>1. /\ request' = [request EXCEPT ![q] = NoUpload]
      /\ named' = [named EXCEPT ![c] = k]
      /\ accepted' = [accepted EXCEPT ![c] = Stored(file.content, file)]
      /\ disk' = disk
  BY <1>c, <1>k, <1>f DEF Name, Stored
<1>2. StorageTypeOK'
  BY <1>1, <1>o, IdleRequest
<1>3. \A r \in Requests : (Writing(r))' => r # q /\ Writing(r) /\ request'[r] = request[r]
  BY <1>1, IdleRequest DEF Writing
<1>4. FilesInWork'
  BY <1>1, <1>3 DEF FilesInWork, PathOfRequest
<1>5. Safe(c, file) /\ disk[PathOf(c, k)] = Stored(file.content, file)
  BY <1>q, <1>c, <1>k, <1>f DEF FilesInWork, Writing, PathOfRequest
<1>6. /\ named'[c] = k /\ accepted'[c] = Stored(file.content, file)
      /\ \A o \in FileOwners \ {c} : named'[o] = named[o] /\ accepted'[o] = accepted[o]
  BY <1>1, <1>o
<1>7. FilesNamed'
  <2>1. SUFFICES ASSUME NEW o \in FileOwners, named'[o] # "none"
                 PROVE  /\ Safe(o, accepted'[o])
                        /\ disk[PathOf(o, named'[o])] = Stored(accepted'[o].content, accepted'[o])
                        /\ accepted'[o] = Stored(accepted'[o].content, accepted'[o])
    BY <1>1 DEF FilesNamed, Safe, Stored, SafeExtension, SafeImageExtension
  <2>2. CASE o = c
    <3>1. /\ Stored(file.content, file).content = file.content
          /\ Stored(file.content, file).extension = file.extension
      BY DEF Stored
    <3> QED
      BY <2>2, <3>1, <1>5, <1>6 DEF Stored, Safe, SafeExtension, SafeImageExtension
  <2>3. CASE o # c
    BY <2>1, <2>3, <1>6 DEF FilesNamed
  <2> QED
    BY <2>2, <2>3
<1>8. \A o \in FileOwners \ {c} : PathOf(o, named[o]) # PathOf(c, k)
  <2>1. SUFFICES ASSUME NEW o \in FileOwners \ {c}
                 PROVE  PathOf(o, named[o]) # PathOf(c, k)
    OBVIOUS
  <2>2. CASE named[o] = "none"
    BY <2>2, <1>o, KeysApart
  <2>3. CASE named[o] # "none"
    BY <2>3, <1>q, <1>c, <1>k DEF PathsApart, Writing, PathOfRequest
  <2> QED
    BY <2>2, <2>3
<1>9. \A r \in Requests : (Writing(r))' => PathOfRequest(r) # PathOf(c, k)
  BY <1>3, <1>q, <1>c, <1>k DEF PathsApart, Writing, PathOfRequest
<1>10. PathsApart'
  <2>1. \A r \in Requests : (Writing(r))' => (PathOfRequest(r))' = PathOfRequest(r)
    BY <1>3 DEF PathOfRequest
  <2>2. \A r, s \in Requests : r # s /\ (Writing(r))' /\ (Writing(s))' => (PathOfRequest(r))' # (PathOfRequest(s))'
    BY <2>1, <1>3 DEF PathsApart
  <2>3. \A r \in Requests, o \in FileOwners :
          (Writing(r))' /\ named'[o] # "none" => (PathOfRequest(r))' # PathOf(o, named'[o])
    BY <2>1, <1>3, <1>6, <1>9 DEF PathsApart
  <2>4. \A o, p \in FileOwners : o # p /\ named'[o] # "none" => PathOf(o, named'[o]) # PathOf(p, named'[p])
    BY <1>6, <1>8 DEF PathsApart
  <2> QED
    BY <2>2, <2>3, <2>4 DEF PathsApart, PathOf, ImagePath, ImportPath
<1> QED
  BY <1>2, <1>4, <1>7, <1>10

-----------------------------------------------------------------------------
(* The invariant *)

LEMMA FilesInit == StorageInit => StorageInv
<1> SUFFICES ASSUME StorageInit PROVE StorageInv
  OBVIOUS
<1>1. StorageTypeOK
  BY IdleRequest DEF StorageInit, StorageTypeOK, DiskType, Paths
<1>2. \A q \in Requests : ~ Writing(q)
  BY IdleRequest DEF StorageInit, Writing
<1>3. \A o \in FileOwners : named[o] = "none"
  BY DEF StorageInit
<1> QED
  BY <1>1, <1>2, <1>3 DEF StorageInv, FilesInWork, FilesNamed, PathsApart

LEMMA FilesStep == StorageInv /\ [StorageNext]_storageVars => StorageInv'
<1> SUFFICES ASSUME StorageInv, [StorageNext]_storageVars PROVE StorageInv'
  OBVIOUS
<1>1. ASSUME NEW q \in Requests, NEW o \in FileOwners, NEW file \in Uploads, BeginUpload(q, o, file)
      PROVE  StorageInv'
  <2>x. PICK x : x = [pc |-> "save", owner |-> o, file |-> file]
    OBVIOUS
  <2>1. x \in RequestType /\ x.pc \notin {"fill", "name"}
    BY <2>x DEF RequestType
  <2>2. request' = [request EXCEPT ![q] = x] /\ UNCHANGED <<disk, named, accepted>>
    BY <2>x, <1>1 DEF BeginUpload
  <2> QED
    BY <2>1, <2>2, NothingWritten
<1>2. ASSUME NEW q \in Requests, NEW k \in Keys, SaveImage(q, k)
      PROVE  StorageInv'
  BY <1>2, WriteStep DEF SaveImage, Safe, PathOf
<1>3. ASSUME NEW q \in Requests, NEW k \in Keys, SaveImport(q, k)
      PROVE  StorageInv'
  <2>1. request[q].owner \notin Carriers
    BY <1>3, PathsAssumption DEF SaveImport
  <2> QED
    BY <2>1, <1>3, WriteStep DEF SaveImport, Safe, PathOf
<1>4. ASSUME NEW q \in Requests, UploadFails(q)
      PROVE  StorageInv'
  BY <1>4, IdleRequest, NothingWritten DEF UploadFails
<1>5. CASE UNCHANGED storageVars
  BY <1>5 DEF storageVars, StorageInv, StorageTypeOK, FilesInWork, FilesNamed, PathsApart, Writing, PathOfRequest
<1> QED
  BY <1>1, <1>2, <1>3, <1>4, <1>5, FileWrittenStep, NameStep
     DEF StorageNext, UploadLogo, UploadImport, NameLogo, NameImport

LEMMA StorageInvariant == StorageSpec => []StorageInv
  BY FilesInit, FilesStep, PTL DEF StorageSpec

\* Whatever uploads overlap, fail or are cut off, a row names a whole file of
\* its own, and a logo is served as an image: save writes under a path that was
\* free (flag wx) and the row is written after the file (uploadLogo, create).
THEOREM FilesAreWhole == StorageSpec => []NamedFileIsWhole
<1>1. StorageInv => NamedFileIsWhole
  <2> SUFFICES ASSUME StorageInv PROVE NamedFileIsWhole
    OBVIOUS
  <2>1. ASSUME NEW o \in FileOwners, named[o] # "none", o \in Carriers
        PROVE  /\ ReadLogo(o) = [buffer |-> accepted[o].content,
                                 contentType |-> ContentTypeFor(accepted[o].extension)]
               /\ ReadLogo(o).contentType # "application/octet-stream"
    <3>1. /\ disk[ImagePath(o, named[o])] = Stored(accepted[o].content, accepted[o])
          /\ SafeImageExtension(accepted[o])
      BY <2>1 DEF StorageInv, FilesNamed, PathOf, Safe
    <3>2. ReadLogo(o) = [buffer |-> accepted[o].content,
                         contentType |-> ContentTypeFor(accepted[o].extension)]
      BY <3>1 DEF ReadLogo, Stored
    <3>3. ContentTypeFor(accepted[o].extension) # "application/octet-stream"
      BY <3>1 DEF SafeImageExtension, ContentTypeFor
    <3> QED
      BY <3>2, <3>3
  <2>2. ASSUME NEW o \in FileOwners, named[o] # "none", o \notin Carriers
        PROVE  ReadImport(o) = accepted[o]
    BY <2>2 DEF StorageInv, FilesNamed, PathOf, ReadImport
  <2> QED
    BY <2>1, <2>2 DEF NamedFileIsWhole, StorageInv, PathsApart
<1> QED
  BY <1>1, StorageInvariant, PTL
=============================================================================
