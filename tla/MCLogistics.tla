---------------------------- MODULE MCLogistics ----------------------------
(* Master data, prices and uploaded files. The three modules share nothing   *)
(* and each property is about one of them: one moves, the others are at rest *)
(* (part).                                                                   *)
(*                                                                           *)
(* Catalog: a file of customers that repeats a document, one of carriers.    *)
(* Freight: a service with a minimum and weight limits, entered again without *)
(* them, and tariffs with one range, two that overlap, which validateRanges  *)
(* refuses, and two that it lets in and the columns round to one bound. The  *)
(* load weighs what that bound is. Weights are entered in tenths of grams.   *)
EXTENDS Catalog, Freight, Storage, TLC

CONSTANTS d1, k1

VARIABLE part

\* A logo whose name and type disagree, one that is accepted, a file to import.
MCUploads ==
  {[size |-> 1, mimetype |-> "image/png", extension |-> "jpg", content |-> "a"],
   [size |-> 2, mimetype |-> "image/webp", extension |-> "webp", content |-> "b"],
   [size |-> 3, mimetype |-> "text/csv", extension |-> "csv", content |-> "c"]}

MCTenant == [o \in FileOwners |-> "t"]

MCRow(c, d, a) == [code |-> c, document |-> d, address |-> a]

MCFiles ==
  {[type |-> "customer", strategy |-> "UPDATE", rows |-> <<MCRow("none", d1, TRUE), MCRow("none", d1, TRUE)>>],
   [type |-> "carrier", strategy |-> "SKIP", rows |-> <<MCRow(k1, d1, FALSE)>>]}

MCEntered == {[code |-> "none", document |-> d1]}

MCOffer(status, min, max, minimum) ==
  [status |-> status, cubicFactor |-> 167, minWeight |-> min, maxWeight |-> max,
   minimumValue |-> minimum]

MCOffers ==
  {MCOffer("ACTIVE", 1000, 900000, 10000), MCOffer("INACTIVE", NoLimit, NoLimit, 2500)}

MCRange(min, max, base, perKg, days, priority) ==
  [min |-> min, max |-> max, base |-> base, perKg |-> perKg, deadlineDays |-> days, priority |-> priority]

MCCharge(type, fixed, percentage) == [type |-> type, fixed |-> fixed, percentage |-> percentage]

MCTariffs ==
  {[ranges |-> <<MCRange(10000, 500000, 8500, 24000, 2, 0)>>,
    charges |-> <<MCCharge("TOLL", 1800, 0)>>,
    valid |-> {1}],
   [ranges |-> <<MCRange(10000, 425000, 1001, 335, 3, 1), MCRange(420000, 900000, 5000, 155, 1, 0)>>,
    charges |-> << >>,
    valid |-> {2}],
   [ranges |-> <<MCRange(10000, 425000, 1001, 335, 3, 1), MCRange(425004, 900000, 5000, 155, 1, 0)>>,
    charges |-> <<MCCharge("AD_VALOREM", 0, 4000), MCCharge("GRIS", 300, 1500),
                  MCCharge("DISCOUNT", 0, 100000)>>,
    valid |-> {2}]}

MCPackage(q, w, l, b, h) ==
  [quantity |-> q, weight |-> w, length |-> l, width |-> b, height |-> h]

MCLoads ==
  {[packages |-> <<MCPackage(2, 20000, 31, 19, 7), MCPackage(1, 2500, 20, 20, 20)>>,
    cargoValue |-> 250000, route |-> "rt", date |-> day] : day \in 1..2}

LogisticsVars == <<vars, freightVars, storageVars, part>>

LogisticsInit == part \in {"catalog", "freight", "files"} /\ Init /\ FreightInit /\ StorageInit

\* Bound: two requests overlap, or one and the import of a file.
Bounded ==
  worker'.pc # "idle" => \E q \in Reqs : \A r \in Reqs \ {q} : req'[r].pc = "idle"

LogisticsNext ==
  /\ UNCHANGED part
  /\ IF part = "catalog" THEN Next /\ Bounded ELSE UNCHANGED vars
  /\ IF part = "freight" THEN FreightNext ELSE UNCHANGED freightVars
  /\ IF part = "files" THEN StorageNext ELSE UNCHANGED storageVars

LogisticsSpec == LogisticsInit /\ [][LogisticsNext]_LogisticsVars

Symmetry == Permutations(Reqs) \cup Permutations(Places) \cup Permutations(Parties)
=============================================================================
