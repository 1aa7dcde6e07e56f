------------------------------ MODULE Pricing ------------------------------
(***************************************************************************)
(* FreightPricingEngine and the choice of rate by                          *)
(* FreightSimulationsService.create: what a load costs with a service.     *)
(*                                                                         *)
(* Decimals are integers of the unit their column keeps: weights in grams, *)
(* amounts in cents, pricePerKg in hundredths of a cent, percentages in    *)
(* millionths. Lengths are whole centimetres and the cubic factor whole    *)
(* kg/m3. excessPricePerKg is stored with a range and never read.          *)
(*                                                                         *)
(* The bounds of ranges and the weight limits of services are compared as  *)
(* they are entered, before their columns round them: entered, they count  *)
(* tenths of a gram. Every other number is used only as it was stored.     *)
(***************************************************************************)
EXTENDS Integers, Sequences, SequencesExt

NoLimit == -1

\* toDecimalPlaces with ROUND_HALF_UP, which rounds a half away from zero.
Scale(n, d) ==
  LET up(k) == (k \div d) + (IF 2 * (k % d) >= d THEN 1 ELSE 0)
  IN IF n >= 0 THEN up(n) ELSE -up(-n)

Total(components) == FoldLeft(LAMBDA sum, c : sum + c.amount, 0, components)

\* Real weight, and the weight of the volume with the service's cubic factor.
CalculatePackageMetrics(packages, cubicFactor) ==
  LET add(m, p) ==
        [real   |-> m.real + p.weight * p.quantity,
         volume |-> m.volume + p.length * p.width * p.height * p.quantity]
      sum == FoldLeft(add, [real |-> 0, volume |-> 0], packages)
  IN [real |-> sum.real, cubic |-> Scale(sum.volume * cubicFactor, 1000)]

ChargeableWeight(packages, cubicFactor) ==
  LET m == CalculatePackageMetrics(packages, cubicFactor)
  IN IF m.real >= m.cubic THEN m.real ELSE m.cubic

Component(type, amount) == [type |-> type, amount |-> amount]

\* Ad valorem and insurance are a share of the cargo value, the others of the
\* freight; a discount counts down.
CalculateChargeAmount(charge, cargoValue, subtotal) ==
  LET basis == IF charge.type \in {"AD_VALOREM", "INSURANCE"} THEN cargoValue ELSE subtotal
      amount == charge.fixed + Scale(basis * charge.percentage, 1000000)
  IN IF charge.type = "DISCOUNT" THEN -amount ELSE amount

\* Faulty variant: percentages are taken of the freight before the minimum.
SubtotalBeforeMinimum(freight, minimum) == Total(freight)

\* What the charges are a share of: the freight, raised to the minimum.
Subtotal(freight, minimum) == Total(freight \o minimum)

\* The parts of a price in the order they are computed: the base, the weight
\* above the start of the range, what is missing to the minimum of the service,
\* and the charges, of which a zero one leaves no part.
Components(service, range, charges, load, weight) ==
  LET extra == weight - range.min
      freight == <<Component("BASE", range.base)>>
                   \o (IF extra > 0 THEN <<Component("WEIGHT", Scale(extra * range.perKg, 100000))>>
                                    ELSE << >>)
      missing == service.minimumValue - Total(freight)
      minimum == IF missing > 0 THEN <<Component("MINIMUM_ADJUSTMENT", missing)>> ELSE << >>
      charged == [i \in DOMAIN charges |->
                    Component(charges[i].type,
                              CalculateChargeAmount(charges[i], load.cargoValue,
                                                    Subtotal(freight, minimum)))]
  IN freight \o minimum \o SelectSeq(charged, LAMBDA c : c.amount # 0)

Calculate(service, range, charges, load) ==
  LET weight == ChargeableWeight(load.packages, service.cubicFactor)
      components == Components(service, range, charges, load, weight)
  IN [weight |-> weight, components |-> components,
      totalPrice |-> Total(components), deadlineDays |-> range.deadlineDays]

\* The engine includes both ends of a range.
Applies(range, weight) == range.min <= weight /\ weight <= range.max

WithinLimits(service, weight) ==
  /\ service.minWeight = NoLimit \/ weight >= service.minWeight
  /\ service.maxWeight = NoLimit \/ weight <= service.maxWeight

\* Faulty variant: a range only starts at another weight than the others.
ValidRangesByStart(ranges) ==
  /\ \A i \in DOMAIN ranges : ranges[i].min < ranges[i].max
  /\ \A i, j \in DOMAIN ranges : i # j => ranges[i].min # ranges[j].min

\* validateRanges sorts by minWeightKg and wants each range to end before the
\* next one starts; an empty list passes. It compares what was entered.
ValidRanges(ranges) ==
  /\ \A i \in DOMAIN ranges : ranges[i].min < ranges[i].max
  /\ \A i, j \in DOMAIN ranges :
       i # j => ranges[i].max < ranges[j].min \/ ranges[j].max < ranges[i].min

\* The columns of weights keep whole grams.
WeightColumn(entered) == Scale(entered, 10)

InColumns(range) ==
  [min |-> WeightColumn(range.min), max |-> WeightColumn(range.max),
   base |-> range.base, perKg |-> range.perKg,
   deadlineDays |-> range.deadlineDays, priority |-> range.priority]

TariffRow(tf) ==
  [ranges |-> [i \in DOMAIN tf.ranges |-> InColumns(tf.ranges[i])],
   charges |-> tf.charges, valid |-> tf.valid]

=============================================================================
