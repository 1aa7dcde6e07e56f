----------------------------- MODULE Shipments -----------------------------
(***************************************************************************)
(* From a calculated simulation to a tracked shipment: selectOption and    *)
(* createShipment of FreightSimulationsService, createTrackingEvent and    *)
(* updateShipmentStatus of LogisticsAdminService, over the tables          *)
(* freight_simulation_options, shipments and tracking_events.              *)
(*                                                                         *)
(* createShipment and createTrackingEvent read rows, decide on them, and   *)
(* write in a later transaction; requests interleave between the two.      *)
(* occurredAt only orders what is shown: no operation decides on it.       *)
(***************************************************************************)
EXTENDS Naturals, Sequences

CONSTANTS
  Sims,       \* calculated simulations
  Options,    \* the options of a simulation
  Keys,       \* idempotency keys clients send
  Reported,   \* bound: statuses of the events that are sent
  Reqs,       \* HTTP requests in flight at one time
  MaxEvents   \* bound: tracking events per shipment

ASSUME ConstantsAssumption ==
  /\ MaxEvents \in Nat
  /\ "none" \notin Options \cup Keys \cup Sims

VARIABLES
  selected,   \* the option of a simulation whose selected flag is set
  shipment,   \* shipments, by simulationId
  events,     \* tracking_events of a shipment, in the order of their commits
  req         \* HTTP requests in flight

vars == <<selected, shipment, events, req>>

ShipmentStatus ==
  {"CREATED", "PICKUP_SCHEDULED", "PICKED_UP", "IN_TRANSIT", "ARRIVED_AT_HUB",
   "OUT_FOR_DELIVERY", "DELIVERY_FAILED", "RETURNING", "DELIVERED", "RETURNED",
   "CANCELED"}

\* What may follow a status.
Transitions ==
  [CREATED          |-> {"PICKUP_SCHEDULED", "CANCELED"},
   PICKUP_SCHEDULED |-> {"PICKED_UP", "CANCELED"},
   PICKED_UP        |-> {"IN_TRANSIT", "CANCELED"},
   IN_TRANSIT       |-> {"ARRIVED_AT_HUB", "OUT_FOR_DELIVERY", "RETURNING", "CANCELED"},
   ARRIVED_AT_HUB   |-> {"OUT_FOR_DELIVERY", "IN_TRANSIT", "RETURNING"},
   OUT_FOR_DELIVERY |-> {"DELIVERED", "DELIVERY_FAILED", "RETURNING"},
   DELIVERY_FAILED  |-> {"OUT_FOR_DELIVERY", "RETURNING"},
   RETURNING        |-> {"RETURNED"},
   DELIVERED        |-> {},
   RETURNED         |-> {},
   CANCELED         |-> {}]

IsValidTransition(current, next) == current = next \/ next \in Transitions[current]

\* delivered: deliveredAt is set.
ShipmentRow == [option : Options, status : ShipmentStatus, delivered : BOOLEAN]

Row(o, st, d) == [option |-> o, status |-> st, delivered |-> d]

NoShipment == Row("none", "none", FALSE)

Event == [status : ShipmentStatus \cup {"none"}, key : Keys \cup {"none"}]

Sent == {e \in Event : e.status \in Reported \cup {"none"}}

\* A request for a shipment keeps the option it has read; one for an event its
\* input and the deliveredAt it has read.
IdleReq == [pc |-> "idle"]

ShipmentReq(pc, s, o) == [pc |-> pc, sim |-> s, option |-> o]

EventReq(s, e, d) == [pc |-> "event", sim |-> s, event |-> e, delivered |-> d]

Requests ==
  {IdleReq}
    \cup [pc : {"check", "insert"}, sim : Sims, option : Options]
    \cup [pc : {"event"}, sim : Sims, event : Event, delivered : BOOLEAN]

TypeOK ==
  /\ selected \in [Sims -> Options \cup {"none"}]
  /\ shipment \in [Sims -> ShipmentRow \cup {NoShipment}]
  /\ events \in [Sims -> Seq(Event)]
  /\ \A s \in Sims : Len(events[s]) <= MaxEvents
  /\ req \in [Reqs -> Requests]

Init ==
  /\ selected = [s \in Sims |-> "none"]
  /\ shipment = [s \in Sims |-> NoShipment]
  /\ events = [s \in Sims |-> << >>]
  /\ req = [r \in Reqs |-> IdleReq]

Shipped(s) == shipment[s] # NoShipment

-----------------------------------------------------------------------------
(* FreightSimulationsService *)

\* selectOption: one transaction clears the flag of every option of the
\* simulation and sets it for this one, shipped or not.
SelectOption(s, o) ==
  /\ selected' = [selected EXCEPT ![s] = o]
  /\ UNCHANGED <<shipment, events, req>>

\* createShipment loads the simulation and picks the selected option ...
LoadSimulation(r, s) ==
  /\ req[r].pc = "idle"
  /\ selected[s] # "none"
  /\ req' = [req EXCEPT ![r] = ShipmentReq("check", s, selected[s])]
  /\ UNCHANGED <<selected, shipment, events>>

\* ... returns the shipment if the simulation has one already ...
FindExisting(r) ==
  /\ req[r].pc = "check"
  /\ req' = [req EXCEPT ![r] = IF Shipped(req[r].sim)
                                 THEN IdleReq
                                 ELSE ShipmentReq("insert", req[r].sim, req[r].option)]
  /\ UNCHANGED <<selected, shipment, events>>

\* ... and else creates it with what it has read.  simulationId is unique: the
\* slower of two requests gets a conflict.
CreateShipment(r) ==
  LET s == req[r].sim IN
  /\ req[r].pc = "insert"
  /\ shipment' = IF Shipped(s) THEN shipment
                 ELSE [shipment EXCEPT ![s] = Row(req[r].option, "CREATED", FALSE)]
  /\ req' = [req EXCEPT ![r] = IdleReq]
  /\ UNCHANGED <<selected, events>>

-----------------------------------------------------------------------------
(* LogisticsAdminService *)

\* createTrackingEvent reads the shipment and checks the transition, if the
\* event has a status; updateShipmentStatus goes the same way without a key.
ReadShipment(r, s, e) ==
  /\ req[r].pc = "idle"
  /\ Shipped(s)
  /\ e.status # "none" => IsValidTransition(shipment[s].status, e.status)
  /\ req' = [req EXCEPT ![r] = EventReq(s, e, shipment[s].delivered)]
  /\ UNCHANGED <<selected, shipment, events>>

\* (tenantId, shipmentId, idempotencyKey) is unique; a missing key is no key.
KeyTaken(s, key) ==
  key # "none" /\ \E i \in 1 .. Len(events[s]) : events[s][i].key = key

\* Faulty variant: a date of delivery is never taken back.
StoreEventKeepDate(r) ==
  LET s == req[r].sim
      e == req[r].event
  IN
  /\ req[r].pc = "event"
  /\ ~ KeyTaken(s, e.key)
  /\ Len(events[s]) < MaxEvents
  /\ events' = [events EXCEPT ![s] = Append(@, e)]
  /\ shipment' = IF e.status = "none" THEN shipment
                 ELSE [shipment EXCEPT ![s] =
                        Row(@.option, e.status, @.delivered \/ e.status = "DELIVERED")]
  /\ req' = [req EXCEPT ![r] = IdleReq]
  /\ UNCHANGED selected

\* The transaction: the event is inserted and, if it has a status, the shipment
\* is updated by id with that status and with deliveredAt as it was read.
StoreEvent(r) ==
  LET s == req[r].sim
      e == req[r].event
  IN
  /\ req[r].pc = "event"
  /\ ~ KeyTaken(s, e.key)
  /\ Len(events[s]) < MaxEvents
  /\ events' = [events EXCEPT ![s] = Append(@, e)]
  /\ shipment' = IF e.status = "none" THEN shipment
                 ELSE [shipment EXCEPT ![s] =
                        Row(@.option, e.status, e.status = "DELIVERED" \/ req[r].delivered)]
  /\ req' = [req EXCEPT ![r] = IdleReq]
  /\ UNCHANGED selected

\* Faulty variant: the broken key is caught inside the transaction.
DuplicateApplied(r) ==
  LET s == req[r].sim
      e == req[r].event
  IN
  /\ req[r].pc = "event"
  /\ KeyTaken(s, e.key)
  /\ shipment' = IF e.status = "none" THEN shipment
                 ELSE [shipment EXCEPT ![s].status = e.status]
  /\ req' = [req EXCEPT ![r] = IdleReq]
  /\ UNCHANGED <<selected, events>>

\* A key sent before breaks the unique key: the transaction is rolled back.
DuplicateEvent(r) ==
  /\ req[r].pc = "event"
  /\ KeyTaken(req[r].sim, req[r].event.key)
  /\ req' = [req EXCEPT ![r] = IdleReq]
  /\ UNCHANGED <<selected, shipment, events>>

-----------------------------------------------------------------------------
Next ==
  \/ \E s \in Sims, o \in Options : SelectOption(s, o)
  \/ \E r \in Reqs :
       \/ \E s \in Sims : LoadSimulation(r, s)
       \/ FindExisting(r)
       \/ CreateShipment(r)
       \/ \E s \in Sims, e \in Sent : ReadShipment(r, s, e)
       \/ StoreEvent(r)
       \/ DuplicateEvent(r)

Spec == Init /\ [][Next]_vars

-----------------------------------------------------------------------------
(* Properties *)

\* deliveredAt is set exactly when the shipment is DELIVERED, although every
\* event writes back the deliveredAt it read before another event's commit: the
\* lead times and on-time rates of the dashboard count on it.
DeliveredAtMatchesStatus ==
  \A s \in Sims : shipment[s].delivered <=> shipment[s].status = "DELIVERED"

\* The events of a shipment that carry a status, by position.
StatusEvents(s) == {i \in 1 .. Len(events[s]) : events[s][i].status # "none"}

\* The status of a shipment is always that of the event stored last: no path
\* through createTrackingEvent, a repeated key included, changes one without
\* the other.
StatusIsLastEvent ==
  \A s \in Sims : Shipped(s) =>
    /\ StatusEvents(s) = {} => shipment[s].status = "CREATED"
    /\ \A i \in StatusEvents(s) :
         (\A j \in StatusEvents(s) : j <= i) => shipment[s].status = events[s][i].status
=============================================================================
