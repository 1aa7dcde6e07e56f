-------------------------- MODULE ShipmentsProofs --------------------------
(***************************************************************************)
(* Theorems about Shipments, for every set of simulations, options, keys   *)
(* and requests and every number of events.                                *)
(***************************************************************************)
EXTENDS Shipments, TLAPS

\* A request that has read a set deliveredAt has read DELIVERED, so it carries
\* no other status; and it waits on a shipment that exists.
ReadsAllowed ==
  \A r \in Reqs : req[r].pc = "event" =>
    /\ Shipped(req[r].sim)
    /\ req[r].delivered => req[r].event.status \in {"none", "DELIVERED"}

\* Events belong to shipments that exist.
EventsOfShipped == \A s \in Sims : ~ Shipped(s) => events[s] = << >>

IInv ==
  TypeOK /\ DeliveredAtMatchesStatus /\ StatusIsLastEvent /\ ReadsAllowed /\ EventsOfShipped

-----------------------------------------------------------------------------
(* Records *)

LEMMA ReqShape ==
  ASSUME TypeOK, NEW r \in Reqs
  PROVE  /\ req[r].pc \in {"check", "insert"} =>
              req[r].sim \in Sims /\ req[r].option \in Options
         /\ req[r].pc = "event" =>
              /\ req[r].sim \in Sims
              /\ req[r].event \in Event
              /\ req[r].delivered \in BOOLEAN
  BY DEF TypeOK, Requests, IdleReq

LEMMA ReqBuilt ==
  ASSUME NEW s \in Sims, NEW o \in Options, NEW e \in Event, NEW d \in BOOLEAN,
         NEW p \in {"check", "insert"}
  PROVE  /\ ShipmentReq(p, s, o) \in Requests
         /\ ShipmentReq(p, s, o).pc = p
         /\ EventReq(s, e, d) \in Requests
         /\ EventReq(s, e, d).pc = "event"
         /\ EventReq(s, e, d).sim = s
         /\ EventReq(s, e, d).event = e
         /\ EventReq(s, e, d).delivered = d
         /\ IdleReq \in Requests
         /\ IdleReq.pc = "idle"
  BY DEF Requests, ShipmentReq, EventReq, IdleReq

LEMMA RowShape ==
  ASSUME NEW x \in ShipmentRow \cup {NoShipment}
  PROVE  x.delivered \in BOOLEAN
<1>1. CASE x \in ShipmentRow
  BY <1>1 DEF ShipmentRow
<1>2. CASE x = NoShipment
  BY <1>2 DEF NoShipment, Row
<1> QED BY <1>1, <1>2

LEMMA RowBuilt ==
  ASSUME NEW o \in Options, NEW st \in ShipmentStatus, NEW d \in BOOLEAN
  PROVE  /\ Row(o, st, d) \in ShipmentRow
         /\ Row(o, st, d).status = st
         /\ Row(o, st, d).delivered = d
         /\ Row(o, st, d) # NoShipment
  BY DEF Row, ShipmentRow, NoShipment, ShipmentStatus

\* An allowed transition out of DELIVERED leads back to DELIVERED.
LEMMA DeliveredIsFinal ==
  ASSUME NEW st, IsValidTransition("DELIVERED", st)
  PROVE  st = "DELIVERED"
  BY DEF IsValidTransition, Transitions

\* A step that only moves requests, to an idle one or one for a shipment.
LEMMA RequestStep ==
  ASSUME IInv, UNCHANGED <<shipment, events>>, NEW r \in Reqs, NEW q \in Requests,
         selected' \in [Sims -> Options \cup {"none"}],
         req' = [req EXCEPT ![r] = q],
         q.pc = "event" => /\ Shipped(q.sim)
                           /\ q.delivered => q.event.status \in {"none", "DELIVERED"}
  PROVE  IInv'
<1>1. TypeOK'
  BY DEF IInv, TypeOK
<1>2. DeliveredAtMatchesStatus' /\ StatusIsLastEvent' /\ EventsOfShipped'
  BY DEF IInv, DeliveredAtMatchesStatus, StatusIsLastEvent, StatusEvents,
         EventsOfShipped, Shipped
<1>3. ReadsAllowed'
  BY DEF IInv, TypeOK, ReadsAllowed, Shipped
<1> QED BY <1>1, <1>2, <1>3 DEF IInv

-----------------------------------------------------------------------------
(* One lemma per action that writes more than its own request *)

LEMMA CreateShipmentStep ==
  ASSUME IInv, NEW r \in Reqs, CreateShipment(r)
  PROVE  IInv'
<1> DEFINE s == req[r].sim
           row == Row(req[r].option, "CREATED", FALSE)
<1>1. s \in Sims /\ req[r].option \in Options
  BY ReqShape DEF IInv, CreateShipment
<1>2. row \in ShipmentRow /\ row # NoShipment /\ row.status = "CREATED" /\ ~ row.delivered
  BY <1>1, RowBuilt DEF ShipmentStatus
<1>3. CASE Shipped(s)
  <2>1. UNCHANGED <<shipment, events, selected>> /\ req' = [req EXCEPT ![r] = IdleReq]
    BY <1>3 DEF CreateShipment
  <2>2. IdleReq \in Requests /\ IdleReq.pc # "event"
    BY DEF Requests, IdleReq
  <2> QED BY <2>1, <2>2, RequestStep DEF IInv, TypeOK
<1>4. CASE ~ Shipped(s)
  <2> HIDE DEF row
  <2>1. shipment' = [shipment EXCEPT ![s] = row] /\ events' = events
        /\ selected' = selected /\ req' = [req EXCEPT ![r] = IdleReq]
    BY <1>4 DEF CreateShipment, row
  <2> HIDE DEF s
  <2>2. IdleReq \in Requests /\ IdleReq.pc # "event"
    BY DEF Requests, IdleReq
  <2>3. TypeOK'
    BY <1>1, <1>2, <2>1, <2>2 DEF IInv, TypeOK
  <2>4. DeliveredAtMatchesStatus'
    BY <1>1, <1>2, <2>1 DEF IInv, TypeOK, DeliveredAtMatchesStatus
  <2>5. events[s] = << >>
    BY <1>1, <1>4 DEF IInv, EventsOfShipped
  <2>6. StatusIsLastEvent'
    BY <1>1, <1>2, <2>1, <2>5 DEF IInv, TypeOK, StatusIsLastEvent, StatusEvents, Shipped
  <2>7. ReadsAllowed'
    BY <1>1, <1>2, <2>1, <2>2 DEF IInv, TypeOK, ReadsAllowed, Shipped
  <2>8. EventsOfShipped'
    BY <1>1, <1>2, <2>1 DEF IInv, TypeOK, EventsOfShipped, Shipped
  <2> QED BY <2>3, <2>4, <2>6, <2>7, <2>8 DEF IInv
<1> QED BY <1>3, <1>4

LEMMA ReadShipmentStep ==
  ASSUME IInv, NEW r \in Reqs, NEW s \in Sims, NEW e \in Event, ReadShipment(r, s, e)
  PROVE  IInv'
<1> DEFINE d == shipment[s].delivered
           q == EventReq(s, e, d)
<1>1. d \in BOOLEAN
  BY RowShape DEF IInv, TypeOK
<1>2. q \in Requests /\ q.sim = s /\ q.event = e /\ q.delivered = d
  BY <1>1, ReqBuilt DEF Requests, EventReq
<1>3. d => e.status \in {"none", "DELIVERED"}
  BY DeliveredIsFinal DEF IInv, DeliveredAtMatchesStatus, ReadShipment
<1>4. UNCHANGED <<selected, shipment, events>> /\ req' = [req EXCEPT ![r] = q] /\ Shipped(s)
  BY DEF ReadShipment
<1> HIDE DEF q, d
<1> QED BY <1>2, <1>3, <1>4, RequestStep DEF IInv, TypeOK

LEMMA StoreEventStep ==
  ASSUME IInv, NEW r \in Reqs, StoreEvent(r)
  PROVE  IInv'
<1> DEFINE s == req[r].sim
           e == req[r].event
           d == (e.status = "DELIVERED" \/ req[r].delivered)
           row == IF e.status = "none" THEN shipment[s]
                  ELSE Row(shipment[s].option, e.status, d)
<1>1. s \in Sims /\ e \in Event /\ req[r].delivered \in BOOLEAN
  BY ReqShape DEF IInv, StoreEvent
<1>2. Shipped(s) /\ (req[r].delivered => e.status \in {"none", "DELIVERED"})
  BY DEF IInv, ReadsAllowed, StoreEvent
<1>3. e.status \in ShipmentStatus \cup {"none"}
  BY <1>1 DEF Event
<1>4. shipment[s] \in ShipmentRow
  BY <1>1, <1>2 DEF IInv, TypeOK, Shipped
<1>5. /\ shipment' = [shipment EXCEPT ![s] = row]
      /\ events' = [events EXCEPT ![s] = Append(events[s], e)]
      /\ selected' = selected
      /\ req' = [req EXCEPT ![r] = IdleReq]
      /\ Len(events[s]) < MaxEvents
  BY <1>1, <1>4 DEF StoreEvent, IInv, TypeOK
<1>6. /\ row \in ShipmentRow /\ row # NoShipment
      /\ row.delivered <=> row.status = "DELIVERED"
      /\ e.status = "none" => row.status = shipment[s].status
      /\ e.status # "none" => row.status = e.status
  <2>1. CASE e.status = "none"
    BY <2>1, <1>1, <1>2, <1>4 DEF IInv, DeliveredAtMatchesStatus, Shipped
  <2>2. CASE e.status # "none"
    <3>1. e.status \in ShipmentStatus /\ d \in BOOLEAN
      BY <2>2, <1>3, <1>1
    <3>2. d <=> e.status = "DELIVERED"
      BY <2>2, <1>2
    <3>3. row = Row(shipment[s].option, e.status, d) /\ shipment[s].option \in Options
      BY <2>2, <1>4 DEF ShipmentRow
    <3> HIDE DEF row, d
    <3> QED BY <1>4, <2>2, <3>1, <3>2, <3>3, RowBuilt
  <2> QED BY <2>1, <2>2
<1>7. IdleReq \in Requests /\ IdleReq.pc # "event"
  BY DEF Requests, IdleReq
<1> HIDE DEF s, e, d, row
<1>8. events[s] \in Seq(Event) /\ Append(events[s], e) \in Seq(Event)
      /\ Len(Append(events[s], e)) = Len(events[s]) + 1 /\ Len(events[s]) \in Nat
  BY <1>1 DEF IInv, TypeOK
<1>9. \A i \in 1 .. Len(events[s]) : Append(events[s], e)[i] = events[s][i]
  BY <1>8, <1>1
<1>10. Append(events[s], e)[Len(events[s]) + 1] = e
  BY <1>8, <1>1
<1>11. TypeOK'
  <2>1. events' \in [Sims -> Seq(Event)]
    BY <1>1, <1>5, <1>8 DEF IInv, TypeOK
  <2>2. \A t \in Sims : Len(events'[t]) <= MaxEvents
    BY <1>1, <1>5, <1>8, ConstantsAssumption DEF IInv, TypeOK
  <2>3. shipment' \in [Sims -> ShipmentRow \cup {NoShipment}]
    BY <1>1, <1>5, <1>6 DEF IInv, TypeOK
  <2> QED BY <2>1, <2>2, <2>3, <1>5, <1>7 DEF IInv, TypeOK
<1>12. DeliveredAtMatchesStatus'
  BY <1>1, <1>5, <1>6 DEF IInv, TypeOK, DeliveredAtMatchesStatus
<1>13. StatusIsLastEvent'
  <2> SUFFICES ASSUME NEW t \in Sims, Shipped(t)'
               PROVE  /\ StatusEvents(t)' = {} => shipment'[t].status = "CREATED"
                      /\ \A i \in StatusEvents(t)' :
                           (\A j \in StatusEvents(t)' : j <= i)
                             => shipment'[t].status = events'[t][i].status
    BY DEF StatusIsLastEvent
  <2>1. CASE t # s
    BY <2>1, <1>1, <1>5 DEF IInv, TypeOK, StatusIsLastEvent, StatusEvents, Shipped
  <2>2. CASE t = s /\ e.status = "none"
    <3>1. StatusEvents(t)' = StatusEvents(t)
      BY <2>2, <1>1, <1>5, <1>8, <1>9, <1>10 DEF StatusEvents, IInv, TypeOK
    <3>2. \A i \in StatusEvents(t) : events'[t][i] = events[t][i]
      BY <2>2, <1>1, <1>5, <1>9 DEF StatusEvents, IInv, TypeOK
    <3>3. shipment'[s].status = shipment[s].status
      BY <2>2, <1>1, <1>5, <1>6 DEF IInv, TypeOK
    <3> QED BY <2>2, <3>1, <3>2, <3>3, <1>1, <1>2 DEF IInv, StatusIsLastEvent
  <2>3. CASE t = s /\ e.status # "none"
    <3>1. Len(events[t]) + 1 \in StatusEvents(t)'
      BY <2>3, <1>1, <1>5, <1>8, <1>10 DEF StatusEvents, IInv, TypeOK
    <3>2. \A i \in StatusEvents(t)' : i \in Nat /\ i <= Len(events[t]) + 1
      BY <2>3, <1>1, <1>5, <1>8 DEF StatusEvents, IInv, TypeOK
    <3>3. events'[t][Len(events[t]) + 1] = e /\ shipment'[t].status = e.status
      BY <2>3, <1>1, <1>5, <1>6, <1>10 DEF IInv, TypeOK
    <3>4. \A i \in StatusEvents(t)' :
            (\A j \in StatusEvents(t)' : j <= i) => i = Len(events[t]) + 1
      BY <2>3, <3>1, <3>2, <1>8
    <3> QED BY <2>3, <3>1, <3>3, <3>4
  <2> QED BY <2>1, <2>2, <2>3
<1>14. ReadsAllowed'
  BY <1>1, <1>5, <1>6, <1>7 DEF IInv, TypeOK, ReadsAllowed, Shipped
<1>15. EventsOfShipped'
  BY <1>1, <1>5, <1>6 DEF IInv, TypeOK, EventsOfShipped, Shipped
<1> QED BY <1>11, <1>12, <1>13, <1>14, <1>15 DEF IInv

-----------------------------------------------------------------------------
LEMMA InitIInv ==
  ASSUME Init
  PROVE  IInv
<1>1. TypeOK
  BY ConstantsAssumption DEF Init, TypeOK, Requests, IdleReq
<1>2. IdleReq.pc # "event" /\ NoShipment.status # "DELIVERED" /\ ~ NoShipment.delivered
  BY DEF IdleReq, NoShipment, Row
<1>3. DeliveredAtMatchesStatus
  BY <1>2 DEF Init, DeliveredAtMatchesStatus
<1>4. StatusIsLastEvent /\ EventsOfShipped
  BY DEF Init, StatusIsLastEvent, EventsOfShipped, Shipped
<1>5. ReadsAllowed
  BY <1>2 DEF Init, ReadsAllowed
<1> QED BY <1>1, <1>3, <1>4, <1>5 DEF IInv

LEMMA NextIInv ==
  ASSUME IInv, [Next]_vars
  PROVE  IInv'
<1>1. ASSUME NEW s \in Sims, NEW o \in Options, SelectOption(s, o)
      PROVE  IInv'
  <2>1. TypeOK'
    BY <1>1 DEF IInv, TypeOK, SelectOption
  <2>2. UNCHANGED <<shipment, events, req>>
    BY <1>1 DEF SelectOption
  <2> QED BY <2>1, <2>2 DEF IInv, DeliveredAtMatchesStatus, StatusIsLastEvent,
             StatusEvents, ReadsAllowed, EventsOfShipped, Shipped
<1>2. ASSUME NEW r \in Reqs, NEW s \in Sims, LoadSimulation(r, s)
      PROVE  IInv'
  <2> DEFINE q == ShipmentReq("check", s, selected[s])
  <2>1. selected[s] \in Options
    BY <1>2 DEF IInv, TypeOK, LoadSimulation
  <2>2. q \in Requests /\ q.pc = "check"
    BY <2>1 DEF Requests, ShipmentReq
  <2>3. UNCHANGED <<selected, shipment, events>> /\ req' = [req EXCEPT ![r] = q]
    BY <1>2 DEF LoadSimulation
  <2> HIDE DEF q
  <2> QED BY <2>2, <2>3, RequestStep DEF IInv, TypeOK
<1>3. ASSUME NEW r \in Reqs, FindExisting(r)
      PROVE  IInv'
  <2> DEFINE q == IF Shipped(req[r].sim) THEN IdleReq
                  ELSE ShipmentReq("insert", req[r].sim, req[r].option)
  <2>1. req[r].sim \in Sims /\ req[r].option \in Options
    BY <1>3, ReqShape DEF IInv, FindExisting
  <2>2. q \in Requests /\ q.pc # "event"
    BY <2>1 DEF Requests, ShipmentReq, IdleReq
  <2>3. UNCHANGED <<selected, shipment, events>> /\ req' = [req EXCEPT ![r] = q]
    BY <1>3 DEF FindExisting
  <2> HIDE DEF q
  <2> QED BY <2>2, <2>3, RequestStep DEF IInv, TypeOK
<1>4. ASSUME NEW r \in Reqs, DuplicateEvent(r)
      PROVE  IInv'
  <2>1. IdleReq \in Requests /\ IdleReq.pc # "event"
    BY DEF Requests, IdleReq
  <2>2. UNCHANGED <<selected, shipment, events>> /\ req' = [req EXCEPT ![r] = IdleReq]
    BY <1>4 DEF DuplicateEvent
  <2> QED BY <2>1, <2>2, RequestStep DEF IInv, TypeOK
<1>5. ASSUME UNCHANGED vars
      PROVE  IInv'
  <2>1. TypeOK'
    BY <1>5 DEF vars, IInv, TypeOK
  <2>2. UNCHANGED <<shipment, events, req>>
    BY <1>5 DEF vars
  <2> QED BY <2>1, <2>2 DEF IInv, DeliveredAtMatchesStatus, StatusIsLastEvent,
             StatusEvents, ReadsAllowed, EventsOfShipped, Shipped
<1> QED BY <1>1, <1>2, <1>3, <1>4, <1>5, CreateShipmentStep, ReadShipmentStep,
           StoreEventStep DEF Next, Sent

\* The conjunction of what is checked, and the requests it rests on, holds in
\* every reachable state.
THEOREM ShipmentInvariant == Spec => []IInv
<1>1. Init => IInv
  BY InitIInv
<1>2. IInv /\ [Next]_vars => IInv'
  BY NextIInv
<1> QED BY <1>1, <1>2, PTL DEF Spec

\* createTrackingEvent keeps deliveredAt and the status of a shipment in step,
\* however many requests overlap: deliveredAt is set exactly when the shipment
\* is DELIVERED.
THEOREM DeliveryDates == Spec => []DeliveredAtMatchesStatus
<1>1. IInv => DeliveredAtMatchesStatus
  BY DEF IInv
<1> QED BY <1>1, ShipmentInvariant, PTL

\* The status of a shipment is that of the event stored last: the insert and
\* the update of createTrackingEvent take effect together or not at all.
THEOREM LastEventRules == Spec => []StatusIsLastEvent
<1>1. IInv => StatusIsLastEvent
  BY DEF IInv
<1> QED BY <1>1, ShipmentInvariant, PTL
=============================================================================
