----------------------------- MODULE Workspace -----------------------------
(***************************************************************************)
(* FreightSimulationWorkspace, the page on which a user fills in a form,   *)
(* has it priced, selects one of the options and ships it, with the parts  *)
(* of the server its requests change: the stored simulations, the selected *)
(* option of each and its shipment.                                        *)
(*                                                                         *)
(* A mutation of TanStack Query shows isPending for the call it started    *)
(* last, until it is answered or reset; the onSuccess and onError of a     *)
(* call run whether or not it is the one being watched.                    *)
(*                                                                         *)
(* The form is the customer, an address with its postal code, whose edits  *)
(* stand for those of the other fields, and the number of its volumes.     *)
(* There are branches and carriers, so that the form may be submitted.     *)
(***************************************************************************)
EXTENDS Naturals, Sequences

CONSTANTS
  Customers,    \* customers of the tenant
  PostalCodes,  \* postal codes with a known address
  Options,      \* options of a simulation
  NumSlots,     \* requests of the page in flight at one time
  MaxSims,      \* bound: simulations that are asked for
  MaxEdits,     \* bound: changes of the form, lookups and refreshes
  MaxActions    \* bound: both together

ASSUME WorkspaceAssumption ==
  /\ "none" \notin Customers \cup PostalCodes \cup Options
  /\ PostalCodes # {}
  /\ NumSlots \in Nat /\ MaxSims \in Nat /\ MaxEdits \in Nat /\ MaxActions \in Nat

VARIABLES
  form,        \* customerId, address and cargo as they are entered
  simulation,  \* the simulation shown, as the last answer had it
  watch,       \* the slot whose call each mutation is watching
  call,        \* requests in flight
  lookup,      \* postal code whose address is being looked up
  refresh,     \* refreshOperationalData, with the customer it was called with
  listed,      \* customers the page offers
  active,      \* customers the server accepts
  sims,        \* simulations stored by the server
  asked,       \* history: simulations asked for
  edits,       \* history: edits so far
  clean        \* history: since the last submit no action has crossed another

workspaceVars == <<form, simulation, watch, call, lookup, refresh, listed, active, sims, asked, edits, clean>>

serverVars == <<active, sims>>

Slots == 1 .. NumSlots

Nothing == [id |-> 0, selected |-> "none"]

Free == [kind |-> "free"]

NoWatch == [create |-> 0, select |-> 0, ship |-> 0]

IsPending(k) == watch[k] # 0

\* The slots have no meaning: a call takes the first free one.
NextFree(s) == call[s] = Free /\ \A t \in 1 .. s - 1 : call[t] # Free

InFlight(k) == \E s \in Slots : call[s].kind = k

WorkspaceInit ==
  /\ form = [customer |-> "none", cep |-> CHOOSE z \in PostalCodes : TRUE, city |-> "none",
             packages |-> 1]
  /\ simulation = Nothing
  /\ watch = NoWatch
  /\ call = [s \in Slots |-> Free]
  /\ lookup = "none"
  /\ refresh = "off"
  /\ listed = Customers /\ active = Customers
  /\ sims = << >>
  /\ asked = 0 /\ edits = 0
  /\ clean = FALSE

-----------------------------------------------------------------------------
(* The form. *)

Edit ==
  /\ edits < MaxEdits /\ edits + asked < MaxActions
  /\ edits' = edits + 1
  /\ clean' = FALSE

\* A new customer resets createMutation: the form may be submitted again.
ChangeCustomer(c) ==
  /\ form.customer # c
  /\ form' = [form EXCEPT !.customer = c]
  /\ watch' = [watch EXCEPT !.create = 0]
  /\ Edit
  /\ UNCHANGED <<simulation, call, lookup, refresh, listed, serverVars, asked>>

\* onChange of AddressFields: the other fields stay. The value of the cargo is
\* edited in the same way.
TypePostalCode(z) ==
  /\ form.cep # z
  /\ form' = [form EXCEPT !.cep = z]
  /\ Edit
  /\ UNCHANGED <<simulation, watch, call, lookup, refresh, listed, serverVars, asked>>

\* Another volume, or one less unless it is the last; new measures are an edit
\* like the one above.
ChangeVolumes(n) ==
  /\ n = form.packages + 1 \/ (form.packages > 1 /\ n = form.packages - 1)
  /\ form' = [form EXCEPT !.packages = n]
  /\ Edit
  /\ UNCHANGED <<simulation, watch, call, lookup, refresh, listed, serverVars, asked>>

OnLookup ==
  /\ lookup = "none"
  /\ lookup' = form.cep
  /\ Edit
  /\ UNCHANGED <<form, simulation, watch, call, refresh, listed, serverVars, asked>>

\* setOrigin, setDestination: the answer replaces what was typed since.
LookupAnswered ==
  /\ lookup # "none"
  /\ lookup' = "none"
  /\ \/ form' = [form EXCEPT !.cep = lookup, !.city = lookup]
     \/ UNCHANGED form
  /\ UNCHANGED <<simulation, watch, call, refresh, listed, serverVars, asked, edits, clean>>

\* refreshOperationalData keeps the customerId of the moment it was called.
RefreshClick ==
  /\ refresh = "off"
  /\ refresh' = form.customer
  /\ Edit
  /\ UNCHANGED <<form, simulation, watch, call, lookup, listed, serverVars, asked>>

RefreshAnswered ==
  /\ refresh # "off"
  /\ refresh' = "off"
  /\ listed' = active
  /\ form' = IF refresh \in Customers \ active THEN [form EXCEPT !.customer = "none"] ELSE form
  /\ UNCHANGED <<simulation, watch, call, lookup, serverVars, asked, edits, clean>>

\* Another user deactivates a customer.
Deactivate(c) ==
  /\ c \in active
  /\ active' = active \ {c}
  /\ UNCHANGED <<form, simulation, watch, call, lookup, refresh, listed, sims, asked, edits, clean>>

-----------------------------------------------------------------------------
(* The calculation. *)

\* handleSubmit: the three mutations are reset, the calculation is started.
HandleSubmit(s) ==
  /\ NextFree(s) /\ asked < MaxSims /\ edits + asked < MaxActions
  /\ ~IsPending("create")
  /\ call' = [call EXCEPT ![s] = [kind |-> "create", at |-> "sent", input |-> form]]
  /\ watch' = [NoWatch EXCEPT !.create = s]
  /\ asked' = asked + 1
  /\ clean' = (~InFlight("select") /\ ~InFlight("create") /\ lookup = "none" /\ refresh = "off")
  /\ UNCHANGED <<form, simulation, lookup, refresh, listed, serverVars, edits>>

\* FreightSimulationsService.create: the customer is gone, no service is
\* eligible, or the simulation is stored.
CreateServed(s) ==
  /\ call[s].kind = "create" /\ call[s].at = "sent"
  /\ LET c == call[s].input.customer
     IN  IF c # "none" /\ c \notin active
         THEN call' = [call EXCEPT ![s].at = "missing"] /\ UNCHANGED sims
         ELSE \/ call' = [call EXCEPT ![s].at = "failed"] /\ UNCHANGED sims
              \/ /\ sims' = Append(sims, [input |-> call[s].input, selected |-> "none", shipped |-> "none"])
                 /\ call' = [call EXCEPT ![s] = [kind |-> "create", at |-> "done", id |-> Len(sims')]]
  /\ UNCHANGED <<form, simulation, watch, lookup, refresh, listed, active, asked, edits, clean>>

\* What an answer does to its slot and to the mutation that watches it.
Answered(s, k) ==
  /\ call' = [call EXCEPT ![s] = Free]
  /\ watch' = IF watch[k] = s THEN [watch EXCEPT ![k] = 0] ELSE watch

\* Faulty variant: the selection of the simulation shown before is kept.
CreateAnsweredSelected(s) ==
  /\ call[s].kind = "create" /\ call[s].at # "sent"
  /\ Answered(s, "create")
  /\ simulation' = IF call[s].at = "done" THEN [simulation EXCEPT !.id = call[s].id] ELSE simulation
  /\ form' = IF call[s].at = "missing" THEN [form EXCEPT !.customer = "none"] ELSE form
  /\ clean' = (clean /\ call[s].at = "done")
  /\ UNCHANGED <<lookup, refresh, listed, serverVars, asked, edits>>

\* onSuccess and onError of createMutation.
CreateAnswered(s) ==
  /\ call[s].kind = "create" /\ call[s].at # "sent"
  /\ Answered(s, "create")
  /\ simulation' = IF call[s].at = "done" THEN [id |-> call[s].id, selected |-> "none"] ELSE simulation
  /\ form' = IF call[s].at = "missing" THEN [form EXCEPT !.customer = "none"] ELSE form
  /\ clean' = (clean /\ call[s].at = "done")
  /\ UNCHANGED <<lookup, refresh, listed, serverVars, asked, edits>>

-----------------------------------------------------------------------------
(* Selection and shipment. *)

\* A selection makes the shipments of the simulation that are under way unsure.
SelectClick(s, o) ==
  /\ NextFree(s) /\ simulation # Nothing
  /\ ~IsPending("select") /\ simulation.selected # o
  /\ call' = [t \in Slots |->
                IF t = s THEN [kind |-> "select", at |-> "sent", id |-> simulation.id, option |-> o]
                ELSE IF call[t].kind = "ship" /\ call[t].id = simulation.id
                     THEN [call[t] EXCEPT !.sure = FALSE] ELSE call[t]]
  /\ watch' = [watch EXCEPT !.select = s]
  /\ clean' = (clean /\ ~InFlight("create"))
  /\ UNCHANGED <<form, simulation, lookup, refresh, listed, serverVars, asked, edits>>

\* selectOption writes the flags in a transaction ...
SelectServed(s) ==
  /\ call[s].kind = "select" /\ call[s].at = "sent"
  /\ sims' = [sims EXCEPT ![call[s].id].selected = call[s].option]
  /\ call' = [call EXCEPT ![s].at = "written"]
  /\ UNCHANGED <<form, simulation, watch, lookup, refresh, listed, active, asked, edits, clean>>

\* ... and then loads the simulation for its answer.
SelectLoaded(s) ==
  /\ call[s].kind = "select" /\ call[s].at = "written"
  /\ call' = [call EXCEPT ![s].at = "done", ![s].option = sims[call[s].id].selected]
  /\ UNCHANGED <<form, simulation, watch, lookup, refresh, listed, serverVars, asked, edits, clean>>

\* Its onSuccess shows the simulation of the answer, whatever is shown by now.
SelectAnswered(s) ==
  /\ call[s].kind = "select" /\ call[s].at = "done"
  /\ Answered(s, "select")
  /\ simulation' = [id |-> call[s].id, selected |-> call[s].option]
  /\ UNCHANGED <<form, lookup, refresh, listed, serverVars, asked, edits, clean>>

\* "Gerar Shipment" is offered with the selected option, while a selection is
\* under way too.
ShipClick(s) ==
  /\ NextFree(s) /\ simulation.selected # "none"
  /\ ~IsPending("ship")
  /\ call' = [call EXCEPT ![s] =
                [kind |-> "ship", at |-> "sent", id |-> simulation.id, option |-> simulation.selected,
                 sure |-> clean /\ ~InFlight("create") /\ ~InFlight("select") /\ sims[simulation.id].shipped = "none"]]
  /\ watch' = [watch EXCEPT !.ship = s]
  /\ UNCHANGED <<form, simulation, lookup, refresh, listed, serverVars, asked, edits, clean>>

\* Faulty variant: the first option is shipped.
ShipServedFirst(s) ==
  /\ call[s].kind = "ship" /\ call[s].at = "sent"
  /\ sims' = [sims EXCEPT ![call[s].id].shipped = IF @ = "none" THEN CHOOSE o \in Options : TRUE ELSE @]
  /\ call' = [call EXCEPT ![s].at = "done"]
  /\ UNCHANGED <<form, simulation, watch, lookup, refresh, listed, active, asked, edits, clean>>

\* createShipment ships the option selected by now, or finds a shipment.
ShipServed(s) ==
  /\ call[s].kind = "ship" /\ call[s].at = "sent"
  /\ sims' = [sims EXCEPT ![call[s].id].shipped = IF @ = "none" THEN sims[call[s].id].selected ELSE @]
  /\ call' = [call EXCEPT ![s].at = "done"]
  /\ UNCHANGED <<form, simulation, watch, lookup, refresh, listed, active, asked, edits, clean>>

ShipAnswered(s) ==
  /\ call[s].kind = "ship" /\ call[s].at = "done"
  /\ Answered(s, "ship")
  /\ UNCHANGED <<form, simulation, lookup, refresh, listed, serverVars, asked, edits, clean>>

\* A request that gets no answer, or an error the page only shows.
CallFails(s) ==
  /\ call[s].kind \in {"select", "ship"}
  /\ Answered(s, call[s].kind)
  /\ clean' = FALSE
  /\ UNCHANGED <<form, simulation, lookup, refresh, listed, serverVars, asked, edits>>

-----------------------------------------------------------------------------
WorkspaceNext ==
  \/ \E c \in listed \cup {"none"} : ChangeCustomer(c)
  \/ \E z \in PostalCodes : TypePostalCode(z)
  \/ \E n \in 1 .. MaxEdits + 1 : ChangeVolumes(n)
  \/ OnLookup \/ LookupAnswered \/ RefreshClick \/ RefreshAnswered
  \/ \E c \in Customers : Deactivate(c)
  \/ \E s \in Slots :
       \/ HandleSubmit(s) \/ CreateServed(s) \/ CreateAnswered(s)
       \/ \E o \in Options : SelectClick(s, o)
       \/ SelectServed(s) \/ SelectLoaded(s) \/ SelectAnswered(s)
       \/ ShipClick(s) \/ ShipServed(s) \/ ShipAnswered(s) \/ CallFails(s)

WorkspaceSpec == WorkspaceInit /\ [][WorkspaceNext]_workspaceVars

\* What the page shows once everything is answered: the simulation of the form that
\* was last submitted, with the option the server has selected. It may show another
\* when the form was edited, or when actions crossed: a selection made during a
\* calculation brings the older simulation back.
QuietPageIsRight ==
  (clean /\ \A s \in Slots : call[s] = Free)
    => /\ simulation # Nothing
       /\ sims[simulation.id].input = form
       /\ sims[simulation.id].selected = simulation.selected

\* The option that is shipped is the one the page showed as selected when the user
\* asked for the shipment. It may be another when a selection was under way or made
\* meanwhile, or when the simulation had a shipment already.
ShipsWhatWasShown ==
  \A s \in Slots :
    (call[s].kind = "ship" /\ call[s].at = "done" /\ call[s].sure)
      => sims[call[s].id].shipped = call[s].option
=============================================================================
