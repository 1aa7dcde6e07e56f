------------------------------ MODULE Catalog ------------------------------
(***************************************************************************)
(* Branches, customers with their addresses, and carriers: the CRUD of     *)
(* BranchesService, CustomersService and CarriersService, and the import   *)
(* handlers that write customers and carriers row by row.                  *)
(*                                                                         *)
(* Branches of the tenant and addresses of a customer are places of an     *)
(* owner; both carry a main flag that is kept single by clearing the       *)
(* others in a query of its own. Customers and carriers are parties, told  *)
(* apart by the unique keys (document) and (code, document); their other   *)
(* columns, the active flag included, decide nothing here.                 *)
(*                                                                         *)
(* The import worker here is one slot of module Imports seen from its row  *)
(* handler: it may fail at any step and run the file again from its start. *)
(***************************************************************************)
EXTENDS Naturals, Sequences, FiniteSets

CONSTANTS
  Places,       \* ids of branches and addresses
  Parties,      \* ids of customers and carriers
  Documents,    \* valid CPF or CNPJ numbers
  Codes,        \* carrier codes
  Entered,      \* bound: pairs of code and document that users enter
  Files,        \* imports that are started: type, strategy and valid rows
  MaxAttempts,  \* bound: runs of one file
  Reqs          \* HTTP requests in flight at one time

ASSUME ConstantsAssumption ==
  /\ "none" \notin Documents \cup Codes
  /\ "tenant" \notin Parties /\ "new" \notin Places
  /\ Entered \subseteq [code : Codes \cup {"none"}, document : Documents \cup {"none"}]
  /\ \A f \in Files : /\ f.type \in {"customer", "carrier"}
                      /\ f.strategy \in {"FAIL", "SKIP", "UPDATE"}
                      /\ f.rows \in Seq([code : Codes \cup {"none"},
                                         document : Documents \cup {"none"}, address : BOOLEAN])

VARIABLES
  place,    \* branches and customer_addresses
  party,    \* customers and carriers
  worker,   \* the row handler at work
  raced,    \* history: owners for which two changes of the main flag overlapped
  req       \* HTTP requests in flight

vars == <<place, party, worker, raced, req>>

Owners == {"tenant"} \cup Parties

None == [kind |-> "none"]

Place(o, m, a, i) == [kind |-> "place", owner |-> o, main |-> m, active |-> a, imported |-> i]

Party(k, c, d) == [kind |-> k, code |-> c, document |-> d]

Idle == [pc |-> "idle"]

Init ==
  /\ place = [p \in Places |-> None]
  /\ party = [i \in Parties |-> None]
  /\ worker = Idle
  /\ raced = {}
  /\ req = [r \in Reqs |-> Idle]

-----------------------------------------------------------------------------
(* The main flag *)

PlacesOf(o) == {p \in Places : place[p] # None /\ place[p].owner = o}

\* Others between their clearing of the flag of o and their write.
Overlapped(o, r) ==
  \/ \E q \in Reqs \ {r} : req[q].pc = "write" /\ req[q].owner = o /\ req[q].main
  \/ worker.pc = "address" /\ worker.found = o

\* BranchesService.create, and createAddress once the customer is found: a
\* request with the columns it will write. Inputs that set a branch's active
\* flag are left out: nothing here depends on the flag.
Begin(r, o, target, m, a) ==
  /\ req[r] = Idle
  /\ req' = [req EXCEPT ![r] = [pc |-> "clear", owner |-> o, target |-> target,
                                main |-> m, active |-> a]]
  /\ UNCHANGED <<place, party, worker, raced>>

CreateBranch(r) == \E m \in BOOLEAN : Begin(r, "tenant", "new", m, TRUE)

CreateAddress(r) ==
  \E i \in Parties, m \in BOOLEAN : party[i].kind = "customer" /\ Begin(r, i, "new", m, TRUE)

\* BranchesService.update reads the branch; an active flag that the input
\* leaves out is the one read here.
UpdateBranch(r) ==
  \E p \in PlacesOf("tenant"), m \in BOOLEAN : Begin(r, "tenant", p, m, place[p].active)

\* Faulty variant: the other places keep their flag.
ClearMainNot(r) ==
  /\ req[r].pc = "clear"
  /\ req' = [req EXCEPT ![r].pc = "write"]
  /\ raced' = IF req[r].main /\ Overlapped(req[r].owner, r) THEN raced \cup {req[r].owner} ELSE raced
  /\ UNCHANGED <<place, party, worker>>

\* updateMany of the owner's main places but the one that is written, when the
\* input asks for the flag.
ClearMain(r) ==
  LET others == IF req[r].main THEN PlacesOf(req[r].owner) \ {req[r].target} ELSE {} IN
  /\ req[r].pc = "clear"
  /\ place' = [p \in Places |-> IF p \in others THEN [place[p] EXCEPT !.main = FALSE] ELSE place[p]]
  /\ req' = [req EXCEPT ![r].pc = "write"]
  /\ raced' = IF req[r].main /\ Overlapped(req[r].owner, r) THEN raced \cup {req[r].owner} ELSE raced
  /\ UNCHANGED <<party, worker>>

WritePlace(r, p) ==
  /\ req[r].pc = "write"
  /\ IF req[r].target = "new" THEN place[p] = None ELSE p = req[r].target
  /\ place' = [place EXCEPT ![p] = Place(req[r].owner, req[r].main, req[r].active, FALSE)]
  /\ req' = [req EXCEPT ![r] = Idle]
  /\ UNCHANGED <<party, worker, raced>>

\* BranchesService.updateStatus refuses to deactivate the main branch it reads.
StatusRead(r, p, a) ==
  /\ req[r] = Idle
  /\ p \in PlacesOf("tenant")
  /\ place[p].main => a
  /\ req' = [req EXCEPT ![r] = [pc |-> "status", target |-> p, active |-> a]]
  /\ UNCHANGED <<place, party, worker, raced>>

StatusWrite(r) ==
  /\ req[r].pc = "status"
  /\ place' = [place EXCEPT ![req[r].target].active = req[r].active]
  /\ req' = [req EXCEPT ![r] = Idle]
  /\ UNCHANGED <<party, worker, raced>>

\* A request fails half-way: nothing rolls the cleared flags back.
RequestFails(r) ==
  /\ req[r] # Idle
  /\ req' = [req EXCEPT ![r] = Idle]
  /\ UNCHANGED <<place, party, worker, raced>>

-----------------------------------------------------------------------------
(* Customers and carriers *)

\* @@unique([tenantId, document]), @@unique([tenantId, code])
KeyTaken(i, row) ==
  \E j \in Parties \ {i} :
    /\ party[j].kind = row.kind
    /\ \/ row.document # "none" /\ party[j].document = row.document
       \/ row.code # "none" /\ party[j].code = row.code

\* A duplicate is answered with a conflict.
Insert(i, row) ==
  /\ party[i] = None
  /\ ~KeyTaken(i, row)
  /\ party' = [party EXCEPT ![i] = row]
  /\ UNCHANGED <<place, worker, raced, req>>

ReplaceKeys(i, row) ==
  /\ party[i].kind = row.kind
  /\ ~KeyTaken(i, row)
  /\ party' = [party EXCEPT ![i] = row]
  /\ UNCHANGED <<place, worker, raced, req>>

CreateCustomer(i, d) == Insert(i, Party("customer", "none", d))

UpdateCustomer(i, d) == ReplaceKeys(i, Party("customer", "none", d))

CreateCarrier(i, c, d) == Insert(i, Party("carrier", c, d))

UpdateCarrier(i, c, d) == ReplaceKeys(i, Party("carrier", c, d))

-----------------------------------------------------------------------------
(* Import handlers *)

CurrentRow == worker.file.rows[worker.index]

\* Customers are referred to by their document, carriers by their code.
Reference(row) == IF worker.file.type = "customer" THEN row.document ELSE row.code

StartFile(f) ==
  /\ worker.pc = "idle"
  /\ worker' = [pc |-> "lookup", file |-> f, index |-> 1, seen |-> {}, attempt |-> 1, found |-> "none"]
  /\ UNCHANGED <<place, party, raced, req>>

\* A customer is looked up by its document, a carrier by its code and then by
\* its document.
FindExisting(row) ==
  LET by(key, v) == {i \in Parties : /\ party[i].kind = worker.file.type
                                     /\ v # "none" /\ party[i][key] = v}
  IN IF worker.file.type = "carrier" /\ by("code", row.code) # {}
     THEN by("code", row.code) ELSE by("document", row.document)

\* On to the next row, with what happened to this one.
NextRow ==
  IF worker.index = Len(worker.file.rows) THEN Idle
  ELSE [worker EXCEPT !.pc = "lookup", !.index = @ + 1,
                      !.seen = @ \cup {Reference(CurrentRow)}, !.found = "none"]

\* DUPLICATE_IN_FILE, DUPLICATE_IN_TENANT and SKIPPED: the row writes nothing.
RefuseRow ==
  /\ worker.pc = "lookup"
  /\ \/ Reference(CurrentRow) \in worker.seen
     \/ FindExisting(CurrentRow) # {} /\ worker.file.strategy \in {"FAIL", "SKIP"}
  /\ worker' = NextRow
  /\ UNCHANGED <<place, party, raced, req>>

Lookup ==
  /\ worker.pc = "lookup"
  /\ Reference(CurrentRow) \notin worker.seen
  /\ FindExisting(CurrentRow) # {} => worker.file.strategy = "UPDATE"
  /\ worker' = [worker EXCEPT !.pc = "row",
                  !.found = IF FindExisting(CurrentRow) = {} THEN "none"
                            ELSE CHOOSE i \in FindExisting(CurrentRow) : TRUE]
  /\ UNCHANGED <<place, party, raced, req>>

\* The keys after the handler's write: a customer that exists keeps its document.
RowOf(i, row) ==
  IF worker.file.type = "carrier" THEN Party("carrier", row.code, row.document)
  ELSE IF party[i] = None THEN Party("customer", "none", row.document)
  ELSE party[i]

\* Faulty variant: who was found gets another address.
UpdateRowAddress ==
  /\ worker.pc = "row"
  /\ worker.found # "none"
  /\ ~KeyTaken(worker.found, RowOf(worker.found, CurrentRow))
  /\ party' = [party EXCEPT ![worker.found] = RowOf(worker.found, CurrentRow)]
  /\ worker' = IF worker.file.type = "customer" /\ CurrentRow.address
               THEN [worker EXCEPT !.pc = "address"] ELSE NextRow
  /\ UNCHANGED <<place, raced, req>>

UpdateRow ==
  /\ worker.pc = "row"
  /\ worker.found # "none"
  /\ ~KeyTaken(worker.found, RowOf(worker.found, CurrentRow))
  /\ party' = [party EXCEPT ![worker.found] = RowOf(worker.found, CurrentRow)]
  /\ worker' = NextRow
  /\ UNCHANGED <<place, raced, req>>

\* Faulty variant: an upsert that also takes a row made since the lookup.
CreateRowUpsert(i) ==
  /\ worker.pc = "row"
  /\ worker.found = "none"
  /\ party[i] = None \/ FindExisting(CurrentRow) = {i}
  /\ ~KeyTaken(i, RowOf(i, CurrentRow))
  /\ party' = [party EXCEPT ![i] = RowOf(i, CurrentRow)]
  /\ worker' = IF worker.file.type = "customer" /\ CurrentRow.address
               THEN [worker EXCEPT !.pc = "address", !.found = i] ELSE NextRow
  /\ UNCHANGED <<place, raced, req>>

\* A new customer with a postal code, city or state gets a main address.
CreateRow(i) ==
  /\ worker.pc = "row"
  /\ worker.found = "none"
  /\ party[i] = None
  /\ ~KeyTaken(i, RowOf(i, CurrentRow))
  /\ party' = [party EXCEPT ![i] = RowOf(i, CurrentRow)]
  /\ worker' = IF worker.file.type = "customer" /\ CurrentRow.address
               THEN [worker EXCEPT !.pc = "address", !.found = i] ELSE NextRow
  /\ UNCHANGED <<place, raced, req>>

CreateRowAddress(p) ==
  /\ worker.pc = "address"
  /\ place[p] = None
  /\ place' = [place EXCEPT ![p] = Place(worker.found, TRUE, TRUE, TRUE)]
  /\ worker' = NextRow
  /\ UNCHANGED <<party, raced, req>>

\* A query of the handler rejects, on a key taken since the lookup or for
\* another reason: the attempt fails and the file is run again from its start.
AttemptFails ==
  /\ worker.pc # "idle"
  /\ worker' = IF worker.attempt = MaxAttempts THEN Idle
               ELSE [worker EXCEPT !.pc = "lookup", !.index = 1, !.seen = {},
                                   !.attempt = @ + 1, !.found = "none"]
  /\ UNCHANGED <<place, party, raced, req>>

-----------------------------------------------------------------------------
Manage(r) ==
  \/ CreateBranch(r) \/ CreateAddress(r) \/ UpdateBranch(r)
  \/ ClearMain(r)
  \/ \E p \in Places : WritePlace(r, p)
  \/ \E p \in Places, a \in BOOLEAN : StatusRead(r, p, a)
  \/ StatusWrite(r)
  \/ RequestFails(r)

ManageParties ==
  \E i \in Parties, e \in Entered :
    \/ CreateCustomer(i, e.document)
    \/ UpdateCustomer(i, e.document)
    \/ CreateCarrier(i, e.code, e.document)
    \/ UpdateCarrier(i, e.code, e.document)

Import ==
  \/ \E f \in Files : StartFile(f)
  \/ RefuseRow \/ Lookup \/ UpdateRow
  \/ \E i \in Parties : CreateRow(i)
  \/ \E p \in Places : CreateRowAddress(p)
  \/ AttemptFails

Next == (\E r \in Reqs : Manage(r)) \/ ManageParties \/ Import

Spec == Init /\ [][Next]_vars

-----------------------------------------------------------------------------
(* Properties *)

\* A tenant has at most one main branch and a customer at most one main
\* address, whatever fails half-way, unless a request cleared the flag while
\* another (or the import of that customer) was about to set it.
OneMain ==
  \A o \in Owners \ raced : Cardinality({p \in PlacesOf(o) : place[p].main}) <= 1

\* A customer gets an address from an import once, when the import creates it:
\* a second run of the file after a failure, or another file, adds none.
ImportedAddressOnce ==
  \A o \in Parties : Cardinality({p \in PlacesOf(o) : place[p].imported}) <= 1

\* A file whose strategy is not UPDATE changes no customer or carrier that
\* exists: not even one that was entered after the handler looked for it.
KeepsExisting ==
  [][(worker # worker' /\ worker.pc # "idle" /\ worker.file.strategy # "UPDATE")
       => \A i \in Parties : party[i] # None => party'[i] = party[i]]_vars
=============================================================================
