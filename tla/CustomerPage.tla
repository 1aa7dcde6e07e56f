---------------------------- MODULE CustomerPage ----------------------------
(***************************************************************************)
(* CustomerManagement, the page on which customers are entered, listed,    *)
(* activated and deactivated, with the operations of CustomersService it   *)
(* calls, and the others who write customers: nobody tells the page.       *)
(*                                                                         *)
(* The list is a query and both changes are mutations of TanStack Query. A *)
(* mutation is pending until its onSuccess ends, which waits for the list  *)
(* to be loaded again; a load that is under way is dropped for a new one   *)
(* unless it is the first. The query is shared with the page of the        *)
(* freight, which may have loaded the list before, or be loading it.       *)
(* apiRequest gives a call up after a while, which the server does not     *)
(* notice. Whatever the form holds may be sent, and is reduced to the      *)
(* document; customers are listed by name.                                 *)
(***************************************************************************)
EXTENDS Naturals, Sequences, FiniteSets, SequencesExt

CONSTANTS
  Documents,     \* documents with right check digits
  PerPage,       \* customers listed at most (20 in the code)
  MaxFound,      \* bound: customers of the tenant when the page is opened
  MaxCustomers,  \* bound: customers of the tenant before one more is sent
  MaxClicks,     \* bound: changes of a status
  MaxLost        \* bound: failed loads, calls given up and changes by others

ASSUME PageAssumption ==
  /\ "none" \notin Documents
  /\ PerPage \in Nat /\ MaxFound \in Nat /\ MaxCustomers \in Nat /\ MaxClicks \in Nat /\ MaxLost \in Nat

VARIABLES
  stored,     \* customers of the tenant, by name
  table,      \* the list as the page shows it
  load,       \* the query of the list
  failed,     \* the last load failed
  saving,     \* createMutation
  switching,  \* statusMutation
  late,       \* calls given up that the server has yet to serve
  clicks,     \* history: changes of a status so far
  lost,       \* history: faults and changes by others so far
  excused     \* history: a change the page was not told of, and no load since

customerVars ==
  <<stored, table, load, failed, saving, switching, late, clicks, lost, excused>>

Customer(id, document, active) == [id |-> id, document |-> document, active |-> active]

\* No list that the server sends.
Unloaded == <<Customer(0, "none", FALSE)>>

Resting == [at |-> "idle"]

Asked == [at |-> "asked"]

\* What the server has read for a load, with all that the page is to know, or not.
Answer(got, sound) == [at |-> "read", sound |-> sound, got |-> got]

\* Something happens that the page is not told of, and that a load has missed
\* which has been read.
Excuse ==
  /\ excused' = TRUE
  /\ load' = IF load.at = "read" THEN Answer(load.got, FALSE) ELSE load

\* What n calls of create may have left, and updates since.
Stores(n) ==
  {s \in [1 .. n -> [id : 1 .. n, document : Documents \cup {"none"}, active : BOOLEAN]] :
     \A i, j \in 1 .. n : i # j =>
       /\ s[i].id # s[j].id
       /\ s[i].document = s[j].document => s[i].document = "none"}

\* list: the first page.
FirstPage(s) == SubSeq(s, 1, IF Len(s) < PerPage THEN Len(s) ELSE PerPage)

Listed == FirstPage(stored)

\* Lists the server may have sent by the time there are n customers.
Earlier(n) == UNION {{FirstPage(s) : s \in Stores(m)} : m \in 0 .. n}

\* The page is opened on nothing and asks; or on a load that the page of the freight
\* has under way; or on the list which that load has left, and asks unless the list
\* is less than 30 s old (staleTime of AppProviders). What was loaded earlier may be
\* behind.
PageInit ==
  /\ saving = Resting /\ switching = Resting /\ late = {}
  /\ clicks = 0 /\ lost = 0
  /\ \E n \in 0 .. MaxFound :
       /\ stored \in Stores(n)
       /\ \/ table = Unloaded /\ load = Asked /\ failed = FALSE /\ excused = FALSE
          \/ /\ excused = TRUE
             /\ \E older \in Earlier(n) :
                  \/ table = Unloaded /\ load = Answer(older, FALSE) /\ failed = FALSE
                  \/ /\ table = older /\ failed \in BOOLEAN
                     /\ load \in {Resting, Asked} \cup {Answer(l, FALSE) : l \in Earlier(n)}

-----------------------------------------------------------------------------
(* The server *)

\* create: the document is optional and unique. A new name may come anywhere.
Taken(document) ==
  document # "none" /\ \E i \in DOMAIN stored : stored[i].document = document

Inserted(document) ==
  {InsertAt(stored, p, Customer(Len(stored) + 1, document, TRUE)) :
     p \in 1 .. Len(stored) + 1}

\* updateStatus writes by id.
Switched(id, active) ==
  [i \in DOMAIN stored |-> IF stored[i].id = id THEN [stored[i] EXCEPT !.active = active] ELSE stored[i]]

Outcomes(c) ==
  IF "document" \in DOMAIN c
  THEN IF Taken(c.document) THEN {stored} ELSE Inserted(c.document)
  ELSE {Switched(c.id, c.active)}

LoadServed ==
  /\ load.at = "asked"
  /\ load' = Answer(Listed, TRUE)
  /\ UNCHANGED <<stored, table, failed, saving, switching, late, clicks, lost, excused>>

LateServed(c) ==
  /\ stored' \in Outcomes(c)
  /\ late' = late \ {c}
  /\ Excuse
  /\ UNCHANGED <<table, failed, saving, switching, clicks, lost>>

\* update, and the import's, which activates the customer: a new name may put it
\* anywhere.
Updated(i) ==
  LET free == {d \in Documents \cup {"none"} : ~Taken(d)}
      now == {[stored[i] EXCEPT !.document = d] : d \in free} \cup {[stored[i] EXCEPT !.active = TRUE], stored[i]}
  IN {InsertAt(RemoveAt(stored, i), p, c) : p \in 1 .. Len(stored), c \in now}

\* Another user, another tab, an earlier visit of the page or the import of a file
\* creates a customer, updates one or switches its status.
OthersWrite ==
  /\ lost < MaxLost
  /\ lost' = lost + 1
  /\ \/ \E d \in Documents \cup {"none"} :
          Len(stored) < MaxCustomers /\ ~Taken(d) /\ stored' \in Inserted(d)
     \/ \E i \in DOMAIN stored :
          stored' \in Updated(i) \cup {Switched(stored[i].id, ~stored[i].active)}
  /\ stored' # stored
  /\ Excuse
  /\ UNCHANGED <<table, failed, saving, switching, late, clicks>>

-----------------------------------------------------------------------------
(* The list *)

\* A load ends: the mutations that waited for it are over.
Ended(mutation) == IF mutation.at = "waits" THEN Resting ELSE mutation

LoadShown ==
  /\ load.at = "read"
  /\ table' = load.got /\ failed' = FALSE
  /\ load' = Resting
  /\ saving' = Ended(saving) /\ switching' = Ended(switching)
  /\ excused' = (excused /\ ~load.sound)
  /\ UNCHANGED <<stored, late, clicks, lost>>

LoadFails ==
  /\ load.at # "idle" /\ lost < MaxLost
  /\ lost' = lost + 1
  /\ load' = Resting /\ failed' = TRUE
  /\ saving' = Ended(saving) /\ switching' = Ended(switching)
  /\ excused' = TRUE
  /\ UNCHANGED <<stored, table, late, clicks>>

\* refetch, and invalidateQueries: the first load is left to go on, and what it has
\* read is shown, however old.
AskAgain ==
  IF load.at # "idle" /\ table = Unloaded
  THEN IF load.at = "read" THEN Excuse ELSE UNCHANGED <<load, excused>>
  ELSE load' = Asked /\ UNCHANGED excused

\* "Atualizar", and "Tentar novamente" after a failure; and the return to the window
\* when the list is old.
RefetchClick ==
  /\ load.at = "idle" \/ (failed /\ table # Unloaded)
  /\ AskAgain
  /\ UNCHANGED <<stored, table, failed, saving, switching, late, clicks, lost>>

-----------------------------------------------------------------------------
(* The form *)

SubmitCustomer(d) ==
  /\ saving.at = "idle"
  /\ Len(stored) + Cardinality(late) < MaxCustomers
  /\ saving' = [at |-> "sent", document |-> d]
  /\ UNCHANGED <<stored, table, load, failed, switching, late, clicks, lost, excused>>

CustomerServed ==
  /\ saving.at = "sent"
  /\ stored' \in Outcomes(saving)
  /\ saving' = [saving EXCEPT !.at = IF Taken(saving.document) THEN "refused" ELSE "served"]
  /\ UNCHANGED <<table, load, failed, switching, late, clicks, lost, excused>>

\* A refusal leaves the list alone.
CustomerAnswered ==
  /\ saving.at \in {"served", "refused"}
  /\ IF saving.at = "served"
     THEN saving' = [saving EXCEPT !.at = "waits"] /\ AskAgain
     ELSE saving' = Resting /\ UNCHANGED <<load, excused>>
  /\ UNCHANGED <<stored, table, failed, switching, late, clicks, lost>>

-----------------------------------------------------------------------------
(* The status of a customer *)

\* The button of a row sends the opposite of the status that the row shows.
StatusClick(i) ==
  /\ table # Unloaded /\ i \in DOMAIN table
  /\ switching.at = "idle" /\ clicks < MaxClicks
  /\ clicks' = clicks + 1
  /\ switching' = [at |-> "sent", id |-> table[i].id, active |-> ~table[i].active]
  /\ UNCHANGED <<stored, table, load, failed, saving, late, lost, excused>>

StatusServed ==
  /\ switching.at = "sent"
  /\ stored' \in Outcomes(switching)
  /\ switching' = [switching EXCEPT !.at = "served"]
  /\ UNCHANGED <<table, load, failed, saving, late, clicks, lost, excused>>

\* Faulty variant: onSuccess does not wait for the list.
StatusAnsweredAtOnce ==
  /\ switching.at = "served"
  /\ switching' = Resting
  /\ AskAgain
  /\ UNCHANGED <<stored, table, failed, saving, late, clicks, lost>>

StatusAnswered ==
  /\ switching.at = "served"
  /\ switching' = [switching EXCEPT !.at = "waits"]
  /\ AskAgain
  /\ UNCHANGED <<stored, table, failed, saving, late, clicks, lost>>

-----------------------------------------------------------------------------
\* apiRequest gives a call up: the server has served it, or will, or never got it.
GivenUp(mutation) ==
  /\ mutation.at \in {"sent", "served", "refused"} /\ lost < MaxLost
  /\ lost' = lost + 1
  /\ \/ mutation.at = "sent" /\ late' = late \cup {mutation}
     \/ late' = late
  /\ IF mutation.at = "served" THEN Excuse ELSE UNCHANGED <<load, excused>>

CustomerGivenUp ==
  /\ GivenUp(saving)
  /\ saving' = Resting
  /\ UNCHANGED <<stored, table, failed, switching, clicks>>

StatusGivenUp ==
  /\ GivenUp(switching)
  /\ switching' = Resting
  /\ UNCHANGED <<stored, table, failed, saving, clicks>>

PageNext ==
  \/ LoadServed \/ LoadShown \/ LoadFails \/ RefetchClick
  \/ OthersWrite
  \/ \E c \in late : LateServed(c)
  \/ \E d \in Documents \cup {"none"} : SubmitCustomer(d)
  \/ CustomerServed \/ CustomerAnswered \/ CustomerGivenUp
  \/ \E i \in 1 .. PerPage : StatusClick(i)
  \/ StatusServed \/ StatusAnswered \/ StatusGivenUp

PageSpec == PageInit /\ [][PageNext]_customerVars

-----------------------------------------------------------------------------
(* Properties *)

\* While the page lets its user act, it shows the customers as they are stored, so
\* that a status is changed from what it is: both mutations wait for the list, even
\* when one drops the load the other is waiting for. It may be behind, until a load
\* that is read later is shown, when it was opened on the list of another page; when
\* somebody else has written customers; when a load failed; when the server served a
\* call that the page had given up; or when a change was answered after the very
\* first load had read (CustomerManagement).
TableIsCurrent ==
  (saving = Resting /\ switching = Resting /\ table # Unloaded /\ ~excused) => table = Listed
=============================================================================
