---------------------------- MODULE PagesProofs ----------------------------
(***************************************************************************)
(* Proofs about the pages of the web application on which a user acts upon *)
(* what an earlier answer has shown, for any number of customers,          *)
(* simulations, files, requests in flight and failures.                    *)
(*                                                                         *)
(* On the page of the customers the list is current while nothing is under *)
(* way and nobody else writes (TableIsCurrent); on that of the freight simulations the option     *)
(* shipped is the one that was shown (ShipsWhatWasShown), and once all is  *)
(* answered the page shows the simulation of its form (QuietPageIsRight);  *)
(* and what the wizard sends maps its fields to columns of the file it     *)
(* sends (MappedToColumns, ColumnsApart).                                  *)
(***************************************************************************)
EXTENDS Workspace, CustomerPage, Intake, SequenceTheorems, TLAPS

-----------------------------------------------------------------------------
(* The customers *)

\* A change is stored and its answer has yet to come.
Untold == saving.at = "served" \/ switching.at = "served"

\* A mutation waits for the list.
Waiting == saving.at = "waits" \/ switching.at = "waits"

\* What the actions read of the records, whose other fields are of no matter.
PageFields ==
  /\ "at" \in DOMAIN saving /\ "at" \in DOMAIN switching /\ "at" \in DOMAIN load
  /\ load.at \in {"idle", "asked", "read"}
  /\ load.at = "read" => /\ "sound" \in DOMAIN load /\ "got" \in DOMAIN load
                         /\ load.sound \in BOOLEAN
  /\ saving.at = "sent" => "document" \in DOMAIN saving
  /\ excused \in BOOLEAN

\* A mutation waits for a load that is under way; one that has read with something
\* missing excuses the page; what a sound one has read is what is stored, unless a
\* change is yet to be told of, which drops the load;
\* and so is what the table shows, unless it is to be loaded anew.
PageInv ==
  /\ PageFields
  /\ Waiting => load.at # "idle"
  /\ load.at = "read" /\ ~load.sound => excused
  /\ load.at = "read" /\ load.sound => load.got = Listed \/ Untold
  /\ table # Unloaded /\ ~excused => table = Listed \/ Untold \/ Waiting

LEMMA ListedKept == stored' = stored => Listed' = Listed
BY DEF Listed, FirstPage

LEMMA AnswerFields ==
  ASSUME NEW got, NEW sound \in BOOLEAN
  PROVE  /\ {"at", "sound", "got"} \subseteq DOMAIN Answer(got, sound)
         /\ Answer(got, sound).at = "read" /\ Answer(got, sound).sound = sound
         /\ Answer(got, sound).got = got
BY DEF Answer

\* invalidateQueries and refetch leave a load under way that is sure to show what
\* is stored by now, or excuse the page.
LEMMA AskedAgain ==
  ASSUME PageInv, AskAgain
  PROVE  /\ "at" \in DOMAIN load' /\ load'.at \in {"asked", "read"}
         /\ load'.at = "read" => /\ "sound" \in DOMAIN load' /\ "got" \in DOMAIN load'
                                 /\ load'.sound = FALSE /\ excused'
         /\ excused => excused'
         /\ excused' \in BOOLEAN
<1>1. CASE load.at = "read" /\ table = Unloaded
  <2>1. excused' = TRUE /\ load' = Answer(load.got, FALSE)
    BY <1>1 DEF AskAgain, Excuse
  <2> QED
    BY <1>1, <2>1, AnswerFields
<1>2. CASE load.at # "idle" /\ load.at # "read" /\ table = Unloaded
  <2>1. UNCHANGED <<load, excused>>
    BY <1>2 DEF AskAgain
  <2> QED
    BY <1>2, <2>1 DEF PageInv, PageFields
<1>3. CASE load.at = "idle" \/ table # Unloaded
  <2>1. load' = Asked /\ UNCHANGED excused
    BY <1>3 DEF AskAgain
  <2> QED
    BY <2>1 DEF PageInv, PageFields, Asked
<1> QED
  BY <1>1, <1>2, <1>3

\* A change the page is not told of makes no load sound.
LEMMA Excused ==
  ASSUME PageInv, Excuse
  PROVE  /\ "at" \in DOMAIN load' /\ load'.at = load.at /\ excused' = TRUE
         /\ load'.at = "read" => /\ "sound" \in DOMAIN load' /\ "got" \in DOMAIN load'
                                 /\ load'.sound = FALSE
<1>1. CASE load.at # "read"
  BY <1>1 DEF Excuse, PageInv, PageFields
<1>2. CASE load.at = "read"
  <2>1. load' = Answer(load.got, FALSE) /\ excused' = TRUE
    BY <1>2 DEF Excuse
  <2> QED
    BY <1>2, <2>1, AnswerFields
<1> QED
  BY <1>1, <1>2

LEMMA LoadSteps ==
  ASSUME PageInv, LoadServed \/ LoadShown \/ LoadFails \/ RefetchClick
  PROVE  PageInv'
<1>1. CASE LoadServed
  <2>1. PICK x : x = Answer(Listed, TRUE)
    OBVIOUS
  <2>2. load.at = "asked" /\ load' = x
        /\ UNCHANGED <<stored, table, saving, switching, excused>>
    BY <1>1, <2>1 DEF LoadServed
  <2>3. x.at = "read" /\ x.sound = TRUE /\ x.got = Listed
        /\ {"at", "sound", "got"} \subseteq DOMAIN x
    BY <2>1, AnswerFields
  <2> QED
    BY <2>2, <2>3, ListedKept DEF PageInv, PageFields, Untold, Waiting
<1>2. CASE LoadShown
  <2>1. /\ load.at = "read" /\ table' = load.got /\ load' = Resting /\ stored' = stored
        /\ saving' = Ended(saving) /\ switching' = Ended(switching)
        /\ excused' = (excused /\ ~load.sound)
    BY <1>2 DEF LoadShown
  <2>2. PageFields'
    BY <2>1 DEF PageInv, PageFields, Ended, Resting
  <2>3. ~Waiting' /\ (Untold => Untold')
    BY <2>1 DEF Waiting, Untold, Ended, Resting
  <2> QED
    BY <2>1, <2>2, <2>3, ListedKept DEF PageInv, PageFields, Resting
<1>3. CASE LoadFails
  <2>1. /\ load' = Resting /\ excused' = TRUE
        /\ saving' = Ended(saving) /\ switching' = Ended(switching)
    BY <1>3 DEF LoadFails
  <2>2. PageFields' /\ ~Waiting'
    BY <2>1 DEF PageInv, PageFields, Ended, Resting, Waiting
  <2> QED
    BY <2>1, <2>2 DEF PageInv, Resting
<1>4. CASE RefetchClick
  <2>1. AskAgain /\ UNCHANGED <<stored, table, saving, switching>>
    BY <1>4 DEF RefetchClick
  <2> QED
    BY <2>1, AskedAgain, ListedKept DEF PageInv, PageFields, Untold, Waiting
<1> QED
  BY <1>1, <1>2, <1>3, <1>4

\* A refused creation changes nothing, and only that.
LEMMA CreationServed ==
  ASSUME PageInv, CustomerServed
  PROVE  /\ stored' = stored \/ saving'.at = "served"
         /\ saving.at = "sent" /\ saving'.at \in {"served", "refused"} /\ "at" \in DOMAIN saving'
<1>1. /\ saving.at = "sent" /\ stored' \in Outcomes(saving)
      /\ saving' = [saving EXCEPT !.at = IF Taken(saving.document) THEN "refused" ELSE "served"]
  BY DEF CustomerServed
<1>2. "at" \in DOMAIN saving /\ "document" \in DOMAIN saving
  BY <1>1 DEF PageInv, PageFields
<1>3. CASE Taken(saving.document)
  BY <1>1, <1>2, <1>3 DEF Outcomes
<1>4. CASE ~Taken(saving.document)
  BY <1>1, <1>2, <1>4
<1> QED
  BY <1>3, <1>4, <1>1, <1>2

LEMMA FormSteps ==
  ASSUME PageInv,
         \/ \E d \in Documents \cup {"none"} : SubmitCustomer(d)
         \/ CustomerServed \/ CustomerAnswered
  PROVE  PageInv'
<1>1. ASSUME NEW d \in Documents \cup {"none"}, SubmitCustomer(d)
      PROVE  PageInv'
  <2>1. /\ saving.at = "idle" /\ saving' = [at |-> "sent", document |-> d]
        /\ UNCHANGED <<stored, table, load, switching, excused>>
    BY <1>1 DEF SubmitCustomer
  <2>2. saving'.at = "sent" /\ "at" \in DOMAIN saving' /\ "document" \in DOMAIN saving'
    BY <2>1
  <2> QED
    BY <2>1, <2>2, ListedKept DEF PageInv, PageFields, Untold, Waiting
<1>2. CASE CustomerServed
  <2>1. UNCHANGED <<table, load, switching, excused>>
    BY <1>2 DEF CustomerServed
  <2>2. stored' # stored => Untold'
    BY <1>2, CreationServed DEF Untold
  <2>3. (Untold => Untold') /\ Waiting' = Waiting
    BY <1>2, <2>1, CreationServed DEF Untold, Waiting
  <2>4. PageFields'
    BY <1>2, <2>1, CreationServed DEF PageInv, PageFields
  <2> QED
    BY <2>1, <2>2, <2>3, <2>4, ListedKept DEF PageInv
<1>3. CASE CustomerAnswered
  <2>1. UNCHANGED <<stored, table, switching>>
    BY <1>3 DEF CustomerAnswered
  <2>2. CASE saving.at = "served"
    <3>1. AskAgain /\ saving' = [saving EXCEPT !.at = "waits"]
      BY <1>3, <2>2 DEF CustomerAnswered
    <3>2. "at" \in DOMAIN saving' /\ saving'.at = "waits"
      BY <3>1 DEF PageInv, PageFields
    <3> QED
      BY <2>1, <3>1, <3>2, AskedAgain, ListedKept DEF PageInv, PageFields, Untold, Waiting
  <2>3. CASE saving.at = "refused"
    <3>1. UNCHANGED <<load, excused>> /\ saving' = Resting
      BY <1>3, <2>3 DEF CustomerAnswered
    <3> QED
      BY <2>1, <2>3, <3>1, ListedKept DEF PageInv, PageFields, Untold, Waiting, Resting
  <2> QED
    BY <1>3, <2>2, <2>3 DEF CustomerAnswered
<1> QED
  BY <1>1, <1>2, <1>3

LEMMA StatusSteps ==
  ASSUME PageInv,
         \/ \E i \in 1 .. PerPage : StatusClick(i)
         \/ StatusServed \/ StatusAnswered
  PROVE  PageInv'
<1>1. ASSUME NEW i \in 1 .. PerPage, StatusClick(i)
      PROVE  PageInv'
  <2>1. PICK x : x = [at |-> "sent", id |-> table[i].id, active |-> ~table[i].active]
    OBVIOUS
  <2>2. /\ switching.at = "idle" /\ switching' = x
        /\ UNCHANGED <<stored, table, load, saving, excused>>
    BY <1>1, <2>1 DEF StatusClick
  <2>3. x.at = "sent" /\ "at" \in DOMAIN x
    BY <2>1
  <2> QED
    BY <2>2, <2>3, ListedKept DEF PageInv, PageFields, Untold, Waiting
<1>2. CASE StatusServed
  <2>1. /\ switching.at = "sent" /\ switching' = [switching EXCEPT !.at = "served"]
        /\ UNCHANGED <<table, load, saving, excused>>
    BY <1>2 DEF StatusServed
  <2>2. switching'.at = "served" /\ "at" \in DOMAIN switching'
    BY <2>1 DEF PageInv, PageFields
  <2> QED
    BY <2>1, <2>2 DEF PageInv, PageFields, Untold, Waiting
<1>3. CASE StatusAnswered
  <2>1. /\ switching.at = "served" /\ switching' = [switching EXCEPT !.at = "waits"]
        /\ AskAgain /\ UNCHANGED <<stored, table, saving>>
    BY <1>3 DEF StatusAnswered
  <2>2. switching'.at = "waits" /\ "at" \in DOMAIN switching'
    BY <2>1 DEF PageInv, PageFields
  <2> QED
    BY <2>1, <2>2, AskedAgain, ListedKept DEF PageInv, PageFields, Untold, Waiting
<1> QED
  BY <1>1, <1>2, <1>3

\* A call that is given up after it was served, one that is served after it was
\* given up, and what others write excuse the page.
LEMMA ExcusedSteps ==
  ASSUME PageInv,
         \/ CustomerGivenUp \/ StatusGivenUp \/ OthersWrite
         \/ \E c \in late : LateServed(c)
  PROVE  PageInv'
<1>1. CASE CustomerGivenUp
  <2>1. GivenUp(saving) /\ saving' = Resting /\ UNCHANGED <<stored, table, switching>>
    BY <1>1 DEF CustomerGivenUp
  <2>2. CASE saving.at = "served"
    <3>1. Excuse
      BY <2>1, <2>2 DEF GivenUp
    <3> QED
      BY <2>1, <2>2, <3>1, Excused DEF PageInv, PageFields, Waiting, Resting
  <2>3. CASE saving.at # "served"
    <3>1. UNCHANGED <<load, excused>> /\ saving.at \in {"sent", "refused"}
      BY <2>1, <2>3 DEF GivenUp
    <3> QED
      BY <2>1, <2>3, <3>1, ListedKept DEF PageInv, PageFields, Untold, Waiting, Resting
  <2> QED
    BY <2>2, <2>3
<1>2. CASE StatusGivenUp
  <2>1. GivenUp(switching) /\ switching' = Resting /\ UNCHANGED <<stored, table, saving>>
    BY <1>2 DEF StatusGivenUp
  <2>2. CASE switching.at = "served"
    <3>1. Excuse
      BY <2>1, <2>2 DEF GivenUp
    <3> QED
      BY <2>1, <2>2, <3>1, Excused DEF PageInv, PageFields, Waiting, Resting
  <2>3. CASE switching.at # "served"
    <3>1. UNCHANGED <<load, excused>> /\ switching.at \in {"sent", "refused"}
      BY <2>1, <2>3 DEF GivenUp
    <3> QED
      BY <2>1, <2>3, <3>1, ListedKept DEF PageInv, PageFields, Untold, Waiting, Resting
  <2> QED
    BY <2>2, <2>3
<1>3. ASSUME NEW c \in late, LateServed(c)
      PROVE  PageInv'
  <2>1. Excuse /\ UNCHANGED <<table, saving, switching>>
    BY <1>3 DEF LateServed
  <2> QED
    BY <2>1, Excused DEF PageInv, PageFields, Waiting
<1>4. CASE OthersWrite
  <2>1. Excuse /\ UNCHANGED <<table, saving, switching>>
    BY <1>4 DEF OthersWrite
  <2> QED
    BY <2>1, Excused DEF PageInv, PageFields, Waiting
<1> QED
  BY <1>1, <1>2, <1>3, <1>4

LEMMA PageInvariant == PageSpec => []PageInv
<1>1. PageInit => PageInv
  <2> SUFFICES ASSUME PageInit
               PROVE  PageInv
    OBVIOUS
  <2>1. saving = Resting /\ switching = Resting
    BY DEF PageInit
  <2>2. CASE table = Unloaded /\ load = Asked /\ excused = FALSE
    <3>1. PageFields /\ ~Waiting
      BY <2>1, <2>2 DEF PageFields, Waiting, Resting, Asked
    <3> QED
      BY <2>2, <3>1 DEF PageInv, Asked
  <2>3. ASSUME excused = TRUE, "at" \in DOMAIN load, load.at \in {"idle", "asked", "read"},
               load.at = "read" => /\ "sound" \in DOMAIN load /\ "got" \in DOMAIN load
                                   /\ load.sound = FALSE
        PROVE  PageInv
    <3>1. PageFields /\ ~Waiting
      BY <2>1, <2>3 DEF PageFields, Waiting, Resting
    <3> QED
      BY <2>3, <3>1 DEF PageInv
  <2>4. PICK n \in 0 .. MaxFound :
          \/ table = Unloaded /\ load = Asked /\ excused = FALSE
          \/ /\ excused = TRUE
             /\ \E older \in Earlier(n) :
                  \/ load = Answer(older, FALSE)
                  \/ load \in {Resting, Asked} \cup {Answer(l, FALSE) : l \in Earlier(n)}
    BY Zenon DEF PageInit
  <2>5. ASSUME excused = TRUE, NEW older, load = Answer(older, FALSE)
        PROVE  PageInv
    <3>1. PICK x : x = load
      OBVIOUS
    <3>2. x = Answer(older, FALSE)
      BY <2>5, <3>1
    <3>3. {"at", "sound", "got"} \subseteq DOMAIN x /\ x.at = "read" /\ x.sound = FALSE
      BY <3>2, AnswerFields
    <3>4. /\ "at" \in DOMAIN load /\ load.at \in {"idle", "asked", "read"}
          /\ "sound" \in DOMAIN load /\ "got" \in DOMAIN load /\ load.sound = FALSE
      BY <3>1, <3>3
    <3>5. excused = TRUE
      BY <2>5
    <3> QED
      BY <2>3, <3>4, <3>5
  <2>6. ASSUME excused = TRUE, load \in {Resting, Asked} \cup {Answer(l, FALSE) : l \in Earlier(n)}
        PROVE  PageInv
    <3>1. CASE load \in {Resting, Asked}
      <4>1. "at" \in DOMAIN load /\ load.at \in {"idle", "asked"}
        BY <3>1 DEF Resting, Asked
      <4>2. excused = TRUE
        BY <2>6
      <4> QED
        BY <2>3, <4>1, <4>2
    <3>2. ASSUME NEW l, load = Answer(l, FALSE)
          PROVE  PageInv
      <4>1. excused = TRUE
        BY <2>6
      <4> QED
        BY <2>5, <3>2, <4>1, Zenon
    <3> QED
      BY <2>6, <3>1, <3>2
  <2> QED
    BY <2>2, <2>4, <2>5, <2>6
<1>2. PageInv /\ [PageNext]_customerVars => PageInv'
  <2> SUFFICES ASSUME PageInv, [PageNext]_customerVars
               PROVE  PageInv'
    OBVIOUS
  <2>1. CASE UNCHANGED customerVars
    BY <2>1, ListedKept DEF customerVars, PageInv, PageFields, Untold, Waiting
  <2> QED
    BY <2>1, LoadSteps, FormSteps, StatusSteps, ExcusedSteps DEF PageNext
<1> QED
  BY <1>1, <1>2, PTL DEF PageSpec

\* While the page lets its user act, it shows the customers as they are stored, so
\* that a status is changed from what it is, unless, since what it shows was read,
\* somebody else has written customers, a load failed, the server served a call the
\* page had given up, a change was answered after the very first load had read, or
\* the list is still that of another page (CustomerManagement).
THEOREM CustomersShownAreStored == PageSpec => []TableIsCurrent
<1>1. PageInv => TableIsCurrent
  BY DEF PageInv, TableIsCurrent, Untold, Waiting, Resting
<1> QED
  BY <1>1, PageInvariant, PTL

-----------------------------------------------------------------------------
(* The freight simulations *)

Selections == Options \cup {"none"}

Forms ==
  [customer : Customers \cup {"none"}, cep : PostalCodes, city : PostalCodes \cup {"none"},
   packages : Nat]

SimRows == [input : Forms, selected : Selections, shipped : Selections]

CreateSent == [kind : {"create"}, at : {"sent", "missing", "failed"}, input : Forms]

CreateDone == [kind : {"create"}, at : {"done"}, id : Nat]

SelectCalls == [kind : {"select"}, at : {"sent", "written", "done"}, id : Nat, option : Selections]

ShipCalls == [kind : {"ship"}, at : {"sent", "done"}, id : Nat, option : Options, sure : BOOLEAN]

CallRecords == {Free} \cup CreateSent \cup CreateDone \cup SelectCalls \cup ShipCalls

WorkspaceType ==
  /\ form \in Forms
  /\ simulation \in [id : Nat, selected : Selections]
  /\ watch \in [create : Nat, select : Nat, ship : Nat]
  /\ call \in [Slots -> CallRecords]
  /\ lookup \in PostalCodes \cup {"none"}
  /\ listed \subseteq Customers /\ active \subseteq Customers
  /\ sims \in Seq(SimRows)
  /\ clean \in BOOLEAN

\* What is shown and what a call is about is stored.
IdsExist ==
  /\ simulation = Nothing \/ simulation.id \in DOMAIN sims
  /\ \A s \in Slots :
       call[s].kind \in {"select", "ship"} \/ (call[s].kind = "create" /\ call[s].at = "done")
         => call[s].id \in DOMAIN sims

\* Until it is served nothing but itself can change what a sure shipment finds: no
\* selection for its simulation is under way.
Sure(c) ==
  /\ c.at = "sent" =>
       /\ sims[c.id].selected = c.option
       /\ sims[c.id].shipped \in {"none", c.option}
       /\ \A t \in Slots : call[t].kind = "select" => call[t].id # c.id
  /\ c.at = "done" => sims[c.id].shipped = c.option

ShipInv == \A s \in Slots : call[s].kind = "ship" /\ call[s].sure => Sure(call[s])

\* A calculation is of the form as it is, and what it has stored is as it was.
OfTheForm(c) ==
  /\ c.at = "sent" => c.input = form
  /\ c.at = "done" => sims[c.id].input = form /\ sims[c.id].selected = "none"

\* A selection is for the simulation shown, and nobody else selects.
OfTheShown(c) ==
  /\ c.id = simulation.id
  /\ c.at # "sent" => sims[c.id].selected = c.option

\* While no action has crossed another: nothing is about to change the form; one
\* calculation is under way and no selection, or none and one selection at most,
\* which is watched, and the simulation shown is that of the form.
CleanInv ==
  clean =>
    /\ lookup = "none" /\ refresh = "off"
    /\ \A s \in Slots : call[s].kind = "create" =>
         /\ OfTheForm(call[s])
         /\ \A t \in Slots : t # s => call[t].kind \notin {"create", "select"}
    /\ \A s \in Slots : call[s].kind = "select" => OfTheShown(call[s]) /\ watch.select = s
    /\ ~InFlight("create") =>
         /\ simulation # Nothing /\ sims[simulation.id].input = form
         /\ ~InFlight("select") => sims[simulation.id].selected = simulation.selected

WInv == WorkspaceType /\ IdsExist /\ ShipInv /\ CleanInv

LEMMA CallFields ==
  ASSUME NEW c \in CallRecords
  PROVE  /\ c.kind \in {"free", "create", "select", "ship"}
         /\ c.kind = "create" => c \in CreateSent \cup CreateDone
         /\ c.kind = "create" /\ c.at = "sent" => c.input \in Forms
         /\ c.kind = "create" /\ c.at = "done" => c.id \in Nat
         /\ c.kind = "select" => c \in SelectCalls
         /\ c.kind = "ship" => c \in ShipCalls
BY DEF CallRecords, Free, CreateSent, CreateDone, SelectCalls, ShipCalls

\* A stored simulation gets another selection or shipment.
LEMMA SimsUpdated ==
  ASSUME NEW q \in Seq(SimRows), NEW i \in DOMAIN q, NEW x \in SimRows
  PROVE  /\ [q EXCEPT ![i] = x] \in Seq(SimRows)
         /\ DOMAIN [q EXCEPT ![i] = x] = DOMAIN q
         /\ [q EXCEPT ![i] = x][i] = x
         /\ \A j \in DOMAIN q : j # i => [q EXCEPT ![i] = x][j] = q[j]
OBVIOUS

LEMMA SimsAppended ==
  ASSUME NEW q \in Seq(SimRows), NEW x \in SimRows
  PROVE  /\ Append(q, x) \in Seq(SimRows)
         /\ DOMAIN q \subseteq DOMAIN Append(q, x)
         /\ Len(Append(q, x)) \in Nat /\ Len(Append(q, x)) \in DOMAIN Append(q, x)
         /\ Append(q, x)[Len(Append(q, x))] = x
         /\ \A j \in DOMAIN q : Append(q, x)[j] = q[j]
OBVIOUS

\* The other records stay what they are when a slot is written.
LEMMA CallWritten ==
  ASSUME NEW f \in [Slots -> CallRecords], NEW s \in Slots, NEW x \in CallRecords
  PROVE  /\ [f EXCEPT ![s] = x] \in [Slots -> CallRecords]
         /\ [f EXCEPT ![s] = x][s] = x
         /\ \A t \in Slots : t # s => [f EXCEPT ![s] = x][t] = f[t]
OBVIOUS

\* What a step that leaves calls and simulations alone keeps.
LEMMA Kept ==
  ASSUME WInv, UNCHANGED <<simulation, call, sims>>
  PROVE  IdsExist' /\ ShipInv'
<1>1. IdsExist'
  BY DEF WInv, IdsExist
<1>2. ShipInv'
  BY DEF WInv, ShipInv, Sure
<1> QED
  BY <1>1, <1>2

LEMMA EntrySteps ==
  ASSUME WInv,
         \/ \E c \in listed \cup {"none"} : ChangeCustomer(c)
         \/ \E z \in PostalCodes : TypePostalCode(z)
         \/ \E n \in 1 .. MaxEdits + 1 : ChangeVolumes(n)
         \/ OnLookup \/ RefreshClick
  PROVE  WInv'
<1>1. clean' = FALSE /\ UNCHANGED <<simulation, call, sims, listed, active>>
  BY DEF ChangeCustomer, TypePostalCode, ChangeVolumes, OnLookup, RefreshClick, Edit, serverVars
<1>2. CleanInv'
  BY <1>1 DEF CleanInv
<1>3. form' \in Forms /\ watch' \in [create : Nat, select : Nat, ship : Nat]
      /\ lookup' \in PostalCodes \cup {"none"}
  <2>t. /\ form \in Forms /\ watch \in [create : Nat, select : Nat, ship : Nat]
        /\ lookup \in PostalCodes \cup {"none"} /\ listed \subseteq Customers
    BY DEF WInv, WorkspaceType
  <2>1. ASSUME NEW c \in listed \cup {"none"}, ChangeCustomer(c)
        PROVE  form' \in Forms /\ watch' \in [create : Nat, select : Nat, ship : Nat] /\ lookup' = lookup
    BY <2>1, <2>t DEF ChangeCustomer, Forms
  <2>2. ASSUME NEW z \in PostalCodes, TypePostalCode(z)
        PROVE  form' \in Forms /\ watch' = watch /\ lookup' = lookup
    BY <2>2, <2>t DEF TypePostalCode, Forms
  <2>3. ASSUME NEW n \in 1 .. MaxEdits + 1, ChangeVolumes(n)
        PROVE  form' \in Forms /\ watch' = watch /\ lookup' = lookup
    BY <2>3, <2>t, WorkspaceAssumption DEF ChangeVolumes, Forms
  <2>4. CASE OnLookup
    BY <2>4, <2>t DEF OnLookup, Forms
  <2>5. CASE RefreshClick
    BY <2>5, <2>t DEF RefreshClick
  <2> QED
    BY <2>1, <2>2, <2>3, <2>4, <2>5, <2>t
<1>4. WorkspaceType'
  BY <1>1, <1>3 DEF WInv, WorkspaceType
<1> QED
  BY <1>1, <1>2, <1>4, Kept DEF WInv

LEMMA AnswersToTheForm ==
  ASSUME WInv,
         \/ LookupAnswered \/ RefreshAnswered
         \/ \E c \in Customers : Deactivate(c)
  PROVE  WInv'
<1>1. UNCHANGED <<simulation, call, sims, watch, clean>>
  BY DEF LookupAnswered, RefreshAnswered, Deactivate, serverVars
<1>2. WorkspaceType'
  <2>t. /\ form \in Forms /\ lookup \in PostalCodes \cup {"none"}
        /\ listed \subseteq Customers /\ active \subseteq Customers
    BY DEF WInv, WorkspaceType
  <2>1. CASE LookupAnswered
    <3>1. form' \in Forms /\ lookup' = "none" /\ UNCHANGED <<listed, active>>
      BY <2>1, <2>t, WorkspaceAssumption DEF LookupAnswered, Forms, serverVars
    <3> QED
      BY <1>1, <3>1 DEF WInv, WorkspaceType
  <2>2. CASE RefreshAnswered
    <3>1. form' \in Forms /\ UNCHANGED <<lookup, active>> /\ listed' = active
      BY <2>2, <2>t DEF RefreshAnswered, Forms, serverVars
    <3> QED
      BY <1>1, <2>t, <3>1 DEF WInv, WorkspaceType
  <2>3. ASSUME NEW c \in Customers, Deactivate(c)
        PROVE  UNCHANGED <<form, lookup, listed>> /\ active' \subseteq Customers
    BY <2>3, <2>t DEF Deactivate
  <2>4. CASE \E c \in Customers : Deactivate(c)
    BY <1>1, <2>3, <2>4 DEF WInv, WorkspaceType
  <2> QED
    BY <2>1, <2>2, <2>4
<1>3. CleanInv'
  <2>1. CASE LookupAnswered
    <3>1. ~clean
      BY <2>1 DEF LookupAnswered, WInv, CleanInv
    <3> QED
      BY <1>1, <3>1 DEF CleanInv
  <2>2. CASE RefreshAnswered
    <3>1. ~clean
      BY <2>2 DEF RefreshAnswered, WInv, CleanInv
    <3> QED
      BY <1>1, <3>1 DEF CleanInv
  <2>3. CASE \E c \in Customers : Deactivate(c)
    <3>1. UNCHANGED <<form, lookup, refresh>>
      BY <2>3 DEF Deactivate
    <3> QED
      BY <1>1, <3>1 DEF WInv, CleanInv, OfTheForm, OfTheShown, InFlight
  <2> QED
    BY <2>1, <2>2, <2>3
<1> QED
  BY <1>1, <1>2, <1>3, Kept DEF WInv

\* A step that adds neither a shipment nor a selection, and changes no simulation.
LEMMA NoShipmentAdded ==
  ASSUME WInv, NEW s \in Slots, NEW x \in CallRecords,
         \/ x.kind \in {"free", "create"}
         \/ x.kind = "select" /\ call[s].kind = "select" /\ x.id = call[s].id,
         call' = [call EXCEPT ![s] = x],
         \A i \in DOMAIN sims : sims'[i] = sims[i]
  PROVE  ShipInv'
<1> SUFFICES ASSUME NEW t \in Slots, call'[t].kind = "ship", call'[t].sure
             PROVE  Sure(call[t])' /\ call'[t] = call[t]
  BY DEF ShipInv, Sure
<1>1. call'[s] = x /\ \A u \in Slots : u # s => call'[u] = call[u]
  BY CallWritten DEF WInv, WorkspaceType
<1>2. t # s /\ call'[t] = call[t]
  BY <1>1
<1>3. Sure(call[t]) /\ call[t].id \in DOMAIN sims
  BY <1>2 DEF WInv, ShipInv, IdsExist
<1>4. \A u \in Slots :
        call'[u].kind = "select" => call[u].kind = "select" /\ call'[u].id = call[u].id
  BY <1>1
<1> QED
  BY <1>2, <1>3, <1>4 DEF Sure

LEMMA SubmitStep ==
  ASSUME WInv, NEW s \in Slots, HandleSubmit(s)
  PROVE  WInv'
<1>1. PICK x : x = [kind |-> "create", at |-> "sent", input |-> form]
  OBVIOUS
<1>2. /\ call[s] = Free /\ call' = [call EXCEPT ![s] = x] /\ watch' = [NoWatch EXCEPT !.create = s]
      /\ clean' = (~InFlight("select") /\ ~InFlight("create") /\ lookup = "none" /\ refresh = "off")
      /\ UNCHANGED <<form, simulation, lookup, refresh, listed, active, sims>>
  BY <1>1 DEF HandleSubmit, NextFree, serverVars
<1>3. x \in CreateSent /\ x \in CallRecords
  BY <1>1 DEF WInv, WorkspaceType, CreateSent, CallRecords
<1>4. call' \in [Slots -> CallRecords] /\ call'[s] = x
      /\ \A t \in Slots : t # s => call'[t] = call[t]
  BY <1>2, <1>3, CallWritten DEF WInv, WorkspaceType
<1>5. watch' \in [create : Nat, select : Nat, ship : Nat]
  BY <1>2, WorkspaceAssumption DEF NoWatch, Slots
<1>6. WorkspaceType'
  <2>1. clean' \in BOOLEAN
    BY <1>2
  <2> QED
    BY <1>2, <1>4, <1>5, <2>1 DEF WInv, WorkspaceType
<1>7. IdsExist'
  BY <1>1, <1>2, <1>4 DEF WInv, IdsExist
<1>8. ShipInv'
  BY <1>1, <1>2, <1>3, NoShipmentAdded
<1>9. CleanInv'
  <2> SUFFICES ASSUME clean'
               PROVE  CleanInv'
    BY DEF CleanInv
  <2>1. /\ \A t \in Slots : call[t].kind \notin {"create", "select"}
        /\ lookup = "none" /\ refresh = "off"
    BY <1>2 DEF InFlight
  <2>2. \A t \in Slots : t # s => call'[t].kind \notin {"create", "select"}
    BY <1>4, <2>1
  <2>3. x.kind = "create" /\ x.at = "sent" /\ x.input = form
    BY <1>1
  <2>4. InFlight("create")'
    BY <1>4, <2>3 DEF InFlight
  <2>5. OfTheForm(x)'
    BY <1>2, <2>3 DEF OfTheForm
  <2> QED
    BY <1>2, <1>4, <2>1, <2>2, <2>3, <2>4, <2>5 DEF CleanInv, OfTheForm
<1> QED
  BY <1>6, <1>7, <1>8, <1>9 DEF WInv

LEMMA CreateServedStep ==
  ASSUME WInv, NEW s \in Slots, CreateServed(s)
  PROVE  WInv'
<1>t. /\ call \in [Slots -> CallRecords] /\ sims \in Seq(SimRows)
      /\ UNCHANGED <<form, simulation, watch, lookup, refresh, listed, active, clean>>
  BY DEF CreateServed, WInv, WorkspaceType
<1>0. call[s].kind = "create" /\ call[s].at = "sent" /\ call[s] \in CallRecords /\ call[s] \in CreateSent
  BY <1>t DEF CreateServed, CallRecords, Free, CreateSent, CreateDone, SelectCalls, ShipCalls
<1>1. \/ \E x \in CreateSent : x.at # "sent" /\ call' = [call EXCEPT ![s] = x] /\ sims' = sims
      \/ \E x \in CreateDone :
           /\ sims' = Append(sims, [input |-> call[s].input, selected |-> "none", shipped |-> "none"])
           /\ x.id = Len(sims') /\ call' = [call EXCEPT ![s] = x]
  <2>1. PICK y, z : y = [call[s] EXCEPT !.at = "missing"] /\ z = [call[s] EXCEPT !.at = "failed"]
    OBVIOUS
  <2>2. y \in CreateSent /\ y.at = "missing" /\ z \in CreateSent /\ z.at = "failed"
    BY <1>0, <2>1 DEF CreateSent
  <2>3. PICK w : w = [kind |-> "create", at |-> "done", id |-> Len(sims')]
    OBVIOUS
  <2>4. \/ call' = [call EXCEPT ![s] = y] /\ sims' = sims
        \/ call' = [call EXCEPT ![s] = z] /\ sims' = sims
        \/ /\ sims' = Append(sims, [input |-> call[s].input, selected |-> "none", shipped |-> "none"])
           /\ call' = [call EXCEPT ![s] = w]
    BY <2>1, <2>3, Zenon DEF CreateServed
  <2>5. CASE /\ sims' = Append(sims, [input |-> call[s].input, selected |-> "none", shipped |-> "none"])
             /\ call' = [call EXCEPT ![s] = w]
    <3>1. Len(sims') \in Nat
      BY <1>t, <2>5
    <3>2. w \in CreateDone /\ w.id = Len(sims')
      BY <2>3, <3>1 DEF CreateDone
    <3> QED
      BY <2>5, <3>2
  <2> QED
    BY <2>2, <2>4, <2>5
<1>2. ASSUME NEW x \in CreateSent, x.at # "sent", call' = [call EXCEPT ![s] = x], sims' = sims
      PROVE  WInv'
  <2>1. x \in CallRecords /\ x.kind = "create" /\ x.at # "done"
    BY <1>2 DEF CallRecords, CreateSent
  <2>2. call' \in [Slots -> CallRecords] /\ call'[s] = x
        /\ \A t \in Slots : t # s => call'[t] = call[t]
    BY <1>t, <1>2, <2>1, CallWritten
  <2>3. WorkspaceType'
    BY <1>t, <1>2, <2>2 DEF WInv, WorkspaceType
  <2>4. IdsExist'
    BY <1>t, <1>2, <2>1, <2>2 DEF WInv, IdsExist
  <2>5. ShipInv'
    BY <1>2, <2>1, NoShipmentAdded
  <2>6. CleanInv'
    <3> SUFFICES ASSUME clean
                 PROVE  CleanInv'
      BY <1>t DEF CleanInv
    <3>1. lookup = "none" /\ refresh = "off" /\ \A t \in Slots : t # s => call[t].kind \notin {"create", "select"}
      BY <1>0 DEF WInv, CleanInv
    <3>2. InFlight("create")' /\ OfTheForm(x)'
      BY <1>2, <2>1, <2>2 DEF InFlight, OfTheForm
    <3> QED
      BY <1>t, <2>1, <2>2, <3>1, <3>2 DEF CleanInv, OfTheForm
  <2> QED
    BY <2>3, <2>4, <2>5, <2>6 DEF WInv
<1>3. ASSUME NEW x \in CreateDone, x.id = Len(sims'), call' = [call EXCEPT ![s] = x],
             sims' = Append(sims, [input |-> call[s].input, selected |-> "none", shipped |-> "none"])
      PROVE  WInv'
  <2>1. x \in CallRecords /\ x.kind = "create" /\ x.at = "done"
    BY <1>3 DEF CallRecords, CreateDone
  <2>2. call' \in [Slots -> CallRecords] /\ call'[s] = x
        /\ \A t \in Slots : t # s => call'[t] = call[t]
    BY <1>t, <1>3, <2>1, CallWritten
  <2>3. PICK y : y = [input |-> call[s].input, selected |-> "none", shipped |-> "none"]
    OBVIOUS
  <2>4. y \in SimRows /\ y.input = call[s].input /\ y.selected = "none"
    BY <1>0, <2>3 DEF SimRows, CreateSent, Selections
  <2>5. /\ sims' \in Seq(SimRows) /\ DOMAIN sims \subseteq DOMAIN sims'
        /\ x.id \in DOMAIN sims' /\ sims'[x.id] = y
        /\ \A j \in DOMAIN sims : sims'[j] = sims[j]
    BY <1>t, <1>3, <2>3, <2>4, SimsAppended
  <2>6. WorkspaceType'
    BY <1>t, <2>2, <2>5 DEF WInv, WorkspaceType
  <2>7. IdsExist'
    BY <1>t, <2>1, <2>2, <2>5 DEF WInv, IdsExist
  <2>8. ShipInv'
    BY <1>3, <2>1, <2>5, NoShipmentAdded
  <2>9. CleanInv'
    <3> SUFFICES ASSUME clean
                 PROVE  CleanInv'
      BY <1>t DEF CleanInv
    <3>1. /\ lookup = "none" /\ refresh = "off" /\ OfTheForm(call[s])
          /\ \A t \in Slots : t # s => call[t].kind \notin {"create", "select"}
      BY <1>0 DEF WInv, CleanInv
    <3>2. InFlight("create")' /\ OfTheForm(x)'
      BY <1>0, <1>t, <2>1, <2>2, <2>4, <2>5, <3>1 DEF InFlight, OfTheForm
    <3> QED
      BY <1>t, <2>1, <2>2, <3>1, <3>2 DEF CleanInv, OfTheForm
  <2> QED
    BY <2>6, <2>7, <2>8, <2>9 DEF WInv
<1> QED
  BY <1>1, <1>2, <1>3

LEMMA WatchAnswered ==
  ASSUME WInv, NEW s \in Slots, NEW k \in {"create", "select", "ship"}, Answered(s, k)
  PROVE  /\ watch' \in [create : Nat, select : Nat, ship : Nat]
         /\ k # "select" => watch'.select = watch.select
         /\ call' = [call EXCEPT ![s] = Free]
         /\ call' \in [Slots -> CallRecords] /\ call'[s] = Free
         /\ \A t \in Slots : t # s => call'[t] = call[t]
<1>1. call' = [call EXCEPT ![s] = Free] /\ Free \in CallRecords
  BY DEF Answered, CallRecords
<1>2. watch' = IF watch[k] = s THEN [watch EXCEPT ![k] = 0] ELSE watch
  BY DEF Answered
<1>3. watch \in [create : Nat, select : Nat, ship : Nat] /\ call \in [Slots -> CallRecords]
  BY DEF WInv, WorkspaceType
<1>4. call' \in [Slots -> CallRecords] /\ call'[s] = Free
      /\ \A t \in Slots : t # s => call'[t] = call[t]
  BY <1>1, <1>3, CallWritten
<1>5. watch' \in [create : Nat, select : Nat, ship : Nat] /\ (k # "select" => watch'.select = watch.select)
  BY <1>2, <1>3
<1> QED
  BY <1>1, <1>4, <1>5

LEMMA CreateAnsweredStep ==
  ASSUME WInv, NEW s \in Slots, CreateAnswered(s)
  PROVE  WInv'
<1>t. /\ call \in [Slots -> CallRecords] /\ sims \in Seq(SimRows)
      /\ form \in Forms /\ simulation \in [id : Nat, selected : Selections]
      /\ UNCHANGED <<lookup, refresh, listed, active, sims>>
  BY DEF CreateAnswered, WInv, WorkspaceType, serverVars
<1>c. PICK x, y : x = [id |-> call[s].id, selected |-> "none"] /\ y = [form EXCEPT !.customer = "none"]
  OBVIOUS
<1>0. /\ call[s].kind = "create" /\ Answered(s, "create") /\ clean' = (clean /\ call[s].at = "done")
      /\ simulation' = IF call[s].at = "done" THEN x ELSE simulation
      /\ form' = IF call[s].at = "missing" THEN y ELSE form
  BY <1>c, Zenon DEF CreateAnswered
<1>1. /\ call' = [call EXCEPT ![s] = Free] /\ call' \in [Slots -> CallRecords] /\ call'[s] = Free
      /\ \A t \in Slots : t # s => call'[t] = call[t]
      /\ watch' \in [create : Nat, select : Nat, ship : Nat]
  BY <1>0, WatchAnswered
<1>2. form' \in Forms
  <2>1. y \in Forms
    BY <1>c, <1>t DEF Forms
  <2> QED
    BY <1>0, <1>t, <2>1
<1>3. call[s].at = "done" => /\ call[s].id \in DOMAIN sims /\ call[s].id \in Nat /\ call[s].id # 0
                             /\ simulation'.id = call[s].id /\ simulation'.selected = "none"
  BY <1>0, <1>c, <1>t DEF WInv, IdsExist
<1>4. /\ simulation' \in [id : Nat, selected : Selections]
      /\ simulation' = Nothing \/ simulation'.id \in DOMAIN sims
  <2>1. CASE call[s].at = "done"
    BY <1>0, <1>3, <1>c, <2>1 DEF Selections
  <2>2. CASE call[s].at # "done"
    BY <1>0, <1>t, <2>2 DEF WInv, IdsExist
  <2> QED
    BY <2>1, <2>2
<1>5. WorkspaceType'
  <2>1. clean' \in BOOLEAN
    BY <1>0
  <2> QED
    BY <1>t, <1>1, <1>2, <1>4, <2>1 DEF WInv, WorkspaceType
<1>6. IdsExist'
  BY <1>t, <1>1, <1>4 DEF WInv, IdsExist, Free
<1>7. ShipInv'
  <2>1. Free \in CallRecords /\ Free.kind \in {"free", "create"}
    BY DEF Free, CallRecords
  <2> QED
    BY <1>t, <1>1, <2>1, NoShipmentAdded
<1>8. CleanInv'
  <2> SUFFICES ASSUME clean, call[s].at = "done"
               PROVE  CleanInv'
    BY <1>0 DEF CleanInv
  <2>1. /\ lookup = "none" /\ refresh = "off" /\ OfTheForm(call[s])
        /\ \A t \in Slots : t # s => call[t].kind \notin {"create", "select"}
    BY <1>0 DEF WInv, CleanInv
  <2>2. \A t \in Slots : call'[t].kind \notin {"create", "select"}
    BY <1>1, <2>1 DEF Free
  <2>3. form' = form /\ simulation' # Nothing
    BY <1>0, <1>3 DEF Nothing
  <2>4. sims[simulation'.id].input = form /\ sims[simulation'.id].selected = simulation'.selected
    BY <1>3, <2>1 DEF OfTheForm
  <2> QED
    BY <1>t, <2>1, <2>2, <2>3, <2>4 DEF CleanInv
<1> QED
  BY <1>5, <1>6, <1>7, <1>8 DEF WInv

LEMMA SelectClickStep ==
  ASSUME WInv, NEW s \in Slots, NEW o \in Options, SelectClick(s, o)
  PROVE  WInv'
<1>t. /\ call \in [Slots -> CallRecords] /\ simulation \in [id : Nat, selected : Selections]
      /\ watch \in [create : Nat, select : Nat, ship : Nat]
  BY DEF WInv, WorkspaceType
<1>0. PICK x : x = [kind |-> "select", at |-> "sent", id |-> simulation.id, option |-> o]
  OBVIOUS
<1>1. /\ call[s] = Free /\ simulation # Nothing /\ watch.select = 0
      /\ watch' = [watch EXCEPT !.select = s]
      /\ clean' = (clean /\ ~InFlight("create"))
      /\ UNCHANGED <<form, simulation, lookup, refresh, listed, active, sims>>
  BY DEF SelectClick, NextFree, IsPending, serverVars
<1>2. call' = [t \in Slots |-> IF t = s THEN x
                              ELSE IF call[t].kind = "ship" /\ call[t].id = simulation.id
                                   THEN [call[t] EXCEPT !.sure = FALSE] ELSE call[t]]
  BY <1>0, Zenon DEF SelectClick
<1>3. /\ x \in SelectCalls /\ x \in CallRecords /\ x.kind = "select" /\ x.at = "sent"
      /\ x.id = simulation.id
  BY <1>0, <1>t DEF SelectCalls, CallRecords, Selections
<1>4. call'[s] = x
  BY <1>2
<1>5. ASSUME NEW t \in Slots, t # s
      PROVE  /\ call'[t] \in CallRecords /\ call'[t].kind = call[t].kind
             /\ call[t].kind = "ship" /\ call'[t].sure =>
                  call'[t] = call[t] /\ call[t].id # simulation.id
             /\ call[t].kind = "ship" => call'[t].id = call[t].id
             /\ call[t].kind # "ship" => call'[t] = call[t]
  <2>1. CASE call[t].kind = "ship" /\ call[t].id = simulation.id
    <3>1. PICK y : y = [call[t] EXCEPT !.sure = FALSE]
      OBVIOUS
    <3>2. call[t] \in ShipCalls
      BY <1>t, <2>1, CallFields
    <3>3. y \in ShipCalls /\ y.kind = "ship" /\ y.sure = FALSE /\ y.id = call[t].id
      BY <3>1, <3>2, <2>1 DEF ShipCalls
    <3>4. call'[t] = y
      BY <1>2, <1>5, <2>1, <3>1
    <3> QED
      BY <2>1, <3>3, <3>4 DEF CallRecords
  <2>2. CASE ~(call[t].kind = "ship" /\ call[t].id = simulation.id)
    <3>1. call'[t] = call[t]
      BY <1>2, <1>5, <2>2
    <3> QED
      BY <1>t, <2>2, <3>1
  <2> QED
    BY <2>1, <2>2
<1>6. WorkspaceType'
  <2>1. \A t \in Slots : call'[t] \in CallRecords
    BY <1>3, <1>4, <1>5
  <2>2. call' \in [Slots -> CallRecords]
    BY <1>2, <2>1
  <2>3. watch' \in [create : Nat, select : Nat, ship : Nat] /\ clean' \in BOOLEAN
    BY <1>t, <1>1, WorkspaceAssumption DEF Slots
  <2> QED
    BY <1>1, <2>2, <2>3 DEF WInv, WorkspaceType
<1>7. IdsExist'
  <2>1. simulation.id \in DOMAIN sims
    BY <1>1 DEF WInv, IdsExist
  <2>2. ASSUME NEW t \in Slots, t # s,
               \/ call'[t].kind \in {"select", "ship"}
               \/ call'[t].kind = "create" /\ call'[t].at = "done"
        PROVE  call'[t].id \in DOMAIN sims
    <3>1. CASE call[t].kind = "ship"
      BY <1>5, <2>2, <3>1 DEF WInv, IdsExist
    <3>2. CASE call[t].kind # "ship"
      BY <1>5, <2>2, <3>2 DEF WInv, IdsExist
    <3> QED
      BY <3>1, <3>2
  <2> QED
    BY <1>1, <1>3, <1>4, <2>1, <2>2 DEF IdsExist
<1>8. ShipInv'
  <2> SUFFICES ASSUME NEW t \in Slots, call'[t].kind = "ship", call'[t].sure
               PROVE  Sure(call[t])' /\ call'[t] = call[t]
    BY DEF ShipInv, Sure
  <2>1. t # s /\ call'[t] = call[t] /\ call[t].id # simulation.id
    BY <1>3, <1>4, <1>5
  <2>2. Sure(call[t])
    BY <2>1 DEF WInv, ShipInv
  <2>3. \A u \in Slots : call'[u].kind = "select" => u = s \/ call'[u] = call[u]
    BY <1>5
  <2> QED
    BY <1>1, <1>3, <1>4, <2>1, <2>2, <2>3 DEF Sure
<1>9. CleanInv'
  <2> SUFFICES ASSUME clean, ~InFlight("create")
               PROVE  CleanInv'
    BY <1>1 DEF CleanInv
  <2>1. /\ lookup = "none" /\ refresh = "off" /\ simulation # Nothing
        /\ sims[simulation.id].input = form
        /\ \A t \in Slots : call[t].kind = "select" => watch.select = t
    BY DEF WInv, CleanInv
  <2>2. \A t \in Slots : call[t].kind \notin {"create", "select"}
    <3>1. \A t \in Slots : t # 0
      BY WorkspaceAssumption DEF Slots
    <3> QED
      BY <1>1, <2>1, <3>1 DEF InFlight
  <2>3. \A t \in Slots : call'[t].kind # "create" /\ (call'[t].kind = "select" => t = s)
    BY <1>3, <1>4, <1>5, <2>2
  <2>4. InFlight("select")'
    BY <1>3, <1>4 DEF InFlight
  <2>5. OfTheShown(x)' /\ watch'.select = s
    BY <1>1, <1>3, <1>t DEF OfTheShown
  <2> QED
    BY <1>1, <1>4, <2>1, <2>3, <2>4, <2>5 DEF CleanInv, OfTheShown
<1> QED
  BY <1>6, <1>7, <1>8, <1>9 DEF WInv

\* While no action has crossed another there is one selection at most, and then no
\* calculation.
LEMMA OnlySelection ==
  ASSUME WInv, clean, NEW s \in Slots, call[s].kind = "select"
  PROVE  /\ lookup = "none" /\ refresh = "off" /\ OfTheShown(call[s]) /\ watch.select = s
         /\ \A t \in Slots : t # s => call[t].kind \notin {"create", "select"}
         /\ simulation # Nothing /\ sims[simulation.id].input = form
<1>1. \A t \in Slots : call[t].kind # "create"
  BY DEF WInv, CleanInv
<1>2. ~InFlight("create")
  BY <1>1 DEF InFlight
<1>3. \A t \in Slots : call[t].kind = "select" => watch.select = t
  BY DEF WInv, CleanInv
<1> QED
  BY <1>1, <1>2, <1>3 DEF WInv, CleanInv

LEMMA SelectServedStep ==
  ASSUME WInv, NEW s \in Slots, SelectServed(s)
  PROVE  WInv'
<1>t. call \in [Slots -> CallRecords] /\ sims \in Seq(SimRows)
  BY DEF WInv, WorkspaceType
<1>0. PICK i, x, y : /\ i = call[s].id /\ x = [call[s] EXCEPT !.at = "written"]
                     /\ y = [sims[i] EXCEPT !.selected = call[s].option]
  OBVIOUS
<1>1. /\ call[s].kind = "select" /\ call[s].at = "sent"
      /\ call' = [call EXCEPT ![s] = x] /\ sims' = [sims EXCEPT ![i] = y]
      /\ UNCHANGED <<form, simulation, watch, lookup, refresh, listed, active, clean>>
  BY <1>0 DEF SelectServed
<1>2. call[s] \in SelectCalls /\ i \in DOMAIN sims /\ sims[i] \in SimRows
  BY <1>0, <1>1, <1>t, CallFields DEF WInv, IdsExist
<1>3. /\ x \in SelectCalls /\ x \in CallRecords /\ x.kind = "select" /\ x.at = "written"
      /\ x.id = i /\ x.option = call[s].option
  BY <1>0, <1>2 DEF SelectCalls, CallRecords
<1>4. /\ y \in SimRows /\ y.selected = call[s].option
      /\ y.input = sims[i].input /\ y.shipped = sims[i].shipped
  BY <1>0, <1>2 DEF SimRows, SelectCalls
<1>5. call' \in [Slots -> CallRecords] /\ call'[s] = x
      /\ \A t \in Slots : t # s => call'[t] = call[t]
  BY <1>1, <1>3, <1>t, CallWritten
<1>6. /\ sims' \in Seq(SimRows) /\ DOMAIN sims' = DOMAIN sims /\ sims'[i] = y
      /\ \A j \in DOMAIN sims : j # i => sims'[j] = sims[j]
  BY <1>1, <1>2, <1>4, <1>t, SimsUpdated
<1>7. WorkspaceType' /\ IdsExist'
  <2>1. WorkspaceType'
    BY <1>1, <1>5, <1>6 DEF WInv, WorkspaceType
  <2>2. IdsExist'
    BY <1>1, <1>2, <1>3, <1>5, <1>6 DEF WInv, IdsExist
  <2> QED
    BY <2>1, <2>2
<1>8. ShipInv'
  <2> SUFFICES ASSUME NEW t \in Slots, call'[t].kind = "ship", call'[t].sure
               PROVE  Sure(call[t])' /\ call'[t] = call[t]
    BY DEF ShipInv, Sure
  <2>1. t # s /\ call'[t] = call[t]
    BY <1>3, <1>5
  <2>2. Sure(call[t]) /\ call[t].id \in DOMAIN sims
    BY <2>1 DEF WInv, ShipInv, IdsExist
  <2>3. \A u \in Slots :
          call'[u].kind = "select" => call[u].kind = "select" /\ call'[u].id = call[u].id
    BY <1>0, <1>1, <1>3, <1>5
  <2>4. sims'[call[t].id].shipped = sims[call[t].id].shipped
    BY <1>4, <1>6, <2>2
  <2>5. call[t].at = "sent" => call[t].id # i
    BY <1>0, <1>1, <2>2 DEF Sure
  <2> QED
    BY <1>6, <2>1, <2>2, <2>3, <2>4, <2>5 DEF Sure
<1>9. CleanInv'
  <2> SUFFICES ASSUME clean
               PROVE  CleanInv'
    BY <1>1 DEF CleanInv
  <2>1. \A t \in Slots : call'[t].kind # "create" /\ (call'[t].kind = "select" => t = s)
    BY <1>1, <1>3, <1>5, OnlySelection
  <2>2. InFlight("select")'
    BY <1>3, <1>5 DEF InFlight
  <2>3. simulation.id = i
    BY <1>0, <1>1, OnlySelection DEF OfTheShown
  <2>4. OfTheShown(x)' /\ sims'[simulation.id].input = form
    BY <1>1, <1>3, <1>4, <1>6, <2>3, OnlySelection DEF OfTheShown
  <2> QED
    BY <1>1, <1>5, <2>1, <2>2, <2>4, OnlySelection DEF CleanInv, OfTheShown
<1> QED
  BY <1>7, <1>8, <1>9 DEF WInv

LEMMA SelectLoadedStep ==
  ASSUME WInv, NEW s \in Slots, SelectLoaded(s)
  PROVE  WInv'
<1>t. call \in [Slots -> CallRecords] /\ sims \in Seq(SimRows)
  BY DEF WInv, WorkspaceType
<1>0. PICK i, x : i = call[s].id /\ x = [call[s] EXCEPT !.at = "done", !.option = sims[i].selected]
  OBVIOUS
<1>1. /\ call[s].kind = "select" /\ call[s].at = "written"
      /\ call' = [call EXCEPT ![s] = x]
      /\ UNCHANGED <<form, simulation, watch, lookup, refresh, listed, active, sims, clean>>
  BY <1>0 DEF SelectLoaded, serverVars
<1>2. call[s] \in SelectCalls /\ i \in DOMAIN sims /\ sims[i] \in SimRows
  BY <1>0, <1>1, <1>t, CallFields DEF WInv, IdsExist
<1>3. /\ x \in SelectCalls /\ x \in CallRecords /\ x.kind = "select" /\ x.at = "done"
      /\ x.id = i /\ x.option = sims[i].selected
  BY <1>0, <1>2 DEF SelectCalls, CallRecords, SimRows
<1>5. call' \in [Slots -> CallRecords] /\ call'[s] = x
      /\ \A t \in Slots : t # s => call'[t] = call[t]
  BY <1>1, <1>3, <1>t, CallWritten
<1>7. WorkspaceType' /\ IdsExist'
  <2>1. WorkspaceType'
    BY <1>1, <1>5 DEF WInv, WorkspaceType
  <2>2. IdsExist'
    BY <1>1, <1>2, <1>3, <1>5 DEF WInv, IdsExist
  <2> QED
    BY <2>1, <2>2
<1>8. ShipInv'
  BY <1>0, <1>1, <1>3, NoShipmentAdded
<1>9. CleanInv'
  <2> SUFFICES ASSUME clean
               PROVE  CleanInv'
    BY <1>1 DEF CleanInv
  <2>1. \A t \in Slots : call'[t].kind # "create" /\ (call'[t].kind = "select" => t = s)
    BY <1>1, <1>3, <1>5, OnlySelection
  <2>2. InFlight("select")'
    BY <1>3, <1>5 DEF InFlight
  <2>4. OfTheShown(x)'
    BY <1>0, <1>1, <1>3, OnlySelection DEF OfTheShown
  <2> QED
    BY <1>1, <1>5, <2>1, <2>2, <2>4, OnlySelection DEF CleanInv, OfTheShown
<1> QED
  BY <1>7, <1>8, <1>9 DEF WInv

LEMMA SelectAnsweredStep ==
  ASSUME WInv, NEW s \in Slots, SelectAnswered(s)
  PROVE  WInv'
<1>t. call \in [Slots -> CallRecords]
  BY DEF WInv, WorkspaceType
<1>0. PICK x : x = [id |-> call[s].id, selected |-> call[s].option]
  OBVIOUS
<1>1. /\ call[s].kind = "select" /\ call[s].at = "done" /\ Answered(s, "select")
      /\ simulation' = x
      /\ UNCHANGED <<form, lookup, refresh, listed, active, sims, clean>>
  BY <1>0 DEF SelectAnswered, serverVars
<1>2. call[s] \in SelectCalls /\ call[s].id \in DOMAIN sims
  BY <1>1, <1>t, CallFields DEF WInv, IdsExist
<1>3. /\ x \in [id : Nat, selected : Selections] /\ x.id \in DOMAIN sims
      /\ x.id = call[s].id /\ x.selected = call[s].option
  BY <1>0, <1>2 DEF SelectCalls
<1>5. /\ call' = [call EXCEPT ![s] = Free] /\ call' \in [Slots -> CallRecords] /\ call'[s] = Free
      /\ \A t \in Slots : t # s => call'[t] = call[t]
      /\ watch' \in [create : Nat, select : Nat, ship : Nat]
  BY <1>1, WatchAnswered
<1>7. WorkspaceType' /\ IdsExist'
  <2>1. WorkspaceType'
    BY <1>1, <1>3, <1>5 DEF WInv, WorkspaceType
  <2>2. IdsExist'
    BY <1>1, <1>3, <1>5 DEF WInv, IdsExist, Free
  <2> QED
    BY <2>1, <2>2
<1>8. ShipInv'
  <2>1. Free \in CallRecords /\ Free.kind \in {"free", "create"}
    BY DEF Free, CallRecords
  <2> QED
    BY <1>1, <1>5, <2>1, NoShipmentAdded
<1>9. CleanInv'
  <2> SUFFICES ASSUME clean
               PROVE  CleanInv'
    BY <1>1 DEF CleanInv
  <2>1. \A t \in Slots : call'[t].kind \notin {"create", "select"}
    BY <1>1, <1>5, OnlySelection DEF Free
  <2>2. /\ simulation'.id = simulation.id
        /\ sims[simulation'.id].selected = simulation'.selected
    BY <1>1, <1>3, OnlySelection DEF OfTheShown
  <2>3. simulation' # Nothing
    <3>1. x.id # 0
      BY <1>3 DEF WInv, WorkspaceType
    <3> QED
      BY <1>1, <3>1 DEF Nothing
  <2> QED
    BY <1>1, <2>1, <2>2, <2>3, OnlySelection DEF CleanInv
<1> QED
  BY <1>7, <1>8, <1>9 DEF WInv

\* A shipment that is asked for, served or answered crosses nothing.
LEMMA ShipmentsAside ==
  ASSUME WInv, NEW s \in Slots, NEW x \in CallRecords, call' = [call EXCEPT ![s] = x],
         x.kind \in {"free", "ship"}, call[s].kind \in {"free", "ship"},
         UNCHANGED <<form, simulation, lookup, refresh, clean>>, watch'.select = watch.select,
         \A i \in DOMAIN sims : sims'[i].input = sims[i].input /\ sims'[i].selected = sims[i].selected
  PROVE  CleanInv'
<1> SUFFICES ASSUME clean
             PROVE  CleanInv'
  BY DEF CleanInv
<1>1. call'[s] = x /\ \A t \in Slots : t # s => call'[t] = call[t]
  BY CallWritten DEF WInv, WorkspaceType
<1>2. \A t \in Slots : call'[t].kind \in {"create", "select"} => call'[t] = call[t]
  BY <1>1
<1>3. \A t \in Slots : call[t].kind \in {"create", "select"} => call'[t] = call[t]
  BY <1>1
<1>4. InFlight("create")' <=> InFlight("create")
  BY <1>2, <1>3 DEF InFlight
<1>5. InFlight("select")' <=> InFlight("select")
  BY <1>2, <1>3 DEF InFlight
<1>6. ASSUME NEW t \in Slots, call'[t].kind = "create"
      PROVE  /\ OfTheForm(call[t])' /\ call'[t] = call[t]
             /\ \A u \in Slots : u # t => call'[u].kind \notin {"create", "select"}
  <2>1. call'[t] = call[t]
    BY <1>2, <1>6
  <2>2. OfTheForm(call[t]) /\ \A u \in Slots : u # t => call[u].kind \notin {"create", "select"}
    BY <1>6, <2>1 DEF WInv, CleanInv
  <2>3. call[t].at = "done" => call[t].id \in DOMAIN sims
    BY <1>6, <2>1 DEF WInv, IdsExist
  <2>4. OfTheForm(call[t])'
    BY <2>1, <2>2, <2>3 DEF OfTheForm
  <2> QED
    BY <1>2, <2>1, <2>2, <2>4
<1>7. ASSUME NEW t \in Slots, call'[t].kind = "select"
      PROVE  OfTheShown(call[t])' /\ watch'.select = t
  <2>1. call'[t] = call[t]
    BY <1>2, <1>7
  <2>2. OfTheShown(call[t]) /\ watch.select = t /\ call[t].id \in DOMAIN sims
    BY <1>7, <2>1 DEF WInv, CleanInv, IdsExist
  <2> QED
    BY <2>1, <2>2 DEF OfTheShown
<1>8. ~InFlight("create") =>
        /\ simulation # Nothing /\ sims'[simulation.id].input = form
        /\ ~InFlight("select") => sims'[simulation.id].selected = simulation.selected
  BY DEF WInv, CleanInv, IdsExist
<1>9. lookup = "none" /\ refresh = "off"
  BY DEF WInv, CleanInv
<1> QED
  BY <1>4, <1>5, <1>6, <1>7, <1>8, <1>9 DEF CleanInv

LEMMA ShipClickStep ==
  ASSUME WInv, NEW s \in Slots, ShipClick(s)
  PROVE  WInv'
<1>t. /\ call \in [Slots -> CallRecords] /\ simulation \in [id : Nat, selected : Selections]
      /\ watch \in [create : Nat, select : Nat, ship : Nat] /\ clean \in BOOLEAN
  BY DEF WInv, WorkspaceType
<1>0. PICK b : b = (clean /\ ~InFlight("create") /\ ~InFlight("select") /\ sims[simulation.id].shipped = "none")
  OBVIOUS
<1>b. PICK x : x = [kind |-> "ship", at |-> "sent", id |-> simulation.id,
                    option |-> simulation.selected, sure |-> b]
  OBVIOUS
<1>1. /\ call[s] = Free /\ simulation.selected # "none"
      /\ watch' = [watch EXCEPT !.ship = s]
      /\ UNCHANGED <<form, simulation, lookup, refresh, listed, active, sims, clean>>
  BY DEF ShipClick, NextFree, serverVars
<1>2. call' = [call EXCEPT ![s] = x]
  BY <1>0, <1>b, Zenon DEF ShipClick
<1>3. /\ x \in ShipCalls /\ x \in CallRecords /\ x.kind = "ship" /\ x.at = "sent"
      /\ x.id = simulation.id /\ x.option = simulation.selected /\ x.sure = b
  BY <1>0, <1>b, <1>t, <1>1 DEF ShipCalls, CallRecords, Selections
<1>4. simulation # Nothing /\ simulation.id \in DOMAIN sims
  BY <1>1 DEF WInv, IdsExist, Nothing
<1>5. call' \in [Slots -> CallRecords] /\ call'[s] = x
      /\ \A t \in Slots : t # s => call'[t] = call[t]
  BY <1>2, <1>3, <1>t, CallWritten
<1>6. watch' \in [create : Nat, select : Nat, ship : Nat] /\ watch'.select = watch.select
  BY <1>t, <1>1, WorkspaceAssumption DEF Slots
<1>7. WorkspaceType' /\ IdsExist'
  <2>1. WorkspaceType'
    BY <1>1, <1>5, <1>6 DEF WInv, WorkspaceType
  <2>2. IdsExist'
    BY <1>1, <1>3, <1>4, <1>5 DEF WInv, IdsExist
  <2> QED
    BY <2>1, <2>2
<1>8. ShipInv'
  <2>1. ASSUME b
        PROVE  Sure(x)'
    <3>1. \A t \in Slots : call'[t].kind # "select"
      BY <1>0, <1>3, <1>5, <2>1 DEF InFlight
    <3>2. sims[x.id].selected = x.option /\ sims[x.id].shipped = "none"
      BY <1>0, <1>3, <2>1 DEF WInv, CleanInv
    <3> QED
      BY <1>1, <1>3, <3>1, <3>2 DEF Sure
  <2>2. ASSUME NEW t \in Slots, t # s, call'[t].kind = "ship", call'[t].sure
        PROVE  Sure(call[t])' /\ call'[t] = call[t]
    <3>1. call'[t] = call[t] /\ Sure(call[t])
      BY <1>5, <2>2 DEF WInv, ShipInv
    <3>2. \A u \in Slots : call'[u].kind = "select" => call'[u] = call[u]
      BY <1>3, <1>5
    <3> QED
      BY <1>1, <3>1, <3>2 DEF Sure
  <2> QED
    BY <1>3, <1>5, <2>1, <2>2 DEF ShipInv, Sure
<1>9. CleanInv'
  <2>1. call[s].kind \in {"free", "ship"} /\ x.kind \in {"free", "ship"}
    BY <1>1, <1>3 DEF Free
  <2>2. \A i \in DOMAIN sims : sims'[i].input = sims[i].input /\ sims'[i].selected = sims[i].selected
    BY <1>1
  <2> QED
    BY <1>1, <1>2, <1>3, <1>6, <2>1, <2>2, ShipmentsAside
<1> QED
  BY <1>7, <1>8, <1>9 DEF WInv

LEMMA ShipServedStep ==
  ASSUME WInv, NEW s \in Slots, ShipServed(s)
  PROVE  WInv'
<1>t. call \in [Slots -> CallRecords] /\ sims \in Seq(SimRows)
  BY DEF WInv, WorkspaceType
<1>0. PICK i, x, y : /\ i = call[s].id /\ x = [call[s] EXCEPT !.at = "done"]
                     /\ y = [sims[i] EXCEPT !.shipped = IF @ = "none" THEN sims[i].selected ELSE @]
  OBVIOUS
<1>1. /\ call[s].kind = "ship" /\ call[s].at = "sent"
      /\ call' = [call EXCEPT ![s] = x] /\ sims' = [sims EXCEPT ![i] = y]
      /\ UNCHANGED <<form, simulation, watch, lookup, refresh, listed, active, clean>>
  BY <1>0 DEF ShipServed
<1>2. call[s] \in ShipCalls /\ i \in DOMAIN sims /\ sims[i] \in SimRows
  BY <1>0, <1>1, <1>t, CallFields DEF WInv, IdsExist
<1>3. /\ x \in ShipCalls /\ x \in CallRecords /\ x.kind = "ship" /\ x.at = "done"
      /\ x.id = i /\ x.option = call[s].option /\ x.sure = call[s].sure
  BY <1>0, <1>2 DEF ShipCalls, CallRecords
<1>4. /\ y \in SimRows /\ y.selected = sims[i].selected /\ y.input = sims[i].input
      /\ y.shipped = IF sims[i].shipped = "none" THEN sims[i].selected ELSE sims[i].shipped
  BY <1>0, <1>2 DEF SimRows
<1>5. call' \in [Slots -> CallRecords] /\ call'[s] = x
      /\ \A t \in Slots : t # s => call'[t] = call[t]
  BY <1>1, <1>3, <1>t, CallWritten
<1>6. /\ sims' \in Seq(SimRows) /\ DOMAIN sims' = DOMAIN sims /\ sims'[i] = y
      /\ \A j \in DOMAIN sims : j # i => sims'[j] = sims[j]
  BY <1>1, <1>2, <1>4, <1>t, SimsUpdated
<1>7. WorkspaceType' /\ IdsExist'
  <2>1. WorkspaceType'
    BY <1>1, <1>5, <1>6 DEF WInv, WorkspaceType
  <2>2. IdsExist'
    BY <1>1, <1>2, <1>3, <1>5, <1>6 DEF WInv, IdsExist
  <2> QED
    BY <2>1, <2>2
<1>8. ShipInv'
  <2>1. ASSUME x.sure
        PROVE  Sure(x)'
    <3>1. sims[i].selected = x.option /\ sims[i].shipped \in {"none", x.option}
      BY <1>0, <1>1, <1>3, <2>1 DEF WInv, ShipInv, Sure
    <3> QED
      BY <1>3, <1>4, <1>6, <3>1 DEF Sure
  <2>2. ASSUME NEW t \in Slots, t # s, call'[t].kind = "ship", call'[t].sure
        PROVE  Sure(call[t])' /\ call'[t] = call[t]
    <3>1. call'[t] = call[t] /\ Sure(call[t]) /\ call[t].id \in DOMAIN sims /\ call[t] \in ShipCalls
      BY <1>5, <1>t, <2>2, CallFields DEF WInv, ShipInv, IdsExist
    <3>2. \A u \in Slots : call'[u].kind = "select" => call'[u] = call[u]
      BY <1>3, <1>5
    <3>3. call[t].option # "none" /\ call[t].at \in {"sent", "done"}
      BY <3>1, WorkspaceAssumption DEF ShipCalls
    <3>4. sims'[call[t].id].selected = sims[call[t].id].selected
      BY <1>4, <1>6, <3>1
    <3>5. sims[call[t].id].shipped = call[t].option => sims'[call[t].id].shipped = call[t].option
      BY <1>4, <1>6, <3>1, <3>3
    <3>6. call[t].at = "sent" => sims'[call[t].id].shipped \in {"none", call[t].option}
      BY <1>4, <1>6, <3>1 DEF Sure
    <3> QED
      BY <3>1, <3>2, <3>3, <3>4, <3>5, <3>6 DEF Sure
  <2> QED
    BY <1>3, <1>5, <2>1, <2>2 DEF ShipInv, Sure
<1>9. CleanInv'
  <2>1. \A j \in DOMAIN sims : sims'[j].input = sims[j].input /\ sims'[j].selected = sims[j].selected
    BY <1>4, <1>6
  <2> QED
    BY <1>1, <1>3, <2>1, ShipmentsAside
<1> QED
  BY <1>7, <1>8, <1>9 DEF WInv

\* The answer to a shipment, and a call of a selection or shipment that fails.
LEMMA SlotFreedSteps ==
  ASSUME WInv, NEW s \in Slots, ShipAnswered(s) \/ CallFails(s)
  PROVE  WInv'
<1>1. /\ call[s].kind \in {"select", "ship"} /\ Answered(s, call[s].kind)
      /\ UNCHANGED <<form, simulation, lookup, refresh, listed, active, sims>>
      /\ clean' = FALSE \/ (call[s].kind = "ship" /\ clean' = clean)
  BY DEF ShipAnswered, CallFails, serverVars
<1>2. /\ call' = [call EXCEPT ![s] = Free] /\ call' \in [Slots -> CallRecords] /\ call'[s] = Free
      /\ \A t \in Slots : t # s => call'[t] = call[t]
      /\ watch' \in [create : Nat, select : Nat, ship : Nat]
      /\ call[s].kind # "select" => watch'.select = watch.select
  BY <1>1, WatchAnswered
<1>3. Free \in CallRecords /\ Free.kind = "free"
  BY DEF Free, CallRecords
<1>4. WorkspaceType'
  BY <1>1, <1>2 DEF WInv, WorkspaceType
<1>5. IdsExist'
  BY <1>1, <1>2 DEF WInv, IdsExist, Free
<1>6. ShipInv'
  BY <1>1, <1>2, <1>3, NoShipmentAdded
<1>7. CleanInv'
  <2>1. CASE clean' = FALSE
    BY <2>1 DEF CleanInv
  <2>2. CASE call[s].kind = "ship" /\ clean' = clean
    BY <1>1, <1>2, <1>3, <2>2, ShipmentsAside
  <2> QED
    BY <1>1, <2>1, <2>2
<1> QED
  BY <1>4, <1>5, <1>6, <1>7 DEF WInv

LEMMA WorkspaceInvariant == WorkspaceSpec => []WInv
<1>1. WorkspaceInit => WInv
  <2> SUFFICES ASSUME WorkspaceInit
               PROVE  WInv
    OBVIOUS
  <2>1. /\ simulation = Nothing /\ watch = NoWatch /\ call = [s \in Slots |-> Free]
        /\ lookup = "none" /\ listed = Customers /\ active = Customers /\ sims = << >>
        /\ clean = FALSE
    BY DEF WorkspaceInit
  <2>2. form \in Forms
    <3>1. PICK z \in PostalCodes : z = CHOOSE y \in PostalCodes : TRUE
      BY WorkspaceAssumption
    <3>2. form = [customer |-> "none", cep |-> z, city |-> "none", packages |-> 1]
      BY <3>1, Zenon DEF WorkspaceInit
    <3> QED
      BY <3>2 DEF Forms
  <2>3. WorkspaceType
    <3>1. simulation \in [id : Nat, selected : Selections]
      BY <2>1 DEF Nothing, Selections
    <3>2. watch \in [create : Nat, select : Nat, ship : Nat]
      BY <2>1 DEF NoWatch
    <3>3. call \in [Slots -> CallRecords]
      BY <2>1, Zenon DEF CallRecords
    <3>4. sims \in Seq(SimRows)
      BY <2>1
    <3> QED
      BY <2>1, <2>2, <3>1, <3>2, <3>3, <3>4 DEF WorkspaceType
  <2>4. \A s \in Slots : call[s].kind = "free"
    BY <2>1 DEF Free
  <2> QED
    BY <2>1, <2>3, <2>4 DEF WInv, IdsExist, ShipInv, CleanInv
<1>2. WInv /\ [WorkspaceNext]_workspaceVars => WInv'
  <2> SUFFICES ASSUME WInv, [WorkspaceNext]_workspaceVars
               PROVE  WInv'
    OBVIOUS
  <2>1. CASE UNCHANGED workspaceVars
    <3>1. UNCHANGED <<form, simulation, watch, call, lookup, refresh, listed, active, sims, clean>>
      BY <2>1 DEF workspaceVars
    <3>2. WorkspaceType'
      BY <3>1 DEF WInv, WorkspaceType
    <3>3. CleanInv'
      BY <3>1 DEF WInv, CleanInv, OfTheForm, OfTheShown, InFlight
    <3> QED
      BY <3>1, <3>2, <3>3, Kept DEF WInv
  <2>2. ASSUME NEW s \in Slots,
               \/ HandleSubmit(s) \/ CreateServed(s) \/ CreateAnswered(s)
               \/ \E o \in Options : SelectClick(s, o)
               \/ SelectServed(s) \/ SelectLoaded(s) \/ SelectAnswered(s)
               \/ ShipClick(s) \/ ShipServed(s) \/ ShipAnswered(s) \/ CallFails(s)
        PROVE  WInv'
    BY <2>2, SubmitStep, CreateServedStep, CreateAnsweredStep, SelectClickStep, SelectServedStep,
       SelectLoadedStep, SelectAnsweredStep, ShipClickStep, ShipServedStep, SlotFreedSteps
  <2> QED
    BY <2>1, <2>2, EntrySteps, AnswersToTheForm DEF WorkspaceNext
<1> QED
  BY <1>1, <1>2, PTL DEF WorkspaceSpec

\* The option that is shipped is the one the page showed as selected when the user
\* asked for the shipment, unless a selection was under way or made meanwhile, or
\* the simulation had a shipment already (FreightSimulationWorkspace, createShipment).
THEOREM ShownOptionShipped == WorkspaceSpec => []ShipsWhatWasShown
<1>1. WInv => ShipsWhatWasShown
  BY DEF WInv, ShipInv, Sure, ShipsWhatWasShown
<1> QED
  BY <1>1, WorkspaceInvariant, PTL

\* Once all is answered the page shows the simulation of the form that was last
\* submitted, with the option the server has selected, unless the form was edited
\* or actions crossed (FreightSimulationWorkspace).
THEOREM QuietPageShowsItsForm == WorkspaceSpec => []QuietPageIsRight
<1>1. WInv => QuietPageIsRight
  BY DEF WInv, CleanInv, QuietPageIsRight, InFlight, Free
<1> QED
  BY <1>1, WorkspaceInvariant, PTL

-----------------------------------------------------------------------------
(* The wizard of an import *)

\* The texts a field goes by: no two fields of a type share one.
CustomerNames ==
  [name |-> {"name", "nome", "cliente", "razao_social"},
   document |-> {"document", "documento", "cpf_cnpj", "cpf", "cnpj"},
   email |-> {"email", "e_mail"},
   phone |-> {"phone", "telefone", "celular"},
   postalCode |-> {"postalcode", "cep", "postal_code"},
   city |-> {"city", "cidade"},
   state |-> {"state", "estado", "uf"}]

CarrierNames ==
  [name |-> {"name", "nome", "transportadora", "carrier"},
   code |-> {"code", "codigo", "cod"},
   document |-> {"document", "documento", "cnpj"},
   legalName |-> {"legalname", "razao_social", "legal_name"},
   email |-> {"email", "e_mail"},
   phone |-> {"phone", "telefone"},
   contactName |-> {"contactname", "contato", "contact", "contact_name"},
   site |-> {"site", "website"}]

NamesByKey(type) == IF type = "CUSTOMERS" THEN CustomerNames ELSE CarrierNames

\* The names of a field, its key and no more than five aliases, are those of its key.
Named(f, names) ==
  /\ f.key \in DOMAIN names
  /\ \E n \in 0 .. 6 : DOMAIN Names(f) = 1 .. n
  /\ \A i \in DOMAIN Names(f) : Names(f)[i] \in names[f.key]

LEMMA FieldNamed ==
  ASSUME NEW f, NEW names, NEW k, f.key = k, k \in DOMAIN names,
         f.aliases \in Seq(names[k]), Len(f.aliases) <= 5, NormalizedKey(k) \in names[k]
  PROVE  Named(f, names)
<1>1. PICK s : s = f.aliases
  OBVIOUS
<1>2. PICK h : h = <<NormalizedKey(k)>>
  OBVIOUS
<1>3. h \in Seq(names[k]) /\ Len(h) = 1
  BY <1>2
<1>4. s \in Seq(names[k]) /\ Len(s) \in Nat /\ Len(s) <= 5
  BY <1>1
<1>5. h \o s \in Seq(names[k]) /\ Len(h \o s) = Len(h) + Len(s)
  BY <1>3, <1>4, ConcatProperties
<1>6. Names(f) = h \o s
  BY <1>1, <1>2 DEF Names
<1>7. PICK n : n = Names(f)
  OBVIOUS
<1>8. n \in Seq(names[k]) /\ Len(n) \in 0 .. 6
  BY <1>3, <1>4, <1>5, <1>6, <1>7
<1>9. DOMAIN n = 1 .. Len(n) /\ \A i \in DOMAIN n : n[i] \in names[k]
  BY <1>8
<1> QED
  BY <1>7, <1>8, <1>9 DEF Named

LEMMA CustomerFieldsNamed ==
  \A f \in Range(CustomerFields) : Named(f, CustomerNames)
<1> SUFFICES ASSUME NEW f \in Range(CustomerFields)
             PROVE  Named(f, CustomerNames)
  OBVIOUS
<1>1. PICK i \in 1 .. 7 : f = CustomerFields[i]
  <2>1. DOMAIN CustomerFields = 1 .. 7
    BY DEF CustomerFields
  <2> QED
    BY <2>1 DEF Range
<1>2. CASE f = CustomerFields[1]
  <2>1. f.key = "name" /\ f.aliases = <<"nome", "name", "cliente", "razao_social">>
    BY <1>2 DEF CustomerFields, Field
  <2>2. "name" \in DOMAIN CustomerNames /\ NormalizedKey("name") \in CustomerNames["name"]
    BY DEF CustomerNames, NormalizedKey
  <2>3. f.aliases \in Seq(CustomerNames["name"]) /\ Len(f.aliases) <= 5
    BY <2>1 DEF CustomerNames
  <2> QED
    BY <2>1, <2>2, <2>3, FieldNamed
<1>3. CASE f = CustomerFields[2]
  <2>1. f.key = "document" /\ f.aliases = <<"documento", "cpf_cnpj", "cpf", "cnpj", "document">>
    BY <1>3 DEF CustomerFields, Field
  <2>2. "document" \in DOMAIN CustomerNames /\ NormalizedKey("document") \in CustomerNames["document"]
    BY DEF CustomerNames, NormalizedKey
  <2>3. f.aliases \in Seq(CustomerNames["document"]) /\ Len(f.aliases) <= 5
    BY <2>1 DEF CustomerNames
  <2> QED
    BY <2>1, <2>2, <2>3, FieldNamed
<1>4. CASE f = CustomerFields[3]
  <2>1. f.key = "email" /\ f.aliases = <<"email", "e_mail">>
    BY <1>4 DEF CustomerFields, Field
  <2>2. "email" \in DOMAIN CustomerNames /\ NormalizedKey("email") \in CustomerNames["email"]
    BY DEF CustomerNames, NormalizedKey
  <2>3. f.aliases \in Seq(CustomerNames["email"]) /\ Len(f.aliases) <= 5
    BY <2>1 DEF CustomerNames
  <2> QED
    BY <2>1, <2>2, <2>3, FieldNamed
<1>5. CASE f = CustomerFields[4]
  <2>1. f.key = "phone" /\ f.aliases = <<"telefone", "phone", "celular">>
    BY <1>5 DEF CustomerFields, Field
  <2>2. "phone" \in DOMAIN CustomerNames /\ NormalizedKey("phone") \in CustomerNames["phone"]
    BY DEF CustomerNames, NormalizedKey
  <2>3. f.aliases \in Seq(CustomerNames["phone"]) /\ Len(f.aliases) <= 5
    BY <2>1 DEF CustomerNames
  <2> QED
    BY <2>1, <2>2, <2>3, FieldNamed
<1>6. CASE f = CustomerFields[5]
  <2>1. f.key = "postalCode" /\ f.aliases = <<"cep", "postal_code">>
    BY <1>6 DEF CustomerFields, Field
  <2>2. "postalCode" \in DOMAIN CustomerNames /\ NormalizedKey("postalCode") \in CustomerNames["postalCode"]
    BY DEF CustomerNames, NormalizedKey
  <2>3. f.aliases \in Seq(CustomerNames["postalCode"]) /\ Len(f.aliases) <= 5
    BY <2>1 DEF CustomerNames
  <2> QED
    BY <2>1, <2>2, <2>3, FieldNamed
<1>7. CASE f = CustomerFields[6]
  <2>1. f.key = "city" /\ f.aliases = <<"cidade", "city">>
    BY <1>7 DEF CustomerFields, Field
  <2>2. "city" \in DOMAIN CustomerNames /\ NormalizedKey("city") \in CustomerNames["city"]
    BY DEF CustomerNames, NormalizedKey
  <2>3. f.aliases \in Seq(CustomerNames["city"]) /\ Len(f.aliases) <= 5
    BY <2>1 DEF CustomerNames
  <2> QED
    BY <2>1, <2>2, <2>3, FieldNamed
<1>8. CASE f = CustomerFields[7]
  <2>1. f.key = "state" /\ f.aliases = <<"estado", "uf", "state">>
    BY <1>8 DEF CustomerFields, Field
  <2>2. "state" \in DOMAIN CustomerNames /\ NormalizedKey("state") \in CustomerNames["state"]
    BY DEF CustomerNames, NormalizedKey
  <2>3. f.aliases \in Seq(CustomerNames["state"]) /\ Len(f.aliases) <= 5
    BY <2>1 DEF CustomerNames
  <2> QED
    BY <2>1, <2>2, <2>3, FieldNamed
<1> QED
  BY <1>1, <1>2, <1>3, <1>4, <1>5, <1>6, <1>7, <1>8

LEMMA CarrierFieldsNamed ==
  \A f \in Range(CarrierFields) : Named(f, CarrierNames)
<1> SUFFICES ASSUME NEW f \in Range(CarrierFields)
             PROVE  Named(f, CarrierNames)
  OBVIOUS
<1>1. PICK i \in 1 .. 8 : f = CarrierFields[i]
  <2>1. DOMAIN CarrierFields = 1 .. 8
    BY DEF CarrierFields
  <2> QED
    BY <2>1 DEF Range
<1>2. CASE f = CarrierFields[1]
  <2>1. f.key = "name" /\ f.aliases = <<"nome", "name", "transportadora", "carrier">>
    BY <1>2 DEF CarrierFields, Field
  <2>2. "name" \in DOMAIN CarrierNames /\ NormalizedKey("name") \in CarrierNames["name"]
    BY DEF CarrierNames, NormalizedKey
  <2>3. f.aliases \in Seq(CarrierNames["name"]) /\ Len(f.aliases) <= 5
    BY <2>1 DEF CarrierNames
  <2> QED
    BY <2>1, <2>2, <2>3, FieldNamed
<1>3. CASE f = CarrierFields[2]
  <2>1. f.key = "code" /\ f.aliases = <<"codigo", "code", "cod">>
    BY <1>3 DEF CarrierFields, Field
  <2>2. "code" \in DOMAIN CarrierNames /\ NormalizedKey("code") \in CarrierNames["code"]
    BY DEF CarrierNames, NormalizedKey
  <2>3. f.aliases \in Seq(CarrierNames["code"]) /\ Len(f.aliases) <= 5
    BY <2>1 DEF CarrierNames
  <2> QED
    BY <2>1, <2>2, <2>3, FieldNamed
<1>4. CASE f = CarrierFields[3]
  <2>1. f.key = "document" /\ f.aliases = <<"cnpj", "documento", "document">>
    BY <1>4 DEF CarrierFields, Field
  <2>2. "document" \in DOMAIN CarrierNames /\ NormalizedKey("document") \in CarrierNames["document"]
    BY DEF CarrierNames, NormalizedKey
  <2>3. f.aliases \in Seq(CarrierNames["document"]) /\ Len(f.aliases) <= 5
    BY <2>1 DEF CarrierNames
  <2> QED
    BY <2>1, <2>2, <2>3, FieldNamed
<1>5. CASE f = CarrierFields[4]
  <2>1. f.key = "legalName" /\ f.aliases = <<"razao_social", "legal_name">>
    BY <1>5 DEF CarrierFields, Field
  <2>2. "legalName" \in DOMAIN CarrierNames /\ NormalizedKey("legalName") \in CarrierNames["legalName"]
    BY DEF CarrierNames, NormalizedKey
  <2>3. f.aliases \in Seq(CarrierNames["legalName"]) /\ Len(f.aliases) <= 5
    BY <2>1 DEF CarrierNames
  <2> QED
    BY <2>1, <2>2, <2>3, FieldNamed
<1>6. CASE f = CarrierFields[5]
  <2>1. f.key = "email" /\ f.aliases = <<"email", "e_mail">>
    BY <1>6 DEF CarrierFields, Field
  <2>2. "email" \in DOMAIN CarrierNames /\ NormalizedKey("email") \in CarrierNames["email"]
    BY DEF CarrierNames, NormalizedKey
  <2>3. f.aliases \in Seq(CarrierNames["email"]) /\ Len(f.aliases) <= 5
    BY <2>1 DEF CarrierNames
  <2> QED
    BY <2>1, <2>2, <2>3, FieldNamed
<1>7. CASE f = CarrierFields[6]
  <2>1. f.key = "phone" /\ f.aliases = <<"telefone", "phone">>
    BY <1>7 DEF CarrierFields, Field
  <2>2. "phone" \in DOMAIN CarrierNames /\ NormalizedKey("phone") \in CarrierNames["phone"]
    BY DEF CarrierNames, NormalizedKey
  <2>3. f.aliases \in Seq(CarrierNames["phone"]) /\ Len(f.aliases) <= 5
    BY <2>1 DEF CarrierNames
  <2> QED
    BY <2>1, <2>2, <2>3, FieldNamed
<1>8. CASE f = CarrierFields[7]
  <2>1. f.key = "contactName" /\ f.aliases = <<"contato", "contact", "contact_name">>
    BY <1>8 DEF CarrierFields, Field
  <2>2. "contactName" \in DOMAIN CarrierNames /\ NormalizedKey("contactName") \in CarrierNames["contactName"]
    BY DEF CarrierNames, NormalizedKey
  <2>3. f.aliases \in Seq(CarrierNames["contactName"]) /\ Len(f.aliases) <= 5
    BY <2>1 DEF CarrierNames
  <2> QED
    BY <2>1, <2>2, <2>3, FieldNamed
<1>9. CASE f = CarrierFields[8]
  <2>1. f.key = "site" /\ f.aliases = <<"site", "website">>
    BY <1>9 DEF CarrierFields, Field
  <2>2. "site" \in DOMAIN CarrierNames /\ NormalizedKey("site") \in CarrierNames["site"]
    BY DEF CarrierNames, NormalizedKey
  <2>3. f.aliases \in Seq(CarrierNames["site"]) /\ Len(f.aliases) <= 5
    BY <2>1 DEF CarrierNames
  <2> QED
    BY <2>1, <2>2, <2>3, FieldNamed
<1> QED
  BY <1>1, <1>2, <1>3, <1>4, <1>5, <1>6, <1>7, <1>8, <1>9

LEMMA NamesApart ==
  ASSUME NEW type, NEW k \in DOMAIN NamesByKey(type), NEW l \in DOMAIN NamesByKey(type), k # l
  PROVE  NamesByKey(type)[k] \cap NamesByKey(type)[l] = {}
<1>1. CASE type = "CUSTOMERS"
  BY <1>1 DEF NamesByKey, CustomerNames
<1>2. CASE type # "CUSTOMERS"
  BY <1>2 DEF NamesByKey, CarrierNames
<1> QED
  BY <1>1, <1>2

\* One of the first six of a list is the first of those in a set.
LEMMA FirstExists ==
  ASSUME NEW n, NEW l \in 0 .. 6, DOMAIN n = 1 .. l, NEW S, NEW m \in DOMAIN n, n[m] \in S
  PROVE  \E i \in DOMAIN n : n[i] \in S /\ \A j \in 1 .. i - 1 : n[j] \notin S
<1> DEFINE In(i) == i \in DOMAIN n /\ n[i] \in S
<1>1. In(1) \/ In(2) \/ In(3) \/ In(4) \/ In(5) \/ In(6)
  <2>1. m = 1 \/ m = 2 \/ m = 3 \/ m = 4 \/ m = 5 \/ m = 6
    OBVIOUS
  <2> QED
    BY <2>1
<1>2. \E i \in 1 .. 6 : In(i) /\ \A j \in 1 .. i - 1 : ~In(j)
  <2> HIDE DEF In
  <2>1. CASE In(1)
    BY <2>1
  <2>2. CASE ~In(1) /\ In(2)
    BY <2>2
  <2>3. CASE ~In(1) /\ ~In(2) /\ In(3)
    BY <2>3
  <2>4. CASE ~In(1) /\ ~In(2) /\ ~In(3) /\ In(4)
    BY <2>4
  <2>5. CASE ~In(1) /\ ~In(2) /\ ~In(3) /\ ~In(4) /\ In(5)
    BY <2>5
  <2>6. CASE ~In(1) /\ ~In(2) /\ ~In(3) /\ ~In(4) /\ ~In(5) /\ In(6)
    BY <2>6
  <2> QED
    BY <1>1, <2>1, <2>2, <2>3, <2>4, <2>5, <2>6
<1> QED
  BY <1>2

\* The first name that is a header is one.
LEMMA MatchIsHeader ==
  ASSUME NEW f, NEW names, Named(f, names), NEW headers, Range(Names(f)) \cap headers # {}
  PROVE  Match(f, headers) \in headers \cap names[f.key]
<1> DEFINE First(i) == /\ Names(f)[i] \in headers
                       /\ \A j \in 1 .. i - 1 : Names(f)[j] \notin headers
<1>1. PICK m \in DOMAIN Names(f) : Names(f)[m] \in headers
  BY DEF Range
<1>2. \E i \in DOMAIN Names(f) : First(i)
  BY <1>1, FirstExists DEF Named
<1>3. Match(f, headers) = Names(f)[CHOOSE i \in DOMAIN Names(f) : First(i)]
  BY DEF Match
<1> QED
  BY <1>2, <1>3 DEF Named

\* Each field is mapped to a header that is a name of it alone.
LEMMA AutoMappingFits ==
  ASSUME NEW type, NEW headers
  PROVE  \A k \in DOMAIN AutoMapping(type, headers) :
           /\ k \in DOMAIN NamesByKey(type)
           /\ AutoMapping(type, headers)[k] \in headers \cap NamesByKey(type)[k]
<1> DEFINE matched == {f \in Range(Fields(type)) : Range(Names(f)) \cap headers # {}}
<1>1. \A f \in matched : Named(f, NamesByKey(type))
  BY CustomerFieldsNamed, CarrierFieldsNamed DEF Fields, NamesByKey
<1>2. \A f \in matched : /\ f.key \in DOMAIN NamesByKey(type)
                         /\ Match(f, headers) \in headers \cap NamesByKey(type)[f.key]
  BY <1>1, MatchIsHeader DEF Named
<1>3. AutoMapping(type, headers)
        = [key \in {f.key : f \in matched} |-> Match(CHOOSE f \in matched : f.key = key, headers)]
  BY DEF AutoMapping
<1> HIDE DEF matched
<1> SUFFICES ASSUME NEW k \in {f.key : f \in matched}
             PROVE  /\ k \in DOMAIN NamesByKey(type)
                    /\ Match(CHOOSE f \in matched : f.key = k, headers) \in headers \cap NamesByKey(type)[k]
  BY <1>3
<1>4. PICK f : f = CHOOSE g \in matched : g.key = k
  OBVIOUS
<1>5. f \in matched /\ f.key = k
  BY <1>4
<1> QED
  BY <1>2, <1>4, <1>5

\* autoMapping gives no column to two fields.
Apart(mapping) == \A k, l \in DOMAIN mapping : mapping[k] = mapping[l] => k = l

LEMMA AutoMappingApart ==
  ASSUME NEW type, NEW headers
  PROVE  Apart(AutoMapping(type, headers))
BY AutoMappingFits, NamesApart DEF Apart

\* What the steps of the wizard read of its form, whatever else it holds.
FormFields ==
  /\ {"type", "file", "mapping", "preview", "pending", "touched", "byHand", "changes"} \subseteq DOMAIN wizard
  /\ wizard.touched \in BOOLEAN /\ wizard.byHand \in BOOLEAN

\* A mapping of what autoMapping proposes for a file, and of choices made by hand.
Proposed(mapping, file, byHand) ==
  /\ \A k \in DOMAIN mapping : mapping[k] \in Range(Sheets[file].headers) \cup {""}
  /\ ~byHand => Apart(mapping)

\* One preview is under way at most, and nothing is shown meanwhile.
PendingOK ==
  /\ \A p, q \in wizard.pending : p = q
  /\ wizard.pending # {} => wizard.preview = NoPreview /\ ~wizard.byHand
  /\ \A p \in wizard.pending : ~wizard.touched => p.file = wizard.file

\* Unless the form was touched the preview shown is of its file, and so is the mapping.
PreviewOK ==
  wizard.preview # NoPreview /\ ~wizard.touched =>
    /\ wizard.preview.headers = Range(Sheets[wizard.file].headers)
    /\ Proposed(wizard.mapping, wizard.file, wizard.byHand)

\* And so is the mapping that the request was sent with, rid of what it leaves out
\* once the import is made.
RequestOK ==
  /\ "pc" \in DOMAIN request /\ request.pc \in {"none", "asked", "made"}
  /\ request.pc # "none" =>
       /\ {"type", "file", "mapping", "touched", "byHand"} \subseteq DOMAIN request
       /\ ~request.touched => Proposed(request.mapping, request.file, request.byHand)
  /\ request.pc = "made" => \A k \in DOMAIN request.mapping : request.mapping[k] # ""

WizardInv == FormFields /\ PendingOK /\ PreviewOK /\ RequestOK

LEMMA WizardInvInit == WizardInit => WizardInv
BY DEF WizardInit, WizardInv, FormFields, PendingOK, PreviewOK, RequestOK

\* A request at rest stays right.
LEMMA RequestRests == RequestOK /\ UNCHANGED request => RequestOK'
BY DEF RequestOK, Proposed, Apart

LEMMA ChooseTypeKeeps ==
  ASSUME WizardInv, NEW type, ChooseType(type)
  PROVE  WizardInv'
<1>1. wizard' = [wizard EXCEPT !.type = type, !.mapping = NoMapping, !.touched = TRUE,
                               !.changes = wizard.changes + 1]
  BY DEF ChooseType
<1>2. FormFields' /\ wizard'.pending = wizard.pending /\ wizard'.preview = wizard.preview
        /\ wizard'.byHand = wizard.byHand /\ wizard'.touched
  BY <1>1 DEF WizardInv, FormFields
<1>3. PendingOK' /\ PreviewOK'
  BY <1>2 DEF WizardInv, PendingOK, PreviewOK
<1> QED
  BY <1>2, <1>3, RequestRests DEF WizardInv, ChooseType

LEMMA ChooseFileKeeps ==
  ASSUME WizardInv, NEW file, ChooseFile(file)
  PROVE  WizardInv'
<1>1. wizard' = [wizard EXCEPT !.file = file, !.touched = TRUE, !.changes = wizard.changes + 1]
  BY DEF ChooseFile
<1>2. FormFields' /\ wizard'.pending = wizard.pending /\ wizard'.preview = wizard.preview
        /\ wizard'.byHand = wizard.byHand /\ wizard'.touched
  BY <1>1 DEF WizardInv, FormFields
<1>3. PendingOK' /\ PreviewOK'
  BY <1>2 DEF WizardInv, PendingOK, PreviewOK
<1> QED
  BY <1>2, <1>3, RequestRests DEF WizardInv, ChooseFile

\* A header chosen by hand is one of the preview, or none.
LEMMA MapFieldKeeps ==
  ASSUME WizardInv, NEW key, NEW header, MapField(key, header)
  PROVE  WizardInv'
<1>1. PICK m : m = [k \in DOMAIN wizard.mapping \cup {key} |-> IF k = key THEN header ELSE wizard.mapping[k]]
  OBVIOUS
<1>2. wizard' = [wizard EXCEPT !.mapping = m, !.byHand = TRUE, !.changes = wizard.changes + 1]
  BY <1>1 DEF MapField
<1>3. /\ FormFields' /\ wizard'.pending = wizard.pending /\ wizard'.preview = wizard.preview
      /\ wizard'.file = wizard.file /\ wizard'.mapping = m
      /\ wizard'.byHand /\ wizard'.touched = wizard.touched
  BY <1>2 DEF WizardInv, FormFields
<1>4. wizard.preview # NoPreview /\ header \in wizard.preview.headers \cup {""}
  BY DEF MapField
<1>5. PendingOK'
  BY <1>3, <1>4 DEF WizardInv, PendingOK
<1>6. ASSUME ~wizard.touched
      PROVE  \A k \in DOMAIN m : m[k] \in Range(Sheets[wizard.file].headers) \cup {""}
  BY <1>1, <1>4, <1>6 DEF WizardInv, PreviewOK, Proposed
<1>7. PreviewOK'
  BY <1>3, <1>6 DEF WizardInv, PreviewOK, Proposed
<1> QED
  BY <1>3, <1>5, <1>7, RequestRests DEF WizardInv, MapField

LEMMA AskPreviewKeeps ==
  ASSUME WizardInv, AskPreview
  PROVE  WizardInv'
<1>1. PICK p : p = [type |-> wizard.type, file |-> wizard.file]
  OBVIOUS
<1>2. wizard' = [wizard EXCEPT !.preview = NoPreview, !.touched = FALSE, !.byHand = FALSE, !.pending = {p}]
  BY <1>1 DEF AskPreview
<1>3. FormFields' /\ wizard'.pending = {p} /\ wizard'.preview = NoPreview
        /\ ~wizard'.byHand /\ wizard'.file = wizard.file
  BY <1>2 DEF WizardInv, FormFields
<1>4. PendingOK' /\ PreviewOK'
  BY <1>1, <1>3 DEF PendingOK, PreviewOK
<1> QED
  BY <1>3, <1>4, RequestRests DEF WizardInv, AskPreview

\* The mapping proposed is of the file that the preview was asked for, which is that of
\* the form unless it was touched since.
LEMMA PreviewAnsweredKeeps ==
  ASSUME WizardInv, NEW p, PreviewAnswered(p)
  PROVE  WizardInv'
<1>1. PICK headers : headers = Range(Sheets[p.file].headers)
  OBVIOUS
<1>2. PICK mapping : mapping = AutoMapping(p.type, headers)
  OBVIOUS
<1>3. PICK shown : shown = [type |-> p.type, headers |-> headers,
                            errors |-> MissingRequiredFields(p.type, mapping)]
  OBVIOUS
<1>4. PICK rest : rest = wizard.pending \ {p}
  OBVIOUS
<1>5. p \in wizard.pending /\ UNCHANGED request
        /\ wizard' = [wizard EXCEPT !.pending = rest, !.mapping = mapping, !.preview = shown]
  BY <1>1, <1>2, <1>3, <1>4 DEF PreviewAnswered
<1>6. /\ FormFields' /\ wizard'.pending = rest /\ wizard'.mapping = mapping /\ wizard'.preview = shown
      /\ wizard'.file = wizard.file /\ wizard'.touched = wizard.touched
  BY <1>5 DEF WizardInv, FormFields
<1>7. rest = {}
  BY <1>4, <1>5 DEF WizardInv, PendingOK
<1>8. PendingOK'
  BY <1>6, <1>7 DEF PendingOK
<1>9. Apart(mapping) /\ \A k \in DOMAIN mapping : mapping[k] \in headers
  BY <1>2, AutoMappingFits, AutoMappingApart
<1>10. PreviewOK'
  <2>1. SUFFICES ASSUME ~wizard.touched
                 PROVE  shown.headers = headers /\ p.file = wizard.file
    BY <1>1, <1>6, <1>9 DEF PreviewOK, Proposed
  <2> QED
    BY <1>3, <1>5, <2>1 DEF WizardInv, PendingOK
<1> QED
  BY <1>5, <1>6, <1>8, <1>10, RequestRests DEF WizardInv

LEMMA PreviewFailedKeeps ==
  ASSUME WizardInv, NEW p, PreviewFailed(p)
  PROVE  WizardInv'
<1>1. wizard' = [wizard EXCEPT !.pending = wizard.pending \ {p}]
  BY DEF PreviewFailed
<1>2. /\ FormFields' /\ wizard'.pending = wizard.pending \ {p} /\ wizard'.preview = wizard.preview
      /\ wizard'.mapping = wizard.mapping /\ wizard'.file = wizard.file
      /\ wizard'.touched = wizard.touched /\ wizard'.byHand = wizard.byHand
  BY <1>1 DEF WizardInv, FormFields
<1>3. PendingOK'
  BY <1>2 DEF WizardInv, PendingOK
<1>4. PreviewOK'
  BY <1>2 DEF WizardInv, PreviewOK, Proposed, Apart
<1> QED
  BY <1>2, <1>3, <1>4, RequestRests DEF WizardInv, PreviewFailed

LEMMA FormRests ==
  ASSUME WizardInv, UNCHANGED wizard
  PROVE  FormFields' /\ PendingOK' /\ PreviewOK'
BY DEF WizardInv, FormFields, PendingOK, PreviewOK, Proposed, Apart

LEMMA AskImportKeeps ==
  ASSUME WizardInv, AskImport
  PROVE  WizardInv'
<1>1. /\ {"pc", "type", "file", "mapping", "touched", "byHand"} \subseteq DOMAIN request'
      /\ request'.pc = "asked" /\ request'.mapping = wizard.mapping /\ request'.file = wizard.file
      /\ request'.touched = wizard.touched /\ request'.byHand = wizard.byHand
  BY DEF AskImport
<1>2. ~wizard.touched => Proposed(wizard.mapping, wizard.file, wizard.byHand)
  BY DEF WizardInv, PreviewOK, AskImport
<1>3. RequestOK'
  BY <1>1, <1>2 DEF RequestOK, Proposed, Apart
<1> QED
  BY <1>3, FormRests DEF WizardInv, AskImport

\* What normalizeMapping keeps is still to the columns it was.
LEMMA ImportServedKeeps ==
  ASSUME WizardInv, ImportServed
  PROVE  WizardInv'
<1>1. PICK m : m = NormalizeMapping(request.mapping)
  OBVIOUS
<1>2. CASE request' = [request EXCEPT !.pc = "made", !.mapping = m]
  <2>1. request.pc = "asked" /\ RequestOK
    BY DEF ImportServed, WizardInv
  <2>2. /\ {"pc", "type", "file", "mapping", "touched", "byHand"} \subseteq DOMAIN request'
        /\ request'.pc = "made" /\ request'.mapping = m /\ request'.file = request.file
        /\ request'.touched = request.touched /\ request'.byHand = request.byHand
    BY <1>2, <2>1 DEF RequestOK
  <2>3. /\ DOMAIN m \subseteq DOMAIN request.mapping
        /\ \A k \in DOMAIN m : m[k] = request.mapping[k] /\ m[k] # ""
    BY <1>1 DEF NormalizeMapping
  <2>4. ~request.touched => Proposed(m, request.file, request.byHand)
    BY <2>1, <2>3 DEF RequestOK, Proposed, Apart
  <2>5. RequestOK'
    BY <2>2, <2>3, <2>4 DEF RequestOK, Proposed, Apart
  <2> QED
    BY <2>5, FormRests DEF WizardInv, ImportServed
<1>3. CASE request' = [pc |-> "none"]
  <2>1. RequestOK'
    BY <1>3 DEF RequestOK
  <2> QED
    BY <2>1, FormRests DEF WizardInv, ImportServed
<1> QED
  BY <1>1, <1>2, <1>3 DEF ImportServed

LEMMA ImportLostKeeps ==
  ASSUME WizardInv, ImportLost
  PROVE  WizardInv'
<1>1. RequestOK'
  BY DEF RequestOK, ImportLost
<1> QED
  BY <1>1, FormRests DEF WizardInv, ImportLost

LEMMA WizardInvStep == WizardInv /\ [WizardNext]_intakeVars => WizardInv'
<1> SUFFICES ASSUME WizardInv, [WizardNext]_intakeVars
             PROVE  WizardInv'
  OBVIOUS
<1>1. CASE WizardNext
  BY <1>1, ChooseTypeKeeps, ChooseFileKeeps, MapFieldKeeps, AskPreviewKeeps, PreviewAnsweredKeeps,
     PreviewFailedKeeps, AskImportKeeps, ImportServedKeeps, ImportLostKeeps DEF WizardNext
<1>2. CASE UNCHANGED intakeVars
  BY <1>2, FormRests, RequestRests DEF intakeVars, WizardInv
<1> QED
  BY <1>1, <1>2

\* Whatever files there are, and however the form is changed meanwhile, the fields of
\* an import whose preview was asked for with its file and type are mapped to columns
\* of the file sent, no two to the same unless by hand (ImportWizard, preview, create).
THEOREM PreviewedImportIsMapped == WizardSpec => [](MappedToColumns /\ ColumnsApart)
<1>1. WizardInv => MappedToColumns /\ ColumnsApart
  BY DEF WizardInv, RequestOK, Proposed, Apart, MappedToColumns, ColumnsApart, Untouched
<1> QED
  BY <1>1, WizardInvInit, WizardInvStep, PTL DEF WizardSpec
=============================================================================
