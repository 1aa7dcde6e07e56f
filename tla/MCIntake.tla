------------------------------ MODULE MCIntake ------------------------------
(* The import of a file from its form on: the wizard, the parser and the jobs *)
(* they lead to. What a job does depends on its file by the outcomes of the   *)
(* rows alone, so one part moves while the others are at rest (part).         *)
EXTENDS Imports, Intake

VARIABLE part

\* Both templates, a file of customers with other names, and one the parser refuses.
MCSheets ==
  [customers |-> Template("CUSTOMERS"), carriers |-> Template("CARRIERS"),
   names |-> [headers |-> <<"cliente", "cnpj">>, size |-> 2, extension |-> "xlsx", formula |-> FALSE,
              rows |-> {[cliente |-> Cell(5, << >>), cnpj |-> Cell(2, <<1, 2>>)]}],
   twice |-> [headers |-> <<"nome", "nome">>, size |-> 1, extension |-> "csv", formula |-> FALSE,
              rows |-> {[nome |-> Cell(5, << >>)]}]]

MCCells ==
  {<< >>, <<"a">>, <<";">>, <<",">>, <<"q">>, <<"q", "q">>, <<"a", "n", "a">>, <<"q", ",">>, <<"n">>}

MCReader ==
  [table |-> << >>, input |-> <<"a">>, index |-> 1, current |-> << >>, row |-> << >>, rows |-> << >>,
   quoted |-> FALSE]

MCInit ==
  /\ part \in {"jobs", "wizard", "reader"}
  /\ Init
  /\ WizardInit
  /\ IF part = "reader" THEN ReaderInit ELSE reader = MCReader

\* Bound: a job that has seen a fault is retried once, with one request at a time
\* and no lock expired; its rows then succeed, as those of a second retry do.
Bounded ==
  LET both == faults' > 0 /\ \E j \in Jobs : retries'[j] > 0
  IN /\ both => /\ lost' = {}
                /\ \A j \in Jobs : retries'[j] <= 1
                /\ \E q \in Reqs : \A r \in Reqs \ {q} : req'[r].pc = "idle"
     /\ (both \/ \E j \in Jobs : retries'[j] > 1) => \A w \in Workers : worker'[w].out # "ERROR"

MCNext ==
  /\ UNCHANGED part
  /\ \/ part = "jobs" /\ Next /\ Bounded /\ UNCHANGED intakeVars
     \/ part = "wizard" /\ WizardNext /\ UNCHANGED vars
     \/ part = "reader" /\ ReaderNext /\ UNCHANGED vars

MCSpec == MCInit /\ [][MCNext]_<<vars, intakeVars, part>>

Symmetry == Permutations(Jobs) \cup Permutations(Files)
              \cup Permutations(Reqs) \cup Permutations(Workers)
=============================================================================
