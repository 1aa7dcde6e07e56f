---------------------------- MODULE ImportRecord ----------------------------
(***************************************************************************)
(* What an import promises to those who read it: one record per job, with  *)
(* the status and the results by row that ImportsService.get shows.        *)
(* Requests, queue, slots, counters and faults are left out.               *)
(*                                                                         *)
(* Until a job is retried its rows are recorded in the order of the file,  *)
(* each once and for good, and it is COMPLETED only when all of them are,  *)
(* at least one with success unless none has an error. The status itself   *)
(* promises less: cancel, the worker and a further attempt write over what *)
(* is there.                                                               *)
(***************************************************************************)
EXTENDS Naturals

CONSTANTS Jobs, NumRows

VARIABLES
  status,   \* ImportStatus, or absent
  results,  \* the result of each row
  retried   \* jobs that were retried

recordVars == <<status, results, retried>>

FileRows == 1 .. NumRows

Init ==
  /\ status = [j \in Jobs |-> "absent"]
  /\ results = [j \in Jobs |-> [i \in FileRows |-> "none"]]
  /\ retried = {}

SetStatus(j, s) ==
  /\ status' = [status EXCEPT ![j] = s]
  /\ UNCHANGED <<results, retried>>

\* A file is uploaded.
Submit(j) == status[j] = "absent" /\ SetStatus(j, "PENDING")

\* Work begins, or ends without an outcome.
Work(j) == SetStatus(j, "PROCESSING")

Cancel(j) == SetStatus(j, "CANCELED")

Fail(j) == SetStatus(j, "FAILED")

\* A row is recorded, once; before the first retry none is left out.
RecordRow(j, i, out) ==
  /\ results[j][i] = "none"
  /\ j \notin retried => \A h \in FileRows : h < i => results[j][h] # "none"
  /\ results' = [results EXCEPT ![j][i] = out]
  /\ UNCHANGED <<status, retried>>

\* Every row has a result, and errors alone do not make a success.
Complete(j) ==
  /\ \A i \in FileRows : results[j][i] # "none"
  /\ \/ \E i \in FileRows : results[j][i] = "SUCCESS"
     \/ \A i \in FileRows : results[j][i] # "ERROR"

Conclude(j) ==
  /\ j \notin retried => Complete(j)
  /\ SetStatus(j, "COMPLETED")

\* All results are dropped and the job begins anew.
Retry(j) ==
  /\ status' = [status EXCEPT ![j] = "PENDING"]
  /\ results' = [results EXCEPT ![j] = [i \in FileRows |-> "none"]]
  /\ retried' = retried \cup {j}

Step(j) ==
  \/ Submit(j) \/ Work(j) \/ Cancel(j) \/ Fail(j) \/ Conclude(j) \/ Retry(j)
  \/ \E i \in FileRows, out \in {"SUCCESS", "ERROR", "SKIPPED"} : RecordRow(j, i, out)

Next == \E j \in Jobs : Step(j)

Spec == Init /\ [][Next]_recordVars
=============================================================================
