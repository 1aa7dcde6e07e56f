------------------------------ MODULE Imports ------------------------------
(***************************************************************************)
(* Spreadsheet imports: the HTTP operations of ImportsService (create,     *)
(* cancel, retry), the BullMQ queue they use and the worker slots of       *)
(* ImportsProcessor, over the import_jobs and import_row_results tables.   *)
(*                                                                         *)
(* Every await on the database or on Redis is a step of its own, so an     *)
(* HTTP request interleaves with the other requests and with the workers   *)
(* between what it read and what it writes.  Prisma calls are atomic and   *)
(* so is a $transaction.  Audit records and websocket events are output    *)
(* only; their failure is what RecordFails stands for.                     *)
(***************************************************************************)
EXTENDS Naturals, FiniteSets

CONSTANTS
  Jobs,        \* ids importJob.create can hand out
  Files,       \* contents of uploaded files, told apart by their SHA-256
  Reqs,        \* HTTP requests in flight at one time
  Outcomes,    \* results of processRow that are explored
  Workers,     \* the processor's slots: { concurrency: 2 }
  NumRows,     \* data rows of a file; the parser refuses a file without any
  Attempts,    \* defaultJobOptions.attempts of the queue
  MaxStalls,   \* how often BullMQ re-queues an entry without a lock
  MaxRetries,  \* bound: calls of retry per job
  MaxFaults    \* bound: crashes, expired locks and failed database or Redis calls

ASSUME ConstantsAssumption ==
  /\ Outcomes \subseteq {"SUCCESS", "ERROR", "SKIPPED"}
  /\ NumRows \in Nat \ {0}
  /\ Attempts \in Nat \ {0}
  /\ MaxStalls \in Nat
  /\ MaxRetries \in Nat
  /\ MaxFaults \in Nat
  /\ "none" \notin Jobs \cup Files

VARIABLES
  status,   \* import_jobs.status; "absent" before the row exists
  file,     \* import_jobs.fileHash
  counts,   \* import_jobs.successRows, errorRows, skippedRows
  results,  \* import_row_results: one outcome per row, or "none"
  retries,  \* retry transactions committed for the job
  queue,    \* BullMQ's entries by job id
  worker,   \* the processor's slots
  lost,     \* slots that run on though the lock of their entry has expired
  req,      \* HTTP requests in flight
  faults    \* faults injected so far

vars == <<status, file, counts, results, retries, queue, worker, lost, req, faults>>

Rows == 1 .. NumRows
Outcome == {"SUCCESS", "ERROR", "SKIPPED"}
ImportStatus == {"PENDING", "PROCESSING", "COMPLETED", "FAILED", "CANCELED"}

(***************************************************************************)
(* queue[j][0] is the entry "import:<id>" of job j, and queue[j][k] the    *)
(* entry "import:<id>:retry:<now>" of its k-th committed retry.            *)
(***************************************************************************)
Stamps == 0 .. MaxRetries
EntryState == {"none", "waiting", "active", "done", "dead"}

ZeroCounts == [ok |-> 0, err |-> 0, skip |-> 0]

Entry(state, tries, stalls) ==
  [state |-> state, tries |-> tries, stalls |-> stalls]

NoEntry == Entry("none", 0, 0)

\* A slot that is not in the row loop.
Slot(pc, j, k) == [pc |-> pc, job |-> j, stamp |-> k, n |-> 0,
                   local |-> ZeroCounts, out |-> "none"]

IdleWorker == Slot("idle", "none", 0)

Request(pc, j, f, k) == [pc |-> pc, job |-> j, file |-> f, stamp |-> k]

IdleReq == Request("idle", "none", "none", 0)

CountsType == [ok : Nat, err : Nat, skip : Nat]

EntryType == [state : EntryState, tries : 0 .. Attempts, stalls : 0 .. MaxStalls]

BusySlot ==
  [pc : {"claimed", "row", "handle", "save", "count", "ended", "catch", "rethrow"},
   job : Jobs, stamp : Stamps, n : 0 .. NumRows, local : CountsType,
   out : Outcome \cup {"none"}]

BusyReq ==
  [pc : {"insert"}, job : {"none"}, file : Files, stamp : {0}] \cup
  [pc : {"enqueue", "remove", "cancel", "reset"}, job : Jobs, file : {"none"},
   stamp : Stamps]

TypeOK ==
  /\ status \in [Jobs -> ImportStatus \cup {"absent"}]
  /\ file \in [Jobs -> Files \cup {"none"}]
  /\ counts \in [Jobs -> CountsType]
  /\ results \in [Jobs -> [Rows -> Outcome \cup {"none"}]]
  /\ retries \in [Jobs -> Stamps]
  /\ queue \in [Jobs -> [Stamps -> EntryType]]
  /\ worker \in [Workers -> BusySlot \cup {IdleWorker}]
  /\ lost \in SUBSET Workers
  /\ req \in [Reqs -> BusyReq \cup {IdleReq}]
  /\ faults \in 0 .. MaxFaults

Init ==
  /\ status = [j \in Jobs |-> "absent"]
  /\ file = [j \in Jobs |-> "none"]
  /\ counts = [j \in Jobs |-> ZeroCounts]
  /\ results = [j \in Jobs |-> [i \in Rows |-> "none"]]
  /\ retries = [j \in Jobs |-> 0]
  /\ queue = [j \in Jobs |-> [k \in Stamps |-> NoEntry]]
  /\ worker = [w \in Workers |-> IdleWorker]
  /\ lost = {}
  /\ req = [r \in Reqs |-> IdleReq]
  /\ faults = 0

-----------------------------------------------------------------------------
(* ImportsService.create *)

LiveStatus == {"PENDING", "PROCESSING", "COMPLETED"}

\* The duplicate look-up: a file with a live job is answered with that job,
\* and the request ends there.
CreateCheck(r, f) ==
  /\ req[r].pc = "idle"
  /\ ~ \E j \in Jobs : file[j] = f /\ status[j] \in LiveStatus
  /\ req' = [req EXCEPT ![r] = Request("insert", "none", f, 0)]
  /\ UNCHANGED <<status, file, counts, results, retries, queue, worker, faults, lost>>

\* storage.save and importJob.create, on the strength of the earlier look-up.
CreateInsert(r) ==
  /\ req[r].pc = "insert"
  /\ \E j \in Jobs :
       /\ status[j] = "absent"
       /\ status' = [status EXCEPT ![j] = "PENDING"]
       /\ file' = [file EXCEPT ![j] = req[r].file]
       /\ req' = [req EXCEPT ![r] = Request("enqueue", j, "none", 0)]
  /\ UNCHANGED <<counts, results, retries, queue, worker, faults, lost>>

\* BullMQ ignores an add whose job id it already knows.
AddEntry(j, k) ==
  queue' = IF queue[j][k].state = "none"
             THEN [queue EXCEPT ![j][k] = Entry("waiting", 0, 0)]
             ELSE queue

\* Faulty variant: retry reuses the id of the first entry.
EnqueueSameId(r) ==
  /\ req[r].pc = "enqueue"
  /\ AddEntry(req[r].job, 0)
  /\ req' = [req EXCEPT ![r] = IdleReq]
  /\ UNCHANGED <<status, file, counts, results, retries, worker, faults, lost>>

\* The ids queue.add may be given. The clock is part of the id of a retry: two
\* retries in the same millisecond ask for one id, which shows while the entry
\* of the other still waits.
EntryIds(r) ==
  {req[r].stamp} \cup
  {k \in 1 .. MaxRetries : req[r].stamp > 0 /\ queue[req[r].job][k].state = "waiting"}

\* queue.add of create and of retry.
Enqueue(r) ==
  /\ req[r].pc = "enqueue"
  /\ \E k \in EntryIds(r) : AddEntry(req[r].job, k)
  /\ req' = [req EXCEPT ![r] = IdleReq]
  /\ UNCHANGED <<status, file, counts, results, retries, worker, faults, lost>>

-----------------------------------------------------------------------------
(* ImportsService.cancel *)

CancelRead(r, j) ==
  /\ req[r].pc = "idle"
  /\ status[j] \in {"PENDING", "PROCESSING"}
  /\ req' = [req EXCEPT ![r] = Request("remove", j, "none", 0)]
  /\ UNCHANGED <<status, file, counts, results, retries, queue, worker, faults, lost>>

\* A slot works on the entry and its lock is alive.
Held(j, k) ==
  \E w \in Workers : worker[w].job = j /\ worker[w].stamp = k /\ w \notin lost

\* queue.remove("import:<id>"): BullMQ throws for a locked entry, which the
\* service ignores. The lock of a slot that is gone may not have expired yet.
\* The entries of retries have other ids.
CancelRemove(r) ==
  /\ req[r].pc = "remove"
  /\ \/ ~ Held(req[r].job, 0) /\ queue' = [queue EXCEPT ![req[r].job][0] = NoEntry]
     \/ queue[req[r].job][0].state = "active" /\ UNCHANGED queue
  /\ req' = [req EXCEPT ![r] = Request("cancel", req[r].job, "none", 0)]
  /\ UNCHANGED <<status, file, counts, results, retries, worker, faults, lost>>

\* The update is by id only: whatever the status has become is overwritten.
CancelWrite(r) ==
  /\ req[r].pc = "cancel"
  /\ status' = [status EXCEPT ![req[r].job] = "CANCELED"]
  /\ req' = [req EXCEPT ![r] = IdleReq]
  /\ UNCHANGED <<file, counts, results, retries, queue, worker, faults, lost>>

-----------------------------------------------------------------------------
(* ImportsService.retry *)

RetryRead(r, j) ==
  /\ req[r].pc = "idle"
  /\ retries[j] < MaxRetries
  /\ status[j] \in {"FAILED", "CANCELED"}
  /\ req' = [req EXCEPT ![r] = Request("reset", j, "none", 0)]
  /\ UNCHANGED <<status, file, counts, results, retries, queue, worker, faults, lost>>

\* The transaction: delete the row results and reset the job.
RetryReset(r) ==
  LET j == req[r].job IN
  /\ req[r].pc = "reset"
  /\ retries[j] < MaxRetries
  /\ results' = [results EXCEPT ![j] = [i \in Rows |-> "none"]]
  /\ counts' = [counts EXCEPT ![j] = ZeroCounts]
  /\ status' = [status EXCEPT ![j] = "PENDING"]
  /\ retries' = [retries EXCEPT ![j] = @ + 1]
  /\ req' = [req EXCEPT ![r] = Request("enqueue", j, "none", retries[j] + 1)]
  /\ UNCHANGED <<file, queue, worker, faults, lost>>

-----------------------------------------------------------------------------
(* ImportsProcessor.process, one worker slot *)

JobOf(w) == worker[w].job

\* The slot leaves its entry, and BullMQ makes the queue q of it if the slot
\* still has the lock; without it the entry stays as others have left it.
Settle(w, q) ==
  /\ queue' = IF w \in lost THEN queue ELSE q
  /\ worker' = [worker EXCEPT ![w] = IdleWorker]
  /\ lost' = lost \ {w}

Done(w) == [queue EXCEPT ![JobOf(w)][worker[w].stamp].state = "done"]

\* Past the row loop nothing reads the local counters again.
Leave(w, pc) ==
  worker' = [worker EXCEPT ![w] = Slot(pc, worker[w].job, worker[w].stamp)]

\* BullMQ hands a waiting (or delayed, its back-off over) entry to a free slot.
Fetch(w, j, k) ==
  /\ worker[w].pc = "idle"
  /\ queue[j][k].state = "waiting"
  /\ queue' = [queue EXCEPT ![j][k].state = "active"]
  /\ worker' = [worker EXCEPT ![w] = Slot("claimed", j, k)]
  /\ UNCHANGED <<status, file, counts, results, retries, req, faults, lost>>

\* The job is loaded and set to PROCESSING whatever its status is.
Start(w) ==
  /\ worker[w].pc = "claimed"
  /\ status' = [status EXCEPT ![JobOf(w)] = "PROCESSING"]
  /\ worker' = [worker EXCEPT ![w].pc = "row"]
  /\ UNCHANGED <<file, counts, results, retries, queue, req, faults, lost>>

\* The head of the row loop: go on with the next row ...
CheckRow(w) ==
  /\ worker[w].pc = "row"
  /\ worker[w].n < NumRows
  /\ status[JobOf(w)] # "CANCELED"
  /\ worker' = [worker EXCEPT ![w].pc = "handle"]
  /\ UNCHANGED <<status, file, counts, results, retries, queue, req, faults, lost>>

\* ... or return when the job was canceled; BullMQ then completes the entry.
ObserveCancel(w) ==
  /\ worker[w].pc = "row"
  /\ worker[w].n < NumRows
  /\ status[JobOf(w)] = "CANCELED"
  /\ Settle(w, Done(w))
  /\ UNCHANGED <<status, file, counts, results, retries, req, faults>>

Tally(c, out) ==
  [ok |-> c.ok + (IF out = "SUCCESS" THEN 1 ELSE 0),
   err |-> c.err + (IF out = "ERROR" THEN 1 ELSE 0),
   skip |-> c.skip + (IF out = "SKIPPED" THEN 1 ELSE 0)]

\* handler.processRow and the local counters.
HandleRow(w, out) ==
  /\ worker[w].pc = "handle"
  /\ worker' = [worker EXCEPT ![w].pc = "save", ![w].n = @ + 1, ![w].out = out,
                              ![w].local = Tally(@, out)]
  /\ UNCHANGED <<status, file, counts, results, retries, queue, req, faults, lost>>

\* importRowResult.create, unique on (tenantId, importJobId, rowNumber).
SaveRow(w) ==
  /\ worker[w].pc = "save"
  /\ results[JobOf(w)][worker[w].n] = "none"
  /\ results' = [results EXCEPT ![JobOf(w)][worker[w].n] = worker[w].out]
  /\ worker' = [worker EXCEPT ![w].pc = "count"]
  /\ UNCHANGED <<status, file, counts, retries, queue, req, faults, lost>>

\* Faulty variant: the broken unique key is taken for a recorded row.
SaveRowIgnoreDuplicate(w) ==
  /\ worker[w].pc = "save"
  /\ results[JobOf(w)][worker[w].n] # "none"
  /\ worker' = [worker EXCEPT ![w].pc = "count"]
  /\ UNCHANGED <<status, file, counts, results, retries, queue, req, faults, lost>>

\* A row another attempt has recorded breaks the unique key and throws.
SaveRowDuplicate(w) ==
  /\ worker[w].pc = "save"
  /\ results[JobOf(w)][worker[w].n] # "none"
  /\ Leave(w, "catch")
  /\ UNCHANGED <<status, file, counts, results, retries, queue, req, faults, lost>>

\* The progress update writes the slot's local counters.
Count(w) ==
  /\ worker[w].pc = "count"
  /\ counts' = [counts EXCEPT ![JobOf(w)] = worker[w].local]
  /\ worker' = [worker EXCEPT ![w].pc = "row", ![w].out = "none"]
  /\ UNCHANGED <<status, file, results, retries, queue, req, faults, lost>>

FinalStatus(c) == IF c.err > 0 /\ c.ok = 0 THEN "FAILED" ELSE "COMPLETED"

\* Faulty variant: the loop ends one row early.
FinishEarly(w) ==
  /\ worker[w].pc = "row"
  /\ worker[w].n + 1 = NumRows
  /\ status' = [status EXCEPT ![JobOf(w)] = FinalStatus(worker[w].local)]
  /\ counts' = [counts EXCEPT ![JobOf(w)] = worker[w].local]
  /\ Leave(w, "ended")
  /\ UNCHANGED <<file, results, retries, queue, req, faults, lost>>

\* The final update is by id only: it does not look at the status again.
Finish(w) ==
  /\ worker[w].pc = "row"
  /\ worker[w].n = NumRows
  /\ status' = [status EXCEPT ![JobOf(w)] = FinalStatus(worker[w].local)]
  /\ counts' = [counts EXCEPT ![JobOf(w)] = worker[w].local]
  /\ Leave(w, "ended")
  /\ UNCHANGED <<file, results, retries, queue, req, faults, lost>>

\* process returns and BullMQ completes the entry.
Ack(w) ==
  /\ worker[w].pc = "ended"
  /\ Settle(w, Done(w))
  /\ UNCHANGED <<status, file, counts, results, retries, req, faults>>

\* Faulty variant: the catch block only throws again.
CatchOnly(w) ==
  /\ worker[w].pc = "catch"
  /\ Leave(w, "rethrow")
  /\ UNCHANGED <<status, file, counts, results, retries, queue, req, faults, lost>>

\* The catch block marks the job FAILED before it throws again.
CatchWrite(w) ==
  /\ worker[w].pc = "catch"
  /\ status' = [status EXCEPT ![JobOf(w)] = "FAILED"]
  /\ Leave(w, "rethrow")
  /\ UNCHANGED <<file, counts, results, retries, queue, req, faults, lost>>

\* Faulty variant: no limit to the attempts.
FailAttemptForever(j, k) == [queue EXCEPT ![j][k].state = "waiting"]

\* BullMQ counts a failed attempt: the entry is delayed for another one until
\* the attempts are used up.
FailAttempt(j, k) ==
  [queue EXCEPT
    ![j][k].tries = @ + 1,
    ![j][k].state = IF queue[j][k].tries + 1 < Attempts THEN "waiting" ELSE "dead"]

Rethrow(w) ==
  /\ worker[w].pc = "rethrow"
  /\ Settle(w, FailAttempt(JobOf(w), worker[w].stamp))
  /\ UNCHANGED <<status, file, counts, results, retries, req, faults>>

-----------------------------------------------------------------------------
(* Faults: a failed database, storage or Redis call, a lock that expires,    *)
(* and a crash of the API process, which is also the worker's.               *)

Fault == faults < MaxFaults /\ faults' = faults + 1

\* An await of a request rejects and the request fails with what it has
\* already written: a job without an entry, an entry removed without the
\* cancel.  A transaction that fails writes nothing.
RequestFails(r) ==
  /\ Fault
  /\ req[r].pc \in {"insert", "enqueue", "cancel", "reset"}
  /\ req' = [req EXCEPT ![r] = IdleReq]
  /\ UNCHANGED <<status, file, counts, results, retries, queue, worker, lost>>

\* queue.remove rejects for another reason, which cancel ignores as well.
RemoveFails(r) ==
  /\ Fault
  /\ req[r].pc = "remove"
  /\ req' = [req EXCEPT ![r] = Request("cancel", req[r].job, "none", 0)]
  /\ UNCHANGED <<status, file, counts, results, retries, queue, worker, lost>>

\* An await inside the try block rejects, the audit after the final update
\* included.
StepFails(w) ==
  /\ Fault
  /\ worker[w].pc \in {"row", "handle", "save", "count", "ended"}
  /\ Leave(w, "catch")
  /\ UNCHANGED <<status, file, counts, results, retries, queue, req, lost>>

\* An await outside the try block rejects: the load, the update to PROCESSING
\* or the audit after it, or the update in the catch block.  No status is
\* written on the way out.
RecordFails(w) ==
  /\ Fault
  /\ \/ worker[w].pc \in {"claimed", "catch"}
     \/ worker[w].pc = "row" /\ worker[w].n = 0
  /\ Leave(w, "rethrow")
  /\ UNCHANGED <<status, file, counts, results, retries, queue, req, lost>>

\* The process dies: requests and slots are gone, the tables and Redis stay.
Crash ==
  /\ Fault
  /\ worker' = [w \in Workers |-> IdleWorker]
  /\ req' = [r \in Reqs |-> IdleReq]
  /\ lost' = {}
  /\ UNCHANGED <<status, file, counts, results, retries, queue>>

\* The lock of an entry expires while its slot runs on: the event loop was
\* blocked or Redis out of reach for too long. It is not renewed afterwards.
LoseLock(w) ==
  /\ Fault
  /\ worker[w].pc # "idle" /\ w \notin lost
  /\ lost' = lost \cup {w}
  /\ UNCHANGED <<status, file, counts, results, retries, queue, worker, req>>

\* BullMQ finds an active entry without a live lock, whether its slot is gone or
\* runs on: it waits again, or it is given up when that happened too often.
Stall(j, k) ==
  /\ queue[j][k].state = "active"
  /\ ~ Held(j, k)
  /\ queue' = IF queue[j][k].stalls < MaxStalls
                 THEN [queue EXCEPT ![j][k].state = "waiting", ![j][k].stalls = @ + 1]
                 ELSE [queue EXCEPT ![j][k].state = "dead"]
  /\ UNCHANGED <<status, file, counts, results, retries, worker, req, faults, lost>>

-----------------------------------------------------------------------------
WorkerStep(w) ==
  \/ \E j \in Jobs, k \in Stamps : Fetch(w, j, k)
  \/ Start(w)
  \/ CheckRow(w)
  \/ ObserveCancel(w)
  \/ \E out \in Outcomes : HandleRow(w, out)
  \/ SaveRow(w)
  \/ SaveRowDuplicate(w)
  \/ Count(w)
  \/ Finish(w)
  \/ Ack(w)
  \/ CatchWrite(w)
  \/ Rethrow(w)

\* What a request does once it has begun.
ReqStep(r) ==
  \/ CreateInsert(r)
  \/ Enqueue(r)
  \/ CancelRemove(r)
  \/ CancelWrite(r)
  \/ RetryReset(r)

ReqBegin(r) ==
  \/ \E f \in Files : CreateCheck(r, f)
  \/ \E j \in Jobs : CancelRead(r, j)
  \/ \E j \in Jobs : RetryRead(r, j)

FaultStep ==
  \/ \E r \in Reqs : RequestFails(r)
  \/ \E r \in Reqs : RemoveFails(r)
  \/ \E w \in Workers : StepFails(w)
  \/ \E w \in Workers : RecordFails(w)
  \/ Crash
  \/ \E w \in Workers : LoseLock(w)

Next ==
  \/ \E w \in Workers : WorkerStep(w)
  \/ \E r \in Reqs : ReqStep(r)
  \/ \E r \in Reqs : ReqBegin(r)
  \/ \E j \in Jobs, k \in Stamps : Stall(j, k)
  \/ FaultStep

Spec == Init /\ [][Next]_vars

\* BullMQ keeps polling for entries and for stalled locks, and a handler whose
\* awaits settle runs on; nothing makes a user send a request.
FairSpec ==
  /\ Spec
  /\ \A w \in Workers : WF_vars(WorkerStep(w))
  /\ \A r \in Reqs : WF_vars(ReqStep(r))
  /\ \A j \in Jobs, k \in Stamps : WF_vars(Stall(j, k))

-----------------------------------------------------------------------------
(* Properties *)

\* Without faults a PENDING job is never forgotten: its entry waits in the
\* queue, a slot has claimed it, the request that created or reset it is about
\* to add the entry, or the cancel that removed the entry is about to write.
\* About the order of the writes in create, cancel and retry.
PendingIsQueued ==
  faults = 0 => \A j \in Jobs : status[j] = "PENDING" =>
    \/ \E k \in Stamps : queue[j][k].state = "waiting"
    \/ \E w \in Workers : JobOf(w) = j /\ worker[w].pc = "claimed"
    \/ \E r \in Reqs : req[r].job = j /\ req[r].pc \in {"enqueue", "cancel"}

\* Without faults a PROCESSING job has a slot that will still write to it:
\* no path through process leaves the job PROCESSING behind, though cancel,
\* retry and a second attempt write the same row meanwhile.
ProcessingIsWorkedOn ==
  faults = 0 => \A j \in Jobs : status[j] = "PROCESSING" =>
    \E w \in Workers :
      JobOf(w) = j /\ worker[w].pc \in {"row", "handle", "save", "count", "catch"}

RowsWith(j, out) == Cardinality({i \in Rows : results[j][i] = out})

\* For a job never retried the counters shown to the user are those of the
\* recorded rows; they lag by at most the one row recorded last.
CountsMatchResults ==
  \A j \in Jobs : retries[j] = 0 =>
    /\ counts[j].ok <= RowsWith(j, "SUCCESS")
    /\ counts[j].err <= RowsWith(j, "ERROR")
    /\ counts[j].skip <= RowsWith(j, "SKIPPED")
    /\ NumRows - RowsWith(j, "none")
         <= counts[j].ok + counts[j].err + counts[j].skip + 1
    /\ status[j] = "COMPLETED" =>
         counts[j].ok + counts[j].err + counts[j].skip = NumRows

\* Slot s has recorded the first row of the file in its attempt.
PastFirst(s) ==
  \/ s.pc \in {"count", "ended"}
  \/ s.pc \in {"row", "handle"} /\ s.n > 0
  \/ s.pc = "save" /\ s.n > 1

\* Two slots may work on one job without a retry, when a lock expires under a
\* slot that runs on. The unique key on the rows then lets one of them go on: the
\* others throw at the first row they both handled, so that rows and counters of
\* the job have one writer.
OneSlotRecords ==
  \A v, w \in Workers :
    v # w /\ JobOf(v) = JobOf(w) /\ PastFirst(worker[v]) /\ PastFirst(worker[w])
      => retries[JobOf(w)] > 0

\* cancel says that a job already running is stopped by the worker once it
\* observes CANCELED: a canceled job stays canceled until it is retried.
CanceledStays ==
  [][\A j \in Jobs : status[j] = "CANCELED" /\ status'[j] # "CANCELED"
       => retries'[j] > retries[j]]_vars

\* What the pipeline promises its readers, whatever requests, slots and faults
\* do: see ImportRecord. It does not tell how often a job was retried.
Retried == {j \in Jobs : retries[j] > 0}

Record == INSTANCE ImportRecord WITH
            status <- status, results <- results, retried <- Retried

\* The pipeline implements that promise: each of its steps records a row in
\* order, changes the status as the record allows, or leaves the record alone.
RecordKept == Record!Spec

\* Every import comes to an end, unless a crash or a failed call comes in
\* between: a PENDING job whose entry was never added stays as it is.
ImportsEnd ==
  \A j \in Jobs : status[j] \in {"PENDING", "PROCESSING"}
    ~> status[j] \in {"COMPLETED", "FAILED", "CANCELED"} \/ faults > 0

\* With crashes and failed calls every entry still leaves the queue: attempts
\* and stalls are bounded, so no entry is retried for ever.
QueueDrains ==
  \A j \in Jobs, k \in Stamps : queue[j][k].state \in {"waiting", "active"}
    ~> queue[j][k].state \in {"none", "done", "dead"}
=============================================================================
