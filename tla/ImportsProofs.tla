--------------------------- MODULE ImportsProofs ---------------------------
(***************************************************************************)
(* Theorems about Imports, for every set of jobs, files, requests and      *)
(* worker slots and every bound.                                           *)
(***************************************************************************)
EXTENDS Imports, FiniteSetTheorems, TLAPS

-----------------------------------------------------------------------------
(* Types *)

BusyPc == {"claimed", "row", "handle", "save", "count", "ended", "catch", "rethrow"}

\* An entry that can still run has an attempt left.
TriesLeft ==
  \A j \in Jobs, k \in Stamps :
    queue[j][k].state \in {"waiting", "active"} => queue[j][k].tries < Attempts

\* A slot counts a row before it records it, and never beyond the last one.
LoopBounds ==
  \A w \in Workers :
    /\ worker[w].pc = "handle" => worker[w].n < NumRows
    /\ worker[w].pc \in {"save", "count"} => worker[w].n > 0
    /\ worker[w].pc = "save" => worker[w].out \in Outcome

\* A slot that is not idle holds an active entry, and no two slots hold the
\* same one, as long as their locks have not expired.
HeldEntries ==
  /\ \A w \in Workers : worker[w].pc # "idle" /\ w \notin lost =>
       queue[worker[w].job][worker[w].stamp].state = "active"
  /\ \A v, w \in Workers :
       /\ v # w /\ worker[v].pc # "idle" /\ worker[w].pc # "idle"
       /\ v \notin lost /\ w \notin lost
       /\ worker[v].job = worker[w].job
       => worker[v].stamp # worker[w].stamp

TInv == TypeOK /\ TriesLeft /\ LoopBounds /\ HeldEntries

\* What the records of TypeOK say about their fields.
LEMMA SlotType ==
  ASSUME NEW p \in BusyPc, NEW j \in Jobs, NEW k \in Stamps
  PROVE  Slot(p, j, k) \in BusySlot
  BY ConstantsAssumption DEF Slot, BusySlot, BusyPc, ZeroCounts, CountsType

LEMMA SlotMoves ==
  ASSUME NEW s \in BusySlot, NEW p \in BusyPc
  PROVE  /\ [s EXCEPT !.pc = p] \in BusySlot
         /\ [s EXCEPT !.pc = p].pc = p
         /\ [s EXCEPT !.pc = p].job = s.job
         /\ [s EXCEPT !.pc = p].stamp = s.stamp
         /\ [s EXCEPT !.pc = p].n = s.n
  BY DEF BusySlot, BusyPc

LEMMA SlotFields ==
  ASSUME NEW s \in BusySlot
  PROVE  /\ s.pc \in BusyPc /\ s.pc # "idle"
         /\ s.job \in Jobs /\ s.stamp \in Stamps /\ s.n \in 0 .. NumRows
         /\ s.local \in CountsType /\ s.out \in Outcome \cup {"none"}
  BY DEF BusySlot, BusyPc

LEMMA SlotBusy ==
  ASSUME TypeOK, NEW w \in Workers, worker[w].pc # "idle"
  PROVE  worker[w] \in BusySlot
  BY DEF TypeOK, IdleWorker, Slot

LEMMA ReqFields ==
  ASSUME TypeOK, NEW r \in Reqs
  PROVE  /\ req[r].pc = "insert" => req[r].file \in Files
         /\ req[r].pc \in {"enqueue", "remove", "cancel", "reset"}
              => req[r].job \in Jobs /\ req[r].stamp \in Stamps
  BY DEF TypeOK, BusyReq, IdleReq, Request

LEMMA ReqType ==
  ASSUME NEW p \in {"enqueue", "remove", "cancel", "reset"}, NEW j \in Jobs,
         NEW k \in Stamps
  PROVE  Request(p, j, "none", k) \in BusyReq
  BY DEF BusyReq, Request

LEMMA EntryMoves ==
  ASSUME NEW e \in EntryType, NEW s \in EntryState
  PROVE  [e EXCEPT !.state = s] \in EntryType
  BY DEF EntryType

LEMMA NewEntryType ==
  ASSUME NEW s \in EntryState
  PROVE  Entry(s, 0, 0) \in EntryType
  BY ConstantsAssumption DEF Entry, EntryType

LEMMA ZeroStamp == 0 \in Stamps
  BY ConstantsAssumption DEF Stamps

LEMMA TypeInit == Init => TInv
  <1> SUFFICES ASSUME Init PROVE TInv
    OBVIOUS
  <1>1. NoEntry \in EntryType
    BY NewEntryType DEF NoEntry, EntryState
  <1>2. ZeroCounts \in CountsType
    BY DEF ZeroCounts, CountsType
  <1>3. TypeOK
    BY <1>1, <1>2, ZeroStamp, ConstantsAssumption DEF Init, TypeOK
  <1>4. TriesLeft
    BY DEF Init, TriesLeft, NoEntry, Entry
  <1>5. LoopBounds /\ HeldEntries
    BY DEF Init, LoopBounds, HeldEntries, IdleWorker, Slot
  <1> QED
    BY <1>3, <1>4, <1>5 DEF TInv

\* A step of a slot inside process that leaves the queue alone.
LEMMA SlotStepType ==
  ASSUME TInv, NEW w \in Workers, worker[w].pc # "idle", UNCHANGED <<queue, lost>>,
         NEW s \in BusySlot, worker' = [worker EXCEPT ![w] = s],
         s.job = worker[w].job, s.stamp = worker[w].stamp,
         s.pc = "handle" => s.n < NumRows,
         s.pc \in {"save", "count"} => s.n > 0,
         s.pc = "save" => s.out \in Outcome
  PROVE  /\ worker' \in [Workers -> BusySlot \cup {IdleWorker}]
         /\ TriesLeft' /\ LoopBounds' /\ HeldEntries'
  <1>1. worker' \in [Workers -> BusySlot \cup {IdleWorker}]
    BY DEF TInv, TypeOK
  <1>2. TriesLeft'
    BY DEF TInv, TriesLeft
  <1>3. LoopBounds'
    BY DEF TInv, TypeOK, LoopBounds
  <1>4. s.pc # "idle"
    BY SlotFields
  <1>5. HeldEntries'
    BY <1>4 DEF TInv, TypeOK, HeldEntries
  <1> QED
    BY <1>1, <1>2, <1>3, <1>5

\* A slot lets go of its entry, which leaves the active state.
LEMMA ReleaseType ==
  ASSUME TInv, NEW w \in Workers, worker[w].pc # "idle", w \notin lost,
         NEW e \in EntryType, e.state # "active",
         e.state = "waiting" => e.tries < Attempts,
         worker' = [worker EXCEPT ![w] = IdleWorker], lost' = lost \ {w},
         queue' = [queue EXCEPT ![worker[w].job][worker[w].stamp] = e]
  PROVE  /\ worker' \in [Workers -> BusySlot \cup {IdleWorker}]
         /\ queue' \in [Jobs -> [Stamps -> EntryType]]
         /\ TriesLeft' /\ LoopBounds' /\ HeldEntries'
  <1>1. worker[w].job \in Jobs /\ worker[w].stamp \in Stamps
    BY SlotBusy, SlotFields DEF TInv
  <1>2. worker' \in [Workers -> BusySlot \cup {IdleWorker}]
    BY DEF TInv, TypeOK
  <1>3. queue' \in [Jobs -> [Stamps -> EntryType]]
    BY <1>1 DEF TInv, TypeOK
  <1>4. TriesLeft'
    BY <1>1 DEF TInv, TypeOK, TriesLeft
  <1>5. IdleWorker.pc = "idle"
    BY DEF IdleWorker, Slot
  <1>6. LoopBounds'
    BY <1>5 DEF TInv, TypeOK, LoopBounds
  <1>7. \A v \in Workers : worker'[v].pc # "idle" =>
          v # w /\ worker'[v] = worker[v] /\ worker[v].job \in Jobs
            /\ worker[v].stamp \in Stamps
    BY <1>5, SlotBusy, SlotFields DEF TInv, TypeOK
  <1>8. HeldEntries'
    BY <1>1, <1>7 DEF TInv, TypeOK, HeldEntries
  <1> QED
    BY <1>2, <1>3, <1>4, <1>6, <1>8

\* A slot without the lock of its entry ends.
LEMMA LostReleaseType ==
  ASSUME TInv, NEW w \in Workers, worker[w].pc # "idle", w \in lost,
         worker' = [worker EXCEPT ![w] = IdleWorker], lost' = lost \ {w}, UNCHANGED queue
  PROVE  /\ worker' \in [Workers -> BusySlot \cup {IdleWorker}]
         /\ queue' \in [Jobs -> [Stamps -> EntryType]]
         /\ TriesLeft' /\ LoopBounds' /\ HeldEntries'
  <1>1. worker' \in [Workers -> BusySlot \cup {IdleWorker}] /\ queue' \in [Jobs -> [Stamps -> EntryType]]
    BY DEF TInv, TypeOK
  <1>2. TriesLeft'
    BY DEF TInv, TriesLeft
  <1>3. IdleWorker.pc = "idle"
    BY DEF IdleWorker, Slot
  <1>4. \A v \in Workers : worker'[v].pc # "idle" => v # w /\ worker'[v] = worker[v]
    BY <1>3 DEF TInv, TypeOK
  <1>5. LoopBounds'
    BY <1>3 DEF TInv, TypeOK, LoopBounds
  <1>6. HeldEntries'
    BY <1>4 DEF TInv, HeldEntries
  <1> QED
    BY <1>1, <1>2, <1>5, <1>6

\* An entry no slot holds is added, removed or re-queued.
LEMMA EntryStepType ==
  ASSUME TInv, NEW j \in Jobs, NEW k \in Stamps, UNCHANGED <<worker, lost>>,
         NEW e \in EntryType, e.state \in {"waiting", "active"} => e.tries < Attempts,
         queue' = [queue EXCEPT ![j][k] = e],
         \A w \in Workers : worker[w].pc # "idle" /\ w \notin lost =>
           ~ (worker[w].job = j /\ worker[w].stamp = k)
  PROVE  /\ queue' \in [Jobs -> [Stamps -> EntryType]]
         /\ TriesLeft' /\ LoopBounds' /\ HeldEntries'
  <1>1. queue' \in [Jobs -> [Stamps -> EntryType]]
    BY DEF TInv, TypeOK
  <1>2. TriesLeft'
    BY DEF TInv, TypeOK, TriesLeft
  <1>3. LoopBounds'
    BY DEF TInv, LoopBounds
  <1>4. \A w \in Workers : worker[w].pc # "idle" =>
          worker[w].job \in Jobs /\ worker[w].stamp \in Stamps
    BY SlotBusy, SlotFields DEF TInv
  <1>5. HeldEntries'
    BY <1>4 DEF TInv, TypeOK, HeldEntries
  <1> QED
    BY <1>1, <1>2, <1>3, <1>5

\* A step that touches neither the queue nor the slots.
LEMMA OtherStepType ==
  ASSUME TInv, UNCHANGED <<queue, worker, lost>>
  PROVE  TriesLeft' /\ LoopBounds' /\ HeldEntries'
  BY DEF TInv, TriesLeft, LoopBounds, HeldEntries

LEMMA TypeStep == TInv /\ [Next]_vars => TInv'
  <1> SUFFICES ASSUME TInv, [Next]_vars PROVE TInv'
    OBVIOUS
  <1>t. TypeOK
    BY DEF TInv
  <1>1. ASSUME NEW w \in Workers, NEW j \in Jobs, NEW k \in Stamps, Fetch(w, j, k)
        PROVE  TInv'
    <2>0. queue[j][k] \in EntryType /\ "active" \in EntryState
      BY <1>t DEF TypeOK, EntryState
    <2>1. [queue[j][k] EXCEPT !.state = "active"] \in EntryType
      BY <2>0, EntryMoves
    <2>2. Slot("claimed", j, k) \in BusySlot
      BY SlotType DEF BusyPc
    <2>3. TypeOK'
      BY <1>1, <1>t, <2>1, <2>2 DEF TypeOK, Fetch
    <2>4. TriesLeft'
      <3>1. queue'[j][k] = [queue[j][k] EXCEPT !.state = "active"]
        BY <1>1, <1>t DEF TypeOK, Fetch
      <3>2. queue'[j][k].tries = queue[j][k].tries /\ queue[j][k].tries < Attempts
        BY <1>1, <1>t, <3>1 DEF TInv, TriesLeft, TypeOK, EntryType, Fetch
      <3>3. \A i \in Jobs, l \in Stamps :
              ~ (i = j /\ l = k) => queue'[i][l] = queue[i][l]
        BY <1>1, <1>t DEF TypeOK, Fetch
      <3> QED
        BY <3>2, <3>3 DEF TInv, TriesLeft
    <2>5. LoopBounds'
      BY <1>1 DEF TInv, TypeOK, LoopBounds, Fetch, Slot
    <2>6. \A v \in Workers : worker[v].pc # "idle" /\ v \notin lost =>
            /\ worker[v].job \in Jobs /\ worker[v].stamp \in Stamps
            /\ ~ (worker[v].job = j /\ worker[v].stamp = k)
      BY <1>1, SlotBusy, SlotFields DEF TInv, HeldEntries, Fetch
    <2>7. /\ worker'[w].job = j /\ worker'[w].stamp = k
          /\ \A v \in Workers : v # w => worker'[v] = worker[v]
          /\ UNCHANGED lost
      BY <1>1, <1>t DEF TypeOK, Fetch, Slot
    <2>8. queue'[j][k].state = "active"
      BY <1>1, <1>t DEF TypeOK, Fetch, EntryType
    <2>9. \A i \in Jobs, l \in Stamps : ~ (i = j /\ l = k) => queue'[i][l] = queue[i][l]
      BY <1>1, <1>t DEF TypeOK, Fetch
    <2>10. HeldEntries'
      BY <2>6, <2>7, <2>8, <2>9 DEF TInv, HeldEntries
    <2> QED
      BY <2>3, <2>4, <2>5, <2>10 DEF TInv
  <1>2. ASSUME NEW w \in Workers, Start(w) PROVE TInv'
    <2>1. worker[w] \in BusySlot
      BY <1>2, <1>t, SlotBusy DEF Start
    <2>2. /\ [worker[w] EXCEPT !.pc = "row"] \in BusySlot
          /\ [worker[w] EXCEPT !.pc = "row"].pc = "row"
          /\ [worker[w] EXCEPT !.pc = "row"].job = worker[w].job
          /\ [worker[w] EXCEPT !.pc = "row"].stamp = worker[w].stamp
      BY <2>1, SlotMoves DEF BusyPc
    <2>3. JobOf(w) \in Jobs
      BY <2>1, SlotFields DEF JobOf
    <2>4. status' \in [Jobs -> ImportStatus \cup {"absent"}]
      BY <1>2, <1>t, <2>3 DEF TypeOK, Start, ImportStatus
    <2> QED
      BY <1>2, <1>t, <2>2, <2>4, SlotStepType DEF TInv, TypeOK, Start
  <1>3. ASSUME NEW w \in Workers, CheckRow(w) PROVE TInv'
    <2>1. worker[w] \in BusySlot
      BY <1>3, <1>t, SlotBusy DEF CheckRow
    <2>2. /\ [worker[w] EXCEPT !.pc = "handle"] \in BusySlot
          /\ [worker[w] EXCEPT !.pc = "handle"].pc = "handle"
          /\ [worker[w] EXCEPT !.pc = "handle"].job = worker[w].job
          /\ [worker[w] EXCEPT !.pc = "handle"].stamp = worker[w].stamp
          /\ [worker[w] EXCEPT !.pc = "handle"].n = worker[w].n
      BY <2>1, SlotMoves DEF BusyPc
    <2> QED
      BY <1>3, <1>t, <2>2, SlotStepType DEF TInv, TypeOK, CheckRow
  <1>4. ASSUME NEW w \in Workers, ObserveCancel(w) PROVE TInv'
    <2> DEFINE e == [queue[worker[w].job][worker[w].stamp] EXCEPT !.state = "done"]
    <2>1. worker[w].job \in Jobs /\ worker[w].stamp \in Stamps /\ worker[w].pc # "idle"
      BY <1>4, <1>t, SlotBusy, SlotFields DEF ObserveCancel
    <2>2. queue[worker[w].job][worker[w].stamp] \in EntryType
      BY <1>t, <2>1 DEF TypeOK
    <2>3. e \in EntryType /\ e.state = "done"
      BY <2>2, EntryMoves DEF EntryType, EntryState
    <2>4. /\ worker' = [worker EXCEPT ![w] = IdleWorker] /\ lost' = lost \ {w}
          /\ w \in lost => UNCHANGED queue
          /\ w \notin lost => queue' = [queue EXCEPT ![worker[w].job][worker[w].stamp] = e]
      BY <1>4 DEF ObserveCancel, Settle, Done, JobOf
    <2> HIDE DEF e
    <2>5. /\ worker' \in [Workers -> BusySlot \cup {IdleWorker}]
          /\ queue' \in [Jobs -> [Stamps -> EntryType]]
          /\ TriesLeft' /\ LoopBounds' /\ HeldEntries'
      BY <2>1, <2>3, <2>4, ReleaseType, LostReleaseType
    <2> QED
      BY <1>4, <1>t, <2>4, <2>5 DEF TInv, TypeOK, ObserveCancel
  <1>5. ASSUME NEW w \in Workers, NEW out \in Outcomes, HandleRow(w, out) PROVE TInv'
    <2> DEFINE s == [worker[w] EXCEPT !.pc = "save", !.n = @ + 1, !.out = out,
                                      !.local = Tally(@, out)]
    <2>1. worker[w] \in BusySlot
      BY <1>5, <1>t, SlotBusy DEF HandleRow
    <2>2. worker[w].local \in CountsType /\ worker[w].n \in 0 .. NumRows
      BY <2>1, SlotFields
    <2>3. Tally(worker[w].local, out) \in CountsType
      BY <2>2 DEF Tally, CountsType
    <2>4. worker[w].n + 1 \in 0 .. NumRows /\ worker[w].n + 1 > 0
      BY <1>5, <2>2, ConstantsAssumption DEF TInv, LoopBounds, HandleRow
    <2>5. out \in Outcome
      BY ConstantsAssumption DEF Outcome
    <2>6. /\ s \in BusySlot
          /\ s.pc = "save" /\ s.job = worker[w].job /\ s.stamp = worker[w].stamp
          /\ s.n = worker[w].n + 1 /\ s.out = out
      BY <2>1, <2>3, <2>4, <2>5 DEF BusySlot
    <2>7. worker' = [worker EXCEPT ![w] = s] /\ worker[w].pc # "idle"
      BY <1>5 DEF HandleRow
    <2> HIDE DEF s
    <2>8. /\ worker' \in [Workers -> BusySlot \cup {IdleWorker}]
          /\ TriesLeft' /\ LoopBounds' /\ HeldEntries'
      <3>1. UNCHANGED <<queue, lost>>
        BY <1>5 DEF HandleRow
      <3> QED
        BY <2>4, <2>5, <2>6, <2>7, <3>1, SlotStepType
    <2> QED
      BY <1>5, <1>t, <2>8 DEF TInv, TypeOK, HandleRow
  <1>6. ASSUME NEW w \in Workers, SaveRow(w) PROVE TInv'
    <2>1. worker[w] \in BusySlot
      BY <1>6, <1>t, SlotBusy DEF SaveRow
    <2>2. /\ [worker[w] EXCEPT !.pc = "count"] \in BusySlot
          /\ [worker[w] EXCEPT !.pc = "count"].pc = "count"
          /\ [worker[w] EXCEPT !.pc = "count"].job = worker[w].job
          /\ [worker[w] EXCEPT !.pc = "count"].stamp = worker[w].stamp
          /\ [worker[w] EXCEPT !.pc = "count"].n = worker[w].n
      BY <2>1, SlotMoves DEF BusyPc
    <2>3. JobOf(w) \in Jobs /\ worker[w].n > 0 /\ worker[w].out \in Outcome
      BY <1>6, <2>1, SlotFields DEF TInv, LoopBounds, SaveRow, JobOf
    <2>4. results' \in [Jobs -> [Rows -> Outcome \cup {"none"}]]
      BY <1>6, <1>t, <2>3 DEF TypeOK, SaveRow
    <2> QED
      BY <1>6, <1>t, <2>2, <2>3, <2>4, SlotStepType DEF TInv, TypeOK, SaveRow
  <1>8. ASSUME NEW w \in Workers, Count(w) PROVE TInv'
    <2> DEFINE s == [worker[w] EXCEPT !.pc = "row", !.out = "none"]
    <2>1. worker[w] \in BusySlot
      BY <1>8, <1>t, SlotBusy DEF Count
    <2>2. /\ s \in BusySlot
          /\ s.pc = "row" /\ s.job = worker[w].job /\ s.stamp = worker[w].stamp
      BY <2>1 DEF BusySlot
    <2>3. JobOf(w) \in Jobs /\ worker[w].local \in CountsType
      BY <2>1, SlotFields DEF JobOf
    <2>4. counts' \in [Jobs -> CountsType]
      BY <1>8, <1>t, <2>3 DEF TypeOK, Count
    <2>5. worker' = [worker EXCEPT ![w] = s] /\ worker[w].pc # "idle"
      BY <1>8 DEF Count
    <2> QED
      BY <1>8, <1>t, <2>2, <2>4, <2>5, SlotStepType DEF TInv, TypeOK, Count
  <1>7. ASSUME NEW w \in Workers, SaveRowDuplicate(w) PROVE TInv'
    <2> DEFINE s == Slot("catch", worker[w].job, worker[w].stamp)
    <2>1. worker[w] \in BusySlot /\ worker[w].pc # "idle"
      BY <1>7, <1>t, SlotBusy DEF SaveRowDuplicate
    <2>2. JobOf(w) \in Jobs /\ worker[w].local \in CountsType
      BY <2>1, SlotFields DEF JobOf
    <2>3. /\ s \in BusySlot
          /\ s.pc = "catch" /\ s.job = worker[w].job /\ s.stamp = worker[w].stamp
      BY <2>1, SlotType, SlotFields DEF Slot, BusyPc
    <2>4. worker' = [worker EXCEPT ![w] = s]
      BY <1>7 DEF SaveRowDuplicate, Leave
    <2>5. /\ status' \in [Jobs -> ImportStatus \cup {"absent"}]
          /\ counts' \in [Jobs -> CountsType]
          /\ faults' \in 0 .. MaxFaults
      BY <1>7, <1>t, <2>2, ConstantsAssumption DEF TypeOK, SaveRowDuplicate, ImportStatus
    <2> QED
      BY <1>7, <1>t, <2>1, <2>3, <2>4, <2>5, SlotStepType DEF TInv, TypeOK, SaveRowDuplicate
  <1>9. ASSUME NEW w \in Workers, Finish(w) PROVE TInv'
    <2> DEFINE s == Slot("ended", worker[w].job, worker[w].stamp)
    <2>1. worker[w] \in BusySlot /\ worker[w].pc # "idle"
      BY <1>9, <1>t, SlotBusy DEF Finish
    <2>2. JobOf(w) \in Jobs /\ worker[w].local \in CountsType
      BY <2>1, SlotFields DEF JobOf
    <2>3. /\ s \in BusySlot
          /\ s.pc = "ended" /\ s.job = worker[w].job /\ s.stamp = worker[w].stamp
      BY <2>1, SlotType, SlotFields DEF Slot, BusyPc
    <2>4. worker' = [worker EXCEPT ![w] = s]
      BY <1>9 DEF Finish, Leave
    <2>5. /\ status' \in [Jobs -> ImportStatus \cup {"absent"}]
          /\ counts' \in [Jobs -> CountsType]
          /\ faults' \in 0 .. MaxFaults
      BY <1>9, <1>t, <2>2, ConstantsAssumption DEF TypeOK, Finish, ImportStatus, FinalStatus
    <2> QED
      BY <1>9, <1>t, <2>1, <2>3, <2>4, <2>5, SlotStepType DEF TInv, TypeOK, Finish
  <1>11. ASSUME NEW w \in Workers, CatchWrite(w) PROVE TInv'
    <2> DEFINE s == Slot("rethrow", worker[w].job, worker[w].stamp)
    <2>1. worker[w] \in BusySlot /\ worker[w].pc # "idle"
      BY <1>11, <1>t, SlotBusy DEF CatchWrite
    <2>2. JobOf(w) \in Jobs /\ worker[w].local \in CountsType
      BY <2>1, SlotFields DEF JobOf
    <2>3. /\ s \in BusySlot
          /\ s.pc = "rethrow" /\ s.job = worker[w].job /\ s.stamp = worker[w].stamp
      BY <2>1, SlotType, SlotFields DEF Slot, BusyPc
    <2>4. worker' = [worker EXCEPT ![w] = s]
      BY <1>11 DEF CatchWrite, Leave
    <2>5. /\ status' \in [Jobs -> ImportStatus \cup {"absent"}]
          /\ counts' \in [Jobs -> CountsType]
          /\ faults' \in 0 .. MaxFaults
      BY <1>11, <1>t, <2>2, ConstantsAssumption DEF TypeOK, CatchWrite, ImportStatus
    <2> QED
      BY <1>11, <1>t, <2>1, <2>3, <2>4, <2>5, SlotStepType DEF TInv, TypeOK, CatchWrite
  <1>10. ASSUME NEW w \in Workers, Ack(w) PROVE TInv'
    <2> DEFINE e == [queue[worker[w].job][worker[w].stamp] EXCEPT !.state = "done"]
    <2>1. worker[w].job \in Jobs /\ worker[w].stamp \in Stamps /\ worker[w].pc # "idle"
      BY <1>10, <1>t, SlotBusy, SlotFields DEF Ack
    <2>2. queue[worker[w].job][worker[w].stamp] \in EntryType
      BY <1>t, <2>1 DEF TypeOK
    <2>3. e \in EntryType /\ e.state = "done"
      BY <2>2, EntryMoves DEF EntryType, EntryState
    <2>4. /\ worker' = [worker EXCEPT ![w] = IdleWorker] /\ lost' = lost \ {w}
          /\ w \in lost => UNCHANGED queue
          /\ w \notin lost => queue' = [queue EXCEPT ![worker[w].job][worker[w].stamp] = e]
      BY <1>10 DEF Ack, Settle, Done, JobOf
    <2> HIDE DEF e
    <2>5. /\ worker' \in [Workers -> BusySlot \cup {IdleWorker}]
          /\ queue' \in [Jobs -> [Stamps -> EntryType]]
          /\ TriesLeft' /\ LoopBounds' /\ HeldEntries'
      BY <2>1, <2>3, <2>4, ReleaseType, LostReleaseType
    <2> QED
      BY <1>10, <1>t, <2>4, <2>5 DEF TInv, TypeOK, Ack
  <1>12. ASSUME NEW w \in Workers, Rethrow(w) PROVE TInv'
    <2> DEFINE f == queue[worker[w].job][worker[w].stamp]
               e == [f EXCEPT !.tries = @ + 1,
                       !.state = IF f.tries + 1 < Attempts THEN "waiting" ELSE "dead"]
    <2>1. worker[w].job \in Jobs /\ worker[w].stamp \in Stamps /\ worker[w].pc # "idle"
      BY <1>12, <1>t, SlotBusy, SlotFields DEF Rethrow
    <2>2. /\ worker' = [worker EXCEPT ![w] = IdleWorker] /\ lost' = lost \ {w}
          /\ w \in lost => UNCHANGED queue
          /\ w \notin lost => queue' = [queue EXCEPT ![worker[w].job][worker[w].stamp] = e]
      BY <1>12 DEF Rethrow, Settle, FailAttempt, JobOf
    <2>3. ASSUME w \notin lost
          PROVE  e \in EntryType /\ e.state # "active" /\ (e.state = "waiting" => e.tries < Attempts)
      <3>1. f \in EntryType /\ f.state = "active" /\ f.tries < Attempts
        BY <1>t, <2>1, <2>3 DEF TInv, TypeOK, HeldEntries, TriesLeft
      <3>2. f.tries + 1 \in 0 .. Attempts
        BY <3>1, ConstantsAssumption DEF EntryType
      <3>3. /\ e \in EntryType /\ e.tries = f.tries + 1
            /\ e.state = IF f.tries + 1 < Attempts THEN "waiting" ELSE "dead"
        BY <3>1, <3>2 DEF EntryType, EntryState
      <3> QED
        BY <3>3
    <2> HIDE DEF e, f
    <2>4. /\ worker' \in [Workers -> BusySlot \cup {IdleWorker}]
          /\ queue' \in [Jobs -> [Stamps -> EntryType]]
          /\ TriesLeft' /\ LoopBounds' /\ HeldEntries'
      BY <2>1, <2>2, <2>3, ReleaseType, LostReleaseType
    <2> QED
      BY <1>12, <1>t, <2>2, <2>4 DEF TInv, TypeOK, Rethrow
  <1>13. ASSUME NEW r \in Reqs, CreateInsert(r) PROVE TInv'
    <2>1. PICK j \in Jobs :
            /\ status' = [status EXCEPT ![j] = "PENDING"]
            /\ file' = [file EXCEPT ![j] = req[r].file]
            /\ req' = [req EXCEPT ![r] = Request("enqueue", j, "none", 0)]
      BY <1>13 DEF CreateInsert
    <2>2. req[r].file \in Files /\ Request("enqueue", j, "none", 0) \in BusyReq
      BY <1>13, <1>t, ReqFields, ReqType, ZeroStamp DEF CreateInsert
    <2>3. /\ status' \in [Jobs -> ImportStatus \cup {"absent"}]
          /\ file' \in [Jobs -> Files \cup {"none"}]
          /\ req' \in [Reqs -> BusyReq \cup {IdleReq}]
      BY <1>t, <2>1, <2>2 DEF TypeOK, ImportStatus
    <2> QED
      BY <1>13, <1>t, <2>3, OtherStepType DEF TInv, TypeOK, CreateInsert
  <1>14. ASSUME NEW r \in Reqs, Enqueue(r) PROVE TInv'
    <2> DEFINE j == req[r].job
    <2>0. PICK k \in EntryIds(r) : AddEntry(j, k)
      BY <1>14 DEF Enqueue
    <2>1. j \in Jobs /\ k \in Stamps
      BY <1>14, <1>t, <2>0, ReqFields, ConstantsAssumption DEF Enqueue, EntryIds, Stamps
    <2>2. req' \in [Reqs -> BusyReq \cup {IdleReq}]
      BY <1>14, <1>t DEF TypeOK, Enqueue
    <2>3. CASE queue[j][k].state = "none"
      <3> DEFINE e == Entry("waiting", 0, 0)
      <3>1. e \in EntryType
        BY NewEntryType DEF EntryState
      <3>2. e.state \in {"waiting", "active"} => e.tries < Attempts
        BY ConstantsAssumption DEF Entry
      <3>3. queue' = [queue EXCEPT ![j][k] = e]
        BY <2>0, <2>3 DEF AddEntry
      <3>4. \A w \in Workers : worker[w].pc # "idle" /\ w \notin lost =>
              ~ (worker[w].job = j /\ worker[w].stamp = k)
        BY <2>3 DEF TInv, HeldEntries
      <3>5. UNCHANGED <<worker, lost>>
        BY <1>14 DEF Enqueue
      <3> HIDE DEF e, j
      <3>6. /\ queue' \in [Jobs -> [Stamps -> EntryType]]
            /\ TriesLeft' /\ LoopBounds' /\ HeldEntries'
        BY <2>1, <3>1, <3>2, <3>3, <3>4, <3>5, EntryStepType
      <3> QED
        BY <1>14, <1>t, <2>2, <3>6 DEF TInv, TypeOK, Enqueue
    <2>4. CASE queue[j][k].state # "none"
      BY <1>14, <1>t, <2>0, <2>2, <2>4, OtherStepType DEF TInv, TypeOK, Enqueue, AddEntry
    <2> QED
      BY <2>3, <2>4
  <1>16. ASSUME NEW r \in Reqs, CancelRemove(r) PROVE TInv'
    <2> DEFINE j == req[r].job
    <2>1. j \in Jobs
      BY <1>16, <1>t, ReqFields DEF CancelRemove
    <2>2. Request("cancel", j, "none", 0) \in BusyReq
      BY <2>1, ReqType, ZeroStamp
    <2>3. req' \in [Reqs -> BusyReq \cup {IdleReq}]
      BY <1>16, <1>t, <2>2 DEF TypeOK, CancelRemove
    <2>4. CASE ~ Held(j, 0) /\ queue' = [queue EXCEPT ![j][0] = NoEntry]
      <3>1. /\ NoEntry \in EntryType
            /\ NoEntry.state \in {"waiting", "active"} => NoEntry.tries < Attempts
        BY NewEntryType DEF NoEntry, EntryState, Entry
      <3>2. queue' = [queue EXCEPT ![j][0] = NoEntry] /\ UNCHANGED <<worker, lost>>
        BY <1>16, <2>4 DEF CancelRemove
      <3>3. \A w \in Workers : worker[w].pc # "idle" /\ w \notin lost =>
              ~ (worker[w].job = j /\ worker[w].stamp = 0)
        BY <2>4 DEF Held
      <3> HIDE DEF j
      <3>4. /\ queue' \in [Jobs -> [Stamps -> EntryType]]
            /\ TriesLeft' /\ LoopBounds' /\ HeldEntries'
        BY <2>1, <3>1, <3>2, <3>3, ZeroStamp, EntryStepType
      <3> QED
        BY <1>16, <1>t, <2>3, <3>4 DEF TInv, TypeOK, CancelRemove
    <2>5. CASE UNCHANGED queue
      BY <1>16, <1>t, <2>3, <2>5, OtherStepType DEF TInv, TypeOK, CancelRemove
    <2> QED
      BY <1>16, <2>4, <2>5 DEF CancelRemove
  <1>17. ASSUME NEW r \in Reqs, CancelWrite(r) PROVE TInv'
    <2>1. req[r].job \in Jobs
      BY <1>17, <1>t, ReqFields DEF CancelWrite
    <2>2. /\ req' \in [Reqs -> BusyReq \cup {IdleReq}]
          /\ status' \in [Jobs -> ImportStatus \cup {"absent"}]
      BY <1>17, <1>t, <2>1 DEF TypeOK, CancelWrite, ImportStatus
    <2> QED
      BY <1>17, <1>t, <2>2, OtherStepType DEF TInv, TypeOK, CancelWrite
  <1>18. ASSUME NEW r \in Reqs, RetryReset(r) PROVE TInv'
    <2> DEFINE j == req[r].job
    <2>1. j \in Jobs
      BY <1>18, <1>t, ReqFields DEF RetryReset
    <2>2. retries[j] + 1 \in Stamps
      BY <1>18, <1>t, <2>1, ConstantsAssumption DEF TypeOK, RetryReset, Stamps
    <2>3. Request("enqueue", j, "none", retries[j] + 1) \in BusyReq
      BY <2>1, <2>2, ReqType
    <2>4. ZeroCounts \in CountsType
      BY DEF ZeroCounts, CountsType
    <2>5. /\ req' \in [Reqs -> BusyReq \cup {IdleReq}]
          /\ status' \in [Jobs -> ImportStatus \cup {"absent"}]
          /\ counts' \in [Jobs -> CountsType]
          /\ results' \in [Jobs -> [Rows -> Outcome \cup {"none"}]]
          /\ retries' \in [Jobs -> Stamps]
      BY <1>18, <1>t, <2>1, <2>2, <2>3, <2>4 DEF TypeOK, RetryReset, ImportStatus
    <2> QED
      BY <1>18, <1>t, <2>5, OtherStepType DEF TInv, TypeOK, RetryReset
  <1>19. ASSUME NEW r \in Reqs, NEW f \in Files, CreateCheck(r, f) PROVE TInv'
    <2>1. Request("insert", "none", f, 0) \in BusyReq
      BY DEF Request, BusyReq
    <2>2. req' \in [Reqs -> BusyReq \cup {IdleReq}]
      BY <1>19, <1>t, <2>1 DEF TypeOK, CreateCheck
    <2> QED
      BY <1>19, <1>t, <2>2, OtherStepType DEF TInv, TypeOK, CreateCheck
  <1>20. ASSUME NEW r \in Reqs, NEW j \in Jobs, CancelRead(r, j) \/ RetryRead(r, j)
         PROVE  TInv'
    <2>1. /\ Request("remove", j, "none", 0) \in BusyReq
          /\ Request("reset", j, "none", 0) \in BusyReq
      BY ReqType, ZeroStamp
    <2>2. req' \in [Reqs -> BusyReq \cup {IdleReq}]
      BY <1>20, <1>t, <2>1 DEF TypeOK, CancelRead, RetryRead
    <2> QED
      BY <1>20, <1>t, <2>2, OtherStepType DEF TInv, TypeOK, CancelRead, RetryRead
  <1>21. ASSUME NEW j \in Jobs, NEW k \in Stamps, Stall(j, k) PROVE TInv'
    <2> DEFINE e == IF queue[j][k].stalls < MaxStalls
                      THEN [queue[j][k] EXCEPT !.state = "waiting", !.stalls = @ + 1]
                      ELSE [queue[j][k] EXCEPT !.state = "dead"]
    <2>1. /\ queue[j][k] \in EntryType
          /\ queue[j][k].state = "active" /\ queue[j][k].tries < Attempts
      BY <1>21, <1>t DEF TInv, TypeOK, TriesLeft, Stall
    <2>2. e \in EntryType /\ e.tries = queue[j][k].tries
      <3>1. CASE queue[j][k].stalls < MaxStalls
        <4>1. queue[j][k].stalls + 1 \in 0 .. MaxStalls
          BY <2>1, <3>1, ConstantsAssumption DEF EntryType
        <4>2. e = [queue[j][k] EXCEPT !.state = "waiting", !.stalls = @ + 1]
          BY <3>1
        <4> HIDE DEF e
        <4> QED
          BY <2>1, <4>1, <4>2 DEF EntryType, EntryState
      <3>2. CASE ~ (queue[j][k].stalls < MaxStalls)
        <4>1. e = [queue[j][k] EXCEPT !.state = "dead"]
          BY <3>2
        <4> HIDE DEF e
        <4> QED
          BY <2>1, <4>1 DEF EntryType, EntryState
      <3> QED
        BY <3>1, <3>2
    <2>3. queue' = [queue EXCEPT ![j][k] = e] /\ UNCHANGED <<worker, lost>>
      BY <1>21 DEF Stall
    <2>4. \A w \in Workers : worker[w].pc # "idle" /\ w \notin lost =>
            ~ (worker[w].job = j /\ worker[w].stamp = k)
      BY <1>21 DEF Stall, Held
    <2>6. e \in EntryType /\ (e.state \in {"waiting", "active"} => e.tries < Attempts)
      BY <2>1, <2>2
    <2> HIDE DEF e
    <2>5. /\ queue' \in [Jobs -> [Stamps -> EntryType]]
          /\ TriesLeft' /\ LoopBounds' /\ HeldEntries'
      BY <2>3, <2>4, <2>6, EntryStepType
    <2> QED
      BY <1>21, <1>t, <2>5 DEF TInv, TypeOK, Stall
  <1>22. ASSUME NEW r \in Reqs, RequestFails(r) PROVE TInv'
    <2>1. req' \in [Reqs -> BusyReq \cup {IdleReq}] /\ faults' \in 0 .. MaxFaults
      BY <1>22, <1>t, ConstantsAssumption DEF TypeOK, RequestFails, Fault
    <2> QED
      BY <1>22, <1>t, <2>1, OtherStepType DEF TInv, TypeOK, RequestFails
  <1>23. ASSUME NEW r \in Reqs, RemoveFails(r) PROVE TInv'
    <2>1. Request("cancel", req[r].job, "none", 0) \in BusyReq
      BY <1>23, <1>t, ReqFields, ReqType, ZeroStamp DEF RemoveFails
    <2>2. req' \in [Reqs -> BusyReq \cup {IdleReq}] /\ faults' \in 0 .. MaxFaults
      BY <1>23, <1>t, <2>1, ConstantsAssumption DEF TypeOK, RemoveFails, Fault
    <2> QED
      BY <1>23, <1>t, <2>2, OtherStepType DEF TInv, TypeOK, RemoveFails
  <1>24. ASSUME NEW w \in Workers, StepFails(w) PROVE TInv'
    <2> DEFINE s == Slot("catch", worker[w].job, worker[w].stamp)
    <2>1. worker[w] \in BusySlot /\ worker[w].pc # "idle"
      BY <1>24, <1>t, SlotBusy DEF StepFails
    <2>2. JobOf(w) \in Jobs /\ worker[w].local \in CountsType
      BY <2>1, SlotFields DEF JobOf
    <2>3. /\ s \in BusySlot
          /\ s.pc = "catch" /\ s.job = worker[w].job /\ s.stamp = worker[w].stamp
      BY <2>1, SlotType, SlotFields DEF Slot, BusyPc
    <2>4. worker' = [worker EXCEPT ![w] = s]
      BY <1>24 DEF StepFails, Leave
    <2>5. /\ status' \in [Jobs -> ImportStatus \cup {"absent"}]
          /\ counts' \in [Jobs -> CountsType]
          /\ faults' \in 0 .. MaxFaults
      BY <1>24, <1>t, <2>2, ConstantsAssumption DEF TypeOK, StepFails, ImportStatus, Fault
    <2> QED
      BY <1>24, <1>t, <2>1, <2>3, <2>4, <2>5, SlotStepType DEF TInv, TypeOK, StepFails
  <1>25. ASSUME NEW w \in Workers, RecordFails(w) PROVE TInv'
    <2> DEFINE s == Slot("rethrow", worker[w].job, worker[w].stamp)
    <2>1. worker[w] \in BusySlot /\ worker[w].pc # "idle"
      BY <1>25, <1>t, SlotBusy DEF RecordFails
    <2>2. JobOf(w) \in Jobs /\ worker[w].local \in CountsType
      BY <2>1, SlotFields DEF JobOf
    <2>3. /\ s \in BusySlot
          /\ s.pc = "rethrow" /\ s.job = worker[w].job /\ s.stamp = worker[w].stamp
      BY <2>1, SlotType, SlotFields DEF Slot, BusyPc
    <2>4. worker' = [worker EXCEPT ![w] = s]
      BY <1>25 DEF RecordFails, Leave
    <2>5. /\ status' \in [Jobs -> ImportStatus \cup {"absent"}]
          /\ counts' \in [Jobs -> CountsType]
          /\ faults' \in 0 .. MaxFaults
      BY <1>25, <1>t, <2>2, ConstantsAssumption DEF TypeOK, RecordFails, ImportStatus, Fault
    <2> QED
      BY <1>25, <1>t, <2>1, <2>3, <2>4, <2>5, SlotStepType DEF TInv, TypeOK, RecordFails
  <1>26. CASE Crash
    <2>1. /\ worker' \in [Workers -> BusySlot \cup {IdleWorker}]
          /\ req' \in [Reqs -> BusyReq \cup {IdleReq}]
          /\ faults' \in 0 .. MaxFaults
      BY <1>26, <1>t, ConstantsAssumption DEF TypeOK, Crash, Fault
    <2>2. TriesLeft'
      BY <1>26 DEF TInv, TriesLeft, Crash
    <2>3. \A w \in Workers : worker'[w].pc = "idle"
      BY <1>26 DEF Crash, IdleWorker, Slot
    <2>4. LoopBounds' /\ HeldEntries'
      BY <2>3 DEF LoopBounds, HeldEntries
    <2> QED
      BY <1>26, <1>t, <2>1, <2>2, <2>4 DEF TInv, TypeOK, Crash
  <1>28. ASSUME NEW w \in Workers, LoseLock(w) PROVE TInv'
    <2>1. lost' \in SUBSET Workers /\ faults' \in 0 .. MaxFaults /\ lost \subseteq lost'
      BY <1>28, <1>t, ConstantsAssumption DEF TypeOK, LoseLock, Fault
    <2>2. TriesLeft' /\ LoopBounds' /\ HeldEntries'
      BY <1>28, <2>1 DEF TInv, TriesLeft, LoopBounds, HeldEntries, LoseLock
    <2> QED
      BY <1>28, <1>t, <2>1, <2>2 DEF TInv, TypeOK, LoseLock
  <1>27. CASE UNCHANGED vars
    BY <1>27, <1>t, OtherStepType DEF TInv, TypeOK, vars
  <1> QED
    BY <1>1, <1>2, <1>3, <1>4, <1>5, <1>6, <1>7, <1>8, <1>9, <1>10, <1>11, <1>12, <1>13, <1>14, <1>16, <1>17, <1>18, <1>19, <1>20, <1>21, <1>22, <1>23, <1>24, <1>25, <1>26, <1>27, <1>28
    DEF Next, WorkerStep, ReqStep, ReqBegin, FaultStep

LEMMA TypeInvariant == Spec => []TInv
  BY TypeInit, TypeStep, PTL DEF Spec

\* Every reachable state has the declared types: in particular BullMQ tries no
\* entry more often than the queue's attempts allow, and no slot runs past the
\* last row of its file.
THEOREM TypeCorrect == Spec => []TypeOK
  <1>1. TInv => TypeOK
    BY DEF TInv
  <1> QED
    BY <1>1, TypeInvariant, PTL

-----------------------------------------------------------------------------
(* Rows and counters *)

Total(c) == c.ok + c.err + c.skip

\* The counters that the recorded rows of a job amount to.
Recorded(j) ==
  [ok |-> RowsWith(j, "SUCCESS"), err |-> RowsWith(j, "ERROR"), skip |-> RowsWith(j, "SKIPPED")]

\* The rows recorded of a job are the first m of its file.
FirstRows(j, m) == \A i \in Rows : results[j][i] # "none" <=> i <= m

LEMMA RowsFinite == IsFiniteSet(Rows) /\ Cardinality(Rows) = NumRows
<1>1. 1 \in Int /\ NumRows \in Int /\ ~ (1 > NumRows)
  BY ConstantsAssumption
<1>2. IsFiniteSet(1 .. NumRows) /\ Cardinality(1 .. NumRows) = NumRows - 1 + 1
  BY <1>1, FS_Interval
<1> QED
  BY <1>1, <1>2 DEF Rows

LEMMA RowsWithNat ==
  ASSUME NEW j, NEW out
  PROVE  RowsWith(j, out) \in Nat /\ (RowsWith(j, out) = 0 <=> \A i \in Rows : results[j][i] # out)
<1> DEFINE S == {i \in Rows : results[j][i] = out}
<1>1. S \in SUBSET Rows
  OBVIOUS
<1>2. IsFiniteSet(S)
  BY <1>1, RowsFinite, FS_Subset
<1>3. Cardinality(S) \in Nat /\ (Cardinality(S) = 0 <=> S = {})
  BY <1>2, FS_CardinalityType, FS_EmptySet
<1>4. S = {} <=> \A i \in Rows : results[j][i] # out
  OBVIOUS
<1> QED
  BY <1>3, <1>4 DEF RowsWith

\* The rows that are left, when the first m are recorded.
LEMMA RowsLeft ==
  ASSUME NEW j, NEW m \in 0 .. NumRows, FirstRows(j, m)
  PROVE  RowsWith(j, "none") = NumRows - m
<1>0. m \in Int /\ NumRows \in Int /\ m + 1 \in Int /\ m >= 0 /\ m <= NumRows
  BY ConstantsAssumption
<1>1. {i \in Rows : results[j][i] = "none"} = (m + 1) .. NumRows
  <2>1. ASSUME NEW i \in Rows, results[j][i] = "none" PROVE i \in (m + 1) .. NumRows
    BY <1>0, <2>1 DEF FirstRows, Rows
  <2>2. ASSUME NEW i \in (m + 1) .. NumRows PROVE i \in Rows /\ results[j][i] = "none"
    BY <1>0, <2>2 DEF FirstRows, Rows
  <2> QED
    BY <2>1, <2>2
<1>2. Cardinality((m + 1) .. NumRows) = IF m + 1 > NumRows THEN 0 ELSE NumRows - (m + 1) + 1
  BY <1>0, FS_Interval
<1>3. Cardinality((m + 1) .. NumRows) = NumRows - m
  BY <1>0, <1>2
<1> QED
  BY <1>1, <1>3 DEF RowsWith

\* A row that is recorded counts for its outcome and no other.
LEMMA RowsWithSave ==
  ASSUME TypeOK, NEW j \in Jobs, NEW i \in Rows, results[j][i] = "none", NEW o \in Outcome,
         results' = [results EXCEPT ![j][i] = o]
  PROVE  Recorded(j)' = Tally(Recorded(j), o)
<1>1. ASSUME NEW out \in Outcome
      PROVE  RowsWith(j, out)' = RowsWith(j, out) + (IF o = out THEN 1 ELSE 0)
  <2> DEFINE S == {h \in Rows : results[j][h] = out}
             T == {h \in Rows : results'[j][h] = out}
  <2>1. results'[j][i] = o /\ \A h \in Rows : h # i => results'[j][h] = results[j][h]
    BY DEF TypeOK
  <2>2. out # "none" /\ i \notin S
    BY DEF Outcome
  <2>3. IsFiniteSet(S)
    BY RowsFinite, FS_Subset
  <2>4. Cardinality(S) \in Nat
    BY <2>3, FS_CardinalityType
  <2>5. CASE o = out
    <3>1. T = S \cup {i}
      BY <2>1, <2>5
    <3>2. Cardinality(S \cup {i}) = Cardinality(S) + 1
      BY <2>2, <2>3, FS_AddElement
    <3>3. RowsWith(j, out)' = Cardinality(T) /\ RowsWith(j, out) = Cardinality(S)
      BY DEF RowsWith
    <3> HIDE DEF S, T
    <3> QED
      BY <2>5, <3>1, <3>2, <3>3
  <2>6. CASE o # out
    <3>1. T = S
      BY <2>1, <2>2, <2>6
    <3>2. RowsWith(j, out)' = Cardinality(T) /\ RowsWith(j, out) = Cardinality(S)
      BY DEF RowsWith
    <3> HIDE DEF S, T
    <3> QED
      BY <2>4, <2>6, <3>1, <3>2
  <2> QED
    BY <2>5, <2>6
<1> QED
  BY <1>1 DEF Recorded, Tally, Outcome

\* Rows and counters of a job that was never retried: the rows are recorded in
\* order, and the counters lag by one row at most.
JobRecord(j) ==
  /\ \E m \in 0 .. NumRows : FirstRows(j, m) /\ m <= Total(counts[j]) + 1
  /\ counts[j].ok <= RowsWith(j, "SUCCESS")
  /\ counts[j].err <= RowsWith(j, "ERROR")
  /\ counts[j].skip <= RowsWith(j, "SKIPPED")
  /\ status[j] = "COMPLETED" => Total(counts[j]) = NumRows

\* Slot s of that job: its local counters are those of the rows it has seen,
\* and all of these are recorded. A further attempt, or a second slot on the same
\* entry, may see the first row that another one recorded, but it gets no further.
SlotRecord(s, j) ==
  /\ s.pc = "claimed" => s.n = 0 /\ s.local = ZeroCounts
  /\ s.pc \in {"row", "handle", "save", "count"} => Total(s.local) = s.n
  /\ PastFirst(s) => results[j][1] # "none" /\ (s.pc # "ended" => status[j] # "COMPLETED")
  /\ s.pc \in {"row", "handle"} =>
       /\ s.n > 0 => FirstRows(j, s.n)
       /\ FirstRows(j, s.n) => s.local = Recorded(j)
       /\ Total(counts[j]) >= s.n
  /\ s.pc = "save" =>
       /\ s.n > 1 => FirstRows(j, s.n - 1)
       /\ FirstRows(j, s.n - 1) => s.local = Tally(Recorded(j), s.out)
       /\ Total(counts[j]) >= s.n - 1
  /\ s.pc = "count" => FirstRows(j, s.n) /\ s.local = Recorded(j)

RecordInv ==
  /\ \A j \in Jobs : retries[j] = 0 => JobRecord(j)
  /\ \A w \in Workers : worker[w].pc # "idle" /\ retries[worker[w].job] = 0
       => SlotRecord(worker[w], worker[w].job)
  /\ OneSlotRecords

RInv == TInv /\ RecordInv

\* What a step leaves alone that does not touch rows and counters of a job.
LEMMA RowsKept ==
  ASSUME NEW j, results'[j] = results[j]
  PROVE  /\ \A m : FirstRows(j, m)' <=> FirstRows(j, m)
         /\ \A out : RowsWith(j, out)' = RowsWith(j, out)
         /\ Recorded(j)' = Recorded(j)
<1>1. \A m : FirstRows(j, m)' <=> FirstRows(j, m)
  BY DEF FirstRows
<1>2. \A out : RowsWith(j, out)' = RowsWith(j, out)
  BY DEF RowsWith
<1> QED
  BY <1>1, <1>2 DEF Recorded

LEMMA JobKept ==
  ASSUME NEW j, JobRecord(j), results'[j] = results[j], counts'[j] = counts[j],
         status'[j] = status[j] \/ status'[j] # "COMPLETED"
  PROVE  JobRecord(j)'
  BY RowsKept DEF JobRecord

LEMMA SlotKept ==
  ASSUME NEW s, NEW j, SlotRecord(s, j), results'[j] = results[j], counts'[j] = counts[j],
         status'[j] = status[j] \/ status'[j] # "COMPLETED"
  PROVE  SlotRecord(s, j)'
  BY RowsKept DEF SlotRecord, PastFirst

\* A slot that is not past the first row, when that is recorded: whatever else is
\* written to its job, it will find the row taken.
LEMMA BehindKept ==
  ASSUME NEW s \in BusySlot, NEW j, SlotRecord(s, j), ~ PastFirst(s), s.pc = "save" => s.n > 0,
         results'[j][1] # "none", counts'[j] \in CountsType
  PROVE  SlotRecord(s, j)'
<1>1. 1 \in Rows /\ s.n \in Nat
  BY SlotFields, ConstantsAssumption DEF Rows
<1>2. ~ FirstRows(j, 0)'
  BY <1>1 DEF FirstRows
<1>3. Total(counts'[j]) >= 0
  BY DEF Total, CountsType
<1>4. s.pc \in {"row", "handle"} => s.n = 0
  BY <1>1 DEF PastFirst
<1>5. s.pc = "save" => s.n = 1
  BY <1>1 DEF PastFirst
<1>6. s.pc \notin {"count", "ended"}
  BY DEF PastFirst
<1>7. /\ s.pc = "claimed" => s.n = 0 /\ s.local = ZeroCounts
      /\ s.pc \in {"row", "handle", "save", "count"} => Total(s.local) = s.n
  BY DEF SlotRecord
<1>8. ~ PastFirst(s)' /\ Total(s.local)' = Total(s.local)
  BY DEF PastFirst, Total
<1> QED
  BY <1>2, <1>3, <1>4, <1>5, <1>6, <1>7, <1>8 DEF SlotRecord

\* A step of slot w that records nothing: the slot goes on to s, and the status
\* of its job does not become COMPLETED.
LEMMA SlotStepRecord ==
  ASSUME RInv, TInv', NEW w \in Workers, NEW s,
         worker' = [worker EXCEPT ![w] = s],
         retries[s.job] = 0 /\ PastFirst(s) => PastFirst(worker[w]) /\ s.job = worker[w].job,
         UNCHANGED <<counts, results, retries>>,
         \A j \in Jobs : status'[j] = status[j] \/ status'[j] # "COMPLETED",
         s.pc # "idle" /\ retries[s.job] = 0 => SlotRecord(s, s.job)'
  PROVE  RInv'
<1>1. \A j \in Jobs : retries'[j] = 0 => JobRecord(j)'
  BY JobKept DEF RInv, RecordInv
<1>2. ASSUME NEW v \in Workers, worker'[v].pc # "idle", retries'[worker'[v].job] = 0
      PROVE  SlotRecord(worker[v], worker[v].job)'
  <2>1. CASE v = w
    <3>1. worker'[v] = s
      BY <2>1 DEF RInv, TInv, TypeOK
    <3> QED
      BY <1>2, <3>1
  <2>2. CASE v # w
    <3>1. worker'[v] = worker[v]
      BY <2>2 DEF RInv, TInv, TypeOK
    <3>2. worker[v].pc # "idle" /\ retries[worker[v].job] = 0
      BY <1>2, <3>1
    <3>3. SlotRecord(worker[v], worker[v].job) /\ worker[v].job \in Jobs
      BY <3>2, SlotBusy, SlotFields DEF RInv, RecordInv, TInv
    <3>4. \A x : x = worker[v] => SlotRecord(x, x.job)'
      BY <3>3, SlotKept
    <3> QED
      BY <3>1, <3>4
  <2> QED
    BY <2>1, <2>2
<1>3. OneSlotRecords'
  <2>1. worker'[w] = s /\ \A v \in Workers : v # w => worker'[v] = worker[v]
    BY DEF RInv, TInv, TypeOK
  <2>2. \A v \in Workers : PastFirst(worker'[v]) /\ retries[worker'[v].job] = 0
          => PastFirst(worker[v]) /\ worker'[v].job = worker[v].job
    BY <2>1
  <2>3. \A v \in Workers : PastFirst(worker'[v]) =>
          retries[worker'[v].job] > 0 \/ retries[worker'[v].job] = 0
    <3> SUFFICES ASSUME NEW v \in Workers, PastFirst(worker'[v])
                 PROVE  retries[worker'[v].job] > 0 \/ retries[worker'[v].job] = 0
      OBVIOUS
    <3>1. worker'[v] \in BusySlot
      BY DEF TInv, TypeOK, PastFirst, IdleWorker, Slot
    <3> QED
      BY <3>1, SlotFields, ConstantsAssumption DEF RInv, TInv, TypeOK, Stamps
  <2> QED
    BY <2>2, <2>3 DEF RInv, RecordInv, OneSlotRecords, JobOf, PastFirst
<1> QED
  BY <1>1, <1>2, <1>3 DEF RInv, RecordInv

\* A step of requests and faults: slots go on as they are, end or fail.
LEMMA QuietRecord ==
  ASSUME RInv, TInv', UNCHANGED <<counts, results, retries>>,
         \A j \in Jobs : status'[j] = status[j] \/ status'[j] # "COMPLETED",
         \A v \in Workers : worker'[v] = worker[v] \/ worker'[v].pc \in {"idle", "catch", "rethrow"}
  PROVE  RInv'
<1>1. \A j \in Jobs : retries'[j] = 0 => JobRecord(j)'
  BY JobKept DEF RInv, RecordInv
<1>2. ASSUME NEW v \in Workers, worker'[v].pc # "idle", retries'[worker'[v].job] = 0
      PROVE  SlotRecord(worker[v], worker[v].job)'
  <2>1. CASE worker'[v].pc \in {"catch", "rethrow"}
    BY <2>1 DEF SlotRecord, PastFirst
  <2>2. CASE worker'[v] = worker[v]
    <3>1. worker[v].pc # "idle" /\ retries[worker[v].job] = 0
      BY <1>2, <2>2
    <3>2. SlotRecord(worker[v], worker[v].job) /\ worker[v].job \in Jobs
      BY <3>1, SlotBusy, SlotFields DEF RInv, RecordInv, TInv
    <3>3. \A x : x = worker[v] => SlotRecord(x, x.job)'
      BY <3>2, SlotKept
    <3> QED
      BY <2>2, <3>3
  <2> QED
    BY <1>2, <2>1, <2>2
<1>3. OneSlotRecords'
  <2>1. \A v \in Workers : PastFirst(worker'[v]) => worker'[v] = worker[v]
    BY DEF PastFirst
  <2> QED
    BY <2>1 DEF RInv, RecordInv, OneSlotRecords, JobOf, PastFirst
<1> QED
  BY <1>1, <1>2, <1>3 DEF RInv, RecordInv

\* A step of slot w that writes to its own job only, when no other slot of that job
\* is past the first row.
LEMMA OwnJobRecord ==
  ASSUME RInv, TInv', NEW w \in Workers, worker[w].pc # "idle",
         NEW s, s.job = worker[w].job, worker' = [worker EXCEPT ![w] = s], UNCHANGED retries,
         \A i \in Jobs : i # s.job =>
           results'[i] = results[i] /\ counts'[i] = counts[i] /\ status'[i] = status[i],
         retries[s.job] = 0 =>
           /\ JobRecord(s.job)' /\ SlotRecord(s, s.job)' /\ results'[s.job][1] # "none"
           /\ \A v \in Workers : v # w /\ worker[v].job = s.job => ~ PastFirst(worker[v])
  PROVE  RInv'
<1>0. worker'[w] = s /\ \A v \in Workers : v # w => worker'[v] = worker[v]
  BY DEF RInv, TInv, TypeOK
<1>1. \A j \in Jobs : retries'[j] = 0 => JobRecord(j)'
  BY JobKept DEF RInv, RecordInv
<1>2. ASSUME NEW v \in Workers, worker'[v].pc # "idle", retries'[worker'[v].job] = 0
      PROVE  SlotRecord(worker[v], worker[v].job)'
  <2>1. CASE v = w
    <3>1. worker'[v] = s
      BY <2>1 DEF RInv, TInv, TypeOK
    <3> QED
      BY <1>2, <3>1
  <2>2. CASE v # w
    <3>1. worker[v].pc # "idle" /\ retries[worker[v].job] = 0
      BY <1>0, <1>2, <2>2
    <3>2. SlotRecord(worker[v], worker[v].job) /\ worker[v].job \in Jobs /\ worker[v] \in BusySlot
      BY <3>1, SlotBusy, SlotFields DEF RInv, RecordInv, TInv
    <3>3. CASE worker[v].job # s.job
      <4>1. \A x : x = worker[v] => SlotRecord(x, x.job)'
        BY <3>2, <3>3, SlotKept
      <4> QED
        BY <1>0, <2>2, <4>1
    <3>4. CASE worker[v].job = s.job
      <4>1. ~ PastFirst(worker[v]) /\ results'[worker[v].job][1] # "none"
        BY <2>2, <3>1, <3>4
      <4>2. worker[v].pc = "save" => worker[v].n > 0
        BY DEF RInv, TInv, LoopBounds
      <4>3. counts'[worker[v].job] \in CountsType
        BY <3>2 DEF TInv, TypeOK
      <4>4. \A x : x = worker[v] => SlotRecord(x, x.job)'
        BY <3>2, <4>1, <4>2, <4>3, BehindKept
      <4> QED
        BY <1>0, <2>2, <4>4
    <3> QED
      BY <3>3, <3>4
  <2> QED
    BY <2>1, <2>2
<1>3. OneSlotRecords'
  <2> SUFFICES ASSUME NEW u \in Workers, NEW v \in Workers, u # v,
                      worker'[u].job = worker'[v].job, PastFirst(worker'[u]), PastFirst(worker'[v]),
                      ~ (retries[worker'[v].job] > 0)
               PROVE  FALSE
    BY DEF OneSlotRecords, JobOf, PastFirst
  <2>1. CASE u # w /\ v # w
    BY <1>0, <2>1 DEF RInv, RecordInv, OneSlotRecords, JobOf
  <2>2. CASE u = w \/ v = w
    <3>1. worker'[u].job = s.job /\ worker'[v].job = s.job
      BY <1>0, <2>2
    <3>2. s.job \in Jobs
      BY SlotBusy, SlotFields DEF RInv, TInv
    <3>3. retries[s.job] = 0
      BY <3>1, <3>2, ConstantsAssumption DEF RInv, TInv, TypeOK, Stamps
    <3> QED
      BY <1>0, <2>2, <3>1, <3>3
  <2> QED
    BY <2>1, <2>2
<1> QED
  BY <1>1, <1>2, <1>3 DEF RInv, RecordInv

\* Who is past the first row of a job never retried is alone there.
LEMMA OthersBehind ==
  ASSUME RInv, NEW w \in Workers, PastFirst(worker[w]), retries[worker[w].job] = 0
  PROVE  \A v \in Workers : v # w /\ worker[v].job = worker[w].job => ~ PastFirst(worker[v])
  BY DEF RInv, RecordInv, OneSlotRecords, JobOf

\* Nobody is past a first row that is not recorded, and the job is not COMPLETED.
LEMMA NobodyPast ==
  ASSUME RInv, NEW j \in Jobs, retries[j] = 0, results[j][1] = "none"
  PROVE  /\ \A v \in Workers : worker[v].job = j => ~ PastFirst(worker[v])
         /\ status[j] # "COMPLETED"
<1>1. ASSUME NEW v \in Workers, worker[v].job = j, PastFirst(worker[v])
      PROVE  FALSE
  <2>1. worker[v].pc # "idle"
    BY <1>1 DEF PastFirst
  <2> QED
    BY <1>1, <2>1 DEF RInv, RecordInv, SlotRecord
<1>2. status[j] # "COMPLETED"
  <2>1. JobRecord(j) /\ counts[j] \in CountsType
    BY DEF RInv, RecordInv, TInv, TypeOK
  <2>2. PICK m \in 0 .. NumRows : FirstRows(j, m)
    BY <2>1 DEF JobRecord
  <2>3. 1 \in Rows /\ NumRows > 0
    BY ConstantsAssumption DEF Rows
  <2>4. \A i \in Rows : i >= 1 /\ i \in Nat
    BY ConstantsAssumption DEF Rows
  <2>5. m = 0
    BY <2>2, <2>3, ConstantsAssumption DEF FirstRows
  <2>6. \A i \in Rows : results[j][i] = "none"
    BY <2>2, <2>4, <2>5 DEF FirstRows
  <2>7. \A out \in Outcome : RowsWith(j, out) = 0
    BY <2>6, RowsWithNat DEF Outcome
  <2>8. counts[j].ok <= 0 /\ counts[j].err <= 0 /\ counts[j].skip <= 0
    BY <2>1, <2>7 DEF JobRecord, Outcome
  <2>9. Total(counts[j]) = 0
    BY <2>1, <2>8 DEF Total, CountsType
  <2> QED
    BY <2>1, <2>3, <2>9 DEF JobRecord
<1> QED
  BY <1>1, <1>2

\* The row loop of process, on a job never retried.
LEMMA StartRecord ==
  ASSUME NEW s \in BusySlot, NEW j, s.pc = "claimed", SlotRecord(s, j),
         counts'[j] \in CountsType
  PROVE  SlotRecord([s EXCEPT !.pc = "row"], j)'
<1> DEFINE x == [s EXCEPT !.pc = "row"]
<1>1. x.pc = "row" /\ x.n = 0 /\ x.local = ZeroCounts
  BY DEF SlotRecord, BusySlot
<1>2. Total(x.local) = 0 /\ Total(counts'[j]) >= 0
  BY <1>1 DEF Total, ZeroCounts, CountsType
<1>3. FirstRows(j, 0)' => Recorded(j)' = ZeroCounts
  <2> SUFFICES ASSUME FirstRows(j, 0)'
               PROVE  Recorded(j)' = ZeroCounts
    OBVIOUS
  <2>1. \A i \in Rows : results'[j][i] = "none"
    BY DEF FirstRows, Rows
  <2>2. \A out \in Outcome : RowsWith(j, out)' = 0
    <3> SUFFICES ASSUME NEW out \in Outcome PROVE RowsWith(j, out)' = 0
      OBVIOUS
    <3>1. {i \in Rows : results'[j][i] = out} = {}
      BY <2>1 DEF Outcome
    <3> QED
      BY <3>1, FS_EmptySet DEF RowsWith
  <2> QED
    BY <2>2 DEF Recorded, ZeroCounts, Outcome
<1> HIDE DEF x
<1>4. SlotRecord(x, j)'
  BY <1>1, <1>2, <1>3 DEF SlotRecord, PastFirst
<1> QED
  BY <1>4 DEF x

LEMMA HandleRecord ==
  ASSUME NEW s \in BusySlot, NEW j, s.pc = "handle", SlotRecord(s, j), NEW out \in Outcome,
         NEW x \in BusySlot, x.pc = "save", x.n = s.n + 1, x.out = out,
         x.local = Tally(s.local, out)
  PROVE  SlotRecord(x, j)
<1>1. s.n \in Nat /\ s.local \in CountsType
  BY SlotFields, ConstantsAssumption
<1>2. x.n - 1 = s.n /\ (x.n > 1 <=> s.n > 0)
  BY <1>1
<1>3. Total(Tally(s.local, out)) = Total(s.local) + 1
  <2>1. /\ s.local.ok \in Nat /\ s.local.err \in Nat /\ s.local.skip \in Nat
    BY <1>1 DEF CountsType
  <2> QED
    BY <2>1 DEF Tally, Total, Outcome
<1> QED
  BY <1>1, <1>2, <1>3 DEF SlotRecord, PastFirst

\* The row that is recorded is the next one of the file.
LEMMA SavesNext ==
  ASSUME NEW s \in BusySlot, NEW j, s.pc = "save", s.n > 0, SlotRecord(s, j), JobRecord(j),
         results[j][s.n] = "none"
  PROVE  s.n \in Rows /\ FirstRows(j, s.n - 1)
<1>1. s.n \in 1 .. NumRows
  BY SlotFields, ConstantsAssumption
<1>2. CASE s.n > 1
  BY <1>1, <1>2 DEF SlotRecord, Rows
<1>3. CASE s.n = 1
  <2>1. PICK m \in 0 .. NumRows : FirstRows(j, m)
    BY DEF JobRecord
  <2>2. ~ (1 <= m) /\ m \in Nat
    BY <1>1, <1>3, <2>1, ConstantsAssumption DEF FirstRows, Rows
  <2>3. m = 0
    BY <2>2
  <2> QED
    BY <1>1, <1>3, <2>1, <2>3 DEF Rows
<1> QED
  BY <1>1, <1>2, <1>3

LEMMA SaveRecord ==
  ASSUME TypeOK, NEW j \in Jobs, NEW s \in BusySlot, s.pc = "save", s.n > 0, s.out \in Outcome,
         SlotRecord(s, j), JobRecord(j), results[j][s.n] = "none",
         results' = [results EXCEPT ![j][s.n] = s.out],
         counts'[j] = counts[j], status'[j] = status[j], status[j] # "COMPLETED",
         NEW x \in BusySlot, x.pc = "count", x.n = s.n, x.local = s.local
  PROVE  SlotRecord(x, j)' /\ JobRecord(j)'
<1>1. s.n \in Rows /\ FirstRows(j, s.n - 1)
  BY SavesNext
<1>2. s.n \in 0 .. NumRows /\ s.n \in Nat /\ \A i \in Rows : i \in Nat
  BY <1>1, ConstantsAssumption DEF Rows
<1>3. results'[j][s.n] = s.out /\ \A i \in Rows : i # s.n => results'[j][i] = results[j][i]
  BY <1>1 DEF TypeOK
<1>4. s.out # "none"
  BY DEF Outcome
<1>5. FirstRows(j, s.n)'
  BY <1>1, <1>2, <1>3, <1>4 DEF FirstRows
<1>6. Recorded(j)' = Tally(Recorded(j), s.out)
  BY <1>1, RowsWithSave
<1>7. SlotRecord(x, j)'
  <2>1. 1 \in Rows /\ 1 <= s.n
    BY <1>1, <1>2, ConstantsAssumption DEF Rows
  <2>2. results'[j][1] # "none"
    BY <1>5, <2>1 DEF FirstRows
  <2> QED
    BY <1>1, <1>5, <1>6, <2>2 DEF SlotRecord
<1>8. counts[j] \in CountsType
  BY DEF TypeOK
<1>9. s.n <= Total(counts[j]) + 1
  BY <1>2, <1>8 DEF SlotRecord, Total, CountsType
<1>10. \A out \in Outcome : RowsWith(j, out) \in Nat /\ RowsWith(j, out)' \in Nat
                             /\ RowsWith(j, out) <= RowsWith(j, out)'
  <2>1. \A out \in Outcome : RowsWith(j, out) \in Nat
    BY RowsWithNat
  <2> QED
    BY <1>6, <2>1 DEF Recorded, Tally, Outcome
<1>11. /\ counts[j].ok <= RowsWith(j, "SUCCESS")'
       /\ counts[j].err <= RowsWith(j, "ERROR")'
       /\ counts[j].skip <= RowsWith(j, "SKIPPED")'
  BY <1>8, <1>10 DEF JobRecord, Outcome, CountsType
<1>12. JobRecord(j)'
  BY <1>2, <1>5, <1>9, <1>11 DEF JobRecord
<1> QED
  BY <1>7, <1>12

\* Counters written from a slot that agrees with the record.
LEMMA CountRecord ==
  ASSUME NEW j, NEW c \in CountsType, NEW n \in 0 .. NumRows, FirstRows(j, n), c = Recorded(j),
         Total(c) = n, results'[j] = results[j], counts'[j] = c,
         status'[j] = "COMPLETED" => n = NumRows
  PROVE  JobRecord(j)'
<1>1. n \in Nat /\ n <= Total(c) + 1
  BY ConstantsAssumption
<1>2. FirstRows(j, n)' /\ \A out : RowsWith(j, out)' = RowsWith(j, out)
  BY RowsKept
<1>3. /\ c.ok \in Nat /\ c.err \in Nat /\ c.skip \in Nat
  BY DEF CountsType
<1>4. c.ok = RowsWith(j, "SUCCESS") /\ c.err = RowsWith(j, "ERROR") /\ c.skip = RowsWith(j, "SKIPPED")
  BY DEF Recorded
<1>5. c.ok <= c.ok /\ c.err <= c.err /\ c.skip <= c.skip
  BY <1>3
<1> QED
  BY <1>1, <1>2, <1>4, <1>5 DEF JobRecord

LEMMA WorkerRecord ==
  ASSUME RInv, TInv', NEW w \in Workers, WorkerStep(w)
  PROVE  RInv'
<1>t. TypeOK /\ TypeOK'
  BY DEF RInv, TInv
<1>0. PICK v, j : v = worker[w] /\ j = worker[w].job
  OBVIOUS
<1>b. ASSUME v.pc # "idle"
      PROVE  /\ v \in BusySlot /\ j \in Jobs
             /\ retries[j] = 0 => SlotRecord(v, j) /\ JobRecord(j)
  BY <1>0, <1>b, <1>t, SlotBusy, SlotFields DEF RInv, RecordInv
<1>1. ASSUME NEW i \in Jobs, NEW k \in Stamps, Fetch(w, i, k)
      PROVE  RInv'
  <2>0. PICK s : s = Slot("claimed", i, k)
    OBVIOUS
  <2>1. s.pc = "claimed" /\ s.n = 0 /\ s.local = ZeroCounts
    BY <2>0 DEF Slot
  <2>2. worker' = [worker EXCEPT ![w] = s] /\ UNCHANGED <<counts, results, retries, status>>
    BY <1>1, <2>0 DEF Fetch
  <2>3. SlotRecord(s, s.job)' /\ ~ PastFirst(s)
    BY <2>1 DEF SlotRecord, PastFirst
  <2> QED
    BY <2>2, <2>3, SlotStepRecord
<1>2. CASE Start(w)
  <2>1. v.pc = "claimed" /\ v.pc # "idle"
    BY <1>0, <1>2 DEF Start
  <2>2. v \in BusySlot /\ j \in Jobs
    BY <1>b, <2>1
  <2>0. PICK s : s = [v EXCEPT !.pc = "row"]
    OBVIOUS
  <2>3. s.job = j
    BY <1>0, <2>0, <2>2, SlotMoves DEF BusyPc
  <2>4. worker' = [worker EXCEPT ![w] = s] /\ UNCHANGED <<counts, results, retries>>
    BY <1>0, <1>2, <2>0 DEF Start
  <2>5. status'[j] = "PROCESSING" /\ \A i \in Jobs : status'[i] = status[i] \/ status'[i] = "PROCESSING"
    BY <1>0, <1>2, <1>t, <2>2 DEF Start, JobOf, TypeOK
  <2>6. counts'[j] \in CountsType
    BY <1>t, <2>2 DEF TypeOK
  <2>7. retries[j] = 0 => SlotRecord(s, j)' /\ ~ PastFirst(s)
    BY <1>b, <2>0, <2>1, <2>2, <2>6, StartRecord DEF SlotRecord, PastFirst, BusySlot
  <2> QED
    BY <2>3, <2>4, <2>5, <2>7, SlotStepRecord
<1>3. CASE CheckRow(w)
  <2>1. v.pc = "row" /\ v.pc # "idle"
    BY <1>0, <1>3 DEF CheckRow
  <2>2. v \in BusySlot /\ j \in Jobs
    BY <1>b, <2>1
  <2>0. PICK s : s = [v EXCEPT !.pc = "handle"]
    OBVIOUS
  <2>3. s.job = j /\ s.pc = "handle" /\ s.n = v.n /\ s.local = v.local
    BY <1>0, <2>0, <2>2 DEF BusySlot
  <2>4. worker' = [worker EXCEPT ![w] = s] /\ UNCHANGED <<counts, results, retries, status>>
    BY <1>0, <1>3, <2>0 DEF CheckRow
  <2>5. retries[j] = 0 => SlotRecord(s, j)
    BY <1>b, <2>1, <2>3 DEF SlotRecord, PastFirst
  <2>6. retries[j] = 0 => SlotRecord(s, j)'
    BY <2>4, <2>5, SlotKept
  <2>7. PastFirst(s) => PastFirst(worker[w]) /\ s.job = worker[w].job
    BY <1>0, <2>1, <2>3 DEF PastFirst
  <2> QED
    BY <2>3, <2>4, <2>6, <2>7, SlotStepRecord
<1>4. ASSUME NEW out \in Outcomes, HandleRow(w, out)
      PROVE  RInv'
  <2>1. v.pc = "handle" /\ v.pc # "idle"
    BY <1>0, <1>4 DEF HandleRow
  <2>2. v \in BusySlot /\ j \in Jobs
    BY <1>b, <2>1
  <2>0. PICK s : s = [v EXCEPT !.pc = "save", !.n = @ + 1, !.out = out, !.local = Tally(@, out)]
    OBVIOUS
  <2>3. /\ s.job = j /\ s.pc = "save" /\ s.n = v.n + 1 /\ s.out = out
        /\ s.local = Tally(v.local, out)
    BY <1>0, <2>0, <2>2 DEF BusySlot
  <2>4. worker' = [worker EXCEPT ![w] = s] /\ UNCHANGED <<counts, results, retries, status>>
    BY <1>0, <1>4, <2>0 DEF HandleRow
  <2>5. out \in Outcome
    BY ConstantsAssumption DEF Outcome
  <2>6. s \in BusySlot
    <3>1. worker'[w] = s
      BY <1>t, <2>4 DEF TypeOK
    <3>2. s \in BusySlot \cup {IdleWorker} /\ IdleWorker.pc = "idle"
      BY <1>t, <3>1 DEF TypeOK, IdleWorker, Slot
    <3> QED
      BY <2>3, <3>2
  <2>7. retries[j] = 0 => SlotRecord(s, j)
    BY <1>b, <2>1, <2>2, <2>3, <2>5, <2>6, HandleRecord
  <2>8. retries[j] = 0 => SlotRecord(s, j)'
    BY <2>4, <2>7, SlotKept
  <2>9. v.n \in Nat
    BY <2>2, SlotFields, ConstantsAssumption
  <2>10. PastFirst(s) => PastFirst(worker[w]) /\ s.job = worker[w].job
    BY <1>0, <2>1, <2>3, <2>9 DEF PastFirst
  <2> QED
    BY <2>3, <2>4, <2>8, <2>10, SlotStepRecord
<1>5. CASE SaveRow(w)
  <2>1. v.pc = "save" /\ v.pc # "idle" /\ results[j][v.n] = "none"
    BY <1>0, <1>5 DEF SaveRow, JobOf
  <2>2. v \in BusySlot /\ j \in Jobs
    BY <1>b, <2>1
  <2>3. v.n > 0 /\ v.out \in Outcome
    BY <1>0, <2>1 DEF RInv, TInv, LoopBounds
  <2>0. PICK s : s = [v EXCEPT !.pc = "count"]
    OBVIOUS
  <2>4. s \in BusySlot /\ s.job = j /\ s.pc = "count" /\ s.n = v.n /\ s.local = v.local
    BY <1>0, <2>0, <2>2 DEF BusySlot
  <2>5. /\ worker' = [worker EXCEPT ![w] = s] /\ UNCHANGED <<counts, retries, status>>
        /\ results' = [results EXCEPT ![j][v.n] = v.out]
    BY <1>0, <1>5, <2>0 DEF SaveRow, JobOf
  <2>6. \A i \in Jobs : i # j => results'[i] = results[i]
    BY <1>t, <2>2, <2>5 DEF TypeOK
  <2>a. ASSUME retries[j] = 0
        PROVE  /\ status[j] # "COMPLETED"
               /\ \A u \in Workers : u # w /\ worker[u].job = j => ~ PastFirst(worker[u])
    <3>1. v.n \in Nat
      BY <2>2, SlotFields, ConstantsAssumption
    <3>2. CASE v.n = 1
      BY <2>1, <2>2, <2>a, <3>2, NobodyPast
    <3>3. CASE v.n > 1
      <4>1. PastFirst(v)
        BY <2>1, <3>3 DEF PastFirst
      <4> QED
        BY <1>0, <1>b, <2>1, <2>a, <4>1, OthersBehind DEF SlotRecord
    <3> QED
      BY <2>3, <3>1, <3>2, <3>3
  <2>7. retries[j] = 0 => SlotRecord(s, j)' /\ JobRecord(j)'
    BY <1>t, <1>b, <2>1, <2>2, <2>3, <2>4, <2>5, <2>a, SaveRecord
  <2>b. retries[j] = 0 => results'[j][1] # "none"
    BY <2>4, <2>7 DEF SlotRecord, PastFirst
  <2>8. /\ worker[w].pc # "idle" /\ s.job = worker[w].job
        /\ worker' = [worker EXCEPT ![w] = s] /\ UNCHANGED <<counts, retries, status>>
    BY <1>0, <2>1, <2>4, <2>5
  <2> QED
    BY <2>4, <2>6, <2>7, <2>8, <2>a, <2>b, OwnJobRecord
<1>6. CASE Count(w)
  <2>1. v.pc = "count" /\ v.pc # "idle"
    BY <1>0, <1>6 DEF Count
  <2>2. v \in BusySlot /\ j \in Jobs
    BY <1>b, <2>1
  <2>3. v.local \in CountsType /\ v.n \in 0 .. NumRows /\ v.n \in Nat
    BY <2>2, SlotFields, ConstantsAssumption
  <2>0. PICK s : s = [v EXCEPT !.pc = "row", !.out = "none"]
    OBVIOUS
  <2>4. s.job = j /\ s.pc = "row" /\ s.n = v.n /\ s.local = v.local
    BY <1>0, <2>0, <2>2 DEF BusySlot
  <2>5. /\ worker' = [worker EXCEPT ![w] = s] /\ UNCHANGED <<results, retries, status>>
        /\ counts' = [counts EXCEPT ![j] = v.local]
    BY <1>0, <1>6, <2>0 DEF Count, JobOf
  <2>6. counts'[j] = v.local /\ \A i \in Jobs : i # j => counts'[i] = counts[i]
    BY <1>t, <2>2, <2>5 DEF TypeOK
  <2>7. ASSUME retries[j] = 0
        PROVE  /\ SlotRecord(s, j)' /\ JobRecord(j)' /\ results'[j][1] # "none"
               /\ \A u \in Workers : u # w /\ worker[u].job = s.job => ~ PastFirst(worker[u])
    <3>0. PastFirst(v)
      BY <2>1 DEF PastFirst
    <3>1. /\ FirstRows(j, v.n) /\ v.local = Recorded(j) /\ results[j][1] # "none"
          /\ Total(v.local) = v.n /\ status[j] # "COMPLETED"
      BY <1>b, <2>1, <2>7, <3>0 DEF SlotRecord
    <3>2. JobRecord(j)'
      BY <2>3, <2>5, <2>6, <3>1, CountRecord
    <3>3. FirstRows(j, s.n)' /\ Recorded(j)' = Recorded(j)
      BY <2>4, <2>5, <3>1, RowsKept
    <3>4. Total(counts'[j]) >= s.n
      BY <2>3, <2>4, <2>6, <3>1
    <3>5. SlotRecord(s, j)'
      BY <2>4, <2>5, <3>1, <3>3, <3>4 DEF SlotRecord
    <3>6. \A u \in Workers : u # w /\ worker[u].job = s.job => ~ PastFirst(worker[u])
      BY <1>0, <2>4, <2>7, <3>0, OthersBehind
    <3> QED
      BY <2>5, <3>1, <3>2, <3>5, <3>6
  <2>8. worker[w].pc # "idle" /\ s.job = worker[w].job /\ worker' = [worker EXCEPT ![w] = s] /\ UNCHANGED retries
    BY <1>0, <2>1, <2>4, <2>5
  <2>9. \A i \in Jobs : i # s.job =>
          results'[i] = results[i] /\ counts'[i] = counts[i] /\ status'[i] = status[i]
    BY <2>4, <2>5, <2>6
  <2>10. retries[s.job] = 0 =>
           /\ JobRecord(s.job)' /\ SlotRecord(s, s.job)' /\ results'[s.job][1] # "none"
           /\ \A u \in Workers : u # w /\ worker[u].job = s.job => ~ PastFirst(worker[u])
    BY <2>4, <2>7
  <2> QED
    BY <2>8, <2>9, <2>10, OwnJobRecord
<1>7. CASE Finish(w)
  <2>1. v.pc = "row" /\ v.pc # "idle" /\ v.n = NumRows
    BY <1>0, <1>7 DEF Finish
  <2>2. v \in BusySlot /\ j \in Jobs
    BY <1>b, <2>1
  <2>3. v.local \in CountsType /\ NumRows \in 0 .. NumRows /\ NumRows > 0
    BY <2>2, SlotFields, ConstantsAssumption
  <2>0. PICK s : s = Slot("ended", v.job, v.stamp)
    OBVIOUS
  <2>4. s.job = j /\ s.pc = "ended"
    BY <1>0, <2>0 DEF Slot
  <2>5. /\ worker' = [worker EXCEPT ![w] = s] /\ UNCHANGED <<results, retries>>
        /\ counts' = [counts EXCEPT ![j] = v.local]
        /\ status' = [status EXCEPT ![j] = FinalStatus(v.local)]
    BY <1>0, <1>7, <2>0 DEF Finish, JobOf, Leave
  <2>6. /\ counts'[j] = v.local
        /\ \A i \in Jobs : i # j => counts'[i] = counts[i] /\ status'[i] = status[i]
    BY <1>t, <2>2, <2>5 DEF TypeOK
  <2>7. ASSUME retries[j] = 0
        PROVE  /\ SlotRecord(s, j)' /\ JobRecord(j)' /\ results'[j][1] # "none"
               /\ \A u \in Workers : u # w /\ worker[u].job = s.job => ~ PastFirst(worker[u])
    <3>0. PastFirst(v)
      BY <2>1, <2>3 DEF PastFirst
    <3>1. /\ FirstRows(j, NumRows) /\ v.local = Recorded(j) /\ results[j][1] # "none"
          /\ Total(v.local) = NumRows
      BY <1>b, <2>1, <2>3, <2>7, <3>0 DEF SlotRecord
    <3>2. JobRecord(j)'
      BY <2>3, <2>5, <2>6, <3>1, CountRecord
    <3>3. SlotRecord(s, j)'
      BY <2>4, <2>5, <3>1 DEF SlotRecord
    <3>6. \A u \in Workers : u # w /\ worker[u].job = s.job => ~ PastFirst(worker[u])
      BY <1>0, <2>4, <2>7, <3>0, OthersBehind
    <3> QED
      BY <2>5, <3>1, <3>2, <3>3, <3>6
  <2>8. worker[w].pc # "idle" /\ s.job = worker[w].job /\ worker' = [worker EXCEPT ![w] = s] /\ UNCHANGED retries
    BY <1>0, <2>1, <2>4, <2>5
  <2>9. \A i \in Jobs : i # s.job =>
          results'[i] = results[i] /\ counts'[i] = counts[i] /\ status'[i] = status[i]
    BY <2>4, <2>5, <2>6
  <2>10. retries[s.job] = 0 =>
           /\ JobRecord(s.job)' /\ SlotRecord(s, s.job)' /\ results'[s.job][1] # "none"
           /\ \A u \in Workers : u # w /\ worker[u].job = s.job => ~ PastFirst(worker[u])
    BY <2>4, <2>7
  <2> QED
    BY <2>8, <2>9, <2>10, OwnJobRecord
<1>8. CASE ObserveCancel(w) \/ SaveRowDuplicate(w) \/ Ack(w) \/ CatchWrite(w) \/ Rethrow(w)
  <2>1. IdleWorker.pc = "idle" /\ \A p, i, k : Slot(p, i, k).pc = p
    BY DEF IdleWorker, Slot
  <2>2. \A u \in Workers : worker'[u] = worker[u] \/ worker'[u].pc \in {"idle", "catch", "rethrow"}
    BY <1>8, <1>t, <2>1 DEF TypeOK, ObserveCancel, SaveRowDuplicate, Ack, CatchWrite, Rethrow, Leave, Settle
  <2>3. UNCHANGED <<counts, results, retries>>
    BY <1>8 DEF ObserveCancel, SaveRowDuplicate, Ack, CatchWrite, Rethrow
  <2>4. \A i \in Jobs : status'[i] = status[i] \/ status'[i] # "COMPLETED"
    BY <1>8, <1>t DEF TypeOK, ObserveCancel, SaveRowDuplicate, Ack, CatchWrite, Rethrow
  <2> QED
    BY <2>2, <2>3, <2>4, QuietRecord
<1> QED
  BY <1>1, <1>2, <1>3, <1>4, <1>5, <1>6, <1>7, <1>8 DEF WorkerStep

LEMMA RecordStep ==
  ASSUME RInv, [Next]_vars
  PROVE  RInv'
<1>t. TypeOK
  BY DEF RInv, TInv
<1>0. TInv'
  BY TypeStep DEF RInv
<1>1. ASSUME NEW w \in Workers, WorkerStep(w)
      PROVE  RInv'
  BY <1>0, <1>1, WorkerRecord
<1>2. ASSUME UNCHANGED <<counts, results, retries>>,
             \A j \in Jobs : status'[j] = status[j] \/ status'[j] # "COMPLETED",
             UNCHANGED worker
      PROVE  RInv'
  BY <1>0, <1>2, QuietRecord
<1>3. ASSUME NEW r \in Reqs, RetryReset(r)
      PROVE  RInv'
  <2>0. PICK j : j = req[r].job
    OBVIOUS
  <2>1. j \in Jobs
    BY <1>3, <1>t, <2>0, ReqFields DEF RetryReset
  <2>2. retries'[j] > 0 /\ retries'[j] # 0 /\ \A i \in Jobs : i # j =>
          /\ retries'[i] = retries[i] /\ results'[i] = results[i]
          /\ counts'[i] = counts[i] /\ status'[i] = status[i]
    BY <1>3, <1>t, <2>0, <2>1, ConstantsAssumption DEF RetryReset, TypeOK, Stamps
  <2>3. UNCHANGED worker
    BY <1>3 DEF RetryReset
  <2>4. \A i \in Jobs : retries'[i] = 0 => JobRecord(i)'
    BY <2>2, JobKept DEF RInv, RecordInv
  <2>5. ASSUME NEW v \in Workers, worker'[v].pc # "idle", retries'[worker'[v].job] = 0
        PROVE  SlotRecord(worker[v], worker[v].job)'
    <3>1. worker[v].pc # "idle" /\ worker[v].job \in Jobs
      BY <1>t, <2>3, <2>5, SlotBusy, SlotFields
    <3>2. worker[v].job # j /\ retries[worker[v].job] = 0
      BY <2>2, <2>3, <2>5, <3>1
    <3>3. SlotRecord(worker[v], worker[v].job)
      BY <3>1, <3>2 DEF RInv, RecordInv
    <3>4. \A x : x = worker[v] => SlotRecord(x, x.job)'
      BY <2>2, <3>1, <3>2, <3>3, SlotKept
    <3> QED
      BY <2>3, <3>4
  <2>6. OneSlotRecords'
    <3> SUFFICES ASSUME NEW u \in Workers, NEW v \in Workers, u # v,
                        worker[u].job = worker[v].job, PastFirst(worker[u]), PastFirst(worker[v])
                 PROVE  retries'[worker[v].job] > 0
      BY <2>3 DEF OneSlotRecords, JobOf, PastFirst
    <3>1. worker[v].pc # "idle" /\ retries[worker[v].job] > 0
      BY DEF RInv, RecordInv, OneSlotRecords, JobOf, PastFirst
    <3>2. worker[v].job \in Jobs
      BY <1>t, <3>1, SlotBusy, SlotFields
    <3> QED
      BY <2>2, <3>1, <3>2
  <2> QED
    BY <1>0, <2>4, <2>5, <2>6 DEF RInv, RecordInv
<1>4. ASSUME NEW r \in Reqs, CreateInsert(r) \/ CancelWrite(r)
      PROVE  RInv'
  <2>1. \A j \in Jobs : status'[j] = status[j] \/ status'[j] # "COMPLETED"
    BY <1>4, <1>t DEF TypeOK, CreateInsert, CancelWrite
  <2>2. UNCHANGED <<counts, results, retries, worker>>
    BY <1>4 DEF CreateInsert, CancelWrite
  <2> QED
    BY <1>2, <2>1, <2>2
<1>5. ASSUME NEW r \in Reqs, Enqueue(r) \/ CancelRemove(r) \/ ReqBegin(r) \/ RequestFails(r) \/ RemoveFails(r)
      PROVE  RInv'
  <2>1. UNCHANGED <<counts, results, retries, worker, status>>
    BY <1>5 DEF Enqueue, CancelRemove, ReqBegin, CreateCheck, CancelRead, RetryRead,
                RequestFails, RemoveFails
  <2> QED
    BY <1>2, <2>1
<1>6. ASSUME NEW j \in Jobs, NEW k \in Stamps, Stall(j, k)
      PROVE  RInv'
  BY <1>2, <1>6 DEF Stall
<1>7. ASSUME NEW w \in Workers, StepFails(w) \/ RecordFails(w)
      PROVE  RInv'
  <2>1. \A p, i, k : Slot(p, i, k).pc = p
    BY DEF Slot
  <2>2. \A u \in Workers : worker'[u] = worker[u] \/ worker'[u].pc \in {"idle", "catch", "rethrow"}
    BY <1>7, <1>t, <2>1 DEF TypeOK, StepFails, RecordFails, Leave
  <2>3. UNCHANGED <<counts, results, retries, status>>
    BY <1>7 DEF StepFails, RecordFails
  <2> QED
    BY <1>0, <2>2, <2>3, QuietRecord
<1>8. CASE Crash
  <2>1. \A u \in Workers : worker'[u].pc = "idle"
    BY <1>8 DEF Crash, IdleWorker, Slot
  <2>2. UNCHANGED <<counts, results, retries, status>>
    BY <1>8 DEF Crash
  <2> QED
    BY <1>0, <2>1, <2>2, QuietRecord
<1>9. CASE UNCHANGED vars
  BY <1>2, <1>9 DEF vars
<1>12. ASSUME NEW w \in Workers, LoseLock(w)
       PROVE  RInv'
  BY <1>2, <1>12 DEF LoseLock
<1>10. CASE FaultStep
  BY <1>5, <1>7, <1>8, <1>10, <1>12 DEF FaultStep
<1>11. ASSUME NEW r \in Reqs, ReqStep(r)
       PROVE  RInv'
  BY <1>3, <1>4, <1>5, <1>11 DEF ReqStep
<1> QED
  BY <1>1, <1>5, <1>6, <1>9, <1>10, <1>11 DEF Next

LEMMA RecordInit == Init => RInv
<1> SUFFICES ASSUME Init PROVE RInv
  OBVIOUS
<1>1. TInv
  BY TypeInit
<1>3. ASSUME NEW j \in Jobs
      PROVE  JobRecord(j)
  <2>1. counts[j] = ZeroCounts /\ status[j] = "absent" /\ \A i \in Rows : results[j][i] = "none"
    BY DEF Init
  <2>2. FirstRows(j, 0) /\ 0 \in 0 .. NumRows /\ 0 <= Total(counts[j]) + 1
    BY <2>1, ConstantsAssumption DEF FirstRows, Rows, Total, ZeroCounts
  <2>3. \A out \in Outcome : RowsWith(j, out) \in Nat
    BY RowsWithNat
  <2>4. /\ counts[j].ok <= RowsWith(j, "SUCCESS") /\ counts[j].err <= RowsWith(j, "ERROR")
        /\ counts[j].skip <= RowsWith(j, "SKIPPED")
    BY <2>1, <2>3 DEF Outcome, ZeroCounts
  <2> QED
    BY <2>1, <2>2, <2>4 DEF JobRecord
<1>4. \A w \in Workers : worker[w].pc = "idle"
  BY DEF Init, IdleWorker, Slot
<1>2. OneSlotRecords
  BY <1>4 DEF OneSlotRecords, PastFirst
<1> QED
  BY <1>1, <1>2, <1>3, <1>4 DEF RInv, RecordInv

LEMMA RecordInvariant == Spec => []RInv
  BY RecordInit, RecordStep, PTL DEF Spec

\* The counters of a job never retried are those of its recorded rows but for
\* the one recorded last, and those of a COMPLETED job add up to its rows,
\* whatever cancels, crashes, stalls and further attempts come in between: the
\* updates of process write local counters over the row.
THEOREM CountersTrue == Spec => []CountsMatchResults
<1>1. RInv => CountsMatchResults
  <2> SUFFICES ASSUME RInv, NEW j \in Jobs, retries[j] = 0
               PROVE  /\ counts[j].ok <= RowsWith(j, "SUCCESS")
                      /\ counts[j].err <= RowsWith(j, "ERROR")
                      /\ counts[j].skip <= RowsWith(j, "SKIPPED")
                      /\ NumRows - RowsWith(j, "none")
                           <= counts[j].ok + counts[j].err + counts[j].skip + 1
                      /\ status[j] = "COMPLETED" =>
                           counts[j].ok + counts[j].err + counts[j].skip = NumRows
    BY DEF CountsMatchResults
  <2>1. JobRecord(j)
    BY DEF RInv, RecordInv
  <2>2. PICK m \in 0 .. NumRows : FirstRows(j, m) /\ m <= Total(counts[j]) + 1
    BY <2>1 DEF JobRecord
  <2>3. RowsWith(j, "none") = NumRows - m
    BY <2>2, RowsLeft
  <2>4. NumRows - RowsWith(j, "none") = m
    BY <2>3, ConstantsAssumption
  <2> QED
    BY <2>1, <2>2, <2>4 DEF JobRecord, Total
<1> QED
  BY <1>1, RecordInvariant, PTL

\* Rows and counters of a job never retried have one writer, whatever locks
\* expire under slots that run on: the unique key of importRowResult.create stops
\* all slots but one at the first row.
THEOREM OneWriter == Spec => []OneSlotRecords
<1>1. RInv => OneSlotRecords
  BY DEF RInv, RecordInv
<1> QED
  BY <1>1, RecordInvariant, PTL

-----------------------------------------------------------------------------
(* The record that is promised *)

LEMMA RetriedJob ==
  ASSUME TypeOK, NEW j \in Jobs
  PROVE  j \notin Retried <=> retries[j] = 0
<1>0. retries \in [Jobs -> Stamps]
  BY Zenon DEF TypeOK
<1>1. retries[j] \in Nat
  BY <1>0, ConstantsAssumption DEF Stamps
<1>2. j \in Retried <=> retries[j] > 0
  BY DEF Retried
<1> QED
  BY <1>1, <1>2

LEMMA RetriedKept == retries' = retries => Retried' = Retried
BY DEF Retried

\* Each step of a slot is one of the record, or leaves the record alone.
LEMMA WorkerRefines ==
  ASSUME RInv, NEW w \in Workers, WorkerStep(w)
  PROVE  Record!Next \/ UNCHANGED Record!recordVars
<1>t. TypeOK
  BY DEF RInv, TInv
<1>0. PICK v, j : v = worker[w] /\ j = worker[w].job
  OBVIOUS
<1>b. ASSUME v.pc # "idle"
      PROVE  /\ v \in BusySlot /\ j \in Jobs
             /\ retries[j] = 0 => SlotRecord(v, j) /\ JobRecord(j)
  BY <1>0, <1>b, <1>t, SlotBusy, SlotFields DEF RInv, RecordInv
<1>1. CASE Start(w)
  <2>1. v.pc = "claimed" /\ status' = [status EXCEPT ![j] = "PROCESSING"] /\ UNCHANGED <<results, retries>>
    BY <1>0, <1>1 DEF Start, JobOf
  <2>2. j \in Jobs
    BY <1>b, <2>1
  <2>3. Record!Work(j)
    BY <2>1, RetriedKept DEF Record!Work, Record!SetStatus
  <2> QED
    BY <2>2, <2>3 DEF Record!Next, Record!Step
<1>2. CASE CatchWrite(w)
  <2>1. v.pc = "catch" /\ status' = [status EXCEPT ![j] = "FAILED"] /\ UNCHANGED <<results, retries>>
    BY <1>0, <1>2 DEF CatchWrite, JobOf
  <2>2. j \in Jobs
    BY <1>b, <2>1
  <2>3. Record!Fail(j)
    BY <2>1, RetriedKept DEF Record!Fail, Record!SetStatus
  <2> QED
    BY <2>2, <2>3 DEF Record!Next, Record!Step
<1>3. CASE SaveRow(w)
  <2>1. /\ v.pc = "save" /\ results[j][v.n] = "none" /\ UNCHANGED <<status, retries>>
        /\ results' = [results EXCEPT ![j][v.n] = v.out]
    BY <1>0, <1>3 DEF SaveRow, JobOf
  <2>2. v \in BusySlot /\ j \in Jobs
    BY <1>b, <2>1
  <2>3. v.n > 0 /\ v.out \in Outcome
    BY <1>0, <2>1 DEF RInv, TInv, LoopBounds
  <2>4. v.n \in Rows
    BY <2>2, <2>3, SlotFields, ConstantsAssumption DEF Rows
  <2>5. retries[j] = 0 => \A h \in Rows : h < v.n => results[j][h] # "none"
    <3> SUFFICES ASSUME retries[j] = 0, NEW h \in Rows, h < v.n
                 PROVE  results[j][h] # "none"
      OBVIOUS
    <3>1. FirstRows(j, v.n - 1)
      BY <1>b, <2>1, <2>2, <2>3, SavesNext
    <3>2. h <= v.n - 1
      BY <2>4, ConstantsAssumption DEF Rows
    <3> QED
      BY <3>1, <3>2 DEF FirstRows
  <2>6. Record!RecordRow(j, v.n, v.out)
    BY <1>t, <2>1, <2>2, <2>5, RetriedJob, RetriedKept DEF Record!RecordRow, Record!FileRows, Rows
  <2>7. v.n \in Record!FileRows /\ v.out \in {"SUCCESS", "ERROR", "SKIPPED"}
    BY <2>3, <2>4 DEF Record!FileRows, Rows, Outcome
  <2>8. Record!Step(j)
    BY <2>6, <2>7 DEF Record!Step
  <2> QED
    BY <2>2, <2>8 DEF Record!Next
<1>4. CASE Finish(w)
  <2>1. /\ v.pc = "row" /\ v.n = NumRows /\ UNCHANGED <<results, retries>>
        /\ status' = [status EXCEPT ![j] = FinalStatus(v.local)]
    BY <1>0, <1>4 DEF Finish, JobOf
  <2>2. v \in BusySlot /\ j \in Jobs
    BY <1>b, <2>1
  <2>3. CASE FinalStatus(v.local) = "FAILED"
    <3>1. Record!Fail(j)
      BY <2>1, <2>3, RetriedKept DEF Record!Fail, Record!SetStatus
    <3> QED
      BY <2>2, <3>1 DEF Record!Next, Record!Step
  <2>4. CASE FinalStatus(v.local) = "COMPLETED"
    <3>1. ASSUME retries[j] = 0
          PROVE  Record!Complete(j)
      <4>1. NumRows > 0 /\ FirstRows(j, NumRows) /\ v.local = Recorded(j)
        BY <1>b, <2>1, <3>1, ConstantsAssumption DEF SlotRecord
      <4>2. \A i \in Rows : results[j][i] # "none"
        BY <4>1, ConstantsAssumption DEF FirstRows, Rows
      <4>3. RowsWith(j, "ERROR") = 0 \/ RowsWith(j, "SUCCESS") # 0
        <5>1. ~ (v.local.err > 0 /\ v.local.ok = 0)
          BY <2>4 DEF FinalStatus
        <5>2. v.local.err = RowsWith(j, "ERROR") /\ v.local.ok = RowsWith(j, "SUCCESS")
          BY <4>1 DEF Recorded
        <5>3. RowsWith(j, "ERROR") \in Nat
          BY RowsWithNat
        <5> QED
          BY <5>1, <5>2, <5>3
      <4>4. \/ \A i \in Rows : results[j][i] # "ERROR"
            \/ \E i \in Rows : results[j][i] = "SUCCESS"
        BY <4>3, RowsWithNat
      <4> QED
        BY <4>2, <4>4 DEF Record!Complete, Record!FileRows, Rows
    <3>2. Record!Conclude(j)
      BY <1>t, <2>1, <2>2, <2>4, <3>1, RetriedJob, RetriedKept DEF Record!Conclude, Record!SetStatus
    <3> QED
      BY <2>2, <3>2 DEF Record!Next, Record!Step
  <2> QED
    BY <2>3, <2>4 DEF FinalStatus
<1>5. CASE \/ CheckRow(w) \/ ObserveCancel(w) \/ SaveRowDuplicate(w) \/ Count(w) \/ Ack(w) \/ Rethrow(w)
  BY <1>5, RetriedKept DEF CheckRow, ObserveCancel, SaveRowDuplicate, Count, Ack, Rethrow, Record!recordVars
<1>6. ASSUME NEW i \in Jobs, NEW k \in Stamps, Fetch(w, i, k)
      PROVE  UNCHANGED Record!recordVars
  BY <1>6, RetriedKept DEF Fetch, Record!recordVars
<1>7. ASSUME NEW out \in Outcomes, HandleRow(w, out)
      PROVE  UNCHANGED Record!recordVars
  BY <1>7, RetriedKept DEF HandleRow, Record!recordVars
<1> QED
  BY <1>1, <1>2, <1>3, <1>4, <1>5, <1>6, <1>7 DEF WorkerStep

\* So is each step of a request.
LEMMA ReqRefines ==
  ASSUME RInv, NEW r \in Reqs, ReqStep(r)
  PROVE  Record!Next \/ UNCHANGED Record!recordVars
<1>t. TypeOK
  BY DEF RInv, TInv
<1>1. CASE CreateInsert(r)
  <2>1. PICK j \in Jobs : status[j] = "absent" /\ status' = [status EXCEPT ![j] = "PENDING"]
    BY <1>1 DEF CreateInsert
  <2>2. Record!Submit(j)
    BY <1>1, <2>1, RetriedKept DEF CreateInsert, Record!Submit, Record!SetStatus
  <2> QED
    BY <2>2 DEF Record!Next, Record!Step
<1>2. CASE CancelWrite(r)
  <2>1. PICK j \in Jobs : j = req[r].job
    BY <1>2, <1>t, ReqFields DEF CancelWrite
  <2>2. Record!Cancel(j)
    BY <1>2, <2>1, RetriedKept DEF CancelWrite, Record!Cancel, Record!SetStatus
  <2> QED
    BY <2>2 DEF Record!Next, Record!Step
<1>3. CASE RetryReset(r)
  <2>1. PICK j \in Jobs : j = req[r].job
    BY <1>3, <1>t, ReqFields DEF RetryReset
  <2>2. Retried' = Retried \cup {j}
    <3>0. retries \in [Jobs -> Stamps]
      BY <1>t, Zenon DEF TypeOK
    <3>1. retries' = [retries EXCEPT ![j] = @ + 1] /\ retries \in [Jobs -> Nat]
      BY <1>3, <2>1, <3>0, ConstantsAssumption DEF RetryReset, Stamps
    <3>2. \A k \in Jobs : retries'[k] > 0 <=> retries[k] > 0 \/ k = j
      BY <3>1
    <3>3. \A k : k \in Retried' <=> k \in Retried \/ k = j
      BY <3>2 DEF Retried
    <3> QED
      BY <3>3
  <2>3. Record!Retry(j)
    BY <1>3, <2>1, <2>2 DEF RetryReset, Record!Retry, Record!FileRows, Rows
  <2> QED
    BY <2>3 DEF Record!Next, Record!Step
<1>4. CASE Enqueue(r) \/ CancelRemove(r)
  BY <1>4, RetriedKept DEF Enqueue, CancelRemove, Record!recordVars
<1> QED
  BY <1>1, <1>2, <1>3, <1>4 DEF ReqStep

\* The pipeline implements the record it promises its readers, whatever
\* requests, slots, crashes and failed calls do: until a job is retried its rows
\* are recorded in the order of the file, each once and for good, and it is
\* COMPLETED only when all of them are (ImportsService and ImportsProcessor).
THEOREM ImplementsRecord == Spec => RecordKept
<1>1. Init => Record!Init
  BY DEF Init, Record!Init, Record!FileRows, Rows, Retried
<1>2. RInv /\ [Next]_vars => [Record!Next]_(Record!recordVars)
  <2> SUFFICES ASSUME RInv, [Next]_vars
               PROVE  Record!Next \/ UNCHANGED Record!recordVars
    OBVIOUS
  <2>1. ASSUME NEW w \in Workers, WorkerStep(w)
        PROVE  Record!Next \/ UNCHANGED Record!recordVars
    BY <2>1, WorkerRefines
  <2>2. ASSUME NEW r \in Reqs, ReqStep(r)
        PROVE  Record!Next \/ UNCHANGED Record!recordVars
    BY <2>2, ReqRefines
  <2>3. ASSUME NEW r \in Reqs, ReqBegin(r) \/ RequestFails(r) \/ RemoveFails(r)
        PROVE  UNCHANGED Record!recordVars
    BY <2>3, RetriedKept DEF ReqBegin, CreateCheck, CancelRead, RetryRead, RequestFails, RemoveFails,
                Record!recordVars
  <2>4. ASSUME NEW j \in Jobs, NEW k \in Stamps, Stall(j, k)
        PROVE  UNCHANGED Record!recordVars
    BY <2>4, RetriedKept DEF Stall, Record!recordVars
  <2>5. ASSUME NEW w \in Workers, StepFails(w) \/ RecordFails(w)
        PROVE  UNCHANGED Record!recordVars
    BY <2>5, RetriedKept DEF StepFails, RecordFails, Record!recordVars
  <2>6. CASE Crash \/ UNCHANGED vars \/ \E w \in Workers : LoseLock(w)
    BY <2>6, RetriedKept DEF Crash, LoseLock, vars, Record!recordVars
  <2> QED
    BY <2>1, <2>2, <2>3, <2>4, <2>5, <2>6 DEF Next, FaultStep
<1> QED
  BY <1>1, <1>2, RecordInvariant, PTL DEF Spec, RecordKept, Record!Spec

-----------------------------------------------------------------------------
(* No job is forgotten *)

\* A request about to add an entry is the only one for it, and nobody else
\* makes that entry: a retry's number is new, and a job is created once.
EntriesToCome ==
  /\ \A r \in Reqs : req[r].pc = "enqueue" =>
       /\ status[req[r].job] # "absent"
       /\ req[r].stamp <= retries[req[r].job]
       /\ queue[req[r].job][req[r].stamp].state = "none"
       /\ \A q \in Reqs \ {r} :
            req[q].pc = "enqueue" /\ req[q].job = req[r].job => req[q].stamp # req[r].stamp
  /\ \A j \in Jobs, k \in Stamps :
       k > retries[j] \/ status[j] = "absent" => queue[j][k].state = "none"

\* Steps that neither add an entry nor begin to.
LEMMA ComeKept ==
  ASSUME TInv, EntriesToCome, UNCHANGED retries,
         \A j \in Jobs, k \in Stamps : queue[j][k].state = "none" => queue'[j][k].state = "none",
         \A j \in Jobs : status'[j] = "absent" => status[j] = "absent",
         \A r \in Reqs : req'[r].pc = "enqueue" => req'[r] = req[r]
  PROVE  EntriesToCome'
<1>1. \A r \in Reqs : req[r].pc = "enqueue" => req[r].job \in Jobs /\ req[r].stamp \in Stamps
  BY ReqFields DEF TInv
<1> QED
  BY <1>1 DEF EntriesToCome

\* A step that changes one entry that exists.
LEMMA ComeEntry ==
  ASSUME TInv, EntriesToCome, NEW j \in Jobs, NEW k \in Stamps, queue[j][k].state # "none",
         NEW e, queue' = [queue EXCEPT ![j][k] = e], UNCHANGED <<retries, req, status>>
  PROVE  EntriesToCome'
<1>1. \A i \in Jobs, l \in Stamps : ~ (i = j /\ l = k) => queue'[i][l] = queue[i][l]
  BY DEF TInv, TypeOK
<1>2. \A i \in Jobs, l \in Stamps : queue[i][l].state = "none" => queue'[i][l].state = "none"
  BY <1>1
<1> QED
  BY <1>2, ComeKept

LEMMA ComeCreate ==
  ASSUME TInv, EntriesToCome, NEW r \in Reqs, CreateInsert(r)
  PROVE  EntriesToCome'
<1>1. PICK j \in Jobs :
        /\ status[j] = "absent" /\ status' = [status EXCEPT ![j] = "PENDING"]
        /\ req' = [req EXCEPT ![r] = Request("enqueue", j, "none", 0)]
  BY DEF CreateInsert
<1>2. UNCHANGED <<queue, retries>>
  BY DEF CreateInsert
<1>3. req'[r].job = j /\ req'[r].stamp = 0 /\ \A q \in Reqs : q # r => req'[q] = req[q]
  BY <1>1 DEF TInv, TypeOK, Request
<1>4. status'[j] # "absent" /\ \A i \in Jobs : i # j => status'[i] = status[i]
  BY <1>1 DEF TInv, TypeOK
<1>5. \A q \in Reqs : req[q].pc = "enqueue" => req[q].job \in Jobs /\ req[q].job # j
  BY <1>1, ReqFields DEF TInv, EntriesToCome
<1>6. 0 <= retries[j] /\ queue[j][0].state = "none"
  BY <1>1, ZeroStamp, ConstantsAssumption DEF TInv, TypeOK, EntriesToCome, Stamps
<1> QED
  BY <1>2, <1>3, <1>4, <1>5, <1>6 DEF EntriesToCome

LEMMA ComeEnqueue ==
  ASSUME TInv, EntriesToCome, NEW r \in Reqs, Enqueue(r)
  PROVE  EntriesToCome'
<1>1. PICK j, k : j = req[r].job /\ k \in EntryIds(r) /\ AddEntry(j, k)
  BY DEF Enqueue
<1>2. req[r].pc = "enqueue" /\ UNCHANGED <<status, retries>>
  BY DEF Enqueue
<1>3. j \in Jobs /\ k \in Stamps /\ req[r].stamp \in Stamps
  BY <1>1, <1>2, ReqFields, ConstantsAssumption DEF TInv, EntryIds, Stamps
<1>4. IdleReq.pc = "idle"
  BY DEF IdleReq, Request
<1>5. \A q \in Reqs : req'[q].pc = "enqueue" => q # r /\ req'[q] = req[q]
  BY <1>4 DEF Enqueue, TInv, TypeOK
<1>6. CASE queue[j][k].state # "none"
  <2>1. queue' = queue
    BY <1>1, <1>6 DEF AddEntry
  <2> QED
    BY <1>2, <1>5, <2>1, ComeKept
<1>7. CASE queue[j][k].state = "none"
  <2>1. k = req[r].stamp
    BY <1>1, <1>7 DEF EntryIds
  <2>2. \A i \in Jobs, l \in Stamps : ~ (i = j /\ l = k) => queue'[i][l] = queue[i][l]
    BY <1>1, <1>3, <1>7 DEF AddEntry, TInv, TypeOK
  <2>3. status[j] # "absent" /\ k <= retries[j] /\ k \in Nat /\ retries[j] \in Nat
    BY <1>1, <1>2, <1>3, <2>1, ConstantsAssumption DEF EntriesToCome, TInv, TypeOK, Stamps
  <2>4. \A q \in Reqs : req'[q].pc = "enqueue" =>
          req[q].job \in Jobs /\ req[q].stamp \in Stamps /\ ~ (req[q].job = j /\ req[q].stamp = k)
    BY <1>1, <1>2, <1>5, <2>1, ReqFields DEF EntriesToCome, TInv
  <2>5. \A i \in Jobs, l \in Stamps :
          l > retries[i] \/ status[i] = "absent" => queue'[i][l].state = "none"
    BY <2>2, <2>3 DEF EntriesToCome
  <2> QED
    BY <1>2, <1>5, <2>2, <2>4, <2>5 DEF EntriesToCome
<1> QED
  BY <1>6, <1>7

LEMMA ComeRetry ==
  ASSUME TInv, EntriesToCome, NEW r \in Reqs, RetryReset(r)
  PROVE  EntriesToCome'
<1>0. PICK j, k : j = req[r].job /\ k = retries[j] + 1
  OBVIOUS
<1>1. j \in Jobs /\ k \in Stamps /\ retries[j] \in Nat
  BY <1>0, ReqFields, ConstantsAssumption DEF RetryReset, TInv, TypeOK, Stamps
<1>2. /\ retries'[j] = k /\ status'[j] = "PENDING" /\ UNCHANGED queue
      /\ \A i \in Jobs : i # j => retries'[i] = retries[i] /\ status'[i] = status[i]
  BY <1>0, <1>1 DEF RetryReset, TInv, TypeOK
<1>3. req'[r].job = j /\ req'[r].stamp = k /\ \A q \in Reqs : q # r => req'[q] = req[q]
  BY <1>0 DEF RetryReset, TInv, TypeOK, Request
<1>4. \A q \in Reqs : req[q].pc = "enqueue" =>
        /\ req[q].job \in Jobs /\ req[q].stamp \in Nat
        /\ req[q].job = j => req[q].stamp < k
  BY <1>0, <1>1, ReqFields, ConstantsAssumption DEF TInv, EntriesToCome, Stamps
<1>5. queue[j][k].state = "none" /\ \A l \in Stamps : l > k => queue[j][l].state = "none"
  BY <1>0, <1>1, ConstantsAssumption DEF EntriesToCome, Stamps
<1>6. \A i \in Jobs, l \in Stamps :
        l > retries'[i] \/ status'[i] = "absent" => queue'[i][l].state = "none"
  BY <1>2, <1>5 DEF EntriesToCome
<1>7. ASSUME NEW q \in Reqs, req'[q].pc = "enqueue"
      PROVE  /\ status'[req'[q].job] # "absent"
             /\ req'[q].stamp <= retries'[req'[q].job]
             /\ queue'[req'[q].job][req'[q].stamp].state = "none"
  <2>1. CASE q = r
    BY <1>1, <1>2, <1>3, <1>5, <2>1, ConstantsAssumption DEF Stamps
  <2>2. CASE q # r /\ req[q].job = j
    BY <1>0, <1>1, <1>2, <1>3, <1>4, <1>7, <2>2 DEF EntriesToCome
  <2>3. CASE q # r /\ req[q].job # j
    BY <1>2, <1>3, <1>4, <1>7, <2>3 DEF EntriesToCome
  <2> QED
    BY <2>1, <2>2, <2>3
<1>8. ASSUME NEW p \in Reqs, NEW q \in Reqs, p # q, req'[p].pc = "enqueue", req'[q].pc = "enqueue",
             req'[p].job = req'[q].job
      PROVE  req'[p].stamp # req'[q].stamp
  <2>1. CASE p = r \/ q = r
    BY <1>1, <1>3, <1>4, <1>8, <2>1, ConstantsAssumption DEF Stamps
  <2>2. CASE p # r /\ q # r
    BY <1>3, <1>8, <2>2 DEF EntriesToCome
  <2> QED
    BY <2>1, <2>2
<1> QED
  BY <1>6, <1>7, <1>8 DEF EntriesToCome

\* Steps of a slot that leave its entry as it is.
LEMMA SlotStepsKeep ==
  ASSUME TInv, NEW w \in Workers,
         \/ Start(w) \/ CheckRow(w) \/ SaveRow(w) \/ SaveRowDuplicate(w)
         \/ Count(w) \/ Finish(w) \/ CatchWrite(w) \/ StepFails(w) \/ RecordFails(w)
         \/ \E out \in Outcomes : HandleRow(w, out)
  PROVE  /\ UNCHANGED <<queue, retries, req>>
         /\ \A j \in Jobs : status'[j] = "absent" => status[j] = "absent"
<1>1. CASE Start(w) \/ CheckRow(w) \/ SaveRow(w) \/ SaveRowDuplicate(w)
  BY <1>1 DEF Start, CheckRow, SaveRow, SaveRowDuplicate, TInv, TypeOK
<1>2. CASE Count(w) \/ StepFails(w) \/ RecordFails(w)
  BY <1>2 DEF Count, StepFails, RecordFails
<1>3. CASE Finish(w) \/ CatchWrite(w)
  BY <1>3 DEF Finish, CatchWrite, FinalStatus, TInv, TypeOK
<1>4. ASSUME NEW out \in Outcomes, HandleRow(w, out)
      PROVE  UNCHANGED <<queue, retries, req, status>>
  BY <1>4 DEF HandleRow
<1> QED
  BY <1>1, <1>2, <1>3, <1>4

\* What becomes of the entries when a slot lets go of its own.
LEMMA SlotReleases ==
  ASSUME TInv, NEW w \in Workers, ObserveCancel(w) \/ Ack(w) \/ Rethrow(w)
  PROVE  /\ \A i \in Jobs, l \in Stamps : queue[i][l].state # "active" => queue'[i][l] = queue[i][l]
         /\ worker[w].job \in Jobs
         /\ worker' = [worker EXCEPT ![w] = IdleWorker]
         /\ UNCHANGED <<status, retries, req>>
<1>1. worker[w].pc # "idle"
  BY DEF ObserveCancel, Ack, Rethrow
<1>2. PICK j, k : j = worker[w].job /\ k = worker[w].stamp
  OBVIOUS
<1>3. j \in Jobs /\ k \in Stamps /\ (w \notin lost => queue[j][k].state = "active")
  BY <1>1, <1>2, SlotBusy, SlotFields DEF TInv, HeldEntries
<1>4. (\E e : queue' = [queue EXCEPT ![j][k] = e]) \/ (w \in lost /\ queue' = queue)
  <2>1. CASE ObserveCancel(w) \/ Ack(w)
    <3>1. queue' = [queue EXCEPT ![j][k] = [queue[j][k] EXCEPT !.state = "done"]] \/ (w \in lost /\ queue' = queue)
      BY <1>2, <2>1 DEF ObserveCancel, Ack, Settle, Done, JobOf
    <3> QED
      BY <3>1
  <2>2. CASE Rethrow(w)
    <3> DEFINE e == [queue[j][k] EXCEPT !.tries = @ + 1,
                       !.state = IF queue[j][k].tries + 1 < Attempts THEN "waiting" ELSE "dead"]
    <3>1. queue' = [queue EXCEPT ![j][k] = e] \/ (w \in lost /\ queue' = queue)
      BY <1>2, <2>2 DEF Rethrow, Settle, FailAttempt, JobOf
    <3> HIDE DEF e
    <3> QED
      BY <3>1
  <2> QED
    BY <2>1, <2>2
<1>5. w \in lost => queue' = queue
  BY DEF ObserveCancel, Ack, Rethrow, Settle
<1>6. \A i \in Jobs, l \in Stamps : queue[i][l].state # "active" => queue'[i][l] = queue[i][l]
  <2>1. CASE w \in lost
    BY <1>5, <2>1
  <2>2. CASE w \notin lost
    <3>1. PICK e : queue' = [queue EXCEPT ![j][k] = e]
      BY <1>4, <2>2
    <3>2. \A i \in Jobs, l \in Stamps : ~ (i = j /\ l = k) => queue'[i][l] = queue[i][l]
      BY <1>3, <3>1 DEF TInv, TypeOK
    <3> QED
      BY <1>3, <2>2, <3>2
  <2> QED
    BY <2>1, <2>2
<1>7. worker' = [worker EXCEPT ![w] = IdleWorker] /\ UNCHANGED <<status, retries, req>>
  BY DEF ObserveCancel, Ack, Rethrow, Settle
<1> QED
  BY <1>2, <1>3, <1>6, <1>7

LEMMA ComeStep ==
  ASSUME TInv, EntriesToCome, [Next]_vars
  PROVE  EntriesToCome'
<1>i. IdleReq.pc = "idle" /\ \A p, j, f, k : Request(p, j, f, k).pc = p
  BY DEF IdleReq, Request
<1>1. CASE UNCHANGED vars
  BY <1>1, ComeKept DEF vars
<1>2. ASSUME NEW w \in Workers, NEW j \in Jobs, NEW k \in Stamps, Fetch(w, j, k)
      PROVE  EntriesToCome'
  <2>1. /\ queue' = [queue EXCEPT ![j][k] = [queue[j][k] EXCEPT !.state = "active"]]
        /\ queue[j][k].state # "none" /\ UNCHANGED <<retries, req, status>>
    BY <1>2 DEF Fetch
  <2> QED
    BY <2>1, ComeEntry
<1>3. ASSUME NEW w \in Workers, ObserveCancel(w) \/ Ack(w) \/ Rethrow(w)
      PROVE  EntriesToCome'
  BY <1>3, SlotReleases, ComeKept
<1>4. ASSUME NEW j \in Jobs, NEW k \in Stamps, Stall(j, k)
      PROVE  EntriesToCome'
  <2>1. /\ \E e : queue' = [queue EXCEPT ![j][k] = e]
        /\ queue[j][k].state # "none" /\ UNCHANGED <<retries, req, status>>
    BY <1>4 DEF Stall
  <2> QED
    BY <2>1, ComeEntry
<1>5. ASSUME NEW w \in Workers, WorkerStep(w)
      PROVE  EntriesToCome'
  <2>1. CASE \E j \in Jobs, k \in Stamps : Fetch(w, j, k)
    BY <1>2, <2>1
  <2>2. CASE ObserveCancel(w) \/ Ack(w) \/ Rethrow(w)
    BY <1>3, <2>2
  <2>3. CASE \/ Start(w) \/ CheckRow(w) \/ SaveRow(w) \/ SaveRowDuplicate(w)
             \/ Count(w) \/ Finish(w) \/ CatchWrite(w)
             \/ \E out \in Outcomes : HandleRow(w, out)
    BY <2>3, SlotStepsKeep, ComeKept
  <2> QED
    BY <1>5, <2>1, <2>2, <2>3 DEF WorkerStep
<1>6. ASSUME NEW r \in Reqs, CancelRemove(r)
      PROVE  EntriesToCome'
  <2>1. req[r].job \in Jobs
    BY <1>6, ReqFields DEF CancelRemove, TInv
  <2>2. NoEntry.state = "none"
    BY DEF NoEntry, Entry
  <2>3. \A i \in Jobs, l \in Stamps : queue'[i][l] = queue[i][l] \/ queue'[i][l].state = "none"
    BY <1>6, <2>1, <2>2, ZeroStamp DEF CancelRemove, TInv, TypeOK
  <2>4. \A q \in Reqs : req'[q].pc = "enqueue" => req'[q] = req[q]
    BY <1>6, <1>i DEF CancelRemove, TInv, TypeOK
  <2>5. UNCHANGED <<retries, status>>
    BY <1>6 DEF CancelRemove
  <2> QED
    BY <2>3, <2>4, <2>5, ComeKept
<1>7. ASSUME NEW r \in Reqs, CancelWrite(r)
      PROVE  EntriesToCome'
  <2>1. \A q \in Reqs : req'[q].pc = "enqueue" => req'[q] = req[q]
    BY <1>7, <1>i DEF CancelWrite, TInv, TypeOK
  <2>2. \A j \in Jobs : status'[j] = "absent" => status[j] = "absent"
    BY <1>7 DEF CancelWrite, TInv, TypeOK
  <2> QED
    BY <1>7, <2>1, <2>2, ComeKept DEF CancelWrite
<1>8. ASSUME NEW r \in Reqs, RequestFails(r) \/ RemoveFails(r) \/ ReqBegin(r)
      PROVE  EntriesToCome'
  <2>1. /\ \E x : x.pc # "enqueue" /\ req' = [req EXCEPT ![r] = x]
        /\ UNCHANGED <<queue, retries, status>>
    <3>1. CASE RequestFails(r) \/ RemoveFails(r)
      BY <1>i, <3>1 DEF RequestFails, RemoveFails
    <3>2. CASE ReqBegin(r)
      BY <1>i, <3>2 DEF ReqBegin, CreateCheck, CancelRead, RetryRead
    <3> QED
      BY <1>8, <3>1, <3>2
  <2>2. \A q \in Reqs : req'[q].pc = "enqueue" => req'[q] = req[q]
    BY <2>1 DEF TInv, TypeOK
  <2> QED
    BY <2>1, <2>2, ComeKept
<1>9. CASE Crash
  <2>1. \A q \in Reqs : req'[q].pc # "enqueue"
    BY <1>9, <1>i DEF Crash
  <2> QED
    BY <1>9, <2>1, ComeKept DEF Crash
<1>10. ASSUME NEW r \in Reqs, ReqStep(r)
       PROVE  EntriesToCome'
  BY <1>6, <1>7, <1>10, ComeCreate, ComeEnqueue, ComeRetry DEF ReqStep
<1>11. CASE FaultStep
  <2>1. ASSUME NEW w \in Workers, StepFails(w) \/ RecordFails(w)
        PROVE  EntriesToCome'
    BY <2>1, SlotStepsKeep, ComeKept
  <2>2. ASSUME NEW w \in Workers, LoseLock(w)
        PROVE  EntriesToCome'
    BY <2>2, ComeKept DEF LoseLock
  <2> QED
    BY <1>8, <1>9, <1>11, <2>1, <2>2 DEF FaultStep
<1> QED
  BY <1>1, <1>4, <1>5, <1>8, <1>10, <1>11 DEF Next

\* The slots that will still write to their job, and the ways a job waits for
\* one of them.
Working == {"row", "handle", "save", "count", "catch"}

Queued(j) ==
  \/ \E k \in Stamps : queue[j][k].state = "waiting"
  \/ \E w \in Workers : worker[w].job = j /\ worker[w].pc = "claimed"
  \/ \E r \in Reqs : req[r].job = j /\ req[r].pc \in {"enqueue", "cancel"}

NotForgotten == EntriesToCome /\ PendingIsQueued /\ ProcessingIsWorkedOn

LEMMA WorkedOnKept ==
  ASSUME ProcessingIsWorkedOn, faults = 0,
         \A j \in Jobs : status'[j] = "PROCESSING" =>
           \/ status[j] = "PROCESSING"
           \/ \E w \in Workers : worker'[w].job = j /\ worker'[w].pc \in Working,
         \A w \in Workers : worker[w].pc \in Working =>
           \/ worker'[w].pc \in Working /\ worker'[w].job = worker[w].job
           \/ status'[worker[w].job] # "PROCESSING"
  PROVE  ProcessingIsWorkedOn'
  BY DEF ProcessingIsWorkedOn, Working, JobOf

LEMMA QueuedKept ==
  ASSUME PendingIsQueued, faults = 0,
         \A j \in Jobs : status'[j] = "PENDING" => status[j] = "PENDING" \/ Queued(j)',
         \A j \in Jobs, k \in Stamps : queue[j][k].state = "waiting" =>
           queue'[j][k].state = "waiting" \/ Queued(j)',
         \A w \in Workers : worker[w].pc = "claimed" =>
           worker'[w] = worker[w] \/ status'[worker[w].job] # "PENDING",
         \A r \in Reqs, j \in Jobs : req[r].pc \in {"enqueue", "cancel"} /\ req[r].job = j =>
           req'[r] = req[r] \/ status'[j] # "PENDING" \/ Queued(j)'
  PROVE  PendingIsQueued'
<1> SUFFICES ASSUME NEW j \in Jobs, status'[j] = "PENDING"
             PROVE  Queued(j)'
  BY DEF PendingIsQueued, Queued, JobOf
<1>1. \/ Queued(j)'
      \/ \E k \in Stamps : queue[j][k].state = "waiting"
      \/ \E w \in Workers : worker[w].job = j /\ worker[w].pc = "claimed"
      \/ \E r \in Reqs : req[r].job = j /\ req[r].pc \in {"enqueue", "cancel"}
  BY DEF PendingIsQueued, Queued, JobOf
<1>2. CASE \E k \in Stamps : queue[j][k].state = "waiting"
  BY <1>2 DEF Queued
<1>3. CASE \E w \in Workers : worker[w].job = j /\ worker[w].pc = "claimed"
  BY <1>3 DEF Queued
<1>4. CASE \E r \in Reqs : req[r].job = j /\ req[r].pc \in {"enqueue", "cancel"}
  BY <1>4 DEF Queued
<1> QED
  BY <1>1, <1>2, <1>3, <1>4

\* A step of one slot inside process: only Start changes a claimed slot, and
\* the job it leaves is not one in PROCESSING.
LEMMA WorkingStep ==
  ASSUME TInv, NotForgotten, faults = 0, NEW w \in Workers,
         \/ Start(w) \/ CheckRow(w) \/ SaveRow(w) \/ SaveRowDuplicate(w)
         \/ Count(w) \/ Finish(w) \/ CatchWrite(w)
         \/ \E out \in Outcomes : HandleRow(w, out)
  PROVE  (PendingIsQueued /\ ProcessingIsWorkedOn)'
<1>1. worker[w].pc # "idle" /\ UNCHANGED <<queue, req>>
  BY SlotStepsKeep DEF Start, CheckRow, SaveRow, SaveRowDuplicate, Count, Finish, CatchWrite, HandleRow
<1>2. PICK j, s : j = worker[w].job /\ s = worker[w]
  OBVIOUS
<1>3. j \in Jobs /\ s \in BusySlot
  BY <1>1, <1>2, SlotBusy, SlotFields DEF TInv
<1>4. \A u \in Workers : u # w => worker'[u] = worker[u]
  BY DEF Start, CheckRow, SaveRow, SaveRowDuplicate, Count, Finish, CatchWrite, HandleRow, Leave, TInv, TypeOK
<1>5. CASE Start(w)
  <2>1. /\ status'[j] = "PROCESSING" /\ worker'[w].pc = "row" /\ worker'[w].job = j
        /\ \A i \in Jobs : i # j => status'[i] = status[i]
    BY <1>2, <1>3, <1>5, SlotMoves DEF Start, JobOf, TInv, TypeOK
  <2> QED
    BY <1>1, <1>2, <1>4, <1>5, <2>1, WorkedOnKept, QueuedKept DEF Start, NotForgotten, Working
<1>6. CASE Finish(w) \/ CatchWrite(w)
  <2>1. /\ status'[j] \in {"FAILED", "COMPLETED"} /\ worker[w].pc # "claimed"
        /\ \A i \in Jobs : i # j => status'[i] = status[i]
    BY <1>2, <1>3, <1>6 DEF Finish, CatchWrite, FinalStatus, JobOf, TInv, TypeOK
  <2> QED
    BY <1>1, <1>2, <1>4, <2>1, WorkedOnKept, QueuedKept DEF NotForgotten
<1>7. CASE \/ CheckRow(w) \/ SaveRow(w) \/ SaveRowDuplicate(w) \/ Count(w)
           \/ \E out \in Outcomes : HandleRow(w, out)
  <2>1. UNCHANGED status /\ worker[w].pc # "claimed"
    BY <1>7 DEF CheckRow, SaveRow, SaveRowDuplicate, Count, HandleRow
  <2>2. worker'[w].job = worker[w].job /\ worker'[w].pc \in Working
    <3>1. CASE CheckRow(w) \/ SaveRow(w)
      <4>1. PICK p \in {"handle", "count"} : worker'[w] = [s EXCEPT !.pc = p]
        BY <1>2, <3>1 DEF CheckRow, SaveRow, TInv, TypeOK
      <4> QED
        BY <1>2, <1>3, <4>1, SlotMoves DEF BusyPc, Working
    <3>2. CASE SaveRowDuplicate(w)
      BY <3>2 DEF SaveRowDuplicate, Leave, Slot, Working, TInv, TypeOK
    <3>3. CASE Count(w)
      BY <1>2, <1>3, <3>3 DEF Count, Working, BusySlot, TInv, TypeOK
    <3>4. ASSUME NEW out \in Outcomes, HandleRow(w, out)
          PROVE  worker'[w].job = worker[w].job /\ worker'[w].pc \in Working
      BY <1>2, <1>3, <3>4 DEF HandleRow, Working, BusySlot, TInv, TypeOK
    <3> QED
      BY <1>7, <3>1, <3>2, <3>3, <3>4
  <2> QED
    BY <1>1, <1>4, <2>1, <2>2, WorkedOnKept, QueuedKept DEF NotForgotten
<1> QED
  BY <1>5, <1>6, <1>7

LEMMA NotForgottenStep ==
  ASSUME TInv, NotForgotten, [Next]_vars
  PROVE  NotForgotten'
<1> SUFFICES ASSUME faults' = 0
             PROVE  (PendingIsQueued /\ ProcessingIsWorkedOn)'
  BY ComeStep DEF NotForgotten, PendingIsQueued, ProcessingIsWorkedOn
<1>i. /\ IdleReq.pc = "idle" /\ IdleWorker.pc = "idle"
      /\ \A p, j, f, k : Request(p, j, f, k).pc = p /\ Request(p, j, f, k).job = j
      /\ \A p, j, k : Slot(p, j, k).pc = p /\ Slot(p, j, k).job = j
  BY DEF IdleReq, Request, IdleWorker, Slot
<1>k. ASSUME faults = 0, UNCHANGED <<queue, worker, status>>,
             \A r \in Reqs : req[r].pc \in {"enqueue", "cancel"} => req'[r] = req[r]
      PROVE  (PendingIsQueued /\ ProcessingIsWorkedOn)'
  BY <1>k, WorkedOnKept, QueuedKept DEF NotForgotten
<1>1. CASE UNCHANGED vars
  BY <1>1, <1>k DEF vars
<1>2. CASE FaultStep
  <2>1. faults' = faults + 1 /\ faults \in Nat
    BY <1>2, ConstantsAssumption
    DEF FaultStep, RequestFails, RemoveFails, StepFails, RecordFails, Crash, LoseLock, Fault, TInv, TypeOK
  <2> QED
    BY <2>1
<1>3. ASSUME NEW w \in Workers, NEW j \in Jobs, NEW k \in Stamps, Fetch(w, j, k)
      PROVE  (PendingIsQueued /\ ProcessingIsWorkedOn)'
  <2>1. \A i \in Jobs, l \in Stamps : ~ (i = j /\ l = k) => queue'[i][l] = queue[i][l]
    BY <1>3 DEF Fetch, TInv, TypeOK
  <2>2. worker'[w].job = j /\ worker'[w].pc = "claimed" /\ worker[w].pc = "idle"
    BY <1>3, <1>i DEF Fetch, TInv, TypeOK
  <2>3. \A u \in Workers : u # w => worker'[u] = worker[u]
    BY <1>3 DEF Fetch, TInv, TypeOK
  <2>4. faults = 0 /\ UNCHANGED <<status, req>>
    BY <1>3 DEF Fetch
  <2>5. ProcessingIsWorkedOn'
    BY <2>2, <2>3, <2>4, WorkedOnKept DEF NotForgotten, Working
  <2>6. Queued(j)'
    BY <2>2 DEF Queued
  <2> QED
    BY <2>1, <2>2, <2>3, <2>4, <2>5, <2>6, QueuedKept DEF NotForgotten
<1>4. ASSUME NEW w \in Workers, ObserveCancel(w) \/ Ack(w) \/ Rethrow(w)
      PROVE  (PendingIsQueued /\ ProcessingIsWorkedOn)'
  <2> DEFINE j == worker[w].job
  <2>2. j \in Jobs /\ UNCHANGED <<status, req>> /\ worker' = [worker EXCEPT ![w] = IdleWorker]
    BY <1>4, SlotReleases
  <2>3. \A i \in Jobs, l \in Stamps : queue[i][l].state = "waiting" => queue'[i][l] = queue[i][l]
    BY <1>4, SlotReleases
  <2>4. \A u \in Workers : u # w => worker'[u] = worker[u]
    BY <2>2 DEF TInv, TypeOK
  <2>5. worker[w].pc # "claimed" /\ (worker[w].pc \in Working => status[j] # "PROCESSING") /\ faults = 0
    BY <1>4 DEF ObserveCancel, Ack, Rethrow, Working, JobOf
  <2>6. ProcessingIsWorkedOn'
    BY <2>2, <2>4, <2>5, WorkedOnKept DEF NotForgotten
  <2>7. PendingIsQueued'
    BY <2>2, <2>3, <2>4, <2>5, QueuedKept DEF NotForgotten
  <2> QED
    BY <2>6, <2>7
<1>5. ASSUME NEW j \in Jobs, NEW k \in Stamps, Stall(j, k)
      PROVE  (PendingIsQueued /\ ProcessingIsWorkedOn)'
  <2>1. PICK e : queue' = [queue EXCEPT ![j][k] = e]
    BY <1>5 DEF Stall
  <2>2. \A i \in Jobs, l \in Stamps : queue[i][l].state = "waiting" => queue'[i][l] = queue[i][l]
    BY <1>5, <2>1 DEF Stall, TInv, TypeOK
  <2>3. UNCHANGED <<status, worker, req>> /\ faults = 0
    BY <1>5 DEF Stall
  <2> QED
    BY <2>2, <2>3, WorkedOnKept, QueuedKept DEF NotForgotten
<1>6. ASSUME NEW w \in Workers, WorkerStep(w)
      PROVE  (PendingIsQueued /\ ProcessingIsWorkedOn)'
  <2>1. CASE \E j \in Jobs, k \in Stamps : Fetch(w, j, k)
    BY <1>3, <2>1
  <2>2. CASE ObserveCancel(w) \/ Ack(w) \/ Rethrow(w)
    BY <1>4, <2>2
  <2>3. CASE \/ Start(w) \/ CheckRow(w) \/ SaveRow(w) \/ SaveRowDuplicate(w)
             \/ Count(w) \/ Finish(w) \/ CatchWrite(w)
             \/ \E out \in Outcomes : HandleRow(w, out)
    <3>1. faults = 0
      BY <2>3 DEF Start, CheckRow, SaveRow, SaveRowDuplicate, Count, Finish, CatchWrite, HandleRow
    <3> QED
      BY <2>3, <3>1, WorkingStep
  <2> QED
    BY <1>6, <2>1, <2>2, <2>3 DEF WorkerStep
<1>7. ASSUME NEW r \in Reqs, CreateInsert(r) \/ RetryReset(r)
      PROVE  (PendingIsQueued /\ ProcessingIsWorkedOn)'
  <2>1. PICK j, k : /\ j \in Jobs /\ status' = [status EXCEPT ![j] = "PENDING"]
                    /\ req' = [req EXCEPT ![r] = Request("enqueue", j, "none", k)]
    <3>1. CASE CreateInsert(r)
      BY <3>1 DEF CreateInsert
    <3>2. CASE RetryReset(r)
      BY <3>2, ReqFields DEF RetryReset, TInv
    <3> QED
      BY <1>7, <3>1, <3>2
  <2>2. /\ UNCHANGED <<queue, worker>> /\ faults = 0 /\ req[r].pc \notin {"enqueue", "cancel"}
    BY <1>7 DEF CreateInsert, RetryReset
  <2>3. /\ req'[r].pc = "enqueue" /\ req'[r].job = j /\ status'[j] = "PENDING"
        /\ \A q \in Reqs : q # r => req'[q] = req[q]
        /\ \A i \in Jobs : i # j => status'[i] = status[i]
    BY <1>i, <2>1 DEF TInv, TypeOK
  <2>4. ProcessingIsWorkedOn'
    BY <2>2, <2>3, WorkedOnKept DEF NotForgotten
  <2>5. Queued(j)'
    BY <2>3 DEF Queued
  <2> QED
    BY <2>2, <2>3, <2>4, <2>5, QueuedKept DEF NotForgotten
<1>8. ASSUME NEW r \in Reqs, Enqueue(r)
      PROVE  (PendingIsQueued /\ ProcessingIsWorkedOn)'
  <2>1. PICK j, k : j = req[r].job /\ k \in EntryIds(r) /\ AddEntry(j, k)
    BY <1>8 DEF Enqueue
  <2>2. /\ req[r].pc = "enqueue" /\ UNCHANGED <<status, worker>> /\ faults = 0
        /\ req' = [req EXCEPT ![r] = IdleReq]
    BY <1>8 DEF Enqueue
  <2>3. j \in Jobs /\ k \in Stamps /\ req[r].stamp \in Stamps
    BY <2>1, <2>2, ReqFields, ConstantsAssumption DEF TInv, EntryIds, Stamps
  <2>4. queue[j][k].state \in {"none", "waiting"}
    BY <2>1, <2>2 DEF EntryIds, NotForgotten, EntriesToCome
  <2>5. Entry("waiting", 0, 0).state = "waiting"
    BY DEF Entry
  <2>6. queue'[j][k].state = "waiting"
    BY <2>1, <2>3, <2>4, <2>5 DEF AddEntry, TInv, TypeOK
  <2>7. \A i \in Jobs, l \in Stamps : queue[i][l].state = "waiting" => queue'[i][l] = queue[i][l]
    BY <2>1, <2>3, <2>4 DEF AddEntry, TInv, TypeOK
  <2>8. \A q \in Reqs : q # r => req'[q] = req[q]
    BY <2>2 DEF TInv, TypeOK
  <2>9. Queued(j)'
    BY <2>3, <2>6 DEF Queued
  <2>10. ProcessingIsWorkedOn'
    BY <2>2, WorkedOnKept DEF NotForgotten
  <2> QED
    BY <2>1, <2>2, <2>7, <2>8, <2>9, <2>10, QueuedKept DEF NotForgotten
<1>9. ASSUME NEW r \in Reqs, CancelRemove(r)
      PROVE  (PendingIsQueued /\ ProcessingIsWorkedOn)'
  <2>1. PICK j : j = req[r].job
    OBVIOUS
  <2>2. /\ req[r].pc = "remove" /\ UNCHANGED <<status, worker>> /\ faults = 0
        /\ req' = [req EXCEPT ![r] = Request("cancel", j, "none", 0)]
    BY <1>9, <2>1 DEF CancelRemove
  <2>3. j \in Jobs
    BY <2>1, <2>2, ReqFields DEF TInv
  <2>4. \A i \in Jobs, l \in Stamps : i # j => queue'[i][l] = queue[i][l]
    BY <1>9, <2>1, <2>3 DEF CancelRemove, TInv, TypeOK
  <2>5. /\ req'[r].pc = "cancel" /\ req'[r].job = j
        /\ \A q \in Reqs : q # r => req'[q] = req[q]
    BY <1>i, <2>2 DEF TInv, TypeOK
  <2>6. Queued(j)'
    BY <2>5 DEF Queued
  <2>7. ProcessingIsWorkedOn'
    BY <2>2, WorkedOnKept DEF NotForgotten
  <2> QED
    BY <2>2, <2>4, <2>5, <2>6, <2>7, QueuedKept DEF NotForgotten
<1>10. ASSUME NEW r \in Reqs, CancelWrite(r)
       PROVE  (PendingIsQueued /\ ProcessingIsWorkedOn)'
  <2>1. PICK j : j = req[r].job
    OBVIOUS
  <2>2. /\ req[r].pc = "cancel" /\ UNCHANGED <<queue, worker>> /\ faults = 0
        /\ status' = [status EXCEPT ![j] = "CANCELED"] /\ req' = [req EXCEPT ![r] = IdleReq]
    BY <1>10, <2>1 DEF CancelWrite
  <2>3. j \in Jobs
    BY <2>1, <2>2, ReqFields DEF TInv
  <2>4. /\ status'[j] = "CANCELED" /\ \A i \in Jobs : i # j => status'[i] = status[i]
        /\ \A q \in Reqs : q # r => req'[q] = req[q]
    BY <2>2, <2>3 DEF TInv, TypeOK
  <2>5. ProcessingIsWorkedOn'
    BY <2>2, <2>4, WorkedOnKept DEF NotForgotten
  <2> QED
    BY <2>1, <2>2, <2>4, <2>5, QueuedKept DEF NotForgotten
<1>11. ASSUME NEW r \in Reqs, ReqBegin(r)
       PROVE  (PendingIsQueued /\ ProcessingIsWorkedOn)'
  <2>1. /\ req[r].pc = "idle" /\ UNCHANGED <<queue, worker, status>> /\ faults = 0
        /\ \E x : req' = [req EXCEPT ![r] = x]
    BY <1>11 DEF ReqBegin, CreateCheck, CancelRead, RetryRead
  <2>2. \A q \in Reqs : q # r => req'[q] = req[q]
    BY <2>1 DEF TInv, TypeOK
  <2> QED
    BY <1>k, <2>1, <2>2
<1>12. ASSUME NEW r \in Reqs, ReqStep(r)
       PROVE  (PendingIsQueued /\ ProcessingIsWorkedOn)'
  BY <1>7, <1>8, <1>9, <1>10, <1>12 DEF ReqStep
<1> QED
  BY <1>1, <1>2, <1>5, <1>6, <1>11, <1>12 DEF Next

LEMMA NotForgottenInvariant == Spec => []NotForgotten
<1>1. Init => NotForgotten
  <2> SUFFICES ASSUME Init PROVE NotForgotten
    OBVIOUS
  <2>1. \A r \in Reqs : req[r].pc # "enqueue"
    BY DEF Init, IdleReq, Request
  <2>2. \A j \in Jobs, k \in Stamps : queue[j][k].state = "none"
    BY DEF Init, NoEntry, Entry
  <2>3. \A j \in Jobs : status[j] = "absent"
    BY DEF Init
  <2> QED
    BY <2>1, <2>2, <2>3 DEF NotForgotten, EntriesToCome, PendingIsQueued, ProcessingIsWorkedOn
<1> QED
  BY <1>1, NotForgottenStep, TypeInvariant, PTL DEF Spec

\* Until a crash or a failed call comes in between, no PENDING job is
\* forgotten: create and retry add the entry they committed to, BullMQ ignores
\* none of those adds, and cancel writes after it has removed one.
THEOREM PendingIsServed == Spec => []PendingIsQueued
  BY NotForgottenInvariant, PTL DEF NotForgotten

\* Until a crash or a failed call comes in between, process leaves no job in
\* PROCESSING behind, whatever cancel, retry and other attempts write to it.
THEOREM ProcessingIsServed == Spec => []ProcessingIsWorkedOn
  BY NotForgottenInvariant, PTL DEF NotForgotten
=============================================================================
