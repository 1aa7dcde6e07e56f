CONSTANTS
  Jobs = {j1}
  Files = {f1}
  Reqs = {r1, r2}
  Outcomes = {"SUCCESS", "ERROR"}
  Workers = {w1, w2}
  NumRows = 2
  Attempts = 2
  MaxStalls = 1
  MaxRetries = 2
  MaxFaults = 1
  Sheets <- MCSheets
  MaxSize = 2
  MaxRows = 2
  HandKeys = {"document"}
  MaxChanges = 4
  Cells <- MCCells
SPECIFICATION MCSpec
SYMMETRY Symmetry
INVARIANTS PendingIsQueued ProcessingIsWorkedOn CountsMatchResults OneSlotRecords PreviewedImportFits ReadsWhatWasWritten
PROPERTIES RecordKept
CHECK_DEADLOCK FALSE
