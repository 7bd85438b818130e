\* Two overlapping ticks on one import of three rows.
SPECIFICATION Spec
CONSTANTS
  t1 = t1
  t2 = t2
  t3 = t3
  w1 = w1
  w2 = w2
  NoOne = NoOne
  Invalid = Invalid
  MaxJobs = 1
  RowCount = 3
  Content <- MCContent
  Terms = {t1, t2}
  ChunkSize = 2
  Quotas = {0, 1, 2}
  Workers = {w1, w2}
  MaxChunks = 2
  MaxCrashes = 1
  SlowWorkers = TRUE
SYMMETRY WorkerSymmetry
INVARIANTS TypeOK RowsAccounted
PROPERTIES EndedIsFinal ImportsWithinQuota ImplementsBulkImport
