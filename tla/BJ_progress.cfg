\* Two imports, two overlapping ticks of which one may die.
SPECIFICATION FairSpec
CONSTANTS
  t1 = t1
  t2 = t2
  t3 = t3
  w1 = w1
  w2 = w2
  NoOne = NoOne
  Invalid = Invalid
  MaxJobs = 2
  RowCount = 2
  Content <- MCShortContent
  Terms = {t1}
  ChunkSize = 1
  Quotas = {0, 1}
  Workers = {w1, w2}
  MaxChunks = 1
  MaxCrashes = 1
  SlowWorkers = FALSE
PROPERTY EveryJobEnds
