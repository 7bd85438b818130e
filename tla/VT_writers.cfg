\* Two overlapping requests and two overlapping retention sweeps on one vocabulary group.
SPECIFICATION Spec
CONSTANTS
  t1 = t1
  t2 = t2
  t3 = t3
  h1 = h1
  h2 = h2
  s1 = s1
  s2 = s2
  NoOne = NoOne
  Terms = {t1, t2, t3}
  Conflicts <- MCConflicts
  MaxLinks = 2
  Quotas = {1, 2}
  Batches <- MCBatches
  Handlers = {h1, h2}
  Sweeps = {s1, s2}
  MaxSnapshots = 1
  MaxInFlight = 2
SYMMETRY MCSymmetry
INVARIANTS TypeOK ConflictsOnlyByReturn
PROPERTIES AddsWithinQuotaRead ArchivedOnce
