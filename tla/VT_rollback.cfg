\* One request and one sweep at a time: a rollback to the snapshot of an archive pass.
SPECIFICATION Spec
CONSTANTS
  t1 = t1
  t2 = t2
  t3 = t3
  h1 = h1
  h2 = h2
  s1 = s1
  s2 = s2
  NoOne = NoOne
  Terms = {t1, t2, t3}
  Conflicts <- MCConflicts
  MaxLinks = 2
  Quotas = {1, 2}
  Batches <- MCBatches
  Handlers = {h1}
  Sweeps = {s1}
  MaxSnapshots = 1
  MaxInFlight = 2
PROPERTY RollbackExact
