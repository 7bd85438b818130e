\* Two overlapping execute requests, two versions, one writer between commit and invalidation.
SPECIFICATION Spec
CONSTANTS
  e1 = e1
  e2 = e2
  Executors = {e1, e2}
  MaxVersion = 2
  MaxPending = 1
SYMMETRY ExecutorSymmetry
INVARIANTS TypeOK StableSelectionRuns FreshWhenInvalidated
