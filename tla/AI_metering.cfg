\* Three calls, of which two at a time, on a quota of one.
SPECIFICATION FairSpec
CONSTANTS
  Calls = {c1, c2, c3}
  Limit = 1
  MaxOpen = 2
INVARIANTS TypeOK SettledAsSeen
PROPERTIES GateSeesStreams RowsOnlyGain SeenIsSettled
CHECK_DEADLOCK FALSE
