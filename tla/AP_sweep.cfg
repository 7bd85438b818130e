\* Two accounts of one mailbox, two invocations of the sweep, one sign-in.
SPECIFICATION FairSpec
CONSTANTS
  Callers = {c1, c2}
  MaxWindows = 2
  NoWindow = NoWindow
  Users = {u1, u2}
  Addresses = {plain, dotted}
  Grace = 1
  Handlers = {h1}
INVARIANTS TypeOK AtMostOncePerWindow OneLiveAccount
PROPERTY OverdueIsPurged
