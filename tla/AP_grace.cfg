\* Two accounts of one mailbox, two invocations of the sweep, one sign-in.
SPECIFICATION Spec
CONSTANTS
  Callers = {c1}
  MaxWindows = 3
  NoWindow = NoWindow
  Users = {u1, u2}
  Addresses = {plain, dotted}
  Grace = 1
  Handlers = {h1}
INVARIANT GraceRestores
