\* Two overlapping requests on two team policies of one author, whose versions share their snapshots.
SPECIFICATION Spec
CONSTANTS
  p1 = p1
  p2 = p2
  alice = alice
  bob = bob
  carol = carol
  h1 = h1
  h2 = h2
  Policies = {p1, p2}
  MaxVersion = 1
  Users = {alice, bob}
  TeamPolicies = {p1, p2}
  PolicyOwner <- MCOwner
  TeamRole <- MCTeamRole
  Contents = {c1}
  Handlers = {h1, h2}
  MaxRef = 2
SYMMETRY TwoSymmetry
INVARIANTS TypeOK RefCountCovers BinIffTrashed ReviewedBeforeExecutable FrozenAsSealed
PROPERTY CountedOncePerSubmission
