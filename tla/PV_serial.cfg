\* One request at a time on a team policy with three versions.
SPECIFICATION Spec
CONSTANTS
  p1 = p1
  p2 = p2
  alice = alice
  bob = bob
  carol = carol
  h1 = h1
  h2 = h2
  Policies = {p1}
  MaxVersion = 3
  Users = {alice, bob}
  TeamPolicies = {p1}
  PolicyOwner <- MCOwner
  TeamRole <- MCTeamRole
  Contents = {c1}
  Handlers = {h1}
  MaxRef = 2
INVARIANTS RunsOneApproved RefCountExact
