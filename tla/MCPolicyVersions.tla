-------------------------- MODULE MCPolicyVersions --------------------------
(* Small instances of PolicyVersions. *)
EXTENDS PolicyVersions, TLC

CONSTANTS p1, p2, alice, bob, carol, h1, h2

MCOwner == [p \in Policies |-> alice]

(* alice created the policies and is an admin of the team, bob its owner.      *)
MCTeamRole == [u \in Users |-> IF u = alice THEN "admin"
                               ELSE IF u = bob THEN "owner" ELSE "viewer"]

TwoSymmetry == Permutations(Handlers) \cup Permutations(Policies)
=============================================================================
