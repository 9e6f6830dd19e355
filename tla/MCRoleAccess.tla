---------------------------- MODULE MCRoleAccess ----------------------------
(* RoleAccess on small instances: two base roles and room for a third.     *)
EXTENDS RoleAccess, TLC

CONSTANTS admin, staff, extra  \* ids of Role rows

MCRoleIds  == {admin, staff, extra}
MCSeedName == admin :> "ADMIN" @@ staff :> "STAFF"

AccessSymmetry == Permutations(PermIds) \cup Permutations(Reqs)
=============================================================================
