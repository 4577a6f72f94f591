--------------------------- MODULE MCAccessControl ---------------------------
(* Small instances of AccessControl for TLC: two successive sso-admin apps, *)
(* the first with two roles.                                                *)
EXTENDS AccessControl, TLC

CONSTANTS a1, a2, r1, r2, r3

MCAppOf == r1 :> a1 @@ r2 :> a1 @@ r3 :> a2

Read == [resource |-> "audit", action |-> "read"]
Wild == [resource |-> "audit", action |-> "*"]

MCRolePermissions == r1 :> {Read} @@ r2 :> {Wild} @@ r3 :> {Read}
=============================================================================
