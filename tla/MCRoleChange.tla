---------------------------- MODULE MCRoleChange ----------------------------
(* RoleChange with two administrators and two workers.                     *)
EXTENDS RoleChange

CONSTANTS none
=============================================================================
