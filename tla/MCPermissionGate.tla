--------------------------- MODULE MCPermissionGate ---------------------------
(***************************************************************************)
(* An instance of PermissionGate for TLC: two requests of one batch, and   *)
(* answers enough to answer one of them twice.                             *)
(***************************************************************************)
EXTENDS PermissionGate, TLC
=============================================================================
