---------------------------- MODULE MCRbacSerial ----------------------------
(***************************************************************************)
(* The instances of MCRbac, for the module with the history variable.      *)
(***************************************************************************)
EXTENDS RbacSerial, MCRbac
=============================================================================
