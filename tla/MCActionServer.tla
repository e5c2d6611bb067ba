---------------------------- MODULE MCActionServer ----------------------------
(***************************************************************************)
(* Small instances of ActionServer for TLC.                                *)
(***************************************************************************)
EXTENDS ActionServer

OnAndOff == BOOLEAN
===============================================================================
