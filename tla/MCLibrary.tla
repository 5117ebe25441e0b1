------------------------------ MODULE MCLibrary ------------------------------
(* Two files of one journey.                                                 *)
EXTENDS Library

MCBudgets == {}
=============================================================================
