---------------------------- MODULE MCPackDeposit ----------------------------
(***************************************************************************)
(* An instance of PackDeposit for TLC.                                     *)
(***************************************************************************)
EXTENDS PackDeposit
=============================================================================
