----------------------------- MODULE MC_Driver -----------------------------
(***************************************************************************)
(* TLC instances of CC3000Driver; the configurations give the bounds and   *)
(* the switches of the controller's behaviour.                             *)
(***************************************************************************)
EXTENDS CC3000Driver
=============================================================================
