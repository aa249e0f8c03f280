------------------------------- MODULE MC_Flow -------------------------------
(***************************************************************************)
(* Model checking of FlowControl: the two constants are set in the .cfg    *)
(* files.  Three buffers and five packets let the host run out of buffers, *)
(* lose more than one update and send again with what is left.             *)
(***************************************************************************)
EXTENDS FlowControl
=============================================================================
