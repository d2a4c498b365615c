-------------------------- MODULE MCMSIRefinement ---------------------------
(***************************************************************************)
(* Instances of MSIRefinement for the model checker.                       *)
(***************************************************************************)
EXTENDS MSIRefinement, MCMSI
=============================================================================
