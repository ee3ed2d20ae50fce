-------------------------- MODULE MCUpdateOutcomes --------------------------
(***************************************************************************)
(* UpdateOutcomes with the rules of MCSpreadsheet.                         *)
(***************************************************************************)
EXTENDS UpdateOutcomes, MCSpreadsheet
=============================================================================
