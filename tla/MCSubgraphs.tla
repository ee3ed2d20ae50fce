---------------------------- MODULE MCSubgraphs ----------------------------
(***************************************************************************)
(* Regions over a small graph.                                             *)
(***************************************************************************)
EXTENDS Subgraphs

CONSTANT Sources

INSTANCE OlderRules
=============================================================================
