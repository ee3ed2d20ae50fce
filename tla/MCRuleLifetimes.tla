-------------------------- MODULE MCRuleLifetimes --------------------------
(***************************************************************************)
(* Rules under regions, and as many descriptors as there are derived       *)
(* nodes: all of them are installed, or one is rejected.                   *)
(***************************************************************************)
EXTENDS RuleLifetimes

CONSTANT Sources

INSTANCE OlderRules
=============================================================================
