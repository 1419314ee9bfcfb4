-------------------------------- MODULE MCCombat --------------------------------
(* CombatList by itself, for TLC. *)
EXTENDS CombatList

Spec == CombatSpec
=============================================================================
