-------------------------- MODULE MCInventoryGraph --------------------------
(* Instances of InventoryGraph for TLC: every graph on four nodes, one of  *)
(* which may depend on itself.                                             *)
EXTENDS InventoryGraph

MCNodeIds == 1..4
=============================================================================
