-------------------------- MODULE MCCraftingOrders --------------------------
(* Instances of CraftingOrders for TLC: the constants are in the cfgs. *)
EXTENDS CraftingOrders

CONSTANTS bob, eve, o1
=============================================================================
