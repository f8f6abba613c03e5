-------------------------- MODULE MCCraftingBoard --------------------------
(* The instance of CraftingBoard for TLC. *)
EXTENDS CraftingBoard, TLC

\* Neither the handlers nor the descriptions are told apart.
Symmetry == Permutations(Handlers) \cup Permutations(Texts)
=============================================================================
