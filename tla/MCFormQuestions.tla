--------------------------- MODULE MCFormQuestions ---------------------------
(* Instances of FormQuestions for TLC: the constants are in the cfgs. *)
EXTENDS FormQuestions, TLC

CONSTANTS a1, a2

Interchangeable == Permutations(Admins)
=============================================================================
