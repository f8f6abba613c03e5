------------------------ MODULE MCApplicationReview ------------------------
(* Instances of ApplicationReview for TLC: the constants are in the cfgs. *)
EXTENDS ApplicationReview

CONSTANTS r1, r2, s1, s2
=============================================================================
