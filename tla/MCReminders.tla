----------------------------- MODULE MCReminders -----------------------------
(* Instances of Reminders for TLC: the constants are in the cfgs. *)
EXTENDS Reminders

CONSTANTS r1, r2, a1, a2
=============================================================================
