------------------------ MODULE MCApplyConversation ------------------------
(* One long conversation with two messages on their way and two runs of     *)
(* state_submit; two conversations of the same member, to the end with one  *)
(* message on its way, and up to the confirmation with three, enough for an *)
(* introduction that is still on its way when the conversation is resumed.  *)
EXTENDS ApplyConversation, TLC

CONSTANTS c1, c2

Long == [questions |-> 3, foreignKeys |-> FALSE, clicks |-> 1, submits |-> 2, sends |-> 2]
Two == [questions |-> 1, foreignKeys |-> TRUE, clicks |-> 2, submits |-> 1, sends |-> 1]
Late == [questions |-> 1, foreignKeys |-> TRUE, clicks |-> 2, submits |-> 0, sends |-> 3]
LongTwoOrLate == {Long, Two, Late}

\* The conversations differ by what happens to them only.
Alike == Permutations(Convs)
=============================================================================
