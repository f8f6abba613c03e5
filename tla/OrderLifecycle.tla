--------------------------- MODULE OrderLifecycle ---------------------------
(***************************************************************************)
(* What a crafting order promises its creator and its crafters: it is      *)
(* taken by one crafter at a time, given back only by being opened again,  *)
(* and once closed it is neither reopened nor handed to anybody.  Cards,   *)
(* threads, direct messages and the order's bookkeeping are not seen here. *)
(***************************************************************************)
CONSTANTS Orders, Crafters, Nobody

VARIABLES status, crafter
vars == <<status, crafter>>

Init ==
  /\ status = [o \in Orders |-> "none"]
  /\ crafter = [o \in Orders |-> Nobody]

Become(o, s, c) ==
  /\ status' = [status EXCEPT ![o] = s]
  /\ crafter' = [crafter EXCEPT ![o] = c]

Place(o)    == status[o] = "none" /\ Become(o, "open", Nobody)
Withdraw(o) == status[o] = "open" /\ crafter[o] = Nobody /\ Become(o, "withdrawn", Nobody)
Take(o)     == status[o] = "open" /\ \E c \in Crafters : Become(o, "in_progress", c)
Release(o)  == status[o] = "in_progress" /\ Become(o, "open", Nobody)
Deliver(o)  == status[o] = "in_progress" /\ Become(o, "completed", crafter[o])
Cancel(o)   == status[o] \in {"open", "in_progress"} /\ Become(o, "cancelled", crafter[o])

Next ==
  \E o \in Orders :
    Place(o) \/ Withdraw(o) \/ Take(o) \/ Release(o) \/ Deliver(o) \/ Cancel(o)

Spec == Init /\ [][Next]_vars
=============================================================================
