------------------------- MODULE SubmissionDecision -------------------------
(***************************************************************************)
(* What the review of applications promises about a submission, apart from *)
(* embeds, dialogs and handlers: ballots are cast and changed only while   *)
(* it is pending, one ballot at a time; only a ballot decides, and only    *)
(* for its own side; a decision can be turned but not withdrawn; the       *)
(* applicant is marked notified only of a decision.                        *)
(***************************************************************************)
CONSTANTS Submissions, Reviewers

VARIABLES status, votes, notified

decisionVars == <<status, votes, notified>>

Sides == [approve |-> "approved", deny |-> "denied"]
Outcomes == {"approved", "denied"}
Blank == [r \in Reviewers |-> "none"]

Init ==
  /\ status = [s \in Submissions |-> "none"]
  /\ votes = [s \in Submissions |-> Blank]
  /\ notified = [s \in Submissions |-> FALSE]

Arrive(s) ==
  /\ status[s] = "none"
  /\ status' = [status EXCEPT ![s] = "pending"]
  /\ UNCHANGED <<votes, notified>>

Cast(s, r, b) ==
  /\ status[s] = "pending"
  /\ votes' = [votes EXCEPT ![s][r] = b]
  /\ \E outcome \in {"pending", Sides[b]} : status' = [status EXCEPT ![s] = outcome]
  /\ UNCHANGED notified

Turn(s) ==
  /\ status[s] \in Outcomes
  /\ \E outcome \in Outcomes : status' = [status EXCEPT ![s] = outcome]
  /\ UNCHANGED <<votes, notified>>

Notify(s) ==
  /\ status[s] \in Outcomes
  /\ notified' = [notified EXCEPT ![s] = TRUE]
  /\ UNCHANGED <<status, votes>>

Discard ==
  /\ status' = [s \in Submissions |-> "deleted"]
  /\ votes' = [s \in Submissions |-> Blank]
  /\ notified' = [s \in Submissions |-> FALSE]

Next ==
  \/ \E s \in Submissions :
       \/ Arrive(s) \/ Turn(s) \/ Notify(s)
       \/ \E r \in Reviewers, b \in DOMAIN Sides : Cast(s, r, b)
  \/ Discard

Spec == Init /\ [][Next]_decisionVars
=============================================================================
