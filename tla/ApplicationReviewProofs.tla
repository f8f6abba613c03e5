----------------------- MODULE ApplicationReviewProofs -----------------------
(* Proofs about ApplicationReview, for every set of submissions, reviewers  *)
(* and thresholds, and every bound.                                         *)
EXTENDS ApplicationReview, FiniteSetTheorems, TLAPS

\* A snapshot renders to something an embed can show.
LEMMA TallyNat ==
  ASSUME NEW ballots, NEW v
  PROVE  Tally(ballots, v) \in Nat
  BY ReviewersAssumption, FS_Subset, FS_CardinalityType,
     {r \in Reviewers : ballots[r] = v} \subseteq Reviewers DEF Tally

LEMMA RenderedShown ==
  ASSUME TypeOK, NEW s \in Submissions, Row(s)
  PROVE  Rendered(s) \in Shown
  BY TallyNat DEF TypeOK, Row, Status, Rendered, Shown, Decided

-----------------------------------------------------------------------------
(* Type correctness.                                                         *)

LEMMA InitType == Init => TypeOK
  BY DEF Init, TypeOK, Status, NoVotes, Dialog

LEMMA OpenType ==
  ASSUME TypeOK, NEW r \in Reviewers, NEW d \in Dialog, Open(r, d)
  PROVE  TypeOK'
  BY DEF TypeOK, Open, rows, history

LEMMA RecordType ==
  ASSUME TypeOK, NEW r \in Reviewers, NEW s \in Submissions, NEW v \in Ballots,
         Record(r, s, v)
  PROVE  TypeOK'
  <1> DEFINE ballots == [votes[s] EXCEPT ![r] = v]
  <1>1. ballots \in [Reviewers -> Ballots \cup {"none"}]
    BY DEF TypeOK
  <1>2. Verdict(ballots, v) \in {"pending"} \cup Decided
    BY DEF Verdict, DecisionOf, Decided
  <1> HIDE DEF ballots
  <1>3. /\ votes' = [votes EXCEPT ![s] = ballots]
        /\ status' = [status EXCEPT ![s] = Verdict(ballots, v)]
        /\ due' = [due EXCEPT ![s] = @ + 1]
        /\ UNCHANGED <<notified, required, embed, dialog, marking, refresh, history>>
    BY DEF Record, ballots
  <1>4. status' \in [Submissions -> Status]
    BY <1>2, <1>3 DEF TypeOK, Status
  <1> QED
    BY <1>1, <1>3, <1>4 DEF TypeOK, history

LEMMA ReviewerType ==
  ASSUME TypeOK, NEW r \in Reviewers, ReviewerStep(r)
  PROVE  TypeOK'
  <1>1. ASSUME NEW s \in Submissions, ClickVote(r, s) PROVE TypeOK'
    <2>1. [kind |-> "vote", sub |-> s] \in Dialog
      BY DEF Dialog
    <2> QED BY <1>1, <2>1, OpenType DEF ClickVote
  <1>2. ASSUME NEW s \in Submissions, ClickEditVote(r, s) PROVE TypeOK'
    <2>1. [kind |-> "edit", sub |-> s, current |-> votes[s][r]] \in Dialog
      BY <1>2 DEF Dialog, TypeOK, ClickEditVote
    <2> QED BY <1>2, <2>1, OpenType DEF ClickEditVote
  <1>3. ASSUME NEW s \in Submissions, ClickMessage(r, s) PROVE TypeOK'
    <2>1. [kind |-> "message", sub |-> s] \in Dialog
      BY DEF Dialog
    <2> QED BY <1>3, <2>1, OpenType DEF ClickMessage
  <1>4. ASSUME NEW s \in Submissions, ClickOverride(r, s) PROVE TypeOK'
    <2>1. [kind |-> "override", sub |-> s, current |-> status[s]] \in Dialog
      BY <1>4 DEF Dialog, ClickOverride
    <2> QED BY <1>4, <2>1, OpenType DEF ClickOverride
  <1>5. ASSUME NEW v \in Ballots, SubmitVote(r, v) PROVE TypeOK'
    <2>1. dialog[r].sub \in Submissions
      BY <1>5 DEF TypeOK, Dialog, SubmitVote, Closed
    <2> QED BY <1>5, <2>1, RecordType DEF SubmitVote
  <1>6. ASSUME NEW v \in Ballots, SubmitEdit(r, v) PROVE TypeOK'
    <2>1. dialog[r].sub \in Submissions
      BY <1>6 DEF TypeOK, Dialog, SubmitEdit, Closed
    <2> QED BY <1>6, <2>1, RecordType DEF SubmitEdit
  <1>7. CASE SubmitMessage(r)
    <2>1. dialog[r].sub \in Submissions
      BY <1>7 DEF TypeOK, Dialog, SubmitMessage, Closed
    <2>2. marking' \in [Submissions -> Nat]
      BY <1>7, <2>1 DEF SubmitMessage, TypeOK
    <2>3. dialog' \in [Reviewers -> Dialog]
      BY <1>7 DEF SubmitMessage, TypeOK, Dialog
    <2> QED BY <1>7, <2>2, <2>3 DEF SubmitMessage, TypeOK, rows, history
  <1>8. CASE SubmitOverride(r)
    <2>1. dialog[r].sub \in Submissions
      BY <1>8 DEF TypeOK, Dialog, SubmitOverride, Closed
    <2>2. OtherDecision(dialog[r].current) \in Status
      BY DEF OtherDecision, Status, Decided
    <2> QED BY <1>8, <2>1, <2>2 DEF SubmitOverride, TypeOK, Dialog, history
  <1>9. CASE Dismiss(r)
    BY <1>9, OpenType DEF Dismiss, Dialog
  <1> QED
    BY <1>1, <1>2, <1>3, <1>4, <1>5, <1>6, <1>7, <1>8, <1>9 DEF ReviewerStep

LEMMA StepType == TypeOK /\ [Next]_vars => TypeOK'
  <1> SUFFICES ASSUME TypeOK, [Next]_vars PROVE TypeOK'
    OBVIOUS
  <1>1. ASSUME NEW r \in Reviewers, ReviewerStep(r) PROVE TypeOK'
    BY <1>1, ReviewerType
  <1>2. ASSUME NEW s \in Submissions, Submit(s) PROVE TypeOK'
    <2>1. [status |-> "pending", approvals |-> 0, denials |-> 0, notified |-> FALSE] \in Shown
      BY DEF Shown
    <2>2. "pending" \in Status
      BY DEF Status
    <2> QED BY <1>2, <2>1, <2>2 DEF Submit, TypeOK, history
  <1>3. ASSUME NEW s \in Submissions, MarkNotified(s) PROVE TypeOK'
    BY <1>3 DEF MarkNotified, TypeOK, history
  <1>4. ASSUME NEW s \in Submissions, MessageExpires(s) PROVE TypeOK'
    BY <1>4 DEF MessageExpires, TypeOK, history, rows
  <1>5. ASSUME NEW s \in Submissions, UpdateEmbed(s) PROVE TypeOK'
    <2>1. embed' \in [Submissions -> Shown \cup {NoEmbed}]
      <3>1. CASE Row(s)
        <4>1. embed \in [Submissions -> Shown \cup {NoEmbed}] /\ Rendered(s) \in Shown
          BY <3>1, RenderedShown DEF TypeOK
        <4>2. embed' = [embed EXCEPT ![s] = Rendered(s)]
          BY <1>5, <3>1 DEF UpdateEmbed
        <4> QED BY <4>1, <4>2
      <3>2. CASE ~Row(s)
        BY <1>5, <3>2 DEF UpdateEmbed, TypeOK
      <3> QED BY <3>1, <3>2
    <2>2. rewrite' \in [Submissions -> {"row", "refresh", "failed"}]
      BY <1>5 DEF UpdateEmbed, TypeOK
    <2>3. due' \in [Submissions -> Nat]
      BY <1>5 DEF UpdateEmbed, TypeOK
    <2> QED BY <1>5, <2>1, <2>2, <2>3 DEF UpdateEmbed, TypeOK, rows
  <1>6. ASSUME NEW s \in Submissions, UpdateFails(s) PROVE TypeOK'
    BY <1>6 DEF UpdateFails, TypeOK, rows
  <1>7. ASSUME NEW s \in Submissions, RefreshEdit(s) PROVE TypeOK'
    BY <1>7 DEF RefreshEdit, TypeOK, rows
  <1>8. ASSUME NEW s \in Submissions, RefreshSkips(s) PROVE TypeOK'
    BY <1>8 DEF RefreshSkips, TypeOK, rows, history
  <1>9. CASE StartRefresh
    <2>1. \A s \in Submissions : status[s] = "pending" => Rendered(s) \in Shown
      BY RenderedShown DEF Row
    <2> QED BY <1>9, <2>1 DEF StartRefresh, TypeOK, rows, history
  <1>10. ASSUME NEW v \in Ballots, NEW n \in Thresholds, ChangeSettings(v, n) PROVE TypeOK'
    BY <1>10 DEF ChangeSettings, TypeOK, rows
  <1>11. CASE DeleteForm
    BY <1>11 DEF DeleteForm, TypeOK, history, Status, NoVotes
  <1>12. CASE Restart
    BY <1>12 DEF Restart, TypeOK, rows, Dialog
  <1>13. CASE UNCHANGED vars
    BY <1>13 DEF vars, rows, history, TypeOK
  <1> QED
    BY <1>1, <1>2, <1>3, <1>4, <1>5, <1>6, <1>7, <1>8, <1>9, <1>10, <1>11, <1>12, <1>13
    DEF Next, HandlerStep

\* TypeOK holds in every state of every behaviour.
THEOREM TypeCorrect == Spec => []TypeOK
  BY InitType, StepType, PTL DEF Spec

-----------------------------------------------------------------------------
(* Counting ballots.                                                         *)

LEMMA TallyNoVotes == \A v \in Ballots : Tally(NoVotes, v) = 0
  <1> SUFFICES ASSUME NEW v \in Ballots PROVE Tally(NoVotes, v) = 0
    OBVIOUS
  <1>1. {r \in Reviewers : NoVotes[r] = v} = {}
    BY DEF NoVotes, Ballots
  <1> QED BY <1>1, FS_EmptySet DEF Tally

\* A ballot for one side never adds to the other side's count.
LEMMA TallyOther ==
  ASSUME NEW old \in [Reviewers -> Ballots \cup {"none"}], NEW r \in Reviewers,
         NEW v \in Ballots, NEW w \in Ballots, w # v
  PROVE  Tally([old EXCEPT ![r] = v], w) <= Tally(old, w)
  <1> DEFINE new == [old EXCEPT ![r] = v]
             A == {q \in Reviewers : new[q] = w}
             B == {q \in Reviewers : old[q] = w}
  <1>1. A \subseteq B
    OBVIOUS
  <1>2. IsFiniteSet(B)
    BY FS_Subset, ReviewersAssumption, B \subseteq Reviewers
  <1>3. Cardinality(A) <= Cardinality(B)
    BY <1>1, <1>2, FS_Subset
  <1> QED BY <1>3 DEF Tally

-----------------------------------------------------------------------------
(* The steps that touch the rows, and what they do to them.                  *)

\* Every other step leaves the rows alone.
LEMMA RowSteps ==
  ASSUME TypeOK, [Next]_vars
  PROVE  \/ \E s \in Submissions : Submit(s)
         \/ \E r \in Reviewers, s \in Submissions, v \in Ballots : Record(r, s, v)
         \/ \E r \in Reviewers : SubmitOverride(r) /\ dialog[r].sub \in Submissions
         \/ \E s \in Submissions : MarkNotified(s)
         \/ \E v \in Ballots, n \in Thresholds : ChangeSettings(v, n)
         \/ DeleteForm
         \/ UNCHANGED <<status, votes, notified, required, crossed>>
  <1>1. ASSUME NEW r \in Reviewers, NEW v \in Ballots, SubmitVote(r, v)
        PROVE  \E s \in Submissions : Record(r, s, v)
    BY <1>1 DEF TypeOK, Dialog, SubmitVote, Closed
  <1>2. ASSUME NEW r \in Reviewers, NEW v \in Ballots, SubmitEdit(r, v)
        PROVE  \E s \in Submissions : Record(r, s, v)
    BY <1>2 DEF TypeOK, Dialog, SubmitEdit, Closed
  <1>3. ASSUME NEW r \in Reviewers, SubmitOverride(r) PROVE dialog[r].sub \in Submissions
    BY <1>3 DEF TypeOK, Dialog, SubmitOverride, Closed
  <1>4. ASSUME NEW r \in Reviewers, NEW s \in Submissions,
               ClickVote(r, s) \/ ClickEditVote(r, s) \/ ClickMessage(r, s) \/ ClickOverride(r, s)
        PROVE  UNCHANGED <<status, votes, notified, required, crossed>>
    BY <1>4 DEF ClickVote, ClickEditVote, ClickMessage, ClickOverride, Open, rows, history
  <1>5. ASSUME NEW r \in Reviewers, Dismiss(r) \/ SubmitMessage(r)
        PROVE  UNCHANGED <<status, votes, notified, required, crossed>>
    BY <1>5 DEF Dismiss, SubmitMessage, Open, rows, history
  <1>6. ASSUME NEW s \in Submissions,
               MessageExpires(s) \/ UpdateEmbed(s) \/ UpdateFails(s) \/ RefreshEdit(s) \/ RefreshSkips(s)
        PROVE  UNCHANGED <<status, votes, notified, required, crossed>>
    BY <1>6 DEF MessageExpires, UpdateEmbed, UpdateFails, RefreshEdit, RefreshSkips, rows, history
  <1>7. StartRefresh \/ Restart \/ UNCHANGED vars
        => UNCHANGED <<status, votes, notified, required, crossed>>
    BY DEF StartRefresh, Restart, vars, rows, history
  <1>8. CASE UNCHANGED vars
    BY <1>7, <1>8
  <1>9. CASE \E r \in Reviewers : ReviewerStep(r)
    BY <1>1, <1>2, <1>3, <1>4, <1>5, <1>9 DEF ReviewerStep
  <1>10. CASE Next /\ ~\E r \in Reviewers : ReviewerStep(r)
    BY <1>6, <1>7, <1>10 DEF Next, HandlerStep
  <1> QED BY <1>8, <1>9, <1>10

\* What a recorded vote does to its submission.
LEMMA RecordOutcome ==
  ASSUME TypeOK, NEW r \in Reviewers, NEW s \in Submissions, NEW v \in Ballots,
         Record(r, s, v)
  PROVE  /\ status[s] = "pending"
         /\ status'[s] \in {"pending"} \cup Decided
         /\ status'[s] \in Decided => status'[s] = DecisionOf(v) /\ Tally(votes'[s], v) >= required[v]
         /\ status'[s] = "pending" => ~(Tally(votes'[s], v) >= required[v])
         /\ votes'[s] = [votes[s] EXCEPT ![r] = v]
         /\ \A t \in Submissions \ {s} : status'[t] = status[t] /\ votes'[t] = votes[t]
  <1> DEFINE ballots == [votes[s] EXCEPT ![r] = v]
  <1>1. Verdict(ballots, v) =
          IF Tally(ballots, v) >= required[v] THEN DecisionOf(v) ELSE "pending"
    BY DEF Verdict
  <1>2. DecisionOf(v) \in Decided /\ "pending" \notin Decided
    BY DEF DecisionOf, Decided
  <1> HIDE DEF ballots
  <1>3. /\ status[s] = "pending"
        /\ votes' = [votes EXCEPT ![s] = ballots]
        /\ status' = [status EXCEPT ![s] = Verdict(ballots, v)]
    BY DEF Record, ballots
  <1>4. votes'[s] = ballots /\ status'[s] = Verdict(ballots, v)
    BY <1>3 DEF TypeOK
  <1>5. \A t \in Submissions \ {s} : status'[t] = status[t] /\ votes'[t] = votes[t]
    BY <1>3 DEF TypeOK
  <1>6. ballots = [votes[s] EXCEPT ![r] = v]
    BY DEF ballots
  <1>7. Verdict(ballots, v) \in Decided => Tally(ballots, v) >= required[v]
    BY <1>1, <1>2
  <1>8. Verdict(ballots, v) = "pending" => ~(Tally(ballots, v) >= required[v])
    BY <1>1, <1>2
  <1>9. Verdict(ballots, v) \in {"pending"} \cup Decided
        /\ (Verdict(ballots, v) \in Decided => Verdict(ballots, v) = DecisionOf(v))
    BY <1>1, <1>2
  <1> QED BY <1>3, <1>4, <1>5, <1>6, <1>7, <1>8, <1>9

-----------------------------------------------------------------------------
(* The rows: votes, decisions and notifications.                             *)

RowsInv == FreshRows /\ NotifiedOnlyDecided /\ PendingBelowThreshold

LEMMA FreshRowsStep ==
  ASSUME TypeOK, FreshRows, [Next]_vars
  PROVE  FreshRows'
  <1> USE DEF FreshRows
  <1>1. ASSUME NEW s \in Submissions, Submit(s) PROVE FreshRows'
    BY <1>1 DEF Submit, TypeOK
  <1>2. ASSUME NEW r \in Reviewers, NEW s \in Submissions, NEW v \in Ballots, Record(r, s, v)
        PROVE  FreshRows'
    <2>1. status'[s] # "none"
      BY <1>2, RecordOutcome DEF Decided
    <2>2. \A t \in Submissions \ {s} : status'[t] = status[t] /\ votes'[t] = votes[t]
      BY <1>2, RecordOutcome
    <2> QED BY <2>1, <2>2
  <1>3. ASSUME NEW r \in Reviewers, SubmitOverride(r), dialog[r].sub \in Submissions
        PROVE  FreshRows'
    <2> DEFINE s == dialog[r].sub
    <2>1. status' = [status EXCEPT ![s] = OtherDecision(dialog[r].current)] /\ votes' = votes
      BY <1>3 DEF SubmitOverride
    <2>2. OtherDecision(dialog[r].current) # "none" /\ status \in [Submissions -> Status]
      BY DEF OtherDecision, TypeOK
    <2> QED BY <2>1, <2>2
  <1>4. ASSUME NEW s \in Submissions, MarkNotified(s) PROVE FreshRows'
    BY <1>4 DEF MarkNotified
  <1>5. ASSUME NEW v \in Ballots, NEW n \in Thresholds, ChangeSettings(v, n) PROVE FreshRows'
    BY <1>5 DEF ChangeSettings, rows
  <1>6. CASE DeleteForm
    BY <1>6 DEF DeleteForm
  <1>7. CASE UNCHANGED <<status, votes, notified, required, crossed>>
    BY <1>7
  <1> QED BY <1>1, <1>2, <1>3, <1>4, <1>5, <1>6, <1>7, RowSteps

LEMMA NotifiedStep ==
  ASSUME TypeOK, NotifiedOnlyDecided, [Next]_vars
  PROVE  NotifiedOnlyDecided'
  <1> USE DEF NotifiedOnlyDecided
  <1>1. ASSUME NEW s \in Submissions, Submit(s) PROVE NotifiedOnlyDecided'
    BY <1>1 DEF Submit, TypeOK, Decided
  <1>2. ASSUME NEW r \in Reviewers, NEW s \in Submissions, NEW v \in Ballots, Record(r, s, v)
        PROVE  NotifiedOnlyDecided'
    <2>1. ~notified[s]
      BY <1>2, RecordOutcome DEF Decided
    <2>2. notified' = notified
      BY <1>2 DEF Record
    <2> QED BY <1>2, <2>1, <2>2, RecordOutcome
  <1>3. ASSUME NEW r \in Reviewers, SubmitOverride(r), dialog[r].sub \in Submissions
        PROVE  NotifiedOnlyDecided'
    BY <1>3 DEF SubmitOverride, OtherDecision, TypeOK, Decided
  <1>4. ASSUME NEW s \in Submissions, MarkNotified(s) PROVE NotifiedOnlyDecided'
    BY <1>4 DEF MarkNotified, TypeOK
  <1>5. ASSUME NEW v \in Ballots, NEW n \in Thresholds, ChangeSettings(v, n)
        PROVE  NotifiedOnlyDecided'
    BY <1>5 DEF ChangeSettings, rows
  <1>6. CASE DeleteForm
    BY <1>6 DEF DeleteForm
  <1>7. CASE UNCHANGED <<status, votes, notified, required, crossed>>
    BY <1>7
  <1> QED BY <1>1, <1>2, <1>3, <1>4, <1>5, <1>6, <1>7, RowSteps

LEMMA ThresholdStep ==
  ASSUME TypeOK, FreshRows, PendingBelowThreshold, [Next]_vars
  PROVE  PendingBelowThreshold'
  <1>0. \A v \in Ballots : required[v] \in Nat \ {0}
    BY ThresholdsAssumption DEF TypeOK
  <1>1. ASSUME NEW s \in Submissions, Submit(s) PROVE PendingBelowThreshold'
    <2>1. \A v \in Ballots : Tally(votes[s], v) < required[v]
      BY <1>0, <1>1, TallyNoVotes DEF Submit, FreshRows
    <2> QED BY <1>1, <2>1 DEF Submit, TypeOK, PendingBelowThreshold, history
  <1>2. ASSUME NEW r \in Reviewers, NEW s \in Submissions, NEW v \in Ballots, Record(r, s, v)
        PROVE  PendingBelowThreshold'
    <2>0. crossed' = crossed /\ required' = required
      BY <1>2 DEF Record, history
    <2> SUFFICES ASSUME NEW t \in Submissions \ crossed, status'[t] = "pending", NEW w \in Ballots
                 PROVE  Tally(votes'[t], w) < required[w]
      BY <2>0 DEF PendingBelowThreshold
    <2>1. CASE t # s
      <3>1. status[t] = "pending" /\ votes'[t] = votes[t]
        BY <1>2, <2>1, RecordOutcome
      <3>2. t \in Submissions \ crossed
        BY <2>0
      <3> QED BY <3>1, <3>2 DEF PendingBelowThreshold
    <2>2. CASE t = s /\ w = v
      <3>1. ~(Tally(votes'[s], v) >= required[v])
        BY <1>2, <2>2, RecordOutcome
      <3> QED BY <3>1, <2>2, <1>0, TallyNat
    <2>3. CASE t = s /\ w # v
      <3>1. Tally(votes[s], w) < required[w]
        BY <1>2, <2>3, RecordOutcome DEF PendingBelowThreshold
      <3>2. Tally(votes'[s], w) <= Tally(votes[s], w)
        <4>1. votes[s] \in [Reviewers -> Ballots \cup {"none"}]
          BY DEF TypeOK
        <4>2. Tally([votes[s] EXCEPT ![r] = v], w) <= Tally(votes[s], w)
          BY <4>1, <2>3, TallyOther
        <4> QED BY <4>2, <1>2, RecordOutcome
      <3> QED BY <3>1, <3>2, <2>3, <1>0, TallyNat
    <2> QED BY <2>1, <2>2, <2>3
  <1>3. ASSUME NEW r \in Reviewers, SubmitOverride(r), dialog[r].sub \in Submissions
        PROVE  PendingBelowThreshold'
    BY <1>3 DEF SubmitOverride, OtherDecision, TypeOK, PendingBelowThreshold, history
  <1>4. ASSUME NEW s \in Submissions, MarkNotified(s) PROVE PendingBelowThreshold'
    BY <1>4 DEF MarkNotified, PendingBelowThreshold, history
  <1>5. ASSUME NEW v \in Ballots, NEW n \in Thresholds, ChangeSettings(v, n)
        PROVE  PendingBelowThreshold'
    <2>1. /\ required' = [required EXCEPT ![v] = n]
          /\ crossed' = crossed \cup {s \in Submissions : status[s] = "pending" /\ Tally(votes[s], v) >= n}
          /\ status' = status /\ votes' = votes
      BY <1>5 DEF ChangeSettings, rows
    <2> SUFFICES ASSUME NEW t \in Submissions \ crossed', status[t] = "pending", NEW w \in Ballots
                 PROVE  Tally(votes[t], w) < required'[w]
      BY <2>1 DEF PendingBelowThreshold
    <2>2. CASE w = v
      <3>1. ~(Tally(votes[t], v) >= n)
        BY <2>1
      <3> QED BY <2>1, <2>2, <3>1, TallyNat, ThresholdsAssumption DEF TypeOK
    <2>3. CASE w # v
      BY <2>1, <2>3 DEF TypeOK, PendingBelowThreshold
    <2> QED BY <2>2, <2>3
  <1>6. CASE DeleteForm
    BY <1>6 DEF DeleteForm, PendingBelowThreshold
  <1>7. CASE UNCHANGED <<status, votes, notified, required, crossed>>
    BY <1>7 DEF PendingBelowThreshold
  <1> QED BY <1>1, <1>2, <1>3, <1>4, <1>5, <1>6, <1>7, RowSteps

LEMMA RowsInit == Init => RowsInv
  BY DEF Init, RowsInv, FreshRows, NotifiedOnlyDecided, PendingBelowThreshold

\* No submission that settings left alone is pending with enough votes: every
\* vote that reaches a threshold decides, whoever casts it and however stale
\* the dialog it comes from.
THEOREM ThresholdSafe == Spec => []PendingBelowThreshold
  <1>1. TypeOK /\ RowsInv /\ [Next]_vars => RowsInv'
    BY FreshRowsStep, NotifiedStep, ThresholdStep DEF RowsInv
  <1>2. RowsInv => PendingBelowThreshold
    BY DEF RowsInv
  <1> QED BY <1>1, <1>2, RowsInit, TypeCorrect, PTL DEF Spec

\* ApplicantNotified is set on decided submissions only.
THEOREM NotifiedSafe == Spec => []NotifiedOnlyDecided
  <1>1. TypeOK /\ RowsInv /\ [Next]_vars => RowsInv'
    BY FreshRowsStep, NotifiedStep, ThresholdStep DEF RowsInv
  <1>2. RowsInv => NotifiedOnlyDecided
    BY DEF RowsInv
  <1> QED BY <1>1, <1>2, RowsInit, TypeCorrect, PTL DEF Spec
-----------------------------------------------------------------------------
(* What a step may never do to a decided or a pending submission.            *)

\* The votes of a decided submission never change, unless its form is deleted.
THEOREM VotesFrozen == Spec => VotesFrozenOnceDecided
  <1> DEFINE Frozen == \A s \in Submissions : status[s] \in Decided =>
                         status'[s] = "deleted" \/ votes'[s] = votes[s]
  <1>1. ASSUME TypeOK, [Next]_vars PROVE Frozen
    <2>1. ASSUME NEW s \in Submissions, Submit(s) PROVE Frozen
      BY <2>1 DEF Submit
    <2>2. ASSUME NEW r \in Reviewers, NEW s \in Submissions, NEW v \in Ballots, Record(r, s, v)
          PROVE  Frozen
      BY <1>1, <2>2, RecordOutcome DEF Decided
    <2>3. ASSUME NEW r \in Reviewers, SubmitOverride(r) PROVE Frozen
      BY <2>3 DEF SubmitOverride
    <2>4. ASSUME NEW s \in Submissions, MarkNotified(s) PROVE Frozen
      BY <2>4 DEF MarkNotified
    <2>5. ASSUME NEW v \in Ballots, NEW n \in Thresholds, ChangeSettings(v, n) PROVE Frozen
      BY <2>5 DEF ChangeSettings, rows
    <2>6. CASE DeleteForm
      BY <2>6 DEF DeleteForm
    <2>7. CASE UNCHANGED <<status, votes, notified, required, crossed>>
      BY <2>7
    <2> HIDE DEF Frozen
    <2> QED BY <1>1, <2>1, <2>2, <2>3, <2>4, <2>5, <2>6, <2>7, RowSteps
  <1> QED BY <1>1, TypeCorrect, PTL DEF Spec, VotesFrozenOnceDecided

\* Only enough votes for a side decide a pending submission, and a decided one
\* never becomes pending again.
THEOREM DecisionByVotes == Spec => DecidedByVotes
  <1> DEFINE Decides(s) ==
               /\ status[s] = "pending" /\ status'[s] \in Decided =>
                    \E v \in Ballots : /\ status'[s] = DecisionOf(v)
                                       /\ Tally(votes'[s], v) >= required[v]
               /\ status[s] \in Decided => status'[s] \in Decided \cup {"deleted"}
  <1>1. ASSUME TypeOK, [Next]_vars, NEW t \in Submissions PROVE Decides(t)
    <2>1. ASSUME NEW s \in Submissions, Submit(s) PROVE Decides(t)
      BY <1>1, <2>1 DEF Submit, TypeOK, Decided
    <2>2. ASSUME NEW r \in Reviewers, NEW s \in Submissions, NEW v \in Ballots, Record(r, s, v)
          PROVE  Decides(t)
      <3>1. CASE t = s
        <4>1. /\ status[s] = "pending"
              /\ status'[s] \in Decided => status'[s] = DecisionOf(v) /\ Tally(votes'[s], v) >= required[v]
          BY <1>1, <2>2, RecordOutcome
        <4> QED BY <3>1, <4>1 DEF Decided
      <3>2. CASE t # s
        <4>1. status'[t] = status[t]
          BY <1>1, <2>2, <3>2, RecordOutcome
        <4> QED BY <4>1 DEF Decided
      <3> QED BY <3>1, <3>2
    <2>3. ASSUME NEW r \in Reviewers, SubmitOverride(r), dialog[r].sub \in Submissions
          PROVE  Decides(t)
      <3>1. /\ status[dialog[r].sub] \in Decided
            /\ status' = [status EXCEPT ![dialog[r].sub] = OtherDecision(dialog[r].current)]
            /\ OtherDecision(dialog[r].current) \in Decided
        BY <2>3 DEF SubmitOverride, OtherDecision, Decided
      <3> HIDE DEF OtherDecision
      <3> QED BY <1>1, <2>3, <3>1 DEF TypeOK, Decided
    <2>4. ASSUME NEW s \in Submissions, MarkNotified(s) PROVE Decides(t)
      BY <2>4 DEF MarkNotified, Decided
    <2>5. ASSUME NEW v \in Ballots, NEW n \in Thresholds, ChangeSettings(v, n) PROVE Decides(t)
      BY <2>5 DEF ChangeSettings, rows, Decided
    <2>6. CASE DeleteForm
      BY <2>6 DEF DeleteForm, Decided
    <2>7. CASE UNCHANGED <<status, votes, notified, required, crossed>>
      BY <2>7 DEF Decided
    <2> HIDE DEF Decides
    <2> QED BY <1>1, <2>1, <2>2, <2>3, <2>4, <2>5, <2>6, <2>7, RowSteps
  <1>2. ASSUME TypeOK, [Next]_vars PROVE \A s \in Submissions : Decides(s)
    BY <1>1, <1>2
  <1> QED BY <1>2, TypeCorrect, PTL DEF Spec, DecidedByVotes
-----------------------------------------------------------------------------
(* The embed: what it shows and what the row is.                             *)

\* Every other step leaves the rows, the embeds and what rewrites them alone.
LEMMA EmbedSteps ==
  ASSUME TypeOK, [Next]_vars
  PROVE  \/ \E s \in Submissions : Submit(s) \/ MarkNotified(s) \/ UpdateEmbed(s)
                                   \/ UpdateFails(s) \/ RefreshEdit(s) \/ RefreshSkips(s)
         \/ \E r \in Reviewers, s \in Submissions, v \in Ballots : Record(r, s, v)
         \/ \E r \in Reviewers : SubmitOverride(r) /\ dialog[r].sub \in Submissions
         \/ StartRefresh \/ DeleteForm \/ Restart
         \/ UNCHANGED <<rows, embed, due, refresh, rewrite>>
  <1>1. ASSUME NEW r \in Reviewers, NEW v \in Ballots, SubmitVote(r, v)
        PROVE  \E s \in Submissions : Record(r, s, v)
    BY <1>1 DEF TypeOK, Dialog, SubmitVote, Closed
  <1>2. ASSUME NEW r \in Reviewers, NEW v \in Ballots, SubmitEdit(r, v)
        PROVE  \E s \in Submissions : Record(r, s, v)
    BY <1>2 DEF TypeOK, Dialog, SubmitEdit, Closed
  <1>3. ASSUME NEW r \in Reviewers, SubmitOverride(r) PROVE dialog[r].sub \in Submissions
    BY <1>3 DEF TypeOK, Dialog, SubmitOverride, Closed
  <1>4. ASSUME NEW r \in Reviewers, NEW s \in Submissions,
               ClickVote(r, s) \/ ClickEditVote(r, s) \/ ClickMessage(r, s) \/ ClickOverride(r, s)
        PROVE  UNCHANGED <<rows, embed, due, refresh, rewrite>>
    BY <1>4 DEF ClickVote, ClickEditVote, ClickMessage, ClickOverride, Open, history
  <1>5. ASSUME NEW r \in Reviewers, Dismiss(r) \/ SubmitMessage(r)
        PROVE  UNCHANGED <<rows, embed, due, refresh, rewrite>>
    BY <1>5 DEF Dismiss, SubmitMessage, Open, history
  <1>6. ASSUME NEW s \in Submissions, MessageExpires(s)
        PROVE  UNCHANGED <<rows, embed, due, refresh, rewrite>>
    BY <1>6 DEF MessageExpires, history
  <1>7. ASSUME NEW v \in Ballots, NEW n \in Thresholds, ChangeSettings(v, n)
        PROVE  UNCHANGED <<rows, embed, due, refresh, rewrite>>
    BY <1>7 DEF ChangeSettings
  <1>8. CASE UNCHANGED vars
    BY <1>8 DEF vars, history
  <1>9. CASE \E r \in Reviewers : ReviewerStep(r)
    BY <1>1, <1>2, <1>3, <1>4, <1>5, <1>9 DEF ReviewerStep
  <1>10. CASE Next /\ ~\E r \in Reviewers : ReviewerStep(r)
    BY <1>6, <1>7, <1>10 DEF Next, HandlerStep
  <1> QED BY <1>8, <1>9, <1>10

\* A language refresh captures pending submissions, which nobody was told about.
LEMMA RefreshStep ==
  ASSUME TypeOK, NotifiedOnlyDecided, RefreshPending, [Next]_vars
  PROVE  RefreshPending'
  <1> USE DEF RefreshPending
  <1>1. ASSUME NEW s \in Submissions,
               Submit(s) \/ MarkNotified(s) \/ UpdateEmbed(s) \/ UpdateFails(s)
        PROVE  RefreshPending'
    BY <1>1 DEF Submit, MarkNotified, UpdateEmbed, UpdateFails
  <1>2. ASSUME NEW s \in Submissions, RefreshEdit(s) \/ RefreshSkips(s) PROVE RefreshPending'
    BY <1>2 DEF RefreshEdit, RefreshSkips, TypeOK
  <1>3. ASSUME NEW r \in Reviewers, NEW s \in Submissions, NEW v \in Ballots, Record(r, s, v)
        PROVE  RefreshPending'
    BY <1>3 DEF Record
  <1>4. ASSUME NEW r \in Reviewers, SubmitOverride(r) PROVE RefreshPending'
    BY <1>4 DEF SubmitOverride
  <1>5. CASE StartRefresh
    <2> SUFFICES ASSUME NEW s \in Submissions, refresh'[s] # NoEmbed
                 PROVE  refresh'[s].status = "pending" /\ ~refresh'[s].notified
      OBVIOUS
    <2>1. status[s] = "pending" /\ refresh'[s] = Rendered(s)
      BY <1>5 DEF StartRefresh
    <2>2. ~notified[s]
      BY <2>1 DEF NotifiedOnlyDecided, Decided
    <2> QED BY <2>1, <2>2 DEF Rendered
  <1>6. CASE DeleteForm
    BY <1>6 DEF DeleteForm
  <1>7. CASE Restart
    BY <1>7 DEF Restart
  <1>8. CASE UNCHANGED <<rows, embed, due, refresh, rewrite>>
    BY <1>8
  <1> QED BY <1>1, <1>2, <1>3, <1>4, <1>5, <1>6, <1>7, <1>8, EmbedSteps

Behind(s) ==
  Row(s) /\ embed[s] # NoEmbed =>
    /\ embed[s].status \in Decided => status[s] \in Decided
    /\ embed[s].notified => notified[s]

LEMMA BehindStep ==
  ASSUME TypeOK, RefreshPending, [Next]_vars, NEW t \in Submissions, Behind(t)
  PROVE  Behind(t)'
  <1>1. ASSUME NEW s \in Submissions, Submit(s) PROVE Behind(t)'
    <2>1. CASE t = s
      BY <1>1, <2>1 DEF Submit, TypeOK, Behind, Decided
    <2>2. CASE t # s
      BY <1>1, <2>2 DEF Submit, TypeOK, Behind, Row
    <2> QED BY <2>1, <2>2
  <1>2. ASSUME NEW s \in Submissions, MarkNotified(s) PROVE Behind(t)'
    BY <1>2 DEF MarkNotified, TypeOK, Behind, Row
  <1>3. ASSUME NEW s \in Submissions, UpdateEmbed(s) PROVE Behind(t)'
    <2>0. status' = status /\ notified' = notified
      BY <1>3 DEF UpdateEmbed, rows
    <2>1. CASE t = s /\ Row(s)
      <3>1. embed'[t] = Rendered(t)
        BY <1>3, <2>1 DEF UpdateEmbed, TypeOK
      <3> QED BY <2>0, <3>1 DEF Behind, Rendered
    <2>2. CASE ~(t = s /\ Row(s))
      <3>1. embed'[t] = embed[t]
        BY <1>3, <2>2 DEF UpdateEmbed, TypeOK
      <3> QED BY <2>0, <3>1 DEF Behind, Row
    <2> QED BY <2>1, <2>2
  <1>4. ASSUME NEW s \in Submissions, UpdateFails(s) \/ RefreshSkips(s) PROVE Behind(t)'
    BY <1>4 DEF UpdateFails, RefreshSkips, rows, Behind, Row
  <1>5. ASSUME NEW s \in Submissions, RefreshEdit(s) PROVE Behind(t)'
    <2>0. status' = status /\ notified' = notified
      BY <1>5 DEF RefreshEdit, rows
    <2>1. CASE t = s
      <3>1. embed'[t].status = "pending" /\ ~embed'[t].notified
        BY <1>5, <2>1 DEF RefreshEdit, TypeOK, RefreshPending
      <3> QED BY <3>1 DEF Behind, Decided
    <2>2. CASE t # s
      BY <1>5, <2>0, <2>2 DEF RefreshEdit, TypeOK, Behind, Row
    <2> QED BY <2>1, <2>2
  <1>6. ASSUME NEW r \in Reviewers, NEW s \in Submissions, NEW v \in Ballots, Record(r, s, v)
        PROVE  Behind(t)'
    <2>0. embed' = embed /\ notified' = notified
      BY <1>6 DEF Record
    <2>1. CASE t = s
      <3>1. status[t] = "pending"
        BY <1>6, <2>1, RecordOutcome
      <3> QED BY <2>0, <3>1 DEF Behind, Row, Decided
    <2>2. CASE t # s
      BY <1>6, <2>0, <2>2, RecordOutcome DEF Behind, Row
    <2> QED BY <2>1, <2>2
  <1>7. ASSUME NEW r \in Reviewers, SubmitOverride(r), dialog[r].sub \in Submissions
        PROVE  Behind(t)'
    BY <1>7 DEF SubmitOverride, OtherDecision, TypeOK, Behind, Row, Decided
  <1>8. CASE StartRefresh
    BY <1>8 DEF StartRefresh, rows, Behind, Row
  <1>9. CASE DeleteForm
    BY <1>9 DEF DeleteForm, Behind, Row
  <1>10. CASE Restart
    BY <1>10 DEF Restart, rows, Behind, Row
  <1>11. CASE UNCHANGED <<rows, embed, due, refresh, rewrite>>
    BY <1>11 DEF rows, Behind, Row
  <1> QED
    BY <1>1, <1>2, <1>3, <1>4, <1>5, <1>6, <1>7, <1>8, <1>9, <1>10, <1>11, EmbedSteps

\* Whatever dialog, retry or refresh wrote it, the embed shows no decision and
\* no sent notification that the row does not have.
THEOREM EmbedNeverAheadOfRow == Spec => []EmbedNeverAhead
  <1> DEFINE EmbedInv == RowsInv /\ RefreshPending /\ EmbedNeverAhead
  <1>1. Init => EmbedInv
    BY RowsInit DEF Init, RefreshPending, EmbedNeverAhead
  <1>2. TypeOK /\ EmbedInv /\ [Next]_vars => EmbedInv'
    <2> SUFFICES ASSUME TypeOK, EmbedInv, [Next]_vars PROVE EmbedInv'
      OBVIOUS
    <2>1. RowsInv'
      BY FreshRowsStep, NotifiedStep, ThresholdStep DEF RowsInv
    <2>2. RefreshPending'
      BY RefreshStep DEF RowsInv
    <2>3. \A t \in Submissions : Behind(t)
      BY DEF EmbedNeverAhead, Behind
    <2>4. \A t \in Submissions : Behind(t)'
      BY <2>3, BehindStep
    <2>5. EmbedNeverAhead'
      BY <2>4 DEF EmbedNeverAhead, Behind
    <2> QED BY <2>1, <2>2, <2>5
  <1> QED BY <1>1, <1>2, TypeCorrect, PTL DEF Spec

-----------------------------------------------------------------------------
(* A handler past its commit is what keeps a stale embed from standing.      *)

Converged(s) ==
  Row(s) /\ due[s] = 0 /\ rewrite[s] = "row" => embed[s] = Rendered(s)

\* What a submission renders to changes with its row only.
LEMMA RenderedSame ==
  ASSUME NEW t \in Submissions, status'[t] = status[t], votes'[t] = votes[t],
         notified'[t] = notified[t]
  PROVE  Rendered(t)' = Rendered(t) /\ Row(t)' = Row(t)
  BY DEF Rendered, Row, Tally

\* A step that writes a row raises the number of its outstanding rewrites.
LEMMA ConvergedStep ==
  ASSUME TypeOK, FreshRows, NotifiedOnlyDecided, [Next]_vars,
         NEW t \in Submissions, Converged(t)
  PROVE  Converged(t)'
  <1> DEFINE Same == /\ status'[t] = status[t] /\ votes'[t] = votes[t]
                     /\ notified'[t] = notified[t]
  <1>0. ASSUME Same, embed'[t] = embed[t], due'[t] = due[t], rewrite'[t] = rewrite[t]
        PROVE  Converged(t)'
    BY <1>0, RenderedSame DEF Converged
  <1>1. ASSUME NEW s \in Submissions, Submit(s) PROVE Converged(t)'
    <2>1. CASE t = s
      <3>1. votes'[t] = NoVotes
        BY <1>1, <2>1 DEF Submit, FreshRows
      <3>2. ~notified[t]
        BY <1>1, <2>1 DEF Submit, NotifiedOnlyDecided, Decided
      <3>3. status'[t] = "pending" /\ notified'[t] = FALSE
        <4>1. status'[t] = "pending"
          BY <1>1, <2>1 DEF Submit, TypeOK
        <4>2. notified'[t] = FALSE
          BY <1>1, <3>2 DEF Submit, TypeOK
        <4> QED BY <4>1, <4>2
      <3>4. embed'[t] = [status |-> "pending", approvals |-> 0, denials |-> 0, notified |-> FALSE]
        BY <1>1, <2>1 DEF Submit, TypeOK
      <3>5. Tally(votes'[t], "approve") = 0 /\ Tally(votes'[t], "deny") = 0
        BY <3>1, TallyNoVotes DEF Ballots
      <3>6. Rendered(t)' = [status |-> status'[t], approvals |-> Tally(votes'[t], "approve"),
                            denials |-> Tally(votes'[t], "deny"), notified |-> notified'[t]]
        BY DEF Rendered, Tally
      <3>7. embed'[t] = Rendered(t)'
        BY <3>3, <3>4, <3>5, <3>6
      <3> QED BY <3>7 DEF Converged
    <2>2. CASE t # s
      <3>1. Same /\ embed'[t] = embed[t] /\ due'[t] = due[t] /\ rewrite'[t] = rewrite[t]
        BY <1>1, <2>2 DEF Submit, TypeOK, history
      <3> QED BY <1>0, <3>1
    <2> QED BY <2>1, <2>2
  <1>2. ASSUME NEW s \in Submissions, MarkNotified(s) PROVE Converged(t)'
    <2>1. CASE t = s
      BY <1>2, <2>1 DEF MarkNotified, TypeOK, Converged
    <2>2. CASE t # s
      <3>1. Same /\ embed'[t] = embed[t] /\ due'[t] = due[t] /\ rewrite'[t] = rewrite[t]
        BY <1>2, <2>2 DEF MarkNotified, TypeOK, history
      <3> QED BY <1>0, <3>1
    <2> QED BY <2>1, <2>2
  <1>3. ASSUME NEW s \in Submissions, UpdateEmbed(s) PROVE Converged(t)'
    <2>0. Same
      BY <1>3 DEF UpdateEmbed, rows
    <2>1. CASE t = s /\ Row(s)
      <3>1. embed'[t] = Rendered(t)
        BY <1>3, <2>1 DEF UpdateEmbed, TypeOK
      <3> QED BY <2>0, <3>1, RenderedSame DEF Converged
    <2>2. CASE t = s /\ ~Row(s)
      BY <2>0, <2>2, RenderedSame DEF Converged
    <2>3. CASE t # s
      <3>1. embed'[t] = embed[t] /\ due'[t] = due[t] /\ rewrite'[t] = rewrite[t]
        BY <1>3, <2>3 DEF UpdateEmbed, TypeOK
      <3> QED BY <1>0, <2>0, <3>1
    <2> QED BY <2>1, <2>2, <2>3
  <1>4. ASSUME NEW s \in Submissions, UpdateFails(s) PROVE Converged(t)'
    <2>1. CASE t = s
      BY <1>4, <2>1 DEF UpdateFails, TypeOK, Converged
    <2>2. CASE t # s
      <3>1. Same /\ embed'[t] = embed[t] /\ due'[t] = due[t] /\ rewrite'[t] = rewrite[t]
        BY <1>4, <2>2 DEF UpdateFails, TypeOK, rows
      <3> QED BY <1>0, <3>1
    <2> QED BY <2>1, <2>2
  <1>5. ASSUME NEW s \in Submissions, RefreshEdit(s) PROVE Converged(t)'
    <2>1. CASE t = s
      BY <1>5, <2>1 DEF RefreshEdit, TypeOK, Converged
    <2>2. CASE t # s
      <3>1. Same /\ embed'[t] = embed[t] /\ due'[t] = due[t] /\ rewrite'[t] = rewrite[t]
        BY <1>5, <2>2 DEF RefreshEdit, TypeOK, rows
      <3> QED BY <1>0, <3>1
    <2> QED BY <2>1, <2>2
  <1>6. ASSUME NEW s \in Submissions, RefreshSkips(s) PROVE Converged(t)'
    BY <1>0, <1>6 DEF RefreshSkips, rows, history
  <1>7. ASSUME NEW r \in Reviewers, NEW s \in Submissions, NEW v \in Ballots, Record(r, s, v)
        PROVE  Converged(t)'
    <2>1. CASE t = s
      <3>1. due'[t] = due[t] + 1
        BY <1>7, <2>1 DEF Record, TypeOK
      <3> QED BY <3>1 DEF Converged, TypeOK
    <2>2. CASE t # s
      <3>1. status'[t] = status[t] /\ votes'[t] = votes[t]
        BY <1>7, <2>2, RecordOutcome
      <3>2. /\ notified' = notified /\ embed' = embed /\ rewrite' = rewrite
            /\ due' = [due EXCEPT ![s] = @ + 1]
        BY <1>7 DEF Record, history
      <3>3. due'[t] = due[t]
        BY <2>2, <3>2 DEF TypeOK
      <3> QED BY <1>0, <3>1, <3>2, <3>3
    <2> QED BY <2>1, <2>2
  <1>8. ASSUME NEW r \in Reviewers, SubmitOverride(r), dialog[r].sub \in Submissions
        PROVE  Converged(t)'
    <2>1. CASE t = dialog[r].sub
      <3>1. due'[t] = due[t] + 1
        BY <1>8, <2>1 DEF SubmitOverride, TypeOK
      <3> QED BY <3>1 DEF Converged, TypeOK
    <2>2. CASE t # dialog[r].sub
      <3>1. Same /\ embed'[t] = embed[t] /\ due'[t] = due[t] /\ rewrite'[t] = rewrite[t]
        BY <1>8, <2>2 DEF SubmitOverride, TypeOK, history
      <3> QED BY <1>0, <3>1
    <2> QED BY <2>1, <2>2
  <1>9. CASE StartRefresh
    BY <1>0, <1>9 DEF StartRefresh, rows, history
  <1>10. CASE DeleteForm
    BY <1>10 DEF DeleteForm, Converged, Row
  <1>11. CASE Restart
    <2>1. Same /\ embed'[t] = embed[t]
      BY <1>11 DEF Restart, rows
    <2>2. rewrite'[t] = "row" => due[t] = 0 /\ rewrite[t] = "row"
      BY <1>11 DEF Restart, TypeOK
    <2> QED BY <2>1, <2>2, RenderedSame DEF Converged
  <1>12. CASE UNCHANGED <<rows, embed, due, refresh, rewrite>>
    BY <1>0, <1>12 DEF rows
  <1> QED
    BY <1>1, <1>2, <1>3, <1>4, <1>5, <1>6, <1>7, <1>8, <1>9, <1>10, <1>11, <1>12, EmbedSteps

\* With no handler running the embed shows the row, unless the last rewrite
\* failed or was a language refresh's.
THEOREM EmbedConvergesToRow == Spec => []EmbedConverges
  <1> DEFINE ConvergeInv == RowsInv /\ EmbedConverges
  <1>1. Init => ConvergeInv
    BY RowsInit DEF Init, EmbedConverges, Row
  <1>2. TypeOK /\ ConvergeInv /\ [Next]_vars => ConvergeInv'
    <2> SUFFICES ASSUME TypeOK, ConvergeInv, [Next]_vars PROVE ConvergeInv'
      OBVIOUS
    <2>1. RowsInv'
      BY FreshRowsStep, NotifiedStep, ThresholdStep DEF RowsInv
    <2>2. \A t \in Submissions : Converged(t)
      BY DEF EmbedConverges, Converged
    <2>3. \A t \in Submissions : Converged(t)'
      BY <2>2, ConvergedStep DEF RowsInv
    <2>4. EmbedConverges'
      BY <2>3 DEF EmbedConverges, Converged
    <2> QED BY <2>1, <2>4
  <1> QED BY <1>1, <1>2, TypeCorrect, PTL DEF Spec

-----------------------------------------------------------------------------
(* The refinement of SubmissionDecision.                                     *)

LEMMA DecisionInit == Init => Decision!Init
  BY DEF Init, Decision!Init, NoVotes, Decision!Blank

\* A recorded vote is a ballot of the promise.
LEMMA RecordCasts ==
  ASSUME TypeOK, NEW r \in Reviewers, NEW s \in Submissions, NEW v \in Ballots,
         Record(r, s, v)
  PROVE  Decision!Cast(s, r, v)
  <1> DEFINE ballots == [votes[s] EXCEPT ![r] = v]
  <1>1. Verdict(ballots, v) \in {"pending", Decision!Sides[v]}
    BY DEF Verdict, DecisionOf, Decision!Sides, Ballots
  <1> HIDE DEF ballots
  <1>2. /\ status[s] = "pending"
        /\ votes' = [votes EXCEPT ![s] = ballots]
        /\ status' = [status EXCEPT ![s] = Verdict(ballots, v)]
        /\ notified' = notified
    BY DEF Record, ballots
  <1>3. votes' = [votes EXCEPT ![s][r] = v]
    BY <1>2 DEF ballots
  <1> QED BY <1>1, <1>2, <1>3 DEF Decision!Cast

\* A step of the review is a step of the promise or none.
LEMMA DecisionStep ==
  ASSUME TypeOK, [Next]_vars
  PROVE  [Decision!Next]_(Decision!decisionVars)
  <1>1. ASSUME NEW s \in Submissions, Submit(s) PROVE Decision!Next
    BY <1>1 DEF Submit, Decision!Next, Decision!Arrive
  <1>2. ASSUME NEW r \in Reviewers, NEW s \in Submissions, NEW v \in Ballots, Record(r, s, v)
        PROVE  Decision!Next
    <2>1. v \in DOMAIN Decision!Sides
      BY DEF Ballots, Decision!Sides
    <2> QED BY <1>2, <2>1, RecordCasts DEF Decision!Next
  <1>3. ASSUME NEW r \in Reviewers, SubmitOverride(r), dialog[r].sub \in Submissions
        PROVE  Decision!Next
    <2>1. OtherDecision(dialog[r].current) \in Decision!Outcomes
      BY DEF OtherDecision, Decision!Outcomes
    <2>2. Decision!Turn(dialog[r].sub)
      BY <1>3, <2>1 DEF SubmitOverride, Decision!Turn, Decision!Outcomes, Decided
    <2> QED BY <1>3, <2>2 DEF Decision!Next
  <1>4. ASSUME NEW s \in Submissions, MarkNotified(s)
        PROVE  Decision!Next \/ UNCHANGED Decision!decisionVars
    <2>0. UNCHANGED <<status, votes>> /\ notified' = [notified EXCEPT ![s] = @ \/ status[s] \in Decided]
      BY <1>4 DEF MarkNotified
    <2>1. CASE status[s] \in Decided
      <3>1. notified' = [notified EXCEPT ![s] = TRUE]
        BY <2>0, <2>1 DEF TypeOK
      <3>2. Decision!Notify(s)
        BY <2>0, <2>1, <3>1 DEF Decision!Notify, Decision!Outcomes, Decided
      <3> QED BY <3>2 DEF Decision!Next
    <2>2. CASE status[s] \notin Decided
      <3>1. notified' = notified
        BY <2>0, <2>2 DEF TypeOK
      <3> QED BY <2>0, <3>1 DEF Decision!decisionVars
    <2> QED BY <2>1, <2>2
  <1>5. CASE DeleteForm
    BY <1>5 DEF DeleteForm, Decision!Next, Decision!Discard, NoVotes, Decision!Blank
  <1>6. ASSUME NEW v \in Ballots, NEW n \in Thresholds, ChangeSettings(v, n)
        PROVE  UNCHANGED Decision!decisionVars
    BY <1>6 DEF ChangeSettings, rows, Decision!decisionVars
  <1>7. CASE UNCHANGED <<status, votes, notified, required, crossed>>
    BY <1>7 DEF Decision!decisionVars
  <1> QED BY <1>1, <1>2, <1>3, <1>4, <1>5, <1>6, <1>7, RowSteps

\* Embeds, dialogs, handlers, refreshes and restarts are invisible to the
\* promise of SubmissionDecision: the review implements it.
THEOREM ReviewImplementsDecision == Spec => ImplementsDecision
  <1>1. TypeOK /\ [Next]_vars => [Decision!Next]_(Decision!decisionVars)
    BY DecisionStep
  <1> QED BY <1>1, DecisionInit, TypeCorrect, PTL
     DEF Spec, ImplementsDecision, Decision!Spec
=============================================================================
