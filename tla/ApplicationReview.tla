-------------------------- MODULE ApplicationReview --------------------------
(***************************************************************************)
(* The review of application submissions by the members of a guild:        *)
(* NerdyPy/modules/application/views.py, the language refresh and the form *)
(* settings of management.py, and the tables of models/application.        *)
(*                                                                         *)
(* One form.  A reviewer clicks a button of the review embed, which opens  *)
(* a dialog that captures what the handler read; the dialog is submitted   *)
(* later, by then others may have acted.  A submitted dialog commits one   *)
(* database transaction and only afterwards, across awaits that may fail,  *)
(* rewrites the embed.  Code without an await is atomic on the event loop. *)
(***************************************************************************)
EXTENDS Integers, FiniteSets

CONSTANTS
  Submissions,   \* submissions of the form
  Reviewers,     \* members that pass check_application_permission
  Managers,      \* those that also pass check_override_permission
  Thresholds,    \* vote counts the settings may require
  MaxHandlers    \* bound: suspended handlers per submission

ASSUME ReviewersAssumption == IsFiniteSet(Reviewers) /\ Managers \subseteq Reviewers
ASSUME ThresholdsAssumption == Thresholds \subseteq Nat \ {0} /\ Thresholds # {}
ASSUME BoundsAssumption == MaxHandlers \in Nat

Ballots  == {"approve", "deny"}             \* VoteType
Decided  == {"approved", "denied"}
Status   == {"none", "pending", "deleted"} \cup Decided

VARIABLES
  status,      \* ApplicationSubmission.Status; "none"/"deleted" when there is no row
  votes,       \* ApplicationVote, unique per (SubmissionId, UserId)
  notified,    \* ApplicantNotified
  required,    \* RequiredApprovals and RequiredDenials of the form
  embed,       \* what the review message in Discord shows
  dialog,      \* the view or modal each reviewer has open
  due,         \* handlers past their commit that still have to update the embed
  marking,     \* message handlers that delivered the DM and not yet marked it
  refresh,     \* embeds a language refresh still has to rewrite, with its snapshot
  crossed,     \* history: pending submissions a settings change put at a threshold
  rewrite      \* history: how the embed was last rewritten: from the row, by a refresh, or not (failed)

rows == <<status, votes, notified>>
history == <<crossed, rewrite>>
vars == <<rows, required, embed, dialog, due, marking, refresh, history>>

-----------------------------------------------------------------------------
Tally(ballots, v) == Cardinality({r \in Reviewers : ballots[r] = v})
NoVotes == [r \in Reviewers |-> "none"]
DecisionOf(v) == IF v = "approve" THEN "approved" ELSE "denied"
OtherDecision(d) == IF d = "approved" THEN "denied" ELSE "approved"

NoEmbed == [status |-> "none"]
\* What _build_review_embed and _normalize_review_view render.
Rendered(s) ==
  [status |-> status[s], approvals |-> Tally(votes[s], "approve"),
   denials |-> Tally(votes[s], "deny"), notified |-> notified[s]]

Closed == [kind |-> "closed"]
Row(s) == status[s] \notin {"none", "deleted"}
Suspended(s) == due[s] + marking[s]

(* Mutants of the outcome: one vote too many, both sides counted.          *)
VerdictStrict(ballots, v) ==
  IF Tally(ballots, v) > required[v] THEN DecisionOf(v) ELSE "pending"
VerdictAnySide(ballots, v) ==
  IF Tally(ballots, "approve") >= required["approve"] THEN "approved"
  ELSE IF Tally(ballots, "deny") >= required["deny"] THEN "denied" ELSE "pending"

\* The outcome of _check_vote_threshold: only the side just voted for is counted.
Verdict(ballots, v) ==
  IF Tally(ballots, v) >= required[v] THEN DecisionOf(v) ELSE "pending"

-----------------------------------------------------------------------------
Init ==
  /\ status = [s \in Submissions |-> "none"]
  /\ votes = [s \in Submissions |-> NoVotes]
  /\ notified = [s \in Submissions |-> FALSE]
  /\ required \in [Ballots -> Thresholds]
  /\ embed = [s \in Submissions |-> NoEmbed]
  /\ dialog = [r \in Reviewers |-> Closed]
  /\ due = [s \in Submissions |-> 0]
  /\ marking = [s \in Submissions |-> 0]
  /\ refresh = [s \in Submissions |-> NoEmbed]
  /\ crossed = {}
  /\ rewrite = [s \in Submissions |-> "row"]

\* A submission arrives: its row is saved and its review embed posted.
Submit(s) ==
  /\ status[s] = "none"
  /\ status' = [status EXCEPT ![s] = "pending"]
  /\ embed' = [embed EXCEPT ![s] = [status |-> "pending", approvals |-> 0,
                                    denials |-> 0, notified |-> FALSE]]
  /\ UNCHANGED <<votes, notified, required, dialog, due, marking, refresh, history>>

-----------------------------------------------------------------------------
(* Buttons of the embed.  A button is clicked while the embed shows it     *)
(* enabled; the handler reads the row and opens a dialog or refuses.       *)

Open(r, d) ==
  /\ dialog' = [dialog EXCEPT ![r] = d]
  /\ UNCHANGED <<rows, required, embed, due, marking, refresh, history>>

ClickVote(r, s) ==
  /\ embed[s].status = "pending"
  /\ status[s] = "pending"
  /\ votes[s][r] = "none"
  /\ Open(r, [kind |-> "vote", sub |-> s])

ClickEditVote(r, s) ==
  /\ embed[s].status = "pending"
  /\ status[s] = "pending"
  /\ votes[s][r] # "none"
  /\ Open(r, [kind |-> "edit", sub |-> s, current |-> votes[s][r]])

ClickMessage(r, s) ==
  /\ embed[s] # NoEmbed
  /\ ~embed[s].notified
  /\ Row(s)
  /\ Open(r, [kind |-> "message", sub |-> s])

ClickOverride(r, s) ==
  /\ r \in Managers
  /\ embed[s].status \in Decided
  /\ status[s] \in Decided
  /\ Open(r, [kind |-> "override", sub |-> s, current |-> status[s]])

\* The member closes the dialog, or the 60 seconds of a select view are over.
Dismiss(r) ==
  /\ dialog[r] # Closed
  /\ Open(r, Closed)

-----------------------------------------------------------------------------
(* Mutants of the handlers below: an override of a pending row, one that   *)
(* resets ApplicantNotified, a notification that does not rewrite the      *)
(* embed.                                                                  *)

OverridePending(r) ==
  /\ dialog[r].kind \in {"override", "message"}
  /\ LET s == dialog[r].sub IN
     /\ Row(s) /\ Suspended(s) < MaxHandlers
     /\ status' = [status EXCEPT ![s] = "denied"]
     /\ due' = [due EXCEPT ![s] = @ + 1]
  /\ dialog' = [dialog EXCEPT ![r] = Closed]
  /\ UNCHANGED <<votes, notified, required, embed, marking, refresh, history>>

OverrideResetsNotice(r) ==
  /\ dialog[r].kind = "override"
  /\ LET s == dialog[r].sub IN
     /\ status[s] \in Decided /\ Suspended(s) < MaxHandlers
     /\ status' = [status EXCEPT ![s] = OtherDecision(dialog[r].current)]
     /\ notified' = [notified EXCEPT ![s] = FALSE]
     /\ due' = [due EXCEPT ![s] = @ + 1]
  /\ dialog' = [dialog EXCEPT ![r] = Closed]
  /\ UNCHANGED <<votes, required, embed, marking, refresh, history>>

MarkWithoutRewrite(s) ==
  /\ marking[s] > 0
  /\ marking' = [marking EXCEPT ![s] = @ - 1]
  /\ notified' = [notified EXCEPT ![s] = @ \/ status[s] \in Decided]
  /\ UNCHANGED <<status, votes, required, embed, dialog, due, refresh, history>>

-----------------------------------------------------------------------------
(* Submitted dialogs.                                                      *)

\* The transaction of _record_first_vote and _record_edit_vote.
Record(r, s, v) ==
  LET ballots == [votes[s] EXCEPT ![r] = v] IN
  /\ status[s] = "pending"
  /\ Suspended(s) < MaxHandlers
  /\ votes' = [votes EXCEPT ![s] = ballots]
  /\ status' = [status EXCEPT ![s] = Verdict(ballots, v)]
  /\ due' = [due EXCEPT ![s] = @ + 1]
  /\ UNCHANGED <<notified, required, embed, dialog, marking, refresh, history>>

\* The select view stays usable after a vote; the unique index rejects a second row.
SubmitVote(r, v) ==
  /\ dialog[r].kind = "vote"
  /\ LET s == dialog[r].sub IN votes[s][r] = "none" /\ Record(r, s, v)

\* The view compares with the vote it captured, not with the row.
SubmitEdit(r, v) ==
  /\ dialog[r].kind = "edit"
  /\ v # dialog[r].current
  /\ Record(r, dialog[r].sub, v)

\* The row's new status is the one fixed when the modal was opened.
SubmitOverride(r) ==
  /\ dialog[r].kind = "override"
  /\ LET s == dialog[r].sub IN
     /\ Suspended(s) < MaxHandlers
     /\ status[s] \in Decided
     /\ status' = [status EXCEPT ![s] = OtherDecision(dialog[r].current)]
     /\ due' = [due EXCEPT ![s] = @ + 1]
  /\ dialog' = [dialog EXCEPT ![r] = Closed]
  /\ UNCHANGED <<votes, notified, required, embed, marking, refresh, history>>

\* The DM is delivered before anything is read; the handler then answers.
\* A refused DM only closes the modal, which is Dismiss.
SubmitMessage(r) ==
  /\ dialog[r].kind = "message"
  /\ LET s == dialog[r].sub IN
     /\ Suspended(s) < MaxHandlers
     /\ marking' = [marking EXCEPT ![s] = @ + 1]
  /\ dialog' = [dialog EXCEPT ![r] = Closed]
  /\ UNCHANGED <<rows, required, embed, due, refresh, history>>

\* The rest of MessageModal.on_submit: mark the row when it is decided by now.
MarkNotified(s) ==
  /\ marking[s] > 0
  /\ marking' = [marking EXCEPT ![s] = @ - 1]
  /\ notified' = [notified EXCEPT ![s] = @ \/ status[s] \in Decided]
  /\ due' = [due EXCEPT ![s] = @ + 1]
  /\ UNCHANGED <<status, votes, required, embed, dialog, refresh, history>>

\* The answer to the interaction failed after the DM: on_error, nothing is marked.
MessageExpires(s) ==
  /\ marking[s] > 0
  /\ marking' = [marking EXCEPT ![s] = @ - 1]
  /\ UNCHANGED <<rows, required, embed, dialog, due, refresh, history>>

-----------------------------------------------------------------------------
(* Rewriting the embed.                                                    *)

\* update_review_embed: read the row, edit the message (edits apply in order).
UpdateEmbed(s) ==
  /\ due[s] > 0
  /\ due' = [due EXCEPT ![s] = @ - 1]
  /\ IF Row(s)
       THEN /\ embed' = [embed EXCEPT ![s] = Rendered(s)]
            /\ rewrite' = [rewrite EXCEPT ![s] = "row"]
       ELSE UNCHANGED <<embed, rewrite>>
  /\ UNCHANGED <<rows, required, dialog, marking, refresh, crossed>>

\* Discord refuses the followup or the edit; the error is only logged.
UpdateFails(s) ==
  /\ due[s] > 0
  /\ due' = [due EXCEPT ![s] = @ - 1]
  /\ rewrite' = [rewrite EXCEPT ![s] = "failed"]
  /\ UNCHANGED <<rows, required, embed, dialog, marking, refresh, crossed>>

\* on_guild_language_changed: one read of all pending submissions ...
StartRefresh ==
  /\ \A s \in Submissions : refresh[s] = NoEmbed
  /\ refresh' = [s \in Submissions |-> IF status[s] = "pending" THEN Rendered(s) ELSE NoEmbed]
  /\ UNCHANGED <<rows, required, embed, dialog, due, marking, history>>

\* ... then one edit after the other, a second apart, from that snapshot.
RefreshEdit(s) ==
  /\ refresh[s] # NoEmbed
  /\ embed' = [embed EXCEPT ![s] = refresh[s]]
  /\ refresh' = [refresh EXCEPT ![s] = NoEmbed]
  /\ rewrite' = [rewrite EXCEPT ![s] = IF @ = "failed" THEN @ ELSE "refresh"]
  /\ UNCHANGED <<rows, required, dialog, due, marking, crossed>>

\* That edit fails and is skipped.
RefreshSkips(s) ==
  /\ refresh[s] # NoEmbed
  /\ refresh' = [refresh EXCEPT ![s] = NoEmbed]
  /\ UNCHANGED <<rows, required, embed, dialog, due, marking, history>>

-----------------------------------------------------------------------------
(* The form and the process.                                               *)

\* apply_settings or the dashboard change a threshold; nothing is counted again.
ChangeSettings(v, n) ==
  /\ n # required[v]
  /\ required' = [required EXCEPT ![v] = n]
  /\ crossed' = crossed \cup {s \in Submissions : status[s] = "pending" /\ Tally(votes[s], v) >= n}
  /\ UNCHANGED <<rows, embed, dialog, due, marking, refresh, rewrite>>

\* Deleting the form deletes its submissions and votes; the embeds stay.
DeleteForm ==
  /\ \E s \in Submissions : Row(s)
  /\ status' = [s \in Submissions |-> "deleted"]
  /\ votes' = [s \in Submissions |-> NoVotes]
  /\ notified' = [s \in Submissions |-> FALSE]
  /\ UNCHANGED <<required, embed, dialog, due, marking, refresh, history>>

\* The bot stops and starts: dialogs and running handlers are gone, the
\* persistent view of the embeds is registered again.
Restart ==
  /\ dialog' = [r \in Reviewers |-> Closed]
  /\ due' = [s \in Submissions |-> 0]
  /\ marking' = [s \in Submissions |-> 0]
  /\ refresh' = [s \in Submissions |-> NoEmbed]
  /\ rewrite' = [s \in Submissions |-> IF due[s] > 0 THEN "failed" ELSE rewrite[s]]
  /\ UNCHANGED <<rows, required, embed, crossed>>

-----------------------------------------------------------------------------
ReviewerStep(r) ==
  \/ \E s \in Submissions :
       ClickVote(r, s) \/ ClickEditVote(r, s) \/ ClickMessage(r, s) \/ ClickOverride(r, s)
  \/ \E v \in Ballots : SubmitVote(r, v) \/ SubmitEdit(r, v)
  \/ SubmitMessage(r) \/ SubmitOverride(r) \/ Dismiss(r)

HandlerStep(s) ==
  MarkNotified(s) \/ MessageExpires(s) \/ UpdateEmbed(s) \/ UpdateFails(s)

Next ==
  \/ \E r \in Reviewers : ReviewerStep(r)
  \/ \E s \in Submissions : Submit(s) \/ HandlerStep(s) \/ RefreshEdit(s) \/ RefreshSkips(s)
  \/ StartRefresh
  \/ \E v \in Ballots, n \in Thresholds : ChangeSettings(v, n)
  \/ DeleteForm
  \/ Restart

Spec == Init /\ [][Next]_vars

\* What a submission promises to those who never see an embed or a dialog.
Decision == INSTANCE SubmissionDecision

-----------------------------------------------------------------------------
Shown == [status : {"pending"} \cup Decided, approvals : Nat, denials : Nat, notified : BOOLEAN]
Dialog ==
  {Closed} \cup [kind : {"vote", "message"}, sub : Submissions]
           \cup [kind : {"edit"}, sub : Submissions, current : Ballots]
           \cup [kind : {"override"}, sub : Submissions, current : Decided]

\* Every variable keeps to the values the tables, the embed and the dialogs can hold.
TypeOK ==
  /\ status \in [Submissions -> Status]
  /\ votes \in [Submissions -> [Reviewers -> Ballots \cup {"none"}]]
  /\ notified \in [Submissions -> BOOLEAN]
  /\ required \in [Ballots -> Thresholds]
  /\ embed \in [Submissions -> Shown \cup {NoEmbed}]
  /\ dialog \in [Reviewers -> Dialog]
  /\ due \in [Submissions -> Nat]
  /\ marking \in [Submissions -> Nat]
  /\ refresh \in [Submissions -> Shown \cup {NoEmbed}]
  /\ crossed \subseteq Submissions
  /\ rewrite \in [Submissions -> {"row", "refresh", "failed"}]

\* A submission stays pending only while neither side has enough votes, unless
\* a settings change moved the threshold under votes already cast.
PendingBelowThreshold ==
  \A s \in Submissions \ crossed : status[s] = "pending" =>
    \A v \in Ballots : Tally(votes[s], v) < required[v]

\* ApplicantNotified is only ever set on a submission that has been decided.
NotifiedOnlyDecided ==
  \A s \in Submissions : notified[s] => status[s] \in Decided

\* The embed may lag behind the row but never shows a decision, or a sent
\* notification, that the row has not: whatever dialog, retry or refresh wrote it.
EmbedNeverAhead ==
  \A s \in Submissions : Row(s) /\ embed[s] # NoEmbed =>
    /\ embed[s].status \in Decided => status[s] \in Decided
    /\ embed[s].notified => notified[s]

\* With no handler running, the embed shows the row as it is, unless the last
\* rewrite failed or came from a language refresh.
EmbedConverges ==
  \A s \in Submissions :
    Row(s) /\ due[s] = 0 /\ rewrite[s] = "row" => embed[s] = Rendered(s)

\* The strengthening that makes the five invariants inductive: a row not yet
\* there has no votes, and a language refresh only ever captures submissions
\* that were pending and, hence, not notified.
FreshRows == \A s \in Submissions : status[s] = "none" => votes[s] = NoVotes
RefreshPending ==
  \A s \in Submissions : refresh[s] # NoEmbed =>
    refresh[s].status = "pending" /\ ~refresh[s].notified
Strengthening == FreshRows /\ RefreshPending

\* No step changes a vote of a submission already decided, however stale the dialog.
VotesFrozenOnceDecided ==
  [][\A s \in Submissions : status[s] \in Decided =>
       status'[s] = "deleted" \/ votes'[s] = votes[s]]_vars

\* A pending submission is decided only by enough votes for that side, never
\* by an override modal, a settings change or a refresh; and it is never reopened.
DecidedByVotes ==
  [][\A s \in Submissions :
       /\ status[s] = "pending" /\ status'[s] \in Decided =>
            \E v \in Ballots : /\ status'[s] = DecisionOf(v)
                               /\ Tally(votes'[s], v) >= required[v]
       /\ status[s] \in Decided => status'[s] \in Decided \cup {"deleted"}]_vars

\* Embeds, dialogs, handlers, refreshes and restarts are invisible to the promise
\* of SubmissionDecision: every step of the review is a step of it or none.
ImplementsDecision == Decision!Spec
=============================================================================
