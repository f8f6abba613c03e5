-------------------------- MODULE ApplyConversation --------------------------
(***************************************************************************)
(* How a member applies: the Apply button, the conversation manager, the   *)
(* direct-message conversation that walks through the questions of a form, *)
(* and the submission it saves (NerdyPy/utils/conversation.py, the Apply   *)
(* button of modules/application/views.py, ApplicationSubmitConversation   *)
(* of conversations.py and the event handlers of bot.py).                  *)
(*                                                                         *)
(* One member, one form.  Every event is handled by a coroutine of its     *)
(* own; a handler changes the conversation up to its first await, which is *)
(* the delivery of a direct message, and goes on when that is delivered.   *)
(* Deliveries in one channel complete in the order they were requested.    *)
(***************************************************************************)
EXTENDS Integers, Sequences, FiniteSets

CONSTANTS
  Convs,   \* conversations, one per accepted click on Apply
  Setups   \* forms and bounds to explore

\* A setup: the questions of the form, whether the database enforces foreign keys
\* (PostgreSQL; SQLite does not), and the bounds: clicks on Apply, runs of state_submit
\* per conversation, direct messages on their way.
ASSUME SetupsAssumption ==
  \A s \in Setups : /\ s.questions \in Nat \ {0} /\ s.foreignKeys \in BOOLEAN
                     /\ s.clicks \in Nat /\ s.submits \in Nat /\ s.sends \in Nat

VARIABLES
  setup,     \* the setup, chosen at the start
  form,      \* "ready", "unset" (no review channel) or "gone"
  reachable, \* whether the bot can access the review channel
  click,     \* per conversation: the Apply handler that creates it
  manager,   \* the conversation events go to
  offer,     \* the PreConversation in its place: previous, next, prompt shown
  conv,      \* the conversations
  sends,     \* per conversation: direct messages on their way, in order
  task,      \* per conversation and run of state_submit: where it waits
  row,       \* per conversation and run: the submission saved
  told,      \* history: outcomes told to the member, per conversation
  refused    \* history: conversations with a message Discord refused

N == setup.questions
\* The states of a conversation; an emoji is named by the state it leads to.
Question(i) == <<"question", i>>
Intro == <<"init">>
Confirm == <<"confirm">>
Submit == <<"submit">>
Reset == <<"reset">>
EditSelect == <<"edit_select">>
Cancelled == <<"cancelled">>
Unset == <<>>
Numbers == 1..N
States == {Question(i) : i \in Numbers} \cup {Intro, Confirm, Submit, Reset, EditSelect, Cancelled}

vars == <<setup, form, reachable, click, manager, offer, conv, sends, task, row, told, refused>>
submission == <<task, row>>
world == <<setup, form, reachable>>
history == <<told, refused>>
Runs == 1..setup.submits

NoRow == [state |-> "none"]
Nobody == "nobody"
ASSUME NobodyAssumption == Nobody \notin Convs
NoOffer == [prev |-> Nobody]

Fresh ==
  [active |-> TRUE, at |-> Intro, kind |-> "none", next |-> Unset, armed |-> "none",
   menu |-> {}, message |-> Unset, index |-> 1, editing |-> FALSE, answers |-> {}, run |-> 0,
   submission |-> 0]

Init ==
  /\ setup \in Setups
  /\ form = "ready"
  /\ reachable = TRUE
  /\ click = [c \in Convs |-> "idle"]
  /\ manager = Nobody
  /\ offer = NoOffer
  /\ conv = [c \in Convs |-> Fresh]
  /\ sends = [c \in Convs |-> <<>>]
  /\ task = [c \in Convs |-> [k \in Runs |-> "none"]]
  /\ row = [c \in Convs |-> [k \in Runs |-> NoRow]]
  /\ told = [c \in Convs |-> {}]
  /\ refused = {}

-----------------------------------------------------------------------------
(* Entering a state: what its handler changes before its first await, and  *)
(* the message it then sends.                                              *)

\* Mutant: the question the next text answers is not noted.
AskingUnnoted(cv, i) ==
  [cv EXCEPT
    !.kind = "both", !.armed = "answer",
    !.next = IF cv.editing \/ i = N THEN Confirm ELSE Question(i + 1),
    !.menu = IF cv.editing THEN {Confirm, Cancelled}
             ELSE {Cancelled} \cup (IF i > 1 THEN {Question(i - 1), Reset} ELSE {})]

\* send_both of state_question(i).
Asking(cv, i) ==
  [cv EXCEPT
    !.index = i, !.kind = "both", !.armed = "answer",
    !.next = IF cv.editing \/ i = N THEN Confirm ELSE Question(i + 1),
    !.menu = IF cv.editing THEN {Confirm, Cancelled}
             ELSE {Cancelled} \cup (IF i > 1 THEN {Question(i - 1), Reset} ELSE {})]

\* Mutant: RESET clears the answers and stays at the question.
EnteredInPlace(cv) ==
  IF cv.at = Intro THEN [cv EXCEPT !.at = Question(1)]
  ELSE IF cv.at = Confirm
    THEN [cv EXCEPT !.editing = FALSE, !.kind = "reaction", !.menu = {Submit, EditSelect, Cancelled}]
  ELSE IF cv.at = EditSelect
    THEN [cv EXCEPT !.kind = "text", !.next = EditSelect, !.armed = "select"]
  ELSE IF cv.at = Reset
    THEN Asking([cv EXCEPT !.answers = {}, !.editing = FALSE, !.at = Question(cv.index)], cv.index)
  ELSE IF cv.at = Cancelled THEN cv
  ELSE Asking(cv, cv.at[2])

Entered(cv) ==
  IF cv.at = Intro THEN [cv EXCEPT !.at = Question(1)]
  ELSE IF cv.at = Confirm
    THEN [cv EXCEPT !.editing = FALSE, !.kind = "reaction", !.menu = {Submit, EditSelect, Cancelled}]
  ELSE IF cv.at = EditSelect
    THEN [cv EXCEPT !.kind = "text", !.next = EditSelect, !.armed = "select"]
  ELSE IF cv.at = Reset
    THEN Asking([cv EXCEPT !.answers = {}, !.editing = FALSE, !.at = Question(1)], 1)
  ELSE IF cv.at = Cancelled THEN cv
  ELSE Asking(cv, cv.at[2])

\* A message on its way: a prompt of a state, or a notice with what follows it.
Prompt(s) == [what |-> "prompt", of |-> s]
Notice(w) == [what |-> w]
Messages == {Prompt(s) : s \in States} \cup {Notice(w) : w \in {"intro", "invalid", "submitted", "failed", "cancelled"}}

Announcement(cv) ==
  IF cv.at = Intro THEN Notice("intro")
  ELSE IF cv.at = Cancelled THEN Notice("cancelled")
  ELSE Prompt(Entered(cv).at)

\* Room for another message; what a handler owes is sent in any case.
Room == Cardinality(UNION {{c} \X DOMAIN sends[c] : c \in Convs}) < setup.sends
Send(c, m) == sends' = [sends EXCEPT ![c] = Append(@, m)]

Run(c, k) == conv[c].run < k /\ k = conv[c].run + 1

\* The row and its answers, saved in one transaction; submission_id is the latest.
Save(c, k, cv) ==
  /\ row' = [row EXCEPT ![c][k] = [state |-> "unposted", answers |-> cv.answers]]
  /\ conv' = [conv EXCEPT ![c] = [cv EXCEPT !.submission = k, !.run = IF @ < k THEN k ELSE @]]

\* Mutant: without a review channel success is announced and nothing saved.
EnterSubmitUnsaved(c, cv, queue) ==
  \E k \in Runs :
    /\ Run(c, k)
    /\ conv' = [conv EXCEPT ![c] = [cv EXCEPT !.run = k]]
    /\ IF form = "ready"
       THEN /\ task' = [task EXCEPT ![c][k] = "fetching"]
            /\ sends' = [sends EXCEPT ![c] = queue]
       ELSE /\ sends' = [sends EXCEPT ![c] = Append(queue, Notice("submitted"))]
            /\ UNCHANGED task
    /\ UNCHANGED row

\* state_submit up to its first await.  Without a review channel there is
\* nothing to fetch: the row is saved and success announced at once.
EnterSubmit(c, cv, queue) ==
  \E k \in Runs :
    /\ Run(c, k)
    /\ \/ /\ form = "ready"
          /\ conv' = [conv EXCEPT ![c] = [cv EXCEPT !.run = k]]
          /\ task' = [task EXCEPT ![c][k] = "fetching"]
          /\ sends' = [sends EXCEPT ![c] = queue]
          /\ UNCHANGED row
       \/ /\ form = "gone" /\ setup.foreignKeys      \* IntegrityError: nobody is told
          /\ conv' = [conv EXCEPT ![c] = [cv EXCEPT !.run = k]]
          /\ sends' = [sends EXCEPT ![c] = queue]
          /\ UNCHANGED <<task, row>>
       \/ /\ form = "unset" \/ (form = "gone" /\ ~setup.foreignKeys)
          /\ Save(c, k, cv)
          /\ sends' = [sends EXCEPT ![c] = Append(queue, Notice("submitted"))]
          /\ UNCHANGED task

\* repost_state: run the handler of the current state.
Repost(c, cv, queue) ==
  \/ /\ cv.at = Submit
     /\ EnterSubmit(c, cv, queue)
  \/ /\ cv.at # Submit
     /\ conv' = [conv EXCEPT ![c] = Entered(cv)]
     /\ sends' = [sends EXCEPT ![c] = Append(queue, Announcement(cv))]
     /\ UNCHANGED submission

Enter(c, cv) == Room /\ Repost(c, cv, sends[c])

-----------------------------------------------------------------------------
(* The Apply button.                                                       *)

Live(c) == {k \in Runs : row[c][k].state \in {"unposted", "posted"}}
Applied == \E c \in Convs : Live(c) # {}

\* The synchronous part: the form is ready and the member has no submission yet.
Apply(c) ==
  /\ click[c] = "idle"
  /\ Cardinality({d \in Convs : click[d] # "idle"}) < setup.clicks
  /\ form = "ready"
  /\ ~Applied
  /\ click' = [click EXCEPT ![c] = "checked"]
  /\ UNCHANGED <<world, manager, offer, conv, sends, submission, history>>

\* Mutant: a new conversation takes over at once.
BeginAtOnce(c) ==
  /\ click[c] = "checked"
  /\ reachable
  /\ offer = NoOffer
  /\ click' = [click EXCEPT ![c] = "begun"]
  /\ manager' = c
  /\ Enter(c, conv[c])
  /\ UNCHANGED <<world, offer, history>>

\* After deferring and fetching the channel: init_conversation.
Begin(c) ==
  /\ click[c] = "checked"
  /\ reachable
  /\ offer = NoOffer              \* bound: one PreConversation at a time
  /\ click' = [click EXCEPT ![c] = "begun"]
  /\ IF manager # Nobody /\ conv[manager].active
     THEN /\ offer' = [prev |-> manager, next |-> c, shown |-> FALSE]
          /\ UNCHANGED <<manager, conv, sends, submission>>
     ELSE /\ manager' = c
          /\ Enter(c, conv[c])
          /\ UNCHANGED offer
  /\ UNCHANGED <<world, history>>

BeginRefused(c) ==
  /\ click[c] = "checked"
  /\ ~reachable
  /\ click' = [click EXCEPT ![c] = "refused"]
  /\ UNCHANGED <<world, manager, offer, conv, sends, submission, history>>

-----------------------------------------------------------------------------
(* PreConversation: continue the old conversation or start the new one.    *)

OfferShown ==
  /\ offer # NoOffer
  /\ ~offer.shown
  /\ offer' = [offer EXCEPT !.shown = TRUE]
  /\ UNCHANGED <<world, click, manager, conv, sends, submission, history>>

Choose(c) ==
  /\ offer # NoOffer
  /\ offer.shown
  /\ c \in {offer.prev, offer.next}
  /\ manager' = c
  /\ offer' = NoOffer
  /\ Enter(c, conv[c])
  /\ UNCHANGED <<world, click, history>>

-----------------------------------------------------------------------------
(* Events of the member, routed to the manager's conversation.  Neither    *)
(* handler looks at isActive.                                              *)

Routed(c) == manager = c /\ offer = NoOffer

React(c, s) ==
  /\ Routed(c)
  /\ conv[c].message # Unset           \* is_conv_message
  /\ conv[c].kind \in {"reaction", "both"}
  /\ s \in conv[c].menu
  /\ Enter(c, [conv[c] EXCEPT !.at = s, !.message = Unset])
  /\ UNCHANGED <<world, click, manager, offer, history>>

\* A text that is not, or not yet, handed to an answer handler moves on too.
AnswerQuestion(c) ==
  /\ Routed(c)
  /\ conv[c].kind \in {"text", "both"}
  /\ conv[c].armed \in {"answer", "none"}
  /\ LET cv == conv[c] IN
     Enter(c, [cv EXCEPT
       !.answers = IF cv.armed = "answer" THEN @ \cup {cv.index} ELSE @,
       !.editing = IF cv.armed = "answer" THEN FALSE ELSE @,
       !.armed = "none", !.at = cv.next, !.message = Unset])
  /\ UNCHANGED <<world, click, manager, offer, history>>

SelectQuestion(c, i) ==
  /\ Routed(c)
  /\ conv[c].kind \in {"text", "both"}
  /\ conv[c].armed = "select"
  /\ Enter(c, [conv[c] EXCEPT !.editing = TRUE, !.at = Question(i), !.armed = "none"])
  /\ UNCHANGED <<world, click, manager, offer, history>>

\* Not a number of a question: the handler awaits the notice and then goes on.
SelectInvalid(c) ==
  /\ Routed(c)
  /\ conv[c].kind \in {"text", "both"}
  /\ conv[c].armed = "select"
  /\ Room
  /\ Send(c, Notice("invalid"))
  /\ UNCHANGED <<world, click, manager, offer, conv, submission, history>>

-----------------------------------------------------------------------------
(* A direct message is delivered, or refused (the member closed their DMs).*)

Pop(c) == [sends EXCEPT ![c] = Tail(@)]

PromptDelivered(c) ==
  /\ sends[c] # <<>>
  /\ Head(sends[c]).what = "prompt"
  /\ conv' = [conv EXCEPT ![c].message = Head(sends[c]).of]
  /\ sends' = Pop(c)
  /\ UNCHANGED <<world, click, manager, offer, submission, history>>

\* state_init and on_message go on after their notice.
HandlerResumes(c) ==
  /\ sends[c] # <<>>
  /\ \/ /\ Head(sends[c]).what = "intro"
        /\ conv' = [conv EXCEPT ![c] = Asking(@, 1)]
        /\ sends' = [sends EXCEPT ![c] = Append(Tail(@), Prompt(Question(1)))]
        /\ UNCHANGED submission
     \/ /\ Head(sends[c]).what = "invalid"
        /\ Repost(c, [conv[c] EXCEPT !.armed = "none"], Tail(sends[c]))
  /\ UNCHANGED <<world, click, manager, offer, history>>

\* The last notice of a conversation: it is told its outcome and closed.
Closes(c) ==
  /\ sends[c] # <<>>
  /\ Head(sends[c]).what \in {"submitted", "failed", "cancelled"}
  /\ told' = [told EXCEPT ![c] = @ \cup {Head(sends[c]).what}]
  /\ conv' = [conv EXCEPT ![c].active = FALSE]
  /\ sends' = Pop(c)
  /\ UNCHANGED <<world, click, manager, offer, submission, refused>>

SendFails(c) ==
  /\ sends[c] # <<>>
  /\ sends' = Pop(c)
  /\ refused' = refused \cup {c}
  /\ UNCHANGED <<world, click, manager, offer, conv, submission, told>>

-----------------------------------------------------------------------------
(* The rest of state_submit.                                               *)

Advance(c, k, t) == task' = [task EXCEPT ![c][k] = t]

\* The channel is there: save.  A form deleted meanwhile ends the handler with
\* an exception, with the row saved when no foreign key forbids it.
SaveSubmission(c, k) ==
  /\ task[c][k] = "fetching"
  /\ reachable
  /\ IF form = "gone"
     THEN /\ Advance(c, k, "none")
          /\ IF setup.foreignKeys THEN UNCHANGED <<row, conv>> ELSE Save(c, k, conv[c])
     ELSE /\ Advance(c, k, "posting")
          /\ Save(c, k, conv[c])
  /\ UNCHANGED <<world, click, manager, offer, sends, history>>

Abort(c, k) ==
  /\ Advance(c, k, "none")
  /\ Send(c, Notice("failed"))
  /\ UNCHANGED <<world, click, manager, offer, conv, row, history>>

ChannelUnreachable(c, k) ==
  /\ task[c][k] = "fetching"
  /\ ~reachable
  /\ Abort(c, k)

PostEmbed(c, k) ==
  /\ task[c][k] = "posting"
  /\ Advance(c, k, "persisting")
  /\ UNCHANGED <<world, click, manager, offer, conv, sends, row, history>>

\* Mutant: a failed post ends the handler without a word.
PostFailsSilently(c, k) ==
  /\ task[c][k] = "posting"
  /\ Advance(c, k, "none")
  /\ UNCHANGED <<world, click, manager, offer, conv, sends, row, history>>

\* channel.send raises: the row saved before stays.
PostFails(c, k) ==
  /\ task[c][k] = "posting"
  /\ Abort(c, k)

\* The UPDATE of ReviewMessageId addresses the conversation's latest submission.
PersistReviewMessage(c, k) ==
  /\ task[c][k] = "persisting"
  /\ row[c][conv[c].submission].state \in {"unposted", "posted"}
  /\ Advance(c, k, "none")
  /\ row' = [row EXCEPT ![c][conv[c].submission].state = "posted"]
  /\ Send(c, Notice("submitted"))
  /\ UNCHANGED <<world, click, manager, offer, conv, history>>

PersistFindsNoRow(c, k) ==
  /\ task[c][k] = "persisting"
  /\ row[c][conv[c].submission].state \notin {"unposted", "posted"}
  /\ Abort(c, k)

-----------------------------------------------------------------------------
(* The surroundings.                                                       *)

FormUnset ==
  /\ form = "ready"
  /\ form' = "unset"
  /\ UNCHANGED <<setup, reachable, click, manager, offer, conv, sends, submission, history>>

FormDeleted ==
  /\ form # "gone"
  /\ form' = "gone"
  /\ row' = [c \in Convs |-> [k \in Runs |->
               IF row[c][k] = NoRow THEN NoRow ELSE [row[c][k] EXCEPT !.state = "deleted"]]]
  /\ UNCHANGED <<setup, reachable, click, manager, offer, conv, sends, task, history>>

ChannelLost ==
  /\ reachable
  /\ reachable' = FALSE
  /\ UNCHANGED <<setup, form, click, manager, offer, conv, sends, submission, history>>

Restart ==
  /\ click' = [c \in Convs |-> IF click[c] = "idle" THEN "idle" ELSE "lost"]
  /\ manager' = Nobody
  /\ offer' = NoOffer
  /\ conv' = [c \in Convs |-> IF click[c] = "idle" THEN Fresh ELSE [conv[c] EXCEPT !.active = FALSE, !.message = Unset]]
  /\ sends' = [c \in Convs |-> <<>>]
  /\ task' = [c \in Convs |-> [k \in Runs |-> "none"]]
  /\ UNCHANGED <<world, row, history>>

-----------------------------------------------------------------------------
SubmitStep(c, k) ==
  \/ SaveSubmission(c, k) \/ ChannelUnreachable(c, k)
  \/ PostEmbed(c, k) \/ PostFails(c, k)
  \/ PersistReviewMessage(c, k) \/ PersistFindsNoRow(c, k)

Delivery(c) == PromptDelivered(c) \/ HandlerResumes(c) \/ Closes(c) \/ SendFails(c)

Member(c) ==
  \/ Apply(c) \/ Choose(c)
  \/ \E s \in States : React(c, s)
  \/ AnswerQuestion(c)
  \/ \E i \in Numbers : SelectQuestion(c, i)
  \/ SelectInvalid(c)

Next ==
  \/ \E c \in Convs : Member(c) \/ Begin(c) \/ BeginRefused(c) \/ Delivery(c)
  \/ \E c \in Convs, k \in Runs : SubmitStep(c, k)
  \/ OfferShown
  \/ FormUnset \/ FormDeleted \/ ChannelLost \/ Restart

Spec == Init /\ [][Next]_vars

-----------------------------------------------------------------------------
Conv ==
  [active : BOOLEAN, at : States, kind : {"none", "text", "reaction", "both"},
   next : States \cup {Unset}, armed : {"none", "answer", "select"}, menu : SUBSET States,
   message : States \cup {Unset}, index : Numbers, editing : BOOLEAN,
   answers : SUBSET Numbers, run : {0} \cup Runs,
   submission : {0} \cup Runs]
Row == {NoRow} \cup [state : {"unposted", "posted", "deleted"}, answers : SUBSET Numbers]

\* Every variable keeps to the values its attributes, tables and handlers can hold.
TypeOK ==
  /\ setup \in Setups
  /\ form \in {"ready", "unset", "gone"}
  /\ reachable \in BOOLEAN
  /\ click \in [Convs -> {"idle", "checked", "begun", "refused", "lost"}]
  /\ manager \in Convs \cup {Nobody}
  /\ offer \in {NoOffer} \cup [prev : Convs, next : Convs, shown : BOOLEAN]
  /\ conv \in [Convs -> Conv]
  /\ sends \in [Convs -> Seq(Messages)]
  /\ task \in [Convs -> [Runs -> {"none", "fetching", "posting", "persisting"}]]
  /\ row \in [Convs -> [Runs -> Row]]
  /\ told \in [Convs -> SUBSET {"submitted", "failed", "cancelled"}]
  /\ refused \subseteq Convs

\* A saved submission answers every question, whatever way back, reset, edit,
\* cancellation and late prompts the conversation took.
AnswersComplete ==
  \A c \in Convs, k \in Runs : row[c][k] # NoRow => row[c][k].answers = Numbers

\* Whoever is told "submitted" has a saved submission (its form may be deleted since).
SubmittedWasSaved ==
  \A c \in Convs : "submitted" \in told[c] => \E k \in Runs : row[c][k] # NoRow

\* The prompt of what the member's next text or reaction is taken for.
Awaited(cv) ==
  CASE cv.kind = "both"     -> Question(cv.index)
    [] cv.kind = "reaction" -> Confirm
    [] cv.kind = "text"     -> EditSelect
    [] OTHER                -> Unset

\* With nothing on its way and nothing refused, the message that takes the
\* member's reactions is the prompt of what they, and the next text, are taken
\* for: however prompts, resets, edits and a second start crossed, nobody
\* answers one question on the prompt of another.
PromptIsCurrent ==
  \A c \in Convs \ refused :
    sends[c] = <<>> /\ conv[c].message # Unset => conv[c].message = Awaited(conv[c])

\* An active conversation gives way to another one only by the member's choice:
\* no answers given so far are lost to a click on Apply.
ActiveConversationKept ==
  [][\A c \in Convs : manager = c /\ conv[c].active /\ manager' # c
       => offer # NoOffer \/ manager' = Nobody]_vars

\* With nothing on its way, whoever confirmed was told the outcome, or Discord refused
\* the message, the form was deleted under the run, or the bot restarted.
OutcomeTold ==
  \A c \in Convs :
    conv[c].run > 0 /\ sends[c] = <<>> /\ (\A k \in Runs : task[c][k] = "none")
      => told[c] \cap {"submitted", "failed"} # {} \/ c \in refused \/ form = "gone" \/ click[c] = "lost"
=============================================================================
