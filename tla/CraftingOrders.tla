--------------------------- MODULE CraftingOrders ---------------------------
(***************************************************************************)
(* The crafting orders of a World of Warcraft guild: the order modal, the  *)
(* buttons of an order card, the question threads, the notice to the       *)
(* creator, the language refresh and the hourly cleanup                    *)
(* (NerdyPy/modules/wow/views/{modals,dropdowns}.py, wow/crafting.py).     *)
(*                                                                         *)
(* Every interaction is a task on one event loop.  The library awaits the  *)
(* check of a button and then its callback; a callback commits one         *)
(* conditional UPDATE and goes on through awaits, each of which may fail   *)
(* and at each of which other tasks run.  Code without an await is one     *)
(* step.  The process may stop between any two steps.                      *)
(***************************************************************************)
EXTENDS Integers, FiniteSets

CONSTANTS
  Orders,      \* orders of the guild
  Users,       \* members that use the board, each with at most one interaction running (a bound)
  Requesters,  \* those that place orders (a bound: anyone may)
  Crafters,    \* those that hold the profession role of the orders
  Admins,      \* those with the administrator permission
  Nobody       \* CrafterId is NULL

ASSUME UsersAssumption ==
  /\ Requesters \subseteq Users /\ Crafters \subseteq Users /\ Admins \subseteq Users
  /\ Nobody \notin Users

Active == {"open", "in_progress"}
Closed == {"completed", "cancelled"}
Status == {"none", "withdrawn"} \cup Active \cup Closed

VARIABLES
  status,      \* CraftingOrder.Status; "none" before the row, "withdrawn" after its deletion
  creator,     \* CreatorId
  crafter,     \* CrafterId
  messageId,   \* whether OrderMessageId is set
  threadId,    \* whether ThreadId is set
  deleteAt,    \* MessageDeleteAt: not set, in the future, or passed
  card,        \* the order message in Discord
  thread,      \* whether the message has a thread
  task,        \* the interaction each user has running
  refresh,     \* cards a language refresh still has to rewrite, with its snapshot
  sweep,       \* the running iteration of the cleanup loop
  closedBy,    \* history: who completed or cancelled
  notice,      \* history: how the creator was told of it
  disturbed    \* history: orders whose card a refresh, a failed handler or a crossing edit left unsure

row == <<status, creator, crafter, messageId, threadId, deleteAt>>
history == <<closedBy, notice, disturbed>>
vars == <<row, card, thread, task, refresh, sweep, history>>

-----------------------------------------------------------------------------
Idle == [kind |-> "idle"]
NoSweep == [todo |-> {}, cleared |-> {}]
NoCard == [shows |-> "nothing"]                  \* not posted
Gone == [shows |-> "gone"]                       \* deleted
Done == [shows |-> "done"]                       \* only the text that the order is closed
Shown(s, c) == [shows |-> s, crafter |-> c]      \* build_order_embed, build_order_view
Posted(o) == card[o] \notin {NoCard, Gone}

\* What each button's check demands of the row it reads.
MayAccept(u, o)   == status[o] = "open" /\ u \in Crafters
MayDrop(u, o)     == status[o] = "in_progress" /\ u \in {crafter[o]} \cup Admins
MayComplete(u, o) == MayDrop(u, o)
MayCancel(u, o)   == status[o] \in Active /\ u \in {creator[o]} \cup Admins

Continue(u, t) == task' = [task EXCEPT ![u] = t]
Busy(u, kind) == task[u].kind = kind

Init ==
  /\ status = [o \in Orders |-> "none"]
  /\ creator = [o \in Orders |-> Nobody]
  /\ crafter = [o \in Orders |-> Nobody]
  /\ messageId = [o \in Orders |-> FALSE]
  /\ threadId = [o \in Orders |-> FALSE]
  /\ deleteAt = [o \in Orders |-> "unset"]
  /\ card = [o \in Orders |-> NoCard]
  /\ thread = [o \in Orders |-> FALSE]
  /\ task = [u \in Users |-> Idle]
  /\ refresh = [o \in Orders |-> NoCard]
  /\ sweep = NoSweep
  /\ closedBy = [o \in Orders |-> Nobody]
  /\ notice = [o \in Orders |-> "none"]
  /\ disturbed = {}

-----------------------------------------------------------------------------
(* CraftingOrderModal.on_submit: save the row, post the card, save its id. *)

Create(u, o) ==
  /\ Busy(u, "idle") /\ u \in Requesters /\ status[o] = "none"
  /\ status' = [status EXCEPT ![o] = "open"]
  /\ creator' = [creator EXCEPT ![o] = u]
  /\ Continue(u, [kind |-> "post", order |-> o])
  /\ UNCHANGED <<crafter, messageId, threadId, deleteAt, card, thread, refresh, sweep, history>>

Post(u) ==
  LET o == task[u].order IN
  /\ Busy(u, "post")
  /\ card' = [card EXCEPT ![o] = Shown("open", Nobody)]
  /\ Continue(u, [kind |-> "save", order |-> o])
  /\ UNCHANGED <<row, thread, refresh, sweep, history>>

\* The channel is gone or Discord refuses the message: the row is deleted.
PostFails(u) ==
  LET o == task[u].order IN
  /\ Busy(u, "post")
  /\ status' = [status EXCEPT ![o] = "withdrawn"]
  /\ Continue(u, Idle)
  /\ UNCHANGED <<creator, crafter, messageId, threadId, deleteAt, card, thread, refresh, sweep, history>>

SaveMessageId(u) ==
  LET o == task[u].order IN
  /\ Busy(u, "save")
  /\ messageId' = [messageId EXCEPT ![o] = TRUE]
  /\ Continue(u, Idle)
  /\ UNCHANGED <<status, creator, crafter, threadId, deleteAt, card, thread, refresh, sweep, history>>

\* The database refuses: the message is deleted, as far as Discord lets it, and the row stays.
SaveFails(u) ==
  LET o == task[u].order IN
  /\ Busy(u, "save")
  /\ card' \in {card, [card EXCEPT ![o] = Gone]}
  /\ disturbed' = disturbed \cup {o}
  /\ Continue(u, Idle)
  /\ UNCHANGED <<row, thread, refresh, sweep, closedBy, notice>>

-----------------------------------------------------------------------------
(* The buttons.  A click on what the card shows is on its way; when it     *)
(* arrives the check reads the row, and then the callback runs.            *)

Buttons(o) ==
  CASE card[o].shows = "open"        -> {"accept", "cancel", "ask"}
    [] card[o].shows = "in_progress" -> {"drop", "complete", "cancel", "ask"}
    [] OTHER                         -> {}

Click(u, o, b) ==
  /\ Busy(u, "idle") /\ b \in Buttons(o)
  /\ Continue(u, IF b = "ask" THEN [kind |-> "ask", order |-> o]
                             ELSE [kind |-> "click", order |-> o, button |-> b])
  /\ UNCHANGED <<row, card, thread, refresh, sweep, history>>

TooLate(u) ==
  /\ Continue(u, Idle)
  /\ UNCHANGED <<row, card, thread, refresh, sweep, history>>

Passes(u, o, b) ==
  CASE b = "accept"   -> MayAccept(u, o)
    [] b = "drop"     -> MayDrop(u, o)
    [] b = "complete" -> MayComplete(u, o)
    [] b = "cancel"   -> MayCancel(u, o)

Check(u) ==
  LET o == task[u].order IN
  /\ Busy(u, "click")
  /\ IF Passes(u, o, task[u].button)
       THEN /\ Continue(u, [kind |-> task[u].button, order |-> o])
            /\ UNCHANGED <<row, card, thread, refresh, sweep, history>>
       ELSE TooLate(u)

\* The callback changes the row, if the row still permits it, and goes on to
\* show the change; nothing orders two such edits of one card.
Overtakes(o) == IF \E u \in Users : Busy(u, "show") /\ task[u].order = o THEN {o} ELSE {}

ChangeShowing(u, o, s, c, shown) ==
  /\ status' = [status EXCEPT ![o] = s]
  /\ crafter' = [crafter EXCEPT ![o] = c]
  /\ disturbed' = disturbed \cup Overtakes(o)
  /\ Continue(u, [kind |-> "show", order |-> o, card |-> shown])
  /\ UNCHANGED <<creator, messageId, threadId, deleteAt, card, thread, refresh, sweep, closedBy, notice>>

Change(u, o, s, c) == ChangeShowing(u, o, s, c, Shown(s, c))

\* Mutant: the update is not conditional on the status.
AcceptWhatever(u) ==
  LET o == task[u].order IN Busy(u, "accept") /\ Change(u, o, "in_progress", u)

Accept(u) ==
  LET o == task[u].order IN
  /\ Busy(u, "accept")
  /\ IF status[o] = "open" THEN Change(u, o, "in_progress", u) ELSE TooLate(u)

\* Mutant: the card is built from the row as read before the update.
DropShowsStale(u) ==
  LET o == task[u].order IN
  /\ Busy(u, "drop")
  /\ IF MayDrop(u, o)
       THEN ChangeShowing(u, o, "open", Nobody, Shown(status[o], crafter[o]))
       ELSE TooLate(u)

Drop(u) ==
  LET o == task[u].order IN
  /\ Busy(u, "drop")
  /\ IF MayDrop(u, o) THEN Change(u, o, "open", Nobody) ELSE TooLate(u)

\* interaction.response.edit_message with the new embed and buttons.
Show(u) ==
  LET o == task[u].order IN
  /\ Busy(u, "show") /\ Posted(o)
  /\ card' = [card EXCEPT ![o] = task[u].card]
  /\ Continue(u, Idle)
  /\ UNCHANGED <<row, thread, refresh, sweep, history>>

\* The interaction has expired, or the message is gone: the card stays as it is.
ShowFails(u) ==
  /\ Busy(u, "show")
  /\ disturbed' = disturbed \cup {task[u].order}
  /\ Continue(u, Idle)
  /\ UNCHANGED <<row, card, thread, refresh, sweep, closedBy, notice>>

-----------------------------------------------------------------------------
(* Closing an order: update, tell the creator, mark the card, delete it.   *)

Close(u, o, s, next) ==
  /\ status' = [status EXCEPT ![o] = s]
  /\ closedBy' = [closedBy EXCEPT ![o] = u]
  /\ Continue(u, next)
  /\ UNCHANGED <<creator, crafter, messageId, threadId, deleteAt, card, thread, refresh, sweep, notice, disturbed>>

\* "old" is the ThreadId the update returned: the thread to delete with the card.
Notifying(o) == [kind |-> "notify", order |-> o, old |-> threadId[o]]
Finishing(o, old, used) == [kind |-> "finish", order |-> o, old |-> old, used |-> used]

\* Mutant: the update does not ask again who the crafter is.
CompleteForAnother(u) ==
  LET o == task[u].order IN
  /\ Busy(u, "complete")
  /\ IF status[o] = "in_progress" THEN Close(u, o, "completed", Notifying(o)) ELSE TooLate(u)

Complete(u) ==
  LET o == task[u].order IN
  /\ Busy(u, "complete")
  /\ IF MayComplete(u, o) THEN Close(u, o, "completed", Notifying(o)) ELSE TooLate(u)

\* Whoever cancels an own order is not told of it.
Cancel(u) ==
  LET o == task[u].order IN
  /\ Busy(u, "cancel")
  /\ IF status[o] \in Active
       THEN Close(u, o, "cancelled",
                  IF u = creator[o] THEN Finishing(o, threadId[o], FALSE) ELSE Notifying(o))
       ELSE TooLate(u)

Tell(u) ==
  LET o == task[u].order IN
  /\ Busy(u, "notify")
  /\ notice' = [notice EXCEPT ![o] = "message"]
  /\ Continue(u, Finishing(o, task[u].old, FALSE))
  /\ UNCHANGED <<row, card, thread, refresh, sweep, closedBy, disturbed>>

\* The creator accepts no messages; _thread_fallback reads the row.
TellRefused(u) ==
  LET o == task[u].order IN
  /\ Busy(u, "notify")
  /\ Continue(u, [kind |-> "fallback", order |-> o, old |-> task[u].old,
                  known |-> threadId[o], message |-> messageId[o]])
  /\ UNCHANGED <<row, card, thread, refresh, sweep, history>>

\* The thread a handler posts to: the one of the row it read, or a new one on
\* the message, which Discord refuses when the message has one already.
NewThread(t) == ~(t.known /\ thread[t.order])
MayCreateThread(t) == t.message /\ Posted(t.order) /\ ~thread[t.order]
HasThread(t) == NewThread(t) => MayCreateThread(t)

\* The thread was used: the card stays as its anchor until a deadline, if that can be saved.
Anchor(u, o) ==
  /\ deleteAt' \in {deleteAt, [deleteAt EXCEPT ![o] = "future"]}
  /\ notice' = [notice EXCEPT ![o] = "thread"]
  /\ Continue(u, Finishing(o, task[u].old, TRUE))

FallbackPost(u) ==
  LET o == task[u].order IN
  /\ Busy(u, "fallback") /\ HasThread(task[u])
  /\ thread' = [thread EXCEPT ![o] = TRUE]
  /\ IF NewThread(task[u])
       THEN /\ Continue(u, [kind |-> "anchor", order |-> o, old |-> task[u].old])
            /\ UNCHANGED <<deleteAt, notice>>
       ELSE Anchor(u, o)
  /\ UNCHANGED <<status, creator, crafter, messageId, threadId, card, refresh, sweep, closedBy, disturbed>>

FallbackRecord(u) ==
  LET o == task[u].order IN
  /\ Busy(u, "anchor")
  /\ threadId' = [threadId EXCEPT ![o] = TRUE]
  /\ Anchor(u, o)
  /\ UNCHANGED <<status, creator, crafter, messageId, card, thread, refresh, sweep, closedBy, disturbed>>

\* No channel, no message, no permission: the order is closed without a notice.
FallbackFails(u) ==
  LET o == task[u].order IN
  /\ Busy(u, "fallback")
  /\ Continue(u, Finishing(o, task[u].old, FALSE))
  /\ UNCHANGED <<row, card, thread, refresh, sweep, history>>

\* The post, or the row, fails after the thread was made: delete it again and go on.
FallbackUndone(u) ==
  LET o == task[u].order IN
  /\ Busy(u, "anchor")
  /\ thread' \in {thread, [thread EXCEPT ![o] = FALSE]}
  /\ Continue(u, Finishing(o, task[u].old, FALSE))
  /\ UNCHANGED <<row, card, refresh, sweep, history>>

\* Any other error on the way, and an expired interaction, end the handler:
\* the order is closed and its card is left as it was.
CloseFails(u) ==
  /\ task[u].kind \in {"notify", "fallback", "anchor", "finish"}
  /\ disturbed' = disturbed \cup {task[u].order}
  /\ Continue(u, Idle)
  /\ UNCHANGED <<row, card, thread, refresh, sweep, closedBy, notice>>

Finish(u) ==
  LET o == task[u].order IN
  /\ Busy(u, "finish") /\ Posted(o)
  /\ card' = [card EXCEPT ![o] = Done]
  /\ Continue(u, IF task[u].used THEN Idle ELSE [kind |-> "delete", order |-> o, old |-> task[u].old])
  /\ UNCHANGED <<row, thread, refresh, sweep, history>>

\* The thread first, when the update returned one; failures are logged.
DeleteThread(u) ==
  LET o == task[u].order IN
  /\ Busy(u, "delete") /\ task[u].old
  /\ thread' \in {thread, [thread EXCEPT ![o] = FALSE]}
  /\ Continue(u, [kind |-> "delete", order |-> o, old |-> FALSE])
  /\ UNCHANGED <<row, card, refresh, sweep, history>>

DeleteCard(u) ==
  LET o == task[u].order IN
  /\ Busy(u, "delete") /\ ~task[u].old
  /\ card' \in {card, [card EXCEPT ![o] = Gone]}
  /\ Continue(u, Idle)
  /\ UNCHANGED <<row, thread, refresh, sweep, history>>

-----------------------------------------------------------------------------
(* AskQuestionModal: anyone asks the creator, in the thread of the order.  *)

Dismiss(u) ==
  /\ Busy(u, "ask")
  /\ Continue(u, Idle)
  /\ UNCHANGED <<row, card, thread, refresh, sweep, history>>

Ask(u) ==
  LET o == task[u].order IN
  /\ Busy(u, "ask")
  /\ Continue(u, [kind |-> "asking", order |-> o, known |-> threadId[o], message |-> messageId[o]])
  /\ UNCHANGED <<row, card, thread, refresh, sweep, history>>

AskPost(u) ==
  LET o == task[u].order IN
  /\ Busy(u, "asking") /\ HasThread(task[u])
  /\ thread' = [thread EXCEPT ![o] = TRUE]
  /\ Continue(u, IF NewThread(task[u]) THEN [kind |-> "asked", order |-> o] ELSE Idle)
  /\ UNCHANGED <<row, card, refresh, sweep, history>>

AskFails(u) ==
  /\ Busy(u, "asking")
  /\ Continue(u, Idle)
  /\ UNCHANGED <<row, card, thread, refresh, sweep, history>>

AskRecord(u) ==
  LET o == task[u].order IN
  /\ Busy(u, "asked")
  /\ threadId' = [threadId EXCEPT ![o] = TRUE]
  /\ Continue(u, Idle)
  /\ UNCHANGED <<status, creator, crafter, messageId, deleteAt, card, thread, refresh, sweep, history>>

\* The question cannot be posted or the ThreadId not saved: the new thread is deleted, if Discord lets it.
AskUndone(u) ==
  LET o == task[u].order IN
  /\ Busy(u, "asked")
  /\ thread' \in {thread, [thread EXCEPT ![o] = FALSE]}
  /\ Continue(u, Idle)
  /\ UNCHANGED <<row, card, refresh, sweep, history>>

-----------------------------------------------------------------------------
(* The language refresh: one read of the active orders, then card by card. *)

StartRefresh ==
  /\ \A o \in Orders : refresh[o] = NoCard
  /\ refresh' = [o \in Orders |-> IF status[o] \in Active /\ messageId[o]
                                    THEN Shown(status[o], crafter[o]) ELSE NoCard]
  /\ UNCHANGED <<row, card, thread, task, sweep, history>>

RefreshCard(o) ==
  /\ refresh[o] # NoCard /\ Posted(o)
  /\ card' = [card EXCEPT ![o] = refresh[o]]
  /\ refresh' = [refresh EXCEPT ![o] = NoCard]
  /\ disturbed' = disturbed \cup {o}
  /\ UNCHANGED <<row, thread, task, sweep, closedBy, notice>>

RefreshSkips(o) ==
  /\ refresh[o] # NoCard
  /\ refresh' = [refresh EXCEPT ![o] = NoCard]
  /\ UNCHANGED <<row, card, thread, task, sweep, history>>

-----------------------------------------------------------------------------
(* The hourly cleanup of anchored cards.                                   *)

DeadlinePasses(o) ==
  /\ deleteAt[o] = "future"
  /\ deleteAt' = [deleteAt EXCEPT ![o] = "passed"]
  /\ UNCHANGED <<status, creator, crafter, messageId, threadId, card, thread, task, refresh, sweep, history>>

StartSweep ==
  /\ sweep = NoSweep
  /\ \E o \in Orders : deleteAt[o] = "passed"
  /\ sweep' = [NoSweep EXCEPT !.todo = {o \in Orders : deleteAt[o] = "passed"}]
  /\ UNCHANGED <<row, card, thread, task, refresh, history>>

Cleared(o) == sweep' = [todo |-> sweep.todo \ {o}, cleared |-> sweep.cleared \cup {o}]

SweepCard(o) ==
  /\ o \in sweep.todo /\ Posted(o)
  /\ thread' \in {thread, [thread EXCEPT ![o] = FALSE]}
  /\ card' = [card EXCEPT ![o] = Gone]
  /\ Cleared(o)
  /\ UNCHANGED <<row, task, refresh, history>>

\* Channel or message gone, or not accessible: nothing more can be done.
SweepGone(o) ==
  /\ o \in sweep.todo
  /\ thread' \in {thread, [thread EXCEPT ![o] = FALSE]}
  /\ Cleared(o)
  /\ UNCHANGED <<row, card, task, refresh, history>>

\* A passing error: the order is left for the next hour.
SweepLater(o) ==
  /\ o \in sweep.todo
  /\ thread' \in {thread, [thread EXCEPT ![o] = FALSE]}
  /\ sweep' = [sweep EXCEPT !.todo = @ \ {o}]
  /\ UNCHANGED <<row, card, task, refresh, history>>

\* Mutant: the deadline of every swept order is kept.
EndSweepKeeps ==
  /\ sweep # NoSweep /\ sweep.todo = {}
  /\ sweep' = NoSweep
  /\ UNCHANGED <<row, card, thread, task, refresh, history>>

EndSweep ==
  /\ sweep # NoSweep /\ sweep.todo = {}
  /\ deleteAt' = [o \in Orders |-> IF o \in sweep.cleared THEN "unset" ELSE deleteAt[o]]
  /\ sweep' = NoSweep
  /\ UNCHANGED <<status, creator, crafter, messageId, threadId, card, thread, task, refresh, history>>

-----------------------------------------------------------------------------
\* The bot stops and starts: running tasks are gone, the buttons answer again.
Restart ==
  /\ task' = [u \in Users |-> Idle]
  /\ refresh' = [o \in Orders |-> NoCard]
  /\ sweep' = NoSweep
  /\ disturbed' = disturbed \cup {task[u].order : u \in {v \in Users : ~Busy(v, "idle")}}
  /\ UNCHANGED <<row, card, thread, closedBy, notice>>

OrderModal(u) ==
  \/ \E o \in Orders : Create(u, o)
  \/ Post(u) \/ PostFails(u) \/ SaveMessageId(u) \/ SaveFails(u)

Button(u) ==
  \/ \E o \in Orders : \E b \in Buttons(o) : Click(u, o, b)
  \/ Check(u) \/ Accept(u) \/ Drop(u) \/ Show(u) \/ ShowFails(u)
  \/ Complete(u) \/ Cancel(u)

Closing(u) ==
  \/ Tell(u) \/ TellRefused(u) \/ CloseFails(u)
  \/ FallbackPost(u) \/ FallbackRecord(u) \/ FallbackFails(u) \/ FallbackUndone(u)
  \/ Finish(u) \/ DeleteThread(u) \/ DeleteCard(u)

Asking(u) ==
  Ask(u) \/ Dismiss(u) \/ AskPost(u) \/ AskFails(u) \/ AskRecord(u) \/ AskUndone(u)

Background(o) ==
  \/ RefreshCard(o) \/ RefreshSkips(o)
  \/ DeadlinePasses(o) \/ SweepCard(o) \/ SweepGone(o) \/ SweepLater(o)

Next ==
  \/ \E u \in Users : OrderModal(u) \/ Button(u) \/ Closing(u) \/ Asking(u)
  \/ \E o \in Orders : Background(o)
  \/ StartRefresh \/ StartSweep \/ EndSweep
  \/ Restart

Spec == Init /\ [][Next]_vars

\* What an order promises its creator and its crafters.
Lifecycle == INSTANCE OrderLifecycle

\* The loop runs every hour and its iterations end; neither errors of Discord
\* nor restarts keep it from clearing an order for ever.
Fairness ==
  /\ SF_vars(StartSweep) /\ SF_vars(EndSweep)
  /\ \A o \in Orders : WF_vars(DeadlinePasses(o)) /\ SF_vars(SweepCard(o) \/ SweepGone(o))
FairSpec == Spec /\ Fairness

-----------------------------------------------------------------------------
Cards == {NoCard, Gone, Done} \cup [shows : Active, crafter : Users \cup {Nobody}]
Tasks ==
  {Idle} \cup [kind : {"post", "save", "accept", "drop", "complete", "cancel", "ask", "asked"}, order : Orders]
         \cup [kind : {"click"}, order : Orders, button : {"accept", "drop", "complete", "cancel"}]
         \cup [kind : {"show"}, order : Orders, card : Cards]
         \cup [kind : {"notify", "anchor", "delete"}, order : Orders, old : BOOLEAN]
         \cup [kind : {"fallback"}, order : Orders, old : BOOLEAN, known : BOOLEAN, message : BOOLEAN]
         \cup [kind : {"finish"}, order : Orders, old : BOOLEAN, used : BOOLEAN]
         \cup [kind : {"asking"}, order : Orders, known : BOOLEAN, message : BOOLEAN]

\* Every variable keeps to the values the table, the card and the handlers can hold.
TypeOK ==
  /\ status \in [Orders -> Status]
  /\ creator \in [Orders -> Users \cup {Nobody}]
  /\ crafter \in [Orders -> Users \cup {Nobody}]
  /\ messageId \in [Orders -> BOOLEAN] /\ threadId \in [Orders -> BOOLEAN]
  /\ deleteAt \in [Orders -> {"unset", "future", "passed"}]
  /\ card \in [Orders -> Cards]
  /\ thread \in [Orders -> BOOLEAN]
  /\ task \in [Users -> Tasks]
  /\ refresh \in [Orders -> Cards]
  /\ sweep \in [todo : SUBSET Orders, cleared : SUBSET Orders]
  /\ closedBy \in [Orders -> Users \cup {Nobody}]
  /\ notice \in [Orders -> {"none", "message", "thread"}]
  /\ disturbed \subseteq Orders

\* An order is completed only by the crafter it has at that moment, or an
\* administrator, and cancelled only by its creator or one: a button whose check
\* passed before the order changed hands does not close it for another crafter.
ClosedByRight ==
  \A o \in Orders :
    /\ status[o] = "completed" => closedBy[o] \in {crafter[o]} \cup Admins
    /\ status[o] = "cancelled" => closedBy[o] \in {creator[o]} \cup Admins

\* With no handler of it running, the card of an active order shows its row,
\* buttons included, unless a handler failed, two edits crossed or a refresh wrote it.
Quiet(o) == \A u \in Users : ~Busy(u, "idle") => task[u].order # o
CardShowsOrder ==
  \A o \in Orders : status[o] \in Active /\ Quiet(o) /\ o \notin disturbed =>
    card[o] = Shown(status[o], crafter[o])

\* Why these hold: an order is nobody's before its row is there, its creator's
\* alone until its card is posted, and a check that passed still entitles to an
\* acceptance or a cancellation when the callback runs.
FreshOrders ==
  \A o \in Orders : status[o] = "none" =>
    card[o] = NoCard /\ crafter[o] = Nobody /\ Quiet(o)
PostedByOne ==
  \A u \in Users : Busy(u, "post") =>
    LET o == task[u].order IN
    /\ status[o] = "open" /\ crafter[o] = Nobody /\ card[o] = NoCard
    /\ \A v \in Users \ {u} : ~Busy(v, "idle") => task[v].order # o
Entitled ==
  \A u \in Users :
    /\ Busy(u, "accept") => u \in Crafters
    /\ Busy(u, "cancel") => u \in {creator[task[u].order]} \cup Admins
Strengthening == FreshOrders /\ PostedByOne /\ Entitled

\* Cards, threads, notices, refreshes and restarts are invisible to the promise:
\* one crafter at a time, and a closed order stays closed with its crafter.
ImplementsLifecycle == Lifecycle!Spec

\* A card kept for its thread is dealt with by the cleanup in the end.
AnchorCleared == \A o \in Orders : deleteAt[o] # "unset" ~> deleteAt[o] = "unset"
=============================================================================
