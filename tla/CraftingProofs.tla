--------------------------- MODULE CraftingProofs ---------------------------
(* Proofs about crafting: the orders and the board they are placed on.  The  *)
(* two share no state; the names of the board that the orders have too start *)
(* with Board.                                                               *)
EXTENDS CraftingOrders, CraftingBoard, TLAPS

(***************************************************************************)
(* CraftingOrders, for every set of orders and users.                        *)
(***************************************************************************)

-----------------------------------------------------------------------------
(* Type correctness.                                                         *)

LEMMA InitType == Init => TypeOK
  BY DEF Init, TypeOK, Status, Cards, Tasks, Idle, NoCard, NoSweep

\* What a running task knows.
LEMMA TaskOrder ==
  ASSUME TypeOK, NEW u \in Users, task[u].kind # "idle"
  PROVE  task[u].order \in Orders
  BY DEF TypeOK, Tasks, Idle

LEMMA TaskOld ==
  ASSUME TypeOK, NEW u \in Users,
         task[u].kind \in {"notify", "anchor", "delete", "fallback", "finish"}
  PROVE  task[u].old \in BOOLEAN
  BY DEF TypeOK, Tasks, Idle

LEMMA TaskCard ==
  ASSUME TypeOK, NEW u \in Users, task[u].kind = "show"
  PROVE  task[u].card \in Cards
  BY DEF TypeOK, Tasks, Idle

LEMMA ShownCard ==
  ASSUME NEW s \in Active, NEW c \in Users \cup {Nobody}
  PROVE  Shown(s, c) \in Cards
  BY DEF Shown, Cards

LEMMA SomeCards == {NoCard, Gone, Done} \subseteq Cards
  BY DEF Cards

\* The tasks the handlers continue with.
LEMMA NewTasks ==
  ASSUME NEW o \in Orders, NEW x \in BOOLEAN, NEW y \in BOOLEAN, NEW z \in BOOLEAN,
         NEW k \in Cards
  PROVE  /\ Idle \in Tasks
         /\ \A kind \in {"post", "save", "accept", "drop", "complete", "cancel", "ask", "asked"} :
              [kind |-> kind, order |-> o] \in Tasks
         /\ \A b \in {"accept", "drop", "complete", "cancel"} :
              [kind |-> "click", order |-> o, button |-> b] \in Tasks
         /\ [kind |-> "show", order |-> o, card |-> k] \in Tasks
         /\ \A kind \in {"notify", "anchor", "delete"} :
              [kind |-> kind, order |-> o, old |-> x] \in Tasks
         /\ [kind |-> "fallback", order |-> o, old |-> x, known |-> y, message |-> z] \in Tasks
         /\ Finishing(o, x, y) \in Tasks
         /\ [kind |-> "asking", order |-> o, known |-> x, message |-> y] \in Tasks
  BY DEF Tasks, Finishing

LEMMA ContinueType ==
  ASSUME TypeOK, NEW u \in Users, NEW t \in Tasks, Continue(u, t)
  PROVE  task' \in [Users -> Tasks]
  BY DEF TypeOK, Continue

LEMMA ModalType ==
  ASSUME TypeOK, NEW u \in Users, OrderModal(u)
  PROVE  TypeOK'
  <1> USE DEF row, history
  <1>1. ASSUME NEW o \in Orders, Create(u, o) PROVE TypeOK'
    <2>1. task' \in [Users -> Tasks]
      BY <1>1, NewTasks, SomeCards, ContinueType DEF Create
    <2> QED BY <1>1, <2>1 DEF Create, TypeOK, Status, Active
  <1>2. CASE Post(u)
    <2>1. task[u].order \in Orders BY <1>2, TaskOrder DEF Post, Busy
    <2>2. task' \in [Users -> Tasks]
      BY <1>2, <2>1, NewTasks, SomeCards, ContinueType DEF Post
    <2>3. Shown("open", Nobody) \in Cards BY ShownCard DEF Active
    <2> QED BY <1>2, <2>1, <2>2, <2>3 DEF Post, TypeOK
  <1>3. CASE PostFails(u)
    <2>1. task[u].order \in Orders BY <1>3, TaskOrder DEF PostFails, Busy
    <2>2. task' \in [Users -> Tasks]
      BY <1>3, <2>1, NewTasks, SomeCards, ContinueType DEF PostFails
    <2> QED BY <1>3, <2>1, <2>2 DEF PostFails, TypeOK, Status
  <1>4. CASE SaveMessageId(u)
    <2>1. task[u].order \in Orders BY <1>4, TaskOrder DEF SaveMessageId, Busy
    <2>2. task' \in [Users -> Tasks]
      BY <1>4, <2>1, NewTasks, SomeCards, ContinueType DEF SaveMessageId
    <2> QED BY <1>4, <2>1, <2>2 DEF SaveMessageId, TypeOK
  <1>5. CASE SaveFails(u)
    <2>1. task[u].order \in Orders BY <1>5, TaskOrder DEF SaveFails, Busy
    <2>2. task' \in [Users -> Tasks]
      BY <1>5, <2>1, NewTasks, SomeCards, ContinueType DEF SaveFails
    <2>3. card' \in [Orders -> Cards]
      BY <1>5, <2>1, SomeCards DEF SaveFails, TypeOK
    <2> QED BY <1>5, <2>1, <2>2, <2>3 DEF SaveFails, TypeOK
  <1> QED BY <1>1, <1>2, <1>3, <1>4, <1>5 DEF OrderModal

\* A changed row, shown next; TooLate changes nothing but the task.
LEMMA ChangeType ==
  ASSUME TypeOK, NEW u \in Users, NEW o \in Orders, NEW s \in Active,
         NEW c \in Users \cup {Nobody}, Change(u, o, s, c)
  PROVE  TypeOK'
  <1>1. Shown(s, c) \in Cards BY ShownCard
  <1>2. task' \in [Users -> Tasks]
    BY <1>1, NewTasks, ContinueType DEF Change, ChangeShowing
  <1>3. disturbed' \subseteq Orders
    BY DEF Change, ChangeShowing, Overtakes, TypeOK
  <1> QED BY <1>2, <1>3 DEF Change, ChangeShowing, TypeOK, Status

LEMMA TooLateType ==
  ASSUME TypeOK, NEW u \in Users, TooLate(u)
  PROVE  TypeOK'
  BY ContinueType DEF TooLate, row, history, TypeOK, Tasks

LEMMA CloseType ==
  ASSUME TypeOK, NEW u \in Users, NEW o \in Orders, NEW s \in Closed, NEW t \in Tasks,
         Close(u, o, s, t)
  PROVE  TypeOK'
  BY ContinueType DEF Close, TypeOK, Status

LEMMA ButtonType ==
  ASSUME TypeOK, NEW u \in Users, Button(u)
  PROVE  TypeOK'
  <1> USE DEF row, history
  <1>1. ASSUME NEW o \in Orders, NEW b \in Buttons(o), Click(u, o, b) PROVE TypeOK'
    <2>1. b \in {"accept", "drop", "complete", "cancel", "ask"}
      BY DEF Buttons
    <2>2. task' \in [Users -> Tasks]
      BY <1>1, <2>1, NewTasks, SomeCards, ContinueType DEF Click
    <2> QED BY <1>1, <2>2 DEF Click, TypeOK
  <1>2. CASE Check(u)
    <2>1. task[u].order \in Orders BY <1>2, TaskOrder DEF Check, Busy
    <2>2. task[u].button \in {"accept", "drop", "complete", "cancel"}
      BY <1>2 DEF Check, Busy, TypeOK, Tasks, Idle
    <2>3. CASE TooLate(u) BY <2>3, TooLateType
    <2>4. CASE /\ Continue(u, [kind |-> task[u].button, order |-> task[u].order])
               /\ UNCHANGED <<row, card, thread, refresh, sweep, history>>
      <3>1. task' \in [Users -> Tasks]
        BY <2>1, <2>2, <2>4, NewTasks, SomeCards, ContinueType
      <3> QED BY <2>4, <3>1 DEF TypeOK
    <2> QED BY <1>2, <2>3, <2>4 DEF Check
  <1>3. CASE Accept(u)
    <2>1. task[u].order \in Orders BY <1>3, TaskOrder DEF Accept, Busy
    <2> QED BY <1>3, <2>1, ChangeType, TooLateType DEF Accept, Active
  <1>4. CASE Drop(u)
    <2>1. task[u].order \in Orders BY <1>4, TaskOrder DEF Drop, Busy
    <2> QED BY <1>4, <2>1, ChangeType, TooLateType DEF Drop, Active
  <1>5. CASE Show(u)
    <2>1. task[u].order \in Orders BY <1>5, TaskOrder DEF Show, Busy
    <2>2. task[u].card \in Cards BY <1>5, TaskCard DEF Show, Busy
    <2>3. task' \in [Users -> Tasks]
      BY <1>5, ContinueType DEF Show, Tasks
    <2> QED BY <1>5, <2>1, <2>2, <2>3 DEF Show, TypeOK
  <1>6. CASE ShowFails(u)
    <2>1. task[u].order \in Orders BY <1>6, TaskOrder DEF ShowFails, Busy
    <2>2. task' \in [Users -> Tasks]
      BY <1>6, ContinueType DEF ShowFails, Tasks
    <2> QED BY <1>6, <2>1, <2>2 DEF ShowFails, TypeOK
  <1>7. ASSUME NEW o \in Orders PROVE Notifying(o) \in Tasks
    BY DEF Notifying, Tasks, TypeOK
  <1>8. ASSUME NEW o \in Orders PROVE Finishing(o, threadId[o], FALSE) \in Tasks
    BY DEF Finishing, Tasks, TypeOK
  <1>9. CASE Complete(u)
    <2>1. task[u].order \in Orders BY <1>9, TaskOrder DEF Complete, Busy
    <2> QED BY <1>7, <1>9, <2>1, CloseType, TooLateType DEF Complete, Closed
  <1>10. CASE Cancel(u)
    <2>1. task[u].order \in Orders BY <1>10, TaskOrder DEF Cancel, Busy
    <2> QED BY <1>7, <1>8, <1>10, <2>1, CloseType, TooLateType DEF Cancel, Closed
  <1> QED BY <1>1, <1>2, <1>3, <1>4, <1>5, <1>6, <1>9, <1>10 DEF Button

LEMMA AnchorType ==
  ASSUME TypeOK, NEW u \in Users, NEW o \in Orders, task[u].old \in BOOLEAN, Anchor(u, o)
  PROVE  /\ deleteAt' \in [Orders -> {"unset", "future", "passed"}]
         /\ notice' \in [Orders -> {"none", "message", "thread"}]
         /\ task' \in [Users -> Tasks]
  <1>1. Finishing(o, task[u].old, TRUE) \in Tasks
    BY DEF Finishing, Tasks
  <1> QED BY <1>1, ContinueType DEF Anchor, TypeOK

LEMMA ClosingType ==
  ASSUME TypeOK, NEW u \in Users, Closing(u)
  PROVE  TypeOK'
  <1> USE DEF row, history
  <1>1. SUFFICES ASSUME task[u].order \in Orders,
                        task[u].kind \in {"notify", "anchor", "delete", "fallback", "finish"},
                        task[u].old \in BOOLEAN
                 PROVE  TypeOK'
    <2>1. task[u].kind \in {"notify", "anchor", "delete", "fallback", "finish"}
      BY DEF Closing, Tell, TellRefused, CloseFails, FallbackPost, FallbackRecord,
             FallbackFails, FallbackUndone, Finish, DeleteThread, DeleteCard, Busy
    <2> QED BY <2>1, TaskOrder, TaskOld
  <1> DEFINE o == task[u].order
  <1>2. /\ Finishing(o, task[u].old, FALSE) \in Tasks
        /\ [kind |-> "fallback", order |-> o, old |-> task[u].old,
             known |-> threadId[o], message |-> messageId[o]] \in Tasks
        /\ [kind |-> "anchor", order |-> o, old |-> task[u].old] \in Tasks
        /\ [kind |-> "delete", order |-> o, old |-> task[u].old] \in Tasks
        /\ [kind |-> "delete", order |-> o, old |-> FALSE] \in Tasks
        /\ Idle \in Tasks
    BY <1>1 DEF Finishing, Tasks, TypeOK
  <1>3. CASE Tell(u)
    <2>1. task' \in [Users -> Tasks] BY <1>2, <1>3, ContinueType DEF Tell
    <2> QED BY <1>1, <1>3, <2>1 DEF Tell, TypeOK
  <1>4. CASE TellRefused(u)
    <2>1. task' \in [Users -> Tasks] BY <1>2, <1>4, ContinueType DEF TellRefused
    <2> QED BY <1>4, <2>1 DEF TellRefused, TypeOK
  <1>5. CASE CloseFails(u)
    <2>1. task' \in [Users -> Tasks] BY <1>2, <1>5, ContinueType DEF CloseFails
    <2> QED BY <1>1, <1>5, <2>1 DEF CloseFails, TypeOK
  <1>6. CASE FallbackPost(u)
    <2>1. thread' \in [Orders -> BOOLEAN] BY <1>1, <1>6 DEF FallbackPost, TypeOK
    <2>2. CASE NewThread(task[u])
      <3>1. task' \in [Users -> Tasks] BY <1>2, <1>6, <2>2, ContinueType DEF FallbackPost
      <3> QED BY <1>6, <2>1, <2>2, <3>1 DEF FallbackPost, TypeOK
    <2>3. CASE ~NewThread(task[u])
      <3>1. Anchor(u, o) BY <1>6, <2>3 DEF FallbackPost
      <3> QED BY <1>1, <1>6, <2>1, <3>1, AnchorType DEF FallbackPost, TypeOK
    <2> QED BY <2>2, <2>3
  <1>7. CASE FallbackRecord(u)
    <2>1. Anchor(u, o) BY <1>7 DEF FallbackRecord
    <2> QED BY <1>1, <1>7, <2>1, AnchorType DEF FallbackRecord, TypeOK
  <1>8. CASE FallbackFails(u)
    <2>1. task' \in [Users -> Tasks] BY <1>2, <1>8, ContinueType DEF FallbackFails
    <2> QED BY <1>8, <2>1 DEF FallbackFails, TypeOK
  <1>9. CASE FallbackUndone(u)
    <2>1. task' \in [Users -> Tasks] BY <1>2, <1>9, ContinueType DEF FallbackUndone
    <2>2. thread' \in [Orders -> BOOLEAN] BY <1>9 DEF FallbackUndone, TypeOK
    <2> QED BY <1>9, <2>1, <2>2 DEF FallbackUndone, TypeOK
  <1>10. CASE Finish(u)
    <2>1. task' \in [Users -> Tasks] BY <1>2, <1>10, ContinueType DEF Finish
    <2>2. card' \in [Orders -> Cards] BY <1>10, SomeCards DEF Finish, TypeOK
    <2> QED BY <1>10, <2>1, <2>2 DEF Finish, TypeOK
  <1>11. CASE DeleteThread(u)
    <2>1. task' \in [Users -> Tasks] BY <1>2, <1>11, ContinueType DEF DeleteThread
    <2>2. thread' \in [Orders -> BOOLEAN] BY <1>11 DEF DeleteThread, TypeOK
    <2> QED BY <1>11, <2>1, <2>2 DEF DeleteThread, TypeOK
  <1>12. CASE DeleteCard(u)
    <2>1. task' \in [Users -> Tasks] BY <1>2, <1>12, ContinueType DEF DeleteCard
    <2>2. card' \in [Orders -> Cards] BY <1>12, SomeCards DEF DeleteCard, TypeOK
    <2> QED BY <1>12, <2>1, <2>2 DEF DeleteCard, TypeOK
  <1> QED
    BY <1>3, <1>4, <1>5, <1>6, <1>7, <1>8, <1>9, <1>10, <1>11, <1>12 DEF Closing

LEMMA AskingType ==
  ASSUME TypeOK, NEW u \in Users, Asking(u)
  PROVE  TypeOK'
  <1> USE DEF row, history
  <1>1. task[u].order \in Orders
    <2>1. task[u].kind \in {"ask", "asking", "asked"}
      BY DEF Asking, Ask, Dismiss, AskPost, AskFails, AskRecord, AskUndone, Busy
    <2> QED BY <2>1, TaskOrder
  <1> DEFINE o == task[u].order
  <1>2. /\ [kind |-> "asking", order |-> o, known |-> threadId[o], message |-> messageId[o]] \in Tasks
        /\ [kind |-> "asked", order |-> o] \in Tasks
        /\ Idle \in Tasks
    BY <1>1 DEF Tasks, TypeOK
  <1>3. task' \in [Users -> Tasks]
    BY <1>2, ContinueType DEF Asking, Ask, Dismiss, AskPost, AskFails, AskRecord, AskUndone
  <1>4. thread' \in [Orders -> BOOLEAN]
    BY DEF Asking, Ask, Dismiss, AskPost, AskFails, AskRecord, AskUndone, TypeOK
  <1>5. threadId' \in [Orders -> BOOLEAN]
    BY DEF Asking, Ask, Dismiss, AskPost, AskFails, AskRecord, AskUndone, TypeOK
  <1> QED
    BY <1>3, <1>4, <1>5
    DEF Asking, Ask, Dismiss, AskPost, AskFails, AskRecord, AskUndone, TypeOK

LEMMA BackgroundType ==
  ASSUME TypeOK, NEW o \in Orders, Background(o)
  PROVE  TypeOK'
  <1> USE DEF row, history
  <1>1. CASE RefreshCard(o) BY <1>1, SomeCards DEF RefreshCard, TypeOK
  <1>2. CASE RefreshSkips(o) BY <1>2, SomeCards DEF RefreshSkips, TypeOK
  <1>3. CASE DeadlinePasses(o) BY <1>3 DEF DeadlinePasses, TypeOK
  <1>4. CASE SweepCard(o)
    <2>1. thread' \in [Orders -> BOOLEAN] BY <1>4 DEF SweepCard, TypeOK
    <2>2. card' \in [Orders -> Cards] BY <1>4, SomeCards DEF SweepCard, TypeOK
    <2> QED BY <1>4, <2>1, <2>2 DEF SweepCard, Cleared, TypeOK
  <1>5. CASE SweepGone(o)
    <2>1. thread' \in [Orders -> BOOLEAN] BY <1>5 DEF SweepGone, TypeOK
    <2> QED BY <1>5, <2>1 DEF SweepGone, Cleared, TypeOK
  <1>6. CASE SweepLater(o)
    <2>1. thread' \in [Orders -> BOOLEAN] BY <1>6 DEF SweepLater, TypeOK
    <2> QED BY <1>6, <2>1 DEF SweepLater, TypeOK
  <1> QED BY <1>1, <1>2, <1>3, <1>4, <1>5, <1>6 DEF Background

LEMMA StepType == TypeOK /\ [Next]_vars => TypeOK'
  <1> SUFFICES ASSUME TypeOK, [Next]_vars PROVE TypeOK'
    OBVIOUS
  <1> USE DEF row, history
  <1>1. ASSUME NEW u \in Users, OrderModal(u) \/ Button(u) \/ Closing(u) \/ Asking(u)
        PROVE  TypeOK'
    BY <1>1, ModalType, ButtonType, ClosingType, AskingType
  <1>2. ASSUME NEW o \in Orders, Background(o) PROVE TypeOK'
    BY <1>2, BackgroundType
  <1>3. CASE StartRefresh
    <2>1. refresh' \in [Orders -> Cards]
      BY <1>3, SomeCards, ShownCard DEF StartRefresh, TypeOK
    <2> QED BY <1>3, <2>1 DEF StartRefresh, TypeOK
  <1>4. CASE StartSweep BY <1>4 DEF StartSweep, NoSweep, TypeOK
  <1>5. CASE EndSweep BY <1>5 DEF EndSweep, NoSweep, TypeOK
  <1>6. CASE Restart
    <2>1. task' \in [Users -> Tasks] BY <1>6 DEF Restart, Tasks
    <2>2. disturbed' \subseteq Orders BY <1>6, TaskOrder DEF Restart, Busy, TypeOK
    <2>3. refresh' \in [Orders -> Cards] BY <1>6, SomeCards DEF Restart
    <2> QED BY <1>6, <2>1, <2>2, <2>3 DEF Restart, NoSweep, TypeOK
  <1>7. CASE UNCHANGED vars BY <1>7 DEF vars, TypeOK
  <1> QED BY <1>1, <1>2, <1>3, <1>4, <1>5, <1>6, <1>7 DEF Next

\* Whatever the members, Discord and the loops do, rows, cards and handlers stay well formed.
THEOREM TypeCorrect == Spec => []TypeOK
  BY InitType, StepType, PTL DEF Spec

-----------------------------------------------------------------------------
(* The inductive invariant.  ClosedByRight alone does not survive a step:    *)
(* that nobody but the one posting an order handles it yet, and that a       *)
(* cancellation under way is its creator's or an administrator's, does.      *)

IInv == TypeOK /\ Strengthening /\ ClosedByRight

LEMMA InitIInv == Init => IInv
  <1> SUFFICES ASSUME Init PROVE Strengthening /\ ClosedByRight
    BY InitType DEF IInv
  <1> QED
    BY DEF Init, Strengthening, FreshOrders, PostedByOne, Entitled, ClosedByRight, Quiet, Busy, Idle

\* The orders other than the one a task handles keep their rows and cards.
Elsewhere(u) ==
  \A p \in Orders \ {task[u].order} :
    /\ status'[p] = status[p] /\ crafter'[p] = crafter[p]
    /\ card'[p] = card[p] /\ closedBy'[p] = closedBy[p]

\* The task goes on with the same order or ends.
Proceeds(u) ==
  /\ \A v \in Users \ {u} : task'[v] = task[v]
  /\ task'[u].kind # "idle" => task'[u].order = task[u].order
  /\ task'[u].kind # "post"
  /\ task'[u].kind = "accept" => u \in Crafters
  /\ task'[u].kind = "cancel" => u \in {creator[task[u].order]} \cup Admins
  /\ creator' = creator

\* The row it handles still exists, and is closed by whom it may be.
Rightful(u) ==
  LET o == task[u].order IN
  /\ status'[o] # "none"
  /\ status'[o] = "completed" => closedBy'[o] \in {crafter'[o]} \cup Admins
  /\ status'[o] = "cancelled" => closedBy'[o] \in {creator[o]} \cup Admins

LEMMA HandlerIInv ==
  ASSUME IInv, NEW u \in Users, task[u].kind \notin {"idle"},
         Proceeds(u), Elsewhere(u), Rightful(u)
  PROVE  (Strengthening /\ ClosedByRight)'
  <1> DEFINE o == task[u].order
  <1>1. o \in Orders BY TaskOrder DEF IInv
  <1>2. FreshOrders'
    <2> SUFFICES ASSUME NEW p \in Orders, status'[p] = "none"
                 PROVE  card'[p] = NoCard /\ crafter'[p] = Nobody /\ Quiet(p)'
      BY DEF FreshOrders
    <2>1. p # o BY DEF Rightful
    <2>2. card[p] = NoCard /\ crafter[p] = Nobody /\ Quiet(p)
      BY <2>1 DEF Elsewhere, IInv, Strengthening, FreshOrders
    <2> QED BY <2>1, <2>2 DEF Elsewhere, Proceeds, Quiet, Busy
  <1>3. PostedByOne'
    <2> SUFFICES ASSUME NEW v \in Users, task'[v].kind = "post"
                 PROVE  LET p == task'[v].order IN
                        /\ status'[p] = "open" /\ crafter'[p] = Nobody /\ card'[p] = NoCard
                        /\ \A w \in Users \ {v} : task'[w].kind # "idle" => task'[w].order # p
      BY DEF PostedByOne, Busy
    <2> DEFINE p == task[v].order
    <2>1. v # u /\ task'[v] = task[v] BY DEF Proceeds
    <2>2. /\ status[p] = "open" /\ crafter[p] = Nobody /\ card[p] = NoCard
          /\ \A w \in Users \ {v} : task[w].kind # "idle" => task[w].order # p
      BY <2>1 DEF IInv, Strengthening, PostedByOne, Busy
    <2>3. p \in Orders BY <2>1, TaskOrder DEF IInv
    <2>4. p # o BY <2>1, <2>2
    <2> QED BY <2>1, <2>2, <2>3, <2>4 DEF Proceeds, Elsewhere
  <1>4. Entitled'
    <2> SUFFICES ASSUME NEW v \in Users
                 PROVE  /\ task'[v].kind = "accept" => v \in Crafters
                        /\ task'[v].kind = "cancel" => v \in {creator'[task'[v].order]} \cup Admins
      BY DEF Entitled, Busy
    <2> QED BY DEF Proceeds, IInv, Strengthening, Entitled, Busy
  <1>5. ClosedByRight'
    <2> SUFFICES ASSUME NEW p \in Orders
                 PROVE  /\ status'[p] = "completed" => closedBy'[p] \in {crafter'[p]} \cup Admins
                        /\ status'[p] = "cancelled" => closedBy'[p] \in {creator'[p]} \cup Admins
      BY DEF ClosedByRight
    <2>1. CASE p = o BY <2>1 DEF Rightful, Proceeds
    <2>2. CASE p # o BY <2>2 DEF Elsewhere, Proceeds, IInv, ClosedByRight
    <2> QED BY <2>1, <2>2
  <1> QED BY <1>2, <1>3, <1>4, <1>5 DEF Strengthening

\* A handler that leaves the row, up to its ids and deadline, as it is.
LEMMA SameRowRightful ==
  ASSUME IInv, NEW u \in Users, task[u].kind # "idle",
         UNCHANGED <<status, creator, crafter, closedBy>>
  PROVE  Rightful(u)
  <1>1. task[u].order \in Orders BY TaskOrder DEF IInv
  <1>2. status[task[u].order] # "none"
    BY <1>1 DEF IInv, Strengthening, FreshOrders, Quiet, Busy
  <1> QED BY <1>1, <1>2 DEF Rightful, IInv, ClosedByRight

LEMMA ClosingIInv ==
  ASSUME IInv, NEW u \in Users, Closing(u)
  PROVE  (Strengthening /\ ClosedByRight)'
  <1> USE DEF row, history
  <1>1. task[u].kind # "idle"
    BY DEF Closing, Tell, TellRefused, CloseFails, FallbackPost, FallbackRecord,
           FallbackFails, FallbackUndone, Finish, DeleteThread, DeleteCard, Busy
  <1>2. UNCHANGED <<status, creator, crafter, closedBy>>
    BY DEF Closing, Tell, TellRefused, CloseFails, FallbackPost, FallbackRecord,
           FallbackFails, FallbackUndone, Finish, DeleteThread, DeleteCard
  <1>3. Elsewhere(u)
    BY <1>2 DEF Closing, Tell, TellRefused, CloseFails, FallbackPost, FallbackRecord,
           FallbackFails, FallbackUndone, Finish, DeleteThread, DeleteCard, Elsewhere, IInv, TypeOK
  <1>4. Proceeds(u)
    BY <1>2 DEF Closing, Tell, TellRefused, CloseFails, FallbackPost, FallbackRecord,
           FallbackFails, FallbackUndone, Finish, DeleteThread, DeleteCard, Proceeds, IInv, TypeOK,
           Continue, Anchor, Finishing, Idle
  <1> QED BY <1>1, <1>2, <1>3, <1>4, SameRowRightful, HandlerIInv

LEMMA AskingIInv ==
  ASSUME IInv, NEW u \in Users, Asking(u)
  PROVE  (Strengthening /\ ClosedByRight)'
  <1> USE DEF row, history
  <1>1. task[u].kind # "idle"
    BY DEF Asking, Ask, Dismiss, AskPost, AskFails, AskRecord, AskUndone, Busy
  <1>2. UNCHANGED <<status, creator, crafter, closedBy, card>>
    BY DEF Asking, Ask, Dismiss, AskPost, AskFails, AskRecord, AskUndone
  <1>3. Proceeds(u)
    BY <1>2 DEF Asking, Ask, Dismiss, AskPost, AskFails, AskRecord, AskUndone,
           Proceeds, IInv, TypeOK, Continue, Idle
  <1> QED BY <1>1, <1>2, <1>3, SameRowRightful, HandlerIInv DEF Elsewhere

\* A click starts a task on an order whose card is posted, so nobody is posting it.
LEMMA ClickIInv ==
  ASSUME IInv, NEW u \in Users, NEW o \in Orders, NEW b \in Buttons(o), Click(u, o, b)
  PROVE  (Strengthening /\ ClosedByRight)'
  <1>1. UNCHANGED <<status, creator, crafter, closedBy, card>>
    BY DEF Click, row, history
  <1>2. card[o] # NoCard BY DEF Buttons, NoCard
  <1>3. /\ task[u].kind = "idle"
        /\ \A v \in Users \ {u} : task'[v] = task[v]
        /\ task'[u].kind \in {"click", "ask"} /\ task'[u].order = o
    BY DEF Click, Busy, Continue, IInv, TypeOK
  <1>4. FreshOrders'
    <2> SUFFICES ASSUME NEW p \in Orders, status'[p] = "none"
                 PROVE  card'[p] = NoCard /\ crafter'[p] = Nobody /\ Quiet(p)'
      BY DEF FreshOrders
    <2>1. card[p] = NoCard /\ crafter[p] = Nobody /\ Quiet(p)
      BY <1>1 DEF IInv, Strengthening, FreshOrders
    <2> QED BY <1>1, <1>2, <1>3, <2>1 DEF Quiet, Busy
  <1>5. PostedByOne'
    <2> SUFFICES ASSUME NEW v \in Users, task'[v].kind = "post"
                 PROVE  LET p == task'[v].order IN
                        /\ status'[p] = "open" /\ crafter'[p] = Nobody /\ card'[p] = NoCard
                        /\ \A w \in Users \ {v} : task'[w].kind # "idle" => task'[w].order # p
      BY DEF PostedByOne, Busy
    <2>1. v # u /\ task'[v] = task[v] BY <1>3
    <2>2. LET p == task[v].order IN
          /\ status[p] = "open" /\ crafter[p] = Nobody /\ card[p] = NoCard
          /\ \A w \in Users \ {v} : task[w].kind # "idle" => task[w].order # p
      BY <2>1 DEF IInv, Strengthening, PostedByOne, Busy
    <2> QED BY <1>1, <1>2, <1>3, <2>1, <2>2
  <1>6. Entitled'
    BY <1>1, <1>3 DEF IInv, Strengthening, Entitled, Busy
  <1>7. ClosedByRight'
    BY <1>1 DEF IInv, ClosedByRight
  <1> QED BY <1>4, <1>5, <1>6, <1>7 DEF Strengthening

LEMMA TooLateIInv ==
  ASSUME IInv, NEW u \in Users, task[u].kind # "idle", TooLate(u)
  PROVE  (Strengthening /\ ClosedByRight)'
  <1>1. UNCHANGED <<status, creator, crafter, closedBy, card>>
    BY DEF TooLate, row, history
  <1>2. Proceeds(u)
    BY <1>1 DEF TooLate, Continue, Idle, Proceeds, IInv, TypeOK
  <1> QED BY <1>1, <1>2, SameRowRightful, HandlerIInv DEF Elsewhere

LEMMA ChangeIInv ==
  ASSUME IInv, NEW u \in Users, task[u].kind # "idle",
         NEW s \in Active, NEW c, Change(u, task[u].order, s, c)
  PROVE  (Strengthening /\ ClosedByRight)'
  <1>1. task[u].order \in Orders BY TaskOrder DEF IInv
  <1>2. Proceeds(u)
    BY DEF Change, ChangeShowing, Continue, Proceeds, IInv, TypeOK
  <1>3. Elsewhere(u)
    BY DEF Change, ChangeShowing, Elsewhere, IInv, TypeOK
  <1>4. Rightful(u)
    BY <1>1 DEF Change, ChangeShowing, Rightful, IInv, TypeOK, Active
  <1> QED BY <1>2, <1>3, <1>4, HandlerIInv

LEMMA ButtonIInv ==
  ASSUME IInv, NEW u \in Users, Button(u)
  PROVE  (Strengthening /\ ClosedByRight)'
  <1> USE DEF row, history
  <1> DEFINE o == task[u].order
  <1>1. ASSUME NEW p \in Orders, NEW b \in Buttons(p), Click(u, p, b)
        PROVE  (Strengthening /\ ClosedByRight)'
    BY <1>1, ClickIInv
  <1>2. CASE Check(u)
    <2>1. task[u].kind # "idle" BY <1>2 DEF Check, Busy
    <2>2. CASE TooLate(u) BY <2>1, <2>2, TooLateIInv
    <2>3. CASE /\ Passes(u, o, task[u].button)
               /\ Continue(u, [kind |-> task[u].button, order |-> o])
               /\ UNCHANGED <<row, card, thread, refresh, sweep, history>>
      <3>1. task[u].button \in {"accept", "drop", "complete", "cancel"}
        BY <1>2 DEF Check, Busy, IInv, TypeOK, Tasks, Idle
      <3>2. task'[u].kind = task[u].button /\ task'[u].order = o
        BY <2>3 DEF Continue, IInv, TypeOK
      <3>3. task[u].button = "accept" => u \in Crafters
        BY <2>3 DEF Passes, MayAccept
      <3>4. task[u].button = "cancel" => u \in {creator[o]} \cup Admins
        BY <2>3 DEF Passes, MayCancel
      <3>5. Proceeds(u)
        BY <2>3, <3>1, <3>2, <3>3, <3>4 DEF Proceeds, Continue, IInv, TypeOK
      <3> QED BY <2>1, <2>3, <3>5, SameRowRightful, HandlerIInv DEF Elsewhere
    <2> QED BY <1>2, <2>2, <2>3 DEF Check
  <1>3. CASE Accept(u)
    BY <1>3, ChangeIInv, TooLateIInv DEF Accept, Busy, Active
  <1>4. CASE Drop(u)
    BY <1>4, ChangeIInv, TooLateIInv DEF Drop, Busy, Active
  <1>5. CASE Show(u) \/ ShowFails(u)
    <2>1. task[u].kind # "idle" BY <1>5 DEF Show, ShowFails, Busy
    <2>2. UNCHANGED <<status, creator, crafter, closedBy>> BY <1>5 DEF Show, ShowFails
    <2>3. Proceeds(u)
      BY <1>5, <2>2 DEF Show, ShowFails, Continue, Idle, Proceeds, IInv, TypeOK
    <2>4. Elsewhere(u)
      BY <1>5, <2>2 DEF Show, ShowFails, Elsewhere, IInv, TypeOK
    <2> QED BY <2>1, <2>2, <2>3, <2>4, SameRowRightful, HandlerIInv
  <1>6. CASE Complete(u)
    <2>1. task[u].kind # "idle" /\ o \in Orders
      BY <1>6, TaskOrder DEF Complete, Busy, IInv
    <2>2. CASE TooLate(u) BY <2>1, <2>2, TooLateIInv
    <2>3. CASE MayComplete(u, o) /\ Close(u, o, "completed", Notifying(o))
      <3>1. Proceeds(u)
        BY <2>3 DEF Close, Continue, Notifying, Proceeds, IInv, TypeOK
      <3>2. Elsewhere(u)
        BY <2>3 DEF Close, Elsewhere, IInv, TypeOK
      <3>3. Rightful(u)
        BY <2>1, <2>3 DEF Close, MayComplete, MayDrop, Rightful, IInv, TypeOK
      <3> QED BY <2>1, <3>1, <3>2, <3>3, HandlerIInv
    <2> QED BY <1>6, <2>2, <2>3 DEF Complete
  <1>7. CASE Cancel(u)
    <2>1. task[u].kind # "idle" /\ o \in Orders
      BY <1>7, TaskOrder DEF Cancel, Busy, IInv
    <2>2. u \in {creator[o]} \cup Admins
      BY <1>7 DEF Cancel, IInv, Strengthening, Entitled
    <2>3. CASE TooLate(u) BY <2>1, <2>3, TooLateIInv
    <2>4. ASSUME NEW t, t \in {Finishing(o, threadId[o], FALSE), Notifying(o)},
                 Close(u, o, "cancelled", t)
          PROVE  (Strengthening /\ ClosedByRight)'
      <3>1. Proceeds(u)
        BY <2>4 DEF Close, Continue, Notifying, Finishing, Proceeds, IInv, TypeOK
      <3>2. Elsewhere(u)
        BY <2>4 DEF Close, Elsewhere, IInv, TypeOK
      <3>3. Rightful(u)
        BY <2>1, <2>2, <2>4 DEF Close, Rightful, IInv, TypeOK
      <3> QED BY <2>1, <3>1, <3>2, <3>3, HandlerIInv
    <2> QED BY <1>7, <2>3, <2>4 DEF Cancel
  <1> QED BY <1>1, <1>2, <1>3, <1>4, <1>5, <1>6, <1>7 DEF Button

LEMMA ModalIInv ==
  ASSUME IInv, NEW u \in Users, OrderModal(u)
  PROVE  (Strengthening /\ ClosedByRight)'
  <1> USE DEF row, history
  <1>1. ASSUME NEW o \in Orders, Create(u, o) PROVE (Strengthening /\ ClosedByRight)'
    <2>1. card[o] = NoCard /\ crafter[o] = Nobody /\ Quiet(o)
      BY <1>1 DEF Create, IInv, Strengthening, FreshOrders
    <2>2. /\ \A v \in Users \ {u} : task'[v] = task[v]
          /\ task[u].kind = "idle"
          /\ task'[u] = [kind |-> "post", order |-> o]
          /\ status'[o] = "open" /\ \A p \in Orders \ {o} : status'[p] = status[p]
          /\ \A p \in Orders \ {o} : creator'[p] = creator[p]
          /\ UNCHANGED <<card, crafter, closedBy>>
      BY <1>1 DEF Create, Continue, Busy, IInv, TypeOK
    <2>3. FreshOrders'
      <3> SUFFICES ASSUME NEW p \in Orders, status'[p] = "none"
                   PROVE  card'[p] = NoCard /\ crafter'[p] = Nobody /\ Quiet(p)'
        BY DEF FreshOrders
      <3>1. p # o BY <2>2
      <3>2. card[p] = NoCard /\ crafter[p] = Nobody /\ Quiet(p)
        BY <2>2, <3>1 DEF IInv, Strengthening, FreshOrders
      <3> QED BY <2>2, <3>1, <3>2 DEF Quiet, Busy
    <2>4. PostedByOne'
      <3> SUFFICES ASSUME NEW v \in Users, task'[v].kind = "post"
                   PROVE  LET p == task'[v].order IN
                          /\ status'[p] = "open" /\ crafter'[p] = Nobody /\ card'[p] = NoCard
                          /\ \A w \in Users \ {v} : task'[w].kind # "idle" => task'[w].order # p
        BY DEF PostedByOne, Busy
      <3>1. CASE v = u BY <2>1, <2>2, <3>1 DEF Quiet, Busy
      <3>2. CASE v # u
        <4>1. LET p == task[v].order IN
              /\ status[p] = "open" /\ crafter[p] = Nobody /\ card[p] = NoCard
              /\ \A w \in Users \ {v} : task[w].kind # "idle" => task[w].order # p
          BY <2>2, <3>2 DEF IInv, Strengthening, PostedByOne, Busy
        <4>2. task[v].order # o /\ task[v].order \in Orders
          BY <2>1, <2>2, <3>2, TaskOrder DEF Quiet, Busy, IInv
        <4> QED BY <2>2, <3>2, <4>1, <4>2
      <3> QED BY <3>1, <3>2
    <2>5. Entitled'
      <3> SUFFICES ASSUME NEW v \in Users
                   PROVE  /\ task'[v].kind = "accept" => v \in Crafters
                          /\ task'[v].kind = "cancel" => v \in {creator'[task'[v].order]} \cup Admins
        BY DEF Entitled, Busy
      <3>1. CASE v = u BY <2>2, <3>1
      <3>2. CASE v # u /\ task[v].kind = "accept"
        BY <2>2, <3>2 DEF IInv, Strengthening, Entitled, Busy
      <3>3. CASE v # u /\ task[v].kind = "cancel"
        <4>1. task[v].order # o /\ task[v].order \in Orders
          BY <2>1, <3>3, TaskOrder DEF Quiet, Busy, IInv
        <4> QED BY <2>2, <3>3, <4>1 DEF IInv, Strengthening, Entitled, Busy
      <3> QED BY <2>2, <3>1, <3>2, <3>3
    <2>6. ClosedByRight'
      BY <2>2 DEF IInv, ClosedByRight
    <2> QED BY <2>3, <2>4, <2>5, <2>6 DEF Strengthening
  <1>2. CASE Post(u) \/ PostFails(u) \/ SaveMessageId(u) \/ SaveFails(u)
    <2>1. task[u].kind # "idle" /\ task[u].order \in Orders
      BY <1>2, TaskOrder DEF Post, PostFails, SaveMessageId, SaveFails, Busy, IInv
    <2>2. Proceeds(u)
      BY <1>2 DEF Post, PostFails, SaveMessageId, SaveFails, Continue, Idle, Proceeds, IInv, TypeOK
    <2>3. Elsewhere(u)
      BY <1>2 DEF Post, PostFails, SaveMessageId, SaveFails, Elsewhere, IInv, TypeOK
    <2>4. Rightful(u)
      <3>1. CASE PostFails(u)
        BY <2>1, <3>1 DEF PostFails, Rightful, IInv, TypeOK
      <3>2. CASE UNCHANGED <<status, creator, crafter, closedBy>>
        BY <2>1, <3>2, SameRowRightful
      <3> QED BY <1>2, <3>1, <3>2 DEF Post, SaveMessageId, SaveFails
    <2> QED BY <2>1, <2>2, <2>3, <2>4, HandlerIInv
  <1> QED BY <1>1, <1>2 DEF OrderModal

\* The loops touch cards that are posted, and no row.
LEMMA BackgroundIInv ==
  ASSUME IInv, NEW o \in Orders, Background(o)
  PROVE  (Strengthening /\ ClosedByRight)'
  <1> USE DEF row, history
  <1>1. UNCHANGED <<status, creator, crafter, closedBy, task>>
    BY DEF Background, RefreshCard, RefreshSkips, DeadlinePasses, SweepCard, SweepGone, SweepLater
  <1>2. ASSUME NEW p \in Orders, card[p] = NoCard PROVE card'[p] = NoCard
    BY <1>2 DEF Background, RefreshCard, RefreshSkips, DeadlinePasses, SweepCard, SweepGone,
                SweepLater, Posted, IInv, TypeOK
  <1>3. FreshOrders'
    BY <1>1, <1>2 DEF IInv, Strengthening, FreshOrders, Quiet, Busy
  <1>4. PostedByOne'
    BY <1>1, <1>2, TaskOrder DEF IInv, Strengthening, PostedByOne, Busy
  <1>5. Entitled' /\ ClosedByRight'
    BY <1>1 DEF IInv, Strengthening, Entitled, ClosedByRight, Busy
  <1> QED BY <1>3, <1>4, <1>5 DEF Strengthening

LEMMA StepIInv == IInv /\ [Next]_vars => IInv'
  <1> SUFFICES ASSUME IInv, [Next]_vars PROVE (Strengthening /\ ClosedByRight)'
    BY StepType DEF IInv
  <1> USE DEF row, history
  <1>1. ASSUME NEW u \in Users, OrderModal(u) \/ Button(u) \/ Closing(u) \/ Asking(u)
        PROVE  (Strengthening /\ ClosedByRight)'
    BY <1>1, ModalIInv, ButtonIInv, ClosingIInv, AskingIInv
  <1>2. ASSUME NEW o \in Orders, Background(o) PROVE (Strengthening /\ ClosedByRight)'
    BY <1>2, BackgroundIInv
  <1>3. CASE StartRefresh \/ StartSweep \/ EndSweep \/ UNCHANGED vars
    <2>1. UNCHANGED <<status, creator, crafter, closedBy, card, task>>
      BY <1>3 DEF StartRefresh, StartSweep, EndSweep, vars
    <2> QED
      BY <2>1 DEF IInv, Strengthening, FreshOrders, PostedByOne, Entitled, ClosedByRight, Quiet, Busy
  <1>4. CASE Restart
    <2>1. /\ UNCHANGED <<status, creator, crafter, closedBy, card>>
          /\ \A u \in Users : task'[u].kind = "idle"
      BY <1>4 DEF Restart, Idle
    <2> QED
      BY <2>1 DEF IInv, Strengthening, FreshOrders, PostedByOne, Entitled, ClosedByRight, Quiet, Busy
  <1> QED BY <1>1, <1>2, <1>3, <1>4 DEF Next

\* However clicks, drops and acceptances interleave, an order is closed only by
\* the crafter or creator it has then, or by an administrator.
THEOREM ClosedSafe == Spec => []ClosedByRight
  <1>1. IInv => ClosedByRight BY DEF IInv
  <1> QED BY <1>1, InitIInv, StepIInv, PTL DEF Spec

-----------------------------------------------------------------------------
(* The orders implement their lifecycle: a step of a callback is a step of   *)
(* it, and everything else leaves status and crafter alone.                  *)

LEMMA KeepsRow ==
  ASSUME NEW u \in Users, Closing(u) \/ Asking(u)
  PROVE  UNCHANGED <<status, crafter>>
  <1> USE DEF row, history
  <1>1. CASE Closing(u)
    BY <1>1 DEF Closing, Tell, TellRefused, CloseFails, FallbackPost, FallbackRecord,
                FallbackFails, FallbackUndone, Finish, DeleteThread, DeleteCard
  <1>2. CASE Asking(u)
    BY <1>2 DEF Asking, Ask, Dismiss, AskPost, AskFails, AskRecord, AskUndone
  <1> QED BY <1>1, <1>2

LEMMA ButtonLifecycle ==
  ASSUME IInv, NEW u \in Users, Button(u)
  PROVE  Lifecycle!Next \/ UNCHANGED <<status, crafter>>
  <1> USE DEF row, history
  <1> DEFINE o == task[u].order
  <1>1. CASE \/ \E p \in Orders : \E b \in Buttons(p) : Click(u, p, b)
             \/ Check(u) \/ Show(u) \/ ShowFails(u) \/ TooLate(u)
    BY <1>1 DEF Click, Check, Show, ShowFails, TooLate
  <1>2. CASE Accept(u) /\ ~TooLate(u)
    <2>1. o \in Orders /\ u \in Crafters /\ status[o] = "open"
      BY <1>2, TaskOrder DEF Accept, Busy, IInv, Strengthening, Entitled
    <2>2. Lifecycle!Take(o)
      BY <1>2, <2>1 DEF Accept, Change, ChangeShowing, Lifecycle!Take, Lifecycle!Become
    <2> QED BY <2>1, <2>2 DEF Lifecycle!Next
  <1>3. CASE Drop(u) /\ ~TooLate(u)
    <2>1. o \in Orders BY <1>3, TaskOrder DEF Drop, Busy, IInv
    <2>2. Lifecycle!Release(o)
      BY <1>3 DEF Drop, MayDrop, Change, ChangeShowing, Lifecycle!Release, Lifecycle!Become
    <2> QED BY <2>1, <2>2 DEF Lifecycle!Next
  <1>4. ASSUME NEW s, NEW t, o \in Orders, Close(u, o, s, t)
        PROVE  Lifecycle!Become(o, s, crafter[o])
    BY <1>4 DEF Close, Lifecycle!Become, IInv, TypeOK
  <1>5. CASE Complete(u) /\ ~TooLate(u)
    <2>1. o \in Orders BY <1>5, TaskOrder DEF Complete, Busy, IInv
    <2>2. Lifecycle!Deliver(o)
      BY <1>4, <1>5, <2>1 DEF Complete, MayComplete, MayDrop, Lifecycle!Deliver
    <2> QED BY <2>1, <2>2 DEF Lifecycle!Next
  <1>6. CASE Cancel(u) /\ ~TooLate(u)
    <2>1. o \in Orders BY <1>6, TaskOrder DEF Cancel, Busy, IInv
    <2>2. Lifecycle!Cancel(o)
      BY <1>4, <1>6, <2>1 DEF Cancel, Active, Lifecycle!Cancel
    <2> QED BY <2>1, <2>2 DEF Lifecycle!Next
  <1> QED BY <1>1, <1>2, <1>3, <1>5, <1>6 DEF Button

LEMMA ModalLifecycle ==
  ASSUME IInv, NEW u \in Users, OrderModal(u)
  PROVE  Lifecycle!Next \/ UNCHANGED <<status, crafter>>
  <1>1. ASSUME NEW o \in Orders, Create(u, o) PROVE Lifecycle!Next
    <2>1. status[o] = "none" /\ crafter[o] = Nobody
      BY <1>1 DEF Create, IInv, Strengthening, FreshOrders
    <2>2. Lifecycle!Place(o)
      BY <1>1, <2>1 DEF Create, Lifecycle!Place, Lifecycle!Become, IInv, TypeOK
    <2> QED BY <2>2 DEF Lifecycle!Next
  <1>2. CASE PostFails(u)
    <2> DEFINE o == task[u].order
    <2>1. o \in Orders /\ status[o] = "open" /\ crafter[o] = Nobody
      BY <1>2, TaskOrder DEF PostFails, Busy, IInv, Strengthening, PostedByOne
    <2>2. Lifecycle!Withdraw(o)
      BY <1>2, <2>1 DEF PostFails, Lifecycle!Withdraw, Lifecycle!Become, IInv, TypeOK
    <2> QED BY <2>1, <2>2 DEF Lifecycle!Next
  <1>3. CASE Post(u) \/ SaveMessageId(u) \/ SaveFails(u)
    BY <1>3 DEF Post, SaveMessageId, SaveFails, row
  <1> QED BY <1>1, <1>2, <1>3 DEF OrderModal

LEMMA StepLifecycle == IInv /\ [Next]_vars => [Lifecycle!Next]_(Lifecycle!vars)
  <1> SUFFICES ASSUME IInv, [Next]_vars
               PROVE  Lifecycle!Next \/ UNCHANGED <<status, crafter>>
    BY DEF Lifecycle!vars
  <1>1. ASSUME NEW u \in Users, OrderModal(u) \/ Button(u) \/ Closing(u) \/ Asking(u)
        PROVE  Lifecycle!Next \/ UNCHANGED <<status, crafter>>
    BY <1>1, ModalLifecycle, ButtonLifecycle, KeepsRow
  <1>2. ASSUME NEW o \in Orders, Background(o) PROVE UNCHANGED <<status, crafter>>
    BY <1>2 DEF Background, RefreshCard, RefreshSkips, DeadlinePasses, SweepCard, SweepGone,
                SweepLater, row
  <1>3. CASE StartRefresh \/ StartSweep \/ EndSweep \/ Restart \/ UNCHANGED vars
    BY <1>3 DEF StartRefresh, StartSweep, EndSweep, Restart, vars, row
  <1> QED BY <1>1, <1>2, <1>3 DEF Next

\* One crafter at a time, no way back from a closed order: the orders implement
\* OrderLifecycle, whatever the handlers, the loops and Discord do in between.
THEOREM LifecycleImplemented == Spec => ImplementsLifecycle
  <1>1. Init => Lifecycle!Init
    BY DEF Init, Lifecycle!Init
  <1> QED
    BY <1>1, InitIInv, StepIInv, StepLifecycle, PTL DEF Spec, ImplementsLifecycle, Lifecycle!Spec
-----------------------------------------------------------------------------
(* The card.  That it shows the row in the end needs to be known while a     *)
(* handler is still to rewrite it: one handler at a time has that edit to    *)
(* make, and it carries the row as it is.  And whatever else touches a card, *)
(* a closing handler or the cleanup, has a closed order in hand.             *)

Showing(u, o) == Busy(u, "show") /\ task[u].order = o
Posting(u, o) == Busy(u, "post") /\ task[u].order = o
Follows(o) ==
  status[o] \in Active /\ o \notin disturbed =>
    /\ \A u \in Users : Showing(u, o) =>
         /\ task[u].card = Shown(status[o], crafter[o])
         /\ \A v \in Users \ {u} : ~Showing(v, o)
    /\ (\A u \in Users : ~Showing(u, o) /\ ~Posting(u, o)) =>
         card[o] = Shown(status[o], crafter[o])

ClosingKinds == {"notify", "fallback", "anchor", "finish", "delete"}
ClosedInHand ==
  /\ \A u \in Users : task[u].kind \in ClosingKinds => status[task[u].order] \in Closed
  /\ \A o \in Orders : deleteAt[o] # "unset" \/ o \in sweep.todo => status[o] \in Closed

\* A closed order stays closed.
LEMMA ClosedStays ==
  ASSUME IInv, [Next]_vars, NEW p \in Orders, status[p] \in Closed
  PROVE  status'[p] \in Closed
  <1>1. CASE UNCHANGED status
    BY <1>1
  <1>2. ASSUME NEW u \in Users, NEW o \in Orders, Create(u, o) PROVE status'[p] \in Closed
    BY <1>2 DEF Create, Closed, IInv, TypeOK
  <1>3. ASSUME NEW u \in Users, PostFails(u) PROVE status'[p] \in Closed
    <2>1. status[task[u].order] = "open"
      BY <1>3 DEF PostFails, IInv, Strengthening, PostedByOne
    <2> QED BY <1>3, <2>1 DEF PostFails, Closed, IInv, TypeOK
  <1>4. ASSUME NEW u \in Users, Accept(u) \/ Drop(u), ~TooLate(u) PROVE status'[p] \in Closed
    <2>1. /\ status[task[u].order] \in Active
          /\ \E s : status' = [status EXCEPT ![task[u].order] = s]
      BY <1>4 DEF Accept, Drop, MayDrop, Change, ChangeShowing, Active
    <2> QED BY <2>1 DEF Active, Closed, IInv, TypeOK
  <1>5. ASSUME NEW u \in Users, Complete(u) \/ Cancel(u), ~TooLate(u) PROVE status'[p] \in Closed
    <2>1. \E s \in Closed : status' = [status EXCEPT ![task[u].order] = s]
      BY <1>5 DEF Complete, Cancel, Close, Closed
    <2> QED BY <2>1 DEF IInv, TypeOK
  <1>6. ASSUME NEW u \in Users, TooLate(u) PROVE UNCHANGED status
    BY <1>6 DEF TooLate, row
  <1>7. ASSUME NEW u \in Users, Button(u) PROVE status'[p] \in Closed
    <2>1. CASE \/ \E o \in Orders : \E b \in Buttons(o) : Click(u, o, b)
               \/ Check(u) \/ Show(u) \/ ShowFails(u)
      <3>1. UNCHANGED status
        BY <2>1 DEF Click, Check, Show, ShowFails, TooLate, row
      <3> QED BY <3>1
    <2> QED BY <1>4, <1>5, <1>6, <1>7, <2>1 DEF Button
  <1>8. ASSUME NEW u \in Users, OrderModal(u) PROVE status'[p] \in Closed
    <2>1. CASE Post(u) \/ SaveMessageId(u) \/ SaveFails(u)
      <3>1. UNCHANGED status BY <2>1 DEF Post, SaveMessageId, SaveFails, row
      <3> QED BY <3>1
    <2> QED BY <1>2, <1>3, <1>8, <2>1 DEF OrderModal
  <1>9. ASSUME NEW u \in Users, Closing(u) \/ Asking(u) PROVE status'[p] \in Closed
    BY <1>9, KeepsRow
  <1>10. ASSUME NEW o \in Orders, Background(o) PROVE UNCHANGED status
    BY <1>10 DEF Background, RefreshCard, RefreshSkips, DeadlinePasses, SweepCard, SweepGone,
                 SweepLater, row
  <1>11. CASE StartRefresh \/ StartSweep \/ EndSweep \/ Restart \/ UNCHANGED vars
    BY <1>11 DEF StartRefresh, StartSweep, EndSweep, Restart, vars, row
  <1> QED BY <1>7, <1>8, <1>9, <1>10, <1>11 DEF Next

\* A handler closes an order, or has one closed already, before it gets to the
\* notice, the thread and the card; a deadline is set by such a handler only.
LEMMA ClosingTasks ==
  ASSUME IInv, ClosedInHand, NEW u \in Users,
         OrderModal(u) \/ Button(u) \/ Closing(u) \/ Asking(u)
  PROVE  /\ \A v \in Users \ {u} : task'[v] = task[v]
         /\ task'[u].kind \in ClosingKinds =>
              /\ task'[u].order = task[u].order
              /\ task[u].kind \in ClosingKinds \/ status'[task[u].order] \in Closed
         /\ \A o \in Orders : deleteAt'[o] # deleteAt[o] =>
              task[u].kind \in ClosingKinds /\ task[u].order = o
         /\ sweep' = sweep
  <1> USE DEF row, history
  <1>1. CASE OrderModal(u)
    BY <1>1 DEF OrderModal, Create, Post, PostFails, SaveMessageId, SaveFails, Continue, Idle,
                ClosingKinds, IInv, TypeOK
  <1>2. CASE Asking(u)
    BY <1>2 DEF Asking, Ask, Dismiss, AskPost, AskFails, AskRecord, AskUndone, Continue, Idle,
                ClosingKinds, IInv, TypeOK
  <1>3. CASE Closing(u)
    <2>1. task[u].kind \in ClosingKinds
      BY <1>3 DEF Closing, Tell, TellRefused, CloseFails, FallbackPost, FallbackRecord,
             FallbackFails, FallbackUndone, Finish, DeleteThread, DeleteCard, Busy, ClosingKinds
    <2>2. /\ \A v \in Users \ {u} : task'[v] = task[v]
          /\ task'[u].kind \in ClosingKinds => task'[u].order = task[u].order
          /\ \A o \in Orders : deleteAt'[o] # deleteAt[o] => task[u].order = o
      <3>0. task \in [Users -> Tasks] /\ deleteAt \in [Orders -> {"unset", "future", "passed"}]
        BY DEF IInv, TypeOK
      <3>1. CASE Tell(u) \/ TellRefused(u) \/ CloseFails(u)
        BY <3>0, <3>1 DEF Tell, TellRefused, CloseFails, Continue, Anchor, Finishing, Idle, ClosingKinds
      <3>2. CASE FallbackPost(u) \/ FallbackRecord(u)
        BY <3>0, <3>2 DEF FallbackPost, FallbackRecord, Continue, Anchor, Finishing, Idle, ClosingKinds
      <3>3. CASE FallbackFails(u) \/ FallbackUndone(u)
        BY <3>0, <3>3 DEF FallbackFails, FallbackUndone, Continue, Anchor, Finishing, Idle, ClosingKinds
      <3>4. CASE Finish(u) \/ DeleteThread(u) \/ DeleteCard(u)
        BY <3>0, <3>4 DEF Finish, DeleteThread, DeleteCard, Continue, Anchor, Finishing, Idle, ClosingKinds
      <3> QED
        BY <1>3, <3>1, <3>2, <3>3, <3>4 DEF Closing
    <2>4. sweep' = sweep
      BY <1>3 DEF Closing, Tell, TellRefused, CloseFails, FallbackPost, FallbackRecord,
             FallbackFails, FallbackUndone, Finish, DeleteThread, DeleteCard
    <2> QED BY <2>1, <2>2, <2>4
  <1>4. CASE Button(u)
    <2>1. CASE \/ \E o \in Orders : \E b \in Buttons(o) : Click(u, o, b)
               \/ Show(u) \/ ShowFails(u) \/ TooLate(u)
      BY <2>1 DEF Click, Show, ShowFails, TooLate, Continue, Idle, ClosingKinds, IInv, TypeOK
    <2>2. CASE Check(u) /\ ~TooLate(u)
      <3>1. task[u].button \in {"accept", "drop", "complete", "cancel"}
        BY <2>2 DEF Check, Busy, IInv, TypeOK, Tasks, Idle
      <3>2. /\ Continue(u, [kind |-> task[u].button, order |-> task[u].order])
            /\ UNCHANGED <<deleteAt, sweep>>
        BY <2>2 DEF Check
      <3>3. /\ \A v \in Users \ {u} : task'[v] = task[v]
            /\ task'[u].kind = task[u].button
        BY <3>2 DEF Continue, IInv, TypeOK
      <3> QED BY <3>1, <3>2, <3>3 DEF ClosingKinds
    <2>3. CASE (Accept(u) \/ Drop(u)) /\ ~TooLate(u)
      BY <2>3 DEF Accept, Drop, Change, ChangeShowing, Continue, ClosingKinds, IInv, TypeOK
    <2>4. ASSUME NEW s \in Closed, NEW t, t.order = task[u].order, task[u].order \in Orders,
                 Close(u, task[u].order, s, t)
          PROVE  /\ \A v \in Users \ {u} : task'[v] = task[v]
                 /\ task'[u].order = task[u].order
                 /\ status'[task[u].order] \in Closed
                 /\ UNCHANGED <<deleteAt, sweep>>
      BY <2>4 DEF Close, Continue, IInv, TypeOK
    <2>5. ASSUME (Complete(u) \/ Cancel(u)) /\ ~TooLate(u)
          PROVE  \E s \in Closed, t \in {Notifying(task[u].order),
                                         Finishing(task[u].order, threadId[task[u].order], FALSE)} :
                   Close(u, task[u].order, s, t)
      BY <2>5 DEF Complete, Cancel, Closed
    <2>6. CASE (Complete(u) \/ Cancel(u)) /\ ~TooLate(u)
      <3>1. task[u].order \in Orders
        BY <2>6, TaskOrder DEF Complete, Cancel, Busy, IInv
      <3>2. /\ Notifying(task[u].order).order = task[u].order
            /\ Finishing(task[u].order, threadId[task[u].order], FALSE).order = task[u].order
        BY DEF Notifying, Finishing
      <3> QED BY <2>4, <2>5, <2>6, <3>1, <3>2
    <2> QED BY <1>4, <2>1, <2>2, <2>3, <2>6 DEF Button, Check
  <1> QED BY <1>1, <1>2, <1>3, <1>4

LEMMA ClosedInHandStep ==
  ASSUME IInv, ClosedInHand, [Next]_vars
  PROVE  ClosedInHand'
  <1>1. ASSUME NEW u \in Users, OrderModal(u) \/ Button(u) \/ Closing(u) \/ Asking(u)
        PROVE  ClosedInHand'
    <2>1. ASSUME NEW v \in Users, task'[v].kind \in ClosingKinds
          PROVE  status'[task'[v].order] \in Closed
      <3>1. CASE v = u /\ task[u].kind \notin ClosingKinds
        BY <1>1, <2>1, <3>1, ClosingTasks
      <3>2. CASE v # u \/ task[u].kind \in ClosingKinds
        <4>1. task[v].kind \in ClosingKinds /\ task'[v].order = task[v].order
          BY <1>1, <2>1, <3>2, ClosingTasks
        <4>2. status[task[v].order] \in Closed
          BY <4>1 DEF ClosedInHand
        <4>3. task[v].order \in Orders
          BY <4>1, TaskOrder DEF ClosingKinds, IInv
        <4> QED BY <4>1, <4>2, <4>3, ClosedStays
      <3> QED BY <3>1, <3>2
    <2>2. ASSUME NEW o \in Orders, deleteAt'[o] # "unset" \/ o \in sweep'.todo
          PROVE  status'[o] \in Closed
      <3>1. CASE deleteAt'[o] # deleteAt[o]
        <4>1. status[o] \in Closed
          BY <1>1, <3>1, ClosingTasks DEF ClosedInHand
        <4> QED BY <4>1, ClosedStays
      <3>2. CASE deleteAt'[o] = deleteAt[o]
        <4>1. status[o] \in Closed
          BY <1>1, <2>2, <3>2, ClosingTasks DEF ClosedInHand
        <4> QED BY <4>1, ClosedStays
      <3> QED BY <3>1, <3>2
    <2> QED BY <2>1, <2>2 DEF ClosedInHand
  <1>2. ASSUME NEW o \in Orders, Background(o) PROVE ClosedInHand'
    <2>1. UNCHANGED <<status, task>>
      BY <1>2 DEF Background, RefreshCard, RefreshSkips, DeadlinePasses, SweepCard, SweepGone,
                  SweepLater, row
    <2>2. \A p \in Orders : deleteAt'[p] # "unset" \/ p \in sweep'.todo
            => deleteAt[p] # "unset" \/ p \in sweep.todo
      BY <1>2 DEF Background, RefreshCard, RefreshSkips, DeadlinePasses, SweepCard, SweepGone,
                  SweepLater, Cleared, row, IInv, TypeOK
    <2> QED BY <2>1, <2>2 DEF ClosedInHand
  <1>3. CASE StartRefresh \/ StartSweep \/ EndSweep \/ UNCHANGED vars
    <2>1. UNCHANGED <<status, task>>
      BY <1>3 DEF StartRefresh, StartSweep, EndSweep, vars, row
    <2>2. \A p \in Orders : deleteAt'[p] # "unset" \/ p \in sweep'.todo
            => deleteAt[p] # "unset" \/ p \in sweep.todo
      BY <1>3 DEF StartRefresh, StartSweep, EndSweep, NoSweep, vars, row, IInv, TypeOK
    <2> QED BY <2>1, <2>2 DEF ClosedInHand
  <1>4. CASE Restart
    <2>1. /\ UNCHANGED <<status, deleteAt>> /\ sweep'.todo = {}
          /\ \A u \in Users : task'[u].kind \notin ClosingKinds
      BY <1>4 DEF Restart, row, NoSweep, Idle, ClosingKinds
    <2> QED BY <2>1 DEF ClosedInHand
  <1> QED BY <1>1, <1>2, <1>3, <1>4 DEF Next

-----------------------------------------------------------------------------
\* Nothing that Follows(p) speaks of changes.
Calm(p) ==
  /\ status'[p] = status[p] /\ crafter'[p] = crafter[p] /\ card'[p] = card[p]
  /\ disturbed \subseteq disturbed'
  /\ \A u \in Users : /\ Showing(u, p) \/ Posting(u, p) => task'[u] = task[u]
                      /\ Showing(u, p)' => Showing(u, p)

LEMMA CalmFollows ==
  ASSUME NEW p \in Orders, Follows(p), Calm(p)
  PROVE  Follows(p)'
  <1> SUFFICES ASSUME status'[p] \in Active, p \notin disturbed'
               PROVE  /\ \A u \in Users : Showing(u, p)' =>
                           /\ task'[u].card = Shown(status'[p], crafter'[p])
                           /\ \A v \in Users \ {u} : ~Showing(v, p)'
                      /\ (\A u \in Users : ~Showing(u, p)' /\ ~Posting(u, p)') =>
                           card'[p] = Shown(status'[p], crafter'[p])
    BY DEF Follows, Shown
  <1>1. status[p] \in Active /\ p \notin disturbed
    BY DEF Calm
  <1>2. ASSUME NEW u \in Users, Showing(u, p)'
        PROVE  /\ task'[u].card = Shown(status'[p], crafter'[p])
               /\ \A v \in Users \ {u} : ~Showing(v, p)'
    BY <1>1, <1>2 DEF Calm, Follows
  <1>3. ASSUME \A u \in Users : ~Showing(u, p)' /\ ~Posting(u, p)'
        PROVE  card'[p] = Shown(status'[p], crafter'[p])
    <2>1. \A u \in Users : ~Showing(u, p) /\ ~Posting(u, p)
      BY <1>3 DEF Calm, Showing, Posting, Busy
    <2> QED BY <1>1, <2>1 DEF Calm, Follows
  <1> QED BY <1>2, <1>3

\* A step of u that leaves p's row and card alone, and has no edit of p to make
\* before or after it.
LEMMA Bystander ==
  ASSUME NEW u \in Users, NEW p \in Orders, Follows(p),
         \A v \in Users \ {u} : task'[v] = task[v],
         ~Showing(u, p), ~Posting(u, p), ~Showing(u, p)',
         status'[p] = status[p], crafter'[p] = crafter[p], card'[p] = card[p],
         disturbed \subseteq disturbed'
  PROVE  Follows(p)'
  <1>1. Calm(p)
    BY DEF Calm, Showing, Posting, Busy
  <1> QED BY <1>1, CalmFollows

LEMMA ModalFollows ==
  ASSUME IInv, NEW p \in Orders, Follows(p), NEW u \in Users, OrderModal(u)
  PROVE  Follows(p)'
  <1> USE DEF row, history
  <1>1. ASSUME NEW o \in Orders, Create(u, o) PROVE Follows(p)'
    <2>1. /\ \A v \in Users \ {u} : task'[v] = task[v]
          /\ task[u].kind = "idle" /\ task'[u] = [kind |-> "post", order |-> o]
      BY <1>1 DEF Create, Busy, Continue, IInv, TypeOK
    <2>2. CASE p = o
      <3>1. \A v \in Users : ~Showing(v, p)
        BY <1>1, <2>2 DEF Create, IInv, Strengthening, FreshOrders, Quiet, Showing, Busy
      <3>2. \A v \in Users : ~Showing(v, p)'
        BY <2>1, <3>1 DEF Showing, Busy
      <3>3. Posting(u, p)'
        BY <2>1, <2>2 DEF Posting, Busy
      <3> QED BY <3>2, <3>3 DEF Follows
    <2>3. CASE p # o
      BY <1>1, <2>1, <2>3, Bystander DEF Create, Showing, Posting, Busy, IInv, TypeOK
    <2> QED BY <2>2, <2>3
  <1>2. CASE Post(u)
    <2>0. task[u].order \in Orders BY <1>2, TaskOrder DEF Post, Busy, IInv
    <2>1. /\ \A v \in Users \ {u} : task'[v] = task[v]
          /\ task'[u].kind = "save"
          /\ UNCHANGED <<status, crafter, disturbed>>
          /\ card' = [card EXCEPT ![task[u].order] = Shown("open", Nobody)]
      BY <1>2 DEF Post, Continue, IInv, TypeOK
    <2>2. CASE p = task[u].order
      <3>1. /\ status[p] = "open" /\ crafter[p] = Nobody
            /\ \A v \in Users \ {u} : task[v].kind # "idle" => task[v].order # p
        BY <1>2, <2>2 DEF Post, IInv, Strengthening, PostedByOne, Busy
      <3>2. \A v \in Users : ~Showing(v, p)'
        BY <2>1, <3>1 DEF Showing, Busy
      <3>3. card'[p] = Shown("open", Nobody)
        BY <2>0, <2>1, <2>2 DEF IInv, TypeOK
      <3>4. card'[p] = Shown(status'[p], crafter'[p])
        BY <2>1, <3>1, <3>3
      <3> QED BY <3>2, <3>4 DEF Follows, Shown
    <2>3. CASE p # task[u].order
      BY <2>1, <2>3, Bystander DEF Showing, Posting, Busy, IInv, TypeOK
    <2> QED BY <2>2, <2>3
  <1>3. CASE PostFails(u)
    <2>1. CASE p = task[u].order
      BY <1>3, <2>1 DEF PostFails, Follows, Active, IInv, TypeOK
    <2>2. CASE p # task[u].order
      <3>1. /\ \A v \in Users \ {u} : task'[v] = task[v]
            /\ task'[u].kind = "idle"
            /\ status'[p] = status[p] /\ crafter'[p] = crafter[p] /\ card'[p] = card[p]
            /\ disturbed' = disturbed
        BY <1>3, <2>2 DEF PostFails, Continue, Idle, IInv, TypeOK
      <3> QED BY <2>2, <3>1, Bystander DEF Showing, Posting, Busy
    <2> QED BY <2>1, <2>2
  <1>4. CASE SaveMessageId(u)
    <2>1. /\ \A v \in Users \ {u} : task'[v] = task[v]
          /\ task[u].kind = "save" /\ task'[u].kind = "idle"
          /\ UNCHANGED <<status, crafter, card, disturbed>>
      BY <1>4 DEF SaveMessageId, Busy, Continue, Idle, IInv, TypeOK
    <2> QED BY <2>1, Bystander DEF Showing, Posting, Busy
  <1>5. CASE SaveFails(u)
    <2>1. /\ \A v \in Users \ {u} : task'[v] = task[v]
          /\ task[u].kind = "save" /\ task'[u].kind = "idle"
          /\ UNCHANGED <<status, crafter>> /\ disturbed' = disturbed \cup {task[u].order}
      BY <1>5 DEF SaveFails, Busy, Continue, Idle, IInv, TypeOK
    <2>2. CASE p = task[u].order
      BY <2>1, <2>2 DEF Follows
    <2>3. CASE p # task[u].order
      <3>1. card'[p] = card[p]
        BY <1>5, <2>3 DEF SaveFails, IInv, TypeOK
      <3> QED BY <2>1, <3>1, Bystander DEF Showing, Posting, Busy
    <2> QED BY <2>2, <2>3
  <1> QED BY <1>1, <1>2, <1>3, <1>4, <1>5 DEF OrderModal

\* A change of the row puts its own edit in front of everybody else's.
LEMMA ChangeFollows ==
  ASSUME IInv, NEW p \in Orders, Follows(p), NEW u \in Users,
         task[u].kind \in {"accept", "drop"},
         NEW s \in Active, NEW c \in Users \cup {Nobody}, Change(u, task[u].order, s, c)
  PROVE  Follows(p)'
  <1> DEFINE o == task[u].order
  <1>0. o \in Orders BY TaskOrder DEF IInv
  <1>1. /\ \A v \in Users \ {u} : task'[v] = task[v]
        /\ task'[u] = [kind |-> "show", order |-> o, card |-> Shown(s, c)]
        /\ disturbed' = disturbed \cup Overtakes(o)
        /\ status' = [status EXCEPT ![o] = s] /\ crafter' = [crafter EXCEPT ![o] = c]
        /\ card' = card
    BY DEF Change, ChangeShowing, Continue, IInv, TypeOK
  <1>2. CASE p = o
    <2> SUFFICES ASSUME p \notin disturbed' PROVE Follows(p)'
      BY DEF Follows
    <2>1. \A v \in Users : ~Showing(v, p)
      BY <1>1, <1>2 DEF Overtakes, Showing
    <2>2. \A v \in Users \ {u} : ~Showing(v, p)'
      BY <1>1, <2>1 DEF Showing, Busy
    <2>3. status'[p] = s /\ crafter'[p] = c
      BY <1>0, <1>1, <1>2 DEF IInv, TypeOK
    <2>4. Showing(u, p)' /\ task'[u].card = Shown(status'[p], crafter'[p])
      <3>1. task'[u].kind = "show" /\ task'[u].order = p /\ task'[u].card = Shown(s, c)
        BY <1>1, <1>2
      <3> QED BY <2>3, <3>1 DEF Showing, Busy
    <2> QED BY <2>2, <2>4 DEF Follows, Shown
  <1>3. CASE p # o
    <2>1. status'[p] = status[p] /\ crafter'[p] = crafter[p]
      BY <1>1, <1>3 DEF IInv, TypeOK
    <2>2. ~Showing(u, p) /\ ~Posting(u, p) /\ ~Showing(u, p)'
      BY <1>1, <1>3 DEF Showing, Posting, Busy
    <2> QED BY <1>1, <2>1, <2>2, Bystander
  <1> QED BY <1>2, <1>3

LEMMA TooLateFollows ==
  ASSUME IInv, NEW p \in Orders, Follows(p), NEW u \in Users,
         task[u].kind \notin {"show", "post"}, TooLate(u)
  PROVE  Follows(p)'
  <1>1. /\ \A v \in Users \ {u} : task'[v] = task[v]
        /\ task'[u].kind = "idle"
        /\ UNCHANGED <<status, crafter, card, disturbed>>
    BY DEF TooLate, Continue, Idle, row, history, IInv, TypeOK
  <1> QED BY <1>1, Bystander DEF Showing, Posting, Busy

LEMMA CloseFollows ==
  ASSUME IInv, NEW p \in Orders, Follows(p), NEW u \in Users,
         task[u].kind \in {"complete", "cancel"}, NEW s \in Closed, NEW t,
         t.kind \in ClosingKinds, Close(u, task[u].order, s, t)
  PROVE  Follows(p)'
  <1>0. task[u].order \in Orders BY TaskOrder DEF IInv
  <1>1. CASE p = task[u].order
    <2>1. status'[p] = s
      BY <1>0, <1>1 DEF Close, IInv, TypeOK
    <2> QED BY <2>1 DEF Follows, Active, Closed
  <1>2. CASE p # task[u].order
    <2>1. /\ \A v \in Users \ {u} : task'[v] = task[v]
          /\ task'[u] = t
          /\ status'[p] = status[p] /\ crafter'[p] = crafter[p] /\ card'[p] = card[p]
          /\ disturbed' = disturbed
      BY <1>2 DEF Close, Continue, IInv, TypeOK
    <2>2. ~Showing(u, p) /\ ~Posting(u, p) /\ ~Showing(u, p)'
      BY <2>1 DEF Showing, Posting, Busy, ClosingKinds
    <2> QED BY <2>1, <2>2, Bystander
  <1> QED BY <1>1, <1>2

LEMMA ButtonFollows ==
  ASSUME IInv, NEW p \in Orders, Follows(p), NEW u \in Users, Button(u)
  PROVE  Follows(p)'
  <1> USE DEF row, history
  <1>1. ASSUME NEW o \in Orders, NEW b \in Buttons(o), Click(u, o, b) PROVE Follows(p)'
    <2>1. /\ \A v \in Users \ {u} : task'[v] = task[v]
          /\ task[u].kind = "idle" /\ task'[u].kind \in {"click", "ask"}
          /\ UNCHANGED <<status, crafter, card, disturbed>>
      BY <1>1 DEF Click, Busy, Continue, IInv, TypeOK
    <2> QED BY <2>1, Bystander DEF Showing, Posting, Busy
  <1>2. CASE Check(u) /\ ~TooLate(u)
    <2>1. task[u].button \in {"accept", "drop", "complete", "cancel"}
      BY <1>2 DEF Check, Busy, IInv, TypeOK, Tasks, Idle
    <2>2. /\ \A v \in Users \ {u} : task'[v] = task[v]
          /\ task[u].kind = "click" /\ task'[u].kind = task[u].button
          /\ UNCHANGED <<status, crafter, card, disturbed>>
      BY <1>2 DEF Check, Busy, Continue, IInv, TypeOK
    <2> QED BY <2>1, <2>2, Bystander DEF Showing, Posting, Busy
  <1>3. CASE Check(u) /\ TooLate(u)
    BY <1>3, TooLateFollows DEF Check, Busy
  <1>4. CASE Accept(u)
    BY <1>4, ChangeFollows, TooLateFollows DEF Accept, Busy, Active
  <1>5. CASE Drop(u)
    BY <1>5, ChangeFollows, TooLateFollows DEF Drop, Busy, Active
  <1>6. CASE Show(u)
    <2>0. task[u].order \in Orders BY <1>6, TaskOrder DEF Show, Busy, IInv
    <2>1. /\ \A v \in Users \ {u} : task'[v] = task[v]
          /\ task[u].kind = "show" /\ task'[u].kind = "idle"
          /\ UNCHANGED <<status, crafter, disturbed>>
          /\ card' = [card EXCEPT ![task[u].order] = task[u].card]
      BY <1>6 DEF Show, Busy, Continue, Idle, IInv, TypeOK
    <2>2. CASE p = task[u].order
      <3> SUFFICES ASSUME status[p] \in Active, p \notin disturbed PROVE Follows(p)'
        BY <2>1 DEF Follows
      <3>1. Showing(u, p)
        BY <2>1, <2>2 DEF Showing, Busy
      <3>2. task[u].card = Shown(status[p], crafter[p]) /\ \A v \in Users \ {u} : ~Showing(v, p)
        BY <3>1 DEF Follows
      <3>3. \A v \in Users : ~Showing(v, p)'
        BY <2>1, <3>2 DEF Showing, Busy
      <3>4. card'[p] = Shown(status'[p], crafter'[p])
        BY <2>0, <2>1, <2>2, <3>2 DEF IInv, TypeOK
      <3> QED BY <3>3, <3>4 DEF Follows, Shown
    <2>3. CASE p # task[u].order
      BY <2>1, <2>3, Bystander DEF Showing, Posting, Busy, IInv, TypeOK
    <2> QED BY <2>2, <2>3
  <1>7. CASE ShowFails(u)
    <2>1. /\ \A v \in Users \ {u} : task'[v] = task[v]
          /\ task[u].kind = "show" /\ task'[u].kind = "idle"
          /\ UNCHANGED <<status, crafter, card>> /\ disturbed' = disturbed \cup {task[u].order}
      BY <1>7 DEF ShowFails, Busy, Continue, Idle, IInv, TypeOK
    <2>2. CASE p = task[u].order
      BY <2>1, <2>2 DEF Follows
    <2>3. CASE p # task[u].order
      BY <2>1, <2>3, Bystander DEF Showing, Posting, Busy
    <2> QED BY <2>2, <2>3
  <1>8. \A o : Notifying(o).kind \in ClosingKinds /\ Finishing(o, threadId[o], FALSE).kind \in ClosingKinds
    BY DEF Notifying, Finishing, ClosingKinds
  <1>9. CASE Complete(u)
    BY <1>8, <1>9, CloseFollows, TooLateFollows DEF Complete, Busy, Closed
  <1>10. CASE Cancel(u)
    BY <1>8, <1>10, CloseFollows, TooLateFollows DEF Cancel, Busy, Closed
  <1> QED BY <1>1, <1>2, <1>3, <1>4, <1>5, <1>6, <1>7, <1>9, <1>10 DEF Button

\* Closing handlers touch the cards of closed orders only.
LEMMA ClosingFollows ==
  ASSUME IInv, ClosedInHand, NEW p \in Orders, Follows(p), NEW u \in Users, Closing(u)
  PROVE  Follows(p)'
  <1> USE DEF row, history
  <1>1. task[u].kind \in ClosingKinds
    BY DEF Closing, Tell, TellRefused, CloseFails, FallbackPost, FallbackRecord,
           FallbackFails, FallbackUndone, Finish, DeleteThread, DeleteCard, Busy, ClosingKinds
  <1>2. UNCHANGED <<status, crafter>>
    BY KeepsRow
  <1>3. CASE p = task[u].order
    BY <1>1, <1>2, <1>3 DEF ClosedInHand, Follows, Active, Closed
  <1>4. CASE p # task[u].order
    <2>1. card'[p] = card[p] /\ disturbed \subseteq disturbed'
      BY <1>4 DEF Closing, Tell, TellRefused, CloseFails, FallbackPost, FallbackRecord,
             FallbackFails, FallbackUndone, Finish, DeleteThread, DeleteCard, IInv, TypeOK
    <2>2. \A v \in Users \ {u} : task'[v] = task[v]
      BY ClosingTasks
    <2>3. task'[u].kind # "show"
      BY DEF Closing, Tell, TellRefused, CloseFails, FallbackPost, FallbackRecord,
             FallbackFails, FallbackUndone, Finish, DeleteThread, DeleteCard, Continue, Anchor,
             Finishing, Idle, IInv, TypeOK
    <2> QED BY <1>1, <1>2, <2>1, <2>2, <2>3, Bystander DEF Showing, Posting, Busy, ClosingKinds
  <1> QED BY <1>3, <1>4

LEMMA AskingFollows ==
  ASSUME IInv, NEW p \in Orders, Follows(p), NEW u \in Users, Asking(u)
  PROVE  Follows(p)'
  <1>1. /\ \A v \in Users \ {u} : task'[v] = task[v]
        /\ task[u].kind \in {"ask", "asking", "asked"}
        /\ task'[u].kind # "show"
        /\ UNCHANGED <<status, crafter, card, disturbed>>
    BY DEF Asking, Ask, Dismiss, AskPost, AskFails, AskRecord, AskUndone, Busy, Continue, Idle,
           row, history, IInv, TypeOK
  <1> QED BY <1>1, Bystander DEF Showing, Posting, Busy

\* The refresh disturbs what it writes; the cleanup deletes cards of closed orders.
LEMMA BackgroundFollows ==
  ASSUME IInv, ClosedInHand, NEW p \in Orders, Follows(p), NEW o \in Orders, Background(o)
  PROVE  Follows(p)'
  <1> USE DEF row, history
  <1>1. UNCHANGED <<status, crafter, task>> /\ disturbed \subseteq disturbed'
    BY DEF Background, RefreshCard, RefreshSkips, DeadlinePasses, SweepCard, SweepGone, SweepLater
  <1>2. CASE card'[p] = card[p]
    <2>1. Calm(p)
      BY <1>1, <1>2 DEF Calm, Showing, Busy
    <2> QED BY <2>1, CalmFollows
  <1>3. CASE card'[p] # card[p]
    <2>1. (RefreshCard(o) \/ SweepCard(o)) /\ p = o
      BY <1>3 DEF Background, RefreshCard, RefreshSkips, DeadlinePasses, SweepCard, SweepGone,
                  SweepLater, IInv, TypeOK
    <2>2. CASE RefreshCard(o)
      BY <2>1, <2>2 DEF RefreshCard, Follows
    <2>3. CASE SweepCard(o)
      BY <1>1, <2>1, <2>3 DEF SweepCard, ClosedInHand, Follows, Active, Closed
    <2> QED BY <2>1, <2>2, <2>3
  <1> QED BY <1>2, <1>3

LEMMA FollowsStep ==
  ASSUME IInv, ClosedInHand, [Next]_vars, NEW p \in Orders, Follows(p)
  PROVE  Follows(p)'
  <1>1. ASSUME NEW u \in Users, OrderModal(u) \/ Button(u) \/ Closing(u) \/ Asking(u)
        PROVE  Follows(p)'
    BY <1>1, ModalFollows, ButtonFollows, ClosingFollows, AskingFollows
  <1>2. ASSUME NEW o \in Orders, Background(o) PROVE Follows(p)'
    BY <1>2, BackgroundFollows
  <1>3. CASE StartRefresh \/ StartSweep \/ EndSweep \/ UNCHANGED vars
    <2>1. Calm(p)
      BY <1>3 DEF StartRefresh, StartSweep, EndSweep, vars, row, history, Calm, Showing, Busy
    <2> QED BY <2>1, CalmFollows
  <1>4. CASE Restart
    <2>1. /\ UNCHANGED <<status, crafter, card>>
          /\ disturbed' = disturbed \cup {task[u].order : u \in {v \in Users : ~Busy(v, "idle")}}
          /\ \A u \in Users : task'[u].kind = "idle"
      BY <1>4 DEF Restart, row, Idle
    <2> SUFFICES ASSUME status[p] \in Active, p \notin disturbed' PROVE Follows(p)'
      BY <2>1 DEF Follows
    <2>2. \A u \in Users : ~Showing(u, p) /\ ~Posting(u, p)
      BY <2>1 DEF Showing, Posting, Busy
    <2>3. card'[p] = Shown(status'[p], crafter'[p])
      BY <2>1, <2>2 DEF Follows
    <2>4. \A u \in Users : ~Showing(u, p)'
      BY <2>1 DEF Showing, Busy
    <2> QED BY <2>3, <2>4 DEF Follows, Shown
  <1> QED BY <1>1, <1>2, <1>3, <1>4 DEF Next

\* However clicks, checks, updates and edits of the members interleave, the card
\* of an active order that no handler has in hand shows its row, unless a
\* handler failed, two edits crossed or a refresh wrote the card.
THEOREM CardsFollowOrders == Spec => []CardShowsOrder
  <1> DEFINE CardInv == IInv /\ ClosedInHand /\ \A o \in Orders : Follows(o)
  <1>1. Init => CardInv
    <2>1. Init => ClosedInHand
      BY DEF Init, ClosedInHand, ClosingKinds, Idle, NoSweep
    <2>2. Init => \A o \in Orders : Follows(o)
      BY DEF Init, Follows, Active
    <2> QED BY <2>1, <2>2, InitIInv
  <1>2. CardInv /\ [Next]_vars => CardInv'
    BY StepIInv, ClosedInHandStep, FollowsStep
  <1>3. CardInv => CardShowsOrder
    <2> SUFFICES ASSUME CardInv, NEW o \in Orders,
                        status[o] \in Active, Quiet(o), o \notin disturbed
                 PROVE  card[o] = Shown(status[o], crafter[o])
      BY DEF CardShowsOrder
    <2>1. \A u \in Users : ~Showing(u, o) /\ ~Posting(u, o)
      BY DEF Quiet, Showing, Posting, Busy
    <2> QED BY <2>1 DEF Follows
  <1> HIDE DEF CardInv
  <1> QED BY <1>1, <1>2, <1>3, PTL DEF Spec

(***************************************************************************)
(* CraftingBoard, for every number of handlers, roles, texts and boards.     *)
(***************************************************************************)

-----------------------------------------------------------------------------
(* Type correctness.                                                         *)

Rows(n) == [id : 1 .. n, message : 0 .. n, text : Texts, version : {1, CURRENT_BOARD_VERSION}]

(* What a handler holds at its await, by where it is. *)
Holds(p, n) ==
  /\ p.at \in {"idle", "posting", "posted", "removing", "removed", "form", "editing", "mapping", "refreshing"}
  /\ p.at \in {"posting", "posted"} =>
       p \in [at : {"posting", "posted"}, id : 1 .. n, text : Texts, unmapped : SUBSET Roles]
  /\ p.at \in {"removing", "removed"} =>
       p \in [at : {"removing", "removed"}, id : 1 .. n, message : 0 .. n]
  /\ p.at \in {"form", "mapping"} => p \in [at : {"form", "mapping"}, unmapped : SUBSET Roles]
  /\ p.at = "editing" =>
       p \in [at : {"editing"}, message : 1 .. n, text : Texts, unmapped : SUBSET Roles]
  /\ p.at = "refreshing" => p \in [at : {"refreshing"}, message : 1 .. n, text : Texts]

Migrating == migration.at \in {"read", "fetched"}

(* The messages of a channel and what they show. *)
Channel(st, n) ==
  /\ DOMAIN st \subseteq 1 .. n
  /\ st = [m \in DOMAIN st |-> st[m]]
  /\ \A m \in DOMAIN st : st[m] \in [text : Texts, housing : BOOLEAN]

Typed ==
  /\ created \in 0 .. MaxBoards
  /\ config = NoBoard \/ config \in Rows(created)
  /\ mappings \subseteq Roles
  /\ Channel(standing, created)
  /\ proc = [a \in Handlers |-> proc[a]]
  /\ \A a \in Handlers : Holds(proc[a], created)
  /\ migration.at \in {"waiting", "read", "fetched", "done"}
  /\ Migrating => migration.id \in 1 .. created /\ migration.message \in 0 .. created
  /\ migration.at = "fetched" => migration.text \in Texts /\ migration.message # NoMessage
  /\ met \subseteq {"beside", "cut", "refused", "deleted", "unedited", "crossed", "late"}

LEMMA NoBoardIsNone == NoBoard.id = 0 /\ \A c \in Rows(created) : c # NoBoard /\ c.id # 0
  <1>1. NoBoard.id = 0
    BY DEF NoBoard
  <1>2. \A c \in Rows(created) : c.id # 0
    BY DEF Rows
  <1> QED
    BY <1>1, <1>2

LEMMA TypedIsTyped == Typed => BoardTypeOK
  <1> SUFFICES ASSUME Typed PROVE BoardTypeOK
    OBVIOUS
  <1>1. created \in Nat /\ created <= MaxBoards /\ MaxBoards \in Nat
    BY BoardAssumption DEF Typed
  <1>2. Rows(created) \subseteq [id : 1..MaxBoards, message : 0..MaxBoards, text : Texts, version : {1, CURRENT_BOARD_VERSION}]
    BY <1>1 DEF Rows
  <1>3. /\ DOMAIN standing \subseteq 1 .. MaxBoards
        /\ \A m \in DOMAIN standing : standing[m] \in [text : Texts, housing : BOOLEAN]
    BY <1>1 DEF Typed, Channel
  <1>4. \A a \in Handlers : proc[a].at \in {"idle", "posting", "posted", "removing", "removed",
                                           "form", "editing", "mapping", "refreshing"}
    BY DEF Typed, Holds
  <1> QED
    BY <1>2, <1>3, <1>4 DEF Typed, BoardTypeOK

LEMMA BoardInitType == BoardInit => Typed
  <1> SUFFICES ASSUME BoardInit PROVE Typed
    OBVIOUS
  <1>0. \A a \in Handlers : proc[a] = AtRest /\ Holds(proc[a], created)
    BY DEF BoardInit, Holds, AtRest
  <1>1. proc = [a \in Handlers |-> proc[a]]
    BY DEF BoardInit
  <1>2. migration.at = "waiting" /\ ~Migrating /\ mappings = {} /\ met = {}
    BY DEF BoardInit, Migrating
  <1>3. CASE config = NoBoard /\ standing = << >> /\ created = 0
    BY <1>0, <1>1, <1>2, <1>3, BoardAssumption DEF Typed, Channel
  <1>4. ASSUME NEW text \in Texts, config = [Board(1, text, 1) EXCEPT !.message = 1],
               standing = [m \in {1} |-> [text |-> text, housing |-> FALSE]], created = 1
        PROVE  Typed
    <2>1. config \in Rows(created)
      BY <1>4 DEF Rows, Board, NoMessage
    <2>2. created \in 0 .. MaxBoards
      BY <1>4, BoardAssumption
    <2> QED
      BY <1>0, <1>1, <1>2, <1>4, <2>1, <2>2 DEF Typed, Channel
  <1> QED
    BY <1>3, <1>4 DEF BoardInit

LEMMA RowsGrow ==
  ASSUME NEW n \in Nat, NEW k \in Nat, n <= k
  PROVE  Rows(n) \subseteq Rows(k) /\ \A p : Holds(p, n) => Holds(p, k)
  <1>1. 1 .. n \subseteq 1 .. k /\ 0 .. n \subseteq 0 .. k
    OBVIOUS
  <1>2. Rows(n) \subseteq Rows(k)
    BY <1>1 DEF Rows
  <1>3. ASSUME NEW p, Holds(p, n)
        PROVE  Holds(p, k)
    <2>1. p.at \in {"posting", "posted"} =>
            p \in [at : {"posting", "posted"}, id : 1 .. k, text : Texts, unmapped : SUBSET Roles]
      BY <1>1, <1>3 DEF Holds
    <2>2. p.at \in {"removing", "removed"} =>
            p \in [at : {"removing", "removed"}, id : 1 .. k, message : 0 .. k]
      BY <1>1, <1>3 DEF Holds
    <2>3. p.at = "editing" =>
            p \in [at : {"editing"}, message : 1 .. k, text : Texts, unmapped : SUBSET Roles]
      BY <1>1, <1>3 DEF Holds
    <2>4. p.at = "refreshing" => p \in [at : {"refreshing"}, message : 1 .. k, text : Texts]
      BY <1>1, <1>3 DEF Holds
    <2> QED
      BY <1>3, <2>1, <2>2, <2>3, <2>4 DEF Holds
  <1> QED
    BY <1>2, <1>3

(* A handler goes from one await to the next, the others stay where they are. *)
LEMMA BecomeType ==
  ASSUME Typed, NEW a \in Handlers, NEW p, Become(a, p), NEW n \in Nat, created <= n, Holds(p, n)
  PROVE  /\ proc' = [b \in Handlers |-> proc'[b]] /\ proc'[a] = p
         /\ \A b \in Handlers : b # a => proc'[b] = proc[b]
         /\ \A b \in Handlers : Holds(proc'[b], n)
  <1>1. proc' = [proc EXCEPT ![a] = p] /\ proc = [b \in Handlers |-> proc[b]]
    BY DEF Become, Typed
  <1>2. proc'[a] = p /\ \A b \in Handlers : b # a => proc'[b] = proc[b]
    BY <1>1
  <1>3. created \in Nat
    BY BoardAssumption DEF Typed
  <1>4. proc' = [b \in Handlers |-> proc'[b]]
    BY <1>1
  <1> QED
    BY <1>2, <1>3, <1>4, RowsGrow DEF Typed

LEMMA IdleHolds ==
  ASSUME NEW n
  PROVE  /\ Holds(AtRest, n) /\ AtRest.at = "idle"
         /\ \A unmapped \in SUBSET Roles :
              /\ Holds(ManualMapping(unmapped), n)
              /\ ManualMapping(unmapped).at \in {"idle", "mapping"}
              /\ Holds([at |-> "form", unmapped |-> unmapped], n)
  BY DEF AtRest, Holds, ManualMapping

LEMMA DropLeaves ==
  ASSUME Typed, NEW m, TakeDown(m)
  PROVE  /\ DOMAIN standing' = DOMAIN standing \ {m} /\ standing' = [k \in DOMAIN standing' |-> standing'[k]]
         /\ \A k \in DOMAIN standing \ {m} : standing'[k] = standing[k]
  BY DEF TakeDown

LEMMA ShowAdds ==
  ASSUME Typed, NEW m, NEW shown, PutUp(m, shown)
  PROVE  /\ DOMAIN standing' = DOMAIN standing \cup {m} /\ standing' = [k \in DOMAIN standing' |-> standing'[k]]
         /\ standing'[m] = shown /\ \A k \in DOMAIN standing : k # m => standing'[k] = standing[k]
  BY DEF PutUp

LEMMA RewriteKeeps ==
  ASSUME Typed, NEW m, m \in DOMAIN standing, NEW shown, PutUp(m, shown)
  PROVE  DOMAIN standing' = DOMAIN standing
  <1>1. DOMAIN standing' = DOMAIN standing \cup {m}
    BY ShowAdds
  <1> QED
    BY <1>1

(* What the steps that only move handlers, the text and the mishaps have to show. *)
LEMMA FramedType ==
  ASSUME Typed, UNCHANGED <<created, migration>>,
         config' = config \/ config' = NoBoard \/ config' \in Rows(created),
         mappings' \subseteq Roles,
         \/ standing' = standing
         \/ \E m : TakeDown(m)
         \/ \E m \in 1 .. created, text \in Texts : PutUp(m, Shows(text)),
         proc' = [b \in Handlers |-> proc'[b]], \A b \in Handlers : Holds(proc'[b], created),
         met' = met \/ \E c \in {"beside", "cut", "refused", "deleted", "unedited", "crossed", "late"} : met' = met \cup {c}
  PROVE  Typed'
  <1>1. config' = NoBoard \/ config' \in Rows(created')
    BY DEF Typed
  <1>2. Channel(standing', created)
    <2>1. CASE standing' = standing
      BY <2>1 DEF Typed
    <2>2. ASSUME NEW m, TakeDown(m)
          PROVE  Channel(standing', created)
      <3>1. /\ DOMAIN standing' = DOMAIN standing \ {m} /\ standing' = [k \in DOMAIN standing' |-> standing'[k]]
            /\ \A k \in DOMAIN standing \ {m} : standing'[k] = standing[k]
        BY <2>2, DropLeaves
      <3> QED
        BY <3>1 DEF Typed, Channel
    <2>3. ASSUME NEW m \in 1 .. created, NEW text \in Texts, PutUp(m, Shows(text))
          PROVE  Channel(standing', created)
      <3>1. Shows(text) \in [text : Texts, housing : BOOLEAN]
        BY DEF Shows
      <3>2. /\ DOMAIN standing' = DOMAIN standing \cup {m} /\ standing' = [k \in DOMAIN standing' |-> standing'[k]]
            /\ standing'[m] = Shows(text) /\ \A k \in DOMAIN standing : k # m => standing'[k] = standing[k]
        BY <2>3, ShowAdds
      <3> QED
        BY <3>1, <3>2 DEF Typed, Channel
    <2> QED
      BY <2>1, <2>2, <2>3
  <1>3. met' \subseteq {"beside", "cut", "refused", "deleted", "unedited", "crossed", "late"}
    BY DEF Typed
  <1> QED
    BY <1>1, <1>2, <1>3 DEF Typed, Migrating

LEMMA FinishCreateType ==
  ASSUME Typed, NEW a \in Handlers, NEW text \in Texts, NEW roles \in SUBSET Roles, FinishCreate(a, text, roles)
  PROVE  Typed'
  <1> DEFINE n == created + 1
             p == [at |-> "posting", id |-> n, text |-> text, unmapped |-> Unmapped(roles)]
  <1>1. created \in Nat /\ created' = n /\ n \in 0 .. MaxBoards /\ n \in Nat /\ created <= n /\ n \in 1 .. n
    BY BoardAssumption DEF Typed, FinishCreate
  <1>2. Become(a, p) /\ config' = Board(n, text, CURRENT_BOARD_VERSION) /\ mappings' = mappings \cup AutoMatch(roles)
        /\ UNCHANGED <<standing, migration, met>>
    BY DEF FinishCreate
  <1> HIDE DEF n
  <1>3. Holds(p, n)
    BY <1>1 DEF Holds, Unmapped
  <1>4. proc' = [b \in Handlers |-> proc'[b]] /\ \A b \in Handlers : Holds(proc'[b], n)
    BY <1>1, <1>2, <1>3, BecomeType
  <1>5. config' \in Rows(n)
    BY <1>1, <1>2 DEF Rows, Board, NoMessage, CURRENT_BOARD_VERSION
  <1>6. mappings' \subseteq Roles
    BY <1>2, BoardAssumption DEF AutoMatch, Typed
  <1>7. Channel(standing', n)
    BY <1>1, <1>2 DEF Typed, Channel
  <1>8. Migrating' => migration'.id \in 1 .. n /\ migration'.message \in 0 .. n
    BY <1>1, <1>2 DEF Typed, Migrating
  <1> QED
    BY <1>1, <1>2, <1>4, <1>5, <1>6, <1>7, <1>8 DEF Typed

(* A handler's step to a state that is well held is well typed, if its other *)
(* effects are.                                                               *)
LEMMA HandlerType ==
  ASSUME Typed, NEW a \in Handlers, NEW p, Become(a, p), Holds(p, created), UNCHANGED <<created, migration>>,
         config' = config \/ config' = NoBoard \/ config' \in Rows(created),
         mappings' \subseteq Roles,
         \/ standing' = standing
         \/ \E m : TakeDown(m)
         \/ \E m \in 1 .. created, text \in Texts : PutUp(m, Shows(text)),
         met' = met \/ \E c \in {"beside", "cut", "refused", "deleted", "unedited", "crossed", "late"} : met' = met \cup {c}
  PROVE  Typed'
  <1>1. created \in Nat /\ created <= created
    BY BoardAssumption DEF Typed
  <1>2. proc' = [b \in Handlers |-> proc'[b]] /\ \A b \in Handlers : Holds(proc'[b], created)
    BY <1>1, BecomeType
  <1> QED
    BY <1>2, FramedType

LEMMA MetIf ==
  ASSUME NEW c, NEW condition, Met(If(condition, c))
  PROVE  met' = met \/ met' = met \cup {c}
  BY DEF Met, If

LEMMA CreateType ==
  ASSUME Typed, Creation
  PROVE  Typed'
  <1> SUFFICES ASSUME NEW a \in Handlers,
                      \/ \E text \in Texts, roles \in SUBSET Roles : FinishCreate(a, text, roles)
                      \/ PostBoard(a) \/ BoardPostFails(a) \/ SaveMessage(a) \/ MessageSaveFails(a)
               PROVE  Typed'
    BY DEF Creation
  <1>0. mappings \subseteq Roles /\ {} \subseteq Roles /\ created \in Nat
    BY BoardAssumption DEF Typed
  <1>1. Creating(a) => proc[a] \in [at : {"posting", "posted"}, id : 1 .. created, text : Texts, unmapped : SUBSET Roles]
    BY DEF Creating, Typed, Holds
  <1>2. CASE PostBoard(a)
    <2>1. Holds([proc[a] EXCEPT !.at = "posted"], created)
      BY <1>1, <1>2 DEF PostBoard, Creating, Holds
    <2>2. proc[a].id \in 1 .. created /\ proc[a].text \in Texts
      BY <1>1, <1>2 DEF PostBoard, Creating
    <2> QED
      BY <1>0, <1>2, <2>1, <2>2, HandlerType DEF PostBoard
  <1>3. CASE BoardPostFails(a)
    BY <1>0, <1>3, IdleHolds, HandlerType DEF BoardPostFails, DeleteByGuild
  <1>4. CASE SaveMessage(a)
    <2>1. config' = config \/ config' \in Rows(created)
      BY <1>1, <1>4 DEF SaveMessage, Creating, Typed, Rows
    <2>2. Holds(ManualMapping(proc[a].unmapped), created)
      BY <1>1, <1>4, IdleHolds DEF SaveMessage, Creating
    <2> QED
      BY <1>0, <1>4, <2>1, <2>2, HandlerType DEF SaveMessage
  <1>5. CASE MessageSaveFails(a)
    <2>1. config' = NoBoard /\ mappings' = {} /\ Become(a, AtRest) /\ UNCHANGED <<migration, created>>
      BY <1>5 DEF MessageSaveFails, DeleteByGuild
    <2>2. \/ TakeDown(proc[a].id)
          \/ standing' = standing
      BY <1>5 DEF MessageSaveFails
    <2>3. met' = met \/ met' = met \cup {"refused"}
      BY <1>5 DEF MessageSaveFails, Met
    <2> QED
      BY <1>0, <2>1, <2>2, <2>3, IdleHolds, HandlerType
  <1> QED
    BY <1>2, <1>3, <1>4, <1>5, FinishCreateType

LEMMA RemovalType ==
  ASSUME Typed, Removal
  PROVE  Typed'
  <1> SUFFICES ASSUME NEW a \in Handlers, Remove(a) \/ RemoveMessage(a) \/ RemoveRow(a)
               PROVE  Typed'
    BY DEF Removal
  <1>0. mappings \subseteq Roles /\ {} \subseteq Roles /\ created \in Nat
    BY BoardAssumption DEF Typed
  <1>1. CASE Remove(a)
    <2>1. Holds([at |-> "removing", id |-> config.id, message |-> config.message], created)
      BY <1>1 DEF Remove, Holds, Typed, Rows
    <2> QED
      BY <1>0, <1>1, <2>1, HandlerType DEF Remove
  <1>2. CASE RemoveMessage(a)
    <2>1. proc[a] \in [at : {"removing", "removed"}, id : 1 .. created, message : 0 .. created]
      BY <1>2 DEF RemoveMessage, Typed, Holds
    <2>2. Holds([proc[a] EXCEPT !.at = "removed"], created) /\ Holds(AtRest, created)
      BY <2>1, IdleHolds DEF Holds
    <2>3. Become(a, [proc[a] EXCEPT !.at = "removed"]) \/ Become(a, AtRest)
      BY <1>2 DEF RemoveMessage
    <2>4. TakeDown(proc[a].message) \/ standing' = standing
      BY <1>2 DEF RemoveMessage
    <2>5. met' = met \/ met' = met \cup {"refused"}
      BY <1>2 DEF RemoveMessage, Met
    <2>6. UNCHANGED <<config, mappings, migration, created>>
      BY <1>2 DEF RemoveMessage
    <2> QED
      BY <1>0, <2>2, <2>3, <2>4, <2>5, <2>6, HandlerType
  <1>3. CASE RemoveRow(a)
    <2>1. met' = met \/ met' = met \cup {"beside"}
      BY <1>3, MetIf DEF RemoveRow
    <2> QED
      BY <1>0, <1>3, <2>1, IdleHolds, HandlerType DEF RemoveRow, DeleteByGuild
  <1> QED
    BY <1>1, <1>2, <1>3

LEMMA EditingType ==
  ASSUME Typed, Editing
  PROVE  Typed'
  <1> SUFFICES ASSUME NEW a \in Handlers,
                      \/ \E roles \in SUBSET Roles : Edit(a, roles)
                      \/ \E text \in Texts : FinishEdit(a, text)
                      \/ EmbedEdited(a) \/ FormClosed(a)
                      \/ \E chosen \in SUBSET Roles : Confirm(a, chosen)
                      \/ LanguageChanged(a) \/ Refreshed(a)
               PROVE  Typed'
    BY DEF Editing
  <1>0. mappings \subseteq Roles /\ {} \subseteq Roles /\ created \in Nat
    BY BoardAssumption DEF Typed
  <1>1. ASSUME NEW roles \in SUBSET Roles, Edit(a, roles)
        PROVE  Typed'
    <2>1. mappings' \subseteq Roles
      BY <1>0, <1>1 DEF Edit, AutoMatch
    <2>2. Holds([at |-> "form", unmapped |-> Unmapped(roles)], created)
      BY IdleHolds DEF Unmapped
    <2> QED
      BY <1>1, <2>1, <2>2, HandlerType DEF Edit
  <1>2. ASSUME NEW text \in Texts, FinishEdit(a, text)
        PROVE  Typed'
    <2>0. proc[a].unmapped \in SUBSET Roles
      BY <1>2 DEF FinishEdit, Typed, Holds
    <2>1. CASE config = NoBoard
      BY <1>0, <1>2, <2>1, IdleHolds, HandlerType DEF FinishEdit
    <2>2. CASE config # NoBoard
      <3>1. config \in Rows(created) /\ config' = [config EXCEPT !.text = text]
        BY <1>2, <2>2 DEF FinishEdit, Typed
      <3>2. config' \in Rows(created)
        BY <3>1 DEF Rows
      <3>3. met' = met \/ met' = met \cup {"crossed"}
        BY <1>2, <2>2, MetIf DEF FinishEdit
      <3>4. UNCHANGED <<created, migration, mappings, standing>>
        BY <1>2 DEF FinishEdit
      <3>5. CASE config.message = NoMessage
        BY <1>0, <1>2, <2>0, <2>2, <3>2, <3>3, <3>4, <3>5, IdleHolds, HandlerType DEF FinishEdit
      <3>6. CASE config.message # NoMessage
        <4> DEFINE p == [at |-> "editing", message |-> config.message, text |-> text, unmapped |-> proc[a].unmapped]
        <4>1. config.message \in 1 .. created
          BY <1>0, <3>1, <3>6 DEF Rows, NoMessage
        <4>2. Holds(p, created)
          BY <2>0, <4>1 DEF Holds
        <4>3. Become(a, p)
          BY <1>2, <2>2, <3>6 DEF FinishEdit
        <4> HIDE DEF p
        <4> QED
          BY <1>0, <3>2, <3>3, <3>4, <4>2, <4>3, HandlerType
      <3> QED
        BY <3>5, <3>6
    <2> QED
      BY <2>1, <2>2
  <1>3. CASE EmbedEdited(a)
    <2>1. proc[a] \in [at : {"editing"}, message : 1 .. created, text : Texts, unmapped : SUBSET Roles]
      BY <1>3 DEF EmbedEdited, Typed, Holds
    <2>2. Holds(ManualMapping(proc[a].unmapped), created) /\ Become(a, ManualMapping(proc[a].unmapped))
      BY <1>3, <2>1, IdleHolds DEF EmbedEdited
    <2>3. PutUp(proc[a].message, Shows(proc[a].text)) \/ standing' = standing
      BY <1>3 DEF EmbedEdited
    <2>4. met' = met \/ met' = met \cup {"unedited"}
      BY <1>3 DEF EmbedEdited, Met
    <2>5. UNCHANGED <<config, mappings, migration, created>>
      BY <1>3 DEF EmbedEdited
    <2>6. proc[a].message \in 1 .. created /\ proc[a].text \in Texts
      BY <2>1
    <2> QED
      BY <1>0, <2>2, <2>3, <2>4, <2>5, <2>6, HandlerType
  <1>4. CASE FormClosed(a)
    BY <1>0, <1>4, IdleHolds, HandlerType DEF FormClosed
  <1>5. ASSUME NEW chosen \in SUBSET Roles, Confirm(a, chosen)
        PROVE  Typed'
    <2>1. proc[a].unmapped \in SUBSET Roles
      BY <1>5 DEF Confirm, Typed, Holds
    <2>2. Holds(ManualMapping(proc[a].unmapped \ chosen), created)
      BY <2>1, IdleHolds
    <2>3. met' = met \/ met' = met \cup {"late"}
      BY <1>5, MetIf DEF Confirm
    <2>4. mappings' \subseteq Roles
      BY <1>0, <1>5 DEF Confirm
    <2> QED
      BY <1>5, <2>2, <2>3, <2>4, HandlerType DEF Confirm
  <1>6. CASE LanguageChanged(a)
    <2>1. Holds([at |-> "refreshing", message |-> config.message, text |-> config.text], created)
      BY <1>0, <1>6 DEF LanguageChanged, Holds, Typed, Rows, NoMessage
    <2> QED
      BY <1>0, <1>6, <2>1, HandlerType DEF LanguageChanged
  <1>7. CASE Refreshed(a)
    <2>1. proc[a].message \in 1 .. created /\ proc[a].text \in Texts
      BY <1>7 DEF Refreshed, Typed, Holds
    <2>2. PutUp(proc[a].message, Shows(proc[a].text)) \/ standing' = standing
      BY <1>7 DEF Refreshed
    <2> QED
      BY <1>0, <1>7, <2>1, <2>2, IdleHolds, HandlerType DEF Refreshed
  <1> QED
    BY <1>1, <1>2, <1>3, <1>4, <1>5, <1>6, <1>7

LEMMA BumpType ==
  ASSUME Typed, Bump
  PROVE  /\ config' = config \/ (config' \in Rows(created) /\ config' = [config EXCEPT !.version = CURRENT_BOARD_VERSION])
         /\ config' = NoBoard <=> config = NoBoard
         /\ config'.id = config.id
         /\ config # NoBoard => config'.message = config.message /\ config'.text = config.text
  <1>1. CASE config = NoBoard
    BY <1>1, NoBoardIsNone DEF Bump, NoBoard
  <1>2. CASE config \in Rows(created)
    <2>1. config' = config \/ config' = [config EXCEPT !.version = CURRENT_BOARD_VERSION]
      BY DEF Bump
    <2>2. [config EXCEPT !.version = CURRENT_BOARD_VERSION] \in Rows(created)
      BY <1>2 DEF Rows
    <2> QED
      BY <1>2, <2>1, <2>2, NoBoardIsNone DEF Rows
  <1> QED
    BY <1>1, <1>2 DEF Typed

LEMMA MigrationType ==
  ASSUME Typed, Migration
  PROVE  Typed'
  <1>0. UNCHANGED <<mappings, proc, created>>
    BY DEF Migration, MigrateBoards, FetchBoard, EditBoard, BoardInaccessible, MigrationPutOff
  <1>1. config' = NoBoard \/ config' \in Rows(created)
    BY BumpType DEF Typed, Migration, MigrateBoards, FetchBoard, EditBoard, BoardInaccessible, MigrationPutOff
  <1>2. Channel(standing', created)
    <2>1. CASE standing' = standing
      BY <2>1 DEF Typed
    <2>2. CASE EditBoard
      <3>1. migration.message \in DOMAIN standing /\ Shows(migration.text) \in [text : Texts, housing : BOOLEAN]
        BY <2>2 DEF EditBoard, Shows, Typed
      <3>2. /\ DOMAIN standing' = DOMAIN standing \cup {migration.message}
            /\ standing' = [k \in DOMAIN standing' |-> standing'[k]]
            /\ standing'[migration.message] = Shows(migration.text)
            /\ \A k \in DOMAIN standing : k # migration.message => standing'[k] = standing[k]
        BY <2>2, ShowAdds DEF EditBoard
      <3> QED
        BY <3>1, <3>2 DEF Typed, Channel
    <2> QED
      BY <2>1, <2>2 DEF Migration, MigrateBoards, FetchBoard, BoardInaccessible, MigrationPutOff
  <1>3. met' \subseteq {"beside", "cut", "refused", "deleted", "unedited", "crossed", "late"}
    BY DEF Typed, Migration, MigrateBoards, FetchBoard, EditBoard, BoardInaccessible, MigrationPutOff, Met, If
  <1>4. /\ migration'.at \in {"waiting", "read", "fetched", "done"}
        /\ Migrating' => migration'.id \in 1 .. created /\ migration'.message \in 0 .. created
        /\ migration'.at = "fetched" => migration'.text \in Texts /\ migration'.message # NoMessage
    <2>1. CASE MigrateBoards
      BY <2>1 DEF MigrateBoards, Migrating, Migrated, Typed, Rows
    <2>2. CASE FetchBoard
      BY <1>0, <2>2 DEF FetchBoard, Migrating, Typed, Channel, NoMessage
    <2>3. CASE migration' = Migrated
      BY <2>3 DEF Migrated, Migrating
    <2> QED
      BY <2>1, <2>2, <2>3 DEF Migration, EditBoard, BoardInaccessible, MigrationPutOff
  <1> QED
    BY <1>0, <1>1, <1>2, <1>3, <1>4 DEF Typed

LEMMA OutsideType ==
  ASSUME Typed, Outside
  PROVE  Typed'
  <1>0. proc = [a \in Handlers |-> proc[a]] /\ \A a \in Handlers : Holds(proc[a], created)
    BY DEF Typed
  <1>1. ASSUME NEW r \in Roles, WebCreateMapping(r) \/ WebDeleteMapping(r)
        PROVE  Typed'
    <2>1. met' = met \/ met' = met \cup {"late"}
      BY <1>1, MetIf DEF WebCreateMapping, WebDeleteMapping
    <2>2. mappings' \subseteq Roles
      BY <1>1 DEF WebCreateMapping, WebDeleteMapping, Typed
    <2> QED
      BY <1>0, <1>1, <2>1, <2>2, FramedType DEF WebCreateMapping, WebDeleteMapping
  <1>2. ASSUME NEW m \in DOMAIN standing, DeletedByHand(m)
        PROVE  Typed'
    <2>1. met' = met \cup {"deleted"} /\ mappings' \subseteq Roles
      BY <1>2 DEF DeletedByHand, Met, Typed
    <2> QED
      BY <1>0, <1>2, <2>1, FramedType DEF DeletedByHand
  <1>3. CASE BoardRestart
    <2>1. \A a \in Handlers : proc'[a] = AtRest
      BY <1>3 DEF BoardRestart
    <2>2. proc' = [a \in Handlers |-> proc'[a]] /\ \A a \in Handlers : Holds(proc'[a], created)
      BY <1>3, <2>1, IdleHolds DEF BoardRestart
    <2>3. met' \subseteq {"beside", "cut", "refused", "deleted", "unedited", "crossed", "late"}
      BY <1>3 DEF BoardRestart, Met, If, Typed
    <2>4. migration'.at = "waiting" /\ ~Migrating'
      BY <1>3 DEF BoardRestart, Migrating
    <2> QED
      BY <1>3, <2>2, <2>3, <2>4 DEF BoardRestart, Typed
  <1> QED
    BY <1>1, <1>2, <1>3 DEF Outside

LEMMA NextType ==
  ASSUME Typed, [BoardNext]_boardVars
  PROVE  Typed'
  <1>1. CASE UNCHANGED boardVars
    BY <1>1 DEF Typed, Migrating, boardVars
  <1> QED
    BY <1>1, CreateType, RemovalType, EditingType, MigrationType, OutsideType DEF BoardNext

LEMMA Typing == BoardSpec => []Typed
  BY BoardInitType, NextType, PTL DEF BoardSpec

(* The types of CraftingBoard (models/wow/crafting.py:19). *)
THEOREM BoardTypeCorrect == BoardSpec => []BoardTypeOK
  BY Typing, TypedIsTyped, PTL

-----------------------------------------------------------------------------
(* Mappings do not outlive their board.                                      *)

LEMMA MappingsStep ==
  ASSUME Typed, NothingLeftBehind, [BoardNext]_boardVars
  PROVE  NothingLeftBehind'
  <1>1. CASE UNCHANGED boardVars
    BY <1>1 DEF NothingLeftBehind, boardVars
  <1>2. CASE Creation
    <2>1. ASSUME NEW a \in Handlers, NEW text \in Texts, NEW roles \in SUBSET Roles, FinishCreate(a, text, roles)
          PROVE  config' # NoBoard
      <3>1. config'.id = created + 1 /\ created \in Nat
        BY <2>1, BoardAssumption DEF FinishCreate, Board, Typed
      <3> QED
        BY <3>1, NoBoardIsNone
    <2>2. ASSUME NEW a \in Handlers, SaveMessage(a)
          PROVE  (config' = NoBoard <=> config = NoBoard) /\ UNCHANGED <<mappings, met>>
      <3>1. config # NoBoard => config'.id = config.id /\ config.id # 0
        BY <2>2, NoBoardIsNone DEF SaveMessage, Typed, Rows
      <3> QED
        BY <2>2, <3>1, NoBoardIsNone DEF SaveMessage
    <2> QED
      BY <1>2, <2>1, <2>2 DEF Creation, PostBoard, BoardPostFails, MessageSaveFails, DeleteByGuild, NothingLeftBehind
  <1>3. CASE Removal
    <2>1. ASSUME NEW a \in Handlers, RemoveMessage(a)
          PROVE  UNCHANGED <<config, mappings>> /\ met \subseteq met'
      BY <2>1 DEF RemoveMessage, Met
    <2> QED
      BY <1>3, <2>1 DEF Removal, Remove, RemoveRow, DeleteByGuild, NothingLeftBehind
  <1>4. CASE Editing
    <2>1. ASSUME NEW a \in Handlers, NEW text \in Texts, FinishEdit(a, text)
          PROVE  (config' = NoBoard <=> config = NoBoard) /\ UNCHANGED mappings /\ met \subseteq met'
      <3>1. config # NoBoard => config'.id = config.id /\ config.id # 0
        BY <2>1, NoBoardIsNone DEF FinishEdit, Typed, Rows
      <3>2. met' = met \/ met' = met \cup {"crossed"}
        BY <2>1, MetIf DEF FinishEdit
      <3> QED
        BY <2>1, <3>1, <3>2, NoBoardIsNone DEF FinishEdit
    <2>2. ASSUME NEW a \in Handlers, EmbedEdited(a)
          PROVE  UNCHANGED <<config, mappings>> /\ met \subseteq met'
      BY <2>2 DEF EmbedEdited, Met
    <2>3. ASSUME NEW a \in Handlers, NEW chosen \in SUBSET Roles, Confirm(a, chosen)
          PROVE  UNCHANGED config /\ (config = NoBoard => "late" \in met')
      BY <2>3 DEF Confirm, Met, If
    <2>4. ASSUME NEW a \in Handlers, NEW roles \in SUBSET Roles, Edit(a, roles)
          PROVE  UNCHANGED config /\ config # NoBoard
      BY <2>4 DEF Edit
    <2>5. ASSUME NEW a \in Handlers, FormClosed(a) \/ LanguageChanged(a) \/ Refreshed(a)
          PROVE  UNCHANGED <<config, mappings, met>>
      BY <2>5 DEF FormClosed, LanguageChanged, Refreshed
    <2> QED
      BY <1>4, <2>1, <2>2, <2>3, <2>4, <2>5 DEF Editing, NothingLeftBehind
  <1>5. CASE Migration
    <2>1. (config' = NoBoard <=> config = NoBoard) /\ UNCHANGED mappings
      BY <1>5, BumpType DEF Migration, MigrateBoards, FetchBoard, EditBoard, BoardInaccessible, MigrationPutOff
    <2>2. met \subseteq met'
      BY <1>5 DEF Migration, MigrateBoards, FetchBoard, EditBoard, BoardInaccessible, MigrationPutOff, Met
    <2> QED
      BY <2>1, <2>2 DEF NothingLeftBehind
  <1>6. CASE Outside
    <2>1. ASSUME NEW r \in Roles, WebCreateMapping(r)
          PROVE  UNCHANGED config /\ (config = NoBoard => "late" \in met')
      BY <2>1 DEF WebCreateMapping, Met, If
    <2>2. ASSUME NEW r \in Roles, WebDeleteMapping(r)
          PROVE  UNCHANGED <<config, met>> /\ mappings' \subseteq mappings
      BY <2>2 DEF WebDeleteMapping
    <2>3. ASSUME (\E m \in DOMAIN standing : DeletedByHand(m)) \/ BoardRestart
          PROVE  UNCHANGED <<config, mappings>> /\ met \subseteq met'
      BY <2>3 DEF DeletedByHand, BoardRestart, Met
    <2> QED
      BY <1>6, <2>1, <2>2, <2>3 DEF Outside, NothingLeftBehind
  <1> QED
    BY <1>1, <1>2, <1>3, <1>4, <1>5, <1>6 DEF BoardNext

(* No mapping is left where no board is, unless one was confirmed or added   *)
(* too late (ManualProfessionMappingView, the dashboard).                    *)
THEOREM MappingsGo == BoardSpec => []NothingLeftBehind
  <1>1. BoardInit => NothingLeftBehind
    BY DEF BoardInit, NothingLeftBehind
  <1> QED
    BY <1>1, Typing, MappingsStep, PTL DEF BoardSpec

-----------------------------------------------------------------------------
(* The number of a board under creation is nobody else's yet: a stale        *)
(* handler or migration never touches its message.                           *)

Holding(p) == p.at \in {"removing", "removed", "editing", "refreshing"}

Fresh ==
  \A a \in Handlers : Creating(a) =>
    /\ config # NoBoard => config.message # proc[a].id /\ (config.version = 1 => config.id # proc[a].id)
    /\ \A b \in Handlers : Holding(proc[b]) => proc[b].message # proc[a].id
    /\ Migrating => migration.message # proc[a].id /\ migration.id # proc[a].id
    /\ \A b \in Handlers : Creating(b) /\ b # a => proc[b].id # proc[a].id

LEMMA FreshKept ==
  ASSUME Fresh,
         \/ config' = NoBoard
         \/ config # NoBoard /\ config'.id = config.id /\ config'.message = config.message
              /\ config'.version \in {config.version, CURRENT_BOARD_VERSION},
         Migrating' => Migrating /\ migration'.message = migration.message /\ migration'.id = migration.id,
         \A b \in Handlers :
           /\ proc'[b].at \in {"posting", "posted"} =>
                proc[b].at \in {"posting", "posted"} /\ proc'[b].id = proc[b].id
           /\ Holding(proc'[b]) =>
                \/ Holding(proc[b]) /\ proc'[b].message = proc[b].message
                \/ config # NoBoard /\ proc'[b].message = config.message
  PROVE  Fresh'
  <1> SUFFICES ASSUME NEW a \in Handlers, Creating(a)'
               PROVE  /\ config' # NoBoard => config'.message # proc'[a].id /\ (config'.version = 1 => config'.id # proc'[a].id)
                      /\ \A b \in Handlers : Holding(proc'[b]) => proc'[b].message # proc'[a].id
                      /\ Migrating' => migration'.message # proc'[a].id /\ migration'.id # proc'[a].id
                      /\ \A b \in Handlers : Creating(b)' /\ b # a => proc'[b].id # proc'[a].id
    BY DEF Fresh
  <1>1. Creating(a) /\ proc'[a].id = proc[a].id /\ \A b \in Handlers : Creating(b)' => Creating(b) /\ proc'[b].id = proc[b].id
    BY DEF Creating
  <1>2. config' # NoBoard => config'.message # proc'[a].id /\ (config'.version = 1 => config'.id # proc'[a].id)
    BY <1>1 DEF Fresh, CURRENT_BOARD_VERSION
  <1>3. \A b \in Handlers : Holding(proc'[b]) => proc'[b].message # proc'[a].id
    BY <1>1 DEF Fresh
  <1>4. Migrating' => migration'.message # proc'[a].id /\ migration'.id # proc'[a].id
    BY <1>1 DEF Fresh
  <1>5. \A b \in Handlers : Creating(b)' /\ b # a => proc'[b].id # proc'[a].id
    BY <1>1 DEF Fresh
  <1> QED
    BY <1>2, <1>3, <1>4, <1>5

(* How the others see the step of one handler. *)
LEMMA OthersStay ==
  ASSUME Typed, NEW a \in Handlers, NEW p, Become(a, p)
  PROVE  proc'[a] = p /\ \A b \in Handlers : b # a => proc'[b] = proc[b]
  BY DEF Typed, Become

(* A handler that goes on without a number, or a message, of its own keeps it. *)
LEMMA FreshHandler ==
  ASSUME Typed, Fresh, NEW a \in Handlers, NEW p, Become(a, p), UNCHANGED migration,
         \/ config' = config
         \/ config' = NoBoard
         \/ config # NoBoard /\ config'.id = config.id /\ config'.message = config.message
              /\ config'.version \in {config.version, CURRENT_BOARD_VERSION},
         p.at \in {"posting", "posted"} => proc[a].at \in {"posting", "posted"} /\ p.id = proc[a].id,
         Holding(p) => \/ Holding(proc[a]) /\ p.message = proc[a].message
                       \/ config # NoBoard /\ p.message = config.message
  PROVE  Fresh'
  BY OthersStay, FreshKept DEF Migrating

LEMMA ManualMappingIs == \A u : ManualMapping(u).at \in {"idle", "mapping"} /\ AtRest.at = "idle"
  BY DEF ManualMapping, AtRest

LEMMA FreshCreate ==
  ASSUME Typed, Fresh, NEW a \in Handlers, NEW text \in Texts, NEW roles \in SUBSET Roles, FinishCreate(a, text, roles)
  PROVE  Fresh'
  <1> DEFINE n == created + 1
             p == [at |-> "posting", id |-> n, text |-> text, unmapped |-> Unmapped(roles)]
  <1>1. created \in Nat /\ \A k \in 0 .. created : k # n
    BY BoardAssumption DEF Typed
  <1>2. Become(a, p) /\ config' = Board(n, text, CURRENT_BOARD_VERSION) /\ UNCHANGED migration /\ proc[a] = AtRest
    BY DEF FinishCreate
  <1>3. proc'[a] = p /\ p.at = "posting" /\ p.id = n /\ \A b \in Handlers : b # a => proc'[b] = proc[b]
    BY <1>2, OthersStay
  <1>4. config'.message = 0 /\ config'.version = 2
    BY <1>2 DEF Board, NoMessage, CURRENT_BOARD_VERSION
  <1>5. \A b \in Handlers : /\ Holding(proc[b]) => proc[b].message \in 0 .. created
                            /\ Creating(b) => proc[b].id \in 1 .. created
    BY DEF Typed, Holds, Holding, Creating
  <1>6. Migrating => migration.message \in 0 .. created /\ migration.id \in 0 .. created
    BY <1>1 DEF Typed
  <1>7. n # 0 /\ \A k \in 1 .. created : k # n /\ k # 0
    BY <1>1
  <1> HIDE DEF n, p
  <1>8. Migrating' = Migrating /\ UNCHANGED migration
    BY <1>2 DEF Migrating
  <1> SUFFICES ASSUME NEW c \in Handlers, Creating(c)'
               PROVE  /\ config' # NoBoard => config'.message # proc'[c].id /\ (config'.version = 1 => config'.id # proc'[c].id)
                      /\ \A b \in Handlers : Holding(proc'[b]) => proc'[b].message # proc'[c].id
                      /\ Migrating' => migration'.message # proc'[c].id /\ migration'.id # proc'[c].id
                      /\ \A b \in Handlers : Creating(b)' /\ b # c => proc'[b].id # proc'[c].id
    BY DEF Fresh
  <1>9. ~Holding(proc'[a]) /\ Creating(a)'
    BY <1>3 DEF Holding, Creating
  <1>10. \A b \in Handlers : b # a => (Creating(b)' <=> Creating(b)) /\ proc'[b] = proc[b]
    BY <1>3 DEF Creating
  <1>11. CASE c = a
    BY <1>1, <1>3, <1>4, <1>5, <1>6, <1>7, <1>8, <1>9, <1>10, <1>11
  <1>12. CASE c # a
    <2>1. Creating(c) /\ proc'[c] = proc[c] /\ proc[c].id \in 1 .. created
      BY <1>5, <1>10, <1>12
    <2> QED
      BY <1>1, <1>3, <1>4, <1>7, <1>8, <1>9, <1>10, <1>12, <2>1 DEF Fresh
  <1> QED
    BY <1>11, <1>12

LEMMA FreshSave ==
  ASSUME Typed, Fresh, NEW a \in Handlers, SaveMessage(a)
  PROVE  Fresh'
  <1>1. /\ Creating(a) /\ UNCHANGED migration
        /\ Become(a, ManualMapping(proc[a].unmapped))
        /\ \/ config' = config /\ config = NoBoard
           \/ config # NoBoard /\ config' = [config EXCEPT !.message = proc[a].id]
    BY DEF SaveMessage, Creating
  <1>2. /\ proc'[a].at \in {"idle", "mapping"} /\ ~Holding(proc'[a]) /\ ~Creating(a)'
        /\ \A b \in Handlers : b # a => proc'[b] = proc[b] /\ (Creating(b)' <=> Creating(b))
    BY <1>1, OthersStay, ManualMappingIs DEF Holding, Creating
  <1>3. config' # NoBoard => config # NoBoard /\ config'.id = config.id /\ config'.version = config.version
                             /\ config'.message = proc[a].id
    BY <1>1 DEF Typed, Rows
  <1>4. Migrating' = Migrating /\ UNCHANGED migration
    BY <1>1 DEF Migrating
  <1> SUFFICES ASSUME NEW c \in Handlers, Creating(c)'
               PROVE  /\ config' # NoBoard => config'.message # proc'[c].id /\ (config'.version = 1 => config'.id # proc'[c].id)
                      /\ \A b \in Handlers : Holding(proc'[b]) => proc'[b].message # proc'[c].id
                      /\ Migrating' => migration'.message # proc'[c].id /\ migration'.id # proc'[c].id
                      /\ \A b \in Handlers : Creating(b)' /\ b # c => proc'[b].id # proc'[c].id
    BY DEF Fresh
  <1>5. c # a /\ Creating(c) /\ proc'[c] = proc[c]
    BY <1>2
  <1> QED
    BY <1>1, <1>2, <1>3, <1>4, <1>5 DEF Fresh

LEMMA FreshStep ==
  ASSUME Typed, Fresh, [BoardNext]_boardVars
  PROVE  Fresh'
  <1>1. CASE UNCHANGED boardVars
    BY <1>1 DEF Fresh, Creating, Migrating, boardVars
  <1>2. ASSUME NEW a \in Handlers, PostBoard(a) \/ BoardPostFails(a) \/ MessageSaveFails(a)
        PROVE  Fresh'
    <2>1. CASE PostBoard(a)
      <3>1. proc[a] \in [at : {"posting", "posted"}, id : 1 .. created, text : Texts, unmapped : SUBSET Roles]
        BY <2>1 DEF PostBoard, Typed, Holds
      <3> DEFINE p == [proc[a] EXCEPT !.at = "posted"]
      <3>2. p.at = "posted" /\ p.id = proc[a].id /\ proc[a].at = "posting" /\ ~Holding(p)
        BY <2>1, <3>1 DEF PostBoard, Holding
      <3>3. Become(a, p) /\ UNCHANGED <<config, migration>>
        BY <2>1 DEF PostBoard
      <3> HIDE DEF p
      <3> QED
        BY <3>2, <3>3, FreshHandler
    <2>2. CASE BoardPostFails(a) \/ MessageSaveFails(a)
      BY <2>2, FreshHandler DEF BoardPostFails, MessageSaveFails, DeleteByGuild, Holding, AtRest
    <2> QED
      BY <1>2, <2>1, <2>2
  <1>3. CASE Removal
    <2> SUFFICES ASSUME NEW a \in Handlers, Remove(a) \/ RemoveMessage(a) \/ RemoveRow(a)
                 PROVE  Fresh'
      BY <1>3 DEF Removal
    <2>1. CASE Remove(a)
      BY <2>1, FreshHandler DEF Remove
    <2>2. CASE RemoveMessage(a)
      <3>1. proc[a] \in [at : {"removing", "removed"}, id : 1 .. created, message : 0 .. created]
        BY <2>2 DEF RemoveMessage, Typed, Holds
      <3> DEFINE p == [proc[a] EXCEPT !.at = "removed"]
      <3>2. p.at = "removed" /\ p.message = proc[a].message /\ Holding(proc[a])
        BY <2>2, <3>1 DEF RemoveMessage, Holding
      <3>3. Become(a, p) \/ Become(a, AtRest)
        BY <2>2 DEF RemoveMessage
      <3>4. UNCHANGED <<config, migration>>
        BY <2>2 DEF RemoveMessage
      <3>5. AtRest.at = "idle" /\ ~Holding(AtRest)
        BY DEF AtRest, Holding
      <3> HIDE DEF p
      <3> QED
        BY <3>2, <3>3, <3>4, <3>5, FreshHandler
    <2>3. CASE RemoveRow(a)
      BY <2>3, FreshHandler DEF RemoveRow, DeleteByGuild, Holding, AtRest
    <2> QED
      BY <2>1, <2>2, <2>3
  <1>4. CASE Editing
    <2> SUFFICES ASSUME NEW a \in Handlers,
                        \/ \E roles \in SUBSET Roles : Edit(a, roles)
                        \/ \E text \in Texts : FinishEdit(a, text)
                        \/ EmbedEdited(a) \/ FormClosed(a)
                        \/ \E chosen \in SUBSET Roles : Confirm(a, chosen)
                        \/ LanguageChanged(a) \/ Refreshed(a)
                 PROVE  Fresh'
      BY <1>4 DEF Editing
    <2>0. \A u : ~Holding(ManualMapping(u)) /\ ManualMapping(u).at \notin {"posting", "posted"}
      BY ManualMappingIs DEF Holding
    <2>1. ASSUME NEW roles \in SUBSET Roles, Edit(a, roles)
          PROVE  Fresh'
      BY <2>1, FreshHandler DEF Edit, Holding
    <2>2. ASSUME NEW text \in Texts, FinishEdit(a, text)
          PROVE  Fresh'
      <3>1. CASE config = NoBoard
        BY <2>2, <3>1, FreshHandler DEF FinishEdit, Holding, AtRest
      <3>2. CASE config # NoBoard
        <4>1. config'.id = config.id /\ config'.message = config.message /\ config'.version = config.version
          BY <2>2, <3>2 DEF FinishEdit, Typed, Rows
        <4> DEFINE p == [at |-> "editing", message |-> config.message, text |-> text, unmapped |-> proc[a].unmapped]
        <4>2. p.at = "editing" /\ p.message = config.message
          OBVIOUS
        <4>3. Become(a, p) \/ Become(a, ManualMapping(proc[a].unmapped))
          BY <2>2, <3>2 DEF FinishEdit
        <4>4. UNCHANGED migration
          BY <2>2 DEF FinishEdit
        <4> HIDE DEF p
        <4> QED
          BY <2>0, <3>2, <4>1, <4>2, <4>3, <4>4, FreshHandler
      <3> QED
        BY <3>1, <3>2
    <2>3. CASE EmbedEdited(a)
      BY <2>0, <2>3, FreshHandler DEF EmbedEdited
    <2>4. CASE FormClosed(a)
      BY <2>4, FreshHandler DEF FormClosed, Holding, AtRest
    <2>5. ASSUME NEW chosen \in SUBSET Roles, Confirm(a, chosen)
          PROVE  Fresh'
      BY <2>0, <2>5, FreshHandler DEF Confirm
    <2>6. CASE LanguageChanged(a)
      BY <2>6, FreshHandler DEF LanguageChanged
    <2>7. CASE Refreshed(a)
      BY <2>7, FreshHandler DEF Refreshed, Holding, AtRest
    <2> QED
      BY <2>1, <2>2, <2>3, <2>4, <2>5, <2>6, <2>7
  <1>5. CASE Migration
    <2>0. UNCHANGED proc
      BY <1>5 DEF Migration, MigrateBoards, FetchBoard, EditBoard, BoardInaccessible, MigrationPutOff
    <2>1. CASE MigrateBoards
      <3>1. UNCHANGED config
        BY <2>1 DEF MigrateBoards
      <3>2. Migrating' => /\ config # NoBoard /\ config.version # CURRENT_BOARD_VERSION
                          /\ migration'.id = config.id /\ migration'.message = config.message
        BY <2>1 DEF MigrateBoards, Migrating, Migrated
      <3>3. Migrating' => config.version = 1
        BY <3>2 DEF Typed, Rows
      <3> QED
        BY <2>0, <3>1, <3>2, <3>3 DEF Fresh, Creating
    <2>2. CASE FetchBoard
      BY <2>0, <2>2, FreshKept DEF FetchBoard, Migrating
    <2>3. CASE migration' = Migrated /\ (Bump \/ UNCHANGED config)
      <3>1. ~Migrating'
        BY <2>3 DEF Migrated, Migrating
      <3>2. \/ config' = NoBoard
            \/ config # NoBoard /\ config'.id = config.id /\ config'.message = config.message
                 /\ config'.version \in {config.version, CURRENT_BOARD_VERSION}
        BY <2>3, BumpType DEF Rows
      <3> QED
        BY <2>0, <3>1, <3>2, FreshKept
    <2> QED
      BY <1>5, <2>1, <2>2, <2>3 DEF Migration, EditBoard, BoardInaccessible, MigrationPutOff
  <1>6. CASE Outside
    <2>1. CASE BoardRestart
      BY <2>1 DEF BoardRestart, AtRest, Fresh, Creating
    <2>2. CASE UNCHANGED <<config, proc, migration>>
      BY <2>2 DEF Fresh, Creating, Migrating
    <2> QED
      BY <1>6, <2>1, <2>2 DEF Outside, WebCreateMapping, WebDeleteMapping, DeletedByHand
  <1> QED
    BY <1>1, <1>2, <1>3, <1>4, <1>5, <1>6, FreshCreate, FreshSave DEF BoardNext, Creation

-----------------------------------------------------------------------------
(* Mishaps are never forgotten, and a board under creation is the guild's.   *)

Without(mishaps) == met \cap mishaps = {}

LEMMA MishapsStay ==
  ASSUME BoardNext
  PROVE  met \subseteq met'
  <1>1. CASE Creation
    BY <1>1 DEF Creation, FinishCreate, PostBoard, BoardPostFails, SaveMessage, MessageSaveFails, Met
  <1>2. CASE Removal
    BY <1>2 DEF Removal, Remove, RemoveMessage, RemoveRow, Met
  <1>3. CASE Editing
    BY <1>3 DEF Editing, Edit, FinishEdit, EmbedEdited, FormClosed, Confirm, LanguageChanged, Refreshed, Met
  <1>4. CASE Migration
    BY <1>4 DEF Migration, MigrateBoards, FetchBoard, EditBoard, BoardInaccessible, MigrationPutOff, Met
  <1>5. CASE Outside
    BY <1>5 DEF Outside, WebCreateMapping, WebDeleteMapping, DeletedByHand, BoardRestart, Met
  <1> QED
    BY <1>1, <1>2, <1>3, <1>4, <1>5 DEF BoardNext

Owned ==
  \A a \in Handlers : Creating(a) =>
    /\ config # NoBoard /\ config.id = proc[a].id
    /\ config.message = NoMessage /\ config.version = CURRENT_BOARD_VERSION
    /\ \A b \in Handlers : Creating(b) => b = a

Own == Without({"beside", "cut"}) => Owned

(* Nobody begins a creation, and the board stays what it is. *)
LEMMA OwnedKept ==
  ASSUME Owned,
         \A b \in Handlers : Creating(b)' => Creating(b) /\ proc'[b].id = proc[b].id,
         \/ config' = config
         \/ config # NoBoard => /\ config' # NoBoard /\ config'.id = config.id /\ config'.message = config.message
                                /\ config'.version \in {config.version, CURRENT_BOARD_VERSION}
  PROVE  Owned'
  BY DEF Owned

(* The one creation under way ends. *)
LEMMA OwnedEnds ==
  ASSUME Owned, NEW a \in Handlers, Creating(a), ~Creating(a)', \A b \in Handlers : b # a => proc'[b] = proc[b]
  PROVE  Owned' /\ \A b \in Handlers : ~Creating(b)'
  BY DEF Owned, Creating

(* A handler of an edit or a refresh, or one that begins a removal, neither  *)
(* has a message of its own under way nor has deleted one.                   *)
LEMMA Aside ==
  ASSUME Typed, NEW a \in Handlers,
         \/ Remove(a)
         \/ \E roles \in SUBSET Roles : Edit(a, roles)
         \/ \E text \in Texts : FinishEdit(a, text)
         \/ EmbedEdited(a) \/ FormClosed(a)
         \/ \E chosen \in SUBSET Roles : Confirm(a, chosen)
         \/ LanguageChanged(a) \/ Refreshed(a)
  PROVE  /\ proc[a].at \notin {"posting", "posted", "removed"}
         /\ proc'[a].at \notin {"posting", "posted", "removed"}
         /\ \A b \in Handlers : b # a => proc'[b] = proc[b]
  <1>0. AtRest.at = "idle"
    BY DEF AtRest
  <1>1. proc[a].at \notin {"posting", "posted", "removed"}
    <2>1. proc[a] = AtRest \/ proc[a].at \in {"form", "mapping", "editing", "refreshing"}
      BY Zenon DEF Remove, Edit, FinishEdit, EmbedEdited, FormClosed, Confirm, LanguageChanged, Refreshed
    <2> QED
      BY <1>0, <2>1
  <1> DEFINE Goes == /\ proc'[a].at \notin {"posting", "posted", "removed"}
                     /\ \A b \in Handlers : b # a => proc'[b] = proc[b]
  <1> SUFFICES Goes
    BY <1>1
  <1>2. CASE Remove(a)
    BY <1>2, OthersStay DEF Remove
  <1>3. CASE FormClosed(a) \/ Refreshed(a)
    BY <1>3, OthersStay DEF FormClosed, Refreshed, AtRest
  <1>4. CASE \E roles \in SUBSET Roles : Edit(a, roles)
    BY <1>4, OthersStay DEF Edit
  <1>5. ASSUME NEW text \in Texts, FinishEdit(a, text)
        PROVE  Goes
    <2> DEFINE p == [at |-> "editing", message |-> config.message, text |-> text, unmapped |-> proc[a].unmapped]
    <2>1. Become(a, AtRest) \/ Become(a, ManualMapping(proc[a].unmapped)) \/ Become(a, p)
      BY <1>5 DEF FinishEdit
    <2>2. p.at = "editing"
      OBVIOUS
    <2> HIDE DEF p
    <2> QED
      BY <2>1, <2>2, OthersStay, ManualMappingIs
  <1>6. CASE EmbedEdited(a) \/ \E chosen \in SUBSET Roles : Confirm(a, chosen)
    <2>1. \E u : Become(a, ManualMapping(u))
      BY <1>6 DEF EmbedEdited, Confirm
    <2> QED
      BY <2>1, OthersStay, ManualMappingIs
  <1>7. CASE LanguageChanged(a)
    BY <1>7, OthersStay DEF LanguageChanged
  <1> QED
    BY <1>1, <1>2, <1>3, <1>4, <1>5, <1>6, <1>7

(* No removal, edit or refresh becomes a creation. *)
LEMMA NoCreation ==
  ASSUME Typed, NEW a \in Handlers,
         \/ Remove(a) \/ RemoveMessage(a) \/ RemoveRow(a)
         \/ \E roles \in SUBSET Roles : Edit(a, roles)
         \/ \E text \in Texts : FinishEdit(a, text)
         \/ EmbedEdited(a) \/ FormClosed(a)
         \/ \E chosen \in SUBSET Roles : Confirm(a, chosen)
         \/ LanguageChanged(a) \/ Refreshed(a)
  PROVE  /\ ~Creating(a)' /\ \A b \in Handlers : b # a => proc'[b] = proc[b]
         /\ \A b \in Handlers : Creating(b)' => Creating(b) /\ proc'[b] = proc[b]
  <1>1. CASE RemoveMessage(a)
    <2>1. proc[a] \in [at : {"removing", "removed"}, id : 1 .. created, message : 0 .. created]
      BY <1>1 DEF RemoveMessage, Typed, Holds
    <2>2. [proc[a] EXCEPT !.at = "removed"].at = "removed" /\ AtRest.at = "idle"
      BY <2>1 DEF AtRest
    <2>3. Become(a, [proc[a] EXCEPT !.at = "removed"]) \/ Become(a, AtRest)
      BY <1>1 DEF RemoveMessage
    <2> QED
      BY <2>2, <2>3, OthersStay DEF Creating
  <1>2. CASE RemoveRow(a)
    BY <1>2, OthersStay DEF RemoveRow, AtRest, Creating
  <1>3. ~Creating(a)' /\ \A b \in Handlers : b # a => proc'[b] = proc[b]
    BY <1>1, <1>2, Aside DEF Creating
  <1> QED
    BY <1>3 DEF Creating

LEMMA OwnStep ==
  ASSUME Typed, Owned, BoardNext, Without({"beside", "cut"})'
  PROVE  Owned'
  <1>1. ASSUME NEW a \in Handlers, NEW text \in Texts, NEW roles \in SUBSET Roles, FinishCreate(a, text, roles)
        PROVE  Owned'
    <2> DEFINE p == [at |-> "posting", id |-> created + 1, text |-> text, unmapped |-> Unmapped(roles)]
    <2>1. Become(a, p) /\ config = NoBoard /\ config' = Board(created + 1, text, CURRENT_BOARD_VERSION)
      BY <1>1 DEF FinishCreate
    <2>2. proc'[a] = p /\ p.id = created + 1 /\ \A b \in Handlers : b # a => proc'[b] = proc[b]
      BY <2>1, OthersStay
    <2>3. \A b \in Handlers : ~Creating(b)
      BY <2>1 DEF Owned
    <2>4. \A b \in Handlers : b # a => ~Creating(b)'
      BY <2>2, <2>3 DEF Creating
    <2>5. config'.id = created + 1 /\ config'.message = NoMessage /\ config'.version = CURRENT_BOARD_VERSION
      BY <2>1 DEF Board
    <2>6. config' # NoBoard
      BY <2>5, NoBoardIsNone, BoardAssumption DEF Typed
    <2> QED
      BY <2>2, <2>4, <2>5, <2>6 DEF Owned
  <1>2. ASSUME NEW a \in Handlers, PostBoard(a)
        PROVE  Owned'
    <2>1. proc[a] \in [at : {"posting", "posted"}, id : 1 .. created, text : Texts, unmapped : SUBSET Roles]
      BY <1>2 DEF PostBoard, Typed, Holds
    <2> DEFINE p == [proc[a] EXCEPT !.at = "posted"]
    <2>2. Become(a, p) /\ UNCHANGED config /\ p.id = proc[a].id /\ Creating(a)
      BY <1>2, <2>1 DEF PostBoard, Creating
    <2>3. proc'[a] = p /\ \A b \in Handlers : b # a => proc'[b] = proc[b]
      BY <2>2, OthersStay
    <2> QED
      BY <2>2, <2>3, OwnedKept DEF Creating
  <1>3. ASSUME NEW a \in Handlers, BoardPostFails(a) \/ SaveMessage(a) \/ MessageSaveFails(a)
        PROVE  Owned'
    <2>1. Creating(a) /\ (Become(a, AtRest) \/ Become(a, ManualMapping(proc[a].unmapped)))
      BY <1>3 DEF BoardPostFails, SaveMessage, MessageSaveFails, Creating
    <2>2. ~Creating(a)' /\ \A b \in Handlers : b # a => proc'[b] = proc[b]
      BY <2>1, OthersStay, ManualMappingIs DEF Creating
    <2> QED
      BY <2>1, <2>2, OwnedEnds
  <1>4. ASSUME NEW a \in Handlers, Remove(a) \/ RemoveMessage(a)
        PROVE  Owned'
    <2>1. \A b \in Handlers : Creating(b)' => Creating(b) /\ proc'[b].id = proc[b].id
      BY <1>4, NoCreation
    <2> QED
      BY <1>4, <2>1, OwnedKept DEF Remove, RemoveMessage
  <1>5. ASSUME NEW a \in Handlers, RemoveRow(a)
        PROVE  Owned'
    <2>1. ~Beside(a)
      BY <1>5 DEF RemoveRow, Met, If, Without
    <2>2. \A b \in Handlers : ~Creating(b)
      BY <2>1 DEF Beside
    <2>3. \A b \in Handlers : ~Creating(b)'
      BY <1>5, <2>2, NoCreation
    <2> QED
      BY <2>3 DEF Owned
  <1>6. CASE Editing
    <2> SUFFICES ASSUME NEW a \in Handlers,
                        \/ \E roles \in SUBSET Roles : Edit(a, roles)
                        \/ \E text \in Texts : FinishEdit(a, text)
                        \/ EmbedEdited(a) \/ FormClosed(a)
                        \/ \E chosen \in SUBSET Roles : Confirm(a, chosen)
                        \/ LanguageChanged(a) \/ Refreshed(a)
                 PROVE  Owned'
      BY <1>6 DEF Editing
    <2>2. \A b \in Handlers : Creating(b)' => Creating(b) /\ proc'[b].id = proc[b].id
      BY NoCreation
    <2>3. ASSUME NEW text \in Texts, FinishEdit(a, text), config # NoBoard
          PROVE  /\ config' # NoBoard /\ config'.id = config.id /\ config'.message = config.message
                 /\ config'.version = config.version
      BY <2>3, NoBoardIsNone DEF FinishEdit, Typed, Rows
    <2>4. ASSUME NEW text \in Texts, FinishEdit(a, text)
          PROVE  Owned'
      BY <2>2, <2>3, <2>4, OwnedKept
    <2>5. CASE UNCHANGED config
      BY <2>2, <2>5, OwnedKept
    <2> QED
      BY <2>4, <2>5 DEF Edit, EmbedEdited, FormClosed, Confirm, LanguageChanged, Refreshed
  <1>7. CASE Migration
    <2>1. UNCHANGED proc /\ (UNCHANGED config \/ Bump)
      BY <1>7 DEF Migration, MigrateBoards, FetchBoard, EditBoard, BoardInaccessible, MigrationPutOff
    <2>2. \A b \in Handlers : Creating(b)' => Creating(b) /\ proc'[b].id = proc[b].id
      BY <2>1 DEF Creating
    <2>3. Bump => \/ config' = config
                  \/ config # NoBoard => /\ config' # NoBoard /\ config'.id = config.id /\ config'.message = config.message
                                         /\ config'.version \in {config.version, CURRENT_BOARD_VERSION}
      BY BumpType DEF Typed, Rows
    <2> QED
      BY <2>1, <2>2, <2>3, OwnedKept
  <1>8. CASE Outside
    <2>1. CASE BoardRestart
      BY <2>1 DEF BoardRestart, AtRest, Owned, Creating
    <2>2. CASE UNCHANGED <<config, proc>>
      BY <2>2, OwnedKept DEF Creating
    <2> QED
      BY <1>8, <2>1, <2>2 DEF Outside, WebCreateMapping, WebDeleteMapping, DeletedByHand
  <1> QED
    BY <1>1, <1>2, <1>3, <1>4, <1>5, <1>6, <1>7, <1>8 DEF BoardNext, Creation, Removal

-----------------------------------------------------------------------------
(* Where the messages and the board are, while no mishap has come between.   *)

(* A message in the channel is the board's, or its creation has yet to save it. *)
Accounted ==
  \A m \in DOMAIN standing :
    \/ config # NoBoard /\ config.message = m
    \/ \E a \in Handlers : proc[a].at = "posted" /\ proc[a].id = m

(* A board without a message in the channel is being created or removed. *)
Tended ==
  config # NoBoard =>
    \/ config.message = NoMessage /\ \E a \in Handlers : Creating(a)
    \/ config.message \in DOMAIN standing
    \/ \E a \in Handlers : proc[a].at = "removed" /\ proc[a].message = config.message

BoardPosted == \A a \in Handlers : proc[a].at = "posted" => proc[a].id \in DOMAIN standing

BoardGone == \A a \in Handlers : proc[a].at = "removed" => proc[a].message \notin DOMAIN standing

Stood == Accounted /\ Tended /\ BoardPosted /\ BoardGone

Kept == Without({"beside", "cut", "refused", "deleted"}) => Stood

(* Messages are rewritten, descriptions saved and versions raised, and the   *)
(* creations and removals under way are where they were.                     *)
LEMMA StoodKept ==
  ASSUME Stood, DOMAIN standing' = DOMAIN standing,
         config' = NoBoard <=> config = NoBoard,
         config # NoBoard => config'.message = config.message,
         \A b \in Handlers : \/ proc'[b] = proc[b]
                             \/ /\ proc[b].at \notin {"posting", "posted", "removed"}
                                /\ proc'[b].at \notin {"posting", "posted", "removed"}
  PROVE  Stood'
  <1>1. Accounted'
    BY DEF Stood, Accounted
  <1>2. Tended'
    BY DEF Stood, Tended, Creating
  <1>3. BoardPosted' /\ BoardGone'
    BY DEF Stood, BoardPosted, BoardGone
  <1> QED
    BY <1>1, <1>2, <1>3 DEF Stood

(* With no creation and no removal under way there is nothing to tend. *)
LEMMA EmptyStood ==
  ASSUME DOMAIN standing' = {}, \A a \in Handlers : ~Creating(a)', config' = NoBoard
  PROVE  Stood'
  BY DEF Stood, Accounted, Tended, BoardPosted, BoardGone, Creating

(* The guild's one creation has the only message there may be. *)
LEMMA CreatorsMessage ==
  ASSUME Typed, Owned, Accounted, NEW a \in Handlers, Creating(a)
  PROVE  \A m \in DOMAIN standing : proc[a].at = "posted" /\ proc[a].id = m
  <1> SUFFICES ASSUME NEW m \in DOMAIN standing
               PROVE  proc[a].at = "posted" /\ proc[a].id = m
    OBVIOUS
  <1>1. m \in 1 .. created /\ created \in Nat
    BY BoardAssumption DEF Typed, Channel
  <1>2. config.message = 0 /\ \A b \in Handlers : Creating(b) => b = a
    BY DEF Owned, NoMessage
  <1>3. PICK b \in Handlers : proc[b].at = "posted" /\ proc[b].id = m
    BY <1>1, <1>2 DEF Accounted
  <1> QED
    BY <1>2, <1>3 DEF Creating

LEMMA StoodCreate ==
  ASSUME Typed, Fresh, Owned, Stood, Creation, Without({"beside", "cut", "refused", "deleted"})'
  PROVE  Stood'
  <1>1. ASSUME NEW a \in Handlers, NEW text \in Texts, NEW roles \in SUBSET Roles, FinishCreate(a, text, roles)
        PROVE  Stood'
    <2> DEFINE p == [at |-> "posting", id |-> created + 1, text |-> text, unmapped |-> Unmapped(roles)]
    <2>1. Become(a, p) /\ config = NoBoard /\ config' = Board(created + 1, text, CURRENT_BOARD_VERSION) /\ UNCHANGED standing
      BY <1>1 DEF FinishCreate
    <2>2. proc'[a] = p /\ p.at = "posting" /\ \A b \in Handlers : b # a => proc'[b] = proc[b]
      BY <2>1, OthersStay
    <2> HIDE DEF p
    <2>3. \A b \in Handlers : ~Creating(b)
      BY <2>1 DEF Owned
    <2>4. DOMAIN standing = {}
      BY <2>1, <2>3 DEF Stood, Accounted, Creating
    <2>5. config'.message = NoMessage /\ Creating(a)'
      BY <2>1, <2>2 DEF Board, Creating
    <2>6. \A b \in Handlers : proc'[b].at # "posted"
      BY <2>2, <2>3 DEF Creating
    <2> QED
      BY <2>1, <2>4, <2>5, <2>6 DEF Stood, Accounted, Tended, BoardPosted, BoardGone
  <1>2. ASSUME NEW a \in Handlers, PostBoard(a)
        PROVE  Stood'
    <2>1. proc[a] \in [at : {"posting", "posted"}, id : 1 .. created, text : Texts, unmapped : SUBSET Roles]
      BY <1>2 DEF PostBoard, Typed, Holds
    <2> DEFINE p == [proc[a] EXCEPT !.at = "posted"]
    <2>2. /\ Become(a, p) /\ UNCHANGED config /\ p.id = proc[a].id /\ p.at = "posted" /\ proc[a].at = "posting" /\ Creating(a)
          /\ PutUp(proc[a].id, Shows(proc[a].text))
      BY <1>2, <2>1 DEF PostBoard, Creating
    <2>3. proc'[a] = p /\ \A b \in Handlers : b # a => proc'[b] = proc[b]
      BY <2>2, OthersStay
    <2>4. DOMAIN standing' = DOMAIN standing \cup {proc[a].id}
      BY <2>2, ShowAdds
    <2> HIDE DEF p
    <2>5. Accounted'
      BY <2>2, <2>3, <2>4 DEF Stood, Accounted
    <2>6. Tended'
      BY <2>2, <2>3, <2>4 DEF Stood, Tended, Creating
    <2>7. BoardPosted'
      BY <2>2, <2>3, <2>4 DEF Stood, BoardPosted
    <2>8. \A b \in Handlers : proc[b].at = "removed" => proc[b].message # proc[a].id
      BY <2>2 DEF Fresh, Holding
    <2>9. BoardGone'
      BY <2>2, <2>3, <2>4, <2>8 DEF Stood, BoardGone
    <2> QED
      BY <2>5, <2>6, <2>7, <2>9 DEF Stood
  <1>3. ASSUME NEW a \in Handlers, BoardPostFails(a)
        PROVE  Stood'
    <2>1. proc[a].at = "posting" /\ Creating(a) /\ Become(a, AtRest) /\ config' = NoBoard /\ UNCHANGED standing
      BY <1>3 DEF BoardPostFails, Creating, DeleteByGuild
    <2>2. DOMAIN standing' = {}
      BY <2>1, CreatorsMessage DEF Stood
    <2>3. ~Creating(a)' /\ \A b \in Handlers : b # a => proc'[b] = proc[b]
      BY <2>1, OthersStay, ManualMappingIs DEF Creating
    <2> QED
      BY <2>1, <2>2, <2>3, OwnedEnds, EmptyStood
  <1>4. ASSUME NEW a \in Handlers, SaveMessage(a)
        PROVE  Stood'
    <2>1. proc[a].at = "posted" /\ Creating(a) /\ Become(a, ManualMapping(proc[a].unmapped)) /\ UNCHANGED standing
      BY <1>4 DEF SaveMessage, Creating
    <2>2. config # NoBoard /\ config' = [config EXCEPT !.message = proc[a].id]
      BY <1>4, <2>1 DEF SaveMessage, Owned
    <2>3. config' # NoBoard /\ config'.message = proc[a].id
      BY <2>2, NoBoardIsNone DEF Typed, Rows
    <2>4. proc'[a].at \in {"idle", "mapping"} /\ \A b \in Handlers : b # a => proc'[b] = proc[b]
      BY <2>1, OthersStay, ManualMappingIs
    <2>5. \A b \in Handlers : proc'[b].at # "posted"
      BY <2>1, <2>4 DEF Owned, Creating
    <2>6. \A m \in DOMAIN standing : m = proc[a].id
      BY <2>1, CreatorsMessage DEF Stood
    <2>7. proc[a].id \in DOMAIN standing
      BY <2>1 DEF Stood, BoardPosted
    <2>8. BoardGone'
      BY <2>1, <2>4 DEF Stood, BoardGone
    <2> QED
      BY <2>1, <2>3, <2>5, <2>6, <2>7, <2>8 DEF Stood, Accounted, Tended, BoardPosted
  <1>5. ASSUME NEW a \in Handlers, MessageSaveFails(a)
        PROVE  Stood'
    <2>1. proc[a].at = "posted" /\ Creating(a) /\ Become(a, AtRest) /\ config' = NoBoard
      BY <1>5 DEF MessageSaveFails, Creating, DeleteByGuild
    <2>2. TakeDown(proc[a].id)
      BY <1>5 DEF MessageSaveFails, Met, Without
    <2>3. DOMAIN standing' = DOMAIN standing \ {proc[a].id}
      BY <2>2, DropLeaves
    <2>4. DOMAIN standing' = {}
      BY <2>1, <2>3, CreatorsMessage DEF Stood
    <2>5. ~Creating(a)' /\ \A b \in Handlers : b # a => proc'[b] = proc[b]
      BY <2>1, OthersStay, ManualMappingIs DEF Creating
    <2> QED
      BY <2>1, <2>4, <2>5, OwnedEnds, EmptyStood
  <1> QED
    BY <1>1, <1>2, <1>3, <1>4, <1>5 DEF Creation

LEMMA StoodRemoval ==
  ASSUME Typed, Fresh, Owned, Stood, Removal, Without({"beside", "cut", "refused", "deleted"})'
  PROVE  Stood'
  <1>1. ASSUME NEW a \in Handlers, Remove(a)
        PROVE  Stood'
    BY <1>1, Aside, StoodKept DEF Remove
  <1>2. ASSUME NEW a \in Handlers, RemoveMessage(a)
        PROVE  Stood'
    <2>1. proc[a] \in [at : {"removing", "removed"}, id : 1 .. created, message : 0 .. created]
      BY <1>2 DEF RemoveMessage, Typed, Holds
    <2> DEFINE p == [proc[a] EXCEPT !.at = "removed"]
    <2>2. p.at = "removed" /\ p.message = proc[a].message /\ proc[a].at = "removing" /\ UNCHANGED config
      BY <1>2, <2>1 DEF RemoveMessage
    <2>3. (TakeDown(proc[a].message) /\ Become(a, p)) \/ (Become(a, AtRest) /\ UNCHANGED standing)
      BY <1>2 DEF RemoveMessage, Met, Without
    <2> HIDE DEF p
    <2>4. CASE Become(a, AtRest) /\ UNCHANGED standing
      <3>1. proc'[a].at = "idle" /\ \A b \in Handlers : b # a => proc'[b] = proc[b]
        BY <2>4, OthersStay, ManualMappingIs
      <3> QED
        BY <2>2, <2>4, <3>1, StoodKept
    <2>5. CASE TakeDown(proc[a].message) /\ Become(a, p)
      <3>1. proc'[a] = p /\ \A b \in Handlers : b # a => proc'[b] = proc[b]
        BY <2>5, OthersStay
      <3>2. DOMAIN standing' = DOMAIN standing \ {proc[a].message}
        BY <2>5, DropLeaves
      <3>3. Accounted'
        BY <2>2, <3>1, <3>2 DEF Stood, Accounted
      <3>4. Tended'
        BY <2>2, <3>1, <3>2 DEF Stood, Tended, Creating
      <3>5. \A b \in Handlers : proc[b].at = "posted" => proc[b].id # proc[a].message
        BY <2>2 DEF Fresh, Holding, Creating
      <3>6. BoardPosted'
        BY <2>2, <3>1, <3>2, <3>5 DEF Stood, BoardPosted
      <3>7. BoardGone'
        BY <2>2, <3>1, <3>2 DEF Stood, BoardGone
      <3> QED
        BY <3>3, <3>4, <3>6, <3>7 DEF Stood
    <2> QED
      BY <2>3, <2>4, <2>5
  <1>3. ASSUME NEW a \in Handlers, RemoveRow(a)
        PROVE  Stood'
    <2>1. proc[a].at = "removed" /\ config' = NoBoard /\ UNCHANGED standing
      BY <1>3 DEF RemoveRow, DeleteByGuild
    <2>2. ~Beside(a)
      BY <1>3 DEF RemoveRow, Met, If, Without
    <2>3. /\ \A b \in Handlers : ~Creating(b)
          /\ config # NoBoard => config.message = proc[a].message
      BY <2>2 DEF Beside
    <2>4. DOMAIN standing = {}
      BY <2>1, <2>3 DEF Stood, Accounted, BoardGone, Creating
    <2>5. \A b \in Handlers : ~Creating(b)'
      BY <1>3, <2>3, NoCreation
    <2> QED
      BY <2>1, <2>4, <2>5, EmptyStood
  <1> QED
    BY <1>1, <1>2, <1>3 DEF Removal

LEMMA StoodStep ==
  ASSUME Typed, Fresh, Owned, Stood, BoardNext, Without({"beside", "cut", "refused", "deleted"})'
  PROVE  Stood'
  <1>1. CASE Editing
    <2> SUFFICES ASSUME NEW a \in Handlers,
                        \/ \E roles \in SUBSET Roles : Edit(a, roles)
                        \/ \E text \in Texts : FinishEdit(a, text)
                        \/ EmbedEdited(a) \/ FormClosed(a)
                        \/ \E chosen \in SUBSET Roles : Confirm(a, chosen)
                        \/ LanguageChanged(a) \/ Refreshed(a)
                 PROVE  Stood'
      BY <1>1 DEF Editing
    <2>1. \A b \in Handlers : \/ proc'[b] = proc[b]
                              \/ /\ proc[b].at \notin {"posting", "posted", "removed"}
                                 /\ proc'[b].at \notin {"posting", "posted", "removed"}
      BY Aside
    <2>2. ASSUME NEW text \in Texts, FinishEdit(a, text)
          PROVE  /\ config' = NoBoard <=> config = NoBoard
                 /\ config # NoBoard => config'.message = config.message
                 /\ UNCHANGED standing
      <3>1. config # NoBoard => config'.message = config.message /\ config'.id = config.id /\ config.id # 0
        BY <2>2, NoBoardIsNone DEF FinishEdit, Typed, Rows
      <3> QED
        BY <2>2, <3>1, NoBoardIsNone DEF FinishEdit
    <2>3. CASE EmbedEdited(a) \/ Refreshed(a)
      <3>1. \/ standing' = standing
            \/ proc[a].message \in DOMAIN standing /\ PutUp(proc[a].message, Shows(proc[a].text))
        BY <2>3 DEF EmbedEdited, Refreshed
      <3>2. DOMAIN standing' = DOMAIN standing
        <4>1. CASE proc[a].message \in DOMAIN standing /\ PutUp(proc[a].message, Shows(proc[a].text))
          BY <4>1, RewriteKeeps
        <4> QED
          BY <3>1, <4>1
      <3> QED
        BY <2>1, <2>3, <3>2, StoodKept DEF EmbedEdited, Refreshed
    <2>4. CASE UNCHANGED <<config, standing>>
      BY <2>1, <2>4, StoodKept
    <2> QED
      BY <2>1, <2>2, <2>3, <2>4, StoodKept DEF Edit, FormClosed, Confirm, LanguageChanged
  <1>2. CASE Migration
    <2>1. UNCHANGED proc /\ (UNCHANGED config \/ Bump)
      BY <1>2 DEF Migration, MigrateBoards, FetchBoard, EditBoard, BoardInaccessible, MigrationPutOff
    <2>2. DOMAIN standing' = DOMAIN standing
      <3>1. \/ standing' = standing
            \/ migration.message \in DOMAIN standing /\ PutUp(migration.message, Shows(migration.text))
        BY <1>2 DEF Migration, MigrateBoards, FetchBoard, EditBoard, BoardInaccessible, MigrationPutOff
      <3>2. CASE migration.message \in DOMAIN standing /\ PutUp(migration.message, Shows(migration.text))
        BY <3>2, RewriteKeeps
      <3> QED
        BY <3>1, <3>2
    <2> QED
      BY <2>1, <2>2, BumpType, StoodKept
  <1>3. CASE Outside
    <2>1. CASE BoardRestart
      <3>1. "cut" \notin met'
        BY DEF Without
      <3>2. \A a \in Handlers : ~Creating(a) /\ proc[a].at # "removed"
        BY <2>1, <3>1 DEF BoardRestart, Met, If
      <3>3. \A a \in Handlers : ~Creating(a)' /\ proc'[a].at = "idle"
        BY <2>1 DEF BoardRestart, AtRest, Creating
      <3>4. UNCHANGED <<config, standing>>
        BY <2>1 DEF BoardRestart
      <3> QED
        BY <3>2, <3>3, <3>4, StoodKept DEF Creating
    <2>2. ASSUME NEW m \in DOMAIN standing, DeletedByHand(m)
          PROVE  FALSE
      BY <2>2 DEF DeletedByHand, Met, Without
    <2>3. CASE UNCHANGED <<config, standing, proc>>
      BY <2>3, StoodKept
    <2> QED
      BY <1>3, <2>1, <2>2, <2>3 DEF Outside, WebCreateMapping, WebDeleteMapping
  <1> QED
    BY <1>1, <1>2, <1>3, StoodCreate, StoodRemoval DEF BoardNext

-----------------------------------------------------------------------------
(* What the board's message shows, while no mishap has come between.         *)

(* The saved description, or an edit is about to write it. *)
Written ==
  (config # NoBoard /\ config.message \in DOMAIN standing) =>
    \/ standing[config.message].text = config.text
    \/ \E a \in Handlers : proc[a].at = "editing" /\ proc[a].message = config.message

Housed ==
  (config # NoBoard /\ config.message \in DOMAIN standing /\ config.version = CURRENT_BOARD_VERSION) =>
    standing[config.message].housing

(* Nothing but the saved description is on its way to the board's message. *)
Current ==
  config # NoBoard =>
    \A a \in Handlers :
      /\ Creating(a) => proc[a].text = config.text
      /\ (proc[a].at \in {"editing", "refreshing"} /\ proc[a].message = config.message) =>
           proc[a].text = config.text

AsPosted ==
  \A a \in Handlers :
    (proc[a].at = "posted" /\ proc[a].id \in DOMAIN standing) => standing[proc[a].id] = Shows(proc[a].text)

(* Nor from the migration, whose board, if it is still there, is the one it read. *)
Rewriting ==
  (config # NoBoard /\ Migrating) =>
    /\ config.id = migration.id => config.message = migration.message
    /\ (migration.at = "fetched" /\ config.message = migration.message) => migration.text = config.text

Faithful == Written /\ Housed /\ Current /\ AsPosted /\ Rewriting

BoardShown == Without({"beside", "cut", "refused", "unedited", "crossed"}) => Faithful

(* Messages may go, and handlers that write nothing may move. *)
LEMMA FaithfulKept ==
  ASSUME Faithful, UNCHANGED config, Migrating' => UNCHANGED migration,
         DOMAIN standing' \subseteq DOMAIN standing, \A m \in DOMAIN standing' : standing'[m] = standing[m],
         \A b \in Handlers : \/ proc'[b] = proc[b]
                             \/ /\ proc[b].at \notin {"posting", "posted", "editing", "refreshing"}
                                /\ proc'[b].at \notin {"posting", "posted", "editing", "refreshing"}
  PROVE  Faithful'
  <1>1. Written'
    BY DEF Faithful, Written
  <1>2. Housed'
    BY DEF Faithful, Housed
  <1>3. Current'
    BY DEF Faithful, Current, Creating
  <1>4. AsPosted'
    BY DEF Faithful, AsPosted
  <1>5. Rewriting'
    BY DEF Faithful, Rewriting, Migrating
  <1> QED
    BY <1>1, <1>2, <1>3, <1>4, <1>5 DEF Faithful

LEMMA NoBoardFaithful ==
  ASSUME config' = NoBoard, AsPosted'
  PROVE  Faithful'
  BY DEF Faithful, Written, Housed, Current, Rewriting

LEMMA FaithfulCreate ==
  ASSUME Typed, Fresh, Owned, Faithful, Creation
  PROVE  Faithful'
  <1>1. ASSUME NEW a \in Handlers, NEW text \in Texts, NEW roles \in SUBSET Roles, FinishCreate(a, text, roles)
        PROVE  Faithful'
    <2> DEFINE n == created + 1
               p == [at |-> "posting", id |-> n, text |-> text, unmapped |-> Unmapped(roles)]
    <2>1. /\ Become(a, p) /\ config = NoBoard /\ config' = Board(n, text, CURRENT_BOARD_VERSION)
          /\ UNCHANGED <<standing, migration>>
      BY <1>1 DEF FinishCreate
    <2>2. proc'[a] = p /\ p.at = "posting" /\ p.text = text /\ \A b \in Handlers : b # a => proc'[b] = proc[b]
      BY <2>1, OthersStay
    <2>3. created \in Nat /\ n \notin 0 .. created /\ 0 \notin 1 .. created
      BY BoardAssumption DEF Typed
    <2> HIDE DEF n, p
    <2>4. \A b \in Handlers : ~Creating(b)
      BY <2>1 DEF Owned
    <2>5. config'.id = n /\ config'.message = 0 /\ config'.text = text
      BY <2>1 DEF Board, NoMessage
    <2>6. \A b \in Handlers : proc'[b].at # "posted"
      BY <2>2, <2>4 DEF Creating
    <2>7. 0 \notin DOMAIN standing'
      BY <2>1, <2>3 DEF Typed, Channel
    <2>8. Written' /\ Housed'
      BY <2>5, <2>7 DEF Written, Housed
    <2>9. Current'
      <3>1. \A b \in Handlers : proc[b].at \in {"editing", "refreshing"} => proc[b].message # 0
        BY <2>3 DEF Typed, Holds
      <3>2. \A b \in Handlers : Creating(b)' => b = a
        BY <2>2, <2>4 DEF Creating
      <3> QED
        BY <2>2, <2>5, <3>1, <3>2 DEF Current
    <2>10. Rewriting'
      <3>1. Migrating => migration.id # n
        BY <2>3 DEF Typed
      <3>2. migration.at = "fetched" => migration.message # 0
        BY DEF Typed, NoMessage
      <3> QED
        BY <2>1, <2>5, <3>1, <3>2 DEF Rewriting, Migrating
    <2> QED
      BY <2>6, <2>8, <2>9, <2>10 DEF Faithful, AsPosted
  <1>2. ASSUME NEW a \in Handlers, PostBoard(a)
        PROVE  Faithful'
    <2>1. proc[a] \in [at : {"posting", "posted"}, id : 1 .. created, text : Texts, unmapped : SUBSET Roles]
      BY <1>2 DEF PostBoard, Typed, Holds
    <2> DEFINE p == [proc[a] EXCEPT !.at = "posted"]
    <2>2. /\ Become(a, p) /\ UNCHANGED <<config, migration>> /\ p.id = proc[a].id /\ p.text = proc[a].text /\ p.at = "posted"
          /\ proc[a].at = "posting" /\ Creating(a) /\ PutUp(proc[a].id, Shows(proc[a].text))
      BY <1>2, <2>1 DEF PostBoard, Creating
    <2>3. proc'[a] = p /\ \A b \in Handlers : b # a => proc'[b] = proc[b]
      BY <2>2, OthersStay
    <2>4. /\ DOMAIN standing' = DOMAIN standing \cup {proc[a].id} /\ standing'[proc[a].id] = Shows(proc[a].text)
          /\ \A k \in DOMAIN standing : k # proc[a].id => standing'[k] = standing[k]
      BY <2>2, ShowAdds
    <2> HIDE DEF p
    <2>5. config # NoBoard => config.message # proc[a].id
      BY <2>2 DEF Fresh
    <2>6. Written'
      BY <2>2, <2>3, <2>4, <2>5 DEF Faithful, Written
    <2>7. Housed'
      BY <2>2, <2>4, <2>5 DEF Faithful, Housed
    <2>8. Current'
      BY <2>2, <2>3 DEF Faithful, Current, Creating
    <2>9. \A b \in Handlers : b # a => proc[b].at # "posted"
      BY <2>2 DEF Owned, Creating
    <2>10. AsPosted'
      BY <2>2, <2>3, <2>4, <2>9 DEF AsPosted
    <2>11. Rewriting'
      BY <2>2 DEF Faithful, Rewriting, Migrating
    <2> QED
      BY <2>6, <2>7, <2>8, <2>10, <2>11 DEF Faithful
  <1>3. ASSUME NEW a \in Handlers, BoardPostFails(a) \/ MessageSaveFails(a)
        PROVE  Faithful'
    <2>1. Creating(a) /\ Become(a, AtRest) /\ config' = NoBoard
      BY <1>3 DEF BoardPostFails, MessageSaveFails, Creating, DeleteByGuild
    <2>2. ~Creating(a)' /\ \A b \in Handlers : b # a => proc'[b] = proc[b]
      BY <2>1, OthersStay, ManualMappingIs DEF Creating
    <2>3. AsPosted'
      BY <2>1, <2>2, OwnedEnds DEF AsPosted, Creating
    <2> QED
      BY <2>1, <2>3, NoBoardFaithful
  <1>4. ASSUME NEW a \in Handlers, SaveMessage(a)
        PROVE  Faithful'
    <2>1. /\ proc[a].at = "posted" /\ Creating(a) /\ Become(a, ManualMapping(proc[a].unmapped))
          /\ UNCHANGED <<standing, migration>>
      BY <1>4 DEF SaveMessage, Creating
    <2>2. config # NoBoard /\ config' = [config EXCEPT !.message = proc[a].id] /\ config.id = proc[a].id
      BY <1>4, <2>1 DEF SaveMessage, Owned
    <2>3. config'.message = proc[a].id /\ config'.text = config.text /\ config'.id = config.id
      BY <2>2, NoBoardIsNone DEF Typed, Rows
    <2>4. proc'[a].at \in {"idle", "mapping"} /\ \A b \in Handlers : b # a => proc'[b] = proc[b]
      BY <2>1, OthersStay, ManualMappingIs
    <2>5. \A b \in Handlers : ~Creating(b)'
      BY <2>1, <2>4, OwnedEnds DEF Creating
    <2>6. proc[a].id \in DOMAIN standing => standing[proc[a].id].text = config.text /\ standing[proc[a].id].housing
      <3>1. proc[a].text = config.text
        BY <2>1, <2>2 DEF Faithful, Current
      <3>2. proc[a].id \in DOMAIN standing => standing[proc[a].id] = Shows(config.text)
        BY <2>1, <3>1 DEF Faithful, AsPosted
      <3> QED
        BY <3>2 DEF Shows
    <2>7. Written' /\ Housed'
      BY <2>1, <2>3, <2>6 DEF Written, Housed
    <2>8. \A b \in Handlers : proc[b].at \in {"editing", "refreshing"} => proc[b].message # proc[a].id
      BY <2>1 DEF Fresh, Holding
    <2>9. Current'
      BY <2>3, <2>4, <2>5, <2>8 DEF Current
    <2>10. Migrating => migration.message # proc[a].id /\ migration.id # proc[a].id
      BY <2>1 DEF Fresh
    <2>11. Rewriting'
      BY <2>1, <2>2, <2>3, <2>10 DEF Rewriting, Migrating
    <2> QED
      BY <2>5, <2>7, <2>9, <2>11 DEF Faithful, AsPosted, Creating
  <1> QED
    BY <1>1, <1>2, <1>3, <1>4 DEF Creation

LEMMA FaithfulRemoval ==
  ASSUME Typed, Faithful, Removal
  PROVE  Faithful'
  <1>1. ASSUME NEW a \in Handlers, Remove(a)
        PROVE  Faithful'
    <2> DEFINE p == [at |-> "removing", id |-> config.id, message |-> config.message]
    <2>1. Become(a, p) /\ p.at = "removing" /\ proc[a].at = "idle" /\ UNCHANGED <<config, standing, migration>>
      BY <1>1 DEF Remove, AtRest
    <2> HIDE DEF p
    <2>2. proc'[a].at = "removing" /\ \A b \in Handlers : b # a => proc'[b] = proc[b]
      BY <2>1, OthersStay
    <2> QED
      BY <2>1, <2>2, FaithfulKept
  <1>2. ASSUME NEW a \in Handlers, RemoveMessage(a)
        PROVE  Faithful'
    <2>1. proc[a] \in [at : {"removing", "removed"}, id : 1 .. created, message : 0 .. created]
      BY <1>2 DEF RemoveMessage, Typed, Holds
    <2> DEFINE p == [proc[a] EXCEPT !.at = "removed"]
    <2>2. p.at = "removed" /\ proc[a].at = "removing" /\ UNCHANGED <<config, migration>>
      BY <1>2, <2>1 DEF RemoveMessage
    <2>3. Become(a, p) \/ Become(a, AtRest)
      BY <1>2 DEF RemoveMessage
    <2> HIDE DEF p
    <2>4. proc'[a].at \in {"removed", "idle"} /\ \A b \in Handlers : b # a => proc'[b] = proc[b]
      BY <2>2, <2>3, OthersStay, ManualMappingIs
    <2>5. TakeDown(proc[a].message) \/ standing' = standing
      BY <1>2 DEF RemoveMessage
    <2>6. DOMAIN standing' \subseteq DOMAIN standing /\ \A m \in DOMAIN standing' : standing'[m] = standing[m]
      BY <2>5, DropLeaves
    <2> QED
      BY <2>2, <2>4, <2>6, FaithfulKept
  <1>3. ASSUME NEW a \in Handlers, RemoveRow(a)
        PROVE  Faithful'
    <2>1. Become(a, AtRest) /\ config' = NoBoard /\ UNCHANGED standing
      BY <1>3 DEF RemoveRow, DeleteByGuild
    <2>2. proc'[a].at = "idle" /\ \A b \in Handlers : b # a => proc'[b] = proc[b]
      BY <2>1, OthersStay, ManualMappingIs
    <2>3. AsPosted'
      BY <2>1, <2>2 DEF Faithful, AsPosted
    <2> QED
      BY <2>1, <2>3, NoBoardFaithful
  <1> QED
    BY <1>1, <1>2, <1>3 DEF Removal

(* A message is rewritten, or there is nothing to rewrite it for. *)
LEMMA FaithfulRewrite ==
  ASSUME Typed, Fresh, Faithful, NEW a \in Handlers, proc[a].at \in {"editing", "refreshing"},
         proc'[a].at \in {"idle", "mapping"}, \A b \in Handlers : b # a => proc'[b] = proc[b],
         UNCHANGED <<config, migration>>,
         \/ proc[a].message \in DOMAIN standing /\ PutUp(proc[a].message, Shows(proc[a].text))
         \/ standing' = standing /\ (proc[a].at = "editing" => proc[a].message \notin DOMAIN standing)
  PROVE  Faithful'
  <1>1. Current'
    BY DEF Faithful, Current, Creating
  <1>2. Rewriting'
    BY DEF Faithful, Rewriting, Migrating
  <1>3. CASE proc[a].message \in DOMAIN standing /\ PutUp(proc[a].message, Shows(proc[a].text))
    <2>1. /\ DOMAIN standing' = DOMAIN standing
          /\ standing'[proc[a].message].text = proc[a].text /\ standing'[proc[a].message].housing
          /\ \A k \in DOMAIN standing : k # proc[a].message => standing'[k] = standing[k]
      <3>1. /\ DOMAIN standing' = DOMAIN standing \cup {proc[a].message}
            /\ standing'[proc[a].message] = Shows(proc[a].text)
            /\ \A k \in DOMAIN standing : k # proc[a].message => standing'[k] = standing[k]
        BY <1>3, ShowAdds
      <3>2. Shows(proc[a].text).text = proc[a].text /\ Shows(proc[a].text).housing
        BY DEF Shows
      <3> QED
        BY <1>3, <3>1, <3>2
    <2>2. (config # NoBoard /\ config.message = proc[a].message) => proc[a].text = config.text
      BY DEF Faithful, Current
    <2>3. Written'
      BY <2>1, <2>2 DEF Faithful, Written
    <2>4. Housed'
      BY <2>1 DEF Faithful, Housed
    <2>5. \A b \in Handlers : proc[b].at = "posted" => proc[b].id # proc[a].message
      BY DEF Fresh, Holding, Creating
    <2>6. AsPosted'
      BY <2>1, <2>5 DEF Faithful, AsPosted
    <2> QED
      BY <1>1, <1>2, <2>3, <2>4, <2>6 DEF Faithful
  <1>4. CASE standing' = standing /\ (proc[a].at = "editing" => proc[a].message \notin DOMAIN standing)
    <2>1. Written'
      BY <1>4 DEF Faithful, Written
    <2>2. Housed'
      BY <1>4 DEF Faithful, Housed
    <2>3. AsPosted'
      BY <1>4 DEF Faithful, AsPosted
    <2> QED
      BY <1>1, <1>2, <2>1, <2>2, <2>3 DEF Faithful
  <1> QED
    BY <1>3, <1>4

LEMMA FaithfulEditing ==
  ASSUME Typed, Fresh, Faithful, Editing, Without({"unedited", "crossed"})'
  PROVE  Faithful'
  <1> SUFFICES ASSUME NEW a \in Handlers,
                      \/ \E roles \in SUBSET Roles : Edit(a, roles)
                      \/ \E text \in Texts : FinishEdit(a, text)
                      \/ EmbedEdited(a) \/ FormClosed(a)
                      \/ \E chosen \in SUBSET Roles : Confirm(a, chosen)
                      \/ LanguageChanged(a) \/ Refreshed(a)
               PROVE  Faithful'
    BY DEF Editing
  <1>0. AtRest.at = "idle"
    BY DEF AtRest
  <1>1. ASSUME NEW roles \in SUBSET Roles, Edit(a, roles)
        PROVE  Faithful'
    <2>1. proc'[a].at = "form" /\ \A b \in Handlers : b # a => proc'[b] = proc[b]
      BY <1>1, OthersStay DEF Edit
    <2>2. proc[a].at = "idle" /\ UNCHANGED <<config, standing, migration>>
      BY <1>0, <1>1 DEF Edit
    <2> QED
      BY <2>1, <2>2, FaithfulKept
  <1>2. ASSUME NEW text \in Texts, FinishEdit(a, text)
        PROVE  Faithful'
    <2>1. proc[a].at = "form" /\ UNCHANGED <<standing, migration>> /\ \A b \in Handlers : b # a => proc'[b] = proc[b]
      BY <1>2, Aside DEF FinishEdit
    <2>2. CASE config = NoBoard
      <3>1. proc'[a].at = "idle" /\ UNCHANGED config
        BY <1>0, <1>2, <2>2, OthersStay DEF FinishEdit
      <3> QED
        BY <2>1, <3>1, FaithfulKept
    <2>3. CASE config # NoBoard
      <3>1. config' = [config EXCEPT !.text = text] /\ config \in Rows(created)
        BY <1>2, <2>3 DEF FinishEdit, Typed
      <3>2. config'.text = text /\ config'.message = config.message /\ config'.id = config.id /\ config'.version = config.version
        BY <3>1 DEF Rows
      <3>3. (\A b \in Handlers : ~Writing(b)) /\ migration.at # "fetched"
        BY <1>2, <2>3 DEF FinishEdit, Met, If, Without
      <3> DEFINE p == [at |-> "editing", message |-> config.message, text |-> text, unmapped |-> proc[a].unmapped]
      <3>4. \/ config.message = NoMessage /\ Become(a, ManualMapping(proc[a].unmapped))
            \/ config.message # NoMessage /\ Become(a, p)
        BY <1>2, <2>3 DEF FinishEdit
      <3>5. p.at = "editing" /\ p.message = config.message /\ p.text = text
        OBVIOUS
      <3> HIDE DEF p
      <3>6. \/ config.message = NoMessage /\ proc'[a].at \in {"idle", "mapping"}
            \/ proc'[a].at = "editing" /\ proc'[a].message = config.message /\ proc'[a].text = text
        BY <3>4, <3>5, OthersStay, ManualMappingIs
      <3>7. NoMessage \notin DOMAIN standing
        BY BoardAssumption DEF Typed, Channel, NoMessage
      <3>8. Written'
        BY <2>1, <3>2, <3>6, <3>7 DEF Written
      <3>9. Housed'
        BY <2>1, <2>3, <3>2 DEF Faithful, Housed
      <3>10. \A b \in Handlers : b # a => proc'[b].at \notin {"posting", "posted", "editing", "refreshing"}
        BY <2>1, <3>3 DEF Writing
      <3>11. Current'
        BY <3>2, <3>6, <3>10 DEF Current, Creating
      <3>12. AsPosted'
        BY <3>6, <3>10 DEF AsPosted
      <3>13. Rewriting'
        BY <2>1, <2>3, <3>2, <3>3 DEF Faithful, Rewriting, Migrating
      <3> QED
        BY <3>8, <3>9, <3>11, <3>12, <3>13 DEF Faithful
    <2> QED
      BY <2>2, <2>3
  <1>3. CASE EmbedEdited(a)
    <2>1. proc[a].at = "editing" /\ UNCHANGED <<config, migration>> /\ Become(a, ManualMapping(proc[a].unmapped))
      BY <1>3 DEF EmbedEdited
    <2>2. \/ proc[a].message \in DOMAIN standing /\ PutUp(proc[a].message, Shows(proc[a].text))
          \/ proc[a].message \notin DOMAIN standing /\ standing' = standing
      BY <1>3 DEF EmbedEdited, Met, Without
    <2>3. proc'[a].at \in {"idle", "mapping"} /\ \A b \in Handlers : b # a => proc'[b] = proc[b]
      BY <2>1, OthersStay, ManualMappingIs
    <2> QED
      BY <2>1, <2>2, <2>3, FaithfulRewrite
  <1>4. CASE FormClosed(a)
    <2>1. /\ proc[a].at \in {"form", "mapping"} /\ UNCHANGED <<config, standing, migration>> /\ Become(a, AtRest)
      BY <1>4 DEF FormClosed
    <2>2. proc'[a].at = "idle" /\ \A b \in Handlers : b # a => proc'[b] = proc[b]
      BY <1>0, <2>1, OthersStay
    <2> QED
      BY <2>1, <2>2, FaithfulKept
  <1>5. ASSUME NEW chosen \in SUBSET Roles, Confirm(a, chosen)
        PROVE  Faithful'
    <2>1. /\ proc[a].at = "mapping" /\ UNCHANGED <<config, standing, migration>>
          /\ Become(a, ManualMapping(proc[a].unmapped \ chosen))
      BY <1>5 DEF Confirm
    <2>2. proc'[a].at \in {"idle", "mapping"} /\ \A b \in Handlers : b # a => proc'[b] = proc[b]
      BY <2>1, OthersStay, ManualMappingIs
    <2> QED
      BY <2>1, <2>2, FaithfulKept
  <1>6. CASE LanguageChanged(a)
    <2> DEFINE p == [at |-> "refreshing", message |-> config.message, text |-> config.text]
    <2>1. proc[a] = AtRest /\ UNCHANGED <<config, standing, migration>> /\ Become(a, p)
      BY <1>6 DEF LanguageChanged
    <2>2. p.at = "refreshing" /\ p.text = config.text
      OBVIOUS
    <2> HIDE DEF p
    <2>3. proc'[a] = p /\ \A b \in Handlers : b # a => proc'[b] = proc[b]
      BY <2>1, OthersStay
    <2>4. Current'
      BY <2>1, <2>2, <2>3 DEF Faithful, Current, Creating
    <2>5. Written' /\ AsPosted'
      BY <1>0, <2>1, <2>2, <2>3 DEF Faithful, Written, AsPosted
    <2>6. Housed' /\ Rewriting'
      BY <2>1 DEF Faithful, Housed, Rewriting, Migrating
    <2> QED
      BY <2>4, <2>5, <2>6 DEF Faithful
  <1>7. CASE Refreshed(a)
    <2>1. proc[a].at = "refreshing" /\ UNCHANGED <<config, migration>> /\ Become(a, AtRest)
      BY <1>7 DEF Refreshed
    <2>2. \/ proc[a].message \in DOMAIN standing /\ PutUp(proc[a].message, Shows(proc[a].text))
          \/ standing' = standing
      BY <1>7 DEF Refreshed
    <2>3. proc'[a].at = "idle" /\ \A b \in Handlers : b # a => proc'[b] = proc[b]
      BY <1>0, <2>1, OthersStay
    <2> QED
      BY <2>1, <2>2, <2>3, FaithfulRewrite
  <1> QED
    BY <1>1, <1>2, <1>3, <1>4, <1>5, <1>6, <1>7

LEMMA FaithfulMigration ==
  ASSUME Typed, Fresh, Faithful, Migration, Without({"refused", "crossed"})'
  PROVE  Faithful'
  <1>0. UNCHANGED proc
    BY DEF Migration, MigrateBoards, FetchBoard, EditBoard, BoardInaccessible, MigrationPutOff
  <1>1. CASE MigrateBoards
    <2>1. UNCHANGED <<config, standing>>
      BY <1>1 DEF MigrateBoards
    <2>2. Migrating' => migration'.at = "read" /\ migration'.message = config.message
      BY <1>1 DEF MigrateBoards, Migrating, Migrated
    <2>3. Rewriting'
      BY <2>1, <2>2 DEF Rewriting
    <2> QED
      BY <1>0, <2>1, <2>3 DEF Faithful, Written, Housed, Current, AsPosted, Creating
  <1>2. CASE FetchBoard
    <2>1. /\ UNCHANGED <<config, standing>> /\ Migrating /\ migration.message \in DOMAIN standing
          /\ migration'.id = migration.id /\ migration'.message = migration.message
          /\ migration'.text = standing[migration.message].text
      BY <1>2 DEF FetchBoard, Migrating
    <2>2. \A a \in Handlers : proc[a].at # "editing"
      BY <1>2 DEF FetchBoard, Met, If, Without
    <2>3. Rewriting'
      BY <2>1, <2>2 DEF Faithful, Rewriting, Written
    <2> QED
      BY <1>0, <2>1, <2>3 DEF Faithful, Written, Housed, Current, AsPosted, Creating
  <1>3. CASE MigrationPutOff
    BY <1>0, <1>3, FaithfulKept DEF MigrationPutOff, Migrating, Migrated
  <1>4. ASSUME Bump, Migrating, migration' = Migrated
        PROVE  /\ config' = NoBoard <=> config = NoBoard
               /\ config # NoBoard => config'.message = config.message /\ config'.text = config.text
               /\ (config # NoBoard /\ config.id # migration.id) => config'.version = config.version
               /\ (config # NoBoard /\ config.id = migration.id) => config.message = migration.message
               /\ Current' /\ Rewriting'
    <2>1. /\ config' = NoBoard <=> config = NoBoard
          /\ config # NoBoard => config'.message = config.message /\ config'.text = config.text
      BY <1>4, BumpType
    <2>2. (config # NoBoard /\ config.id # migration.id) => config'.version = config.version
      BY <1>4 DEF Bump
    <2>3. (config # NoBoard /\ config.id = migration.id) => config.message = migration.message
      BY <1>4 DEF Faithful, Rewriting
    <2>4. Current'
      BY <1>0, <2>1 DEF Faithful, Current, Creating
    <2>5. Rewriting'
      BY <1>4 DEF Rewriting, Migrating, Migrated
    <2> QED
      BY <2>1, <2>2, <2>3, <2>4, <2>5
  <1>5. CASE EditBoard
    <2>1. Bump /\ Migrating /\ migration.at = "fetched" /\ migration' = Migrated /\ migration.message \in DOMAIN standing
      BY <1>5 DEF EditBoard, Migrating
    <2>2. /\ DOMAIN standing' = DOMAIN standing \cup {migration.message} /\ standing'[migration.message] = Shows(migration.text)
          /\ \A k \in DOMAIN standing : k # migration.message => standing'[k] = standing[k]
      BY <1>5, ShowAdds DEF EditBoard
    <2>3. Shows(migration.text).text = migration.text /\ Shows(migration.text).housing
      BY DEF Shows
    <2>4. (config # NoBoard /\ config.message = migration.message) => migration.text = config.text
      BY <2>1 DEF Faithful, Rewriting
    <2>5. Written'
      BY <1>0, <1>4, <2>1, <2>2, <2>3, <2>4 DEF Faithful, Written
    <2>6. Housed'
      BY <1>4, <2>1, <2>2, <2>3 DEF Faithful, Housed
    <2>7. \A a \in Handlers : proc[a].at = "posted" => proc[a].id # migration.message
      BY <2>1 DEF Fresh, Creating
    <2>8. AsPosted'
      BY <1>0, <2>1, <2>2, <2>7 DEF Faithful, AsPosted
    <2> QED
      BY <1>4, <2>1, <2>5, <2>6, <2>8 DEF Faithful
  <1>6. CASE BoardInaccessible
    <2>1. Bump /\ Migrating /\ migration' = Migrated /\ UNCHANGED standing
      BY <1>6 DEF BoardInaccessible, Migrating
    <2>2. migration.message \notin DOMAIN standing
      BY <1>6 DEF BoardInaccessible, Met, Without
    <2>3. Written' /\ AsPosted'
      BY <1>0, <1>4, <2>1 DEF Faithful, Written, AsPosted
    <2>4. Housed'
      BY <1>4, <2>1, <2>2 DEF Faithful, Housed
    <2> QED
      BY <1>4, <2>1, <2>3, <2>4 DEF Faithful
  <1> QED
    BY <1>1, <1>2, <1>3, <1>5, <1>6 DEF Migration

LEMMA FaithfulStep ==
  ASSUME Typed, Fresh, Owned, Faithful, BoardNext, Without({"beside", "cut", "refused", "unedited", "crossed"})'
  PROVE  Faithful'
  <1>1. Without({"unedited", "crossed"})' /\ Without({"refused", "crossed"})' /\ "cut" \notin met' /\ "unedited" \notin met'
    BY DEF Without
  <1>2. CASE Outside
    <2>1. CASE BoardRestart
      <3>1. \A a \in Handlers : ~Creating(a) /\ proc[a].at # "editing"
        BY <1>1, <2>1 DEF BoardRestart, Met, If
      <3>2. \A a \in Handlers : ~Creating(a)' /\ proc'[a].at = "idle"
        BY <2>1 DEF BoardRestart, AtRest, Creating
      <3>3. UNCHANGED <<config, standing>> /\ ~Migrating'
        BY <2>1 DEF BoardRestart, Migrating
      <3>4. Written'
        BY <3>1, <3>3 DEF Faithful, Written
      <3>5. Housed'
        BY <3>3 DEF Faithful, Housed
      <3>6. Current' /\ AsPosted' /\ Rewriting'
        BY <3>2, <3>3 DEF Current, AsPosted, Rewriting
      <3> QED
        BY <3>4, <3>5, <3>6 DEF Faithful
    <2>2. ASSUME NEW m \in DOMAIN standing, DeletedByHand(m)
          PROVE  Faithful'
      <3>1. DOMAIN standing' \subseteq DOMAIN standing /\ \A k \in DOMAIN standing' : standing'[k] = standing[k]
        BY <2>2, DropLeaves DEF DeletedByHand
      <3> QED
        BY <2>2, <3>1, FaithfulKept DEF DeletedByHand
    <2>3. CASE UNCHANGED <<config, standing, proc, migration>>
      BY <2>3, FaithfulKept
    <2> QED
      BY <1>2, <2>1, <2>2, <2>3 DEF Outside, WebCreateMapping, WebDeleteMapping
  <1> QED
    BY <1>1, <1>2, FaithfulCreate, FaithfulRemoval, FaithfulEditing, FaithfulMigration DEF BoardNext

-----------------------------------------------------------------------------
(* The inductive invariant and what follows from it.                         *)

Sound == Typed /\ Fresh /\ Own /\ Kept /\ BoardShown

LEMMA SoundInit == BoardInit => Sound
  <1> SUFFICES ASSUME BoardInit PROVE Sound
    OBVIOUS
  <1>1. \A a \in Handlers : proc[a].at = "idle" /\ ~Creating(a)
    BY DEF BoardInit, AtRest, Creating
  <1>2. ~Migrating
    BY DEF BoardInit, Migrating
  <1>3. Fresh /\ Own
    BY <1>1 DEF Fresh, Own, Owned
  <1>4. CASE config = NoBoard /\ standing = << >> /\ created = 0
    BY <1>1, <1>2, <1>3, <1>4, BoardInitType DEF Sound, Kept, Stood, Accounted, Tended, BoardPosted, BoardGone,
                                                 BoardShown, Faithful, Written, Housed, Current, AsPosted, Rewriting
  <1>5. ASSUME NEW text \in Texts, config = [Board(1, text, 1) EXCEPT !.message = 1],
               standing = [m \in {1} |-> [text |-> text, housing |-> FALSE]]
        PROVE  Sound
    <2>1. config.message = 1 /\ config.text = text /\ config.version = 1 /\ config.id = 1
      BY <1>5 DEF Board
    <2>2. DOMAIN standing = {1} /\ standing[1].text = text
      BY <1>5
    <2>3. config # NoBoard
      BY <2>1, NoBoardIsNone
    <2>4. Stood
      BY <1>1, <2>1, <2>2, <2>3 DEF Stood, Accounted, Tended, BoardPosted, BoardGone
    <2>5. Faithful
      BY <1>1, <1>2, <2>1, <2>2, <2>3 DEF Faithful, Written, Housed, Current, AsPosted, Rewriting, CURRENT_BOARD_VERSION
    <2> QED
      BY <1>3, <2>4, <2>5, BoardInitType DEF Sound, Kept, BoardShown
  <1> QED
    BY <1>4, <1>5 DEF BoardInit

LEMMA SoundStep ==
  ASSUME Sound, [BoardNext]_boardVars
  PROVE  Sound'
  <1>1. CASE UNCHANGED boardVars
    <2>1. Typed' /\ Fresh'
      BY NextType, FreshStep DEF Sound
    <2>2. Owned' = Owned /\ Stood' = Stood /\ Faithful' = Faithful
      BY <1>1 DEF boardVars, Owned, Creating, Stood, Accounted, Tended, BoardPosted, BoardGone,
                  Faithful, Written, Housed, Current, AsPosted, Rewriting, Migrating
    <2>3. met' = met
      BY <1>1 DEF boardVars
    <2> QED
      BY <2>1, <2>2, <2>3 DEF Sound, Own, Kept, BoardShown, Without
  <1>2. CASE BoardNext
    <2>1. Typed' /\ Fresh'
      BY NextType, FreshStep DEF Sound
    <2>2. met \subseteq met'
      BY <1>2, MishapsStay
    <2>3. Own'
      BY <1>2, <2>2, OwnStep DEF Sound, Own, Without
    <2>4. ASSUME Without({"beside", "cut", "refused", "deleted"})'
          PROVE  Stood'
      <3>1. Owned /\ Stood
        BY <2>2, <2>4 DEF Sound, Own, Kept, Without
      <3> QED
        BY <1>2, <2>4, <3>1, StoodStep DEF Sound
    <2>5. ASSUME Without({"beside", "cut", "refused", "unedited", "crossed"})'
          PROVE  Faithful'
      <3>1. Owned /\ Faithful
        BY <2>2, <2>5 DEF Sound, Own, BoardShown, Without
      <3> QED
        BY <1>2, <2>5, <3>1, FaithfulStep DEF Sound
    <2> QED
      BY <2>1, <2>3, <2>4, <2>5 DEF Sound, Kept, BoardShown
  <1> QED
    BY <1>1, <1>2

LEMMA Soundness == BoardSpec => []Sound
  BY SoundInit, SoundStep, PTL DEF BoardSpec

LEMMA SoundStands == Sound => BoardStands
  <1> SUFFICES ASSUME Sound, Settled, met \cap {"beside", "cut", "refused", "deleted"} = {}
               PROVE  /\ config # NoBoard => DOMAIN standing = {config.message}
                      /\ standing # << >> => LoadBoardContext # "not_configured"
    BY DEF BoardStands
  <1>1. Stood /\ Typed
    BY DEF Sound, Kept, Without
  <1>2. \A a \in Handlers : ~Creating(a) /\ proc[a].at # "removed"
    BY DEF Settled, Creating
  <1>3. \A m \in DOMAIN standing : config # NoBoard /\ config.message = m
    BY <1>1, <1>2 DEF Stood, Accounted, Creating
  <1>4. config # NoBoard => config.message \in DOMAIN standing
    BY <1>1, <1>2 DEF Stood, Tended
  <1>5. config = NoBoard => standing = << >>
    <2>1. config = NoBoard => DOMAIN standing = {}
      BY <1>3
    <2>2. standing = [m \in DOMAIN standing |-> standing[m]]
      BY <1>1 DEF Typed, Channel
    <2> QED
      BY <2>1, <2>2
  <1>6. config # NoBoard => LoadBoardContext # "not_configured"
    BY DEF LoadBoardContext
  <1> QED
    BY <1>3, <1>4, <1>5, <1>6

LEMMA SoundShowsSaved == Sound => BoardShowsSaved
  <1> SUFFICES ASSUME Sound, Settled, config # NoBoard,
                      met \cap {"beside", "cut", "refused", "unedited", "crossed"} = {},
                      NEW m \in DOMAIN standing \cap {config.message}
               PROVE  /\ standing[m].text = config.text
                      /\ config.version = CURRENT_BOARD_VERSION => standing[m].housing
    BY DEF BoardShowsSaved
  <1>1. Faithful
    BY DEF Sound, BoardShown, Without
  <1>2. \A a \in Handlers : proc[a].at # "editing"
    BY DEF Settled
  <1> QED
    BY <1>1, <1>2 DEF Faithful, Written, Housed

(* At rest the guild's board has its message in the channel, and the channel *)
(* has no other, unless a mishap the code does not recover from has come     *)
(* between (finish_board_create, _craftingorder_remove).                     *)
THEOREM BoardKept == BoardSpec => []BoardStands
  BY Soundness, SoundStands, PTL

(* At rest the board's message shows the saved description, and the housing  *)
(* button once its version says so (finish_board_edit,                       *)
(* _refresh_crafting_board, _migrate_single_board).                          *)
THEOREM SavedShown == BoardSpec => []BoardShowsSaved
  BY Soundness, SoundShowsSaved, PTL

=============================================================================
