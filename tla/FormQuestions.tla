---------------------------- MODULE FormQuestions ----------------------------
(***************************************************************************)
(* Editing the questions of one form: ApplicationEditConversation of       *)
(* NerdyPy/modules/application/conversations.py, one conversation per      *)
(* admin, and the question routes of the dashboard (web/routes/guilds.py). *)
(*                                                                         *)
(* The questions are rows with an id and a SortOrder that a unique index   *)
(* keeps distinct; every UPDATE is checked on its own, in the order of the *)
(* ids, as SQLAlchemy flushes them.  A conversation works on the rows it   *)
(* loaded when it last showed its menu.                                    *)
(***************************************************************************)
EXTENDS Integers, Sequences, FiniteSets, FiniteSetsExt

CONSTANTS
  Admins,      \* the admins editing the form
  Postgres,    \* PostgreSQL enforces foreign keys and never gives an id again; SQLite does neither
  Imported,    \* questions the form starts with
  MaxTexts,    \* bound: questions ever created
  MaxEntered,  \* bound: largest SortOrder entered in the dashboard or imported
  MaxOrder,    \* bound: largest SortOrder
  MaxLoose     \* bound: numbers given to a reorder prompt that lost its validator

ASSUME ConstantsAssumption ==
  /\ Postgres \in BOOLEAN
  /\ {Imported, MaxTexts, MaxEntered, MaxOrder, MaxLoose} \subseteq Nat
  /\ Imported <= MaxTexts /\ Imported <= MaxEntered /\ MaxEntered <= MaxOrder

Texts == 1..MaxTexts
Orders == 1..MaxOrder
Entered == 1..MaxEntered

VARIABLES
  rows,     \* the questions: id -> text and order
  created,  \* questions created so far
  exists,   \* whether the form is still there
  answers,  \* answers of submissions: id of the question, text it was asked with
  admin     \* per admin: state of the conversation, list shown, whether input is validated

vars == <<rows, created, exists, answers, admin>>

Ids == DOMAIN rows
OrderOf(rs) == [i \in DOMAIN rs |-> rs[i].order]

\* form.questions, ordered by SortOrder: the place of a row, the row at a place.
Place(rs, i) == Cardinality({j \in DOMAIN rs : rs[j].order <= rs[i].order})
At(rs, p) == CHOOSE i \in DOMAIN rs : Place(rs, i) = p
Loaded(rs) == [p \in 1..Cardinality(DOMAIN rs) |-> [id |-> At(rs, p), text |-> rs[At(rs, p)].text]]
Listed == [p \in 1..Cardinality(Ids) |-> rows[At(rows, p)].text]

\* Every imported question has an order of its own, not always its place.
Init ==
  /\ \E order \in [1..Imported -> Entered] :
       /\ \A i, j \in 1..Imported : order[i] = order[j] => i = j
       /\ rows = [i \in 1..Imported |-> [text |-> i, order |-> order[i]]]
  /\ created = Imported
  /\ exists = TRUE
  /\ answers = {}
  /\ admin = [a \in Admins |-> [at |-> "closed", shown |-> <<>>, armed |-> FALSE]]

\* Updates are flushed one by one in the order of the ids: the one of i fails
\* on a row j not yet updated that still has, or already updated that now has,
\* the order given to i.
FlushFails(old, new) ==
  \E i, j \in DOMAIN old :
    /\ i < j
    /\ \/ new[i] # old[i] /\ new[i] = old[j]
       \/ new[j] # old[j] /\ new[j] = new[i]

Reordered(rs, order) == [i \in DOMAIN rs |-> [rs[i] EXCEPT !.order = order[i]]]

Answered(i) == \E answer \in answers : answer[1] = i

\* Mutant: no foreign key protects an answered question.
DeletableAlways(i) == i \in Ids
Deletable(i) == i \in Ids /\ ~(Postgres /\ Answered(i))

Without(i) == [j \in Ids \ {i} |-> rows[j]]

\* Mutant: renumbered in the order of the ids.
RenumberedById(rs) ==
  [i \in DOMAIN rs |-> Cardinality({j \in DOMAIN rs : j <= i})]
\* The orders 1, 2, ... in place of those of rs.
Renumbered(rs) == [i \in DOMAIN rs |-> Place(rs, i)]

\* Phase one of a reordering moves every question out of the way.
Moved(rs) == [i \in DOMAIN rs |-> rs[i].order + Cardinality(DOMAIN rs) + 1]

\* Mutant: the numbers taken as new places instead of old ones.
AskedInverse(rs, nums) ==
  [i \in DOMAIN rs |->
     IF Place(rs, i) \in DOMAIN nums THEN nums[Place(rs, i)] ELSE Moved(rs)[i]]
\* Phase two gives the n-th number's question the order n; a number given
\* twice counts at its last place.
Asked(rs, nums) ==
  [i \in DOMAIN rs |->
     IF \E n \in DOMAIN nums : nums[n] = Place(rs, i)
     THEN CHOOSE n \in DOMAIN nums :
            nums[n] = Place(rs, i) /\ \A m \in DOMAIN nums : nums[m] = nums[n] => m <= n
     ELSE Moved(rs)[i]]

NewId ==
  IF Postgres THEN created + 1 ELSE IF Ids = {} THEN 1 ELSE Max(Ids) + 1

LastOrder == IF Ids = {} THEN 0 ELSE Max({rows[i].order : i \in Ids})
NextOrder == LastOrder + 1

\* The rows with a new question of the given order.
WithNew(order) ==
  [i \in Ids \cup {NewId} |->
     IF i = NewId THEN [text |-> created + 1, order |-> order] ELSE rows[i]]

-----------------------------------------------------------------------------
(* The edit conversation.                                                  *)

\* state_init: load the questions and show the menu, or close without a form.
Menu(a, rs) ==
  admin' = [admin EXCEPT ![a] =
    IF exists THEN [at |-> "menu", shown |-> Loaded(rs), armed |-> FALSE]
    ELSE [at |-> "closed", shown |-> <<>>, armed |-> FALSE]]

Begin(a) ==
  /\ admin[a].at = "closed"
  /\ exists
  /\ Menu(a, rows)
  /\ UNCHANGED <<rows, created, exists, answers>>

\* Adding does not refer to the list shown, and reloads it afterwards.
Choose(a, state) ==
  /\ admin[a].at = "menu"
  /\ admin' = [admin EXCEPT ![a] =
       [at |-> state, shown |-> IF state = "add" THEN <<>> ELSE @.shown, armed |-> state # "add"]]
  /\ UNCHANGED <<rows, created, exists, answers>>

Close(a) ==
  /\ admin[a].at = "menu"
  /\ admin' = [admin EXCEPT ![a] = [at |-> "closed", shown |-> <<>>, armed |-> FALSE]]
  /\ UNCHANGED <<rows, created, exists, answers>>

Add(a) ==
  /\ admin[a].at = "add"
  /\ IF exists
     THEN /\ created < MaxTexts /\ NextOrder <= MaxOrder
          /\ rows' = WithNew(NextOrder)
          /\ created' = created + 1
     ELSE UNCHANGED <<rows, created>>
  /\ Menu(a, rows')
  /\ UNCHANGED <<exists, answers>>

\* The exception leaves the conversation where it is, without its validator.
Fails(a) ==
  /\ admin' = [admin EXCEPT ![a].armed = FALSE]
  /\ UNCHANGED <<rows, created, exists, answers>>

\* The question shown under the number is deleted, unless it is gone already,
\* and the others are renumbered.  An input not validated and out of range
\* raises and changes nothing.
Remove(a, n) ==
  /\ admin[a].at = "remove"
  /\ n \in DOMAIN admin[a].shown
  /\ LET gone == admin[a].shown[n].id
         rest == Without(gone)
     IN IF gone \notin Ids THEN UNCHANGED rows
        ELSE /\ Deletable(gone)
             /\ ~FlushFails(OrderOf(rest), Renumbered(rest))
             /\ rows' = Reordered(rest, Renumbered(rest))
  /\ Menu(a, rows')
  /\ UNCHANGED <<created, exists, answers>>

RemoveFails(a, n) ==
  /\ admin[a].at = "remove"
  /\ n \in DOMAIN admin[a].shown
  /\ LET gone == admin[a].shown[n].id
         rest == Without(gone)
     IN /\ gone \in Ids
        /\ ~Deletable(gone) \/ FlushFails(OrderOf(rest), Renumbered(rest))
  /\ Fails(a)

\* Inputs of the reorder prompt: while validated, each number shown exactly
\* once; after a failure any numbers.
Validated(a, nums) ==
  IF admin[a].armed
  THEN /\ Len(nums) = Len(admin[a].shown)
       /\ {nums[n] : n \in DOMAIN nums} = DOMAIN admin[a].shown
  ELSE Len(nums) <= MaxLoose

\* The numbers address the questions as they are now, not as they were shown.
Reorder(a, nums) ==
  /\ admin[a].at = "reorder"
  /\ Validated(a, nums)
  /\ IF exists
     THEN /\ \A n \in DOMAIN nums : nums[n] <= Cardinality(Ids)
          /\ ~FlushFails(OrderOf(rows), Moved(rows))
          /\ ~FlushFails(Moved(rows), Asked(rows, nums))
          /\ \A i \in Ids : Asked(rows, nums)[i] <= MaxOrder
          /\ rows' = Reordered(rows, Asked(rows, nums))
     ELSE UNCHANGED rows
  /\ Menu(a, rows')
  /\ UNCHANGED <<created, exists, answers>>

ReorderFails(a, nums) ==
  /\ admin[a].at = "reorder"
  /\ Validated(a, nums)
  /\ exists
  /\ \/ \E n \in DOMAIN nums : nums[n] > Cardinality(Ids)
     \/ FlushFails(OrderOf(rows), Moved(rows))
     \/ FlushFails(Moved(rows), Asked(rows, nums))
  /\ Fails(a)

-----------------------------------------------------------------------------
(* The dashboard, the members who apply, and the form's end.               *)

Free(order, i) == \A j \in Ids \ {i} : rows[j].order # order

WebAdd(order) ==
  /\ exists
  /\ created < MaxTexts
  /\ Free(order, 0)
  /\ rows' = WithNew(order)
  /\ created' = created + 1
  /\ UNCHANGED <<exists, answers, admin>>

WebMove(i, order) ==
  /\ i \in Ids
  /\ Free(order, i)
  /\ rows' = [rows EXCEPT ![i].order = order]
  /\ UNCHANGED <<created, exists, answers, admin>>

\* The others keep their orders.
WebDelete(i) ==
  /\ i \in Ids
  /\ Deletable(i)
  /\ rows' = Without(i)
  /\ UNCHANGED <<created, exists, answers, admin>>

\* A member's submission is saved with an answer to every question.
Submit ==
  /\ answers' = answers \cup {<<i, rows[i].text>> : i \in Ids}
  /\ UNCHANGED <<rows, created, exists, admin>>

DeleteForm ==
  /\ exists
  /\ exists' = FALSE
  /\ rows' = <<>>
  /\ answers' = {}
  /\ UNCHANGED <<created, admin>>

Restart ==
  /\ admin' = [a \in Admins |-> [at |-> "closed", shown |-> <<>>, armed |-> FALSE]]
  /\ UNCHANGED <<rows, created, exists, answers>>

-----------------------------------------------------------------------------
Inputs == UNION {[1..n -> 1..MaxTexts] : n \in 1..MaxTexts}

Next ==
  \/ \E a \in Admins :
       \/ Begin(a) \/ Close(a) \/ Add(a)
       \/ \E state \in {"add", "remove", "reorder"} : Choose(a, state)
       \/ \E n \in 1..MaxTexts : Remove(a, n) \/ RemoveFails(a, n)
       \/ \E nums \in Inputs : Reorder(a, nums) \/ ReorderFails(a, nums)
  \/ \E order \in Entered : WebAdd(order) \/ \E i \in Ids : WebMove(i, order)
  \/ \E i \in Ids : WebDelete(i)
  \/ Submit \/ DeleteForm \/ Restart

Spec == Init /\ [][Next]_vars

-----------------------------------------------------------------------------
Shown == [id : Texts, text : Texts]
Distinct(rs) == \A i, j \in DOMAIN rs : rs[i].order = rs[j].order => i = j

\* Every variable keeps its type, and the unique index of the questions holds.
TypeOK ==
  /\ Ids \subseteq Texts
  /\ \A i \in Ids : rows[i] \in [text : Texts, order : Orders]
  /\ Distinct(rows)
  /\ created \in 0..MaxTexts
  /\ exists \in BOOLEAN
  /\ answers \subseteq Texts \X Texts
  /\ admin \in [Admins -> [at : {"closed", "menu", "add", "remove", "reorder"},
                           shown : Seq(Shown), armed : BOOLEAN]]

Confirmed(a, state) == admin[a].at = state /\ admin'[a].at = "menu"

\* A validated reordering of the list as shown gives the list as asked for.
ReorderedAsAsked ==
  [][\A a \in Admins : Confirmed(a, "reorder") /\ admin[a].armed /\ Loaded(rows) = admin[a].shown =>
       \A nums \in Inputs : Reorder(a, nums) /\ exists =>
         Listed' = [p \in DOMAIN nums |-> admin[a].shown[nums[p]].text]]_vars

\* An answer belongs for good to the question it was given to: the id it
\* refers to is not deleted and not given to another question.
AnswersKeepTheirQuestion ==
  \A answer \in answers : answer[1] \in Ids /\ rows[answer[1]].text = answer[2]

\* Ids, orders, renumbering and two-phase updates implement a list of questions.
Abstract == INSTANCE QuestionList WITH Questions <- Texts, list <- Listed
ImplementsQuestionList == Abstract!Spec
=============================================================================
