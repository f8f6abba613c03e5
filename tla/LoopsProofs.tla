---------------------------- MODULE LoopsProofs -----------------------------
(* Proofs about the two loops of the bot: the one that delivers reminders    *)
(* and the one that fetches songs.  They share no state; each component      *)
(* keeps its own names, and the second ones start with Music.                *)
EXTENDS Reminders, MusicQueue, FiniteSetTheorems, TLAPS

(***************************************************************************)
(* Reminders, for every set of reminders, admins and columns, and every      *)
(* bound.                                                                    *)
(***************************************************************************)

-----------------------------------------------------------------------------
(* Type correctness.                                                         *)

LEMMA FreshSchedule == Fresh \in Schedules
  BY ConstantsAssumption DEF Fresh, Schedules, Versions

LEMMA NewRows == NoRow \in Rows /\ \A k \in {"once", "repeating"} : NewRow(k) \in Rows
  BY FreshSchedule DEF NoRow, NewRow, Rows

LEMMA AsleepLoop == Asleep \in Loops
  BY NewRows DEF Asleep, Loops

LEMMA NoEdits == NoEdit \in Edits
  BY FreshSchedule, ConstantsAssumption DEF NoEdit, Edits, Versions

LEMMA InitType == Init => TypeOK
  BY NewRows, AsleepLoop, NoEdits, ConstantsAssumption DEF Init, TypeOK, Versions

LEMMA RollBackType ==
  ASSUME TypeOK, RollBack
  PROVE  loop' \in Loops /\ lost' \in [Reminders -> Nat]
  BY AsleepLoop DEF TypeOK, RollBack

\* What the commit makes of a row, by what the tick decided.
LEMMA WrittenRow ==
  ASSUME TypeOK, NEW r \in Reminders
  PROVE  Written(r) \in Rows
  <1>1. /\ rows[r] \in Rows /\ loop.seen[r] \in Rows
        /\ loop.writes[r] \in {"none", "book", "end", "drop"}
    BY DEF TypeOK, Loops
  <1>2. CASE loop.writes[r] = "none"
    <2>1. Written(r) = rows[r]
      BY <1>2 DEF Written
    <2> QED BY <1>1, <2>1
  <1>3. CASE loop.writes[r] = "book"
    <2>1. Written(r) = [rows[r] EXCEPT !.count = loop.seen[r].count + 1, !.due = FALSE,
                                       !.next = loop.seen[r].sched]
      BY <1>3 DEF Written
    <2>2. /\ loop.seen[r].count + 1 \in Nat /\ loop.seen[r].sched \in Schedules
          /\ FALSE \in BOOLEAN
      BY <1>1 DEF Rows
    <2>3. \A n \in Nat, x \in Schedules, d \in BOOLEAN :
            [rows[r] EXCEPT !.count = n, !.due = d, !.next = x] \in Rows
      BY <1>1 DEF Rows
    <2> QED BY <2>1, <2>2, <2>3
  <1>4. CASE loop.writes[r] \in {"end", "drop"}
    <2>1. Written(r) = [rows[r] EXCEPT !.status = "deleted"]
      BY <1>4 DEF Written
    <2> QED BY <1>1, <2>1 DEF Rows
  <1> QED
    BY <1>1, <1>2, <1>3, <1>4

LEMMA TickType ==
  ASSUME TypeOK, LoopStep
  PROVE  TypeOK'
  <1> USE DEF TypeOK, history
  <1>1. CASE Tick
    BY <1>1, AsleepLoop DEF Tick, Asleep, Loops
  <1>2. ASSUME NEW r \in Reminders, DropOrphan(r) PROVE TypeOK'
    BY <1>2 DEF DropOrphan, Loops
  <1>3. ASSUME NEW r \in Reminders, Send(r) PROVE TypeOK'
    BY <1>3 DEF Send, Loops
  <1>4. CASE Delivered
    BY <1>4 DEF Delivered, Loops
  <1>5. CASE Refused
    BY <1>5 DEF Refused, Loops
  <1>6. CASE Book
    BY <1>6 DEF Book, Loops
  <1>7. CASE Commit
    BY <1>7, WrittenRow, AsleepLoop DEF Commit
  <1>8. CASE CommitFails
    BY <1>8, RollBackType DEF CommitFails
  <1> QED
    BY <1>1, <1>2, <1>3, <1>4, <1>5, <1>6, <1>7, <1>8 DEF LoopStep

LEMMA SpendType ==
  ASSUME TypeOK, Spend
  PROVE  commands' \in Versions
  BY ConstantsAssumption DEF TypeOK, Spend, Versions

LEMMA RequestType ==
  ASSUME TypeOK, NEW r \in Reminders, Due(r) \/ Command(r) \/ Dashboard(r)
  PROVE  TypeOK'
  <1> USE SpendType DEF TypeOK, history, bot
  <1>1. CASE Due(r)
    <2>1. [rows[r] EXCEPT !.due = TRUE] \in Rows
      BY DEF Rows
    <2>2. rows' \in [Reminders -> Rows]
      BY <1>1, <2>1 DEF Due
    <2> QED
      BY <1>1, <2>2 DEF Due
  <1>2. ASSUME NEW k \in {"once", "repeating"}, Create(r, k) PROVE TypeOK'
    BY <1>2, NewRows, RollBackType DEF Create, Reschedule
  <1>3. CASE Pause(r)
    BY <1>3, RollBackType DEF Pause, Reschedule, Rows
  <1>4. CASE Resume(r)
    <2>1. rows'[r] \in Rows
      BY <1>4 DEF Resume, Rows
    <2>2. rows' \in [Reminders -> Rows]
      BY <1>4, <2>1 DEF Resume
    <2> QED
      BY <1>4, <2>2, RollBackType DEF Resume, Reschedule
  <1>5. CASE Delete(r)
    BY <1>5, RollBackType DEF Delete, Reschedule, Rows
  <1>6. CASE WebCreate(r)
    BY <1>6, NewRows DEF WebCreate
  <1>7. CASE WebDelete(r)
    BY <1>7 DEF WebDelete, Rows
  <1>8. ASSUME NEW enabled \in BOOLEAN, WebUpdate(r, enabled) PROVE TypeOK'
    BY <1>8 DEF WebUpdate, Rows
  <1> QED
    BY <1>1, <1>2, <1>3, <1>4, <1>5, <1>6, <1>7, <1>8 DEF Command, Dashboard

LEMMA EditingType ==
  ASSUME TypeOK, NEW a \in Admins, Editing(a)
  PROVE  TypeOK'
  <1> USE SpendType DEF TypeOK, history
  <1>1. ASSUME NEW r \in Reminders, NEW sets \in SUBSET Columns, NEW bad \in SUBSET sets,
               EditOpen(a, r, sets, bad)
        PROVE  TypeOK'
    <2>1. edits'[a] \in Edits
      BY <1>1 DEF EditOpen, Edits, Rows
    <2> QED
      BY <1>1, <2>1 DEF EditOpen
  <1>2. \A old \in Schedules : Assigned(edits[a], old) \in Schedules
    BY DEF Assigned, Edits, Schedules
  <1>3. CASE EditSave(a)
    <2>1. ASSUME NEW r \in Reminders, NEW s \in Schedules, NEW n \in Schedules
          PROVE  [rows[r] EXCEPT !.sched = s, !.next = n, !.due = FALSE] \in Rows
      BY DEF Rows
    <2>2. /\ edits[a].seen \in Schedules
          /\ \A r \in Reminders : rows[r].sched \in Schedules
      BY DEF Edits, Rows
    <2>3. rows' = [r \in Reminders |->
            IF r \notin edits[a].on \/ edits[a].sets = {} THEN rows[r]
            ELSE [rows[r] EXCEPT !.sched = Assigned(edits[a], rows[r].sched),
                                 !.next = Assigned(edits[a], edits[a].seen), !.due = FALSE]]
      BY <1>3 DEF EditSave, Saved
    <2>4. \A r \in Reminders : rows'[r] \in Rows
      BY <1>2, <2>1, <2>2, <2>3
    <2>5. rows' \in [Reminders -> Rows]
      BY <2>3, <2>4
    <2>6. crossed' \subseteq Reminders
      BY <1>3 DEF EditSave, Saved, Edits
    <2>7. edits' \in [Admins -> Edits]
      BY <1>3, NoEdits DEF EditSave, Saved
    <2> QED
      BY <1>3, <2>5, <2>6, <2>7, RollBackType DEF EditSave, Saved, Reschedule
  <1>4. CASE EditRefused(a)
    <2>1. \A r \in Reminders : rows'[r] \in Rows
      BY <1>2, <1>4 DEF EditRefused, Rows
    <2>2. rows' \in [Reminders -> Rows]
      BY <1>4, <2>1 DEF EditRefused
    <2>3. halved' \subseteq Reminders
      BY <1>4 DEF EditRefused, Edits
    <2>4. edits' \in [Admins -> Edits]
      BY <1>4, NoEdits DEF EditRefused
    <2> QED
      BY <1>4, <2>2, <2>3, <2>4 DEF EditRefused
  <1>5. CASE EditFails(a)
    BY <1>5, NoEdits DEF EditFails
  <1> QED
    BY <1>1, <1>3, <1>4, <1>5 DEF Editing

\* Rows, ticks and edits stay well formed, whatever ticks, commands, edits and
\* dashboard requests interleave.
THEOREM TypeCorrect == Spec => []TypeOK
  <1>1. TypeOK /\ [Next]_vars => TypeOK'
    <2> SUFFICES ASSUME TypeOK, [Next]_vars PROVE TypeOK'
      OBVIOUS
    <2>1. CASE Restart
      BY <2>1, RollBackType, SpendType, NoEdits DEF Restart, TypeOK
    <2>2. CASE UNCHANGED vars
      BY <2>2 DEF vars, bot, history, TypeOK
    <2> QED
      BY <2>1, <2>2, TickType, RequestType, EditingType DEF Next
  <1> QED
    BY <1>1, InitType, PTL DEF Spec

-----------------------------------------------------------------------------
(* The inductive invariant, part by part: what holds of the tick, and what   *)
(* relates a reminder's row, its deliveries and the tick.                    *)

TickOK ==
  /\ loop.at \in {"asleep", "between"} => loop.cur = {}
  /\ loop.at = "asleep" => loop = Asleep
  /\ loop.left \cap loop.cur = {}

Pending(r) == r \in loop.left \cup loop.cur

ReadOK(r) ==
  /\ Pending(r) => loop.writes[r] = "none"
  /\ Pending(r) \/ loop.writes[r] # "none" => loop.seen[r].status = "enabled"
  /\ loop.writes[r] = "book" => loop.seen[r].kind = "repeating"
  /\ loop.seen[r].status # "none" =>
       /\ rows[r].status # "none"
       /\ loop.seen[r].count = rows[r].count
       /\ loop.seen[r].kind = rows[r].kind
       /\ r \notin crossed \cup halved => loop.seen[r].sched = rows[r].sched

RowOK(r) ==
  /\ rows[r].status = "none" => rows[r].count = 0 /\ delivered[r] = 0 /\ lost[r] = 0
  /\ rows[r].kind = "once" => rows[r].count = 0
  /\ r \notin crossed \cup halved => rows[r].next = rows[r].sched

SentOK(r) ==
  /\ Present(r) => delivered[r] = rows[r].count + lost[r] + InFlight(r)
  /\ rows[r].kind = "once" => delivered[r] <= lost[r] + 1
  /\ rows[r].kind = "once" /\ Pending(r) /\ ~Unbooked(r) => delivered[r] <= lost[r]

QuietOK(r) == r \in quiet => rows[r].status \in {"paused", "deleted"} /\ r \notin loop.left

AllOK(r) == ReadOK(r) /\ RowOK(r) /\ SentOK(r) /\ QuietOK(r)

Inv == TypeOK /\ TickOK /\ \A r \in Reminders : AllOK(r)

LEMMA InvParts ==
  ASSUME Inv
  PROVE  Strengthening /\ CountsDeliveries /\ ScheduleFollowed /\ OnceUnlessLost
  BY DEF Inv, TickOK, AllOK, ReadOK, RowOK, SentOK, QuietOK, Pending,
         Strengthening, CountsDeliveries, ScheduleFollowed, OnceUnlessLost

LEMMA InitInv == Init => Inv
  BY InitType DEF Init, Inv, TickOK, AllOK, ReadOK, RowOK, SentOK, QuietOK, Pending, Present,
                  InFlight, Unbooked, Asleep, NoRow

\* A rolled back tick counts what it sent as lost and leaves nothing behind.
LEMMA RolledBack ==
  ASSUME Inv, RollBack, delivered' = delivered, NEW r \in Reminders
  PROVE  /\ TickOK' /\ ReadOK(r)' /\ ~Pending(r)' /\ r \notin loop'.left
         /\ InFlight(r)' = 0 /\ lost'[r] = lost[r] + InFlight(r)
         /\ lost'[r] \in Nat /\ lost'[r] >= lost[r]
  BY DEF Inv, TypeOK, RollBack, Asleep, TickOK, ReadOK, Pending, InFlight, Unbooked, NoRow

\* A step that rolls the tick back and leaves the row of a reminder alone.
LEMMA RolledBackRow ==
  ASSUME Inv, RollBack, delivered' = delivered, NEW q \in Reminders,
         rows'[q] = rows[q], q \in crossed \cup halved => q \in crossed' \cup halved',
         q \in quiet' => q \in quiet
  PROVE  AllOK(q)'
  <1>1. /\ ReadOK(q)' /\ ~Pending(q)' /\ q \notin loop'.left
        /\ InFlight(q)' = 0 /\ lost'[q] = lost[q] + InFlight(q)
        /\ lost'[q] \in Nat /\ lost'[q] >= lost[q]
    BY RolledBack
  <1>2. /\ rows[q].count \in Nat /\ delivered[q] \in Nat /\ lost[q] \in Nat
        /\ InFlight(q) \in {0, 1}
    BY DEF Inv, TypeOK, Rows, InFlight
  <1>3. RowOK(q)'
    <2>1. rows[q].status = "none" => ~Unbooked(q)
      BY DEF Inv, AllOK, ReadOK, Pending, Unbooked
    <2>2. rows[q].status = "none" => lost'[q] = lost[q]
      BY <1>1, <1>2, <2>1 DEF InFlight
    <2>3. RowOK(q)
      BY DEF Inv, AllOK
    <2> QED
      BY <2>2, <2>3 DEF Inv, TypeOK, RowOK
  <1>4. SentOK(q)'
    BY <1>1, <1>2 DEF Inv, AllOK, SentOK, Present
  <1>5. QuietOK(q)'
    BY <1>1 DEF Inv, AllOK, QuietOK
  <1> QED
    BY <1>1, <1>3, <1>4, <1>5 DEF AllOK

LEMMA TickInv ==
  ASSUME Inv, LoopStep
  PROVE  Inv'
  <1> USE DEF Inv
  <1>0. TypeOK'
    BY TickType
  <1>1. CASE Tick
    <2>1. TickOK'
      BY <1>1 DEF Tick, TickOK, Asleep
    <2>2. ASSUME NEW q \in Reminders PROVE AllOK(q)'
      BY <1>1 DEF Tick, Asleep, TypeOK, Loops, Rows, TickOK, AllOK, ReadOK, RowOK, SentOK,
                  QuietOK, Pending, InFlight, Unbooked, Present, history
    <2> QED BY <1>0, <2>1, <2>2
  <1>2. ASSUME NEW r \in Reminders, DropOrphan(r) PROVE Inv'
    <2>1. TickOK'
      BY <1>2 DEF DropOrphan, TickOK, TypeOK, Loops
    <2>2. ASSUME NEW q \in Reminders PROVE AllOK(q)'
      BY <1>2 DEF DropOrphan, TypeOK, Loops, TickOK, AllOK, ReadOK, RowOK, SentOK,
                  QuietOK, Pending, InFlight, Unbooked, Present, history
    <2> QED BY <1>0, <2>1, <2>2
  <1>3. ASSUME NEW r \in Reminders, Send(r) PROVE Inv'
    <2>1. TickOK'
      BY <1>3 DEF Send, TickOK, TypeOK, Loops
    <2>2. ASSUME NEW q \in Reminders PROVE AllOK(q)'
      BY <1>3 DEF Send, TypeOK, Loops, TickOK, AllOK, ReadOK, RowOK, SentOK,
                  QuietOK, Pending, InFlight, Unbooked, Present, history
    <2> QED BY <1>0, <2>1, <2>2
  <1>4. CASE Delivered
    <2>1. TickOK'
      BY <1>4 DEF Delivered, TickOK, TypeOK, Loops
    <2>2. ASSUME NEW q \in Reminders PROVE AllOK(q)'
      BY <1>4 DEF Delivered, TypeOK, Loops, Rows, TickOK, AllOK, ReadOK, RowOK, SentOK,
                  QuietOK, Pending, InFlight, Unbooked, Present
    <2> QED BY <1>0, <2>1, <2>2
  <1>5. CASE Refused
    <2>1. TickOK'
      BY <1>5 DEF Refused, TickOK, TypeOK, Loops
    <2>2. ASSUME NEW q \in Reminders PROVE AllOK(q)'
      BY <1>5 DEF Refused, TypeOK, Loops, TickOK, AllOK, ReadOK, RowOK, SentOK,
                  QuietOK, Pending, InFlight, Unbooked, Present
    <2> QED BY <1>0, <2>1, <2>2
  <1>6. CASE Book
    <2>1. TickOK'
      BY <1>6 DEF Book, TickOK, TypeOK, Loops
    <2>2. ASSUME NEW q \in Reminders PROVE AllOK(q)'
      BY <1>6 DEF Book, TypeOK, Loops, Rows, TickOK, AllOK, ReadOK, RowOK, SentOK,
                  QuietOK, Pending, InFlight, Unbooked, Present, history
    <2> QED BY <1>0, <2>1, <2>2
  <1>7. CASE Commit
    <2>1. TickOK'
      BY <1>7 DEF Commit, TickOK, Asleep
    <2>2. ASSUME NEW q \in Reminders PROVE AllOK(q)'
      <3>1. /\ rows'[q] = Written(q) /\ rows[q] \in Rows /\ loop.seen[q] \in Rows
            /\ loop.writes[q] \in {"none", "book", "end", "drop"}
            /\ ~Pending(q) /\ loop' = Asleep /\ ~(loop.writes[q] = "book" /\ rows[q].status = "deleted")
        BY <1>7 DEF Commit, TypeOK, Loops, TickOK, Pending, Stale
      <3>2. ReadOK(q)' /\ ~Pending(q)' /\ InFlight(q)' = 0
        BY <3>1 DEF Asleep, ReadOK, Pending, InFlight, Unbooked, NoRow
      <3>3. CASE loop.writes[q] = "none"
        <4>1. rows'[q] = rows[q] /\ InFlight(q) = 0
          BY <3>1, <3>3 DEF Written, InFlight, Unbooked, Pending
        <4> QED
          BY <1>7, <3>1, <3>2, <4>1 DEF Commit, Asleep, AllOK, RowOK, SentOK, QuietOK, Present, history
      <3>4. CASE loop.writes[q] = "book"
        <4>1. /\ rows[q].kind = "repeating" /\ loop.seen[q].status = "enabled"
              /\ loop.seen[q].count = rows[q].count
              /\ q \notin crossed \cup halved => loop.seen[q].sched = rows[q].sched
          BY <3>4 DEF AllOK, ReadOK
        <4>2. rows'[q] = [rows[q] EXCEPT !.count = loop.seen[q].count + 1, !.due = FALSE,
                                         !.next = loop.seen[q].sched]
          BY <3>1, <3>4 DEF Written
        <4>3. /\ rows'[q].count = rows[q].count + 1 /\ rows'[q].status = rows[q].status
              /\ rows'[q].kind = rows[q].kind /\ rows'[q].sched = rows[q].sched
              /\ rows'[q].next = loop.seen[q].sched
          BY <3>1, <4>1, <4>2 DEF Rows
        <4>4. InFlight(q) = 1
          BY <3>4 DEF InFlight, Unbooked
        <4>5. rows[q].count \in Nat /\ delivered[q] \in Nat /\ lost[q] \in Nat
          BY <3>1 DEF TypeOK, Rows
        <4>6. SentOK(q)'
          BY <1>7, <3>2, <4>1, <4>3, <4>4, <4>5
          DEF Commit, AllOK, SentOK, Present, history
        <4>7. RowOK(q)' /\ QuietOK(q)'
          BY <1>7, <3>1, <4>1, <4>3 DEF Commit, Asleep, AllOK, ReadOK, RowOK, QuietOK, history
        <4> QED
          BY <3>2, <4>6, <4>7 DEF AllOK
      <3>5. CASE loop.writes[q] \in {"end", "drop"}
        <4>1. rows'[q] = [rows[q] EXCEPT !.status = "deleted"]
          BY <3>1, <3>5 DEF Written
        <4> QED
          BY <1>7, <3>1, <3>2, <3>5, <4>1
          DEF Commit, Asleep, AllOK, ReadOK, RowOK, SentOK, QuietOK, Present, Rows, history
      <3> QED
        BY <3>1, <3>3, <3>4, <3>5
    <2> QED BY <1>0, <2>1, <2>2
  <1>8. CASE CommitFails
    <2>1. TickOK'
      BY <1>8 DEF CommitFails, RollBack, TickOK, Asleep
    <2>2. ASSUME NEW q \in Reminders PROVE AllOK(q)'
      BY <1>8, RolledBackRow DEF CommitFails
    <2> QED BY <1>0, <2>1, <2>2
  <1> QED
    BY <1>1, <1>2, <1>3, <1>4, <1>5, <1>6, <1>7, <1>8 DEF LoopStep


LEMMA RequestInv ==
  ASSUME Inv, NEW r \in Reminders, Due(r) \/ Command(r) \/ Dashboard(r)
  PROVE  Inv'
  <1>0. TypeOK'
    BY RequestType DEF Inv
  <1>1. ASSUME UNCHANGED <<loop, delivered, lost, crossed, halved>>,
               \A q \in Reminders : (rows'[q] = rows[q] /\ (q \in quiet' => q \in quiet)) \/ AllOK(q)'
        PROVE  Inv'
    <2>1. ASSUME NEW q \in Reminders, rows'[q] = rows[q], q \in quiet' => q \in quiet PROVE AllOK(q)'
      BY <1>1, <2>1 DEF Inv, AllOK, ReadOK, RowOK, SentOK, QuietOK, Pending, Present, InFlight, Unbooked
    <2> QED
      BY <1>0, <1>1, <2>1 DEF Inv, TickOK
  <1>2. ASSUME RollBack, delivered' = delivered, UNCHANGED <<crossed, halved>>,
               \A q \in Reminders : (rows'[q] = rows[q] /\ (q \in quiet' => q \in quiet)) \/ AllOK(q)'
        PROVE  Inv'
    <2>1. TickOK'
      BY <1>2 DEF RollBack, TickOK, Asleep
    <2> QED
      BY <1>0, <1>2, <2>1, RolledBackRow DEF Inv
  <1>3. rows \in [Reminders -> Rows] /\ rows[r] \in Rows /\ AllOK(r)
    BY DEF Inv, TypeOK
  <1>4. /\ rows[r].count \in Nat /\ delivered[r] \in Nat /\ lost[r] \in Nat
        /\ rows[r].status = "none" => ~Unbooked(r)
        /\ InFlight(r) \in {0, 1}
    BY <1>3 DEF Inv, TypeOK, Rows, AllOK, ReadOK, Pending, Unbooked, InFlight
  <1>5. CASE Due(r)
    <2>1. AllOK(r)'
      BY <1>3, <1>5 DEF Due, Rows, AllOK, ReadOK, RowOK, SentOK, QuietOK, Pending, Present,
                        InFlight, Unbooked, bot, history
    <2> QED
      BY <1>1, <1>3, <1>5, <2>1 DEF Due, bot, history
  <1>6. CASE WebCreate(r)
    <2>1. AllOK(r)'
      BY <1>3, <1>4, <1>6 DEF WebCreate, NewRow, NoRow, Fresh, AllOK, ReadOK, RowOK, SentOK, QuietOK,
                        Pending, Present, InFlight, Unbooked, bot, history
    <2> QED
      BY <1>1, <1>3, <1>6, <2>1 DEF WebCreate, bot, history
  <1>7. CASE WebDelete(r)
    <2>1. AllOK(r)'
      BY <1>3, <1>4, <1>7 DEF WebDelete, Rows, AllOK, ReadOK, RowOK, SentOK, QuietOK,
                        Pending, Present, InFlight, Unbooked, bot, history
    <2> QED
      BY <1>1, <1>3, <1>7, <2>1 DEF WebDelete, bot, history
  <1>8. ASSUME NEW enabled \in BOOLEAN, WebUpdate(r, enabled) PROVE Inv'
    <2>1. AllOK(r)'
      BY <1>3, <1>4, <1>8 DEF WebUpdate, Rows, AllOK, ReadOK, RowOK, SentOK, QuietOK,
                        Pending, Present, InFlight, Unbooked, bot
    <2> QED
      BY <1>1, <1>3, <1>8, <2>1 DEF WebUpdate, bot
  <1>9. ASSUME RollBack, delivered' = delivered, UNCHANGED <<crossed, halved>>,
               rows'[r].status # "none",
               rows'[r].kind = "once" =>
                 rows'[r].count = 0 /\ (rows[r].kind = "once" \/ rows[r].status = "none"),
               r \notin crossed \cup halved => rows'[r].next = rows'[r].sched,
               Present(r)' => rows'[r].count = rows[r].count /\ (Present(r) \/ rows[r].status = "none"),
               r \in quiet' => rows'[r].status \in {"paused", "deleted"}
        PROVE  AllOK(r)'
    <2>1. /\ ReadOK(r)' /\ ~Pending(r)' /\ r \notin loop'.left
          /\ InFlight(r)' = 0 /\ lost'[r] = lost[r] + InFlight(r)
          /\ lost'[r] \in Nat /\ lost'[r] >= lost[r]
      BY <1>9, RolledBack
    <2>2. RowOK(r)'
      BY <1>9 DEF RowOK
    <2>5. QuietOK(r)'
      BY <1>9, <2>1 DEF QuietOK
    <2>3. rows[r].status = "none" => InFlight(r) = 0 /\ delivered[r] = 0 /\ lost[r] = 0 /\ rows[r].count = 0
      BY <1>3, <1>4 DEF AllOK, RowOK, InFlight
    <2>4. SentOK(r)'
      BY <1>3, <1>4, <1>9, <2>1, <2>3 DEF AllOK, SentOK, Present
    <2> QED
      BY <2>1, <2>2, <2>4, <2>5 DEF AllOK
  <1>10. ASSUME NEW k \in {"once", "repeating"}, Create(r, k) PROVE Inv'
    <2>1. rows'[r] = NewRow(k) /\ r \notin quiet' /\ rows[r].status = "none"
      BY <1>3, <1>10 DEF Create, AllOK, QuietOK
    <2>2. /\ NewRow(k).count = 0 /\ NewRow(k).status = "enabled"
          /\ NewRow(k).next = NewRow(k).sched
      BY DEF NewRow, NoRow
    <2>3. rows[r].count = 0
      BY <1>3, <2>1 DEF AllOK, RowOK
    <2>4. AllOK(r)'
      BY <1>9, <1>10, <2>1, <2>2, <2>3 DEF Create, Reschedule
    <2> QED
      BY <1>2, <1>3, <1>10, <2>4 DEF Create, Reschedule
  <1>11. CASE Pause(r)
    <2>1. /\ rows'[r] = [rows[r] EXCEPT !.status = "paused"] /\ rows[r].status = "enabled"
          /\ RollBack /\ delivered' = delivered /\ UNCHANGED <<crossed, halved>>
      BY <1>3, <1>11 DEF Pause, Reschedule
    <2>2. AllOK(r)'
      BY <1>3, <1>9, <2>1 DEF AllOK, RowOK, Present, Rows
    <2> QED
      BY <1>2, <1>3, <1>11, <2>2 DEF Pause, Reschedule
  <1>12. CASE Resume(r)
    <2>1. /\ rows'[r].status \in {"enabled", "deleted"} /\ rows[r].status = "paused"
          /\ rows'[r].kind = rows[r].kind /\ rows'[r].count = rows[r].count
          /\ rows'[r].sched = rows[r].sched /\ rows'[r].next \in {rows[r].next, rows[r].sched}
          /\ r \notin quiet'
      BY <1>3, <1>12 DEF Resume, Rows
    <2>2. RollBack /\ delivered' = delivered /\ UNCHANGED <<crossed, halved>>
      BY <1>12 DEF Resume, Reschedule
    <2>3. AllOK(r)'
      BY <1>3, <1>9, <2>1, <2>2 DEF AllOK, RowOK, Present
    <2> QED
      BY <1>2, <1>3, <1>12, <2>3 DEF Resume, Reschedule
  <1>13. CASE Delete(r)
    <2>1. /\ rows'[r] = [rows[r] EXCEPT !.status = "deleted"] /\ rows[r].status # "none"
          /\ RollBack /\ delivered' = delivered /\ UNCHANGED <<crossed, halved>>
      BY <1>3, <1>13 DEF Delete, Reschedule
    <2>2. AllOK(r)'
      BY <1>3, <1>9, <2>1 DEF AllOK, RowOK, Present, Rows
    <2> QED
      BY <1>2, <1>3, <1>13, <2>2 DEF Delete, Reschedule
  <1> QED
    BY <1>5, <1>6, <1>7, <1>8, <1>10, <1>11, <1>12, <1>13 DEF Command, Dashboard

LEMMA EditingInv ==
  ASSUME Inv, NEW a \in Admins, Editing(a)
  PROVE  Inv'
  <1>0. TypeOK'
    BY EditingType DEF Inv
  <1>1. ASSUME UNCHANGED <<rows, loop, delivered, lost, quiet, crossed, halved>> PROVE Inv'
    BY <1>0, <1>1 DEF Inv, TickOK, AllOK, ReadOK, RowOK, SentOK, QuietOK, Pending, Present,
                      InFlight, Unbooked
  <1>2. ASSUME NEW r \in Reminders, NEW sets \in SUBSET Columns, NEW bad \in SUBSET sets,
               EditOpen(a, r, sets, bad)
        PROVE  Inv'
    BY <1>1, <1>2 DEF EditOpen, history
  <1>3. CASE EditFails(a)
    BY <1>1, <1>3 DEF EditFails, history
  <1>4. CASE EditRefused(a)
    <2>1. TickOK'
      BY <1>4 DEF EditRefused, Inv, TickOK
    <2>2. ASSUME NEW q \in Reminders PROVE AllOK(q)'
      <3>1. /\ rows'[q].status = rows[q].status /\ rows'[q].kind = rows[q].kind
            /\ rows'[q].count = rows[q].count /\ rows'[q].next = rows[q].next
            /\ q \notin halved' => q \notin halved /\ rows'[q].sched = rows[q].sched
        <4>1. rows[q] \in Rows /\ edits[a] \in Edits
          BY DEF Inv, TypeOK
        <4>2. edits[a].sets = {} => Assigned(edits[a], rows[q].sched) = rows[q].sched
          BY <4>1 DEF Assigned, Rows, Schedules
        <4> QED
          BY <1>4, <4>1, <4>2 DEF EditRefused, Rows
      <3> QED
        BY <1>4, <3>1 DEF EditRefused, Inv, AllOK, ReadOK, RowOK, SentOK, QuietOK, Pending, Present,
                          InFlight, Unbooked
    <2> QED
      BY <1>0, <2>1, <2>2 DEF Inv
  <1>5. CASE EditSave(a)
    <2>1. TickOK'
      BY <1>5 DEF EditSave, Reschedule, RollBack, TickOK, Asleep
    <2>2. ASSUME NEW q \in Reminders PROVE AllOK(q)'
      <3>1. /\ RollBack /\ delivered' = delivered /\ quiet' = quiet
            /\ halved' = halved /\ crossed \subseteq crossed'
        BY <1>5 DEF EditSave, Saved, Reschedule
      <3>2. CASE q \notin edits[a].on \/ edits[a].sets = {}
        <4>1. rows'[q] = rows[q]
          BY <1>5, <3>2 DEF EditSave, Saved
        <4> QED
          BY <3>1, <4>1, RolledBackRow
      <3>3. CASE q \in edits[a].on /\ edits[a].sets # {}
        <4>1. /\ rows'[q].status = rows[q].status /\ rows'[q].kind = rows[q].kind
              /\ rows'[q].count = rows[q].count
              /\ rows'[q].sched = Assigned(edits[a], rows[q].sched)
              /\ rows'[q].next = Assigned(edits[a], edits[a].seen)
              /\ q \notin crossed' => rows[q].sched = edits[a].seen
          BY <1>5, <3>3 DEF EditSave, Saved, Inv, TypeOK, Rows
        <4>2. /\ ReadOK(q)' /\ ~Pending(q)' /\ q \notin loop'.left
              /\ InFlight(q)' = 0 /\ lost'[q] = lost[q] + InFlight(q)
              /\ lost'[q] \in Nat /\ lost'[q] >= lost[q]
          BY <3>1, RolledBack
        <4>3. /\ rows[q].count \in Nat /\ delivered[q] \in Nat /\ lost[q] \in Nat
              /\ InFlight(q) \in {0, 1} /\ Present(q)
          BY <1>5, <3>3 DEF Inv, TypeOK, Rows, InFlight, EditSave, Saved, Committing
        <4>4. RowOK(q)'
          BY <4>1, <4>3 DEF RowOK, Inv, AllOK, Present
        <4>5. SentOK(q)'
          BY <3>1, <4>1, <4>2, <4>3 DEF Inv, AllOK, SentOK, Present
        <4>6. QuietOK(q)'
          BY <3>1, <4>1, <4>2 DEF Inv, AllOK, QuietOK
        <4> QED
          BY <4>2, <4>4, <4>5, <4>6 DEF AllOK
      <3> QED
        BY <3>2, <3>3
    <2> QED
      BY <1>0, <2>1, <2>2 DEF Inv
  <1> QED
    BY <1>2, <1>3, <1>4, <1>5 DEF Editing

LEMMA NextInv == Inv /\ [Next]_vars => Inv'
  <1> SUFFICES ASSUME Inv, [Next]_vars PROVE Inv'
    OBVIOUS
  <1>1. CASE Restart
    <2>1. TypeOK'
      BY <1>1, RollBackType, SpendType, NoEdits DEF Restart, TypeOK, Inv
    <2>2. TickOK'
      BY <1>1 DEF Restart, RollBack, TickOK, Asleep
    <2>3. ASSUME NEW q \in Reminders PROVE AllOK(q)'
      BY <1>1, RolledBackRow DEF Restart
    <2> QED
      BY <2>1, <2>2, <2>3 DEF Inv
  <1>2. CASE UNCHANGED vars
    BY <1>2 DEF vars, bot, history, Inv, TypeOK, TickOK, AllOK, ReadOK, RowOK, SentOK, QuietOK,
                Pending, Present, InFlight, Unbooked
  <1> QED
    BY <1>1, <1>2, TickInv, RequestInv, EditingInv DEF Next

-----------------------------------------------------------------------------

\* What a tick read keeps telling the rows it will write, and it holds no reminder
\* twice and none that a command has silenced.
THEOREM TickKnowsRows == Spec => []Strengthening
  BY InitInv, NextInv, InvParts, PTL DEF Spec

\* A row counts every message Discord accepted, once, but for rolled back ticks.
THEOREM DeliveriesCounted == Spec => []CountsDeliveries
  BY InitInv, NextInv, InvParts, PTL DEF Spec

\* The fire time follows the schedule of the row, whatever tick or edit wrote last,
\* unless edits crossed or one was refused half-way.
THEOREM FireTimeFollows == Spec => []ScheduleFollowed
  BY InitInv, NextInv, InvParts, PTL DEF Spec

\* A one-shot reminder is repeated only for messages whose booking was rolled back.
THEOREM OnceSafe == Spec => []OnceUnlessLost
  BY InitInv, NextInv, InvParts, PTL DEF Spec

\* No send of a reminder starts after a command has paused or deleted it.
THEOREM QuietSafe == Spec => QuietAfterCommand
  <1> DEFINE Starts(r) == loop'.at = "sending" /\ loop.at # "sending" /\ r \in loop'.cur
  <1>1. Inv /\ [Next]_vars => [\A r \in Reminders : Starts(r) => r \notin quiet]_vars
    <2> SUFFICES ASSUME Inv, Next, NEW r \in Reminders, Starts(r) PROVE r \notin quiet
      OBVIOUS
    <2>1. ASSUME NEW q \in Reminders, Send(q) PROVE r \notin quiet
      BY <2>1 DEF Send, Inv, TypeOK, Loops, AllOK, QuietOK
    <2>2. ASSUME LoopStep, \A q \in Reminders : ~Send(q) PROVE loop'.at \in {"asleep", "between", "answered"}
      <3>1. CASE Tick
        BY <3>1 DEF Tick, Asleep
      <3>2. ASSUME NEW q \in Reminders, DropOrphan(q) PROVE loop'.at = "between"
        BY <3>2 DEF DropOrphan, Inv, TypeOK, Loops
      <3>3. CASE Delivered \/ Refused \/ Book
        BY <3>3 DEF Delivered, Refused, Book, Inv, TypeOK, Loops
      <3>4. CASE Commit \/ CommitFails
        BY <3>4 DEF Commit, CommitFails, RollBack, Asleep
      <3> QED
        BY <2>2, <3>1, <3>2, <3>3, <3>4 DEF LoopStep
    <2>3. ASSUME ~LoopStep PROVE loop' = loop \/ loop'.at = "asleep"
      <3>1. ASSUME NEW q \in Reminders, Due(q) \/ Dashboard(q) PROVE loop' = loop
        BY <3>1 DEF Due, Dashboard, WebCreate, WebUpdate, WebDelete, bot
      <3>2. ASSUME NEW q \in Reminders, Command(q) PROVE loop'.at = "asleep"
        BY <3>2 DEF Command, Create, Pause, Resume, Delete, Reschedule, RollBack, Asleep
      <3>3. ASSUME NEW a \in Admins, Editing(a) PROVE loop' = loop \/ loop'.at = "asleep"
        BY <3>3 DEF Editing, EditOpen, EditSave, Reschedule, RollBack, EditRefused, EditFails, Asleep
      <3>4. CASE Restart
        BY <3>4 DEF Restart, RollBack, Asleep
      <3> QED
        BY <2>3, <3>1, <3>2, <3>3, <3>4 DEF Next
    <2> QED
      BY <2>1, <2>2, <2>3
  <1> QED
    BY <1>1, InitInv, NextInv, PTL DEF Spec, QuietAfterCommand

(***************************************************************************)
(* MusicQueue, for every number of songs and every bound on the faults.      *)
(***************************************************************************)

-----------------------------------------------------------------------------
(* Type correctness.                                                         *)

LEMMA SongRange == Cardinality(Songs) \in Nat /\ \A s \in Songs : s \in Nat \ {0} /\ s <= Cardinality(Songs)
  BY SongsAssumption, FS_CardinalityType

\* Only requested songs are anywhere, and the queue of a guild holds real ones.
Asked ==
  /\ \A s \in Songs : stage[s] # "new" => s <= asked
  /\ HasQueue => \A i \in 1 .. Len(queue) : queue[i] \in 1 .. asked

Typed == MusicTypeOK /\ Asked

LEMMA NoQueueSeq == <<>> \in Seq(0 .. Cardinality(Songs)) /\ NoQueue \in Seq(0 .. Cardinality(Songs)) /\ <<>> # NoQueue
  BY SongRange DEF NoQueue, NoSong

\* A queue that ends with a requested song, or holds only requested ones, is a queue.
LEMMA RealQueue ==
  ASSUME NEW q, q # <<>> => q[Len(q)] # NoSong
  PROVE  q # NoQueue
  <1>1. Len(NoQueue) = 1 /\ NoQueue[1] = NoSong /\ NoQueue # <<>>
    BY DEF NoQueue
  <1> QED
    BY <1>1

LEMMA MusicInitType == MusicInit => Typed
  <1> SUFFICES ASSUME MusicInit PROVE Typed
    OBVIOUS
  <1>1. stage \in [Songs -> Stages] /\ \A s \in Songs : stage[s] = "new"
    BY DEF MusicInit, Stages
  <1>2. Asked /\ ~HasQueue
    BY <1>1 DEF MusicInit, Asked, HasQueue
  <1>3. asked \in 0 .. Cardinality(Songs) /\ faults \in 0 .. MaxFaults
    BY SongRange, FaultsAssumption DEF MusicInit
  <1>4. queue \in Seq(0 .. Cardinality(Songs))
    BY NoQueueSeq DEF MusicInit
  <1>5. alive \in BOOLEAN /\ overlap \in BOOLEAN /\ broke \in BOOLEAN /\ message \in BOOLEAN
    BY DEF MusicInit
  <1>6. /\ voice = "none" /\ player = "idle" /\ playing = 0 /\ current = 0 /\ last = "no"
        /\ managed = 0 /\ leaving = "no" /\ asked = 0
    BY DEF MusicInit, NoSong
  <1> QED
    BY <1>1, <1>2, <1>3, <1>4, <1>5, <1>6 DEF Typed, MusicTypeOK

LEMMA StopType ==
  ASSUME Typed
  PROVE  LET cleared == [s \in Songs |-> IF stage[s] = "queued" THEN "over" ELSE stage[s]]
         IN  /\ cleared \in [Songs -> Stages]
             /\ \A s \in Songs : cleared[s] # "new" => s <= asked
  BY DEF Typed, MusicTypeOK, Asked, Stages

LEMMA OverType ==
  ASSUME Typed, NEW s \in Songs, Over(s), stage[s] # "new"
  PROVE  /\ stage' \in [Songs -> Stages] /\ managed' \in 0 .. asked
         /\ \A t \in Songs : stage'[t] # "new" => t <= asked
  BY SongRange DEF Typed, MusicTypeOK, Asked, Over, Stages, NoSong

LEMMA MusicRequestType ==
  ASSUME Typed, Request
  PROVE  Typed'
  <1>1. asked \in Nat /\ asked' = asked + 1 /\ asked' \in Songs /\ asked' <= Cardinality(Songs) /\ asked' \in 1 .. Cardinality(Songs)
    BY SongRange DEF Typed, MusicTypeOK, Request
  <1>2. CASE Enqueue(asked')
    <2>1. queue \in Seq(0 .. Cardinality(Songs)) /\ queue' = Append(queue, asked')
      BY <1>2 DEF Typed, MusicTypeOK, Enqueue
    <2>2. queue' \in Seq(0 .. Cardinality(Songs)) /\ Len(queue') = Len(queue) + 1
          /\ (\A i \in 1 .. Len(queue) : queue'[i] = queue[i]) /\ queue'[Len(queue) + 1] = asked'
      BY <1>1, <2>1
    <2>3. \A i \in 1 .. Len(queue') : queue'[i] \in 1 .. asked'
      BY <1>1, <1>2, <2>1, <2>2 DEF Typed, Asked, Enqueue, MusicTypeOK
    <2>4. stage' = [stage EXCEPT ![asked'] = "queued"]
      BY <1>2 DEF Enqueue
    <2>5. stage' \in [Songs -> Stages] /\ \A s \in Songs : stage'[s] # "new" => s <= asked'
      BY <1>1, <2>4, SongRange DEF Typed, MusicTypeOK, Asked, Stages
    <2>6. last # "no" /\ HasQueue
      BY <1>2 DEF Typed, MusicTypeOK, Enqueue
    <2>7. Asked'
      BY <2>3, <2>5 DEF Asked
    <2> QED
      BY <1>1, <1>2, <2>2, <2>5, <2>6, <2>7 DEF Typed, MusicTypeOK, Request, Enqueue
  <1>3. CASE Setup(asked')
    <2>1. stage' = [stage EXCEPT ![asked'] = "fetching"] /\ queue' = <<>> /\ last' = "fresh" /\ overlap' \in BOOLEAN
      BY <1>3 DEF Setup, Overlapping, Typed, MusicTypeOK
    <2>2. stage' \in [Songs -> Stages] /\ \A s \in Songs : stage'[s] # "new" => s <= asked'
      BY <1>1, <2>1, SongRange DEF Typed, MusicTypeOK, Asked, Stages
    <2>3. Asked'
      BY <2>1, <2>2 DEF Asked
    <2> QED
      BY <1>1, <2>1, <2>2, <2>3, NoQueueSeq DEF Typed, MusicTypeOK, Request
  <1> QED
    BY <1>2, <1>3 DEF Request

LEMMA TakeType ==
  ASSUME Typed, ManagerTakes
  PROVE  Typed'
  <1>1. queue \in Seq(0 .. Cardinality(Songs)) /\ queue # <<>> /\ HasQueue
    BY DEF Typed, MusicTypeOK, ManagerTakes
  <1>2. Len(queue) >= 1 /\ Head(queue) = queue[1] /\ Tail(queue) \in Seq(0 .. Cardinality(Songs))
        /\ Len(Tail(queue)) = Len(queue) - 1 /\ \A i \in 1 .. Len(queue) - 1 : Tail(queue)[i] = queue[i + 1]
    BY <1>1
  <1>3. Head(queue) \in 1 .. asked /\ Head(queue) \in Songs
    BY <1>1, <1>2, SongRange, SongsAssumption DEF Typed, MusicTypeOK, Asked
  <1>4. \A i \in 1 .. Len(Tail(queue)) : Tail(queue)[i] \in 1 .. asked
    BY <1>1, <1>2 DEF Typed, Asked
  <1>5. stage' = [stage EXCEPT ![Head(queue)] = "fetching"] /\ managed' = Head(queue) /\ queue' = Tail(queue)
        /\ overlap' \in BOOLEAN
    BY DEF ManagerTakes, Overlapping, Typed, MusicTypeOK
  <1>6. stage' \in [Songs -> Stages] /\ \A s \in Songs : stage'[s] # "new" => s <= asked
    BY <1>3, <1>5 DEF Typed, MusicTypeOK, Asked, Stages
  <1>7. Asked'
    BY <1>4, <1>5, <1>6 DEF Asked, ManagerTakes
  <1>8. last # "no" /\ UNCHANGED <<asked, voice, session, alive, leaving, faults, broke>>
    BY DEF ManagerTakes, Ready
  <1> QED
    BY <1>2, <1>3, <1>5, <1>6, <1>7, <1>8 DEF Typed, MusicTypeOK, session

\* What the steps that leave requests and queue alone have to show.
LEMMA QueueKept ==
  ASSUME Typed, UNCHANGED <<asked, queue>>, \A t \in Songs : stage'[t] # "new" => t <= asked
  PROVE  Asked' /\ (HasQueue' <=> HasQueue)
  BY DEF Typed, Asked, HasQueue

LEMMA SongType ==
  ASSUME Typed, NEW s \in Songs, Fetched(s) \/ FetchFails(s) \/ Start(s) \/ JoinFails(s) \/ Announce(s)
  PROVE  Typed'
  <1>0. s \in 1 .. asked /\ stage[s] # "new" /\ asked \in Nat
    <2>1. stage[s] # "new"
      BY DEF Fetched, FetchFails, Start, JoinFails, Announce, Joined
    <2> QED
      BY <2>1, SongRange DEF Typed, MusicTypeOK, Asked
  <1>1. /\ stage' \in [Songs -> Stages] /\ managed' \in 0 .. asked
        /\ \A t \in Songs : stage'[t] # "new" => t <= asked
    <2>1. CASE Over(s)
      BY <1>0, <2>1, OverType
    <2>2. CASE \E x \in {"moving", "connecting", "announcing"} : stage' = [stage EXCEPT ![s] = x] /\ managed' = managed
      BY <1>0, <2>2 DEF Typed, MusicTypeOK, Asked, Stages
    <2> QED
      BY <2>1, <2>2 DEF Fetched, FetchFails, Start, Plays, JoinFails, Announce, Raises
  <1>2. UNCHANGED <<asked, queue>>
    BY DEF Fetched, FetchFails, Start, JoinFails, Announce, buffer
  <1>3. Asked' /\ (HasQueue' <=> HasQueue)
    BY <1>1, <1>2, QueueKept
  <1>4. CASE Fetched(s)
    <2>1. alive' \in BOOLEAN
      BY <1>4 DEF Typed, MusicTypeOK, Fetched, Raises
    <2>2. UNCHANGED <<asked, buffer, session, leaving, faults, musicHistory>>
      BY <1>4 DEF Fetched
    <2> QED
      BY <1>1, <1>2, <1>3, <2>1, <2>2 DEF Typed, MusicTypeOK, buffer, session, musicHistory
  <1>5. CASE FetchFails(s)
    <2>1. broke' \in BOOLEAN /\ alive' \in BOOLEAN
      BY <1>5 DEF Typed, MusicTypeOK, FetchFails, Raises
    <2>2. faults' \in 0 .. MaxFaults
      BY <1>5, FaultsAssumption DEF Typed, MusicTypeOK, FetchFails, Fault
    <2> QED
      BY <1>1, <1>2, <1>3, <1>5, <2>1, <2>2 DEF Typed, MusicTypeOK, FetchFails, buffer, session
  <1>6. CASE JoinFails(s)
    BY <1>1, <1>2, <1>3, <1>6, FaultsAssumption DEF Typed, MusicTypeOK, JoinFails, buffer, session, musicHistory, Fault
  <1>7. CASE Announce(s)
    <2>1. message' \in BOOLEAN
      <3>1. message \in BOOLEAN
        BY DEF Typed, MusicTypeOK
      <3>2. message' = TRUE \/ message' = message \/ message' = FALSE
        BY <1>7, Zenon DEF Announce
      <3> QED
        BY <3>1, <3>2, Zenon
    <2>2. faults' \in 0 .. MaxFaults
      <3>1. faults' = faults \/ Fault
        BY <1>7, Zenon DEF Announce
      <3> QED
        BY <3>1, FaultsAssumption DEF Typed, MusicTypeOK, Fault
    <2>3. UNCHANGED <<asked, buffer, player, playing, current, last, alive, leaving, musicHistory>>
      BY <1>7 DEF Announce
    <2> QED
      BY <1>1, <1>2, <1>3, <2>1, <2>2, <2>3 DEF Typed, MusicTypeOK, buffer, musicHistory
  <1>8. CASE Start(s)
    <2>0. alive' \in BOOLEAN
      <3>1. Plays(s)
        BY <1>8 DEF Start
      <3>2. CASE player = "playing"
        BY <3>1, <3>2 DEF Plays, Raises, Typed, MusicTypeOK
      <3>3. CASE player # "playing"
        BY <3>1, <3>3 DEF Plays, Typed, MusicTypeOK
      <3> QED
        BY <3>2, <3>3
    <2>1. /\ player' \in {"idle", "playing", "paused"} /\ playing' \in 0 .. asked
          /\ last' \in {"no", "fresh", "old"} /\ (last # "no" => last' # "no")
      BY <1>0, <1>8 DEF Typed, MusicTypeOK, Start, Plays
    <2>2. UNCHANGED <<message, leaving, faults, overlap, broke>> /\ voice' = "on" /\ current' = s
      BY <1>8 DEF Start, musicHistory
    <2> QED
      BY <1>0, <1>1, <1>2, <1>3, <2>0, <2>1, <2>2 DEF Typed, MusicTypeOK
  <1> QED
    BY <1>4, <1>5, <1>6, <1>7, <1>8

ControlStep == SongEnds \/ Skip \/ PauseResume \/ EmbedGone \/ Kicked \/ GrowsOld \/ StillPlaying \/ ManagerDies \/ DeleteFails

LEMMA ControlType ==
  ASSUME Typed, ControlStep
  PROVE  Typed'
  <1>1. UNCHANGED <<asked, queue, stage, managed, playing, current, overlap>>
    BY DEF ControlStep, SongEnds, Skip, PauseResume, EmbedGone, Kicked, GrowsOld, StillPlaying, ManagerDies,
           DeleteFails, Controls, buffer, session, musicHistory
  <1>2. Asked' /\ (HasQueue' <=> HasQueue)
    BY <1>1, QueueKept DEF Typed, Asked
  <1>3. CASE SongEnds
    BY <1>1, <1>2, <1>3, FaultsAssumption DEF Typed, MusicTypeOK, SongEnds, Controls, buffer, session, musicHistory, Fault
  <1>4. CASE Skip
    BY <1>1, <1>2, <1>4, FaultsAssumption DEF Typed, MusicTypeOK, Skip, Controls, buffer, session, musicHistory, Fault
  <1>5. CASE PauseResume
    BY <1>1, <1>2, <1>5, FaultsAssumption DEF Typed, MusicTypeOK, PauseResume, Controls, buffer, session, musicHistory, Fault
  <1>6. CASE EmbedGone
    BY <1>1, <1>2, <1>6, FaultsAssumption DEF Typed, MusicTypeOK, EmbedGone, Controls, buffer, session, musicHistory, Fault
  <1>7. CASE Kicked
    BY <1>1, <1>2, <1>7, FaultsAssumption DEF Typed, MusicTypeOK, Kicked, Controls, buffer, session, musicHistory, Fault
  <1>8. CASE GrowsOld
    BY <1>1, <1>2, <1>8, FaultsAssumption DEF Typed, MusicTypeOK, GrowsOld, Controls, buffer, session, musicHistory, Fault
  <1>9. CASE StillPlaying
    BY <1>1, <1>2, <1>9, FaultsAssumption DEF Typed, MusicTypeOK, StillPlaying, Controls, buffer, session, musicHistory, Fault
  <1>10. CASE ManagerDies
    BY <1>1, <1>2, <1>10, FaultsAssumption DEF Typed, MusicTypeOK, ManagerDies, Controls, buffer, session, musicHistory, Fault
  <1>11. CASE DeleteFails
    BY <1>1, <1>2, <1>11, FaultsAssumption DEF Typed, MusicTypeOK, DeleteFails, Controls, buffer, session, musicHistory, Fault
  <1> QED
    BY <1>3, <1>4, <1>5, <1>6, <1>7, <1>8, <1>9, <1>10, <1>11 DEF ControlStep

LEMMA ClearType ==
  ASSUME Typed, UNCHANGED <<asked, playing, managed, alive, faults, broke>>,
         overlap' \in BOOLEAN, voice' \in {voice, "off"}, player' \in {player, "idle"},
         player' # "idle" => voice' = "on",
         \/ ClearBuffer /\ message' \in BOOLEAN
         \/ TakeMessage
         \/ leaving' = "disconnecting" /\ UNCHANGED <<stage, queue, last, current, message>>
  PROVE  Typed'
  <1>1. CASE ClearBuffer /\ message' \in BOOLEAN
    <2>1. stage' \in [Songs -> Stages] /\ \A s \in Songs : stage'[s] # "new" => s <= asked
      BY <1>1, StopType DEF ClearBuffer
    <2>2. Asked' /\ ~HasQueue' /\ queue' \in Seq(0 .. Cardinality(Songs))
      BY <1>1, <2>1, NoQueueSeq DEF ClearBuffer, Asked, HasQueue
    <2> QED
      BY <1>1, <2>1, <2>2 DEF Typed, MusicTypeOK, ClearBuffer, NoSong
  <1>2. CASE leaving' \in {"disconnecting", "deleting"} /\ message' \in BOOLEAN
             /\ UNCHANGED <<stage, queue, last, current>>
    <2>1. Asked' /\ (HasQueue' <=> HasQueue)
      BY <1>2, QueueKept DEF Typed, Asked
    <2> QED
      BY <1>2, <2>1 DEF Typed, MusicTypeOK
  <1> QED
    BY <1>1, <1>2 DEF TakeMessage, Typed, MusicTypeOK

LEMMA LeaveType ==
  ASSUME Typed, Leave \/ TimedOut \/ Disconnected \/ Deleted
  PROVE  Typed'
  <1>1. CASE Leave \/ TimedOut
    BY <1>1, ClearType DEF Leave, TimedOut, Typed, MusicTypeOK
  <1>2. CASE Disconnected \/ Deleted
    BY <1>2, ClearType DEF Disconnected, Deleted, Typed, MusicTypeOK, musicHistory
  <1> QED
    BY <1>1, <1>2

LEMMA StopAndClearType ==
  ASSUME Typed, NEW button \in BOOLEAN, StopAndClear(button)
  PROVE  Typed'
  <1>1. stage' \in [Songs -> Stages] /\ \A s \in Songs : stage'[s] # "new" => s <= asked
    BY StopType DEF StopAndClear
  <1>2. Asked' /\ queue' \in Seq(0 .. Cardinality(Songs))
    BY <1>1, NoQueueSeq DEF StopAndClear, Asked
  <1> QED
    BY <1>1, <1>2 DEF Typed, MusicTypeOK, StopAndClear, musicHistory, NoSong

LEMMA StutterType ==
  ASSUME Typed, UNCHANGED musicVars
  PROVE  Typed'
  BY DEF Typed, MusicTypeOK, Asked, HasQueue, musicVars, buffer, session, musicHistory

LEMMA NextType ==
  ASSUME Typed, [MusicNext]_musicVars
  PROVE  Typed'
  BY MusicRequestType, TakeType, SongType, ControlType, LeaveType, StopAndClearType, StutterType
     DEF MusicNext, ControlStep

\* The types of MusicQueue, with what plays in a connected voice client and a guild with
\* a queue among those the managers look at (audio.py:32).
THEOREM MusicTypeCorrect == MusicSpec => []MusicTypeOK
  <1>1. MusicInit => Typed
    BY MusicInitType
  <1>2. Typed /\ [MusicNext]_musicVars => Typed'
    BY NextType
  <1>3. Typed => MusicTypeOK
    BY DEF Typed
  <1> QED
    BY <1>1, <1>2, <1>3, PTL DEF MusicSpec

-----------------------------------------------------------------------------
(* What keeps the queue manager alive and a guild that was left silent.      *)

Quiet == player = "idle" /\ voice # "on" /\ ~message /\ current = NoSong /\ last = "no"

\* As long as the songs under way and a leave never ran beside each other: one song is
\* under way at most, before it starts nothing plays, a leave finds nothing under way,
\* and a guild without a queue is silent.
Alone ==
  /\ \A s, t \in UnderWay : s = t
  /\ \A s \in Songs : stage[s] \in {"fetching", "moving", "connecting"} => player = "idle"
  /\ leaving # "no" => UnderWay = {} /\ HasQueue /\ voice # "on"
  /\ leaving = "deleting" => ~message
  /\ ~HasQueue => UnderWay = {} /\ Quiet

Sound == Typed /\ (overlap \/ Alone) /\ ManagerLives

LEMMA InitSound == MusicInit => Sound
  <1> SUFFICES ASSUME MusicInit PROVE Sound
    OBVIOUS
  <1>1. UnderWay = {} /\ \A s \in Songs : stage[s] = "new"
    BY DEF MusicInit, UnderWay
  <1>2. leaving = "no" /\ Quiet
    BY DEF MusicInit, Quiet
  <1>3. Alone
    BY <1>1, <1>2 DEF Alone
  <1>4. ManagerLives
    BY DEF MusicInit, ManagerLives
  <1> QED
    BY <1>3, <1>4, MusicInitType DEF Sound

\* Steps of the player and of the managers that leave the songs where they are.
LEMMA UnderWayKept ==
  ASSUME UNCHANGED stage
  PROVE  UnderWay' = UnderWay
  BY DEF UnderWay

\* Dropping what waits in the queue leaves what is under way.
LEMMA UnderWayCleared ==
  ASSUME Typed, stage' = [s \in Songs |-> IF stage[s] = "queued" THEN "over" ELSE stage[s]]
  PROVE  /\ UnderWay' = UnderWay
         /\ \A s \in Songs : stage'[s] \in {"fetching", "moving", "connecting"} <=>
                              stage[s] \in {"fetching", "moving", "connecting"}
  BY DEF UnderWay

LEMMA RequestAlone ==
  ASSUME Typed, Request, Alone, ~overlap'
  PROVE  Alone'
  <1>1. asked' \in Songs /\ UNCHANGED <<voice, player, playing, current, message, leaving>>
    BY DEF Request
  <1>2. CASE Enqueue(asked')
    <2>1. stage' = [stage EXCEPT ![asked'] = "queued"] /\ HasQueue
      BY <1>2 DEF Enqueue
    <2>2. stage[asked'] = "new"
      BY <1>1, SongRange DEF Typed, MusicTypeOK, Asked, Request, Stages
    <2>3. UnderWay' = UnderWay /\ \A s \in Songs : stage'[s] \in {"fetching", "moving", "connecting"} =>
                              stage[s] \in {"fetching", "moving", "connecting"}
      BY <1>1, <2>1, <2>2 DEF UnderWay, Typed, MusicTypeOK
    <2>4. HasQueue'
      <3>1. queue \in Seq(0 .. Cardinality(Songs)) /\ queue' = Append(queue, asked') /\ asked' # NoSong
        BY <1>1, <1>2, SongRange DEF Enqueue, Typed, MusicTypeOK, NoSong
      <3>2. queue'[Len(queue')] = asked'
        BY <1>1, <3>1, SongRange
      <3> QED
        BY <3>1, <3>2, RealQueue DEF HasQueue
    <2> QED
      BY <1>1, <2>1, <2>3, <2>4 DEF Alone
  <1>3. CASE Setup(asked')
    <2>1. stage' = [stage EXCEPT ![asked'] = "fetching"] /\ queue' = <<>> /\ UnderWay = {} /\ leaving = "no"
          /\ ~HasQueue
      BY <1>3 DEF Setup, Overlapping
    <2>2. UnderWay' = {asked'}
      BY <1>1, <2>1 DEF UnderWay, Typed, MusicTypeOK
    <2>3. player' = "idle" /\ HasQueue'
      BY <1>1, <2>1, NoQueueSeq DEF Alone, Quiet, HasQueue
    <2> QED
      BY <1>1, <2>1, <2>2, <2>3 DEF Alone
  <1> QED
    BY <1>2, <1>3 DEF Request

LEMMA TakeAlone ==
  ASSUME Typed, ManagerTakes, Alone, ~overlap'
  PROVE  Alone'
  <1>1. UnderWay = {} /\ leaving = "no" /\ player = "idle" /\ UNCHANGED <<player, leaving>>
    BY DEF ManagerTakes, Overlapping, session
  <1>2. queue # <<>> /\ HasQueue /\ queue \in Seq(0 .. Cardinality(Songs)) /\ queue' = Tail(queue)
    BY DEF ManagerTakes, Typed, MusicTypeOK
  <1>3. Head(queue) = queue[1] /\ Len(queue) >= 1 /\ Len(Tail(queue)) = Len(queue) - 1
        /\ \A i \in 1 .. Len(queue) - 1 : Tail(queue)[i] = queue[i + 1]
    BY <1>2
  <1>4. \A i \in 1 .. Len(queue) : queue[i] # NoSong
    BY <1>2 DEF Typed, Asked, NoSong
  <1>5. HasQueue'
    <2>1. queue' # <<>> => Len(queue') \in 1 .. Len(queue) - 1
      BY <1>2, <1>3
    <2>2. queue' # <<>> => queue'[Len(queue')] # NoSong
      BY <1>2, <1>3, <1>4, <2>1
    <2> QED
      BY <2>2, RealQueue DEF HasQueue
  <1>6. stage' = [stage EXCEPT ![Head(queue)] = "fetching"]
    BY DEF ManagerTakes
  <1>7. \A s, t \in UnderWay' : s = t
    BY <1>1, <1>6 DEF UnderWay, Typed, MusicTypeOK
  <1> QED
    BY <1>1, <1>5, <1>7 DEF Alone

\* A song that runs alone is never refused the connection or the player.
LEMMA NotRefused ==
  ASSUME Typed, Alone, NEW s \in Songs
  PROVE  /\ stage[s] = "fetching" => leaving # "disconnecting" /\ ~\E t \in Songs : stage[t] = "connecting"
         /\ Joined(s) => player # "playing"
  <1>1. ASSUME stage[s] = "fetching"
        PROVE  leaving # "disconnecting" /\ ~\E t \in Songs : stage[t] = "connecting"
    <2>1. s \in UnderWay
      BY <1>1 DEF UnderWay
    <2>2. ASSUME NEW t \in Songs, stage[t] = "connecting"
          PROVE  FALSE
      <3>1. t \in UnderWay
        BY <2>2 DEF UnderWay
      <3> QED
        BY <1>1, <2>1, <2>2, <3>1 DEF Alone
    <2> QED
      BY <2>1, <2>2 DEF Alone
  <1>2. Joined(s) => player # "playing"
    BY DEF Joined, Alone
  <1> QED
    BY <1>1, <1>2

LEMMA SongAlone ==
  ASSUME Typed, NEW s \in Songs, Alone, ~overlap',
         Fetched(s) \/ FetchFails(s) \/ Start(s) \/ JoinFails(s) \/ Announce(s)
  PROVE  Alone'
  <1>1. s \in UnderWay /\ UNCHANGED <<queue, leaving>>
    BY DEF Fetched, FetchFails, Start, JoinFails, Announce, Joined, UnderWay, buffer
  <1>2. leaving = "no" /\ HasQueue /\ HasQueue' /\ leaving' = "no"
    BY <1>1 DEF Alone, HasQueue
  <1>3. \A t \in Songs : t # s => stage[t] \notin {"fetching", "moving", "connecting", "announcing"}
    BY <1>1 DEF Alone, UnderWay
  <1>4. \A t \in Songs : t # s => stage'[t] = stage[t]
    BY DEF Fetched, FetchFails, Start, Plays, JoinFails, Announce, Raises, Over, Typed, MusicTypeOK
  <1>5. \A t, u \in UnderWay' : t = u
    BY <1>3, <1>4 DEF UnderWay
  <1>6. stage'[s] \in {"fetching", "moving", "connecting"} => player' = "idle"
    <2>1. CASE Fetched(s)
      BY <2>1, <1>1 DEF Fetched, Alone, session
    <2>2. CASE Start(s)
      BY <2>2, NotRefused DEF Start, Plays, Typed, MusicTypeOK
    <2>3. CASE FetchFails(s) \/ JoinFails(s) \/ Announce(s)
      BY <2>3 DEF FetchFails, JoinFails, Announce, Raises, Over, Typed, MusicTypeOK
    <2> QED
      BY <2>1, <2>2, <2>3
  <1> QED
    BY <1>2, <1>3, <1>4, <1>5, <1>6 DEF Alone

LEMMA ControlAlone ==
  ASSUME Typed, ControlStep, Alone, ~overlap'
  PROVE  Alone'
  <1>1. UNCHANGED <<stage, queue, current>>
    BY DEF ControlStep, SongEnds, Skip, PauseResume, EmbedGone, Kicked, GrowsOld, StillPlaying, ManagerDies,
           DeleteFails, Controls, buffer, session
  <1>2. UnderWay' = UnderWay /\ (HasQueue' <=> HasQueue)
    BY <1>1, UnderWayKept DEF HasQueue
  <1>3. leaving' \in {leaving, "no"} /\ (voice' = "on" => voice = "on") /\ (player = "idle" => player' = "idle")
        /\ (last = "no" => last' = "no")
    BY DEF ControlStep, SongEnds, Skip, PauseResume, EmbedGone, Kicked, GrowsOld, StillPlaying, ManagerDies,
           DeleteFails, Controls, buffer, session
  <1>4. message' => message
    BY DEF ControlStep, SongEnds, Skip, PauseResume, EmbedGone, Kicked, GrowsOld, StillPlaying, ManagerDies,
           DeleteFails, Controls, buffer, session
  <1> QED
    BY <1>1, <1>2, <1>3, <1>4 DEF Alone, Quiet

LEMMA StopAndClearAlone ==
  ASSUME Typed, NEW button \in BOOLEAN, StopAndClear(button), Alone, ~overlap'
  PROVE  Alone'
  <1>1. stage' = [s \in Songs |-> IF stage[s] = "queued" THEN "over" ELSE stage[s]]
        /\ queue' = <<>> /\ player' = "idle" /\ UNCHANGED <<voice, leaving>>
    BY DEF StopAndClear
  <1>2. message' => message
    BY DEF StopAndClear
  <1>3. HasQueue'
    BY <1>1, NoQueueSeq DEF HasQueue
  <1> QED
    BY <1>1, <1>2, <1>3, UnderWayCleared DEF Alone

LEMMA LeaveAlone ==
  ASSUME Typed, Leave \/ TimedOut \/ Disconnected \/ Deleted, Alone, ~overlap'
  PROVE  Alone'
  <1>1. UnderWay = {} /\ \A s \in Songs : stage[s] \notin {"fetching", "moving", "connecting"}
    <2>1. UnderWay = {}
      BY DEF Leave, TimedOut, Disconnected, Deleted, Alone
    <2> QED
      BY <2>1 DEF UnderWay
  <1>2. voice' # "on" /\ player' = "idle"
    BY DEF Leave, TimedOut, Disconnected, Deleted, Alone, Typed, MusicTypeOK
  <1>3. CASE leaving' = "disconnecting" /\ UNCHANGED <<stage, queue>> /\ voice = "on"
    <2>1. HasQueue /\ HasQueue' /\ UnderWay' = {}
      BY <1>1, <1>3, UnderWayKept DEF Alone, Quiet, HasQueue
    <2> QED
      BY <1>1, <1>2, <1>3, <2>1 DEF Alone
  <1>4. CASE leaving' = "deleting" /\ UNCHANGED <<stage, queue>> /\ message /\ ~message'
    <2>1. HasQueue /\ HasQueue' /\ UnderWay' = {}
      BY <1>1, <1>4, UnderWayKept DEF Alone, Quiet, HasQueue
    <2> QED
      BY <1>1, <1>2, <1>4, <2>1 DEF Alone
  <1>5. CASE ClearBuffer /\ ~message'
    <2>1. UnderWay' = {} /\ \A s \in Songs : stage'[s] \notin {"fetching", "moving", "connecting"}
      BY <1>1, <1>5, UnderWayCleared DEF ClearBuffer
    <2> QED
      BY <1>2, <1>5, <2>1 DEF Alone, Quiet, ClearBuffer
  <1>6. \/ leaving' = "disconnecting" /\ UNCHANGED <<stage, queue>> /\ voice = "on"
        \/ leaving' = "deleting" /\ UNCHANGED <<stage, queue>> /\ message /\ ~message'
        \/ ClearBuffer /\ ~message'
    BY DEF Leave, TimedOut, Disconnected, Deleted, TakeMessage, Alone
  <1> QED
    BY <1>3, <1>4, <1>5, <1>6

\* What ran beside each other, or broke, is not forgotten.
LEMMA NextRemembers ==
  ASSUME [MusicNext]_musicVars
  PROVE  (overlap => overlap') /\ (broke => broke')
  <1>1. overlap => overlap'
    BY DEF MusicNext, musicVars, Request, Enqueue, Setup, Overlapping, ManagerTakes, ManagerDies, Fetched, FetchFails, Start,
           JoinFails, Announce, SongEnds, Skip, PauseResume, StopAndClear, EmbedGone, Kicked, Controls, Leave,
           Disconnected, Deleted, DeleteFails, GrowsOld, StillPlaying, TimedOut, musicHistory
  <1>2. ASSUME NEW s \in Songs, FetchFails(s), broke
        PROVE  broke'
    BY <1>2, Zenon DEF FetchFails
  <1>3. broke => broke'
    BY <1>2 DEF MusicNext, musicVars, Request, ManagerTakes, ManagerDies, Fetched, Start,
           JoinFails, Announce, SongEnds, Skip, PauseResume, StopAndClear, EmbedGone, Kicked, Controls, Leave,
           Disconnected, Deleted, DeleteFails, GrowsOld, StillPlaying, TimedOut, musicHistory
  <1> QED
    BY <1>1, <1>3

LEMMA NextAlone ==
  ASSUME Sound, [MusicNext]_musicVars
  PROVE  overlap' \/ Alone'
  <1> SUFFICES ASSUME ~overlap' PROVE Alone'
    OBVIOUS
  <1>1. ~overlap
    BY NextRemembers
  <1>2. CASE UNCHANGED musicVars
    BY <1>1, <1>2, UnderWayKept DEF Sound, Alone, Quiet, HasQueue, musicVars, buffer, session, musicHistory
  <1> QED
    BY <1>1, <1>2, RequestAlone, TakeAlone, SongAlone, ControlAlone, StopAndClearAlone, LeaveAlone
       DEF MusicNext, Sound, ControlStep

\* The three ways a step can end the loop.
LEMMA NextLives ==
  ASSUME Sound, [MusicNext]_musicVars
  PROVE  ManagerLives'
  <1>1. (overlap => overlap') /\ (broke => broke')
    BY NextRemembers
  <1>2. CASE alive' = alive
    BY <1>1, <1>2 DEF Sound, ManagerLives
  <1>3. CASE ManagerDies
    BY <1>1, <1>3 DEF ManagerDies, Ready, Sound, Alone, Quiet, ManagerLives
  <1>4. ASSUME NEW s \in Songs, Fetched(s), alive' # alive
        PROVE  ManagerLives'
    BY <1>1, <1>4, NotRefused DEF Fetched, Sound, ManagerLives
  <1>5. ASSUME NEW s \in Songs, Start(s), alive' # alive
        PROVE  ManagerLives'
    BY <1>1, <1>5, NotRefused DEF Start, Plays, Sound, ManagerLives
  <1>6. ASSUME NEW s \in Songs, FetchFails(s), alive' # alive
        PROVE  ManagerLives'
    BY <1>1, <1>6 DEF FetchFails, Raises, Sound, ManagerLives
  <1> QED
    BY <1>2, <1>3, <1>4, <1>5, <1>6
       DEF MusicNext, musicVars, Request, ManagerTakes, JoinFails, Announce, SongEnds, Skip, PauseResume, StopAndClear,
           EmbedGone, Kicked, Controls, Leave, Disconnected, Deleted, DeleteFails, GrowsOld, StillPlaying, TimedOut

LEMMA Soundness == MusicSpec => []Sound
  <1>1. Sound /\ [MusicNext]_musicVars => Sound'
    BY NextType, NextAlone, NextLives DEF Sound
  <1> QED
    BY <1>1, InitSound, PTL DEF MusicSpec

\* Whatever the requests, skips, kicks and failures: the loop that plays the queues of
\* every guild ends only by a failed download of its own, a failed deletion of an embed,
\* or a leave beside songs under way (audio.py:141).
THEOREM ManagerSurvives == MusicSpec => []ManagerLives
  <1>1. Sound => ManagerLives
    BY DEF Sound
  <1> QED
    BY <1>1, Soundness, PTL

\* A guild that was left is as if nothing had been played (audio.py:303).
THEOREM LeavesSilence == MusicSpec => []SilentAfterLeave
  <1>1. Sound => SilentAfterLeave
    BY DEF Sound, Alone, Quiet, SilentAfterLeave
  <1> QED
    BY <1>1, Soundness, PTL

=============================================================================
