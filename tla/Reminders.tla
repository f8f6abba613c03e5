----------------------------- MODULE Reminders -----------------------------
(***************************************************************************)
(* Reminders of Discord channels: the loop that sends what is due, the     *)
(* slash commands and the dashboard (NerdyPy/modules/reminder.py,          *)
(* web/routes/guilds.py).                                                  *)
(*                                                                         *)
(* One loop serves all guilds.  A tick reads the due rows in one session,  *)
(* sends them one after the other and books what it sent in a single       *)
(* commit.  Every command ends by restarting the loop, which cancels a     *)
(* tick at the send it waits for, so its session is closed without the     *)
(* commit.  The dashboard changes rows and restarts nothing.  Time is what *)
(* makes a reminder due; how long the loop sleeps is left out.             *)
(***************************************************************************)
EXTENDS Integers

CONSTANTS
  Reminders,    \* ids, each used for one row
  Admins,       \* those that edit, each with one edit under way (a bound)
  Columns,      \* the columns of a schedule, numbered in the order an edit assigns them
  MaxCommands,  \* bound on commands, dashboard requests, restarts and database failures
  MaxCount      \* bound on how often a reminder becomes due again

ASSUME ConstantsAssumption == Columns \subseteq Nat /\ MaxCommands \in Nat /\ MaxCount \in Nat

VARIABLES
  rows,       \* ReminderMessage
  loop,       \* the running tick: rows still to send, rows as read, writes not yet committed
  edits,      \* /reminder edit between reading the row and committing it
  commands,   \* how many of MaxCommands have been spent
  delivered,  \* history: messages Discord accepted
  lost,       \* history: of these, the ones whose booking was rolled back
  quiet,      \* history: reminders a command paused or deleted, and nobody resumed
  refused,    \* history: reminders Discord refused
  crossed,    \* history: reminders saved by an edit that had read an older schedule
  halved      \* history: reminders with columns saved by an edit that was refused

bot == <<loop, edits>>
history == <<delivered, lost, quiet, refused, crossed, halved>>
vars == <<rows, bot, commands, history>>

-----------------------------------------------------------------------------
Versions == 0 .. MaxCommands
Fresh == [c \in Columns |-> 0]
NoRow == [status |-> "none", kind |-> "once", due |-> FALSE, sched |-> Fresh, next |-> Fresh, count |-> 0]
NewRow(k) == [NoRow EXCEPT !.status = "enabled", !.kind = k]
Present(r) == rows[r].status \in {"enabled", "paused"}

Asleep ==
  [at |-> "asleep", left |-> {}, cur |-> {}, seen |-> [r \in Reminders |-> NoRow],
   writes |-> [r \in Reminders |-> "none"]]
NoEdit == [on |-> {}, valid |-> TRUE, sets |-> {}, seen |-> Fresh, version |-> 0]

Init ==
  /\ rows = [r \in Reminders |-> NoRow]
  /\ loop = Asleep
  /\ edits = [a \in Admins |-> NoEdit]
  /\ commands = 0
  /\ delivered = [r \in Reminders |-> 0]
  /\ lost = [r \in Reminders |-> 0]
  /\ quiet = {} /\ refused = {} /\ crossed = {} /\ halved = {}

\* NextFire passes.
Due(r) ==
  /\ Present(r) /\ ~rows[r].due /\ rows[r].count < MaxCount
  /\ rows' = [rows EXCEPT ![r].due = TRUE]
  /\ UNCHANGED <<bot, commands, history>>

-----------------------------------------------------------------------------
\* The loop.  A row keeps the values it was read with until the tick ends.
Tick ==
  /\ loop.at = "asleep"
  /\ loop' = [Asleep EXCEPT !.at = "between", !.seen = rows,
                            !.left = {r \in Reminders : rows[r].status = "enabled" /\ rows[r].due}]
  /\ UNCHANGED <<rows, edits, commands, history>>

\* The guild or the channel is not in the client's cache: session.delete.
DropOrphan(r) ==
  /\ loop.at = "between" /\ r \in loop.left
  /\ loop' = [loop EXCEPT !.left = @ \ {r}, !.writes[r] = "drop"]
  /\ UNCHANGED <<rows, edits, commands, history>>

Send(r) ==
  /\ loop.at = "between" /\ r \in loop.left
  /\ loop' = [loop EXCEPT !.at = "sending", !.left = @ \ {r}, !.cur = {r}]
  /\ UNCHANGED <<rows, edits, commands, history>>

Delivered ==
  /\ loop.at = "sending"
  /\ loop' = [loop EXCEPT !.at = "answered"]
  /\ delivered' = [r \in Reminders |-> delivered[r] + (IF r \in loop.cur THEN 1 ELSE 0)]
  /\ UNCHANGED <<rows, edits, commands, lost, quiet, refused, crossed, halved>>

\* Mutant: the error of one reminder ends the tick.
RefusedEndsTick ==
  /\ loop.at = "sending"
  /\ loop' = [loop EXCEPT !.at = "between", !.left = {}, !.cur = {}]
  /\ refused' = refused \cup loop.cur
  /\ UNCHANGED <<rows, edits, commands, delivered, lost, quiet, crossed, halved>>

\* Mutant: a refused message is booked like a delivered one.
RefusedIsBooked ==
  /\ loop.at = "sending"
  /\ loop' = [loop EXCEPT !.at = "answered"]
  /\ refused' = refused \cup loop.cur
  /\ UNCHANGED <<rows, edits, commands, delivered, lost, quiet, crossed, halved>>

\* The error is reported, the row stays due, the tick goes on.
Refused ==
  /\ loop.at = "sending"
  /\ loop' = [loop EXCEPT !.at = "between", !.cur = {}]
  /\ refused' = refused \cup loop.cur
  /\ UNCHANGED <<rows, edits, commands, delivered, lost, quiet, crossed, halved>>

\* compute_next_fire knows no next time for a one-shot reminder: it is deleted.
Book ==
  /\ loop.at = "answered"
  /\ loop' = [loop EXCEPT
       !.at = "between", !.cur = {},
       !.writes = [r \in Reminders |->
         IF r \in loop.cur THEN (IF loop.seen[r].kind = "once" THEN "end" ELSE "book")
         ELSE loop.writes[r]]]
  /\ UNCHANGED <<rows, edits, commands, history>>

Written(r) ==
  CASE loop.writes[r] = "none" -> rows[r]
    [] loop.writes[r] = "book" ->
         [rows[r] EXCEPT !.count = loop.seen[r].count + 1, !.due = FALSE, !.next = loop.seen[r].sched]
    [] loop.writes[r] \in {"end", "drop"} -> [rows[r] EXCEPT !.status = "deleted"]

\* An UPDATE of a row deleted meanwhile fails the flush; deleting it twice does not.
Stale == \E r \in Reminders : loop.writes[r] = "book" /\ rows[r].status = "deleted"

Commit ==
  /\ loop.at = "between" /\ loop.left = {} /\ ~Stale
  /\ rows' = [r \in Reminders |-> Written(r)]
  /\ loop' = Asleep
  /\ UNCHANGED <<edits, commands, history>>

Unbooked(r) ==
  \/ loop.writes[r] \in {"book", "end"}
  \/ loop.at = "answered" /\ r \in loop.cur
RollBack ==
  /\ loop' = Asleep
  /\ lost' = [r \in Reminders |-> lost[r] + (IF Unbooked(r) THEN 1 ELSE 0)]

\* One stale row takes the bookings of the whole tick with it.
CommitFails ==
  /\ loop.at = "between" /\ loop.left = {} /\ Stale
  /\ RollBack
  /\ UNCHANGED <<rows, edits, commands, delivered, quiet, refused, crossed, halved>>

LoopStep ==
  \/ Tick \/ (\E r \in Reminders : DropOrphan(r) \/ Send(r))
  \/ Delivered \/ Refused \/ Book \/ Commit \/ CommitFails

-----------------------------------------------------------------------------
\* Slash commands: each commits and, without an await in between, restarts the loop.
Spend == commands < MaxCommands /\ commands' = commands + 1
Reschedule == RollBack

Create(r, k) ==
  /\ Spend /\ rows[r].status = "none"
  /\ rows' = [rows EXCEPT ![r] = NewRow(k)]
  /\ Reschedule
  /\ UNCHANGED <<edits, delivered, quiet, refused, crossed, halved>>

\* Mutant: the loop is left alone.
PauseOnly(r) ==
  /\ Spend /\ rows[r].status = "enabled"
  /\ rows' = [rows EXCEPT ![r].status = "paused"]
  /\ quiet' = quiet \cup {r}
  /\ UNCHANGED <<bot, delivered, lost, refused, crossed, halved>>

Pause(r) ==
  /\ Spend /\ rows[r].status = "enabled"
  /\ rows' = [rows EXCEPT ![r].status = "paused"]
  /\ quiet' = quiet \cup {r}
  /\ Reschedule
  /\ UNCHANGED <<edits, delivered, refused, crossed, halved>>

\* A fire time that has passed is computed anew; a one-shot reminder has none and
\* is deleted (the answer awaited before that commit is left out).
Resume(r) ==
  LET awake == [rows[r] EXCEPT !.status = "enabled"] IN
  /\ Spend /\ rows[r].status = "paused"
  /\ rows' = [rows EXCEPT ![r] =
       CASE ~awake.due -> awake
         [] awake.due /\ awake.kind = "once" -> [awake EXCEPT !.status = "deleted"]
         [] OTHER -> [awake EXCEPT !.due = FALSE, !.next = awake.sched]]
  /\ quiet' = quiet \ {r}
  /\ Reschedule
  /\ UNCHANGED <<edits, delivered, refused, crossed, halved>>

Delete(r) ==
  /\ Spend /\ rows[r].status # "none"
  /\ rows' = [rows EXCEPT ![r].status = "deleted"]
  /\ quiet' = quiet \cup {r}
  /\ Reschedule
  /\ UNCHANGED <<edits, delivered, refused, crossed, halved>>

\* /reminder edit answers the interaction before its session commits.  It sets no
\* column of the schedule when only the text or the channel changes.  At a value it
\* cannot read it stops, with the columns before that one assigned.
EditOpen(a, r, sets, bad) ==
  /\ Spend /\ edits[a] = NoEdit /\ Present(r)
  /\ sets # {} => rows[r].kind = "repeating"
  /\ edits' = [edits EXCEPT ![a] =
       [on |-> {r}, valid |-> bad = {}, sets |-> {c \in sets : \A b \in bad : c < b},
        seen |-> rows[r].sched, version |-> commands']]
  /\ UNCHANGED <<rows, loop, history>>

Assigned(e, old) == [c \in Columns |-> IF c \in e.sets THEN e.version ELSE old[c]]
Committing(a) == edits[a] # NoEdit /\ \A r \in edits[a].on : Present(r)

\* The columns it sets are written, and the fire time it computed from them and
\* from the other columns as it read them.
Saved(a) ==
  LET e == edits[a] IN
  /\ Committing(a) /\ e.valid
  /\ rows' = [r \in Reminders |-> IF r \notin e.on \/ e.sets = {} THEN rows[r] ELSE
       [rows[r] EXCEPT !.sched = Assigned(e, @), !.next = Assigned(e, e.seen), !.due = FALSE]]
  /\ crossed' = crossed \cup {r \in e.on : e.sets # {} /\ rows[r].sched # e.seen}
  /\ edits' = [edits EXCEPT ![a] = NoEdit]
  /\ UNCHANGED <<commands, delivered, quiet, refused, halved>>

\* Mutant: the loop goes on with the rows it has read.
EditSaveOnly(a) == Saved(a) /\ UNCHANGED <<loop, lost>>

\* After the commit the loop is restarted.
EditSave(a) == Saved(a) /\ Reschedule

\* The early return leaves session_scope without an error, so it commits what was
\* assigned, without a new fire time and without a restart of the loop.
EditRefused(a) ==
  LET e == edits[a] IN
  /\ Committing(a) /\ ~e.valid
  /\ rows' = [r \in Reminders |-> IF r \in e.on THEN [rows[r] EXCEPT !.sched = Assigned(e, @)] ELSE rows[r]]
  /\ halved' = halved \cup {r \in e.on : e.sets # {}}
  /\ edits' = [edits EXCEPT ![a] = NoEdit]
  /\ UNCHANGED <<loop, commands, delivered, lost, quiet, refused, crossed>>

\* The answer fails, or the row is gone at the commit: nothing is written or restarted.
EditFails(a) ==
  /\ edits[a] # NoEdit
  /\ edits' = [edits EXCEPT ![a] = NoEdit]
  /\ UNCHANGED <<rows, loop, commands, history>>

-----------------------------------------------------------------------------
\* The dashboard writes to the same table from another process.
WebCreate(r) ==
  /\ Spend /\ rows[r].status = "none"
  /\ rows' = [rows EXCEPT ![r] = NewRow("repeating")]
  /\ UNCHANGED <<bot, history>>

WebUpdate(r, enabled) ==
  /\ Spend /\ Present(r)
  /\ rows' = [rows EXCEPT ![r].status = IF enabled THEN "enabled" ELSE "paused"]
  /\ quiet' = IF enabled THEN quiet \ {r} ELSE quiet
  /\ UNCHANGED <<bot, delivered, lost, refused, crossed, halved>>

WebDelete(r) ==
  /\ Spend /\ Present(r)
  /\ rows' = [rows EXCEPT ![r].status = "deleted"]
  /\ UNCHANGED <<bot, history>>

\* The bot stops and starts, or the database fails under the tick.
Restart ==
  /\ Spend
  /\ edits' = [a \in Admins |-> NoEdit]
  /\ RollBack
  /\ UNCHANGED <<rows, delivered, quiet, refused, crossed, halved>>

Command(r) ==
  \/ \E k \in {"once", "repeating"} : Create(r, k)
  \/ Pause(r) \/ Resume(r) \/ Delete(r)
Dashboard(r) ==
  \/ WebCreate(r) \/ WebDelete(r)
  \/ \E enabled \in BOOLEAN : WebUpdate(r, enabled)
Editing(a) ==
  \/ \E r \in Reminders : \E sets \in SUBSET Columns : \E bad \in SUBSET sets :
       EditOpen(a, r, sets, bad)
  \/ EditSave(a) \/ EditRefused(a) \/ EditFails(a)

Next ==
  \/ LoopStep
  \/ \E r \in Reminders : Due(r) \/ Command(r) \/ Dashboard(r)
  \/ \E a \in Admins : Editing(a)
  \/ Restart

Spec == Init /\ [][Next]_vars

\* The loop is one coroutine that runs again after every tick, and every request
\* to Discord is answered or times out.
FairSpec == Spec /\ WF_vars(LoopStep)

-----------------------------------------------------------------------------
Schedules == [Columns -> Versions]
Rows ==
  [status : {"none", "enabled", "paused", "deleted"}, kind : {"once", "repeating"}, due : BOOLEAN,
   sched : Schedules, next : Schedules, count : Nat]

Loops ==
  [at : {"asleep", "between", "sending", "answered"}, left : SUBSET Reminders,
   cur : SUBSET Reminders, seen : [Reminders -> Rows],
   writes : [Reminders -> {"none", "book", "end", "drop"}]]
Edits ==
  [on : SUBSET Reminders, valid : BOOLEAN, sets : SUBSET Columns, seen : Schedules, version : Versions]

\* Rows, tick and edits hold what the table and the handlers can hold.
TypeOK ==
  /\ rows \in [Reminders -> Rows]
  /\ loop \in Loops
  /\ edits \in [Admins -> Edits]
  /\ commands \in Versions
  /\ delivered \in [Reminders -> Nat] /\ lost \in [Reminders -> Nat]
  /\ {quiet, refused, crossed, halved} \subseteq SUBSET Reminders

\* Every message Discord accepted is counted by its row exactly once, unless the
\* tick that sent it was rolled back: no tick counts a message it did not send,
\* forgets one it sent, or counts from a row another tick has counted since.
InFlight(r) == IF Unbooked(r) THEN 1 ELSE 0
CountsDeliveries ==
  \A r \in Reminders : Present(r) => delivered[r] = rows[r].count + lost[r] + InFlight(r)

\* The fire time of a row was computed from the schedule it has, whatever tick or
\* edit wrote last, unless two edits of it crossed or one was refused half-way.
ScheduleFollowed ==
  \A r \in Reminders : r \notin crossed \cup halved => rows[r].next = rows[r].sched

\* A tick works on rows as it read them: until it commits or is rolled back, what
\* it has read still tells count, kind and (unless edits crossed or were refused
\* half-way) the schedule of the row; it has none of its reminders twice, none that
\* it did not read as enabled, and none a command has silenced since.
Strengthening ==
  /\ loop.at \in {"asleep", "between"} => loop.cur = {}
  /\ loop.at = "asleep" => loop = Asleep
  /\ loop.left \cap loop.cur = {}
  /\ \A r \in Reminders :
       LET seen == loop.seen[r]
           pending == r \in loop.left \cup loop.cur IN
       /\ pending => loop.writes[r] = "none"
       /\ pending \/ loop.writes[r] # "none" => seen.status = "enabled"
       /\ loop.writes[r] = "book" => seen.kind = "repeating"
       /\ seen.status # "none" =>
            /\ rows[r].status # "none" /\ seen.count = rows[r].count /\ seen.kind = rows[r].kind
            /\ r \notin crossed \cup halved => seen.sched = rows[r].sched
       /\ rows[r].status = "none" => rows[r].count = 0 /\ delivered[r] = 0 /\ lost[r] = 0
       /\ rows[r].kind = "once" => rows[r].count = 0
       /\ rows[r].kind = "once" /\ pending /\ ~Unbooked(r) => delivered[r] <= lost[r]
       /\ r \in quiet => rows[r].status \in {"paused", "deleted"} /\ r \notin loop.left

\* A one-shot reminder is sent again only because the tick that had sent it was rolled back.
OnceUnlessLost ==
  \A r \in Reminders : rows[r].kind = "once" => delivered[r] <= lost[r] + 1

\* Once /reminder pause or delete has committed, no send of that reminder starts
\* until it is resumed, although a tick may have read it as due before.
QuietAfterCommand ==
  [][\A r \in Reminders :
       loop'.at = "sending" /\ loop.at # "sending" /\ r \in loop'.cur => r \notin quiet]_vars

\* What is due is sent or dropped: neither a reminder that Discord refuses for ever
\* nor a tick rolled back keeps another one from its turn.
DueIsDealtWith ==
  \A r \in Reminders :
    (rows[r].status = "enabled" /\ rows[r].due)
      ~> (rows[r].status # "enabled" \/ ~rows[r].due \/ r \in refused)
=============================================================================
