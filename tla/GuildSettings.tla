--------------------------- MODULE GuildSettings ---------------------------
(***************************************************************************)
(* Three settings of one guild that slash commands and the dashboard both  *)
(* write, and that the bot reads from GuildConfigCache: the moderator role *)
(* and the language, read on first use, and the leave message, read in     *)
(* bulk (NerdyPy/utils/cache.py, utils/valkey.py, modules/server_admin.py, *)
(* modules/moderation.py, bot.py, web/routes/guilds.py).                   *)
(*                                                                         *)
(* A slash command commits, sets the cache and, after its reply, raises an *)
(* event with the value it has set.  The dashboard commits and notifies    *)
(* the bot, which handles one notification at a time.                      *)
(***************************************************************************)
EXTENDS Naturals, Sequences

CONSTANTS
  MaxChanges,       \* bound on requests and commands
  MaxSettingsFaults \* bound on lost notifications, failed reads and restarts

Lazy == {"role", "language"}
Values == {"a", "b"}
Unset == "unset"   \* no moderator role, the default language, no leave message
Absent == "absent"

VARIABLES
  table,   \* the rows of role and language
  cache,   \* _modrole, _lang
  events,  \* modrole_changed, guild_language_changed still to be raised
  row,     \* the leave message: whether it is enabled, and its text
  leave,   \* _leave_configs
  warmed,  \* _leave_warmed
  evicted, \* _leave_evicted
  thread,  \* the lazy warm-up of leave messages
  queue,   \* notifications of the dashboard
  loading, \* the leave configuration a handler has read and will apply
  present, \* whether the bot is in the guild
  changes, settingsFaults, \* how many of the bounded events happened
  raced    \* history: settings changed while an older value was still to be applied

leaveCache == <<leave, warmed, evicted, thread>>
settingsVars ==
  <<table, cache, events, row, leaveCache, queue, loading, present, changes, settingsFaults, raced>>

Enabled(r) == IF r.on THEN r.text ELSE Unset
Nothing == [at |-> "none", value |-> Unset]

SettingsInit ==
  /\ table = [x \in Lazy |-> Unset]
  /\ cache = [x \in Lazy |-> Absent] /\ events = [x \in Lazy |-> {}]
  /\ row \in [on : BOOLEAN, text : {"a"}]
  /\ leave = Absent /\ warmed = FALSE /\ evicted = FALSE /\ thread = Nothing
  /\ queue = <<>> /\ loading = Nothing /\ present = TRUE
  /\ changes = 0 /\ settingsFaults = 0 /\ raced = {}

SettingsFault == settingsFaults < MaxSettingsFaults /\ settingsFaults' = settingsFaults + 1
Change == changes < MaxChanges /\ changes' = changes + 1
Race(x, is) == raced' = IF is THEN raced \cup {x} ELSE raced \ {x}
Pending(x) == \E i \in DOMAIN queue : queue[i].of = x
Overlaps == thread.at \in {"read", "swapped"} \/ loading.at = "read"

-----------------------------------------------------------------------------
(* Moderator role and language.                                            *)

Get(x) ==
  /\ cache[x] = Absent /\ cache' = [cache EXCEPT ![x] = table[x]]
  /\ UNCHANGED <<table, events, row, leaveCache, queue, loading, present, changes, settingsFaults, raced>>

\* /modrole set and delete, /language set; the event comes after the reply.
Command(x, v) ==
  /\ present /\ Change /\ (x = "language" => v # Unset)
  /\ table' = [table EXCEPT ![x] = v]
  /\ cache' = [cache EXCEPT ![x] = v]
  /\ events' = [events EXCEPT ![x] = @ \cup {v}]
  /\ Race(x, events[x] # {} \/ (x = "language" /\ Pending(x)))
  /\ UNCHANGED <<row, leaveCache, queue, loading, present, settingsFaults>>

Event(x, v) ==
  /\ v \in events[x] /\ events' = [events EXCEPT ![x] = @ \ {v}]
  /\ cache' = [cache EXCEPT ![x] = v]
  /\ UNCHANGED <<table, row, leaveCache, queue, loading, present, changes, settingsFaults, raced>>

Notify(x, v, unheard) ==
  /\ queue' = IF unheard THEN queue ELSE Append(queue, [of |-> x, value |-> v])
  /\ IF unheard THEN SettingsFault ELSE UNCHANGED settingsFaults

\* A notification that finds the bot's listener away is lost.
WebSet(x, v, unheard) ==
  /\ Change /\ (x = "language" => v # Unset) /\ (x = "role" /\ v = Unset => table[x] # Unset)
  /\ table' = [table EXCEPT ![x] = v]
  /\ Notify(x, v, unheard)
  /\ Race(x, unheard \/ events[x] # {})
  /\ UNCHANGED <<cache, events, row, leaveCache, loading, present>>

Handling(x) == queue # <<>> /\ loading = Nothing /\ Head(queue).of = x /\ queue' = Tail(queue)

\* Mutant: the moderator role is left as it is.
InvalidateRoleNot ==
  /\ Handling("role") /\ cache' = cache
  /\ UNCHANGED <<table, events, row, leaveCache, loading, present, changes, settingsFaults, raced>>

\* The moderator role is dropped and read again on its next use; the language is taken as sent.
InvalidateRole ==
  /\ Handling("role") /\ cache' = [cache EXCEPT !["role"] = Absent]
  /\ UNCHANGED <<table, events, row, leaveCache, loading, present, changes, settingsFaults, raced>>

SetLanguage ==
  /\ Handling("language") /\ cache' = [cache EXCEPT !["language"] = Head(queue).value]
  /\ UNCHANGED <<table, events, row, leaveCache, loading, present, changes, settingsFaults, raced>>

-----------------------------------------------------------------------------
(* Leave messages: commands and dashboard.                                 *)

Leave == UNCHANGED <<table, cache, events, present>>

Enable ==
  /\ present /\ Change
  /\ row' = [row EXCEPT !.on = TRUE]
  /\ leave' = row.text /\ evicted' = FALSE
  /\ Race("leave", Overlaps)
  /\ Leave /\ UNCHANGED <<warmed, thread, queue, loading, settingsFaults>>

Disable ==
  /\ present /\ Change
  /\ row' = [row EXCEPT !.on = FALSE]
  /\ leave' = Absent /\ evicted' = FALSE
  /\ Race("leave", Overlaps)
  /\ Leave /\ UNCHANGED <<warmed, thread, queue, loading, settingsFaults>>

\* The cache is only touched when the message is enabled.
SaveMessage(v) ==
  /\ present /\ Change
  /\ row' = [row EXCEPT !.text = v]
  /\ IF row.on THEN leave' = v /\ evicted' = FALSE ELSE UNCHANGED <<leave, evicted>>
  /\ Race("leave", Overlaps \/ (~row.on /\ "leave" \in raced))
  /\ Leave /\ UNCHANGED <<warmed, thread, queue, loading, settingsFaults>>

WebSetLeave(r, unheard) ==
  /\ Change /\ row' = r
  /\ Notify("leave", Unset, unheard)
  /\ Race("leave", unheard \/ thread.at \in {"read", "swapped"})
  /\ Leave /\ UNCHANGED <<leaveCache, loading>>

\* invalidate_leave_config reads in a thread and applies on the event loop.
Load ==
  /\ Handling("leave") /\ loading' = [at |-> "read", value |-> Enabled(row)]
  /\ Leave /\ UNCHANGED <<row, leaveCache, changes, settingsFaults, raced>>

\* The guild is marked for a second look, behind a warm-up that is about to clear the marks in vain.
LoadFails ==
  /\ Handling("leave") /\ SettingsFault
  /\ leave' = Absent /\ evicted' = (evicted \/ warmed)
  /\ raced' = IF thread.at = "swapped" THEN raced \cup {"leave"} ELSE raced
  /\ Leave /\ UNCHANGED <<row, warmed, thread, loading, changes>>

Apply ==
  /\ loading.at = "read" /\ loading' = Nothing
  /\ leave' = (IF loading.value = Unset THEN Absent ELSE loading.value) /\ evicted' = FALSE
  /\ Leave /\ UNCHANGED <<row, warmed, thread, queue, changes, settingsFaults, raced>>

-----------------------------------------------------------------------------
(* Leave messages: a member leaves, and the cache is warmed up.            *)

Cached == ~evicted /\ (warmed \/ leave # Absent)

\* A row that is read keeps its answer, that there is none too.
MemberLeaves ==
  /\ present /\ ~Cached
  /\ leave' = Enabled(row) /\ evicted' = FALSE
  /\ Leave /\ UNCHANGED <<row, warmed, thread, queue, loading, changes, settingsFaults, raced>>

WarmValue(v) == IF v = Unset THEN Absent ELSE v

Ready ==
  /\ leave' = WarmValue(Enabled(row)) /\ warmed' = TRUE /\ evicted' = FALSE
  /\ UNCHANGED <<table, cache, events, row, thread, queue, loading, present, changes, settingsFaults, raced>>

Rewarm ==
  /\ present /\ ~warmed /\ thread = Nothing
  /\ thread' = [at |-> "read", value |-> WarmValue(Enabled(row))]
  /\ Leave /\ UNCHANGED <<row, leave, warmed, evicted, queue, loading, changes, settingsFaults, raced>>

Swap ==
  /\ thread.at = "read" /\ leave' = thread.value
  /\ thread' = [Nothing EXCEPT !.at = "swapped"]
  /\ Leave /\ UNCHANGED <<row, warmed, evicted, queue, loading, changes, settingsFaults, raced>>

FinishWarm ==
  /\ thread.at = "swapped" /\ warmed' = TRUE /\ evicted' = FALSE /\ thread' = Nothing
  /\ Leave /\ UNCHANGED <<row, leave, queue, loading, changes, settingsFaults, raced>>

-----------------------------------------------------------------------------
(* Guild and process.                                                      *)

\* Mutant: a warm cache is taken to know the guild when it comes back.
EvictGuildUnmarked ==
  /\ present /\ present' = FALSE
  /\ cache' = [x \in Lazy |-> Absent] /\ leave' = Absent
  /\ raced' = IF Overlaps THEN raced \cup {"leave"} ELSE raced
  /\ UNCHANGED <<table, events, row, warmed, evicted, thread, queue, loading, changes, settingsFaults>>

EvictGuild ==
  /\ present /\ present' = FALSE
  /\ cache' = [x \in Lazy |-> Absent] /\ leave' = Absent /\ evicted' = (evicted \/ warmed)
  /\ raced' = IF Overlaps THEN raced \cup {"leave"} ELSE raced
  /\ UNCHANGED <<table, events, row, warmed, thread, queue, loading, changes, settingsFaults>>

Rejoin ==
  /\ ~present /\ present' = TRUE
  /\ UNCHANGED <<table, cache, events, row, leaveCache, queue, loading, changes, settingsFaults, raced>>

SettingsRestart ==
  /\ SettingsFault
  /\ cache' = [x \in Lazy |-> Absent] /\ events' = [x \in Lazy |-> {}]
  /\ leave' = Absent /\ warmed' = FALSE /\ evicted' = FALSE /\ thread' = Nothing
  /\ queue' = <<>> /\ loading' = Nothing /\ raced' = {}
  /\ UNCHANGED <<table, row, present, changes>>

SettingsNext ==
  \/ \E x \in Lazy :
       \/ Get(x)
       \/ \E v \in {Unset} \cup Values :
            Command(x, v) \/ Event(x, v) \/ \E unheard \in BOOLEAN : WebSet(x, v, unheard)
  \/ InvalidateRole \/ SetLanguage
  \/ Enable \/ Disable \/ \E v \in Values : SaveMessage(v)
  \/ \E r \in [on : BOOLEAN, text : Values], unheard \in BOOLEAN : WebSetLeave(r, unheard)
  \/ Load \/ LoadFails \/ Apply
  \/ MemberLeaves \/ Ready \/ Rewarm \/ Swap \/ FinishWarm
  \/ EvictGuild \/ Rejoin \/ SettingsRestart

SettingsSpec == SettingsInit /\ [][SettingsNext]_settingsVars

-----------------------------------------------------------------------------
(* Properties.                                                             *)

\* Types; a guild is marked for a second look only in a cache that has been warmed up.
SettingsTypeOK ==
  /\ table \in [Lazy -> {Unset} \cup Values] /\ cache \in [Lazy -> {Absent, Unset} \cup Values]
  /\ events \in [Lazy -> SUBSET ({Unset} \cup Values)]
  /\ row \in [on : BOOLEAN, text : Values] /\ leave \in {Absent, Unset} \cup Values
  /\ warmed \in BOOLEAN /\ evicted \in BOOLEAN /\ present \in BOOLEAN
  /\ evicted => warmed
  /\ raced \subseteq Lazy \cup {"leave"}

\* Once every event and notification has been handled, the bot goes by the moderator role and
\* the language of the tables.  Excepted are changes made while an earlier command's event had
\* still to be raised, slash changes of the language with a notification still on its way, and
\* notifications that were lost.  For the moderator role a notification on its way does no harm.
LazyIsTable ==
  \A x \in Lazy \ raced : events[x] = {} /\ ~Pending(x) => cache[x] \in {Absent, table[x]}

\* A leave message is sent exactly when the row is enabled, with its text, once the dashboard's
\* notifications have been handled.  Excepted are changes during a warm-up in its thread, or by a
\* command while a notification's read is being applied, and notifications that were lost.
LeaveIsRow ==
  "leave" \notin raced /\ ~Pending("leave") /\ loading = Nothing /\ Cached =>
    leave \in {Enabled(row), WarmValue(Enabled(row))}
=============================================================================
