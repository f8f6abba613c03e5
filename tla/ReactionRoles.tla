--------------------------- MODULE ReactionRoles ---------------------------
(***************************************************************************)
(* The reaction roles of one guild: the tables /reactionrole writes, and   *)
(* the part of GuildConfigCache that answers every reaction instead of     *)
(* them (NerdyPy/modules/roles.py, utils/cache.py, bot.py).                *)
(*                                                                         *)
(* Commands and events run on the event loop, each up to its next await;   *)
(* the lazy warm-up alone runs in a thread, step by step beside them.      *)
(* Which role a mapping gives is left out: a mapping exists or not.        *)
(***************************************************************************)
EXTENDS Naturals, FiniteSets

CONSTANTS
  Messages,      \* of the guild
  Emojis,
  MaxChanges,    \* bound on commands
  MaxRolesFaults \* bound on failed warm-ups and restarts

ASSUME BoundsAssumption == MaxChanges \in Nat /\ MaxRolesFaults \in Nat

VARIABLES
  table,    \* the emojis mapped on each message
  known,    \* _rr_message_ids, _rr_by_guild
  mappings, \* _rr_mappings
  warmed,   \* _rr_warmed
  evicted,  \* _rr_evicted_msgs
  present,  \* whether the bot is in the guild
  thread,   \* the lazy warm-up under way
  cooling,  \* whether _REWARM_COOLDOWN runs
  changes, rolesFaults, \* how many of the bounded events happened
  spoiled   \* history: messages changed during a warm-up, or added to after an eviction

cache == <<known, mappings, warmed, evicted>>
rolesVars == <<table, cache, present, thread, cooling, changes, rolesFaults, spoiled>>

NoMappings == [m \in Messages |-> {}]
NoThread == [at |-> "none", rows |-> NoMappings]
Configured(rows) == {m \in Messages : rows[m] # {}}

RolesInit ==
  /\ table \in [Messages -> SUBSET Emojis]
  /\ known = {} /\ mappings = NoMappings /\ warmed = FALSE /\ evicted = {}
  /\ present = TRUE /\ thread = NoThread /\ cooling = FALSE
  /\ changes = 0 /\ rolesFaults = 0 /\ spoiled = {}

RolesFault == rolesFaults < MaxRolesFaults /\ rolesFaults' = rolesFaults + 1
Change == changes < MaxChanges /\ changes' = changes + 1
Overlaps == thread.at \in {"read", "swapped"}

-----------------------------------------------------------------------------
(* What a reaction is answered.                                            *)

Miss == "miss"

Answer(m, e) ==
  IF ~warmed \/ m \in evicted THEN Miss
  ELSE IF m \in known /\ e \in mappings[m] THEN "mapped" ELSE "unmapped"

\* On a miss the tables are read, and what they hold of the message goes back into the cache.
React(m) ==
  /\ present /\ (~warmed \/ m \in evicted)
  /\ IF table[m] = {} THEN /\ known' = known \ {m}
                           /\ mappings' = [mappings EXCEPT ![m] = {}]
                      ELSE /\ known' = known \cup {m}
                           /\ mappings' = IF warmed THEN [mappings EXCEPT ![m] = @ \cup table[m]] ELSE mappings
  /\ evicted' = evicted \ {m}
  /\ UNCHANGED <<table, warmed, present, thread, cooling, changes, rolesFaults, spoiled>>

-----------------------------------------------------------------------------
(* /reactionrole add, remove and clear.  Commit and cache are one step for *)
(* the event loop; a warm-up that has read before and swaps after them     *)
(* does not see the change.                                                *)

Spoil(ms) == spoiled' = IF Overlaps THEN spoiled \cup ms ELSE spoiled

Add(m, e) ==
  /\ present /\ e \notin table[m] /\ Change
  /\ table' = [table EXCEPT ![m] = @ \cup {e}]
  /\ known' = known \cup {m}
  /\ evicted' = evicted \ {m}
  /\ mappings' = IF warmed THEN [mappings EXCEPT ![m] = @ \cup {e}] ELSE mappings
  /\ spoiled' = IF Overlaps \/ (m \in evicted /\ table[m] # {}) THEN spoiled \cup {m} ELSE spoiled
  /\ UNCHANGED <<warmed, present, thread, cooling, rolesFaults>>

\* The last mapping takes the message with it.
Remove(m, e) ==
  /\ present /\ e \in table[m] /\ Change
  /\ table' = [table EXCEPT ![m] = @ \ {e}]
  /\ IF table[m] = {e} THEN /\ known' = known \ {m} /\ evicted' = evicted \ {m}
                            /\ mappings' = [mappings EXCEPT ![m] = {}]
                       ELSE /\ mappings' = [mappings EXCEPT ![m] = @ \ {e}]
                            /\ UNCHANGED <<known, evicted>>
  /\ Spoil({m})
  /\ UNCHANGED <<warmed, present, thread, cooling, rolesFaults>>

Clear(m) ==
  /\ present /\ table[m] # {} /\ Change
  /\ table' = [table EXCEPT ![m] = {}]
  /\ known' = known \ {m} /\ evicted' = evicted \ {m}
  /\ mappings' = [mappings EXCEPT ![m] = {}]
  /\ Spoil({m})
  /\ UNCHANGED <<warmed, present, thread, cooling, rolesFaults>>

-----------------------------------------------------------------------------
(* Warm-up: on the event loop when the bot is ready, or in a thread when a *)
(* reaction finds the cache cold.                                          *)

Ready ==
  /\ known' = Configured(table) /\ mappings' = table
  /\ warmed' = TRUE /\ evicted' = {}
  /\ spoiled' = IF thread = NoThread THEN {} ELSE spoiled
  /\ UNCHANGED <<table, present, thread, cooling, changes, rolesFaults>>

Rewarm ==
  /\ present /\ ~warmed /\ ~cooling /\ thread = NoThread
  /\ cooling' = TRUE /\ thread' = [NoThread EXCEPT !.at = "begun"]
  /\ UNCHANGED <<table, cache, present, changes, rolesFaults, spoiled>>

\* Longer than any warm-up takes.
CooledDown ==
  /\ cooling /\ thread = NoThread /\ cooling' = FALSE
  /\ UNCHANGED <<table, cache, present, thread, changes, rolesFaults, spoiled>>

ReadRows ==
  /\ thread.at = "begun"
  /\ thread' = [at |-> "read", rows |-> table]
  /\ UNCHANGED <<table, cache, present, cooling, changes, rolesFaults, spoiled>>

ReadFails ==
  /\ thread.at = "begun" /\ RolesFault /\ thread' = NoThread
  /\ UNCHANGED <<table, cache, present, cooling, changes, spoiled>>

Swap ==
  /\ thread.at = "read"
  /\ known' = Configured(thread.rows) /\ mappings' = thread.rows
  /\ thread' = [NoThread EXCEPT !.at = "swapped"]
  /\ UNCHANGED <<table, warmed, evicted, present, cooling, changes, rolesFaults, spoiled>>

FinishWarm ==
  /\ thread.at = "swapped"
  /\ warmed' = TRUE /\ evicted' = {} /\ thread' = NoThread
  /\ UNCHANGED <<table, known, mappings, present, cooling, changes, rolesFaults, spoiled>>

-----------------------------------------------------------------------------
(* Guild and process.                                                      *)

\* Mutant: nothing is marked for a second look.
EvictGuildForgets ==
  /\ present /\ present' = FALSE
  /\ known' = {}
  /\ mappings' = [m \in Messages |-> IF m \in known THEN {} ELSE mappings[m]]
  /\ Spoil(Messages)
  /\ UNCHANGED <<table, warmed, evicted, thread, cooling, changes, rolesFaults>>

\* on_guild_remove; the rows stay.
EvictGuild ==
  /\ present /\ present' = FALSE
  /\ known' = {}
  /\ mappings' = [m \in Messages |-> IF m \in known THEN {} ELSE mappings[m]]
  /\ evicted' = IF warmed THEN evicted \cup known ELSE evicted
  /\ Spoil(Messages)
  /\ UNCHANGED <<table, warmed, thread, cooling, changes, rolesFaults>>

Rejoin ==
  /\ ~present /\ present' = TRUE
  /\ UNCHANGED <<table, cache, thread, cooling, changes, rolesFaults, spoiled>>

RolesRestart ==
  /\ RolesFault
  /\ known' = {} /\ mappings' = NoMappings /\ warmed' = FALSE /\ evicted' = {}
  /\ thread' = NoThread /\ cooling' = FALSE /\ spoiled' = {}
  /\ UNCHANGED <<table, present, changes>>

RolesNext ==
  \/ \E m \in Messages : React(m) \/ Clear(m) \/ \E e \in Emojis : Add(m, e) \/ Remove(m, e)
  \/ Ready \/ Rewarm \/ CooledDown \/ ReadRows \/ ReadFails \/ Swap \/ FinishWarm
  \/ EvictGuild \/ Rejoin \/ RolesRestart

RolesSpec == RolesInit /\ [][RolesNext]_rolesVars

-----------------------------------------------------------------------------
(* Properties.                                                             *)

\* Types; no message is known and marked for a second look at once, save between the two steps of
\* a warm-up that is about to clear the marks.
RolesTypeOK ==
  /\ table \in [Messages -> SUBSET Emojis] /\ mappings \in [Messages -> SUBSET Emojis]
  /\ known \subseteq Messages /\ evicted \subseteq Messages /\ spoiled \subseteq Messages
  /\ thread.at # "swapped" => known \cap evicted = {}
  /\ warmed \in BOOLEAN /\ present \in BOOLEAN /\ cooling \in BOOLEAN
  /\ thread \in [at : {"none", "begun", "read", "swapped"}, rows : [Messages -> SUBSET Emojis]]
  /\ changes \in 0 .. MaxChanges /\ rolesFaults \in 0 .. MaxRolesFaults

Agrees(m) == \A e \in Emojis : Answer(m, e) \in {Miss, IF e \in table[m] THEN "mapped" ELSE "unmapped"}

\* Through warm-ups, reconnections, evictions and restarts a reaction is answered as the tables
\* would answer it.  Two histories are excepted: a command, or the loss of the guild, during a
\* warm-up in the thread, and a mapping added to a message marked for a second look.
AnswersAsTable == \A m \in Messages \ spoiled : Agrees(m)
=============================================================================
