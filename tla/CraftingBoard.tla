--------------------------- MODULE CraftingBoard ---------------------------
(***************************************************************************)
(* The crafting order board of one guild (modules/wow/crafting.py): its    *)
(* row, the mappings of roles to professions and the message with the two  *)
(* buttons.  A creation commits the row, then posts the message, then      *)
(* stores the message's id; a removal deletes the message, then the row;   *)
(* an edit saves the description, then edits the message.  Everything      *)
(* between two awaits of a handler is one action; at every await another   *)
(* administrator's handler, the language listener, the migration that runs *)
(* at start, the dashboard or a restart may come in between.  The handlers *)
(* find the row again BY GUILD after an await, never by its id: what they  *)
(* then change or delete may be another creation's row.                    *)
(***************************************************************************)
EXTENDS Naturals, FiniteSets

CONSTANTS
    Handlers,   \* the handlers that may be at work at once
    Roles,      \* the roles mentioned or mapped
    Named,      \* those whose name contains a profession's name
    Texts,      \* the descriptions
    MaxBoards,  \* how many boards are ever created
    MaxSteps,   \* bound on commands other than creations
    MaxFaults   \* bound on failures, restarts and deletions by hand

ASSUME BoardAssumption ==
    /\ Named \subseteq Roles
    /\ Texts # {}
    /\ {MaxBoards, MaxSteps, MaxFaults} \subseteq Nat /\ MaxBoards > 0

CURRENT_BOARD_VERSION == 2

VARIABLES
    config,    \* the row of CraftingBoardConfig, or NoBoard
    mappings,  \* the roles that have a row of CraftingRoleMapping
    standing,  \* the messages with buttons in the channel, and what they show
    proc,      \* what each handler holds at its await
    migration, \* the migration of the board, or Migrated
    created,   \* how many boards were created
    steps, faults,
    met        \* the named mishaps this run has had

boardVars == <<config, mappings, standing, proc, migration, created, steps, faults, met>>

NoBoard == [id |-> 0]
NoMessage == 0
AtRest == [at |-> "idle"]
Migrated == [at |-> "done"]

Board(id, text, version) ==
    [id |-> id, message |-> NoMessage, text |-> text, version |-> version]

(* A message shows a description, and the housing button since version 2. *)
Shows(text) == [text |-> text, housing |-> TRUE]

(* The bot may come up on a board an earlier release has posted. *)
BoardInit ==
    /\ \/ config = NoBoard /\ standing = << >> /\ created = 0
       \/ \E text \in Texts :
            /\ config = [Board(1, text, 1) EXCEPT !.message = 1]
            /\ standing = [m \in {1} |-> [text |-> text, housing |-> FALSE]]
            /\ created = 1
    /\ mappings = {}
    /\ proc = [a \in Handlers |-> AtRest]
    /\ migration = [at |-> "waiting"]
    /\ steps = 0 /\ faults = 0 /\ met = {}

Become(a, p) == proc' = [proc EXCEPT ![a] = p]
Met(mishaps) == met' = met \cup mishaps
If(condition, mishap) == IF condition THEN {mishap} ELSE {}

Command == steps < MaxSteps /\ steps' = steps + 1
Fault == faults < MaxFaults /\ faults' = faults + 1

PutUp(m, shown) == standing' = [n \in DOMAIN standing \cup {m} |->
                                    IF n = m THEN shown ELSE standing[n]]
TakeDown(m) == standing' = [n \in DOMAIN standing \ {m} |-> standing[n]]

(* Between an await and the next: a creation, an edit or a refresh that    *)
(* has read or chosen a text the message does not show yet.                *)
Writing(a) == proc[a].at \in {"posting", "posted", "editing", "refreshing"}
Creating(a) == proc[a].at \in {"posting", "posted"}

(* The roles whose name matches get their row at once; the others are      *)
(* offered to the administrator in a view.                                 *)
AutoMatch(roles) == roles \cap Named
Unmapped(roles) == roles \ Named

(* When a handler has answered: the view for the roles without a match.    *)
ManualMapping(unmapped) ==
    IF unmapped = {} THEN AtRest ELSE [at |-> "mapping", unmapped |-> unmapped]

DeleteByGuild == config' = NoBoard /\ mappings' = {}

-----------------------------------------------------------------------------
(* /craftingorder create, and its form's submission.  The check for a board *)
(* and the insertion are one step; a role that has a row already makes the  *)
(* transaction fail, and nothing is stored.                                 *)
FinishCreate(a, text, roles) ==
    /\ proc[a] = AtRest /\ created < MaxBoards
    /\ roles # {}
    /\ config = NoBoard
    /\ AutoMatch(roles) \cap mappings = {}
    /\ config' = Board(created + 1, text, CURRENT_BOARD_VERSION)
    /\ created' = created + 1
    /\ mappings' = mappings \cup AutoMatch(roles)
    /\ Become(a, [at |-> "posting", id |-> created + 1, text |-> text,
                  unmapped |-> Unmapped(roles)])
    /\ UNCHANGED <<standing, migration, steps, faults, met>>

PostBoard(a) ==
    /\ proc[a].at = "posting"
    /\ PutUp(proc[a].id, Shows(proc[a].text))
    /\ Become(a, [proc[a] EXCEPT !.at = "posted"])
    /\ UNCHANGED <<config, mappings, migration, created, steps, faults, met>>

(* Mutant: the row of a board that could not be posted stays.              *)
PostFailsKeeps(a) ==
    /\ proc[a].at = "posting"
    /\ Fault
    /\ Become(a, AtRest)
    /\ UNCHANGED <<config, mappings, standing, migration, created, steps, met>>

(* The post fails: the guild's board and its mappings go, whosever.        *)
BoardPostFails(a) ==
    /\ proc[a].at = "posting"
    /\ Fault
    /\ DeleteByGuild
    /\ Become(a, AtRest)
    /\ UNCHANGED <<standing, migration, created, steps, met>>

(* The message's id goes into the guild's row, if there is one.            *)
SaveMessage(a) ==
    /\ proc[a].at = "posted"
    /\ config' = IF config = NoBoard THEN config
                 ELSE [config EXCEPT !.message = proc[a].id]
    /\ Become(a, ManualMapping(proc[a].unmapped))
    /\ UNCHANGED <<mappings, standing, migration, created, steps, faults, met>>

(* Saving fails: the message is deleted, or cannot be, and the board goes. *)
MessageSaveFails(a) ==
    /\ proc[a].at = "posted"
    /\ Fault
    /\ \/ TakeDown(proc[a].id) /\ UNCHANGED met
       \/ Met({"refused"}) /\ UNCHANGED standing
    /\ DeleteByGuild
    /\ Become(a, AtRest)
    /\ UNCHANGED <<migration, created, steps>>

-----------------------------------------------------------------------------
(* /craftingorder remove: read the row, delete the message, delete the row. *)
Remove(a) ==
    /\ proc[a] = AtRest /\ Command
    /\ config # NoBoard
    /\ Become(a, [at |-> "removing", id |-> config.id, message |-> config.message])
    /\ UNCHANGED <<config, mappings, standing, migration, created, faults, met>>

(* A message that is gone or may not be touched is passed over; any other  *)
(* error ends the command with the row in place.                           *)
RemoveMessage(a) ==
    /\ proc[a].at = "removing"
    /\ \/ /\ TakeDown(proc[a].message)
          /\ Become(a, [proc[a] EXCEPT !.at = "removed"])
          /\ UNCHANGED <<faults, met>>
       \/ /\ proc[a].message # NoMessage
          /\ Fault /\ Met({"refused"})
          /\ Become(a, [proc[a] EXCEPT !.at = "removed"])
          /\ UNCHANGED standing
       \/ /\ proc[a].message # NoMessage
          /\ Fault
          /\ Become(a, AtRest)
          /\ UNCHANGED <<standing, met>>
    /\ UNCHANGED <<config, mappings, migration, created, steps>>

(* A creation at its await, or a board posted or created since the row was *)
(* read.                                                                    *)
Beside(a) ==
    \/ \E b \in Handlers : Creating(b)
    \/ config # NoBoard /\ <<config.id, config.message>> # <<proc[a].id, proc[a].message>>

(* Mutant: the mappings of a removed board stay.                           *)
RemoveRowOnly(a) ==
    /\ proc[a].at = "removed"
    /\ config' = NoBoard
    /\ Met(If(Beside(a), "beside"))
    /\ Become(a, AtRest)
    /\ UNCHANGED <<mappings, standing, migration, created, steps, faults>>

RemoveRow(a) ==
    /\ proc[a].at = "removed"
    /\ DeleteByGuild
    /\ Met(If(Beside(a), "beside"))
    /\ Become(a, AtRest)
    /\ UNCHANGED <<standing, migration, created, steps, faults>>

-----------------------------------------------------------------------------
(* /craftingorder edit: new roles replace the mappings before the form for  *)
(* the description opens.                                                   *)
Edit(a, roles) ==
    /\ proc[a] = AtRest /\ Command
    /\ config # NoBoard
    /\ mappings' = IF roles = {} THEN mappings ELSE AutoMatch(roles)
    /\ Become(a, [at |-> "form", unmapped |-> Unmapped(roles)])
    /\ UNCHANGED <<config, standing, migration, created, faults, met>>

(* The form is sent: the description is saved whatever else is under way.  *)
FinishEdit(a, text) ==
    /\ proc[a].at = "form"
    /\ IF config = NoBoard THEN Become(a, AtRest) /\ UNCHANGED <<config, met>>
       ELSE /\ config' = [config EXCEPT !.text = text]
            /\ Met(If((\E b \in Handlers : Writing(b)) \/ migration.at = "fetched",
                      "crossed"))
            /\ Become(a, IF config.message = NoMessage
                         THEN ManualMapping(proc[a].unmapped)
                         ELSE [at |-> "editing", message |-> config.message,
                               text |-> text, unmapped |-> proc[a].unmapped])
    /\ UNCHANGED <<mappings, standing, migration, created, steps, faults>>

(* The message is edited; one that is gone, or an error, is only told.     *)
EmbedEdited(a) ==
    /\ proc[a].at = "editing"
    /\ \/ /\ proc[a].message \in DOMAIN standing
          /\ PutUp(proc[a].message, Shows(proc[a].text))
          /\ UNCHANGED <<faults, met>>
       \/ /\ proc[a].message \notin DOMAIN standing
          /\ UNCHANGED <<standing, faults, met>>
       \/ Fault /\ Met({"unedited"}) /\ UNCHANGED standing
    /\ Become(a, ManualMapping(proc[a].unmapped))
    /\ UNCHANGED <<config, mappings, migration, created, steps>>

FormClosed(a) ==
    /\ proc[a].at \in {"form", "mapping"}
    /\ Become(a, AtRest)
    /\ UNCHANGED <<config, mappings, standing, migration, created, steps, faults, met>>

(* The view for roles without a match is confirmed, by then perhaps with   *)
(* no board left: the rows are written all the same.                       *)
Confirm(a, chosen) ==
    /\ proc[a].at = "mapping"
    /\ chosen # {} /\ chosen \subseteq proc[a].unmapped
    /\ mappings' = mappings \cup chosen
    /\ Met(If(config = NoBoard, "late"))
    /\ Become(a, ManualMapping(proc[a].unmapped \ chosen))
    /\ UNCHANGED <<config, standing, migration, created, steps, faults>>

-----------------------------------------------------------------------------
(* The guild's language changes: the text is read, then the message is     *)
(* rewritten with it.                                                      *)
LanguageChanged(a) ==
    /\ proc[a] = AtRest /\ Command
    /\ config # NoBoard /\ config.message # NoMessage
    /\ Become(a, [at |-> "refreshing", message |-> config.message, text |-> config.text])
    /\ UNCHANGED <<config, mappings, standing, migration, created, faults, met>>

Refreshed(a) ==
    /\ proc[a].at = "refreshing"
    /\ \/ /\ proc[a].message \in DOMAIN standing
          /\ PutUp(proc[a].message, Shows(proc[a].text))
          /\ UNCHANGED faults
       \/ proc[a].message \notin DOMAIN standing /\ UNCHANGED <<standing, faults>>
       \/ Fault /\ UNCHANGED standing
    /\ Become(a, AtRest)
    /\ UNCHANGED <<config, mappings, migration, created, steps, met>>

-----------------------------------------------------------------------------
(* At start, a board of an earlier version is read and its message fetched  *)
(* and edited to what it showed plus the housing button.                    *)
MigrateBoards ==
    /\ migration.at = "waiting"
    /\ migration' = IF config = NoBoard \/ config.version = CURRENT_BOARD_VERSION
                    THEN Migrated
                    ELSE [at |-> "read", id |-> config.id, message |-> config.message]
    /\ UNCHANGED <<config, mappings, standing, proc, created, steps, faults, met>>

FetchBoard ==
    /\ migration.at = "read" /\ migration.message \in DOMAIN standing
    /\ migration' = [at |-> "fetched", id |-> migration.id, message |-> migration.message,
                     text |-> standing[migration.message].text]
    /\ Met(If(\E a \in Handlers : proc[a].at = "editing", "crossed"))
    /\ UNCHANGED <<config, mappings, standing, proc, created, steps, faults>>

(* The version goes up in the row that was read, if it is still there.     *)
Bump == config' = IF config.id = migration.id
                  THEN [config EXCEPT !.version = CURRENT_BOARD_VERSION]
                  ELSE config

EditBoard ==
    /\ migration.at = "fetched" /\ migration.message \in DOMAIN standing
    /\ PutUp(migration.message, Shows(migration.text))
    /\ Bump
    /\ migration' = Migrated
    /\ UNCHANGED <<mappings, proc, created, steps, faults, met>>

(* The message is gone, or may not be read: there is nothing to retry.     *)
BoardInaccessible ==
    /\ migration.at \in {"read", "fetched"}
    /\ \/ migration.message \notin DOMAIN standing /\ UNCHANGED <<faults, met>>
       \/ Fault /\ Met({"refused"})
    /\ Bump
    /\ migration' = Migrated
    /\ UNCHANGED <<mappings, standing, proc, created, steps>>

(* Mutant: an error that passes counts as one that stays.                  *)
TransientBumps ==
    /\ migration.at \in {"read", "fetched"}
    /\ Fault
    /\ Bump
    /\ migration' = Migrated
    /\ UNCHANGED <<mappings, standing, proc, created, steps, met>>

(* Any other error leaves the version, for the next start to try again.    *)
MigrationPutOff ==
    /\ migration.at \in {"read", "fetched"}
    /\ Fault
    /\ migration' = Migrated
    /\ UNCHANGED <<config, mappings, standing, proc, created, steps, met>>

-----------------------------------------------------------------------------
(* The dashboard adds and deletes mappings, board or no board.             *)
WebCreateMapping(r) ==
    /\ Command
    /\ r \notin mappings
    /\ mappings' = mappings \cup {r}
    /\ Met(If(config = NoBoard, "late"))
    /\ UNCHANGED <<config, standing, proc, migration, created, faults>>

WebDeleteMapping(r) ==
    /\ Command
    /\ r \in mappings
    /\ mappings' = mappings \ {r}
    /\ UNCHANGED <<config, standing, proc, migration, created, faults, met>>

(* A moderator deletes a message by hand. *)
DeletedByHand(m) ==
    /\ Fault
    /\ m \in DOMAIN standing
    /\ TakeDown(m) /\ Met({"deleted"})
    /\ UNCHANGED <<config, mappings, proc, migration, created, steps>>

(* The bot stops: handlers, forms and views are gone, the rest stands.     *)
BoardRestart ==
    /\ Fault
    /\ proc' = [a \in Handlers |-> AtRest]
    /\ Met(If(\E a \in Handlers : Creating(a) \/ proc[a].at \in {"removing", "removed"}, "cut")
           \cup If(\E a \in Handlers : proc[a].at = "editing", "unedited"))
    /\ migration' = [at |-> "waiting"]
    /\ UNCHANGED <<config, mappings, standing, created, steps>>

Creation == \E a \in Handlers : \/ \E text \in Texts, roles \in SUBSET Roles : FinishCreate(a, text, roles)
                                \/ PostBoard(a) \/ BoardPostFails(a)
                                \/ SaveMessage(a) \/ MessageSaveFails(a)
Removal == \E a \in Handlers : Remove(a) \/ RemoveMessage(a) \/ RemoveRow(a)
Editing == \E a \in Handlers : \/ \E roles \in SUBSET Roles : Edit(a, roles)
                               \/ \E text \in Texts : FinishEdit(a, text)
                               \/ EmbedEdited(a) \/ FormClosed(a)
                               \/ \E chosen \in SUBSET Roles : Confirm(a, chosen)
                               \/ LanguageChanged(a) \/ Refreshed(a)
Migration == MigrateBoards \/ FetchBoard \/ EditBoard \/ BoardInaccessible \/ MigrationPutOff
Outside == \/ \E r \in Roles : WebCreateMapping(r) \/ WebDeleteMapping(r)
           \/ \E m \in DOMAIN standing : DeletedByHand(m)
           \/ BoardRestart

BoardNext == Creation \/ Removal \/ Editing \/ Migration \/ Outside

BoardSpec == BoardInit /\ [][BoardNext]_boardVars

-----------------------------------------------------------------------------
(* The type of the state. *)
BoardTypeOK ==
    /\ config \in {NoBoard} \cup [id : 1..MaxBoards, message : 0..MaxBoards,
                                  text : Texts, version : {1, CURRENT_BOARD_VERSION}]
    /\ mappings \subseteq Roles
    /\ DOMAIN standing \subseteq 1..MaxBoards
    /\ \A m \in DOMAIN standing : standing[m] \in [text : Texts, housing : BOOLEAN]
    /\ \A a \in Handlers : proc[a].at \in {"idle", "posting", "posted", "removing", "removed",
                                           "form", "editing", "mapping", "refreshing"}
    /\ migration.at \in {"waiting", "read", "fetched", "done"}
    /\ met \subseteq {"beside", "cut", "refused", "deleted", "unedited", "crossed", "late"}

Settled ==
    /\ \A a \in Handlers : proc[a].at \in {"idle", "form", "mapping"}
    /\ migration.at \in {"waiting", "done"}

(* What a press of either button of a standing board finds. *)
LoadBoardContext ==
    IF config = NoBoard THEN "not_configured"
    ELSE IF mappings = {} THEN "no_roles" ELSE "menu"

(* When no handler is under way, a board with a row has its message in the *)
(* channel, and the channel has no other: no press is answered with "not   *)
(* configured".  It may fail only when a removal ran beside a creation or  *)
(* took another's row, a restart cut a handler off, Discord refused a      *)
(* deletion, or a message was deleted by hand.  Creations that fail, at    *)
(* the post or at the save, beside other creations and edits, leave        *)
(* nothing: finish_board_create's cleanup.                                 *)
BoardStands ==
    (Settled /\ met \cap {"beside", "cut", "refused", "deleted"} = {})
        => /\ config # NoBoard => DOMAIN standing = {config.message}
           /\ standing # << >> => LoadBoardContext # "not_configured"

(* Mappings do not outlive their board, whatever removals, failing         *)
(* creations, edits and restarts cross: a row that did would make the next *)
(* creation with its role fail.  Only a mapping confirmed or added on the  *)
(* dashboard while there is no board does.                                 *)
NothingLeftBehind ==
    (config = NoBoard /\ "late" \notin met) => mappings = {}

(* At rest the message of the board shows the description that is saved,   *)
(* and a board of the current version has the housing button: the          *)
(* migration's and the refresh's rewriting loses no edit, and no version   *)
(* is raised for a message that was not rewritten.  It may fail only when  *)
(* an edit of the message failed, was refused or was cut off, or an edit   *)
(* was saved while another rewriting was on its way.                       *)
BoardShowsSaved ==
    (Settled /\ config # NoBoard
       /\ met \cap {"beside", "cut", "refused", "unedited", "crossed"} = {})
        => \A m \in DOMAIN standing \cap {config.message} :
              /\ standing[m].text = config.text
              /\ config.version = CURRENT_BOARD_VERSION => standing[m].housing
=============================================================================
