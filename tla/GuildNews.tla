----------------------------- MODULE GuildNews ------------------------------
(***************************************************************************)
(* One tracked WoW guild: its row, the activity feed, the mounts of its    *)
(* roster, and the two polls that may run beside each other: the one of    *)
(* the background loop and the manual one of /guildnews check              *)
(* (NerdyPy/modules/wow/news.py, models/wow/guild.py, characters.py,       *)
(* web/routes/guilds.py).                                                  *)
(*                                                                         *)
(* Activities are numbered as they happen.  All characters belong to one   *)
(* player, which the heuristics of a poll find out or not.  An answer of   *)
(* the API that cannot be used, be it an error, an inactive or unknown     *)
(* character or a degraded list, is Unusable.                              *)
(***************************************************************************)
EXTENDS Naturals, SequencesExt

CONSTANTS
  Chars,       \* names in the order of the roster list
  Mounts,
  CommandBatches, WebBatches, \* choices of mount_batch_size where the command, or the dashboard, tracks the guild
  MaxFeed,     \* bound on activities since the guild was tracked
  MaxEvents    \* bound on commands and roster changes together, and on failures

ASSUME BatchAssumption ==
  /\ CommandBatches \cup WebBatches \subseteq Nat \ {0}
  /\ Chars \cup Mounts \subseteq Nat /\ IsFiniteSet(Chars) /\ IsFiniteSet(Mounts) /\ Mounts # {}
  /\ MaxFeed \in Nat

Pollers == {"loop", "check"}
Activities == 1 .. MaxFeed + 1

VARIABLES
  row,    \* WowGuildNewsConfig: state, Enabled, LastActivityTimestamp (0: none), RosterOffset; the bot's
          \* mount_batch_size
  known,  \* WowCharacterMounts: ids and last_count of the characters with a row
  feed, owned, roster, \* at Blizzard: activities so far, mounts of the account, members
  poll,   \* each poll: where it is and its local variables
  work,   \* its check of each character
  posts,  \* activities posted
  told,   \* pairs of character and mount announced
  events, \* how many were met of each kind that is bounded: changes and faults
  since,  \* history: activities before the guild was tracked
  first,  \* history: what each character had when it was baselined
  met     \* history, of the poll or the guild: a "manual" check, polls "beside" each other, one "cut" off by
          \* a restart or removal, an "unsent" post, one of a mount "lost" to a first synchronisation,
          \* a "churned" list, a row that has "left" with its name, an activity "repeated", a mount announced "again"

blizzard == <<feed, owned, roster>>
history == <<since, first, met>>
vars == <<row, known, blizzard, poll, work, posts, told, events, history>>

Idle == [pc |-> "idle"]
ToRoster == [pc |-> "roster"]
NoRows == <<>>

Init ==
  /\ row = [state |-> "none", enabled |-> FALSE, stamp |-> 0, offset |-> 0, batch |-> 1] /\ known = NoRows
  /\ feed = 1 /\ owned = {CHOOSE m \in Mounts : \A n \in Mounts : m <= n} /\ roster = Chars
  /\ poll = [p \in Pollers |-> Idle] /\ work = [p \in Pollers |-> NoRows]
  /\ posts = {} /\ told = {}
  /\ events = [change |-> 0, fault |-> 0]
  /\ since = 0 /\ first = NoRows /\ met = {}

Event(kind) == events[kind] < MaxEvents /\ events' = [events EXCEPT ![kind] = @ + 1]
Live == row.state = "live"
Polling == \E p \in Pollers : poll[p].pc # "idle"
Met(what, if) == met' = IF if THEN met \cup {what} ELSE met

-----------------------------------------------------------------------------
(* Commands, dashboard and what happens in the game.                       *)

\* What came before is in the initial state: one activity, one mount.
Track(stamp, batch) ==
  /\ row.state = "none"
  /\ row' = [state |-> "live", enabled |-> TRUE, stamp |-> stamp, offset |-> 0, batch |-> batch]
  /\ since' = stamp
  /\ UNCHANGED <<known, blizzard, poll, work, posts, told, events, first, met>>

\* A tracker of the command starts now, one of the dashboard with all the feed has.
Setup(batch) == Track(feed, batch)
WebCreate(batch) == Track(0, batch)

SetEnabled ==
  /\ Live /\ Event("change") /\ row' = [row EXCEPT !.enabled = ~@]
  /\ UNCHANGED <<known, blizzard, poll, work, posts, told, history>>

Untrack ==
  /\ Live /\ Event("change") /\ row' = [row EXCEPT !.state = "gone"] /\ Met("cut", Polling)
  /\ known' = NoRows
  /\ UNCHANGED <<blizzard, poll, work, posts, told, since, first>>

WebDelete == Untrack

Happens ==
  /\ Live /\ feed < since + MaxFeed /\ feed' = feed + 1
  /\ UNCHANGED <<row, known, owned, roster, poll, work, posts, told, events, history>>

Earn(m) ==
  /\ Live /\ m \notin owned /\ owned' = owned \cup {m}
  /\ UNCHANGED <<row, known, feed, roster, poll, work, posts, told, events, history>>

\* Also by a MinLevel set on the dashboard, which decides who is a candidate.
JoinOrLeave(c) ==
  /\ Live /\ Event("change") /\ roster' = IF c \in roster THEN roster \ {c} ELSE roster \cup {c}
  /\ UNCHANGED <<row, known, feed, owned, poll, work, posts, told, history>>

-----------------------------------------------------------------------------
(* _poll_single_config and its first phase, _poll_activity.                *)

Goes(p, r) == poll' = [poll EXCEPT ![p] = r]

Begin(p) ==
  /\ poll[p].pc = "idle" /\ Live /\ row.enabled
  /\ IF p = "check" THEN Event("change") ELSE UNCHANGED events
  /\ met' = met \cup (IF p = "check" THEN {"manual"} ELSE {}) \cup (IF Polling THEN {"beside"} ELSE {})
  /\ Goes(p, [pc |-> "feed", base |-> IF p = "check" THEN 0 ELSE row.stamp])
  /\ UNCHANGED <<row, known, blizzard, work, posts, told, since, first>>

\* Mutant: whatever came of the posts.
StampAnyway(q) == IF Live THEN [row EXCEPT !.stamp = q.top] ELSE row

Stamp(q) == IF Live /\ ~q.failed THEN [row EXCEPT !.stamp = q.top] ELSE row

\* Oldest first, as the feed has the newest first.
Fetch(p) ==
  /\ poll[p].pc = "feed"
  /\ IF feed > poll[p].base
     THEN Goes(p, [pc |-> "post", base |-> poll[p].base, top |-> feed, next |-> poll[p].base + 1, failed |-> FALSE])
     ELSE Goes(p, ToRoster)
  /\ UNCHANGED <<row, known, blizzard, work, posts, told, events, history>>

\* A failed call goes on with the mounts, a refused one ends the poll there.
FetchFails(p) ==
  /\ poll[p].pc = "feed" /\ Event("fault")
  /\ \E r \in {Idle, ToRoster} : Goes(p, r)
  /\ UNCHANGED <<row, known, blizzard, work, posts, told, history>>

\* The time stamp is written behind the last.
Post(p) ==
  /\ poll[p].pc = "post"
  /\ \E ok \in BOOLEAN :
       LET e == poll[p].next
           q == [poll[p] EXCEPT !.next = e + 1, !.failed = @ \/ ~ok] IN
       /\ IF ok THEN posts' = posts \cup {e} /\ Met("repeated", e \in posts) /\ UNCHANGED events
                ELSE Event("fault") /\ Met("unsent", TRUE) /\ UNCHANGED posts
       /\ IF e < q.top THEN Goes(p, q) /\ UNCHANGED row
                       ELSE Goes(p, ToRoster) /\ row' = Stamp(q)
  /\ UNCHANGED <<known, blizzard, work, told, since, first>>

-----------------------------------------------------------------------------
(* _poll_mounts: the roster, its batches, the end.                         *)

Least(a, b) == IF a <= b THEN a ELSE b

\* An offset the list has become too short for starts over.
From(off, n) == IF off >= n THEN 0 ELSE off
NextOffset(off, n) == IF From(off, n) + row.batch >= n THEN 0 ELSE From(off, n) + row.batch
InBatch(list, off) ==
  {list[i] : i \in From(off, Len(list)) + 1 .. Least(From(off, Len(list)) + row.batch, Len(list))}

Asking(p, b) == work' = [work EXCEPT ![p] = [c \in b |-> [at |-> "ask"]]]

InOrder(members) ==
  {list \in [1 .. Cardinality(members) -> members] : \A i, j \in DOMAIN list : i < j => list[i] < list[j]}

\* Rows of characters gone for thirty days are pruned, at any time here.
Roster(p) ==
  /\ poll[p].pc = "roster"
  /\ \E list \in InOrder(roster), stale \in SUBSET (DOMAIN known \ roster) :
       /\ known' = [c \in DOMAIN known \ stale |-> known[c]]
       /\ Met("left", stale # {})
       /\ IF list = <<>> \/ ~Live
          THEN Goes(p, Idle) /\ UNCHANGED work
          ELSE /\ Goes(p, [pc |-> "batch", list |-> list, off |-> row.offset, start |-> row.offset,
                           sync |-> ~(roster \subseteq DOMAIN known), newly |-> FALSE, limited |-> FALSE,
                           marked |-> {}])
               /\ Asking(p, InBatch(list, row.offset))
  /\ UNCHANGED <<row, blizzard, posts, told, events, since, first>>

RosterFails(p) ==
  /\ poll[p].pc = "roster" /\ Event("fault") /\ Goes(p, Idle)
  /\ UNCHANGED <<row, known, blizzard, work, posts, told, history>>

\* Only the first synchronisation goes on with the next batch, until a rotation added nothing.
BatchDone(p) ==
  LET n == Len(poll[p].list)
      off == NextOffset(poll[p].off, n)
      round == off = poll[p].start \/ (off = 0 /\ poll[p].start >= n)
      more == poll[p].sync /\ ~poll[p].limited /\ (round => poll[p].newly)
      q == [poll[p] EXCEPT !.off = off, !.start = IF round THEN off ELSE @, !.newly = ~round /\ @]
  IN /\ poll[p].pc = "batch" /\ DOMAIN work[p] = {}
     /\ row' = IF Live /\ ~poll[p].limited THEN [row EXCEPT !.offset = off] ELSE row
     /\ IF more
        THEN Goes(p, q) /\ Asking(p, InBatch(poll[p].list, off))
        ELSE Goes(p, Idle) /\ UNCHANGED work
     /\ UNCHANGED <<known, blizzard, posts, told, events, history>>

-----------------------------------------------------------------------------
(* _check_character, up to each of its awaits.                             *)

At(p, c, at) == c \in DOMAIN work[p] /\ work[p][c].at = at
Does(p, c, w) == work' = [work EXCEPT ![p][c] = w]
Leaves(p, c) == work' = [work EXCEPT ![p] = [d \in DOMAIN @ \ {c} |-> @[d]]]

Unusable(p, c) ==
  /\ At(p, c, "ask") /\ Leaves(p, c)
  /\ UNCHANGED <<row, known, blizzard, poll, posts, told, events, history>>

\* The checks of the batch have all begun: only the next batch is not.
RateLimited(p, c) ==
  /\ At(p, c, "ask") /\ Event("fault") /\ Leaves(p, c) /\ Goes(p, [poll[p] EXCEPT !.limited = TRUE])
  /\ UNCHANGED <<row, known, blizzard, posts, told, history>>

\* A list of the API may lack a mount.
Answers == {owned} \cup {owned \ {m} : m \in owned}
Answer(has) == IF has = owned THEN UNCHANGED events ELSE Event("fault")

With(f, c, x) == [d \in DOMAIN f \cup {c} |-> IF d = c THEN x ELSE f[d]]

\* For a removed tracker the database refuses the row, where it has foreign keys, and
\* the poll ends as one that was refused.
Baseline(p, c) ==
  /\ At(p, c, "ask") /\ c \notin DOMAIN known /\ Leaves(p, c)
  /\ \/ ~Live /\ Goes(p, [poll[p] EXCEPT !.limited = TRUE]) /\ UNCHANGED <<known, first, events>>
     \/ \E has \in Answers :
          /\ Answer(has) /\ Goes(p, [poll[p] EXCEPT !.newly = TRUE])
          /\ known' = With(known, c, [ids |-> has, count |-> Cardinality(has)]) /\ first' = With(first, c, has)
  /\ UNCHANGED <<row, blizzard, posts, told, since, met>>

\* Under its new name a character has no row, and the API knows the old one.
Renamed(p, c) ==
  /\ At(p, c, "ask") /\ c \notin DOMAIN known /\ Event("fault") /\ Met("left", TRUE)
  /\ \E old \in DOMAIN known \ roster :
       LET Moved(f) == [d \in (DOMAIN f \ {old}) \cup {c} |-> f[IF d = c THEN old ELSE d]]
       IN known' = Moved(known) /\ first' = Moved(first)
  /\ UNCHANGED <<row, blizzard, poll, work, posts, told, since>>

\* Ids that come while others go, and no more of them, are variants of a faction.
Churn(had, has, count) == had \ has # {} /\ has \ had # {} /\ Cardinality(has) <= count

\* Mutant: whatever came of the posts.
WriteAnyway(c, w) ==
  IF c \in DOMAIN known
  THEN [known EXCEPT ![c] = [ids |-> w.had \cup w.has, count |-> Cardinality(w.has)]] ELSE known

\* Mutant: what the answer lacks is forgotten.
WriteAnswer(c, w) ==
  IF ~w.bad /\ c \in DOMAIN known
  THEN [known EXCEPT ![c] = [ids |-> w.has, count |-> Cardinality(w.has)]] ELSE known

Write(c, w) ==
  IF ~w.bad /\ c \in DOMAIN known
  THEN [known EXCEPT ![c] = [ids |-> w.had \cup w.has, count |-> Cardinality(w.has)]] ELSE known

\* The group of the account that the heuristics put the character in, or none.
Accounts(c) == {{c}, Chars}

\* On to the next mount, which counts as reported before it is sent; what the
\* account has reported in this poll is skipped; the row is written behind the last.
Onward(p, c, w) ==
  \E account \in (IF w.new = {} THEN {{c}} ELSE Accounts(c)) :
    LET fresh == {m \in w.new : \A d \in account : <<d, m>> \notin poll[p].marked} IN
    IF fresh = {}
    THEN known' = Write(c, w) /\ Leaves(p, c) /\ UNCHANGED poll
    ELSE LET m == Min(fresh)
         IN /\ Goes(p, [poll[p] EXCEPT !.marked = @ \cup {<<c, m>>}])
            /\ Does(p, c, [w EXCEPT !.now = m, !.new = fresh \ {m}]) /\ UNCHANGED known

Compare(p, c) ==
  /\ At(p, c, "ask") /\ c \in DOMAIN known
  /\ \E has \in Answers :
       LET had == known[c].ids
           churn == Churn(had, has, known[c].count) IN
       /\ Answer(has) /\ Met("churned", churn)
       /\ Onward(p, c, [at |-> "send", had |-> had, has |-> has, new |-> IF churn THEN {} ELSE has \ had, now |-> 0, bad |-> FALSE])
  /\ UNCHANGED <<row, blizzard, posts, told, since, first>>

Send(p, c) ==
  /\ At(p, c, "send")
  /\ \E ok \in BOOLEAN :
       LET w == work[p][c]
           sent == IF ok THEN {<<c, w.now>>} ELSE {} IN
       /\ told' = told \cup sent
       /\ met' = met \cup (IF sent \cap told # {} THEN {"again"} ELSE {}) \cup (IF ok THEN {} ELSE {"unsent"})
                     \cup (IF ~ok /\ poll[p].sync THEN {"lost"} ELSE {})
       /\ IF ok THEN UNCHANGED events ELSE Event("fault")
       /\ Onward(p, c, [w EXCEPT !.bad = @ \/ ~ok])
  /\ UNCHANGED <<row, blizzard, posts, since, first>>

Restart ==
  /\ Polling /\ Event("fault") /\ Met("cut", TRUE)
  /\ poll' = [p \in Pollers |-> Idle] /\ work' = [p \in Pollers |-> NoRows]
  /\ UNCHANGED <<row, known, blizzard, posts, told, since, first>>

Check(p, c) ==
  \/ Unusable(p, c) \/ RateLimited(p, c) \/ Baseline(p, c) \/ Renamed(p, c) \/ Compare(p, c) \/ Send(p, c)

Next ==
  \/ \E batch \in CommandBatches : Setup(batch)
  \/ \E batch \in WebBatches : WebCreate(batch)
  \/ SetEnabled \/ Untrack \/ WebDelete \/ Happens \/ Restart
  \/ (\E m \in Mounts : Earn(m)) \/ (\E c \in Chars : JoinOrLeave(c))
  \/ \E p \in Pollers :
       \/ Begin(p) \/ Fetch(p) \/ FetchFails(p) \/ Post(p)
       \/ Roster(p) \/ RosterFails(p) \/ BatchDone(p)
       \/ \E c \in DOMAIN work[p] : Check(p, c)

Spec == Init /\ [][Next]_vars

-----------------------------------------------------------------------------

\* Types; a row has counted no more mounts than it knows, and nothing is checked
\* outside of a batch.
TypeOK ==
  /\ row.state \in {"none", "live", "gone"} /\ row.enabled \in BOOLEAN
  /\ row.stamp \in 0 .. feed /\ row.offset \in Nat
  /\ \A c \in DOMAIN known : c \in Chars /\ known[c].ids \subseteq owned /\ known[c].count <= Cardinality(known[c].ids)
  /\ feed \in Activities /\ owned \subseteq Mounts /\ roster \subseteq Chars
  /\ posts \subseteq Activities /\ told \subseteq Chars \X Mounts
  /\ \A p \in Pollers :
       /\ poll[p].pc \in {"idle", "feed", "post", "roster", "batch"}
       /\ \A c \in DOMAIN work[p] : c \in Chars /\ poll[p].pc = "batch" /\ work[p][c].at \in {"ask", "send"}

\* The time stamp never passes an activity of the tracked time that was not posted, and
\* none is posted again without a manual check, a failed post or a poll cut off (news.py:626).
NewsOnce ==
  /\ \A e \in Activities : since < e /\ e <= row.stamp => e \in posts
  /\ "repeated" \in met => met \cap {"manual", "unsent", "cut"} # {}

\* A mount that came after the baseline and is on record was announced, for this
\* character or another, or is on its way, or a row still lacks it and will announce it
\* (news.py:818, news.py:860).  Two polls beside each other keep that only while no
\* post fails and none is cut off: each may pass over what the other then cannot send.
MountTold ==
  \/ met \cap {"lost", "churned", "left"} # {} \/ ("beside" \in met /\ met \cap {"cut", "unsent"} # {})
  \/ \A c \in DOMAIN known : \A m \in known[c].ids \ first[c] :
    \/ \E d \in Chars : <<d, m>> \in told \/ \E p \in Pollers : (At(p, d, "send") /\ work[p][d].now = m)
    \/ \E d \in DOMAIN known : m \notin known[d].ids

\* A mount is announced once for a character, however the lists of the API vary (news.py:865).
CharacterToldOnce == "again" \in met => met \cap {"beside", "unsent", "cut", "left"} # {}
=============================================================================
