------------------------ MODULE TwitchSubscriptions ------------------------
(***************************************************************************)
(* The EventSub subscriptions the dashboard keeps at Twitch for the        *)
(* streamers that guilds follow: the notification rows, the reconciler,    *)
(* and the verification and revocation calls of the webhook                *)
(* (web/twitch_reconciler.py, web/webhooks/twitch.py, modules/twitch.py).  *)
(*                                                                         *)
(* The reconciler is one task under a lock.  It reads the three queries of *)
(* a cycle at once and goes on from that snapshot through awaits to        *)
(* Twitch; the configuration and the webhook change the tables meanwhile.  *)
(* Twitch is external: it holds at most one subscription per streamer and  *)
(* type and refuses a second one.  An id is free again once nobody names   *)
(* it, which stands for Twitch's ids, never used twice.                    *)
(***************************************************************************)
EXTENDS Integers, FiniteSets

CONSTANTS
  Configs,      \* rows of TwitchNotifications: a guild, a channel and a streamer each
  Streamers,
  StreamerOf,   \* the streamer of each row
  Ids,          \* subscription ids (a bound)
  MaxFaults     \* bound on lost answers, refused commits and restarts

ASSUME ConstantsAssumption ==
  /\ StreamerOf \in [Configs -> Streamers] /\ MaxFaults \in Nat
  /\ IsFiniteSet(Streamers) /\ IsFiniteSet(Ids)

Types == {"online", "offline"}
Keys == Streamers \X Types

VARIABLES
  config,     \* TwitchNotifications: no row, live notices only, or offline notices too
  rows,       \* TwitchEventSubSubscription by (StreamerLogin, EventType)
  twitch,     \* the subscriptions Twitch holds: id -> key, NoKey if none
  revoking,   \* revocation calls under way
  cycle,      \* the running reconcile_once
  faults,     \* how many of MaxFaults happened
  lost        \* history: ids whose creation no row recorded because of a fault

vars == <<config, rows, twitch, revoking, cycle, faults, lost>>

-----------------------------------------------------------------------------
NoKey == <<>>
NoId == 0
ASSUME NoIdAssumption == NoId \notin Ids
NoRow == [status |-> "none", id |-> NoId]
Good == {"enabled", "pending"}

Idle == [at |-> "idle", create |-> {}, drop |-> {}, key |-> NoKey, id |-> NoId, broken |-> FALSE]

HeldFor(k) == {i \in Ids : twitch[i] = k}
Named == {rows[k].id : k \in Keys}

Init ==
  /\ config = [c \in Configs |-> "none"]
  /\ rows = [k \in Keys |-> NoRow]
  /\ twitch = [i \in Ids |-> NoKey]
  /\ revoking = {} /\ lost = {}
  /\ cycle = Idle
  /\ faults = 0

-----------------------------------------------------------------------------
(* The configuration: /twitch add and remove, and the dashboard's requests, *)
(* which end in a cycle of their own.  A row's channel does not matter here. *)

Add(c, kind) ==
  /\ config[c] = "none"
  /\ config' = [config EXCEPT ![c] = kind]
  /\ UNCHANGED <<rows, twitch, revoking, cycle, faults, lost>>

\* The dashboard asks Twitch for the streamer between its check and the insertion, which the
\* unique constraint refuses when the row is there by then.
WebAdd(c, kind) == Add(c, kind)

Update(c, kind) ==
  /\ config[c] \notin {"none", kind}
  /\ config' = [config EXCEPT ![c] = kind]
  /\ UNCHANGED <<rows, twitch, revoking, cycle, faults, lost>>

Remove(c) ==
  /\ config[c] # "none"
  /\ config' = [config EXCEPT ![c] = "none"]
  /\ UNCHANGED <<rows, twitch, revoking, cycle, faults, lost>>

WebRemove(c) == Remove(c)

-----------------------------------------------------------------------------
(* One cycle.  What is created and dropped is settled by the snapshot; only *)
(* a cycle changes the id of a row, so the id it read is still the row's.   *)

Desired == {StreamerOf[c] : c \in {d \in Configs : config[d] # "none"}}
OfflineNeeded == {StreamerOf[c] : c \in {d \in Configs : config[d] = "both"}}

Wanted(k) == k[1] \in Desired /\ (k[2] = "offline" => k[1] \in OfflineNeeded)
\* Mutant: a row the webhook marked as revoked counts as good.
ToCreateUnlessRow == {k \in Keys : Wanted(k) /\ rows[k] = NoRow}
\* Mutant: a subscription is only dropped when nobody follows the streamer.
ToDropOrphans == {k \in Keys : k[1] \notin Desired /\ rows[k] # NoRow}

ToCreate == {k \in Keys : Wanted(k) /\ rows[k].status \notin Good}
ToDrop == {k \in Keys : ~Wanted(k) /\ rows[k] # NoRow}

Begin ==
  /\ cycle = Idle
  /\ ToCreate \cup ToDrop # {}
  /\ cycle' = [Idle EXCEPT !.at = IF ToCreate = {} THEN "next" ELSE "resolve",
                           !.create = ToCreate, !.drop = ToDrop]
  /\ UNCHANGED <<config, rows, twitch, revoking, faults, lost>>

\* get_users answers for all of the streamers, or fails for all: then nothing is created.
Resolve ==
  /\ cycle.at = "resolve"
  /\ cycle' = [cycle EXCEPT !.at = "next"]
  /\ UNCHANGED <<config, rows, twitch, revoking, faults, lost>>

Fault == faults < MaxFaults /\ faults' = faults + 1

ResolveFails ==
  /\ cycle.at = "resolve" /\ Fault
  /\ cycle' = [cycle EXCEPT !.at = "next", !.create = {}]
  /\ UNCHANGED <<config, rows, twitch, revoking, lost>>

\* Creations come first, and the online one of a streamer before the offline one.
Turn(k) ==
  /\ cycle.at = "next"
  /\ IF cycle.create # {}
       THEN k \in cycle.create /\ (k[2] = "offline" => <<k[1], "online">> \notin cycle.create)
       ELSE k \in cycle.drop
Past(k) == [cycle EXCEPT !.at = "next", !.key = NoKey, !.id = NoId,
                         !.create = @ \ {k}, !.drop = @ \ {k}]

-----------------------------------------------------------------------------
(* create_eventsub_subscription and the commit of its row.                 *)

Unnamed == {i \in Ids : i \notin Named \cup revoking \cup {cycle.id} /\ twitch[i] = NoKey}
FreshId == CHOOSE i \in Unnamed : TRUE

TwitchCreates(k) ==
  /\ Turn(k) /\ k \in cycle.create /\ HeldFor(k) = {} /\ Unnamed # {}
  /\ twitch' = [twitch EXCEPT ![FreshId] = k]
  /\ cycle' = [cycle EXCEPT !.at = "created", !.key = k, !.id = FreshId]
  /\ lost' = lost \ {FreshId}
  /\ UNCHANGED <<config, rows, revoking, faults>>

TwitchRefuses(k) ==
  /\ Turn(k) /\ k \in cycle.create /\ HeldFor(k) # {}
  /\ cycle' = Past(k)
  /\ UNCHANGED <<config, rows, twitch, revoking, faults, lost>>

CreateFails(k) ==
  /\ Turn(k) /\ k \in cycle.create /\ Fault
  /\ cycle' = Past(k)
  /\ UNCHANGED <<config, rows, twitch, revoking, lost>>

\* The request times out after Twitch served it, or the answer has no id.
CreateUnheard(k) ==
  /\ Turn(k) /\ k \in cycle.create /\ HeldFor(k) = {} /\ Unnamed # {} /\ Fault
  /\ twitch' = [twitch EXCEPT ![FreshId] = k]
  /\ lost' = lost \cup {FreshId}
  /\ cycle' = Past(k)
  /\ UNCHANGED <<config, rows, revoking>>

Record ==
  /\ cycle.at = "created" /\ ~cycle.broken
  /\ rows' = [rows EXCEPT ![cycle.key] = [status |-> "pending", id |-> cycle.id]]
  /\ cycle' = Past(cycle.key)
  /\ UNCHANGED <<config, twitch, revoking, faults, lost>>

\* A commit fails and nothing rolls the session back: it refuses every later one of the cycle.
RecordFails ==
  /\ cycle.at = "created"
  /\ IF cycle.broken THEN UNCHANGED faults ELSE Fault
  /\ cycle' = [Past(cycle.key) EXCEPT !.broken = TRUE]
  /\ lost' = lost \cup {cycle.id}
  /\ UNCHANGED <<config, rows, twitch, revoking>>

-----------------------------------------------------------------------------
(* delete_eventsub_subscription and the deletion of its row.               *)

TwitchDrops(k) ==
  /\ Turn(k) /\ k \notin cycle.create
  /\ twitch' = [twitch EXCEPT ![rows[k].id] = NoKey]
  /\ cycle' = [cycle EXCEPT !.at = "dropped", !.key = k]
  /\ UNCHANGED <<config, rows, revoking, faults, lost>>

\* Mutant: the row goes although Twitch still holds the subscription.
DropFailsRowGoes(k) ==
  /\ Turn(k) /\ k \notin cycle.create /\ Fault
  /\ rows' = [rows EXCEPT ![k] = NoRow]
  /\ cycle' = Past(k)
  /\ UNCHANGED <<config, twitch, revoking, lost>>

DropFails(k) ==
  /\ Turn(k) /\ k \notin cycle.create /\ Fault
  /\ cycle' = Past(k)
  /\ UNCHANGED <<config, rows, twitch, revoking, lost>>

DropRow ==
  /\ cycle.at = "dropped" /\ ~cycle.broken
  /\ rows' = [rows EXCEPT ![cycle.key] = NoRow]
  /\ cycle' = Past(cycle.key)
  /\ UNCHANGED <<config, twitch, revoking, faults, lost>>

DropRowFails ==
  /\ cycle.at = "dropped"
  /\ IF cycle.broken THEN UNCHANGED faults ELSE Fault
  /\ cycle' = [Past(cycle.key) EXCEPT !.broken = TRUE]
  /\ UNCHANGED <<config, rows, twitch, revoking, lost>>

End ==
  /\ cycle.at = "next" /\ cycle.create \cup cycle.drop = {}
  /\ cycle' = Idle
  /\ UNCHANGED <<config, rows, twitch, revoking, faults, lost>>

\* The web process stops; its loop starts over with the next one.
Restart ==
  /\ cycle # Idle /\ Fault
  /\ lost' = lost \cup ({cycle.id} \ {NoId})
  /\ cycle' = Idle
  /\ UNCHANGED <<config, rows, twitch, revoking>>

-----------------------------------------------------------------------------
(* Twitch and the webhook.  The challenge of a new subscription is answered *)
(* and recorded nowhere: its row stays pending either way.                 *)

VerifyFails(i) ==
  /\ twitch[i] # NoKey /\ Fault
  /\ twitch' = [twitch EXCEPT ![i] = NoKey]
  /\ UNCHANGED <<config, rows, revoking, cycle, lost>>

Revoke(i) ==
  /\ twitch[i] # NoKey /\ revoking = {}
  /\ twitch' = [twitch EXCEPT ![i] = NoKey]
  /\ revoking' = revoking \cup {i}
  /\ UNCHANGED <<config, rows, cycle, faults, lost>>

\* Mutant: whatever row the streamer has is marked, the new one included.
HearRevocationOfAny(i) ==
  /\ i \in revoking
  /\ revoking' = revoking \ {i}
  /\ rows' = [k \in Keys |-> IF rows[k] # NoRow THEN [rows[k] EXCEPT !.status = "revoked"] ELSE rows[k]]
  /\ UNCHANGED <<config, twitch, cycle, faults, lost>>

HearRevocation(i) ==
  /\ i \in revoking
  /\ revoking' = revoking \ {i}
  /\ rows' = [k \in Keys |-> IF rows[k].id = i THEN [rows[k] EXCEPT !.status = "revoked"] ELSE rows[k]]
  /\ UNCHANGED <<config, twitch, cycle, faults, lost>>

Next ==
  \/ \E c \in Configs : \/ Remove(c) \/ WebRemove(c)
                        \/ \E kind \in {"live", "both"} : Add(c, kind) \/ WebAdd(c, kind) \/ Update(c, kind)
  \/ Begin \/ Resolve \/ ResolveFails \/ Record \/ RecordFails \/ DropRow \/ DropRowFails \/ End \/ Restart
  \/ \E k \in Keys : \/ TwitchCreates(k) \/ TwitchRefuses(k) \/ CreateFails(k) \/ CreateUnheard(k)
                     \/ TwitchDrops(k) \/ DropFails(k)
  \/ \E i \in Ids : VerifyFails(i) \/ Revoke(i) \/ HearRevocation(i)

Reconcile ==
  \/ Begin \/ Resolve \/ Record \/ RecordFails \/ DropRow \/ DropRowFails \/ End
  \/ \E k \in Keys : TwitchCreates(k) \/ TwitchRefuses(k) \/ TwitchDrops(k)

Spec == Init /\ [][Next]_vars
FairSpec == Spec /\ WF_vars(Reconcile) /\ \A i \in Ids : WF_vars(HearRevocation(i))

-----------------------------------------------------------------------------
(* Properties: the table, the snapshot and Twitch stay within their types. *)

RowType == [status : {"none", "pending", "revoked"}, id : Ids \cup {NoId}]
TypeOK ==
  /\ config \in [Configs -> {"none", "live", "both"}]
  /\ rows \in [Keys -> RowType]
  /\ twitch \in [Ids -> Keys \cup {NoKey}]
  /\ revoking \subseteq Ids /\ lost \subseteq Ids
  /\ cycle \in [at : {"idle", "resolve", "next", "created", "dropped"},
                create : SUBSET Keys, drop : SUBSET Keys, key : Keys \cup {NoKey}, id : Ids \cup {NoId}, broken : BOOLEAN]
  /\ faults \in 0 .. MaxFaults

\* No subscription is forgotten: what Twitch holds is named by the row of its key or is about to be,
\* unless an answer, a commit or the process was lost between the two (twitch_reconciler.py:92-142).
KnownUnlessLost ==
  \A i \in Ids : twitch[i] # NoKey => \/ i \in lost
                                      \/ rows[twitch[i]].id = i
                                      \/ cycle.id = i /\ cycle.key = twitch[i]

\* A row marked as revoked names a subscription Twitch no longer holds, so that healing it neither is
\* refused nor leaves the old one behind (webhooks/twitch.py:91-98, twitch_reconciler.py:108-110).
RevokedIsGone == \A k \in Keys : rows[k].status = "revoked" => twitch[rows[k].id] = NoKey

\* What nothing repairs: a row that counts as good although Twitch gave up on its subscription, as
\* the revocation came before the row named the id (twitch_reconciler.py:36-48, webhooks/twitch.py:94).
Mistaken(k) == rows[k].status \in Good /\ twitch[rows[k].id] # k

\* Whatever faults and revocations happened before, a streamer that stays followed is subscribed at
\* Twitch, be it by a subscription no row records, or its row is mistaken (twitch_reconciler.py:62-85).
FollowedIsSubscribed ==
  \A k \in Keys : <>[]Wanted(k) => []<>(HeldFor(k) # {} \/ Mistaken(k))

\* The rows of a streamer that is followed no more go for good, with the subscriptions they name,
\* although deletions fail and cycles are cut off (twitch_reconciler.py:131-142).
UnfollowedIsDropped ==
  \A k \in Keys : <>[](~Wanted(k)) => <>[](rows[k] = NoRow)
=============================================================================
