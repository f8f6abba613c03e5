---------------------------- MODULE CopiesProofs ----------------------------
(* Proofs about the two components that keep a copy of what a table holds:   *)
(* the subscriptions at Twitch and the settings of a guild in the cache of   *)
(* the bot.  They share no state; the names of the second component that the *)
(* first one has too start with Settings.                                    *)
EXTENDS TwitchSubscriptions, GuildSettings, TLAPS

(***************************************************************************)
(* TwitchSubscriptions, for every set of rows, streamers and ids, and every  *)
(* bound on the faults.                                                      *)
(***************************************************************************)

-----------------------------------------------------------------------------
(* The inductive invariant: the row of a key the cycle still has to create  *)
(* names nothing Twitch holds, what it goes on from stays true of the rows  *)
(* although the webhook changes them, and what the webhook is still to hear *)
(* is gone at Twitch.                                                       *)

RowsWhole == \A k \in Keys : rows[k].status = "none" <=> rows[k].id = NoId

CycleOK ==
  /\ cycle.at \in {"idle", "resolve", "next"} => cycle.key = NoKey /\ cycle.id = NoId
  /\ cycle.at = "created" => cycle.key \in cycle.create /\ cycle.id \in Ids
  /\ cycle.at = "dropped" => cycle.key \in cycle.drop /\ cycle.id = NoId

DroppedIsGone == cycle.at = "dropped" => twitch[rows[cycle.key].id] = NoKey

SnapshotHolds ==
  /\ \A k \in cycle.create : rows[k].status \notin Good
  /\ \A k \in cycle.drop : rows[k].id # NoId

RevokingIsGone == \A i \in revoking : twitch[i] = NoKey

Inv ==
  /\ TypeOK /\ RowsWhole /\ CycleOK /\ DroppedIsGone /\ SnapshotHolds
  /\ RevokingIsGone /\ KnownUnlessLost /\ RevokedIsGone

-----------------------------------------------------------------------------
(* Types and helpers.                                                       *)

CycleType == [at : {"idle", "resolve", "next", "created", "dropped"},
              create : SUBSET Keys, drop : SUBSET Keys,
              key : Keys \cup {NoKey}, id : Ids \cup {NoId}, broken : BOOLEAN]

LEMMA IdleCycle == Idle \in CycleType
  BY DEF Idle, CycleType

LEMMA NoRows == NoRow \in RowType
  BY DEF NoRow, RowType

\* After a key is dealt with, one way or another.
LEMMA PastCycle ==
  ASSUME cycle \in CycleType, NEW k
  PROVE  /\ Past(k) \in CycleType
         /\ Past(k).at = "next" /\ Past(k).key = NoKey /\ Past(k).id = NoId
         /\ Past(k).create = cycle.create \ {k} /\ Past(k).drop = cycle.drop \ {k}
         /\ [Past(k) EXCEPT !.broken = TRUE] \in CycleType
         /\ [Past(k) EXCEPT !.broken = TRUE].at = "next"
         /\ [Past(k) EXCEPT !.broken = TRUE].key = NoKey
         /\ [Past(k) EXCEPT !.broken = TRUE].id = NoId
         /\ [Past(k) EXCEPT !.broken = TRUE].create = cycle.create \ {k}
         /\ [Past(k) EXCEPT !.broken = TRUE].drop = cycle.drop \ {k}
  BY DEF Past, CycleType

LEMMA FreshIdIsFree ==
  ASSUME Unnamed # {}
  PROVE  /\ FreshId \in Ids /\ FreshId \notin revoking /\ twitch[FreshId] = NoKey
         /\ \A k \in Keys : rows[k].id # FreshId
  <1>1. FreshId \in Unnamed
    BY DEF FreshId
  <1> QED
    BY <1>1 DEF Unnamed, Named

LEMMA FaultType ==
  ASSUME TypeOK, Fault
  PROVE  faults' \in 0 .. MaxFaults
  BY ConstantsAssumption DEF TypeOK, Fault

LEMMA InitType == Init => TypeOK
  <1> SUFFICES ASSUME Init PROVE TypeOK
    OBVIOUS
  <1>1. faults \in 0 .. MaxFaults
    BY ConstantsAssumption DEF Init
  <1>2. cycle \in CycleType
    BY IdleCycle DEF Init
  <1> QED
    BY <1>1, <1>2, NoRows DEF Init, TypeOK, CycleType

LEMMA InitInv == Init => Inv
  <1> SUFFICES ASSUME Init PROVE Inv
    OBVIOUS
  <1>1. /\ cycle.at = "idle" /\ cycle.key = NoKey /\ cycle.id = NoId
        /\ cycle.create = {} /\ cycle.drop = {}
    BY DEF Init, Idle
  <1>2. \A k \in Keys : rows[k].status = "none" /\ rows[k].id = NoId
    BY DEF Init, NoRow
  <1>3. revoking = {} /\ \A i \in Ids : twitch[i] = NoKey
    BY DEF Init
  <1> QED
    BY <1>1, <1>2, <1>3, InitType
    DEF Inv, RowsWhole, CycleOK, DroppedIsGone, SnapshotHolds, RevokingIsGone,
        KnownUnlessLost, RevokedIsGone

-----------------------------------------------------------------------------
(* Steps that leave the rows and Twitch alone.                              *)

LEMMA ConfigInv ==
  ASSUME Inv, NEW c \in Configs,
         Remove(c) \/ WebRemove(c)
         \/ \E kind \in {"live", "both"} : Add(c, kind) \/ WebAdd(c, kind) \/ Update(c, kind)
  PROVE  Inv'
  <1>1. TypeOK'
    BY DEF Inv, TypeOK, Remove, WebRemove, Add, WebAdd, Update
  <1>2. UNCHANGED <<rows, twitch, revoking, cycle, faults, lost>>
    BY DEF Remove, WebRemove, Add, WebAdd, Update
  <1> QED
    BY <1>1, <1>2
    DEF Inv, RowsWhole, CycleOK, DroppedIsGone, SnapshotHolds, RevokingIsGone,
        KnownUnlessLost, RevokedIsGone

\* A cycle that goes on with fewer keys, or is over, and names no new id.
LEMMA CycleGoesOn ==
  ASSUME Inv, UNCHANGED <<config, rows, twitch, revoking>>,
         cycle' \in CycleType, cycle'.at \in {"idle", "resolve", "next"},
         cycle'.key = NoKey, cycle'.id = NoId,
         cycle'.create \subseteq cycle.create, cycle'.drop \subseteq cycle.drop,
         lost \subseteq lost', lost' \subseteq Ids, cycle.at = "created" => cycle.id \in lost',
         faults' \in 0 .. MaxFaults
  PROVE  Inv'
  <1>1. TypeOK'
    BY DEF Inv, TypeOK, CycleType
  <1>2. CycleOK' /\ DroppedIsGone' /\ SnapshotHolds'
    BY DEF Inv, CycleOK, DroppedIsGone, SnapshotHolds
  <1>3. KnownUnlessLost'
    <2>1. \A i \in Ids : cycle.id = i => cycle.at = "created"
      BY NoIdAssumption DEF Inv, CycleOK, TypeOK
    <2> QED
      BY <2>1 DEF Inv, KnownUnlessLost
  <1> QED
    BY <1>1, <1>2, <1>3 DEF Inv, RowsWhole, RevokingIsGone, RevokedIsGone

LEMMA BeginInv ==
  ASSUME Inv, Begin
  PROVE  Inv'
  <1>1. /\ cycle' \in CycleType /\ cycle'.at \in {"next", "resolve"}
        /\ cycle'.key = NoKey /\ cycle'.id = NoId
        /\ cycle'.create = ToCreate /\ cycle'.drop = ToDrop
    BY DEF Begin, ToCreate, ToDrop, Idle, CycleType
  <1>2. TypeOK'
    BY <1>1 DEF Begin, Inv, TypeOK, CycleType
  <1>3. UNCHANGED <<rows, twitch, revoking, lost>> /\ cycle.id = NoId
    BY DEF Begin, Idle
  <1>4. CycleOK' /\ DroppedIsGone'
    BY <1>1 DEF CycleOK, DroppedIsGone
  <1>5. SnapshotHolds'
    <2>1. \A k \in ToDrop : rows[k].id # NoId
      <3> SUFFICES ASSUME NEW k \in Keys, rows[k].id = NoId PROVE rows[k] = NoRow
        BY DEF ToDrop
      <3>1. rows[k].status = "none" /\ rows[k] \in RowType
        BY DEF Inv, RowsWhole, TypeOK
      <3> QED
        BY <3>1 DEF RowType, NoRow
    <2> QED
      BY <1>1, <1>3, <2>1 DEF SnapshotHolds, ToCreate
  <1>6. KnownUnlessLost'
    BY <1>3, NoIdAssumption DEF Inv, KnownUnlessLost
  <1> QED
    BY <1>2, <1>3, <1>4, <1>5, <1>6 DEF Inv, RowsWhole, RevokingIsGone, RevokedIsGone

LEMMA UneventfulInv ==
  ASSUME Inv,
         \/ Resolve \/ ResolveFails \/ RecordFails \/ DropRowFails \/ End \/ Restart
         \/ \E k \in Keys : TwitchRefuses(k) \/ CreateFails(k) \/ DropFails(k)
  PROVE  Inv'
  <1>0. cycle \in CycleType /\ faults \in 0 .. MaxFaults /\ lost \subseteq Ids
    BY DEF Inv, TypeOK, CycleType
  <1>f. Fault => faults' \in 0 .. MaxFaults
    BY FaultType DEF Inv
  <1>1. CASE Resolve \/ ResolveFails
    <2>1. /\ cycle' \in CycleType /\ cycle'.at = "next" /\ cycle.at = "resolve"
          /\ cycle'.key = cycle.key /\ cycle'.id = cycle.id
          /\ cycle'.create \subseteq cycle.create /\ cycle'.drop = cycle.drop
      BY <1>0, <1>1 DEF Resolve, ResolveFails, CycleType
    <2>2. cycle'.key = NoKey /\ cycle'.id = NoId
      BY <2>1 DEF Inv, CycleOK
    <2> QED
      BY <1>0, <1>f, <1>1, <2>1, <2>2, CycleGoesOn DEF Resolve, ResolveFails
  <1>2. CASE RecordFails
    <2>1. cycle.id \in Ids /\ cycle.at = "created"
      BY <1>2 DEF RecordFails, Inv, CycleOK
    <2>2. lost \subseteq lost' /\ lost' \subseteq Ids /\ cycle.id \in lost'
      BY <1>0, <1>2, <2>1 DEF RecordFails
    <2>3. faults' \in 0 .. MaxFaults
      BY <1>0, <1>f, <1>2 DEF RecordFails
    <2>4. cycle' = [Past(cycle.key) EXCEPT !.broken = TRUE]
          /\ UNCHANGED <<config, rows, twitch, revoking>>
      BY <1>2 DEF RecordFails
    <2> QED
      BY <1>0, <2>1, <2>2, <2>3, <2>4, PastCycle, CycleGoesOn
  <1>3. CASE DropRowFails
    <2>1. cycle.at = "dropped" /\ faults' \in 0 .. MaxFaults
      BY <1>0, <1>f, <1>3 DEF DropRowFails
    <2>2. cycle' = [Past(cycle.key) EXCEPT !.broken = TRUE]
          /\ UNCHANGED <<config, rows, twitch, revoking, lost>>
      BY <1>3 DEF DropRowFails
    <2> QED
      BY <1>0, <2>1, <2>2, PastCycle, CycleGoesOn
  <1>4. CASE End \/ Restart
    <2>1. /\ cycle' \in CycleType /\ cycle'.at = "idle" /\ cycle'.key = NoKey /\ cycle'.id = NoId
          /\ cycle'.create = {} /\ cycle'.drop = {}
      <3>1. cycle' = Idle
        BY <1>4 DEF End, Restart
      <3> QED
        BY <3>1, IdleCycle DEF Idle
    <2>2. UNCHANGED <<config, rows, twitch, revoking>>
      BY <1>4 DEF End, Restart
    <2>4. faults' \in 0 .. MaxFaults
      <3>1. CASE End
        BY <1>0, <3>1 DEF End
      <3>2. CASE Restart
        BY <1>f, <3>2 DEF Restart
      <3> QED BY <1>4, <3>1, <3>2
    <2>3. /\ lost \subseteq lost' /\ lost' \subseteq Ids
          /\ cycle.at = "created" => cycle.id \in lost'
      <3>1. CASE End
        BY <1>0, <3>1 DEF End
      <3>2. CASE Restart
        <4>1. cycle.id \in Ids \cup {NoId} /\ (cycle.at = "created" => cycle.id \in Ids)
          BY <1>0 DEF Inv, CycleOK, CycleType
        <4>2. lost' = lost \cup ({cycle.id} \ {NoId})
          BY <3>2 DEF Restart
        <4> QED
          BY <1>0, <4>1, <4>2, NoIdAssumption
      <3> QED BY <1>4, <3>1, <3>2
    <2> QED
      BY <2>1, <2>2, <2>3, <2>4, CycleGoesOn
  <1>5. ASSUME NEW k \in Keys, TwitchRefuses(k) \/ CreateFails(k) \/ DropFails(k)
        PROVE  Inv'
    <2>1. cycle' = Past(k) /\ cycle.at = "next" /\ UNCHANGED <<config, rows, twitch, revoking, lost>>
      BY <1>5 DEF TwitchRefuses, CreateFails, DropFails, Turn
    <2>2. faults' \in 0 .. MaxFaults
      BY <1>0, <1>f, <1>5 DEF TwitchRefuses, CreateFails, DropFails
    <2>3. /\ cycle' \in CycleType /\ cycle'.at = "next" /\ cycle'.key = NoKey /\ cycle'.id = NoId
          /\ cycle'.create \subseteq cycle.create /\ cycle'.drop \subseteq cycle.drop
      <3>1. /\ Past(k) \in CycleType /\ Past(k).at = "next" /\ Past(k).key = NoKey /\ Past(k).id = NoId
            /\ Past(k).create = cycle.create \ {k} /\ Past(k).drop = cycle.drop \ {k}
        BY <1>0, PastCycle
      <3> QED BY <2>1, <3>1
    <2>4. UNCHANGED <<config, rows, twitch, revoking>> /\ cycle.at # "created"
          /\ lost \subseteq lost' /\ lost' \subseteq Ids
      BY <1>0, <2>1
    <2> QED
      BY <2>2, <2>3, <2>4, CycleGoesOn
  <1> QED
    BY <1>1, <1>2, <1>3, <1>4, <1>5

-----------------------------------------------------------------------------
(* Creations.                                                               *)

LEMMA CreatedInv ==
  ASSUME Inv, NEW k \in Keys, TwitchCreates(k) \/ CreateUnheard(k)
  PROVE  Inv'
  <1> DEFINE f == FreshId
  <1>1. /\ f \in Ids /\ f \notin revoking /\ twitch[f] = NoKey
        /\ \A j \in Keys : rows[j].id # f
    BY FreshIdIsFree DEF TwitchCreates, CreateUnheard
  <1>2. /\ twitch' = [twitch EXCEPT ![f] = k] /\ UNCHANGED <<config, rows, revoking>>
        /\ k \in cycle.create /\ cycle.at = "next" /\ cycle.id = NoId
    BY DEF TwitchCreates, CreateUnheard, Turn, Inv, CycleOK
  <1>3. /\ cycle' \in CycleType /\ cycle'.at \in {"next", "created"}
        /\ cycle'.at = "next" => cycle'.key = NoKey /\ cycle'.id = NoId
        /\ cycle'.at = "created" => cycle'.key = k /\ cycle'.id = f /\ k \in cycle'.create
        /\ cycle'.create \subseteq cycle.create /\ cycle'.drop \subseteq cycle.drop
    <2>1. cycle \in CycleType
      BY DEF Inv, TypeOK, CycleType
    <2>2. CASE TwitchCreates(k)
      <3>1. cycle' = [cycle EXCEPT !.at = "created", !.key = k, !.id = f]
        BY <2>2 DEF TwitchCreates
      <3> HIDE DEF f
      <3> QED
        BY <1>1, <1>2, <2>1, <3>1 DEF CycleType
    <2>3. CASE CreateUnheard(k)
      <3>1. cycle' = Past(k)
        BY <2>3 DEF CreateUnheard
      <3>2. /\ Past(k) \in CycleType /\ Past(k).at = "next" /\ Past(k).key = NoKey /\ Past(k).id = NoId
            /\ Past(k).create = cycle.create \ {k} /\ Past(k).drop = cycle.drop \ {k}
        BY <2>1, PastCycle
      <3> QED
        BY <3>1, <3>2
    <2> QED BY <2>2, <2>3
  <1>4. /\ faults' \in 0 .. MaxFaults /\ lost' \subseteq Ids
        /\ lost \subseteq lost' \cup {f}
        /\ cycle'.at = "created" \/ f \in lost'
    <2>0. faults \in 0 .. MaxFaults /\ lost \subseteq Ids
      BY DEF Inv, TypeOK
    <2>1. CASE TwitchCreates(k)
      <3>1. cycle'.at = "created"
        BY <2>1 DEF TwitchCreates, Inv, TypeOK
      <3>2. lost' = lost \ {f} /\ faults' = faults
        BY <2>1 DEF TwitchCreates
      <3> QED
        BY <2>0, <3>1, <3>2
    <2>2. CASE CreateUnheard(k)
      BY <1>1, <2>2, FaultType DEF CreateUnheard, Inv, TypeOK
    <2> QED BY <2>1, <2>2
  <1> HIDE DEF f
  <1>5. twitch \in [Ids -> Keys \cup {NoKey}] /\ twitch'[f] = k
        /\ \A i \in Ids : i # f => twitch'[i] = twitch[i]
    BY <1>1, <1>2 DEF Inv, TypeOK
  <1>6. TypeOK'
    BY <1>2, <1>3, <1>4 DEF Inv, TypeOK, CycleType
  <1>7. CycleOK' /\ DroppedIsGone' /\ SnapshotHolds'
    BY <1>1, <1>2, <1>3 DEF Inv, CycleOK, DroppedIsGone, SnapshotHolds
  <1>8. RevokingIsGone'
    BY <1>1, <1>2, <1>5 DEF Inv, TypeOK, RevokingIsGone
  <1>9. KnownUnlessLost'
    <2> SUFFICES ASSUME NEW i \in Ids, twitch'[i] # NoKey
                 PROVE  \/ i \in lost' \/ rows'[twitch'[i]].id = i
                        \/ cycle'.id = i /\ cycle'.key = twitch'[i]
      BY DEF KnownUnlessLost
    <2>1. CASE i = f
      BY <1>3, <1>4, <1>5, <2>1
    <2>2. CASE i # f
      BY <1>2, <1>4, <1>5, <2>2, NoIdAssumption DEF Inv, KnownUnlessLost
    <2> QED BY <2>1, <2>2
  <1>10. RevokedIsGone'
    <2> SUFFICES ASSUME NEW j \in Keys, rows[j].status = "revoked" PROVE twitch'[rows[j].id] = NoKey
      BY <1>2 DEF RevokedIsGone
    <2>1. rows[j].id \in Ids /\ rows[j].id # f /\ twitch[rows[j].id] = NoKey
      BY <1>1 DEF Inv, RowsWhole, TypeOK, RowType, RevokedIsGone
    <2> QED
      BY <1>5, <2>1
  <1> QED
    BY <1>2, <1>6, <1>7, <1>8, <1>9, <1>10 DEF Inv, RowsWhole

\* The row a creation is recorded in named nothing, or what a revocation took away at Twitch.
LEMMA RecordInv ==
  ASSUME Inv, Record
  PROVE  Inv'
  <1> DEFINE k == cycle.key
             new == [status |-> "pending", id |-> cycle.id]
  <1>1. /\ cycle.at = "created" /\ k \in cycle.create /\ k \in Keys /\ cycle.id \in Ids
        /\ rows' = [rows EXCEPT ![k] = new] /\ cycle' = Past(k)
        /\ UNCHANGED <<config, twitch, revoking, faults, lost>>
    BY DEF Record, Inv, CycleOK, TypeOK
  <1>2. /\ cycle' \in CycleType /\ cycle'.at = "next" /\ cycle'.key = NoKey /\ cycle'.id = NoId
        /\ cycle'.create = cycle.create \ {k} /\ cycle'.drop = cycle.drop \ {k}
    BY <1>1, PastCycle DEF Inv, TypeOK, CycleType
  <1>3. rows' \in [Keys -> RowType] /\ rows'[k] = new /\ \A j \in Keys : j # k => rows'[j] = rows[j]
    BY <1>1 DEF Inv, TypeOK, RowType
  <1>4. rows[k].status \notin Good /\ rows[k] \in RowType
    BY <1>1 DEF Inv, SnapshotHolds, TypeOK
  <1>5. rows[k].status = "none" \/ twitch[rows[k].id] = NoKey
    BY <1>1, <1>4 DEF RowType, Good, Inv, RevokedIsGone
  <1> HIDE DEF k
  <1>6. TypeOK'
    BY <1>1, <1>2, <1>3 DEF Inv, TypeOK, CycleType
  <1>7. RowsWhole'
    BY <1>1, <1>3, NoIdAssumption DEF Inv, RowsWhole
  <1>8. CycleOK' /\ DroppedIsGone'
    BY <1>2 DEF CycleOK, DroppedIsGone
  <1>9. SnapshotHolds'
    BY <1>2, <1>3 DEF Inv, SnapshotHolds, TypeOK
  <1>10. KnownUnlessLost'
    <2> SUFFICES ASSUME NEW i \in Ids, twitch[i] # NoKey, i \notin lost
                 PROVE  rows'[twitch[i]].id = i
      BY <1>1 DEF KnownUnlessLost
    <2>1. twitch[i] \in Keys
      BY DEF Inv, TypeOK
    <2>2. CASE twitch[i] = k
      <3>1. rows[k].id # i
        BY <1>5, <2>2, NoIdAssumption DEF Inv, RowsWhole, TypeOK
      <3>2. cycle.id = i
        BY <2>2, <3>1 DEF Inv, KnownUnlessLost
      <3> QED
        BY <1>3, <2>2, <3>2
    <2>3. CASE twitch[i] # k
      BY <1>3, <2>1, <2>3 DEF Inv, KnownUnlessLost, k
    <2> QED BY <2>2, <2>3
  <1>11. RevokedIsGone'
    BY <1>1, <1>3 DEF Inv, RevokedIsGone
  <1> QED
    BY <1>1, <1>6, <1>7, <1>8, <1>9, <1>10, <1>11 DEF Inv, RevokingIsGone

-----------------------------------------------------------------------------
(* Deletions, verification and revocation: Twitch gives up on a             *)
(* subscription and only then does the row follow.                          *)

LEMMA GivenUp ==
  ASSUME Inv, NEW x, twitch' = [twitch EXCEPT ![x] = NoKey]
  PROVE  /\ twitch' \in [Ids -> Keys \cup {NoKey}]
         /\ \A i \in Ids : twitch'[i] = IF i = x THEN NoKey ELSE twitch[i]
  BY DEF Inv, TypeOK

LEMMA TwitchDropsInv ==
  ASSUME Inv, NEW k \in Keys, TwitchDrops(k)
  PROVE  Inv'
  <1>1. /\ cycle.at = "next" /\ k \in cycle.drop /\ UNCHANGED <<config, rows, revoking, faults, lost>>
        /\ cycle' = [cycle EXCEPT !.at = "dropped", !.key = k]
    BY DEF TwitchDrops, Turn
  <1>2. cycle.id = NoId /\ cycle \in CycleType
    BY <1>1 DEF Inv, CycleOK, TypeOK, CycleType
  <1>3. /\ cycle' \in CycleType /\ cycle'.at = "dropped" /\ cycle'.key = k /\ cycle'.id = NoId
        /\ cycle'.create = cycle.create /\ cycle'.drop = cycle.drop
    BY <1>1, <1>2 DEF CycleType
  <1>4. rows[k].id \in Ids
    BY <1>1 DEF Inv, SnapshotHolds, TypeOK, RowType
  <1>5. /\ twitch' \in [Ids -> Keys \cup {NoKey}]
        /\ \A i \in Ids : twitch'[i] = IF i = rows[k].id THEN NoKey ELSE twitch[i]
    BY GivenUp DEF TwitchDrops
  <1>6. TypeOK'
    BY <1>1, <1>3, <1>5 DEF Inv, TypeOK, CycleType
  <1>7. CycleOK' /\ DroppedIsGone' /\ SnapshotHolds'
    BY <1>1, <1>3, <1>4, <1>5 DEF Inv, CycleOK, DroppedIsGone, SnapshotHolds
  <1>8. RevokingIsGone' /\ KnownUnlessLost'
    BY <1>1, <1>2, <1>5, NoIdAssumption DEF Inv, RevokingIsGone, KnownUnlessLost, TypeOK
  <1>9. RevokedIsGone'
    BY <1>1, <1>5 DEF Inv, RevokedIsGone, RowsWhole, TypeOK, RowType
  <1> QED
    BY <1>1, <1>6, <1>7, <1>8, <1>9 DEF Inv, RowsWhole

LEMMA DropRowInv ==
  ASSUME Inv, DropRow
  PROVE  Inv'
  <1> DEFINE k == cycle.key
  <1>1. /\ cycle.at = "dropped" /\ k \in cycle.drop /\ k \in Keys /\ cycle.id = NoId
        /\ rows' = [rows EXCEPT ![k] = NoRow] /\ cycle' = Past(k)
        /\ UNCHANGED <<config, twitch, revoking, faults, lost>>
    BY DEF DropRow, Inv, CycleOK, TypeOK
  <1>2. /\ cycle' \in CycleType /\ cycle'.at = "next" /\ cycle'.key = NoKey /\ cycle'.id = NoId
        /\ cycle'.create = cycle.create \ {k} /\ cycle'.drop = cycle.drop \ {k}
    BY <1>1, PastCycle DEF Inv, TypeOK, CycleType
  <1>3. rows' \in [Keys -> RowType] /\ rows'[k] = NoRow /\ \A j \in Keys : j # k => rows'[j] = rows[j]
    BY <1>1, NoRows DEF Inv, TypeOK
  <1>4. twitch[rows[k].id] = NoKey
    BY <1>1 DEF Inv, DroppedIsGone
  <1> HIDE DEF k
  <1>5. TypeOK'
    BY <1>1, <1>2, <1>3 DEF Inv, TypeOK, CycleType
  <1>6. CycleOK' /\ DroppedIsGone'
    BY <1>2 DEF CycleOK, DroppedIsGone
  <1>7. RowsWhole' /\ SnapshotHolds'
    BY <1>2, <1>3 DEF Inv, RowsWhole, SnapshotHolds, NoRow, TypeOK
  <1>8. KnownUnlessLost'
    <2> SUFFICES ASSUME NEW i \in Ids, twitch[i] # NoKey, i \notin lost
                 PROVE  rows'[twitch[i]].id = i
      BY <1>1 DEF KnownUnlessLost
    <2>1. twitch[i] \in Keys /\ rows[twitch[i]].id = i
      BY <1>1, NoIdAssumption DEF Inv, TypeOK, KnownUnlessLost
    <2> QED
      BY <1>3, <1>4, <2>1
  <1>9. RevokedIsGone'
    BY <1>1, <1>3 DEF Inv, RevokedIsGone, NoRow
  <1> QED
    BY <1>1, <1>5, <1>6, <1>7, <1>8, <1>9 DEF Inv, RevokingIsGone

LEMMA GivesUpInv ==
  ASSUME Inv, NEW i \in Ids, VerifyFails(i) \/ Revoke(i)
  PROVE  Inv'
  <1>1. /\ twitch' \in [Ids -> Keys \cup {NoKey}]
        /\ \A j \in Ids : twitch'[j] = IF j = i THEN NoKey ELSE twitch[j]
    BY GivenUp DEF VerifyFails, Revoke
  <1>2. UNCHANGED <<config, rows, cycle, lost>> /\ revoking \subseteq revoking' /\ revoking' \subseteq revoking \cup {i}
    BY DEF VerifyFails, Revoke
  <1>3. faults' \in 0 .. MaxFaults
    BY FaultType DEF VerifyFails, Revoke, Inv, TypeOK
  <1>4. TypeOK'
    BY <1>1, <1>2, <1>3 DEF Inv, TypeOK
  <1>5. CycleOK' /\ SnapshotHolds' /\ RowsWhole'
    BY <1>2 DEF Inv, CycleOK, SnapshotHolds, RowsWhole
  <1>6. DroppedIsGone'
    <2> SUFFICES ASSUME cycle.at = "dropped" PROVE twitch'[rows[cycle.key].id] = NoKey
      BY <1>2 DEF DroppedIsGone
    <2>1. rows[cycle.key].id \in Ids /\ twitch[rows[cycle.key].id] = NoKey
      BY DEF Inv, CycleOK, SnapshotHolds, DroppedIsGone, TypeOK, RowType
    <2> QED
      BY <1>1, <2>1
  <1>7. RevokingIsGone' /\ KnownUnlessLost'
    BY <1>1, <1>2 DEF Inv, RevokingIsGone, KnownUnlessLost, TypeOK
  <1>8. RevokedIsGone'
    BY <1>1, <1>2 DEF Inv, RevokedIsGone, RowsWhole, TypeOK, RowType
  <1> QED
    BY <1>4, <1>5, <1>6, <1>7, <1>8 DEF Inv

LEMMA HearRevocationInv ==
  ASSUME Inv, NEW i \in Ids, HearRevocation(i)
  PROVE  Inv'
  <1>1. /\ i \in revoking /\ revoking' = revoking \ {i} /\ UNCHANGED <<config, twitch, cycle, faults, lost>>
        /\ \A k \in Keys : rows'[k] = IF rows[k].id = i THEN [rows[k] EXCEPT !.status = "revoked"] ELSE rows[k]
    BY DEF HearRevocation
  <1>2. rows' \in [Keys -> RowType]
    BY DEF HearRevocation, Inv, TypeOK, RowType
  <1>3. \A k \in Keys : /\ rows'[k].id = rows[k].id
                       /\ rows'[k].status = IF rows[k].id = i THEN "revoked" ELSE rows[k].status
    BY <1>1 DEF Inv, TypeOK, RowType
  <1>4. TypeOK'
    BY <1>1, <1>2 DEF Inv, TypeOK
  <1>5. RowsWhole' /\ CycleOK' /\ RevokingIsGone' /\ KnownUnlessLost'
    BY <1>1, <1>3, NoIdAssumption DEF Inv, RowsWhole, CycleOK, RevokingIsGone, KnownUnlessLost, TypeOK
  <1>6. DroppedIsGone' /\ SnapshotHolds'
    BY <1>1, <1>3 DEF Inv, TypeOK, CycleOK, DroppedIsGone, SnapshotHolds, Good
  <1>7. RevokedIsGone'
    BY <1>1, <1>3 DEF Inv, RevokedIsGone, RevokingIsGone
  <1> QED
    BY <1>4, <1>5, <1>6, <1>7 DEF Inv

-----------------------------------------------------------------------------

LEMMA StepInv == Inv /\ [Next]_vars => Inv'
  <1> SUFFICES ASSUME Inv, [Next]_vars PROVE Inv'
    OBVIOUS
  <1>1. CASE UNCHANGED vars
    BY <1>1 DEF vars, Inv, TypeOK, RowsWhole, CycleOK, DroppedIsGone, SnapshotHolds,
                RevokingIsGone, KnownUnlessLost, RevokedIsGone
  <1>2. CASE Next
    BY <1>2, ConfigInv, BeginInv, UneventfulInv, CreatedInv, RecordInv, TwitchDropsInv, DropRowInv,
       GivesUpInv, HearRevocationInv
    DEF Next
  <1> QED
    BY <1>1, <1>2

LEMMA Inductive == Spec => []Inv
  BY InitInv, StepInv, PTL DEF Spec

\* The tables, the snapshot and what Twitch holds keep their types.
THEOREM TypeCorrect == Spec => []TypeOK
  BY Inductive, PTL DEF Inv

\* What Twitch holds is named by the row of its key, or by the creation under way, unless an
\* answer, a commit or the process was lost between the two.
THEOREM NothingForgotten == Spec => []KnownUnlessLost
  BY Inductive, PTL DEF Inv

\* What a row marked as revoked names is gone at Twitch: a new creation is not refused for it.
THEOREM RevokedRowsNameNothing == Spec => []RevokedIsGone
  BY Inductive, PTL DEF Inv

(***************************************************************************)
(* GuildSettings, for any number of changes and faults and a queue of any    *)
(* length.                                                                   *)
(***************************************************************************)

Settings == {Unset} \cup Values
Notes == [of : Lazy \cup {"leave"}, value : Settings]

Typed ==
  /\ SettingsTypeOK
  /\ queue \in Seq(Notes)
  /\ thread \in [at : {"none", "read", "swapped"}, value : Settings \cup {Absent}]
  /\ loading \in [at : {"none", "read"}, value : Settings]
  /\ thread.at = "none" => thread = Nothing
  /\ loading.at = "none" => loading = Nothing

-----------------------------------------------------------------------------
(* The notifications on their way about one setting.                        *)

Queued(q, x) == \E i \in 1 .. Len(q) : q[i].of = x

\* The last of them carries v.
LastIs(q, x, v) ==
  \A i \in 1 .. Len(q) :
    q[i].of = x /\ (\A j \in 1 .. Len(q) : j > i => q[j].of # x) => q[i].value = v

LEMMA NoneQueued == \A x, v : ~Queued(<<>>, x) /\ LastIs(<<>>, x, v)
  BY DEF Queued, LastIs

LEMMA PendingIsQueued ==
  ASSUME Typed, NEW x
  PROVE  Pending(x) <=> Queued(queue, x)
  <1>1. DOMAIN queue = 1 .. Len(queue)
    BY DEF Typed
  <1> QED
    BY <1>1 DEF Pending, Queued

LEMMA NoteAppended ==
  ASSUME NEW q \in Seq(Notes), NEW n \in Notes, NEW x, NEW v
  PROVE  /\ Append(q, n) \in Seq(Notes)
         /\ Queued(Append(q, n), x) <=> Queued(q, x) \/ n.of = x
         /\ n.of # x /\ LastIs(q, x, v) => LastIs(Append(q, n), x, v)
         /\ n.of = x => LastIs(Append(q, n), x, n.value)
  <1> DEFINE p == Append(q, n)
  <1>1. /\ p \in Seq(Notes) /\ Len(q) \in Nat /\ Len(p) = Len(q) + 1 /\ p[Len(q) + 1] = n
        /\ \A i \in 1 .. Len(q) : p[i] = q[i]
    OBVIOUS
  <1> HIDE DEF p
  <1>2. \A i \in 1 .. Len(p) : i \in 1 .. Len(q) \/ i = Len(q) + 1
    BY <1>1
  <1>3. Len(q) + 1 \in 1 .. Len(p) /\ \A i \in 1 .. Len(q) : i \in 1 .. Len(p) /\ Len(q) + 1 > i
    BY <1>1
  <1>4. Queued(p, x) <=> Queued(q, x) \/ n.of = x
    BY <1>1, <1>2, <1>3 DEF Queued
  <1>5. ASSUME n.of # x, LastIs(q, x, v) PROVE LastIs(p, x, v)
    <2> SUFFICES ASSUME NEW i \in 1 .. Len(p), p[i].of = x, \A j \in 1 .. Len(p) : j > i => p[j].of # x
                 PROVE  p[i].value = v
      BY DEF LastIs
    <2>1. i \in 1 .. Len(q) /\ p[i] = q[i]
      BY <1>1, <1>2, <1>5
    <2>2. \A j \in 1 .. Len(q) : j > i => q[j].of # x
      BY <1>1, <1>3
    <2> QED
      BY <1>5, <2>1, <2>2 DEF LastIs
  <1>6. ASSUME n.of = x PROVE LastIs(p, x, n.value)
    <2> SUFFICES ASSUME NEW i \in 1 .. Len(p), p[i].of = x, \A j \in 1 .. Len(p) : j > i => p[j].of # x
                 PROVE  p[i].value = n.value
      BY DEF LastIs
    <2>1. i = Len(q) + 1
      BY <1>1, <1>2, <1>3, <1>6
    <2> QED
      BY <1>1, <2>1
  <1> QED
    BY <1>1, <1>4, <1>5, <1>6 DEF p

LEMMA NoteTaken ==
  ASSUME NEW q \in Seq(Notes), q # <<>>, NEW x, NEW v
  PROVE  /\ Tail(q) \in Seq(Notes) /\ Head(q) \in Notes
         /\ Queued(q, x) <=> Queued(Tail(q), x) \/ Head(q).of = x
         /\ LastIs(q, x, v) => /\ LastIs(Tail(q), x, v)
                               /\ Head(q).of = x /\ ~Queued(Tail(q), x) => Head(q).value = v
  <1> DEFINE t == Tail(q)
  <1>1. /\ t \in Seq(Notes) /\ Len(q) \in Nat \ {0} /\ Len(t) = Len(q) - 1 /\ Head(q) = q[1] /\ Head(q) \in Notes
        /\ \A i \in 1 .. Len(t) : t[i] = q[i + 1]
    OBVIOUS
  <1> HIDE DEF t
  <1>2. 1 \in 1 .. Len(q) /\ \A i \in 1 .. Len(t) : i + 1 \in 1 .. Len(q)
    BY <1>1
  <1>3. \A i \in 1 .. Len(q) : i # 1 => i - 1 \in 1 .. Len(t) /\ t[i - 1] = q[i]
    <2> SUFFICES ASSUME NEW i \in 1 .. Len(q), i # 1
                 PROVE  i - 1 \in 1 .. Len(t) /\ t[i - 1] = q[i]
      OBVIOUS
    <2>1. i - 1 \in 1 .. Len(t) /\ (i - 1) + 1 = i
      BY <1>1
    <2>2. t[i - 1] = q[(i - 1) + 1]
      BY <1>1, <2>1
    <2> QED BY <2>1, <2>2
  <1>4. Queued(q, x) <=> Queued(t, x) \/ Head(q).of = x
    <2>1. Queued(t, x) \/ Head(q).of = x => Queued(q, x)
      BY <1>1, <1>2 DEF Queued
    <2>2. ASSUME NEW i \in 1 .. Len(q), q[i].of = x PROVE Queued(t, x) \/ Head(q).of = x
      <3>1. i # 1 => i - 1 \in 1 .. Len(t) /\ t[i - 1].of = x
        BY <1>3, <2>2
      <3> QED
        BY <1>1, <2>2, <3>1 DEF Queued
    <2> QED
      BY <2>1, <2>2 DEF Queued
  <1>5. ASSUME LastIs(q, x, v) PROVE LastIs(t, x, v)
    <2> SUFFICES ASSUME NEW i \in 1 .. Len(t), t[i].of = x, \A j \in 1 .. Len(t) : j > i => t[j].of # x
                 PROVE  t[i].value = v
      BY DEF LastIs
    <2>1. i + 1 \in 1 .. Len(q) /\ q[i + 1].of = x
      BY <1>1, <1>2
    <2>2. ASSUME NEW j \in 1 .. Len(q), j > i + 1 PROVE q[j].of # x
      <3>1. j # 1 /\ j - 1 > i
        BY <2>2, <1>1
      <3> QED
        BY <1>3, <3>1
    <2> QED
      BY <1>1, <1>5, <2>1, <2>2 DEF LastIs
  <1>6. ASSUME LastIs(q, x, v), Head(q).of = x, ~Queued(t, x) PROVE Head(q).value = v
    <2>1. ASSUME NEW j \in 1 .. Len(q), j > 1 PROVE q[j].of # x
      BY <1>1, <1>3, <1>6, <2>1 DEF Queued
    <2> QED
      BY <1>1, <1>2, <1>6, <2>1 DEF LastIs
  <1> QED
    BY <1>1, <1>4, <1>5, <1>6 DEF t

-----------------------------------------------------------------------------
(* The inductive invariant, setting by setting.                             *)

\* What the events still to be raised will set.
EventsCurrent(x) == events[x] \subseteq {table[x]}

RoleOK ==
  /\ EventsCurrent("role")
  /\ Queued(queue, "role") \/ cache["role"] \in {Absent, table["role"]}

LanguageOK ==
  /\ EventsCurrent("language")
  /\ LastIs(queue, "language", table["language"])
  /\ Queued(queue, "language") \/ cache["language"] \in {Absent, table["language"]}

\* What the thread has read is still so; what a handler has read too, unless there is another
\* notification to come; what is cached is the row's, from the swap of a warm-up on.
LeaveOK ==
  /\ thread.at = "read" => thread.value = WarmValue(Enabled(row))
  /\ ~Queued(queue, "leave") =>
       IF loading.at = "read" THEN loading.value = Enabled(row)
       ELSE Cached \/ thread.at = "swapped" => leave \in {Enabled(row), WarmValue(Enabled(row))}

LazyPart == ("role" \notin raced => RoleOK) /\ ("language" \notin raced => LanguageOK)
LeavePart == "leave" \notin raced => LeaveOK

SettingsInv == Typed /\ LazyPart /\ LeavePart

LEMMA SettingsInitInv == SettingsInit => SettingsInv
  <1> SUFFICES ASSUME SettingsInit PROVE SettingsInv
    OBVIOUS
  <1>1. queue = <<>> /\ queue \in Seq(Notes)
    BY DEF SettingsInit
  <1>2. /\ thread = Nothing /\ loading = Nothing /\ Nothing.at = "none" /\ Nothing.value = Unset
        /\ Nothing \in [at : {"none", "read", "swapped"}, value : Settings \cup {Absent}]
        /\ Nothing \in [at : {"none", "read"}, value : Settings]
    BY DEF SettingsInit, Nothing, Settings
  <1>3. SettingsTypeOK
    <2>1. warmed = FALSE /\ evicted = FALSE /\ present = TRUE
      BY DEF SettingsInit
    <2>2. warmed \in BOOLEAN /\ evicted \in BOOLEAN /\ present \in BOOLEAN /\ ~evicted
      BY <2>1
    <2> QED
      BY <2>2 DEF SettingsInit, SettingsTypeOK, Values
  <1>4. Typed
    BY <1>1, <1>2, <1>3 DEF Typed
  <1>5. LazyPart
    BY <1>1, NoneQueued DEF SettingsInit, LazyPart, RoleOK, LanguageOK, EventsCurrent, Lazy
  <1>6. LeavePart
    BY <1>2 DEF SettingsInit, LeavePart, LeaveOK, Cached
  <1> QED
    BY <1>4, <1>5, <1>6 DEF SettingsInv

\* A step that leaves the leave message alone.
LEMMA LeaveFrame ==
  ASSUME LeavePart, UNCHANGED <<row, leaveCache, loading>>,
         Queued(queue, "leave") => Queued(queue', "leave"),
         "leave" \notin raced' => "leave" \notin raced
  PROVE  LeavePart'
  BY DEF LeavePart, LeaveOK, Cached, leaveCache

\* A step that changes neither row, and caches nothing but what is there or in the table.
LEMMA LazyFrame ==
  ASSUME LazyPart, UNCHANGED table,
         \A x \in Lazy : Queued(queue', x) <=> Queued(queue, x),
         LastIs(queue, "language", table["language"]) => LastIs(queue', "language", table["language"]),
         \A x \in Lazy : x \notin raced' => /\ x \notin raced /\ events'[x] \subseteq events[x]
                                         /\ cache'[x] \in {cache[x], Absent, table[x]}
  PROVE  LazyPart'
  BY DEF LazyPart, RoleOK, LanguageOK, EventsCurrent, Lazy

LEMMA Raced ==
  ASSUME NEW x, NEW is \in BOOLEAN, Race(x, is)
  PROVE  /\ \A y : y # x => (y \in raced' <=> y \in raced)
         /\ x \in raced' <=> is
  BY DEF Race

-----------------------------------------------------------------------------
(* Moderator role and language.                                             *)

LEMMA GetInv ==
  ASSUME SettingsInv, NEW x \in Lazy, Get(x)
  PROVE  SettingsInv'
  <1>1. /\ cache' = [cache EXCEPT ![x] = table[x]]
        /\ UNCHANGED <<table, events, row, leaveCache, queue, loading, present, changes, settingsFaults, raced>>
    BY DEF Get
  <1>2. Typed'
    BY <1>1 DEF SettingsInv, Typed, SettingsTypeOK, leaveCache
  <1>3. LazyPart'
    BY <1>1, LazyFrame DEF SettingsInv, Typed, SettingsTypeOK
  <1> QED
    BY <1>1, <1>2, <1>3, LeaveFrame DEF SettingsInv

LEMMA EventInv ==
  ASSUME SettingsInv, NEW x \in Lazy, NEW v \in Settings, Event(x, v)
  PROVE  SettingsInv'
  <1>1. /\ v \in events[x] /\ events' = [events EXCEPT ![x] = @ \ {v}]
        /\ cache' = [cache EXCEPT ![x] = v]
        /\ UNCHANGED <<table, row, leaveCache, queue, loading, present, changes, settingsFaults, raced>>
    BY DEF Event
  <1>2. Typed'
    BY <1>1 DEF SettingsInv, Typed, SettingsTypeOK, leaveCache, Settings
  <1>3. x \notin raced => v = table[x]
    BY <1>1 DEF SettingsInv, LazyPart, RoleOK, LanguageOK, EventsCurrent, Lazy
  <1>4. \A y \in Lazy : y \notin raced => /\ events'[y] \subseteq events[y]
                                       /\ cache'[y] \in {cache[y], Absent, table[y]}
    BY <1>1, <1>3 DEF SettingsInv, Typed, SettingsTypeOK
  <1>5. LazyPart'
    BY <1>1, <1>4, LazyFrame DEF SettingsInv
  <1> QED
    BY <1>1, <1>2, <1>5, LeaveFrame DEF SettingsInv

\* What a setting keeps when the other one is changed.
LEMMA OtherSetting ==
  ASSUME LazyPart, NEW x \in Lazy, NEW y \in Lazy, y # x, y \notin raced,
         table'[y] = table[y], events'[y] = events[y], cache'[y] = cache[y],
         Queued(queue', y) <=> Queued(queue, y),
         y = "language" /\ LastIs(queue, y, table[y]) => LastIs(queue', y, table[y])
  PROVE  /\ y = "role" => RoleOK'
         /\ y = "language" => LanguageOK'
  BY DEF LazyPart, RoleOK, LanguageOK, EventsCurrent

LEMMA CommandInv ==
  ASSUME SettingsInv, NEW x \in Lazy, NEW v \in Settings, Command(x, v)
  PROVE  SettingsInv'
  <1> DEFINE is == events[x] # {} \/ (x = "language" /\ Pending(x))
  <1>1. /\ table' = [table EXCEPT ![x] = v] /\ cache' = [cache EXCEPT ![x] = v]
        /\ events' = [events EXCEPT ![x] = @ \cup {v}]
        /\ UNCHANGED <<row, leaveCache, queue, loading, present, settingsFaults>>
    BY DEF Command
  <1>2. /\ \A y : y # x => (y \in raced' <=> y \in raced)
        /\ x \in raced' <=> is
    BY Raced DEF Command
  <1> HIDE DEF is
  <1>3. raced' \subseteq Lazy \cup {"leave"}
    BY <1>2 DEF SettingsInv, Typed, SettingsTypeOK
  <1>4. /\ table'[x] = v /\ cache'[x] = v /\ events'[x] = events[x] \cup {v}
        /\ \A y \in Lazy : y # x => table'[y] = table[y] /\ cache'[y] = cache[y] /\ events'[y] = events[y]
    BY <1>1 DEF SettingsInv, Typed, SettingsTypeOK
  <1>5. Typed'
    <2>1. SettingsTypeOK'
      BY <1>1, <1>3 DEF SettingsInv, Typed, SettingsTypeOK, leaveCache, Settings
    <2> QED
      BY <1>1, <2>1 DEF SettingsInv, Typed, leaveCache
  <1>6. "leave" \notin Lazy
    BY DEF Lazy
  <1>7. ASSUME NEW y \in Lazy, y \notin raced'
        PROVE  (y = "role" => RoleOK') /\ (y = "language" => LanguageOK')
    <2>1. CASE y # x
      BY <1>1, <1>2, <1>4, <1>7, <2>1, OtherSetting DEF SettingsInv
    <2>2. CASE y = x
      <3>1. events'[x] = {v} /\ (x = "language" => ~Queued(queue, x))
        BY <1>2, <1>4, <1>7, <2>2, PendingIsQueued DEF SettingsInv, is
      <3>2. x = "role" => RoleOK'
        BY <1>4, <3>1 DEF RoleOK, EventsCurrent
      <3>3. x = "language" => LanguageOK'
        BY <1>1, <1>4, <3>1 DEF LanguageOK, EventsCurrent, LastIs, Queued
      <3> QED
        BY <2>2, <3>2, <3>3
    <2> QED BY <2>1, <2>2
  <1>8. LazyPart'
    BY <1>7 DEF LazyPart, Lazy
  <1>9. LeavePart'
    BY <1>1, <1>2, <1>6, LeaveFrame DEF SettingsInv
  <1> QED
    BY <1>5, <1>8, <1>9 DEF SettingsInv

\* What the dashboard notifies the bot of is queued, or lost.
LEMMA Notified ==
  ASSUME SettingsInv, NEW x \in Lazy \cup {"leave"}, NEW v \in Settings, NEW unheard \in BOOLEAN, Notify(x, v, unheard)
  PROVE  /\ queue' \in Seq(Notes)
         /\ \A y : Queued(queue', y) <=> Queued(queue, y) \/ (~unheard /\ y = x)
         /\ \A y, w : y # x /\ LastIs(queue, y, w) => LastIs(queue', y, w)
         /\ ~unheard => LastIs(queue', x, v)
  <1>1. queue \in Seq(Notes)
    BY DEF SettingsInv, Typed
  <1>2. CASE unheard
    BY <1>1, <1>2 DEF Notify
  <1>3. CASE ~unheard
    <2> DEFINE n == [of |-> x, value |-> v]
    <2>1. n \in Notes /\ n.of = x /\ n.value = v
      BY DEF Notes
    <2>2. queue' = Append(queue, n)
      BY <1>3 DEF Notify
    <2> HIDE DEF n
    <2> QED
      BY <1>1, <1>3, <2>1, <2>2, NoteAppended
  <1> QED
    BY <1>2, <1>3

LEMMA WebSetInv ==
  ASSUME SettingsInv, NEW x \in Lazy, NEW v \in Settings, NEW unheard \in BOOLEAN, WebSet(x, v, unheard)
  PROVE  SettingsInv'
  <1> DEFINE is == unheard \/ events[x] # {}
  <1>1. /\ table' = [table EXCEPT ![x] = v] /\ Notify(x, v, unheard)
        /\ UNCHANGED <<cache, events, row, leaveCache, loading, present>>
    BY DEF WebSet
  <1>2. /\ \A y : y # x => (y \in raced' <=> y \in raced)
        /\ x \in raced' <=> is
    BY Raced DEF WebSet
  <1> HIDE DEF is
  <1>3. /\ queue' \in Seq(Notes)
        /\ \A y : Queued(queue', y) <=> Queued(queue, y) \/ (~unheard /\ y = x)
        /\ \A y, w : y # x /\ LastIs(queue, y, w) => LastIs(queue', y, w)
        /\ ~unheard => LastIs(queue', x, v)
    BY <1>1, Notified
  <1>4. raced' \subseteq Lazy \cup {"leave"}
    BY <1>2 DEF SettingsInv, Typed, SettingsTypeOK
  <1>5. table'[x] = v /\ \A y \in Lazy : y # x => table'[y] = table[y]
    BY <1>1 DEF SettingsInv, Typed, SettingsTypeOK
  <1>6. Typed'
    <2>1. SettingsTypeOK'
      BY <1>1, <1>4 DEF SettingsInv, Typed, SettingsTypeOK, leaveCache, Settings
    <2> QED
      BY <1>1, <1>3, <2>1 DEF SettingsInv, Typed, leaveCache
  <1>7. "leave" \notin Lazy
    BY DEF Lazy
  <1>8. ASSUME NEW y \in Lazy, y \notin raced'
        PROVE  (y = "role" => RoleOK') /\ (y = "language" => LanguageOK')
    <2>1. CASE y # x
      BY <1>1, <1>2, <1>3, <1>5, <1>8, <2>1, OtherSetting DEF SettingsInv
    <2>2. CASE y = x
      <3>1. ~unheard /\ events'[x] = {} /\ Queued(queue', x) /\ LastIs(queue', x, table'[x])
        BY <1>1, <1>2, <1>3, <1>5, <1>8, <2>2 DEF is
      <3> QED
        BY <2>2, <3>1 DEF RoleOK, LanguageOK, EventsCurrent
    <2> QED BY <2>1, <2>2
  <1>9. LazyPart'
    BY <1>8 DEF LazyPart, Lazy
  <1>10. LeavePart'
    BY <1>1, <1>2, <1>3, <1>7, LeaveFrame DEF SettingsInv
  <1> QED
    BY <1>6, <1>9, <1>10 DEF SettingsInv

\* What handling the first notification does to the queue.
LEMMA Handled ==
  ASSUME SettingsInv, NEW x, Handling(x)
  PROVE  /\ queue' \in Seq(Notes) /\ loading = Nothing /\ Head(queue) \in Notes
         /\ \A y : Queued(queue, y) <=> Queued(queue', y) \/ y = x
         /\ \A y, w : LastIs(queue, y, w) => LastIs(queue', y, w)
         /\ \A w : LastIs(queue, x, w) /\ ~Queued(queue', x) => Head(queue).value = w
  <1>1. queue \in Seq(Notes) /\ queue # <<>> /\ loading = Nothing /\ Head(queue).of = x /\ queue' = Tail(queue)
    BY DEF SettingsInv, Typed, Handling
  <1> QED
    BY <1>1, NoteTaken

LEMMA HandleLazyInv ==
  ASSUME SettingsInv, InvalidateRole \/ SetLanguage
  PROVE  SettingsInv'
  <1>1. UNCHANGED <<table, events, row, leaveCache, loading, present, changes, settingsFaults, raced>>
    BY DEF InvalidateRole, SetLanguage
  <1>2. PICK x \in Lazy : /\ Handling(x)
                          /\ \/ x = "role" /\ cache' = [cache EXCEPT !["role"] = Absent]
                             \/ x = "language" /\ cache' = [cache EXCEPT !["language"] = Head(queue).value]
    BY DEF InvalidateRole, SetLanguage, Lazy
  <1>3. /\ queue' \in Seq(Notes) /\ Head(queue) \in Notes
        /\ \A y : Queued(queue, y) <=> Queued(queue', y) \/ y = x
        /\ \A y, w : LastIs(queue, y, w) => LastIs(queue', y, w)
        /\ \A w : LastIs(queue, x, w) /\ ~Queued(queue', x) => Head(queue).value = w
    BY <1>2, Handled
  <1>4. cache' \in [Lazy -> {Absent, Unset} \cup Values]
        /\ \A y \in Lazy : y # x => cache'[y] = cache[y]
    <2>1. cache \in [Lazy -> {Absent, Unset} \cup Values] /\ Head(queue).value \in {Absent, Unset} \cup Values
      BY <1>3 DEF SettingsInv, Typed, SettingsTypeOK, Notes, Settings
    <2>2. CASE x = "role" /\ cache' = [cache EXCEPT !["role"] = Absent]
      BY <2>1, <2>2 DEF Lazy
    <2>3. CASE x = "language" /\ cache' = [cache EXCEPT !["language"] = Head(queue).value]
      BY <2>1, <2>3 DEF Lazy
    <2> QED
      BY <1>2, <2>2, <2>3
  <1>5. Typed'
    <2>1. SettingsTypeOK'
      BY <1>1, <1>4 DEF SettingsInv, Typed, SettingsTypeOK, leaveCache
    <2> QED
      BY <1>1, <1>3, <2>1 DEF SettingsInv, Typed, leaveCache
  <1>6. ASSUME "role" \notin raced' PROVE RoleOK'
    <2>1. RoleOK
      BY <1>1, <1>6 DEF SettingsInv, LazyPart
    <2>2. CASE x = "role"
      <3>1. cache'["role"] = Absent
        BY <1>2, <2>2 DEF SettingsInv, Typed, SettingsTypeOK, Lazy
      <3> QED
        BY <1>1, <2>1, <3>1 DEF RoleOK, EventsCurrent
    <2>3. CASE x # "role"
      <3>1. cache'["role"] = cache["role"] /\ (Queued(queue', "role") <=> Queued(queue, "role"))
        BY <1>3, <1>4, <2>3 DEF Lazy
      <3> QED
        BY <1>1, <2>1, <3>1 DEF RoleOK, EventsCurrent
    <2> QED BY <2>2, <2>3
  <1>7. ASSUME "language" \notin raced' PROVE LanguageOK'
    <2>1. LanguageOK /\ LastIs(queue', "language", table["language"])
      BY <1>1, <1>3, <1>7 DEF SettingsInv, LazyPart, LanguageOK
    <2>2. CASE x = "language"
      <3>1. cache'["language"] = Head(queue).value
        BY <1>2, <2>2 DEF SettingsInv, Typed, SettingsTypeOK, Lazy
      <3>2. Queued(queue', "language") \/ Head(queue).value = table["language"]
        BY <1>3, <2>1, <2>2 DEF LanguageOK
      <3> QED
        BY <1>1, <2>1, <3>1, <3>2 DEF LanguageOK, EventsCurrent
    <2>3. CASE x # "language"
      <3>1. cache'["language"] = cache["language"] /\ (Queued(queue', "language") <=> Queued(queue, "language"))
        BY <1>3, <1>4, <2>3 DEF Lazy
      <3> QED
        BY <1>1, <2>1, <3>1 DEF LanguageOK, EventsCurrent
    <2> QED BY <2>2, <2>3
  <1>8. Queued(queue, "leave") => Queued(queue', "leave")
    BY <1>2, <1>3 DEF Lazy
  <1>9. LeavePart'
    BY <1>1, <1>8, LeaveFrame DEF SettingsInv
  <1> QED
    BY <1>5, <1>6, <1>7, <1>9 DEF SettingsInv, LazyPart

-----------------------------------------------------------------------------
(* Leave messages.                                                          *)

\* What a step on the leave message keeps of the rest.
LEMMA LeaveStepKeepsLazy ==
  ASSUME SettingsInv, UNCHANGED <<table, cache, events>>, \A x \in Lazy : x \in raced' <=> x \in raced,
         \A x \in Lazy : Queued(queue', x) <=> Queued(queue, x),
         \A w : LastIs(queue, "language", w) => LastIs(queue', "language", w)
  PROVE  LazyPart'
  BY LazyFrame DEF SettingsInv

\* The values a row may give, enabled or not.
LEMMA RowValues ==
  ASSUME Typed
  PROVE  /\ Enabled(row) \in Settings /\ WarmValue(Enabled(row)) \in Settings \cup {Absent}
         /\ row.text \in Values /\ row.on \in BOOLEAN /\ row.text # Unset
         /\ \A v \in Values : v # Unset /\ v # Absent /\ WarmValue(v) = v
         /\ WarmValue(Unset) = Absent
  BY DEF Typed, SettingsTypeOK, Enabled, WarmValue, Settings, Values, Unset, Absent

LEMMA NothingThere ==
  /\ Nothing \in [at : {"none", "read", "swapped"}, value : Settings \cup {Absent}]
  /\ Nothing \in [at : {"none", "read"}, value : Settings]
  /\ Nothing.at = "none"
  BY DEF Nothing, Settings

\* A command writes the row and what is cached of it at once; no other read may be under way.
LEMMA LeaveCommandInv ==
  ASSUME SettingsInv, Enable \/ Disable \/ \E v \in Values : SaveMessage(v)
  PROVE  SettingsInv'
  <1>1. /\ UNCHANGED <<table, cache, events, present, warmed, thread, queue, loading, settingsFaults>>
        /\ row' \in [on : BOOLEAN, text : Values] /\ leave' \in {Absent, Unset} \cup Values
        /\ evicted' \in BOOLEAN /\ (evicted' => evicted)
    BY DEF Enable, Disable, SaveMessage, Leave, SettingsInv, Typed, SettingsTypeOK
  <1>2. PICK is \in BOOLEAN : Race("leave", is) /\ (Overlaps => is)
    BY DEF Enable, Disable, SaveMessage, Overlaps
  <1>3. /\ \A y : y # "leave" => (y \in raced' <=> y \in raced)
        /\ "leave" \in raced' <=> is
    BY <1>2, Raced
  <1>4. Typed'
    <2>1. raced' \subseteq Lazy \cup {"leave"}
      BY <1>3 DEF SettingsInv, Typed, SettingsTypeOK
    <2>2. SettingsTypeOK'
      BY <1>1, <2>1 DEF SettingsInv, Typed, SettingsTypeOK
    <2> QED
      BY <1>1, <2>2 DEF SettingsInv, Typed
  <1>5. LazyPart'
    BY <1>1, <1>3, LeaveStepKeepsLazy DEF Lazy
  <1>6. ASSUME "leave" \notin raced' PROVE LeaveOK'
    <2>1. thread'.at \notin {"read", "swapped"} /\ loading'.at # "read"
      BY <1>1, <1>2, <1>3, <1>6 DEF Overlaps
    <2>2. CASE Enable
      <3>1. row'.on = TRUE /\ row'.text = row.text /\ leave' = row.text
        BY <2>2 DEF Enable, SettingsInv, Typed, SettingsTypeOK
      <3> QED
        BY <2>1, <3>1 DEF LeaveOK, Enabled
    <2>3. CASE Disable
      <3>1. row'.on = FALSE /\ leave' = Absent
        BY <2>3 DEF Disable, SettingsInv, Typed, SettingsTypeOK
      <3> QED
        BY <2>1, <3>1 DEF LeaveOK, Enabled, WarmValue
    <2>4. ASSUME NEW v \in Values, SaveMessage(v) PROVE LeaveOK'
      <3>1. row'.on = row.on /\ row'.text = v
        BY <2>4 DEF SaveMessage, SettingsInv, Typed, SettingsTypeOK
      <3>2. CASE row.on
        BY <2>1, <2>4, <3>1, <3>2 DEF SaveMessage, LeaveOK, Enabled
      <3>3. CASE ~row.on
        <4>1. "leave" \notin raced /\ UNCHANGED <<leave, evicted>>
          BY <1>6, <2>4, <3>3 DEF SaveMessage, Race
        <4>2. LeaveOK
          BY <4>1 DEF SettingsInv, LeavePart
        <4> QED
          BY <1>1, <2>1, <3>1, <3>3, <4>1, <4>2 DEF LeaveOK, Enabled, Cached
      <3> QED BY <3>2, <3>3
    <2> QED BY <2>2, <2>3, <2>4
  <1> QED
    BY <1>4, <1>5, <1>6 DEF SettingsInv, LeavePart

LEMMA WebSetLeaveInv ==
  ASSUME SettingsInv, NEW r \in [on : BOOLEAN, text : Values], NEW unheard \in BOOLEAN, WebSetLeave(r, unheard)
  PROVE  SettingsInv'
  <1> DEFINE is == unheard \/ thread.at \in {"read", "swapped"}
  <1>1. /\ row' = r /\ Notify("leave", Unset, unheard)
        /\ UNCHANGED <<table, cache, events, present, leaveCache, loading>>
    BY DEF WebSetLeave, Leave
  <1>2. /\ \A y : y # "leave" => (y \in raced' <=> y \in raced)
        /\ "leave" \in raced' <=> is
    BY Raced DEF WebSetLeave
  <1> HIDE DEF is
  <1>3. /\ queue' \in Seq(Notes)
        /\ \A y : Queued(queue', y) <=> Queued(queue, y) \/ (~unheard /\ y = "leave")
        /\ \A y, w : y # "leave" /\ LastIs(queue, y, w) => LastIs(queue', y, w)
    <2>1. "leave" \in Lazy \cup {"leave"} /\ Unset \in Settings /\ Notify("leave", Unset, unheard)
      BY <1>1 DEF Settings
    <2> QED BY <2>1, Notified
  <1>4. Typed'
    <2>1. raced' \subseteq Lazy \cup {"leave"}
      BY <1>2 DEF SettingsInv, Typed, SettingsTypeOK
    <2>2. SettingsTypeOK'
      BY <1>1, <2>1 DEF SettingsInv, Typed, SettingsTypeOK, leaveCache
    <2> QED
      BY <1>1, <1>3, <2>2 DEF SettingsInv, Typed, leaveCache
  <1>5. LazyPart'
    BY <1>1, <1>2, <1>3, LeaveStepKeepsLazy DEF Lazy
  <1>6. LeavePart'
    BY <1>1, <1>2, <1>3 DEF LeavePart, LeaveOK, leaveCache, is
  <1> QED
    BY <1>4, <1>5, <1>6 DEF SettingsInv

LEMMA LoadInv ==
  ASSUME SettingsInv, Load \/ LoadFails
  PROVE  SettingsInv'
  <1>1. /\ Handling("leave") /\ UNCHANGED <<table, cache, events, present, row, warmed, thread>>
        /\ \A x \in Lazy : x \in raced' <=> x \in raced
        /\ raced \subseteq raced' /\ raced' \subseteq raced \cup {"leave"}
    BY DEF Load, LoadFails, Leave, leaveCache, Lazy
  <1>2. /\ queue' \in Seq(Notes) /\ loading = Nothing
        /\ \A y : Queued(queue, y) <=> Queued(queue', y) \/ y = "leave"
        /\ \A y, w : LastIs(queue, y, w) => LastIs(queue', y, w)
    BY <1>1, Handled
  <1>3. LazyPart'
    BY <1>1, <1>2, LeaveStepKeepsLazy DEF Lazy
  <1>4. CASE Load
    <2>1. /\ loading' = [at |-> "read", value |-> Enabled(row)] /\ UNCHANGED <<leave, evicted, raced>>
      BY <1>4 DEF Load, leaveCache
    <2>2. /\ loading'.at = "read" /\ loading'.value = Enabled(row)
          /\ loading' \in [at : {"none", "read"}, value : Settings]
      BY <2>1, RowValues DEF SettingsInv
    <2>3. Typed'
      <3>1. SettingsTypeOK'
        BY <1>1, <2>1 DEF SettingsInv, Typed, SettingsTypeOK
      <3> QED
        BY <1>1, <1>2, <2>2, <3>1 DEF SettingsInv, Typed
    <2>4. LeavePart'
      BY <1>1, <2>1, <2>2 DEF SettingsInv, LeavePart, LeaveOK
    <2> QED BY <1>3, <2>3, <2>4 DEF SettingsInv
  <1>5. CASE LoadFails
    <2>1. /\ leave' = Absent /\ evicted' = (evicted \/ warmed) /\ UNCHANGED loading
          /\ thread.at = "swapped" => "leave" \in raced'
      BY <1>5 DEF LoadFails
    <2>2. Typed'
      <3>1. SettingsTypeOK'
        BY <1>1, <2>1 DEF SettingsInv, Typed, SettingsTypeOK
      <3> QED
        BY <1>1, <1>2, <2>1, <3>1 DEF SettingsInv, Typed
    <2>3. LeavePart'
      <3> SUFFICES ASSUME "leave" \notin raced' PROVE LeaveOK'
        BY DEF LeavePart
      <3>1. ~Cached' /\ thread'.at # "swapped"
        BY <1>1, <2>1 DEF Cached
      <3>2. thread.at = "read" => thread.value = WarmValue(Enabled(row))
        BY <1>1 DEF SettingsInv, LeavePart, LeaveOK
      <3>3. loading'.at # "read"
        BY <1>2, <2>1, NothingThere
      <3> QED
        BY <1>1, <3>1, <3>2, <3>3 DEF LeaveOK
    <2> QED BY <1>3, <2>2, <2>3 DEF SettingsInv
  <1> QED BY <1>4, <1>5

\* What was read becomes what is cached: by a handler, for a member who leaves, or in a warm-up.
LEMMA FillInv ==
  ASSUME SettingsInv, Apply \/ MemberLeaves \/ Ready
  PROVE  SettingsInv'
  <1>1. /\ UNCHANGED <<table, cache, events, present, row, thread, queue, changes, settingsFaults, raced>>
        /\ evicted' = FALSE /\ warmed' \in {warmed, TRUE} /\ loading' \in {loading, Nothing}
        /\ loading'.at = "read" => loading' = loading
    BY NothingThere DEF Apply, MemberLeaves, Ready, Leave
  <1>2. \/ leave' \in {Enabled(row), WarmValue(Enabled(row))}
        \/ loading.at = "read" /\ leave' = WarmValue(loading.value) /\ loading' = Nothing
    <2>1. CASE Apply
      BY <2>1 DEF Apply, WarmValue
    <2>2. CASE MemberLeaves
      <3>1. leave' = Enabled(row)
        BY <2>2 DEF MemberLeaves
      <3> QED BY <3>1
    <2>3. CASE Ready
      <3>1. leave' = WarmValue(Enabled(row))
        BY <2>3 DEF Ready
      <3> QED BY <3>1
    <2> QED BY <2>1, <2>2, <2>3
  <1>3. leave' \in {Absent, Unset} \cup Values
    BY <1>2, RowValues DEF SettingsInv, Typed, Settings, WarmValue
  <1>4. Typed'
    <2>1. evicted' \in BOOLEAN /\ warmed' \in BOOLEAN /\ ~evicted'
      BY <1>1 DEF SettingsInv, Typed, SettingsTypeOK
    <2>2. SettingsTypeOK'
      BY <1>1, <1>3, <2>1 DEF SettingsInv, Typed, SettingsTypeOK
    <2> QED
      BY <1>1, <2>2, NothingThere DEF SettingsInv, Typed
  <1>5. LazyPart'
    BY <1>1, LeaveStepKeepsLazy
  <1>6. LeavePart'
    <2> SUFFICES ASSUME "leave" \notin raced PROVE LeaveOK'
      BY <1>1 DEF LeavePart
    <2>1. LeaveOK
      BY DEF SettingsInv, LeavePart
    <2>2. ASSUME ~Queued(queue, "leave") PROVE leave' \in {Enabled(row), WarmValue(Enabled(row))}
      BY <1>2, <2>1, <2>2 DEF LeaveOK
    <2> QED
      BY <1>1, <2>1, <2>2 DEF LeaveOK
  <1> QED BY <1>4, <1>5, <1>6 DEF SettingsInv

LEMMA ThreadInv ==
  ASSUME SettingsInv, Rewarm \/ Swap \/ FinishWarm
  PROVE  SettingsInv'
  <1>1. UNCHANGED <<table, cache, events, present, row, queue, loading, changes, settingsFaults, raced>>
    BY DEF Rewarm, Swap, FinishWarm, Leave
  <1>2. LazyPart'
    BY <1>1, LeaveStepKeepsLazy
  <1>3. CASE Rewarm
    <2>1. /\ thread' = [at |-> "read", value |-> WarmValue(Enabled(row))] /\ UNCHANGED <<leave, warmed, evicted>>
          /\ thread.at # "swapped"
      BY <1>3, NothingThere DEF Rewarm
    <2>2. /\ thread'.at = "read" /\ thread'.value = WarmValue(Enabled(row))
          /\ thread' \in [at : {"none", "read", "swapped"}, value : Settings \cup {Absent}]
      BY <2>1, RowValues DEF SettingsInv
    <2>3. Typed'
      <3>1. SettingsTypeOK'
        BY <1>1, <2>1 DEF SettingsInv, Typed, SettingsTypeOK
      <3> QED
        BY <1>1, <2>2, <3>1 DEF SettingsInv, Typed
    <2>4. LeavePart'
      BY <1>1, <2>1, <2>2 DEF SettingsInv, LeavePart, LeaveOK, Cached
    <2> QED BY <1>2, <2>3, <2>4 DEF SettingsInv
  <1>4. CASE Swap
    <2>1. /\ thread.at = "read" /\ leave' = thread.value /\ UNCHANGED <<warmed, evicted>>
          /\ thread' = [Nothing EXCEPT !.at = "swapped"]
      BY <1>4 DEF Swap
    <2>2. /\ thread'.at = "swapped"
          /\ thread' \in [at : {"none", "read", "swapped"}, value : Settings \cup {Absent}]
      BY <2>1, NothingThere DEF Nothing, Settings
    <2>3. Typed'
      <3>1. leave' \in {Absent, Unset} \cup Values
        BY <2>1 DEF SettingsInv, Typed, Settings
      <3>2. SettingsTypeOK'
        BY <1>1, <2>1, <3>1 DEF SettingsInv, Typed, SettingsTypeOK
      <3> QED
        BY <1>1, <2>2, <3>2 DEF SettingsInv, Typed
    <2>4. LeavePart'
      BY <1>1, <2>1, <2>2 DEF SettingsInv, LeavePart, LeaveOK
    <2> QED BY <1>2, <2>3, <2>4 DEF SettingsInv
  <1>5. CASE FinishWarm
    <2>1. thread.at = "swapped" /\ warmed' = TRUE /\ evicted' = FALSE /\ thread' = Nothing /\ leave' = leave
      BY <1>5 DEF FinishWarm
    <2>2. Typed'
      <3>1. warmed' \in BOOLEAN /\ evicted' \in BOOLEAN /\ ~evicted'
        BY <2>1
      <3>2. SettingsTypeOK'
        BY <1>1, <2>1, <3>1 DEF SettingsInv, Typed, SettingsTypeOK
      <3> QED
        BY <1>1, <2>1, <3>2, NothingThere DEF SettingsInv, Typed
    <2>3. LeavePart'
      BY <1>1, <2>1, NothingThere DEF SettingsInv, LeavePart, LeaveOK
    <2> QED BY <1>2, <2>2, <2>3 DEF SettingsInv
  <1> QED BY <1>3, <1>4, <1>5

-----------------------------------------------------------------------------
(* Guild and process.                                                       *)

LEMMA EvictGuildInv ==
  ASSUME SettingsInv, EvictGuild
  PROVE  SettingsInv'
  <1>1. /\ present' = FALSE /\ cache' = [x \in Lazy |-> Absent] /\ leave' = Absent
        /\ evicted' = (evicted \/ warmed)
        /\ UNCHANGED <<table, events, row, warmed, thread, queue, loading, changes, settingsFaults>>
    BY DEF EvictGuild
  <1>2. raced' = IF Overlaps THEN raced \cup {"leave"} ELSE raced
    BY DEF EvictGuild
  <1>3. Typed'
    <2>1. present' \in BOOLEAN /\ evicted' \in BOOLEAN /\ (evicted' => warmed')
      BY <1>1 DEF SettingsInv, Typed, SettingsTypeOK
    <2>2. raced' \subseteq Lazy \cup {"leave"}
      BY <1>2 DEF SettingsInv, Typed, SettingsTypeOK
    <2>3. SettingsTypeOK'
      BY <1>1, <2>1, <2>2 DEF SettingsInv, Typed, SettingsTypeOK
    <2> QED
      BY <1>1, <2>3 DEF SettingsInv, Typed
  <1>4. LazyPart'
    BY <1>1, <1>2, LazyFrame DEF SettingsInv
  <1>5. LeavePart'
    <2> SUFFICES ASSUME "leave" \notin raced' PROVE LeaveOK'
      BY DEF LeavePart
    <2>1. ~Overlaps /\ ~Cached'
      BY <1>1, <1>2 DEF Cached
    <2> QED
      BY <1>1, <2>1 DEF LeaveOK, Overlaps
  <1> QED BY <1>3, <1>4, <1>5 DEF SettingsInv

LEMMA RejoinInv ==
  ASSUME SettingsInv, Rejoin
  PROVE  SettingsInv'
  <1>1. present' = TRUE /\ UNCHANGED <<table, cache, events, row, leaveCache, queue, loading, changes, settingsFaults, raced>>
    BY DEF Rejoin
  <1>2. Typed'
    <2>1. present' \in BOOLEAN
      BY <1>1
    <2> QED
      BY <1>1, <2>1 DEF SettingsInv, Typed, SettingsTypeOK, leaveCache
  <1> QED
    BY <1>1, <1>2, LeaveFrame, LazyFrame DEF SettingsInv

LEMMA RestartInv ==
  ASSUME SettingsInv, SettingsRestart
  PROVE  SettingsInv'
  <1>1. /\ cache' = [x \in Lazy |-> Absent] /\ events' = [x \in Lazy |-> {}]
        /\ leave' = Absent /\ warmed' = FALSE /\ evicted' = FALSE /\ thread' = Nothing
        /\ queue' = <<>> /\ loading' = Nothing /\ raced' = {} /\ UNCHANGED <<table, row, present>>
    BY DEF SettingsRestart
  <1>2. Typed'
    <2>1. warmed' \in BOOLEAN /\ evicted' \in BOOLEAN /\ ~evicted'
      BY <1>1
    <2>3. queue' \in Seq(Notes)
      BY <1>1
    <2>2. SettingsTypeOK'
      BY <1>1, <2>1 DEF SettingsInv, Typed, SettingsTypeOK
    <2> QED
      BY <1>1, <2>2, <2>3, NothingThere DEF Typed
  <1>3. LazyPart'
    BY <1>1, NoneQueued DEF LazyPart, RoleOK, LanguageOK, EventsCurrent, Lazy
  <1>4. LeavePart'
    BY <1>1, NothingThere DEF LeavePart, LeaveOK, Cached
  <1> QED BY <1>2, <1>3, <1>4 DEF SettingsInv

-----------------------------------------------------------------------------

LEMMA SettingsStepInv == SettingsInv /\ [SettingsNext]_settingsVars => SettingsInv'
  <1> SUFFICES ASSUME SettingsInv, [SettingsNext]_settingsVars PROVE SettingsInv'
    OBVIOUS
  <1>1. CASE UNCHANGED settingsVars
    <2>1. Typed'
      BY <1>1 DEF SettingsInv, Typed, SettingsTypeOK, settingsVars, leaveCache
    <2> QED
      BY <1>1, <2>1, LeaveFrame, LazyFrame DEF SettingsInv, settingsVars
  <1>2. ASSUME NEW x \in Lazy,
               \/ Get(x)
               \/ \E v \in {Unset} \cup Values :
                    Command(x, v) \/ Event(x, v) \/ \E unheard \in BOOLEAN : WebSet(x, v, unheard)
        PROVE  SettingsInv'
    BY <1>2, GetInv, CommandInv, EventInv, WebSetInv DEF Settings
  <1>3. CASE \E r \in [on : BOOLEAN, text : Values], unheard \in BOOLEAN : WebSetLeave(r, unheard)
    BY <1>3, WebSetLeaveInv
  <1>4. CASE \/ InvalidateRole \/ SetLanguage \/ Enable \/ Disable \/ (\E v \in Values : SaveMessage(v))
             \/ Load \/ LoadFails \/ Apply \/ MemberLeaves \/ Ready \/ Rewarm \/ Swap \/ FinishWarm
             \/ EvictGuild \/ Rejoin \/ SettingsRestart
    BY <1>4, HandleLazyInv, LeaveCommandInv, LoadInv, FillInv, ThreadInv,
       EvictGuildInv, RejoinInv, RestartInv
  <1> QED
    BY <1>1, <1>2, <1>3, <1>4 DEF SettingsNext

LEMMA SettingsInductive == SettingsSpec => []SettingsInv
  BY SettingsInitInv, SettingsStepInv, PTL DEF SettingsSpec

\* The tables, the cache and the marks keep their types; only a warm cache holds a mark.
THEOREM SettingsTypeCorrect == SettingsSpec => []SettingsTypeOK
  <1>1. SettingsInv => SettingsTypeOK
    BY DEF SettingsInv, Typed
  <1> QED
    BY <1>1, SettingsInductive, PTL

\* With every event raised and every notification handled, the bot goes by the moderator role and
\* the language of the tables, but for the named races and lost notifications.
THEOREM LazySettingsFollowTable == SettingsSpec => []LazyIsTable
  <1>1. SettingsInv => LazyIsTable
    <2> SUFFICES ASSUME SettingsInv, NEW x \in Lazy \ raced, ~Pending(x) PROVE cache[x] \in {Absent, table[x]}
      BY DEF LazyIsTable
    <2>1. ~Queued(queue, x)
      BY PendingIsQueued DEF SettingsInv
    <2> QED
      BY <2>1 DEF SettingsInv, LazyPart, RoleOK, LanguageOK, Lazy
  <1> QED
    BY <1>1, SettingsInductive, PTL

\* With every notification handled, the bot sends the leave message the row enables, or none, but
\* for changes during a warm-up or an invalidation's read and lost notifications.
THEOREM LeaveMessageFollowsRow == SettingsSpec => []LeaveIsRow
  <1>1. SettingsInv => LeaveIsRow
    <2> SUFFICES ASSUME SettingsInv, "leave" \notin raced, ~Pending("leave"), loading = Nothing, Cached
                 PROVE  leave \in {Enabled(row), WarmValue(Enabled(row))}
      BY DEF LeaveIsRow
    <2>1. ~Queued(queue, "leave") /\ loading.at # "read"
      BY PendingIsQueued, NothingThere DEF SettingsInv
    <2> QED
      BY <2>1 DEF SettingsInv, LeavePart, LeaveOK
  <1> QED
    BY <1>1, SettingsInductive, PTL

=============================================================================
