--------------------------- MODULE GuildNewsProofs ---------------------------
(* Proofs about GuildNews, for every number of characters, mounts, activities *)
(* and events.                                                                *)
EXTENDS GuildNews, FiniteSetTheorems, WellFoundedInduction, TLAPS

-----------------------------------------------------------------------------
(* Type correctness.                                                         *)

Lists == UNION {[1 .. n -> Chars] : n \in Nat}

Batches == [pc : {"batch"}, list : Lists, off : Nat, start : Nat, sync : BOOLEAN, newly : BOOLEAN,
            limited : BOOLEAN, marked : SUBSET (Chars \X Mounts)]

(* What a poll holds, by where it is; n is the length of the feed. *)
Going(r, n) ==
  /\ r.pc \in {"idle", "feed", "post", "roster", "batch"}
  /\ r.pc = "feed" => r \in [pc : {"feed"}, base : Nat]
  /\ r.pc = "post" =>
       /\ r \in [pc : {"post"}, base : Nat, top : Nat, next : Nat, failed : BOOLEAN]
       /\ r.base < r.next /\ r.next <= r.top /\ r.top <= n
  /\ r.pc = "batch" => r \in Batches

(* What it has to send for a character: mounts the row lacks and the answer has, each *)
(* once; o are the mounts of the account.                                             *)
Fit(w) == w.new \subseteq w.has \ w.had /\ w.now \in w.has \ w.had /\ w.now \notin w.new

Sends(o) == [at : {"send"}, had : SUBSET o, has : SUBSET o, new : SUBSET o, now : Nat, bad : BOOLEAN]

Checking(f, o) ==
  /\ f = [c \in DOMAIN f |-> f[c]] /\ DOMAIN f \subseteq Chars
  /\ \A c \in DOMAIN f : f[c].at \in {"ask", "send"} /\ (f[c].at = "send" => f[c] \in Sends(o) /\ Fit(f[c]))

Rows(k, o) ==
  /\ k = [c \in DOMAIN k |-> k[c]] /\ DOMAIN k \subseteq Chars
  /\ \A c \in DOMAIN k : k[c] \in [ids : SUBSET o, count : Nat] /\ k[c].count <= Cardinality(k[c].ids)

PollerTyped(p) == Going(poll[p], feed) /\ Checking(work[p], owned) /\ (DOMAIN work[p] = {} \/ poll[p].pc = "batch")

Game == feed \in Activities /\ owned \subseteq Mounts /\ roster \subseteq Chars

Typed ==
  /\ row \in [state : {"none", "live", "gone"}, enabled : BOOLEAN, stamp : Nat, offset : Nat, batch : Nat]
  /\ row.stamp <= feed /\ since \in {0, 1}
  /\ Rows(known, owned) /\ DOMAIN known \subseteq DOMAIN first
  /\ first = [c \in DOMAIN first |-> first[c]]
  /\ Game
  /\ poll = [p \in Pollers |-> poll[p]] /\ work = [p \in Pollers |-> work[p]]
  /\ \A p \in Pollers : PollerTyped(p)
  /\ posts \subseteq 1 .. feed /\ told \subseteq Chars \X Mounts
  /\ row.state = "none" => feed = 1 /\ posts = {} /\ told = {} /\ DOMAIN known = {} /\ \A p \in Pollers : poll[p].pc = "idle"

LEMMA TypedIsTyped == Typed => TypeOK
  <1> SUFFICES ASSUME Typed PROVE TypeOK
    OBVIOUS
  <1>1. feed \in 1 .. MaxFeed + 1 /\ MaxFeed \in Nat
    BY BatchAssumption DEF Typed, Game, Activities
  <1>2. posts \subseteq 1 .. MaxFeed + 1 /\ row.stamp \in 0 .. feed
    BY <1>1 DEF Typed
  <1>3. \A p \in Pollers :
          /\ poll[p].pc \in {"idle", "feed", "post", "roster", "batch"}
          /\ \A c \in DOMAIN work[p] : c \in Chars /\ poll[p].pc = "batch" /\ work[p][c].at \in {"ask", "send"}
    BY DEF Typed, PollerTyped, Going, Checking
  <1>4. \A c \in DOMAIN known : c \in Chars /\ known[c].ids \subseteq owned /\ known[c].count <= Cardinality(known[c].ids)
    BY DEF Typed, Rows
  <1> QED
    BY <1>2, <1>3, <1>4 DEF Typed, TypeOK, Game, Activities

(* A smallest element is one of the set: what the model picks exists. *)
LEMMA LeastOf ==
  ASSUME NEW T, T \subseteq Nat, T # {}
  PROVE  Min(T) \in T
  <1> DEFINE Less == OpToRel(<, Nat)
  <1>1. IsWellFoundedOn(Less, Nat)
    BY NatLessThanWellFounded
  <1>2. \A x, y \in Nat : y < x => <<y, x>> \in Less
    BY DEF OpToRel
  <1> HIDE DEF Less
  <1>3. \E x \in T : \A y \in T : ~(<<y, x>> \in Less)
    BY <1>1, WFMin
  <1>4. \E x \in T : \A y \in T : x =< y
    <2>1. PICK x \in T : \A y \in T : ~(<<y, x>> \in Less)
      BY <1>3
    <2>2. \A y \in T : ~(y < x)
      BY <1>2, <2>1
    <2>3. \A y \in T : x =< y
      BY <2>2
    <2> QED
      BY <2>3
  <1> QED
    BY <1>4 DEF Min

LEMMA InitType == Init => Typed
  <1> SUFFICES ASSUME Init PROVE Typed
    OBVIOUS
  <1>1. owned \subseteq Mounts
    <2>1. Min(Mounts) \in Mounts
      BY LeastOf, BatchAssumption
    <2>2. owned = {Min(Mounts)}
      BY DEF Init, Min
    <2> QED
      BY <2>1, <2>2
  <1>2. \A p \in Pollers : poll[p].pc = "idle" /\ work[p] = NoRows
    BY DEF Init, Idle
  <1>3. \A p \in Pollers : PollerTyped(p)
    BY <1>2 DEF PollerTyped, Going, Checking, NoRows
  <1>4. Rows(known, owned) /\ DOMAIN known = {}
    BY DEF Init, Rows, NoRows
  <1>5. first = [c \in DOMAIN first |-> first[c]]
    BY DEF Init, NoRows
  <1>6. row \in [state : {"none", "live", "gone"}, enabled : BOOLEAN, stamp : Nat, offset : Nat, batch : Nat] /\ row.stamp = 0
    BY DEF Init
  <1>7. feed = 1 /\ 1 \in Activities /\ posts = {} /\ told = {} /\ roster = Chars /\ since = 0
    BY BatchAssumption DEF Init, Activities
  <1>8. poll = [p \in Pollers |-> poll[p]] /\ work = [p \in Pollers |-> work[p]]
    BY DEF Init
  <1> QED
    BY <1>1, <1>2, <1>3, <1>4, <1>5, <1>6, <1>7, <1>8 DEF Typed, Game

(* One poll goes on, the other stays where it is. *)
LEMMA PollGoes ==
  ASSUME Typed, NEW p \in Pollers, NEW r, Goes(p, r)
  PROVE  /\ poll' = [q \in Pollers |-> poll'[q]] /\ poll'[p] = r
         /\ \A q \in Pollers : q # p => poll'[q] = poll[q]
  BY DEF Typed, Goes

LEMMA LeavesIs ==
  ASSUME Typed, NEW p \in Pollers, NEW c \in DOMAIN work[p], Leaves(p, c)
  PROVE  /\ work' = [q \in Pollers |-> work'[q]]
         /\ DOMAIN work'[p] = DOMAIN work[p] \ {c} /\ work'[p] = [d \in DOMAIN work'[p] |-> work'[p][d]]
         /\ \A d \in DOMAIN work'[p] : work'[p][d] = work[p][d]
         /\ \A q \in Pollers : q # p => work'[q] = work[q]
  BY DEF Typed, PollerTyped, Checking, Leaves

LEMMA DoesIs ==
  ASSUME Typed, NEW p \in Pollers, NEW c \in DOMAIN work[p], NEW w, Does(p, c, w)
  PROVE  /\ work' = [q \in Pollers |-> work'[q]]
         /\ DOMAIN work'[p] = DOMAIN work[p] /\ work'[p] = [d \in DOMAIN work'[p] |-> work'[p][d]]
         /\ work'[p][c] = w /\ \A d \in DOMAIN work[p] : d # c => work'[p][d] = work[p][d]
         /\ \A q \in Pollers : q # p => work'[q] = work[q]
  BY DEF Typed, PollerTyped, Checking, Does

(* More activities, or mounts, change no type. *)
LEMMA GoingGrows ==
  ASSUME NEW n \in Nat, NEW k \in Nat, n <= k, NEW r, Going(r, n)
  PROVE  Going(r, k)
  BY DEF Going

LEMMA MountsGrow ==
  ASSUME NEW o, NEW m
  PROVE  /\ \A f : Checking(f, o) => Checking(f, o \cup {m})
         /\ \A k : Rows(k, o) => Rows(k, o \cup {m})
  <1>1. Sends(o) \subseteq Sends(o \cup {m})
    BY DEF Sends
  <1>2. \A f : Checking(f, o) => Checking(f, o \cup {m})
    BY <1>1 DEF Checking
  <1>3. \A k : Rows(k, o) => Rows(k, o \cup {m})
    BY DEF Rows
  <1> QED
    BY <1>2, <1>3

(* What a step of one poll has to show. *)
LEMMA PollerStep ==
  ASSUME Typed, NEW p \in Pollers, row.state # "none", UNCHANGED <<blizzard, since>>,
         row' \in [state : {"none", "live", "gone"}, enabled : BOOLEAN, stamp : Nat, offset : Nat, batch : Nat],
         row'.stamp <= feed, row'.state = row.state,
         Rows(known', owned), DOMAIN known' \subseteq DOMAIN first',
         first' = [c \in DOMAIN first' |-> first'[c]],
         posts' \subseteq 1 .. feed, told' \subseteq Chars \X Mounts,
         poll' = [q \in Pollers |-> poll'[q]], work' = [q \in Pollers |-> work'[q]],
         \A q \in Pollers : q # p => poll'[q] = poll[q] /\ work'[q] = work[q],
         Going(poll'[p], feed), Checking(work'[p], owned), DOMAIN work'[p] = {} \/ poll'[p].pc = "batch"
  PROVE  Typed'
  <1>1. UNCHANGED <<feed, owned, roster>>
    BY DEF blizzard
  <1>2. \A q \in Pollers : PollerTyped(q)'
    BY <1>1 DEF Typed, PollerTyped
  <1>3. Game'
    BY <1>1 DEF Typed, Game
  <1> QED
    BY <1>1, <1>2, <1>3 DEF Typed

LEMMA ActiveIsTracked ==
  ASSUME Typed, NEW p \in Pollers, poll[p].pc # "idle"
  PROVE  row.state # "none"
  BY DEF Typed

LEMMA NumbersType == Typed => feed \in Nat /\ Mounts \subseteq Nat /\ owned \subseteq Nat /\ owned \subseteq Mounts /\ IsFiniteSet(owned)
  <1> SUFFICES ASSUME Typed PROVE feed \in Nat /\ Mounts \subseteq Nat /\ owned \subseteq Nat /\ owned \subseteq Mounts /\ IsFiniteSet(owned)
    OBVIOUS
  <1>1. owned \subseteq Mounts /\ feed \in Nat
    BY BatchAssumption DEF Typed, Game, Activities
  <1>2. IsFiniteSet(owned)
    BY <1>1, FS_Subset, BatchAssumption
  <1> QED
    BY <1>1, <1>2, BatchAssumption

(* A poll that is not in a batch goes on without touching the characters. *)
LEMMA PhaseType ==
  ASSUME Typed, NEW p \in Pollers, row.state # "none", NEW r, Goes(p, r), Going(r, feed),
         poll[p].pc # "batch", UNCHANGED <<known, blizzard, work, told, since, first>>,
         row' \in [state : {"none", "live", "gone"}, enabled : BOOLEAN, stamp : Nat, offset : Nat, batch : Nat],
         row'.stamp <= feed, row'.state = row.state, posts' \subseteq 1 .. feed
  PROVE  Typed'
  <1>1. /\ poll' = [q \in Pollers |-> poll'[q]] /\ poll'[p] = r
        /\ \A q \in Pollers : q # p => poll'[q] = poll[q]
    BY PollGoes
  <1>2. Checking(work[p], owned) /\ DOMAIN work[p] = {}
    BY DEF Typed, PollerTyped
  <1>3. Rows(known', owned) /\ DOMAIN known' \subseteq DOMAIN first'
        /\ first' = [c \in DOMAIN first' |-> first'[c]] /\ told' \subseteq Chars \X Mounts
        /\ work' = [q \in Pollers |-> work'[q]]
    BY DEF Typed
  <1> QED
    BY <1>1, <1>2, <1>3, PollerStep

LEMMA FeedPhaseType ==
  ASSUME Typed, NEW p \in Pollers, Begin(p) \/ Fetch(p) \/ FetchFails(p) \/ Post(p) \/ RosterFails(p)
  PROVE  Typed'
  <1>0. /\ row \in [state : {"none", "live", "gone"}, enabled : BOOLEAN, stamp : Nat, offset : Nat, batch : Nat]
        /\ row.stamp <= feed /\ feed \in Nat /\ posts \subseteq 1 .. feed
    BY NumbersType DEF Typed
  <1>1. Going(Idle, feed) /\ Going(ToRoster, feed)
    BY DEF Going, Idle, ToRoster
  <1>2. Going(poll[p], feed)
    BY DEF Typed, PollerTyped
  <1>3. CASE Begin(p)
    <2> DEFINE r == [pc |-> "feed", base |-> IF p = "check" THEN 0 ELSE row.stamp]
    <2>1. Goes(p, r) /\ row.state = "live" /\ poll[p].pc = "idle"
          /\ UNCHANGED <<row, known, blizzard, work, posts, told, since, first>>
      BY <1>3 DEF Begin, Live
    <2>2. Going(r, feed)
      BY <1>0 DEF Going
    <2> HIDE DEF r
    <2> QED
      BY <1>0, <2>1, <2>2, PhaseType
  <1>4. CASE Fetch(p)
    <2> DEFINE r == [pc |-> "post", base |-> poll[p].base, top |-> feed, next |-> poll[p].base + 1, failed |-> FALSE]
    <2>1. poll[p].pc = "feed" /\ poll[p].base \in Nat
      BY <1>2, <1>4 DEF Fetch, Going
    <2>2. (feed > poll[p].base /\ Goes(p, r)) \/ Goes(p, ToRoster)
      BY <1>4 DEF Fetch
    <2>3. feed > poll[p].base => Going(r, feed)
      BY <1>0, <2>1 DEF Going
    <2>4. UNCHANGED <<row, known, blizzard, work, posts, told, since, first>>
      BY <1>4 DEF Fetch, history
    <2>5. row.state # "none"
      BY <2>1, ActiveIsTracked
    <2> HIDE DEF r
    <2> QED
      BY <1>0, <1>1, <2>1, <2>2, <2>3, <2>4, <2>5, PhaseType
  <1>5. CASE FetchFails(p) \/ RosterFails(p)
    <2>1. (Goes(p, Idle) \/ Goes(p, ToRoster)) /\ poll[p].pc \in {"feed", "roster"}
          /\ UNCHANGED <<row, known, blizzard, work, posts, told, since, first>>
      BY <1>5 DEF FetchFails, RosterFails, history
    <2>2. row.state # "none"
      BY <2>1, ActiveIsTracked
    <2> QED
      BY <1>0, <1>1, <2>1, <2>2, PhaseType
  <1>6. CASE Post(p)
    <2>1. poll[p].pc = "post" /\ poll[p] \in [pc : {"post"}, base : Nat, top : Nat, next : Nat, failed : BOOLEAN]
          /\ poll[p].base < poll[p].next /\ poll[p].next <= poll[p].top /\ poll[p].top <= feed
      BY <1>2, <1>6 DEF Post, Going
    <2>2. PICK ok \in BOOLEAN :
            LET e == poll[p].next
                q == [poll[p] EXCEPT !.next = e + 1, !.failed = @ \/ ~ok]
            IN /\ IF ok THEN posts' = posts \cup {e} /\ Met("repeated", e \in posts) /\ UNCHANGED events
                        ELSE Event("fault") /\ Met("unsent", TRUE) /\ UNCHANGED posts
               /\ IF e < q.top THEN Goes(p, q) /\ UNCHANGED row
                               ELSE Goes(p, ToRoster) /\ row' = Stamp(q)
      BY <1>6 DEF Post
    <2> DEFINE e == poll[p].next
               q == [poll[p] EXCEPT !.next = e + 1, !.failed = @ \/ ~ok]
    <2>3. q.pc = "post" /\ q.base = poll[p].base /\ q.top = poll[p].top /\ q.next = e + 1
          /\ q \in [pc : {"post"}, base : Nat, top : Nat, next : Nat, failed : BOOLEAN]
      <3>1. e + 1 \in Nat /\ (poll[p].failed \/ ~ok) \in BOOLEAN
        BY <2>1
      <3> QED
        BY <2>1, <3>1
    <2>4. posts' \subseteq 1 .. feed
      <3>1. posts' = posts \cup {e} \/ posts' = posts
        BY <2>2
      <3>2. e \in 1 .. feed
        BY <1>0, <2>1
      <3> QED
        BY <1>0, <3>1, <3>2
    <2>5. (e < q.top /\ Goes(p, q) /\ UNCHANGED row) \/ (Goes(p, ToRoster) /\ row' = Stamp(q))
      BY <2>2
    <2> HIDE DEF q
    <2>6. e < q.top => Going(q, feed)
      BY <1>0, <2>1, <2>3 DEF Going
    <2>7. /\ row' \in [state : {"none", "live", "gone"}, enabled : BOOLEAN, stamp : Nat, offset : Nat, batch : Nat]
          /\ row'.stamp <= feed /\ row'.state = row.state
      BY <1>0, <2>1, <2>3, <2>5 DEF Stamp
    <2>8. row.state # "none" /\ UNCHANGED <<known, blizzard, work, told, since, first>>
      BY <1>6, <2>1, ActiveIsTracked DEF Post
    <2> QED
      BY <1>1, <2>1, <2>4, <2>5, <2>6, <2>7, <2>8, PhaseType
  <1> QED
    BY <1>3, <1>4, <1>5, <1>6

(* A mount somebody has reported in this poll. *)
Passed(p, n) == \E d \in Chars : <<d, n>> \in poll[p].marked

(* A check either ends, or has one more mount to send. *)
Ends(p, c, w) ==
  known' = Write(c, w) /\ Leaves(p, c) /\ UNCHANGED poll /\ \A n \in w.new : Passed(p, n)

Reports(p, c, w, m, rest) ==
  /\ m \in w.new /\ rest \subseteq w.new /\ m \notin rest
  /\ \A n \in w.new : n \in rest \/ n = m \/ Passed(p, n)
  /\ Goes(p, [poll[p] EXCEPT !.marked = @ \cup {<<c, m>>}])
  /\ Does(p, c, [w EXCEPT !.now = m, !.new = rest]) /\ UNCHANGED known

LEMMA OnwardIs ==
  ASSUME Typed, NEW p \in Pollers, NEW c \in Chars, NEW w, w.new \subseteq Nat, Onward(p, c, w)
  PROVE  Ends(p, c, w) \/ \E m, rest : Reports(p, c, w, m, rest)
  <1>1. PICK account \in SUBSET Chars :
          LET fresh == {m \in w.new : \A d \in account : <<d, m>> \notin poll[p].marked} IN
          IF fresh = {}
          THEN known' = Write(c, w) /\ Leaves(p, c) /\ UNCHANGED poll
          ELSE LET m == Min(fresh)
               IN /\ Goes(p, [poll[p] EXCEPT !.marked = @ \cup {<<c, m>>}])
                  /\ Does(p, c, [w EXCEPT !.now = m, !.new = fresh \ {m}]) /\ UNCHANGED known
    <2>1. \A account \in (IF w.new = {} THEN {{c}} ELSE Accounts(c)) : account \in SUBSET Chars
      BY DEF Accounts
    <2> QED
      BY <2>1 DEF Onward
  <1> DEFINE fresh == {m \in w.new : \A d \in account : <<d, m>> \notin poll[p].marked}
  <1>2. \A n \in w.new : n \in fresh \/ Passed(p, n)
    BY DEF Passed
  <1>3. CASE fresh = {}
    <2>1. known' = Write(c, w) /\ Leaves(p, c) /\ UNCHANGED poll
      BY <1>1, <1>3
    <2> QED
      BY <1>2, <1>3, <2>1 DEF Ends
  <1>4. CASE fresh # {}
    <2> DEFINE m == Min(fresh)
    <2>1. /\ Goes(p, [poll[p] EXCEPT !.marked = @ \cup {<<c, m>>}])
          /\ Does(p, c, [w EXCEPT !.now = m, !.new = fresh \ {m}]) /\ UNCHANGED known
      BY <1>1, <1>4
    <2>2. fresh \subseteq w.new
      OBVIOUS
    <2>3. m \in fresh
      <3>1. fresh \subseteq Nat
        BY <2>2
      <3> HIDE DEF fresh
      <3> QED
        BY <1>4, <3>1, LeastOf
    <2> HIDE DEF m, fresh
    <2>4. Reports(p, c, w, m, fresh \ {m})
      BY <1>2, <2>1, <2>2, <2>3 DEF Reports
    <2> QED
      BY <2>4
  <1> QED
    BY <1>3, <1>4

LEMMA WriteType ==
  ASSUME Typed, NEW c, NEW w \in Sends(owned)
  PROVE  Rows(Write(c, w), owned) /\ DOMAIN Write(c, w) = DOMAIN known
  <1>1. CASE Write(c, w) = known
    BY <1>1 DEF Typed
  <1>2. CASE c \in DOMAIN known /\ Write(c, w) = [known EXCEPT ![c] = [ids |-> w.had \cup w.has, count |-> Cardinality(w.has)]]
    <2>1. w.had \cup w.has \subseteq owned /\ w.has \subseteq w.had \cup w.has /\ IsFiniteSet(owned)
      BY NumbersType DEF Sends
    <2>2. IsFiniteSet(w.had \cup w.has)
      BY <2>1, FS_Subset
    <2>3. Cardinality(w.has) \in Nat /\ Cardinality(w.has) <= Cardinality(w.had \cup w.has)
      BY <2>1, <2>2, FS_Subset, FS_CardinalityType
    <2> DEFINE r == [ids |-> w.had \cup w.has, count |-> Cardinality(w.has)]
               k == [known EXCEPT ![c] = r]
    <2>4. r \in [ids : SUBSET owned, count : Nat] /\ r.count <= Cardinality(r.ids)
      BY <2>1, <2>3
    <2> HIDE DEF r
    <2>5. Rows(known, owned)
      BY DEF Typed
    <2>6. DOMAIN k = DOMAIN known /\ k[c] = r /\ \A d \in DOMAIN known : d # c => k[d] = known[d]
      BY <1>2, <2>5 DEF Rows
    <2>7. Rows(k, owned)
      BY <2>4, <2>5, <2>6 DEF Rows
    <2> QED
      BY <1>2, <2>6, <2>7 DEF r
  <1> QED
    BY <1>1, <1>2 DEF Write

(* A step of one character's check. *)
LEMMA CharacterStep ==
  ASSUME Typed, NEW p \in Pollers, NEW c \in DOMAIN work[p], UNCHANGED <<row, blizzard, posts, since>>,
         Rows(known', owned), DOMAIN known' \subseteq DOMAIN first',
         first' = [d \in DOMAIN first' |-> first'[d]], told' \subseteq Chars \X Mounts,
         NEW r \in Batches, Goes(p, r) \/ (poll' = poll /\ r = poll[p]),
         \/ Leaves(p, c)
         \/ work' = work
         \/ \E w \in Sends(owned) : Fit(w) /\ Does(p, c, w)
  PROVE  Typed'
  <1>1. poll[p].pc = "batch" /\ row.state # "none" /\ Checking(work[p], owned)
    BY ActiveIsTracked DEF Typed, PollerTyped
  <1>2. /\ poll' = [q \in Pollers |-> poll'[q]] /\ poll'[p] = r
        /\ \A q \in Pollers : q # p => poll'[q] = poll[q]
    BY PollGoes DEF Typed
  <1>3. r.pc = "batch" /\ Going(r, feed)
    BY DEF Batches, Going
  <1>4. /\ work' = [q \in Pollers |-> work'[q]] /\ Checking(work'[p], owned)
        /\ \A q \in Pollers : q # p => work'[q] = work[q]
    <2>1. CASE Leaves(p, c)
      BY <1>1, <2>1, LeavesIs DEF Checking
    <2>2. CASE work' = work
      BY <1>1, <2>2 DEF Typed
    <2>3. ASSUME NEW w \in Sends(owned), Fit(w), Does(p, c, w)
          PROVE  /\ work' = [q \in Pollers |-> work'[q]] /\ Checking(work'[p], owned)
                 /\ \A q \in Pollers : q # p => work'[q] = work[q]
      <3>1. /\ work' = [q \in Pollers |-> work'[q]]
            /\ DOMAIN work'[p] = DOMAIN work[p] /\ work'[p] = [d \in DOMAIN work'[p] |-> work'[p][d]]
            /\ work'[p][c] = w /\ \A d \in DOMAIN work[p] : d # c => work'[p][d] = work[p][d]
            /\ \A q \in Pollers : q # p => work'[q] = work[q]
        BY <2>3, DoesIs
      <3>2. w.at = "send"
        BY DEF Sends
      <3> QED
        BY <1>1, <2>3, <3>1, <3>2 DEF Checking
    <2> QED
      BY <2>1, <2>2, <2>3
  <1>5. row \in [state : {"none", "live", "gone"}, enabled : BOOLEAN, stamp : Nat, offset : Nat, batch : Nat]
        /\ row.stamp <= feed /\ posts \subseteq 1 .. feed
    BY DEF Typed
  <1> QED
    BY <1>1, <1>2, <1>3, <1>4, <1>5, PollerStep

LEMMA OnwardType ==
  ASSUME Typed, NEW p \in Pollers, NEW c \in DOMAIN work[p], UNCHANGED <<row, blizzard, posts, since, first>>,
         told' \subseteq Chars \X Mounts, NEW w \in Sends(owned), w.new \subseteq w.has \ w.had, Onward(p, c, w)
  PROVE  Typed'
  <1>1. poll[p] \in Batches /\ c \in Chars
    BY DEF Typed, PollerTyped, Going, Checking
  <1>2. w.new \subseteq owned /\ w.new \subseteq Nat /\ owned \subseteq Mounts
    BY NumbersType DEF Sends
  <1>3. CASE Ends(p, c, w)
    <2>1. Rows(known', owned) /\ DOMAIN known' = DOMAIN known
      BY <1>3, WriteType DEF Ends
    <2> QED
      BY <1>1, <1>3, <2>1, CharacterStep DEF Ends, Typed
  <1>4. ASSUME NEW m, NEW rest, Reports(p, c, w, m, rest)
        PROVE  Typed'
    <2> DEFINE r == [poll[p] EXCEPT !.marked = @ \cup {<<c, m>>}]
               v == [w EXCEPT !.now = m, !.new = rest]
    <2>1. m \in owned /\ rest \subseteq owned /\ m \in Mounts /\ m \in Nat
      BY <1>2, <1>4, BatchAssumption DEF Reports
    <2>2. r \in Batches
      BY <1>1, <2>1 DEF Batches
    <2>3. v \in Sends(owned) /\ Fit(v)
      <3>1. v \in Sends(owned) /\ v.has = w.has /\ v.had = w.had /\ v.now = m /\ v.new = rest
        BY <2>1 DEF Sends
      <3> QED
        BY <1>4, <3>1 DEF Fit, Reports
    <2>4. Goes(p, r) /\ Does(p, c, v) /\ UNCHANGED known
      BY <1>4 DEF Reports
    <2> HIDE DEF r, v
    <2>5. Rows(known', owned) /\ DOMAIN known' \subseteq DOMAIN first'
          /\ first' = [d \in DOMAIN first' |-> first'[d]]
      BY <2>4 DEF Typed
    <2> QED
      BY <2>2, <2>3, <2>4, <2>5, CharacterStep
  <1> QED
    BY <1>1, <1>2, <1>3, <1>4, OnwardIs

LEMMA AnswersType == Typed => Answers \subseteq SUBSET owned /\ \A has \in Answers : Cardinality(has) \in Nat
  <1> SUFFICES ASSUME Typed PROVE Answers \subseteq SUBSET owned /\ \A has \in Answers : Cardinality(has) \in Nat
    OBVIOUS
  <1>1. Answers \subseteq SUBSET owned
    BY DEF Answers
  <1>2. ASSUME NEW has \in Answers PROVE Cardinality(has) \in Nat
    BY <1>1, <1>2, NumbersType, FS_Subset, FS_CardinalityType
  <1> QED
    BY <1>1, <1>2

(* What a comparison goes on with. *)
Compared(c, has) ==
  [at |-> "send", had |-> known[c].ids, has |-> has,
   new |-> IF Churn(known[c].ids, has, known[c].count) THEN {} ELSE has \ known[c].ids, now |-> 0, bad |-> FALSE]

LEMMA ComparedType ==
  ASSUME Typed, NEW c \in DOMAIN known, NEW has \in Answers
  PROVE  Compared(c, has) \in Sends(owned) /\ Compared(c, has).new \subseteq Compared(c, has).has \ Compared(c, has).had
  <1>1. known[c].ids \subseteq owned /\ has \subseteq owned
    BY AnswersType DEF Typed, Rows
  <1> QED
    BY <1>1 DEF Compared, Sends

LEMMA CheckType ==
  ASSUME Typed, NEW p \in Pollers, NEW c \in DOMAIN work[p], Check(p, c)
  PROVE  Typed'
  <1>1. poll[p] \in Batches /\ c \in Chars /\ told \subseteq Chars \X Mounts
    BY DEF Typed, PollerTyped, Going, Checking
  <1>2. Rows(known, owned) /\ DOMAIN known \subseteq DOMAIN first
        /\ first = [d \in DOMAIN first |-> first[d]]
    BY DEF Typed
  <1>3. [poll[p] EXCEPT !.limited = TRUE] \in Batches /\ [poll[p] EXCEPT !.newly = TRUE] \in Batches
    BY <1>1 DEF Batches
  <1>4. CASE Unusable(p, c)
    BY <1>1, <1>2, <1>4, CharacterStep DEF Unusable, history
  <1>5. CASE RateLimited(p, c)
    BY <1>1, <1>2, <1>3, <1>5, CharacterStep DEF RateLimited, history
  <1>6. CASE Baseline(p, c)
    <2>1. Leaves(p, c) /\ c \notin DOMAIN known /\ UNCHANGED <<row, blizzard, posts, told, since>>
      BY <1>6 DEF Baseline
    <2>2. CASE ~Live /\ Goes(p, [poll[p] EXCEPT !.limited = TRUE]) /\ UNCHANGED <<known, first, events>>
      BY <1>1, <1>2, <1>3, <2>1, <2>2, CharacterStep
    <2>3. ASSUME NEW has \in Answers, Goes(p, [poll[p] EXCEPT !.newly = TRUE]),
                 known' = With(known, c, [ids |-> has, count |-> Cardinality(has)]), first' = With(first, c, has)
          PROVE  Typed'
      <3> DEFINE r == [ids |-> has, count |-> Cardinality(has)]
      <3>1. /\ DOMAIN known' = DOMAIN known \cup {c} /\ known' = [d \in DOMAIN known' |-> known'[d]]
            /\ known'[c] = r /\ \A d \in DOMAIN known : known'[d] = known[d]
        <4>1. known' = With(known, c, r)
          BY <2>3
        <4> HIDE DEF r
        <4> QED
          BY <2>1, <4>1 DEF With
      <3>2. r \in [ids : SUBSET owned, count : Nat] /\ r.count <= Cardinality(r.ids)
        BY AnswersType
      <3> HIDE DEF r
      <3>3. Rows(known', owned)
        BY <1>1, <1>2, <3>1, <3>2 DEF Rows
      <3>4. DOMAIN known' \subseteq DOMAIN first' /\ first' = [d \in DOMAIN first' |-> first'[d]]
        BY <1>2, <2>3, <3>1 DEF With
      <3> QED
        BY <1>1, <1>3, <2>1, <2>3, <3>3, <3>4, CharacterStep
    <2> QED
      BY <1>6, <2>2, <2>3 DEF Baseline
  <1>7. CASE Renamed(p, c)
    <2>1. c \notin DOMAIN known /\ UNCHANGED <<row, blizzard, poll, work, posts, told, since>>
      BY <1>7 DEF Renamed
    <2>2. PICK old \in DOMAIN known \ roster :
            LET Moved(f) == [d \in (DOMAIN f \ {old}) \cup {c} |-> f[IF d = c THEN old ELSE d]]
            IN known' = Moved(known) /\ first' = Moved(first)
      BY <1>7 DEF Renamed
    <2>3. known' = [d \in (DOMAIN known \ {old}) \cup {c} |-> known[IF d = c THEN old ELSE d]]
          /\ first' = [d \in (DOMAIN first \ {old}) \cup {c} |-> first[IF d = c THEN old ELSE d]]
      BY <2>2
    <2>4. Rows(known', owned)
      BY <1>1, <1>2, <2>1, <2>3 DEF Rows
    <2>5. DOMAIN known' \subseteq DOMAIN first' /\ first' = [d \in DOMAIN first' |-> first'[d]]
      BY <1>2, <2>2, <2>3
    <2> QED
      BY <1>1, <2>1, <2>4, <2>5, CharacterStep
  <1>8. CASE Compare(p, c)
    <2>1. c \in DOMAIN known /\ UNCHANGED <<row, blizzard, posts, told, since, first>>
      BY <1>8 DEF Compare
    <2>2. PICK has \in Answers : Onward(p, c, Compared(c, has))
      BY <1>8 DEF Compare, Compared
    <2>3. Compared(c, has) \in Sends(owned) /\ Compared(c, has).new \subseteq Compared(c, has).has \ Compared(c, has).had
      BY <2>1, ComparedType
    <2> QED
      BY <1>1, <2>1, <2>2, <2>3, OnwardType
  <1>9. CASE Send(p, c)
    <2>1. work[p][c] \in Sends(owned) /\ Fit(work[p][c]) /\ UNCHANGED <<row, blizzard, posts, since, first>>
      BY <1>9 DEF Send, At, Typed, PollerTyped, Checking
    <2>2. PICK ok \in BOOLEAN :
            /\ told' = told \cup (IF ok THEN {<<c, work[p][c].now>>} ELSE {})
            /\ Onward(p, c, [work[p][c] EXCEPT !.bad = @ \/ ~ok])
      BY <1>9 DEF Send
    <2>3. <<c, work[p][c].now>> \in Chars \X Mounts
      BY <1>1, <2>1, NumbersType DEF Sends, Fit
    <2>4. told' \subseteq Chars \X Mounts
      BY <1>1, <2>2, <2>3
    <2>5. [work[p][c] EXCEPT !.bad = @ \/ ~ok] \in Sends(owned)
          /\ [work[p][c] EXCEPT !.bad = @ \/ ~ok].new \subseteq [work[p][c] EXCEPT !.bad = @ \/ ~ok].has \ [work[p][c] EXCEPT !.bad = @ \/ ~ok].had
      <3>1. (work[p][c].bad \/ ~ok) \in BOOLEAN
        OBVIOUS
      <3> QED
        BY <2>1, <3>1 DEF Sends, Fit
    <2> QED
      BY <2>1, <2>2, <2>4, <2>5, OnwardType
  <1> QED
    BY <1>4, <1>5, <1>6, <1>7, <1>8, <1>9 DEF Check

(* Every batch is made of members of the list. *)
LEMMA ListLength ==
  ASSUME NEW list \in Lists
  PROVE  Len(list) \in Nat /\ DOMAIN list = 1 .. Len(list) /\ \A i \in 1 .. Len(list) : list[i] \in Chars
  <1>1. PICK n \in Nat : list \in [1 .. n -> Chars]
    BY DEF Lists
  <1>2. list \in Seq(Chars)
    BY <1>1
  <1> QED
    BY <1>2

LEMMA BatchIn ==
  ASSUME NEW list \in Lists, NEW off \in Nat, row.batch \in Nat
  PROVE  InBatch(list, off) \subseteq Chars
  <1>1. Len(list) \in Nat /\ \A i \in 1 .. Len(list) : list[i] \in Chars
    BY ListLength
  <1>2. From(off, Len(list)) \in Nat
    BY DEF From
  <1>3. From(off, Len(list)) + 1 .. Least(From(off, Len(list)) + row.batch, Len(list)) \subseteq 1 .. Len(list)
    BY <1>1, <1>2 DEF Least
  <1> QED
    BY <1>1, <1>3 DEF InBatch

LEMMA AskingType ==
  ASSUME NEW p \in Pollers, work = [q \in Pollers |-> work[q]], NEW b \in SUBSET Chars, Asking(p, b)
  PROVE  /\ work' = [q \in Pollers |-> work'[q]] /\ Checking(work'[p], owned)
         /\ \A q \in Pollers : q # p => work'[q] = work[q]
         /\ DOMAIN work'[p] = b /\ \A c \in b : work'[p][c] = [at |-> "ask"]
  <1>1. work'[p] = [c \in b |-> [at |-> "ask"]]
    BY DEF Asking
  <1>2. work' = [q \in Pollers |-> work'[q]] /\ \A q \in Pollers : q # p => work'[q] = work[q]
    BY DEF Asking
  <1> QED
    BY <1>1, <1>2 DEF Checking

LEMMA RosterType ==
  ASSUME Typed, NEW p \in Pollers, Roster(p)
  PROVE  Typed'
  <1>1. poll[p].pc = "roster" /\ DOMAIN work[p] = {} /\ row.state # "none" /\ Checking(work[p], owned)
    BY ActiveIsTracked DEF Roster, Typed, PollerTyped
  <1>2. PICK list \in InOrder(roster), stale \in SUBSET (DOMAIN known \ roster) :
          /\ known' = [c \in DOMAIN known \ stale |-> known[c]]
          /\ IF list = <<>> \/ ~Live
             THEN Goes(p, Idle) /\ UNCHANGED work
             ELSE /\ Goes(p, [pc |-> "batch", list |-> list, off |-> row.offset, start |-> row.offset,
                              sync |-> ~(roster \subseteq DOMAIN known), newly |-> FALSE, limited |-> FALSE,
                              marked |-> {}])
                  /\ Asking(p, InBatch(list, row.offset))
    BY DEF Roster
  <1>3. Rows(known', owned) /\ DOMAIN known' \subseteq DOMAIN first' /\ first' = [d \in DOMAIN first' |-> first'[d]]
    BY <1>2 DEF Roster, Typed, Rows
  <1>4. UNCHANGED <<row, blizzard, posts, told, since>>
    BY DEF Roster
  <1>5. /\ row \in [state : {"none", "live", "gone"}, enabled : BOOLEAN, stamp : Nat, offset : Nat, batch : Nat]
        /\ row.stamp <= feed /\ posts \subseteq 1 .. feed /\ told \subseteq Chars \X Mounts
        /\ work = [q \in Pollers |-> work[q]] /\ poll = [q \in Pollers |-> poll[q]]
    BY DEF Typed
  <1>6. CASE Goes(p, Idle) /\ UNCHANGED work
    <2>1. Going(Idle, feed)
      BY DEF Going, Idle
    <2> QED
      BY <1>1, <1>3, <1>4, <1>5, <1>6, <2>1, PollGoes, PollerStep
  <1>7. CASE ~(Goes(p, Idle) /\ UNCHANGED work)
    <2> DEFINE r == [pc |-> "batch", list |-> list, off |-> row.offset, start |-> row.offset,
                     sync |-> ~(roster \subseteq DOMAIN known), newly |-> FALSE, limited |-> FALSE, marked |-> {}]
    <2>1. Goes(p, r) /\ Asking(p, InBatch(list, row.offset))
      BY <1>2, <1>7
    <2>2. list \in [1 .. Cardinality(roster) -> roster] /\ Cardinality(roster) \in Nat /\ roster \subseteq Chars
      <3>1. roster \subseteq Chars
        BY DEF Typed, Game
      <3>2. Cardinality(roster) \in Nat
        BY <3>1, BatchAssumption, FS_Subset, FS_CardinalityType
      <3> QED
        BY <3>1, <3>2 DEF InOrder
    <2>3. list \in Lists
      BY <2>2 DEF Lists
    <2>4. r \in Batches
      BY <1>5, <2>3 DEF Batches
    <2>5. InBatch(list, row.offset) \subseteq Chars
      BY <1>5, <2>3, BatchIn
    <2>6. /\ work' = [q \in Pollers |-> work'[q]] /\ Checking(work'[p], owned)
          /\ \A q \in Pollers : q # p => work'[q] = work[q]
      BY <1>5, <2>1, <2>5, AskingType
    <2>7. Going(r, feed) /\ r.pc = "batch"
      BY <2>4 DEF Batches, Going
    <2> HIDE DEF r
    <2> QED
      BY <1>1, <1>3, <1>4, <1>5, <2>1, <2>6, <2>7, PollGoes, PollerStep
  <1> QED
    BY <1>6, <1>7

LEMMA BatchDoneType ==
  ASSUME Typed, NEW p \in Pollers, BatchDone(p)
  PROVE  Typed'
  <1> DEFINE n == Len(poll[p].list)
             off == NextOffset(poll[p].off, n)
             round == off = poll[p].start \/ (off = 0 /\ poll[p].start >= n)
             q == [poll[p] EXCEPT !.off = off, !.start = IF round THEN off ELSE @, !.newly = ~round /\ @]
  <1>1. /\ poll[p].pc = "batch" /\ DOMAIN work[p] = {} /\ UNCHANGED <<known, blizzard, posts, told, since, first>>
        /\ row' = IF Live /\ ~poll[p].limited THEN [row EXCEPT !.offset = off] ELSE row
        /\ (Goes(p, q) /\ Asking(p, InBatch(poll[p].list, off))) \/ (Goes(p, Idle) /\ UNCHANGED work)
    BY DEF BatchDone, history
  <1>2. poll[p] \in Batches /\ Checking(work[p], owned) /\ row.state # "none"
    BY <1>1, ActiveIsTracked DEF Typed, PollerTyped, Going
  <1>3. /\ row \in [state : {"none", "live", "gone"}, enabled : BOOLEAN, stamp : Nat, offset : Nat, batch : Nat]
        /\ row.stamp <= feed /\ posts \subseteq 1 .. feed /\ told \subseteq Chars \X Mounts
        /\ work = [u \in Pollers |-> work[u]] /\ poll = [u \in Pollers |-> poll[u]]
        /\ Rows(known, owned) /\ DOMAIN known \subseteq DOMAIN first /\ first = [d \in DOMAIN first |-> first[d]]
    BY DEF Typed
  <1>4. poll[p].list \in Lists /\ n \in Nat
    BY <1>2, ListLength DEF Batches
  <1>5. off \in Nat
    BY <1>2, <1>3, <1>4 DEF NextOffset, From, Batches
  <1> HIDE DEF off, n
  <1>6. /\ row' \in [state : {"none", "live", "gone"}, enabled : BOOLEAN, stamp : Nat, offset : Nat, batch : Nat]
        /\ row'.stamp <= feed /\ row'.state = row.state
    BY <1>1, <1>3, <1>5
  <1>7. CASE Goes(p, Idle) /\ UNCHANGED work
    <2>1. Going(Idle, feed)
      BY DEF Going, Idle
    <2> QED
      BY <1>1, <1>2, <1>3, <1>6, <1>7, <2>1, PollGoes, PollerStep
  <1>8. CASE Goes(p, q) /\ Asking(p, InBatch(poll[p].list, off))
    <2>1. q \in Batches
      <3>1. (~round /\ poll[p].newly) \in BOOLEAN
        OBVIOUS
      <3> HIDE DEF round
      <3> QED
        BY <1>2, <1>5, <3>1 DEF Batches
    <2>2. InBatch(poll[p].list, off) \subseteq Chars
      BY <1>3, <1>4, <1>5, BatchIn
    <2>3. /\ work' = [u \in Pollers |-> work'[u]] /\ Checking(work'[p], owned)
          /\ \A u \in Pollers : u # p => work'[u] = work[u]
      BY <1>3, <1>8, <2>2, AskingType
    <2>4. Going(q, feed) /\ q.pc = "batch"
      BY <2>1 DEF Batches, Going
    <2> HIDE DEF q
    <2> QED
      BY <1>1, <1>2, <1>3, <1>6, <1>8, <2>3, <2>4, PollGoes, PollerStep
  <1> QED
    BY <1>1, <1>7, <1>8

LEMMA NextType == Typed /\ [Next]_vars => Typed'
  <1> SUFFICES ASSUME Typed, [Next]_vars PROVE Typed'
    OBVIOUS
  <1>0. /\ row \in [state : {"none", "live", "gone"}, enabled : BOOLEAN, stamp : Nat, offset : Nat, batch : Nat]
        /\ feed \in Nat /\ Game
    BY NumbersType DEF Typed
  <1>1. ASSUME NEW batch \in Nat, NEW stamp \in {0, feed}, Track(stamp, batch) PROVE Typed'
    <2>1. row.state = "none" /\ feed = 1 /\ \A p \in Pollers : PollerTyped(p)'
      BY <1>1 DEF Track, Typed, PollerTyped, blizzard
    <2>2. /\ row' \in [state : {"none", "live", "gone"}, enabled : BOOLEAN, stamp : Nat, offset : Nat, batch : Nat]
          /\ row'.stamp <= feed /\ row'.state = "live" /\ since' \in {0, 1}
      BY <1>1, <2>1 DEF Track
    <2> QED
      BY <1>1, <2>1, <2>2 DEF Track, Typed, Game, blizzard
  <1>2. ASSUME NEW batch \in CommandBatches, Setup(batch) PROVE Typed'
    BY <1>1, <1>2, BatchAssumption DEF Setup
  <1>3. ASSUME NEW batch \in WebBatches, WebCreate(batch) PROVE Typed'
    BY <1>1, <1>3, BatchAssumption DEF WebCreate
  <1>4. CASE SetEnabled \/ Untrack \/ WebDelete
    <2>1. row.state = "live" /\ UNCHANGED <<blizzard, poll, work, posts, told, since, first>>
      BY <1>4 DEF SetEnabled, Untrack, WebDelete, Live, history
    <2>2. \A p \in Pollers : PollerTyped(p)'
      BY <2>1 DEF Typed, PollerTyped, blizzard
    <2>3. /\ row' \in [state : {"none", "live", "gone"}, enabled : BOOLEAN, stamp : Nat, offset : Nat, batch : Nat]
          /\ row'.stamp <= feed /\ row'.state # "none"
      BY <1>0, <1>4, <2>1 DEF SetEnabled, Untrack, WebDelete, Typed
    <2>4. Rows(known', owned) /\ DOMAIN known' \subseteq DOMAIN first
      <3>1. known' = known \/ known' = NoRows
        BY <1>4 DEF SetEnabled, Untrack, WebDelete
      <3>2. Rows(NoRows, owned) /\ DOMAIN NoRows = {}
        BY DEF Rows, NoRows
      <3> QED
        BY <3>1, <3>2 DEF Typed
    <2> QED
      BY <2>1, <2>2, <2>3, <2>4 DEF Typed, Game, blizzard
  <1>5. CASE Happens
    <2>1. row.state = "live" /\ feed' = feed + 1 /\ feed' \in Activities /\ feed' \in Nat /\ feed <= feed'
          /\ UNCHANGED <<row, known, owned, roster, poll, work, posts, told, since, first>>
      BY <1>0, <1>5, BatchAssumption DEF Happens, Live, Activities, Typed, history
    <2>2. \A p \in Pollers : PollerTyped(p)'
      BY <1>0, <2>1, GoingGrows DEF Typed, PollerTyped
    <2>3. row.stamp <= feed' /\ posts \subseteq 1 .. feed'
      BY <1>0, <2>1 DEF Typed
    <2> QED
      BY <2>1, <2>2, <2>3 DEF Typed, Game
  <1>6. ASSUME NEW m \in Mounts, Earn(m) PROVE Typed'
    <2>1. row.state = "live" /\ owned' = owned \cup {m}
          /\ UNCHANGED <<row, known, feed, roster, poll, work, posts, told, since, first>>
      BY <1>6 DEF Earn, Live, history
    <2>2. \A p \in Pollers : PollerTyped(p)'
      BY <2>1, MountsGrow DEF Typed, PollerTyped
    <2>3. Rows(known', owned')
      BY <2>1, MountsGrow DEF Typed
    <2> QED
      BY <2>1, <2>2, <2>3 DEF Typed, Game
  <1>7. ASSUME NEW c \in Chars, JoinOrLeave(c) PROVE Typed'
    <2>1. row.state = "live" /\ roster' \subseteq Chars
          /\ UNCHANGED <<row, known, feed, owned, poll, work, posts, told, since, first>>
      BY <1>0, <1>7 DEF JoinOrLeave, Live, Game, history
    <2>2. \A p \in Pollers : PollerTyped(p)'
      BY <2>1 DEF Typed, PollerTyped
    <2> QED
      BY <2>1, <2>2 DEF Typed, Game
  <1>8. CASE Restart
    <2>1. row.state # "none" /\ UNCHANGED <<row, known, blizzard, posts, told, since, first>>
      BY <1>8, ActiveIsTracked DEF Restart, Polling
    <2>2. /\ poll' = [p \in Pollers |-> Idle] /\ work' = [p \in Pollers |-> NoRows]
      BY <1>8 DEF Restart
    <2>3. \A p \in Pollers : PollerTyped(p)'
      BY <2>2 DEF PollerTyped, Going, Idle, Checking, NoRows
    <2>4. poll' = [p \in Pollers |-> poll'[p]] /\ work' = [p \in Pollers |-> work'[p]]
      BY <2>2
    <2> QED
      BY <2>1, <2>3, <2>4 DEF Typed, Game, blizzard
  <1>9. CASE UNCHANGED vars
    <2>1. \A p \in Pollers : PollerTyped(p)'
      BY <1>9 DEF vars, blizzard, Typed, PollerTyped
    <2> QED
      BY <1>9, <2>1 DEF vars, blizzard, history, Typed, Game
  <1>10. ASSUME NEW p \in Pollers, Begin(p) \/ Fetch(p) \/ FetchFails(p) \/ Post(p) \/ RosterFails(p) PROVE Typed'
    BY <1>10, FeedPhaseType
  <1>11. ASSUME NEW p \in Pollers, Roster(p) PROVE Typed'
    BY <1>11, RosterType
  <1>12. ASSUME NEW p \in Pollers, BatchDone(p) PROVE Typed'
    BY <1>12, BatchDoneType
  <1>13. ASSUME NEW p \in Pollers, NEW c \in DOMAIN work[p], Check(p, c) PROVE Typed'
    BY <1>13, CheckType
  <1> QED
    BY <1>2, <1>3, <1>4, <1>5, <1>6, <1>7, <1>8, <1>9, <1>10, <1>11, <1>12, <1>13 DEF Next

(* Every variable keeps its type, whatever the interleaving of the two polls.  *)
THEOREM TypeCorrect == Spec => []TypeOK
  <1>1. Init => Typed
    BY InitType
  <1>2. Typed /\ [Next]_vars => Typed'
    BY NextType
  <1>3. Typed => TypeOK
    BY TypedIsTyped
  <1> QED
    BY <1>1, <1>2, <1>3, PTL DEF Spec

-----------------------------------------------------------------------------
(* What a step leaves alone.                                                 *)

Active(p) == poll[p].pc # "idle"

(* The history of what was met only grows. *)
LEMMA MetGrows ==
  ASSUME [Next]_vars
  PROVE  met \subseteq met'
  <1>1. \A what, if : Met(what, if) => met \subseteq met'
    BY DEF Met
  <1>2. ASSUME NEW batch, Setup(batch) \/ WebCreate(batch) PROVE met \subseteq met'
    BY <1>2 DEF Setup, WebCreate, Track
  <1>3. SetEnabled \/ Untrack \/ WebDelete \/ Happens \/ Restart => met \subseteq met'
    BY <1>1 DEF SetEnabled, Untrack, WebDelete, Happens, Restart, history
  <1>4. ASSUME NEW x, Earn(x) \/ JoinOrLeave(x) PROVE met \subseteq met'
    BY <1>4 DEF Earn, JoinOrLeave, history
  <1>5. ASSUME NEW p \in Pollers, Fetch(p) \/ FetchFails(p) \/ RosterFails(p) \/ BatchDone(p) PROVE met \subseteq met'
    BY <1>5 DEF Fetch, FetchFails, RosterFails, BatchDone, history
  <1>6. ASSUME NEW p \in Pollers, Begin(p) \/ Post(p) \/ Roster(p) PROVE met \subseteq met'
    BY <1>1, <1>6 DEF Begin, Post, Roster
  <1>7. ASSUME NEW p \in Pollers, NEW c \in DOMAIN work[p], Check(p, c) PROVE met \subseteq met'
    BY <1>1, <1>7 DEF Check, Unusable, RateLimited, Baseline, Renamed, Compare, Send, history
  <1> QED
    BY <1>2, <1>3, <1>4, <1>5, <1>6, <1>7 DEF Next, vars, history

(* A step of a check concerns the mounts only. *)
LEMMA CheckLeaves ==
  ASSUME Typed, NEW p \in Pollers, NEW c \in DOMAIN work[p], Check(p, c)
  PROVE  /\ poll[p].pc = "batch" /\ poll'[p].pc = "batch" /\ UNCHANGED <<row, blizzard, posts, since>>
         /\ \A q \in Pollers : q # p => poll'[q] = poll[q]
         /\ met' \subseteq met \cup {"left", "churned", "again", "unsent", "lost"}
  <1>1. poll[p] \in Batches /\ poll[p].pc = "batch"
    BY DEF Typed, PollerTyped, Going, Batches
  <1>2. \A x, y : [poll[p] EXCEPT !.limited = x].pc = "batch" /\ [poll[p] EXCEPT !.newly = x].pc = "batch"
                /\ [poll[p] EXCEPT !.marked = x].pc = "batch"
    BY <1>1 DEF Batches
  <1>3. UNCHANGED <<row, blizzard, posts, since>>
    BY DEF Check, Unusable, RateLimited, Baseline, Renamed, Compare, Send, history
  <1>4. met' \subseteq met \cup {"left", "churned", "again", "unsent", "lost"}
    BY DEF Check, Unusable, RateLimited, Baseline, Renamed, Compare, Send, history, Met
  <1>5. ASSUME NEW r, Goes(p, r), r.pc = "batch"
        PROVE  poll'[p].pc = "batch" /\ \A q \in Pollers : q # p => poll'[q] = poll[q]
    BY <1>5, PollGoes
  <1>6. CASE Unusable(p, c) \/ Renamed(p, c)
    BY <1>1, <1>3, <1>4, <1>6 DEF Unusable, Renamed
  <1>7. CASE RateLimited(p, c)
    BY <1>1, <1>2, <1>3, <1>4, <1>5, <1>7 DEF RateLimited
  <1>8. CASE Baseline(p, c)
    <2>1. Goes(p, [poll[p] EXCEPT !.limited = TRUE]) \/ Goes(p, [poll[p] EXCEPT !.newly = TRUE])
      BY <1>8 DEF Baseline
    <2> QED
      BY <1>1, <1>2, <1>3, <1>4, <1>5, <2>1
  <1>9. ASSUME NEW w, w.new \subseteq Nat, Onward(p, c, w)
        PROVE  poll'[p].pc = "batch" /\ \A q \in Pollers : q # p => poll'[q] = poll[q]
    <2>1. c \in Chars
      BY DEF Typed, PollerTyped, Checking
    <2>2. CASE Ends(p, c, w)
      BY <1>1, <2>2 DEF Ends
    <2>3. ASSUME NEW m, NEW rest, Reports(p, c, w, m, rest)
          PROVE  poll'[p].pc = "batch" /\ \A q \in Pollers : q # p => poll'[q] = poll[q]
      BY <1>2, <1>5, <2>3 DEF Reports
    <2> QED
      BY <1>9, <2>1, <2>2, <2>3, OnwardIs
  <1>10. CASE Compare(p, c)
    <2>1. c \in DOMAIN known
      BY <1>10 DEF Compare
    <2>2. PICK has \in Answers : Onward(p, c, Compared(c, has))
      BY <1>10 DEF Compare, Compared
    <2>3. Compared(c, has).new \subseteq Nat
      BY <2>1, ComparedType, NumbersType DEF Sends
    <2> QED
      BY <1>1, <1>3, <1>4, <1>9, <2>2, <2>3
  <1>11. CASE Send(p, c)
    <2>1. PICK ok \in BOOLEAN : Onward(p, c, [work[p][c] EXCEPT !.bad = @ \/ ~ok])
      BY <1>11 DEF Send
    <2>2. work[p][c] \in Sends(owned)
      BY <1>11 DEF Send, At, Typed, PollerTyped, Checking
    <2>3. [work[p][c] EXCEPT !.bad = @ \/ ~ok].new \subseteq Nat
      BY <2>2, NumbersType DEF Sends
    <2> QED
      BY <1>1, <1>3, <1>4, <1>9, <2>1, <2>3
  <1> QED
    BY <1>6, <1>7, <1>8, <1>10, <1>11 DEF Check

-----------------------------------------------------------------------------
(* The activity feed.                                                        *)

(* What the time stamp has passed was posted, and so was what a poll starts after *)
(* or has come past without a failure: it is about to write the time stamp.       *)
Posted ==
  /\ \A e \in Activities : since < e /\ e <= row.stamp => e \in posts
  /\ \A p \in Pollers : poll[p].pc \in {"feed", "post"} =>
       \A e \in Activities : since < e /\ e <= poll[p].base => e \in posts
  /\ \A p \in Pollers : poll[p].pc = "post" /\ ~poll[p].failed =>
       \A e \in Activities : poll[p].base < e /\ e < poll[p].next => e \in posts

(* Without a manual check, a failure or a poll cut off there is one poll, which starts *)
(* after the time stamp, and nothing behind that, or behind where it is, was posted.   *)
NotAgain ==
  met \cap {"manual", "unsent", "cut"} = {} =>
    /\ "repeated" \notin met /\ ~Active("check") /\ (Active("loop") => Live)
    /\ poll["loop"].pc \in {"feed", "post"} => poll["loop"].base = row.stamp
    /\ poll["loop"].pc = "post" => ~poll["loop"].failed
    /\ \A e \in posts : IF poll["loop"].pc = "post" THEN e < poll["loop"].next ELSE e <= row.stamp

News == Posted /\ NotAgain

LEMMA NewsInit == Init => News
  <1> SUFFICES ASSUME Init PROVE News
    OBVIOUS
  <1>1. \A p \in Pollers : poll[p].pc = "idle"
    BY DEF Init, Idle
  <1>2. row.stamp = 0 /\ since = 0 /\ met = {} /\ posts = {}
    BY DEF Init
  <1>3. Posted
    BY <1>1, <1>2 DEF Posted, Activities
  <1>4. NotAgain
    BY <1>1, <1>2 DEF NotAgain, Active, Pollers
  <1> QED
    BY <1>3, <1>4 DEF News

(* A poll that is not at the feed has no part in this. *)
LEMMA NewsElsewhere ==
  ASSUME Typed, News, NEW p \in Pollers, Active(p), poll[p].pc # "post",
         UNCHANGED <<posts, since>>, row'.stamp = row.stamp, row'.state = row.state,
         poll'[p].pc \in {"idle", "roster", "batch"}, \A q \in Pollers : q # p => poll'[q] = poll[q],
         met \subseteq met', "repeated" \in met' => "repeated" \in met
  PROVE  News'
  <1>1. Posted'
    BY DEF News, Posted
  <1>2. NotAgain'
    <2>1. SUFFICES ASSUME met' \cap {"manual", "unsent", "cut"} = {} PROVE NotAgain'
      BY DEF NotAgain
    <2>2. met \cap {"manual", "unsent", "cut"} = {}
      BY <2>1
    <2>3. p = "loop" /\ Live' /\ poll'["check"] = poll["check"]
      BY <2>2 DEF News, NotAgain, Pollers, Live
    <2> QED
      BY <2>2, <2>3 DEF News, NotAgain, Active
  <1> QED
    BY <1>1, <1>2 DEF News

LEMMA NewsPost ==
  ASSUME Typed, News, NEW p \in Pollers, Post(p)
  PROVE  News'
  <1>1. poll[p].pc = "post" /\ poll[p] \in [pc : {"post"}, base : Nat, top : Nat, next : Nat, failed : BOOLEAN]
        /\ poll[p].base < poll[p].next /\ poll[p].next <= poll[p].top /\ poll[p].top <= feed
    BY DEF Typed, PollerTyped, Post, Going
  <1>2. PICK ok \in BOOLEAN :
          LET e == poll[p].next
              q == [poll[p] EXCEPT !.next = e + 1, !.failed = @ \/ ~ok]
          IN /\ IF ok THEN posts' = posts \cup {e} /\ Met("repeated", e \in posts) /\ UNCHANGED events
                      ELSE Event("fault") /\ Met("unsent", TRUE) /\ UNCHANGED posts
             /\ IF e < q.top THEN Goes(p, q) /\ UNCHANGED row
                             ELSE Goes(p, ToRoster) /\ row' = Stamp(q)
    BY DEF Post
  <1> DEFINE e == poll[p].next
             q == [poll[p] EXCEPT !.next = e + 1, !.failed = @ \/ ~ok]
  <1>3. q.pc = "post" /\ q.base = poll[p].base /\ q.top = poll[p].top /\ q.next = e + 1
        /\ (~q.failed <=> ~poll[p].failed /\ ok)
    BY <1>1
  <1>4. (e < q.top /\ Goes(p, q) /\ UNCHANGED row) \/ (e = q.top /\ Goes(p, ToRoster) /\ row' = Stamp(q))
    BY <1>1, <1>2, <1>3
  <1>5. (ok /\ posts' = posts \cup {e} /\ Met("repeated", e \in posts)) \/ (~ok /\ posts' = posts /\ Met("unsent", TRUE))
    BY <1>2
  <1>6. /\ since' = since /\ since \in Nat /\ posts \subseteq posts' /\ posts \subseteq Nat
        /\ row \in [state : {"none", "live", "gone"}, enabled : BOOLEAN, stamp : Nat, offset : Nat, batch : Nat]
    <2>1. since' = since /\ since \in {0, 1}
          /\ row \in [state : {"none", "live", "gone"}, enabled : BOOLEAN, stamp : Nat, offset : Nat, batch : Nat]
      BY DEF Post, Typed
    <2>2. posts \subseteq Nat
      BY DEF Typed
    <2>3. posts \subseteq posts'
      BY <1>5
    <2>4. since \in Nat
      BY <2>1
    <2> QED
      BY <2>1, <2>2, <2>3, <2>4
  <1> HIDE DEF q
  <1>7. (~q.failed => \A x \in Activities : q.base < x /\ x <= e => x \in posts')
        /\ (\A x \in Activities : since < x /\ x <= q.base => x \in posts')
    <2>1. \A x \in Activities : since < x /\ x <= q.base => x \in posts'
      BY <1>1, <1>3, <1>6 DEF News, Posted
    <2>2. ASSUME ~q.failed, NEW x \in Activities, q.base < x, x <= e PROVE x \in posts'
      <3>1. CASE x = e
        BY <1>3, <1>5, <2>2, <3>1
      <3>2. CASE x < e
        BY <1>1, <1>3, <1>6, <2>2, <3>2 DEF News, Posted
      <3> QED
        BY <1>1, <2>2, <3>1, <3>2 DEF Activities
    <2> QED
      BY <2>1, <2>2
  <1>8. Posted'
    <2>1. CASE e < q.top /\ Goes(p, q) /\ UNCHANGED row
      <3>1. poll'[p] = q /\ \A u \in Pollers : u # p => poll'[u] = poll[u]
        BY <2>1, PollGoes
      <3>2. ~q.failed => \A x \in Activities : q.base < x /\ x < q.next => x \in posts'
        BY <1>1, <1>3, <1>7 DEF Activities
      <3> QED
        BY <1>3, <1>6, <1>7, <2>1, <3>1, <3>2 DEF News, Posted
    <2>2. CASE e = q.top /\ Goes(p, ToRoster) /\ row' = Stamp(q)
      <3>1. poll'[p].pc = "roster" /\ \A u \in Pollers : u # p => poll'[u] = poll[u]
        BY <2>2, PollGoes DEF ToRoster
      <3>2. \A x \in Activities : since < x /\ x <= row'.stamp => x \in posts'
        <4>1. CASE row' = row
          BY <1>6, <4>1 DEF News, Posted
        <4>2. CASE ~q.failed /\ row'.stamp = q.top
          BY <1>1, <1>3, <1>7, <2>2, <4>2 DEF Activities
        <4> QED
          BY <1>6, <2>2, <4>1, <4>2 DEF Stamp
      <3> QED
        BY <1>6, <3>1, <3>2 DEF News, Posted
    <2> QED
      BY <1>4, <2>1, <2>2
  <1>9. NotAgain'
    <2>1. SUFFICES ASSUME met' \cap {"manual", "unsent", "cut"} = {} PROVE NotAgain'
      BY DEF NotAgain
    <2>2. ok /\ posts' = posts \cup {e} /\ met' = (IF e \in posts THEN met \cup {"repeated"} ELSE met)
      BY <1>5, <2>1 DEF Met
    <2>3. met \cap {"manual", "unsent", "cut"} = {}
      BY <2>1, <2>2
    <2>4. p = "loop" /\ Live /\ ~poll[p].failed /\ poll[p].base = row.stamp /\ \A x \in posts : x < e
      BY <1>1, <2>3 DEF News, NotAgain, Active, Pollers
    <2>5. e \notin posts
      BY <1>1, <1>6, <2>4
    <2>6. "repeated" \notin met' /\ ~q.failed
      BY <1>3, <2>2, <2>3, <2>4, <2>5 DEF News, NotAgain
    <2>7. \A x \in posts' : x <= e
      BY <1>1, <1>6, <2>2, <2>4
    <2>8. \A u \in Pollers : u # p => poll'[u] = poll[u]
      BY <1>4, PollGoes
    <2>9. ~Active("check")'
      BY <2>3, <2>4, <2>8 DEF News, NotAgain, Active, Pollers
    <2>10. CASE e < q.top /\ Goes(p, q) /\ UNCHANGED row
      <3>1. poll'["loop"] = q
        BY <2>4, <2>10, PollGoes
      <3>2. \A x \in posts' : x < q.next
        BY <1>1, <1>3, <1>6, <2>2, <2>4
      <3> QED
        BY <1>3, <2>4, <2>6, <2>9, <2>10, <3>1, <3>2 DEF NotAgain, Live
    <2>11. CASE e = q.top /\ Goes(p, ToRoster) /\ row' = Stamp(q)
      <3>1. poll'["loop"].pc = "roster"
        BY <2>4, <2>11, PollGoes DEF ToRoster
      <3>2. row'.stamp = e /\ Live'
        BY <1>6, <2>4, <2>6, <2>11 DEF Stamp, Live
      <3> QED
        BY <2>6, <2>7, <2>9, <3>1, <3>2 DEF NotAgain
    <2> QED
      BY <1>4, <2>10, <2>11
  <1> QED
    BY <1>8, <1>9 DEF News

LEMMA NewsStep == Typed /\ News /\ [Next]_vars => News'
  <1> SUFFICES ASSUME Typed, News, [Next]_vars PROVE News'
    OBVIOUS
  <1>0. met \subseteq met' /\ row.stamp \in Nat /\ since \in Nat /\ row.stamp <= feed /\ feed \in Nat /\ posts \subseteq Nat
    BY MetGrows, NumbersType DEF Typed
  <1>1. ASSUME NEW batch, NEW stamp \in {0, feed}, Track(stamp, batch) PROVE News'
    <2>1. posts' = {} /\ since' = stamp /\ row'.stamp = stamp /\ UNCHANGED <<poll, met>> /\ \A p \in Pollers : poll[p].pc = "idle"
      BY <1>1 DEF Track, Typed
    <2>2. stamp \in Nat
      BY <1>0
    <2>3. Posted'
      BY <2>1, <2>2, <1>0 DEF Posted, Activities
    <2>4. NotAgain'
      BY <2>1 DEF News, NotAgain, Active, Pollers
    <2> QED
      BY <2>3, <2>4 DEF News
  <1>2. CASE (\E batch \in CommandBatches : Setup(batch)) \/ (\E batch \in WebBatches : WebCreate(batch))
    BY <1>1, <1>2 DEF Setup, WebCreate
  <1>3. CASE SetEnabled
    BY <1>3 DEF SetEnabled, News, Posted, NotAgain, Active, Live, Typed, history
  <1>4. CASE Untrack \/ WebDelete
    <2>1. UNCHANGED <<poll, posts, since>> /\ row'.stamp = row.stamp
      BY <1>4 DEF Untrack, WebDelete, Typed
    <2>2. Polling => "cut" \in met'
      BY <1>4 DEF Untrack, WebDelete, Met
    <2>3. ~Polling => met' = met /\ \A p \in Pollers : poll[p].pc = "idle"
      BY <1>4 DEF Untrack, WebDelete, Met, Polling
    <2>4. Posted'
      BY <2>1 DEF News, Posted
    <2>5. NotAgain'
      BY <2>1, <2>2, <2>3 DEF News, NotAgain, Active, Pollers
    <2> QED
      BY <2>4, <2>5 DEF News
  <1>5. CASE Restart
    <2>1. UNCHANGED <<row, posts, since>> /\ "cut" \in met' /\ \A p \in Pollers : poll'[p].pc = "idle"
      BY <1>5 DEF Restart, Met, Idle
    <2> QED
      BY <2>1 DEF News, Posted, NotAgain
  <1>6. CASE Happens \/ (\E m \in Mounts : Earn(m)) \/ (\E c \in Chars : JoinOrLeave(c)) \/ UNCHANGED vars
    <2>1. UNCHANGED <<row, posts, since, met, poll>>
      BY <1>6 DEF Happens, Earn, JoinOrLeave, vars, history
    <2> QED
      BY <2>1 DEF News, Posted, NotAgain, Active, Live
  <1>7. ASSUME NEW p \in Pollers, Begin(p) PROVE News'
    <2> DEFINE r == [pc |-> "feed", base |-> IF p = "check" THEN 0 ELSE row.stamp]
    <2>1. Goes(p, r) /\ poll[p].pc = "idle" /\ Live /\ UNCHANGED <<row, posts, since>>
      BY <1>7 DEF Begin
    <2>2. poll'[p] = r /\ \A q \in Pollers : q # p => poll'[q] = poll[q]
      BY <2>1, PollGoes
    <2>3. met' = met \cup (IF p = "check" THEN {"manual"} ELSE {}) \cup (IF Polling THEN {"beside"} ELSE {})
      BY <1>7 DEF Begin
    <2>4. Posted'
      BY <1>0, <2>1, <2>2 DEF News, Posted, Activities
    <2>5. NotAgain'
      <3>1. SUFFICES ASSUME met' \cap {"manual", "unsent", "cut"} = {} PROVE NotAgain'
        BY DEF NotAgain
      <3>2. p = "loop" /\ met \cap {"manual", "unsent", "cut"} = {} /\ Live' /\ ("repeated" \in met' => "repeated" \in met)
        BY <2>1, <2>3, <3>1 DEF Pollers, Live
      <3>3. poll'["loop"].pc = "feed" /\ poll'["loop"].base = row.stamp /\ poll'["check"] = poll["check"]
        BY <2>2, <3>2 DEF Pollers
      <3> QED
        BY <2>1, <3>2, <3>3 DEF News, NotAgain, Active
    <2> QED
      BY <2>4, <2>5 DEF News
  <1>8. ASSUME NEW p \in Pollers, Fetch(p) PROVE News'
    <2>1. poll[p].pc = "feed" /\ UNCHANGED <<row, posts, since, met>> /\ poll[p].base \in Nat
      BY <1>8 DEF Fetch, history, Typed, PollerTyped, Going
    <2>2. CASE Goes(p, ToRoster)
      <3>1. poll'[p].pc = "roster" /\ \A q \in Pollers : q # p => poll'[q] = poll[q]
        BY <2>2, PollGoes DEF ToRoster
      <3> QED
        BY <2>1, <3>1, NewsElsewhere DEF Active
    <2> DEFINE r == [pc |-> "post", base |-> poll[p].base, top |-> feed, next |-> poll[p].base + 1, failed |-> FALSE]
    <2>3. CASE Goes(p, r)
      <3>1. poll'[p] = r /\ \A q \in Pollers : q # p => poll'[q] = poll[q]
        BY <2>3, PollGoes
      <3>2. Posted'
        BY <2>1, <3>1 DEF News, Posted, Activities
      <3>3. NotAgain'
        <4>1. SUFFICES ASSUME met \cap {"manual", "unsent", "cut"} = {} PROVE NotAgain'
          BY <2>1 DEF NotAgain
        <4>2. p = "loop" /\ Live' /\ poll'["check"] = poll["check"] /\ poll["loop"].base = row.stamp
          BY <2>1, <3>1, <4>1 DEF News, NotAgain, Active, Pollers, Live
        <4>3. \A e \in posts : e < poll'["loop"].next
          BY <1>0, <2>1, <3>1, <4>1, <4>2 DEF News, NotAgain
        <4> QED
          BY <2>1, <3>1, <4>1, <4>2, <4>3 DEF News, NotAgain, Active
      <3> QED
        BY <3>2, <3>3 DEF News
    <2> QED
      BY <1>8, <2>2, <2>3 DEF Fetch
  <1>9. ASSUME NEW p \in Pollers, FetchFails(p) \/ RosterFails(p) \/ Roster(p) \/ BatchDone(p) PROVE News'
    <2>1. Active(p) /\ poll[p].pc # "post" /\ UNCHANGED <<posts, since>>
      BY <1>9 DEF FetchFails, RosterFails, Roster, BatchDone, Active, history
    <2>2. row'.stamp = row.stamp /\ row'.state = row.state
      <3>1. \A x : [row EXCEPT !.offset = x].stamp = row.stamp /\ [row EXCEPT !.offset = x].state = row.state
        BY DEF Typed
      <3>2. row' = row \/ \E x : row' = [row EXCEPT !.offset = x]
        BY <1>9 DEF FetchFails, RosterFails, Roster, BatchDone
      <3> QED
        BY <3>1, <3>2
    <2>3. \E r : Goes(p, r) /\ r.pc \in {"idle", "roster", "batch"}
      <3>1. CASE FetchFails(p) \/ RosterFails(p)
        BY <3>1 DEF FetchFails, RosterFails, Idle, ToRoster
      <3>2. CASE Roster(p)
        BY <3>2 DEF Roster, Idle
      <3>3. CASE BatchDone(p)
        <4>1. poll[p] \in Batches
          BY <3>3 DEF BatchDone, Typed, PollerTyped, Going
        <4>2. \A x, y, z : [poll[p] EXCEPT !.off = x, !.start = y, !.newly = z].pc = "batch"
          BY <4>1 DEF Batches
        <4>3. Goes(p, Idle) \/ \E x, y, z : Goes(p, [poll[p] EXCEPT !.off = x, !.start = y, !.newly = z])
          BY <3>3 DEF BatchDone
        <4>4. Idle.pc = "idle"
          BY DEF Idle
        <4>5. CASE Goes(p, Idle)
          BY <4>4, <4>5
        <4>6. ASSUME NEW x, NEW y, NEW z, Goes(p, [poll[p] EXCEPT !.off = x, !.start = y, !.newly = z])
              PROVE  \E r : Goes(p, r) /\ r.pc \in {"idle", "roster", "batch"}
          <5> DEFINE r == [poll[p] EXCEPT !.off = x, !.start = y, !.newly = z]
          <5>1. Goes(p, r) /\ r.pc = "batch"
            BY <4>2, <4>6
          <5> HIDE DEF r
          <5> QED
            BY <5>1
        <4> QED
          BY <4>3, <4>5, <4>6
      <3> QED
        BY <1>9, <3>1, <3>2, <3>3
    <2>4. poll'[p].pc \in {"idle", "roster", "batch"} /\ \A q \in Pollers : q # p => poll'[q] = poll[q]
      BY <2>3, PollGoes
    <2>5. "repeated" \in met' => "repeated" \in met
      <3>1. CASE Roster(p)
        BY <3>1 DEF Roster, Met
      <3>2. CASE FetchFails(p) \/ RosterFails(p) \/ BatchDone(p)
        BY <3>2 DEF FetchFails, RosterFails, BatchDone, history
      <3> QED
        BY <1>9, <3>1, <3>2
    <2> QED
      BY <1>0, <2>1, <2>2, <2>4, <2>5, NewsElsewhere
  <1>10. ASSUME NEW p \in Pollers, NEW c \in DOMAIN work[p], Check(p, c) PROVE News'
    <2>1. "repeated" \in met' => "repeated" \in met
      BY <1>10, CheckLeaves
    <2> QED
      BY <1>0, <1>10, <2>1, CheckLeaves, NewsElsewhere DEF Active
  <1>11. ASSUME NEW p \in Pollers, Post(p) PROVE News'
    BY <1>11, NewsPost
  <1> QED
    BY <1>2, <1>3, <1>4, <1>5, <1>6, <1>7, <1>8, <1>9, <1>10, <1>11 DEF Next

(* The time stamp passes no activity of the tracked time that was not posted, and none *)
(* is posted again without a manual check, a failure or a poll cut off.                *)
THEOREM EveryActivityOnce == Spec => []NewsOnce
  <1>1. Init => Typed /\ News
    BY InitType, NewsInit
  <1>2. Typed /\ News /\ [Next]_vars => Typed' /\ News'
    BY NextType, NewsStep
  <1>3. News => NewsOnce
    BY DEF News, Posted, NotAgain, NewsOnce
  <1> QED
    BY <1>1, <1>2, <1>3, PTL DEF Spec

-----------------------------------------------------------------------------
(* Which steps matter to the mounts.                                         *)

Sending(p, c) == c \in DOMAIN work[p] /\ work[p][c].at = "send"

(* A step aside: nothing is told or written, and whoever was sending still is. *)
Aside ==
  /\ UNCHANGED <<known, first, told>> /\ (Live' <=> Live) /\ ("again" \in met' => "again" \in met)
  /\ \A q \in Pollers : \A d \in Chars : (Sending(q, d)' <=> Sending(q, d)) /\ (Sending(q, d) => work'[q][d] = work[q][d])
  /\ \A q \in Pollers : poll'[q].pc = "batch" =>
       \/ Live /\ poll[q].pc # "batch" /\ poll'[q].marked = {}
       \/ /\ poll[q].pc = "batch" /\ poll'[q].marked = poll[q].marked /\ poll'[q].sync = poll[q].sync
          /\ DOMAIN work'[q] \subseteq DOMAIN work[q] \/ (poll[q].sync /\ DOMAIN work[q] = {})

(* A character gets its first row. *)
Baselined(p, c, has) ==
  /\ c \notin DOMAIN known /\ work[p][c].at = "ask" /\ Leaves(p, c) /\ UNCHANGED <<row, told, met>>
  /\ Goes(p, [poll[p] EXCEPT !.newly = TRUE])
  /\ known' = With(known, c, [ids |-> has, count |-> Cardinality(has)]) /\ first' = With(first, c, has)

(* The guild is tracked from now on. *)
Started == told' = {} /\ DOMAIN known' = {} /\ met' = met /\ \A q \in Pollers : poll[q].pc = "idle" /\ poll'[q].pc = "idle"

(* No check is under way where no batch is. *)
LEMMA IdleWork ==
  ASSUME Typed, NEW p \in Pollers, poll[p].pc # "batch"
  PROVE  DOMAIN work[p] = {}
  BY DEF Typed, PollerTyped

LEMMA LeavesAsk ==
  ASSUME Typed, NEW p \in Pollers, NEW c \in DOMAIN work[p], work[p][c].at = "ask", Leaves(p, c)
  PROVE  \A q \in Pollers :
           /\ \A d \in Chars : (Sending(q, d)' <=> Sending(q, d)) /\ (Sending(q, d) => work'[q][d] = work[q][d])
           /\ DOMAIN work'[q] \subseteq DOMAIN work[q]
  <1> SUFFICES ASSUME NEW q \in Pollers
               PROVE  /\ \A d \in Chars : (Sending(q, d)' <=> Sending(q, d)) /\ (Sending(q, d) => work'[q][d] = work[q][d])
                      /\ DOMAIN work'[q] \subseteq DOMAIN work[q]
    OBVIOUS
  <1>1. CASE q # p
    BY <1>1, LeavesIs DEF Sending
  <1>2. CASE q = p
    BY <1>2, LeavesIs DEF Sending
  <1> QED
    BY <1>1, <1>2

(* A step of the feed, or of a poll that ends, is one aside. *)
LEMMA AsideElsewhere ==
  ASSUME Typed, UNCHANGED <<known, first, told, work>>, Live' <=> Live, "again" \in met' => "again" \in met,
         \A q \in Pollers : poll'[q] = poll[q] \/ poll'[q].pc # "batch"
  PROVE  Aside
  BY DEF Aside, Sending

LEMMA RosterIs ==
  ASSUME Typed, NEW p \in Pollers, Roster(p)
  PROVE  Aside \/ "left" \in met'
  <1>1. poll[p].pc = "roster" /\ DOMAIN work[p] = {}
    BY IdleWork DEF Roster
  <1>2. PICK list \in InOrder(roster), stale \in SUBSET (DOMAIN known \ roster) :
          /\ known' = [c \in DOMAIN known \ stale |-> known[c]] /\ Met("left", stale # {})
          /\ IF list = <<>> \/ ~Live
             THEN Goes(p, Idle) /\ UNCHANGED work
             ELSE /\ Goes(p, [pc |-> "batch", list |-> list, off |-> row.offset, start |-> row.offset,
                              sync |-> ~(roster \subseteq DOMAIN known), newly |-> FALSE, limited |-> FALSE,
                              marked |-> {}])
                  /\ Asking(p, InBatch(list, row.offset))
    BY DEF Roster
  <1>3. CASE stale # {}
    BY <1>2, <1>3 DEF Met
  <1>4. CASE stale = {}
    <2>1. UNCHANGED <<row, known, told, first, met>>
      BY <1>2, <1>4 DEF Roster, Met, Typed, Rows
    <2>2. CASE Goes(p, Idle) /\ UNCHANGED work
      <3>1. \A q \in Pollers : poll'[q] = poll[q] \/ poll'[q].pc # "batch"
        BY <2>2, PollGoes DEF Idle
      <3> QED
        BY <2>1, <2>2, <3>1, AsideElsewhere DEF Live
    <2>3. CASE ~(Goes(p, Idle) /\ UNCHANGED work)
      <3> DEFINE r == [pc |-> "batch", list |-> list, off |-> row.offset, start |-> row.offset,
                       sync |-> ~(roster \subseteq DOMAIN known), newly |-> FALSE, limited |-> FALSE, marked |-> {}]
                 b == InBatch(list, row.offset)
      <3>1. Live /\ Goes(p, r) /\ Asking(p, b)
        BY <1>2, <2>3
      <3>2. r.marked = {} /\ work = [q \in Pollers |-> work[q]]
        BY DEF Typed
      <3> HIDE DEF r, b
      <3>3. poll'[p].marked = {} /\ \A q \in Pollers : q # p => poll'[q] = poll[q]
        BY <3>1, <3>2, PollGoes
      <3>4. (\A q \in Pollers : q # p => work'[q] = work[q]) /\ work'[p] = [c \in b |-> [at |-> "ask"]]
        BY <3>1, <3>2 DEF Asking
      <3>5. \A q \in Pollers : \A d \in Chars :
              (Sending(q, d)' <=> Sending(q, d)) /\ (Sending(q, d) => work'[q][d] = work[q][d])
        BY <1>1, <3>4 DEF Sending
      <3>6. \A q \in Pollers : poll'[q].pc = "batch" =>
              \/ Live /\ poll[q].pc # "batch" /\ poll'[q].marked = {}
              \/ /\ poll[q].pc = "batch" /\ poll'[q].marked = poll[q].marked /\ poll'[q].sync = poll[q].sync
                 /\ DOMAIN work'[q] \subseteq DOMAIN work[q] \/ (poll[q].sync /\ DOMAIN work[q] = {})
        BY <1>1, <3>1, <3>3, <3>4
      <3> QED
        BY <2>1, <3>5, <3>6 DEF Aside, Live
    <2> QED
      BY <2>2, <2>3
  <1> QED
    BY <1>3, <1>4

LEMMA BatchDoneIs ==
  ASSUME Typed, NEW p \in Pollers, BatchDone(p)
  PROVE  Aside
  <1> DEFINE n == Len(poll[p].list)
             off == NextOffset(poll[p].off, n)
             round == off = poll[p].start \/ (off = 0 /\ poll[p].start >= n)
             q == [poll[p] EXCEPT !.off = off, !.start = IF round THEN off ELSE @, !.newly = ~round /\ @]
             b == InBatch(poll[p].list, off)
  <1>1. /\ poll[p].pc = "batch" /\ DOMAIN work[p] = {} /\ UNCHANGED <<known, told, first, met>>
        /\ row' = IF Live /\ ~poll[p].limited THEN [row EXCEPT !.offset = off] ELSE row
        /\ (poll[p].sync /\ Goes(p, q) /\ Asking(p, b)) \/ (Goes(p, Idle) /\ UNCHANGED work)
    BY DEF BatchDone, history
  <1>2. q.marked = poll[p].marked /\ q.sync = poll[p].sync /\ poll = [u \in Pollers |-> poll[u]] /\ work = [u \in Pollers |-> work[u]]
    BY <1>1 DEF Typed, PollerTyped, Going, Batches
  <1> HIDE DEF q, b, off
  <1>3. Live' <=> Live
    BY <1>1 DEF Live, Typed
  <1>4. CASE Goes(p, Idle) /\ UNCHANGED work
    <2>1. \A u \in Pollers : poll'[u] = poll[u] \/ poll'[u].pc # "batch"
      BY <1>4, PollGoes DEF Idle
    <2> QED
      BY <1>1, <1>3, <1>4, <2>1, AsideElsewhere
  <1>5. CASE poll[p].sync /\ Goes(p, q) /\ Asking(p, b)
    <2>1. poll'[p] = q /\ \A u \in Pollers : u # p => poll'[u] = poll[u]
      BY <1>5, PollGoes
    <2>2. (\A u \in Pollers : u # p => work'[u] = work[u]) /\ work'[p] = [c \in b |-> [at |-> "ask"]]
      BY <1>2, <1>5 DEF Asking
    <2>3. \A u \in Pollers : \A d \in Chars :
            (Sending(u, d)' <=> Sending(u, d)) /\ (Sending(u, d) => work'[u][d] = work[u][d])
      BY <1>1, <2>2 DEF Sending
    <2>4. \A u \in Pollers : poll'[u].pc = "batch" =>
            \/ Live /\ poll[u].pc # "batch" /\ poll'[u].marked = {}
            \/ /\ poll[u].pc = "batch" /\ poll'[u].marked = poll[u].marked /\ poll'[u].sync = poll[u].sync
               /\ DOMAIN work'[u] \subseteq DOMAIN work[u] \/ (poll[u].sync /\ DOMAIN work[u] = {})
      BY <1>1, <1>2, <1>5, <2>1, <2>2
    <2> QED
      BY <1>1, <1>3, <2>3, <2>4 DEF Aside
  <1> QED
    BY <1>1, <1>4, <1>5

(* An answer that cannot be used, or a refused row: the character is done. *)
LEMMA DropIs ==
  ASSUME Typed, NEW p \in Pollers, NEW c \in DOMAIN work[p], work[p][c].at = "ask", Leaves(p, c),
         UNCHANGED <<row, known, first, told, met>>,
         poll' = poll \/ Goes(p, [poll[p] EXCEPT !.limited = TRUE])
  PROVE  Aside
  <1>1. poll[p] \in Batches /\ poll[p].pc = "batch"
    BY DEF Typed, PollerTyped, Going, Batches
  <1>2. [poll[p] EXCEPT !.limited = TRUE].marked = poll[p].marked /\ [poll[p] EXCEPT !.limited = TRUE].sync = poll[p].sync
    BY <1>1 DEF Batches
  <1>3. poll'[p].marked = poll[p].marked /\ poll'[p].sync = poll[p].sync /\ \A q \in Pollers : q # p => poll'[q] = poll[q]
    BY <1>2, PollGoes
  <1>4. \A q \in Pollers :
           /\ \A d \in Chars : (Sending(q, d)' <=> Sending(q, d)) /\ (Sending(q, d) => work'[q][d] = work[q][d])
           /\ DOMAIN work'[q] \subseteq DOMAIN work[q]
    BY LeavesAsk
  <1>5. \A q \in Pollers : poll'[q].pc = "batch" =>
          poll[q].pc = "batch" /\ poll'[q].marked = poll[q].marked /\ poll'[q].sync = poll[q].sync
    BY <1>1, <1>3
  <1> QED
    BY <1>4, <1>5 DEF Aside, Live

LEMMA StepIs ==
  ASSUME Typed, [Next]_vars
  PROVE  \/ Aside \/ "left" \in met' \/ Started \/ Untrack \/ Restart
         \/ \E p \in Pollers : \E c \in DOMAIN work[p] :
              (\E has \in SUBSET owned : Baselined(p, c, has)) \/ Compare(p, c) \/ Send(p, c)
  <1>1. ASSUME NEW batch, NEW stamp, Track(stamp, batch) PROVE Started
    BY <1>1 DEF Track, Started, Typed
  <1>2. CASE (\E batch \in CommandBatches : Setup(batch)) \/ (\E batch \in WebBatches : WebCreate(batch))
    BY <1>1, <1>2 DEF Setup, WebCreate
  <1>3. CASE SetEnabled \/ Happens \/ (\E m \in Mounts : Earn(m)) \/ (\E c \in Chars : JoinOrLeave(c)) \/ UNCHANGED vars
    <2>1. UNCHANGED <<known, first, told, work, met, poll>> /\ (Live' <=> Live)
      <3>1. CASE SetEnabled
        BY <3>1 DEF SetEnabled, Live, Typed, history
      <3>2. CASE Happens \/ (\E m \in Mounts : Earn(m)) \/ (\E c \in Chars : JoinOrLeave(c)) \/ UNCHANGED vars
        BY <3>2 DEF Happens, Earn, JoinOrLeave, Live, vars, history
      <3> QED
        BY <1>3, <3>1, <3>2
    <2> QED
      BY <2>1, AsideElsewhere
  <1>4. CASE Untrack \/ WebDelete \/ Restart
    BY <1>4 DEF WebDelete
  <1>5. ASSUME NEW p \in Pollers, Begin(p) \/ Fetch(p) \/ FetchFails(p) \/ Post(p) \/ RosterFails(p) PROVE Aside
    <2>1. UNCHANGED <<known, first, told, work>>
      BY <1>5 DEF Begin, Fetch, FetchFails, Post, RosterFails, history
    <2>2. \E r : Goes(p, r) /\ r.pc # "batch"
      <3>1. CASE Begin(p)
        BY <3>1 DEF Begin
      <3>2. CASE Fetch(p)
        BY <3>2 DEF Fetch, ToRoster
      <3>3. CASE FetchFails(p) \/ RosterFails(p)
        BY <3>3 DEF FetchFails, RosterFails, Idle, ToRoster
      <3>4. CASE Post(p)
        <4>1. poll[p] \in [pc : {"post"}, base : Nat, top : Nat, next : Nat, failed : BOOLEAN]
          BY <3>4 DEF Post, Typed, PollerTyped, Going
        <4>2. Goes(p, ToRoster) \/ \E x, y : Goes(p, [poll[p] EXCEPT !.next = x, !.failed = y])
          BY <3>4 DEF Post
        <4>3. \A x, y : [poll[p] EXCEPT !.next = x, !.failed = y].pc = "post"
          BY <4>1
        <4>4. CASE Goes(p, ToRoster)
          BY <4>4 DEF ToRoster
        <4>5. ASSUME NEW x, NEW y, Goes(p, [poll[p] EXCEPT !.next = x, !.failed = y])
              PROVE  \E r : Goes(p, r) /\ r.pc # "batch"
          <5> DEFINE r == [poll[p] EXCEPT !.next = x, !.failed = y]
          <5>1. Goes(p, r) /\ r.pc = "post"
            BY <4>3, <4>5
          <5> HIDE DEF r
          <5> QED
            BY <5>1
        <4> QED
          BY <4>2, <4>4, <4>5
      <3> QED
        BY <1>5, <3>1, <3>2, <3>3, <3>4
    <2>3. \A q \in Pollers : poll'[q] = poll[q] \/ poll'[q].pc # "batch"
      BY <2>2, PollGoes
    <2>4. Live' <=> Live
      <3>1. \A x : [row EXCEPT !.stamp = x].state = row.state
        BY DEF Typed
      <3>2. row' = row \/ \E x : row' = [row EXCEPT !.stamp = x]
        BY <1>5 DEF Begin, Fetch, FetchFails, Post, RosterFails, Stamp
      <3> QED
        BY <3>1, <3>2 DEF Live
    <2>5. "again" \in met' => "again" \in met
      <3>1. CASE Begin(p)
        BY <3>1 DEF Begin
      <3>2. CASE Fetch(p) \/ FetchFails(p) \/ RosterFails(p)
        BY <3>2 DEF Fetch, FetchFails, RosterFails, history
      <3>3. CASE Post(p)
        BY <3>3 DEF Post, Met
      <3> QED
        BY <1>5, <3>1, <3>2, <3>3
    <2> QED
      BY <2>1, <2>3, <2>4, <2>5, AsideElsewhere
  <1>6. ASSUME NEW p \in Pollers, Roster(p) PROVE Aside \/ "left" \in met'
    BY <1>6, RosterIs
  <1>7. ASSUME NEW p \in Pollers, BatchDone(p) PROVE Aside
    BY <1>7, BatchDoneIs
  <1>8. ASSUME NEW p \in Pollers, NEW c \in DOMAIN work[p], Unusable(p, c) \/ RateLimited(p, c) PROVE Aside
    BY <1>8, DropIs DEF Unusable, RateLimited, At, history
  <1>9. ASSUME NEW p \in Pollers, NEW c \in DOMAIN work[p], Baseline(p, c)
        PROVE  Aside \/ \E has \in SUBSET owned : Baselined(p, c, has)
    <2>1. work[p][c].at = "ask" /\ Leaves(p, c) /\ c \notin DOMAIN known /\ UNCHANGED <<row, told, met>>
      BY <1>9 DEF Baseline, At
    <2>2. CASE Goes(p, [poll[p] EXCEPT !.limited = TRUE]) /\ UNCHANGED <<known, first, events>>
      BY <2>1, <2>2, DropIs
    <2>3. ASSUME NEW has \in Answers, Goes(p, [poll[p] EXCEPT !.newly = TRUE]),
                 known' = With(known, c, [ids |-> has, count |-> Cardinality(has)]), first' = With(first, c, has)
          PROVE  \E x \in SUBSET owned : Baselined(p, c, x)
      <3>1. has \in SUBSET owned
        BY AnswersType
      <3>2. Baselined(p, c, has)
        BY <2>1, <2>3 DEF Baselined
      <3> QED
        BY <3>1, <3>2
    <2> QED
      BY <1>9, <2>2, <2>3 DEF Baseline
  <1>10. ASSUME NEW p \in Pollers, NEW c \in DOMAIN work[p], Renamed(p, c) PROVE "left" \in met'
    BY <1>10 DEF Renamed, Met
  <1>11. ASSUME NEW p \in Pollers, NEW c \in DOMAIN work[p], Check(p, c)
         PROVE  Aside \/ "left" \in met' \/ (\E has \in SUBSET owned : Baselined(p, c, has)) \/ Compare(p, c) \/ Send(p, c)
    BY <1>8, <1>9, <1>10, <1>11 DEF Check
  <1>12. CASE \E p \in Pollers :
                \/ Begin(p) \/ Fetch(p) \/ FetchFails(p) \/ Post(p)
                \/ Roster(p) \/ RosterFails(p) \/ BatchDone(p)
                \/ \E c \in DOMAIN work[p] : Check(p, c)
    BY <1>5, <1>6, <1>7, <1>11, <1>12
  <1> QED
    BY <1>2, <1>3, <1>4, <1>12 DEF Next

(* The other checks go on as they were. *)
OthersSend(p, c) ==
  \A q \in Pollers : \A d \in Chars : q # p \/ d # c =>
    (Sending(q, d)' <=> Sending(q, d)) /\ (Sending(q, d) => work'[q][d] = work[q][d])

LEMMA EndsIs ==
  ASSUME Typed, NEW p \in Pollers, NEW c \in DOMAIN work[p], NEW w, Ends(p, c, w)
  PROVE  /\ poll' = poll /\ OthersSend(p, c) /\ ~Sending(p, c)'
         /\ DOMAIN work'[p] = DOMAIN work[p] \ {c} /\ \A q \in Pollers : q # p => work'[q] = work[q]
         /\ DOMAIN known' = DOMAIN known /\ \A d \in DOMAIN known : d # c => known'[d] = known[d]
         /\ c \in DOMAIN known /\ ~w.bad => known'[c].ids = w.had \cup w.has
         /\ w.bad \/ c \notin DOMAIN known => known' = known
  <1>1. Leaves(p, c) /\ poll' = poll /\ known' = Write(c, w)
    BY DEF Ends
  <1>2. /\ DOMAIN work'[p] = DOMAIN work[p] \ {c} /\ \A q \in Pollers : q # p => work'[q] = work[q]
        /\ \A d \in DOMAIN work'[p] : work'[p][d] = work[p][d]
    BY <1>1, LeavesIs
  <1>3. OthersSend(p, c) /\ ~Sending(p, c)'
    BY <1>2 DEF OthersSend, Sending
  <1>4. Rows(known, owned)
    BY DEF Typed
  <1>5. CASE c \in DOMAIN known /\ ~w.bad
    <2> DEFINE r == [ids |-> w.had \cup w.has, count |-> Cardinality(w.has)]
    <2>1. known' = [known EXCEPT ![c] = r] /\ r.ids = w.had \cup w.has
      BY <1>1, <1>5 DEF Write
    <2> HIDE DEF r
    <2>2. DOMAIN known' = DOMAIN known /\ known'[c] = r /\ \A d \in DOMAIN known : d # c => known'[d] = known[d]
      BY <1>4, <1>5, <2>1 DEF Rows
    <2> QED
      BY <1>1, <1>2, <1>3, <1>5, <2>1, <2>2
  <1>6. CASE w.bad \/ c \notin DOMAIN known
    <2>1. known' = known
      BY <1>1, <1>6 DEF Write
    <2> QED
      BY <1>1, <1>2, <1>3, <1>6, <2>1
  <1> QED
    BY <1>5, <1>6

LEMMA ReportsIs ==
  ASSUME Typed, NEW p \in Pollers, NEW c \in DOMAIN work[p], NEW w \in Sends(owned), NEW m, NEW rest, Reports(p, c, w, m, rest)
  PROVE  /\ known' = known /\ OthersSend(p, c) /\ Sending(p, c)' /\ \A q \in Pollers : DOMAIN work'[q] = DOMAIN work[q]
         /\ work'[p][c].had = w.had /\ work'[p][c].has = w.has /\ work'[p][c].bad = w.bad
         /\ work'[p][c].now = m /\ work'[p][c].new = rest
         /\ m \in w.new /\ rest \subseteq w.new /\ m \notin rest
         /\ \A n \in w.new : n \in rest \/ n = m \/ Passed(p, n)
         /\ poll'[p].marked = poll[p].marked \cup {<<c, m>>} /\ poll'[p].sync = poll[p].sync /\ poll'[p].pc = "batch"
         /\ \A q \in Pollers : q # p => poll'[q] = poll[q]
  <1> DEFINE r == [poll[p] EXCEPT !.marked = @ \cup {<<c, m>>}]
             v == [w EXCEPT !.now = m, !.new = rest]
  <1>1. Goes(p, r) /\ Does(p, c, v) /\ UNCHANGED known /\ m \in w.new /\ rest \subseteq w.new /\ m \notin rest
        /\ \A n \in w.new : n \in rest \/ n = m \/ Passed(p, n)
    BY DEF Reports
  <1>2. r.marked = poll[p].marked \cup {<<c, m>>} /\ r.sync = poll[p].sync /\ r.pc = "batch"
    BY DEF Typed, PollerTyped, Going, Batches
  <1>3. v.at = "send" /\ v.had = w.had /\ v.has = w.has /\ v.bad = w.bad /\ v.now = m /\ v.new = rest
    BY DEF Sends
  <1> HIDE DEF r, v
  <1>4. poll'[p] = r /\ \A q \in Pollers : q # p => poll'[q] = poll[q]
    BY <1>1, PollGoes
  <1>5. /\ DOMAIN work'[p] = DOMAIN work[p] /\ work'[p][c] = v /\ \A d \in DOMAIN work[p] : d # c => work'[p][d] = work[p][d]
        /\ \A q \in Pollers : q # p => work'[q] = work[q]
    <2>1. Does(p, c, v)
      BY <1>1
    <2>2. DOMAIN work'[p] = DOMAIN work[p]
      BY <2>1, DoesIs
    <2>4. work'[p][c] = v
      BY <2>1 DEF Does, Typed, PollerTyped, Checking
    <2>3. \A d \in DOMAIN work[p] : d # c => work'[p][d] = work[p][d]
      BY <2>1, DoesIs
    <2> QED
      BY <2>1, <2>2, <2>4, <2>3, DoesIs
  <1>6. OthersSend(p, c) /\ Sending(p, c)'
    BY <1>3, <1>5 DEF OthersSend, Sending
  <1> QED
    BY <1>1, <1>2, <1>3, <1>4, <1>5, <1>6

(* A comparison begins with what the row lacks, unless the ids churn. *)
LEMMA CompareIs ==
  ASSUME Typed, NEW p \in Pollers, NEW c \in DOMAIN work[p], Compare(p, c)
  PROVE  /\ c \in DOMAIN known /\ c \in Chars /\ work[p][c].at = "ask" /\ UNCHANGED <<row, told, first>>
         /\ "again" \in met' => "again" \in met
         /\ \E w \in Sends(owned) :
              /\ w.had = known[c].ids /\ w.new \subseteq w.has \ w.had /\ ~w.bad
              /\ "churned" \notin met' => w.new = w.has \ w.had
              /\ Ends(p, c, w) \/ \E m, rest : Reports(p, c, w, m, rest)
  <1>1. c \in DOMAIN known /\ work[p][c].at = "ask" /\ UNCHANGED <<row, told, first>> /\ c \in Chars
    BY DEF Compare, At, Typed, PollerTyped, Checking
  <1>2. PICK has \in Answers :
          /\ Met("churned", Churn(known[c].ids, has, known[c].count))
          /\ Onward(p, c, Compared(c, has))
    BY DEF Compare, Compared
  <1> DEFINE w == Compared(c, has)
  <1>3. w \in Sends(owned) /\ w.new \subseteq w.has \ w.had /\ w.new \subseteq Nat
    BY <1>1, ComparedType, NumbersType DEF Sends
  <1>4. w.had = known[c].ids /\ ~w.bad /\ ("churned" \notin met' => w.new = w.has \ w.had)
    BY <1>2 DEF Compared, Met
  <1>5. "again" \in met' => "again" \in met
    BY <1>2 DEF Met
  <1> HIDE DEF w
  <1>6. Ends(p, c, w) \/ \E m, rest : Reports(p, c, w, m, rest)
    BY <1>1, <1>2, <1>3, OnwardIs DEF w
  <1> QED
    BY <1>1, <1>3, <1>4, <1>5, <1>6

(* A send goes on with what is left. *)
LEMMA SendIs ==
  ASSUME Typed, NEW p \in Pollers, NEW c \in DOMAIN work[p], Send(p, c)
  PROVE  /\ Sending(p, c) /\ c \in Chars /\ work[p][c] \in Sends(owned) /\ Fit(work[p][c]) /\ UNCHANGED <<row, first>>
         /\ \E ok \in BOOLEAN : \E w \in Sends(owned) :
              /\ told' = told \cup (IF ok THEN {<<c, work[p][c].now>>} ELSE {})
              /\ "again" \in met' => "again" \in met \/ (ok /\ <<c, work[p][c].now>> \in told)
              /\ ~ok => "unsent" \in met' /\ (poll[p].sync => "lost" \in met')
              /\ w.had = work[p][c].had /\ w.has = work[p][c].has /\ w.new = work[p][c].new
              /\ (w.bad <=> work[p][c].bad \/ ~ok)
              /\ Ends(p, c, w) \/ \E m, rest : Reports(p, c, w, m, rest)
  <1>1. Sending(p, c) /\ c \in Chars /\ work[p][c] \in Sends(owned) /\ Fit(work[p][c]) /\ UNCHANGED <<row, first>>
    BY DEF Send, At, Sending, Typed, PollerTyped, Checking
  <1>2. PICK ok \in BOOLEAN :
          LET sent == IF ok THEN {<<c, work[p][c].now>>} ELSE {}
          IN /\ told' = told \cup sent
             /\ met' = met \cup (IF sent \cap told # {} THEN {"again"} ELSE {}) \cup (IF ok THEN {} ELSE {"unsent"})
                           \cup (IF ~ok /\ poll[p].sync THEN {"lost"} ELSE {})
             /\ Onward(p, c, [work[p][c] EXCEPT !.bad = @ \/ ~ok])
    BY DEF Send
  <1> DEFINE w == [work[p][c] EXCEPT !.bad = @ \/ ~ok]
  <1>3. w \in Sends(owned)
    <2>1. (work[p][c].bad \/ ~ok) \in BOOLEAN
      OBVIOUS
    <2> QED
      BY <1>1, <2>1 DEF Sends
  <1>4. w.had = work[p][c].had /\ w.has = work[p][c].has /\ w.new = work[p][c].new /\ (w.bad <=> work[p][c].bad \/ ~ok)
    BY <1>1 DEF Sends
  <1>5. /\ "again" \in met' => "again" \in met \/ (ok /\ <<c, work[p][c].now>> \in told)
        /\ ~ok => "unsent" \in met' /\ (poll[p].sync => "lost" \in met')
    BY <1>2
  <1> HIDE DEF w
  <1>6. w.new \subseteq Nat
    BY <1>3, NumbersType DEF Sends
  <1>7. Ends(p, c, w) \/ \E m, rest : Reports(p, c, w, m, rest)
    BY <1>1, <1>2, <1>6, OnwardIs DEF w
  <1> QED
    BY <1>1, <1>2, <1>3, <1>4, <1>5, <1>7

(* Without polls beside each other there is at most one; without one cut off, none *)
(* outlives its tracker.                                                           *)
Alone == \A p, q \in Pollers : p = q \/ ~Active(p) \/ ~Active(q)
Guarded == ("beside" \notin met => Alone) /\ ("cut" \notin met => \A p \in Pollers : Active(p) => Live)

LEMMA GuardedInit == Init => Guarded
  BY DEF Init, Guarded, Alone, Active, Idle

LEMMA GuardedStep == Typed /\ Guarded /\ [Next]_vars => Guarded'
  <1> SUFFICES ASSUME Typed, Guarded, [Next]_vars PROVE Guarded'
    OBVIOUS
  <1>0. met \subseteq met'
    BY MetGrows
  <1>1. ASSUME \A q \in Pollers : Active(q)' => Active(q), Live => Live' PROVE Guarded'
    BY <1>0, <1>1 DEF Guarded, Alone
  <1>2. CASE (\E batch \in CommandBatches : Setup(batch)) \/ (\E batch \in WebBatches : WebCreate(batch))
    <2>1. UNCHANGED poll /\ Live'
      BY <1>2 DEF Setup, WebCreate, Track, Live
    <2> QED
      BY <1>1, <2>1 DEF Active
  <1>3. CASE SetEnabled \/ Happens \/ (\E m \in Mounts : Earn(m)) \/ (\E c \in Chars : JoinOrLeave(c)) \/ UNCHANGED vars
    <2>1. UNCHANGED poll /\ (Live => Live')
      <3>1. CASE SetEnabled
        BY <3>1 DEF SetEnabled, Live, Typed, history
      <3>2. CASE Happens \/ (\E m \in Mounts : Earn(m)) \/ (\E c \in Chars : JoinOrLeave(c)) \/ UNCHANGED vars
        BY <3>2 DEF Happens, Earn, JoinOrLeave, Live, vars, history
      <3> QED
        BY <1>3, <3>1, <3>2
    <2> QED
      BY <1>1, <2>1 DEF Active
  <1>4. CASE Untrack \/ WebDelete
    <2>1. UNCHANGED poll /\ (("cut" \in met') \/ ~Polling)
      BY <1>4 DEF Untrack, WebDelete, Met
    <2> QED
      BY <1>0, <2>1 DEF Guarded, Alone, Active, Polling
  <1>5. CASE Restart
    BY <1>5 DEF Restart, Guarded, Alone, Active, Idle
  <1>6. ASSUME NEW p \in Pollers, Begin(p) PROVE Guarded'
    <2> DEFINE r == [pc |-> "feed", base |-> IF p = "check" THEN 0 ELSE row.stamp]
    <2>1. Goes(p, r) /\ Live /\ UNCHANGED row
      BY <1>6 DEF Begin
    <2> HIDE DEF r
    <2>2. \A q \in Pollers : q # p => poll'[q] = poll[q]
      BY <2>1, PollGoes
    <2>3. "beside" \notin met' => \A q \in Pollers : ~Active(q)
      BY <1>6 DEF Begin, Polling, Active
    <2> QED
      BY <2>1, <2>2, <2>3 DEF Guarded, Alone, Active, Live
  <1>7. ASSUME NEW p \in Pollers, Fetch(p) \/ FetchFails(p) \/ Post(p) \/ Roster(p) \/ RosterFails(p) \/ BatchDone(p)
        PROVE  Guarded'
    <2>1. Active(p)
      BY <1>7 DEF Fetch, FetchFails, Post, Roster, RosterFails, BatchDone, Active
    <2>2. \E r : Goes(p, r)
      BY <1>7 DEF Fetch, FetchFails, Post, Roster, RosterFails, BatchDone
    <2>3. \A q \in Pollers : Active(q)' => Active(q)
      BY <2>1, <2>2, PollGoes DEF Active
    <2>4. Live => Live'
      <3>1. \A x : [row EXCEPT !.offset = x].state = row.state /\ [row EXCEPT !.stamp = x].state = row.state
        BY DEF Typed
      <3>2. row' = row \/ (\E x : row' = [row EXCEPT !.offset = x]) \/ (\E x : row' = [row EXCEPT !.stamp = x])
        BY <1>7 DEF Fetch, FetchFails, Post, Roster, RosterFails, BatchDone, Stamp
      <3> QED
        BY <3>1, <3>2 DEF Live
    <2> QED
      BY <1>1, <2>3, <2>4
  <1>8. ASSUME NEW p \in Pollers, NEW c \in DOMAIN work[p], Check(p, c) PROVE Guarded'
    <2>1. poll[p].pc = "batch" /\ UNCHANGED row /\ \A q \in Pollers : q # p => poll'[q] = poll[q]
      BY <1>8, CheckLeaves
    <2>2. \A q \in Pollers : Active(q)' => Active(q)
      BY <2>1 DEF Active
    <2> QED
      BY <1>1, <2>1, <2>2 DEF Live
  <1> QED
    BY <1>2, <1>3, <1>4, <1>5, <1>6, <1>7, <1>8 DEF Next

(* Beside the only poll nobody checks anybody. *)
LEMMA Lonely ==
  ASSUME Typed, Alone, NEW p \in Pollers, NEW c \in DOMAIN work[p]
  PROVE  \A q \in Pollers : q # p => DOMAIN work[q] = {} /\ poll[q].pc = "idle"
  <1>1. Active(p)
    BY DEF Typed, PollerTyped, Active
  <1> QED
    BY <1>1, IdleWork DEF Alone, Active

-----------------------------------------------------------------------------
(* A mount is told once for a character.                                     *)

(* Sent, and about to be written. *)
Sent(p, c, m) == Sending(p, c) /\ m \in work[p][c].has /\ m \notin work[p][c].new /\ m # work[p][c].now

(* What is yet to be sent was not told, and what was told is on record or about to be, *)
(* so that no list of the API makes it new again.                                      *)
OnceEach ==
  met \cap {"beside", "unsent", "cut", "left"} = {} =>
    /\ "again" \notin met
    /\ \A p \in Pollers : \A c \in Chars : Sending(p, c) =>
         /\ c \in DOMAIN known /\ work[p][c].had = known[c].ids /\ ~work[p][c].bad
         /\ \A m \in Mounts : m \in work[p][c].new \/ m = work[p][c].now => <<c, m>> \notin told
    /\ Live => \A c \in Chars : \A m \in Mounts : <<c, m>> \in told =>
         c \in DOMAIN known /\ (m \in known[c].ids \/ \E p \in Pollers : Sent(p, c, m))

LEMMA OnceInit == Init => OnceEach
  <1> SUFFICES ASSUME Init PROVE OnceEach
    OBVIOUS
  <1>1. \A p \in Pollers : DOMAIN work[p] = {}
    BY DEF Init, NoRows
  <1>2. met = {} /\ ~Live
    BY DEF Init, Live
  <1> QED
    BY <1>1, <1>2 DEF OnceEach, Sending

LEMMA OnceAside ==
  ASSUME Typed, OnceEach, Aside, met \subseteq met'
  PROVE  OnceEach'
  <1> SUFFICES ASSUME met' \cap {"beside", "unsent", "cut", "left"} = {} PROVE OnceEach'
    BY DEF OnceEach
  <1>1. met \cap {"beside", "unsent", "cut", "left"} = {} /\ "again" \notin met'
    BY DEF OnceEach, Aside
  <1>2. \A p \in Pollers : \A c \in Chars : (Sending(p, c)' <=> Sending(p, c)) /\ (Sending(p, c) => work'[p][c] = work[p][c])
    BY DEF Aside
  <1>3. UNCHANGED <<known, told>> /\ (Live' <=> Live)
    BY DEF Aside
  <1>4. \A p \in Pollers : \A c \in Chars : \A m : Sent(p, c, m) => Sent(p, c, m)'
    BY <1>2 DEF Sent
  <1>5. \A p \in Pollers : \A c \in Chars : Sending(p, c)' =>
         /\ c \in DOMAIN known /\ work'[p][c].had = known[c].ids /\ ~work'[p][c].bad
         /\ \A m \in Mounts : m \in work'[p][c].new \/ m = work'[p][c].now => <<c, m>> \notin told
    BY <1>1, <1>2 DEF OnceEach
  <1>6. Live => \A c \in Chars : \A m \in Mounts : <<c, m>> \in told =>
         c \in DOMAIN known /\ (m \in known[c].ids \/ \E p \in Pollers : Sent(p, c, m)')
    BY <1>1, <1>4 DEF OnceEach
  <1> QED
    BY <1>1, <1>3, <1>5, <1>6 DEF OnceEach

LEMMA BaselinedPoll ==
  ASSUME Typed, NEW p \in Pollers, NEW c \in DOMAIN work[p], NEW has, Baselined(p, c, has)
  PROVE  \A q \in Pollers : poll'[q].pc = poll[q].pc /\ (poll'[q].pc = "batch" => poll'[q].marked = poll[q].marked /\ poll'[q].sync = poll[q].sync)
  <1> DEFINE r == [poll[p] EXCEPT !.newly = TRUE]
  <1>1. r.pc = poll[p].pc /\ r.marked = poll[p].marked /\ r.sync = poll[p].sync
    BY DEF Typed, PollerTyped, Going, Batches
  <1>2. Goes(p, r)
    BY DEF Baselined
  <1> HIDE DEF r
  <1> QED
    BY <1>1, <1>2, PollGoes

(* No character is checked before there is a tracker. *)
LEMMA StartedWork ==
  ASSUME Typed, [Next]_vars, Started
  PROVE  \A q \in Pollers : DOMAIN work'[q] = {}
  <1>1. Typed'
    BY NextType
  <1> QED
    BY <1>1 DEF Started, Typed, PollerTyped

LEMMA OnceBaselined ==
  ASSUME Typed, Guarded, OnceEach, NEW p \in Pollers, NEW c \in DOMAIN work[p], NEW has \in SUBSET owned, Baselined(p, c, has)
  PROVE  OnceEach'
  <1> SUFFICES ASSUME met \cap {"beside", "unsent", "cut", "left"} = {} PROVE OnceEach'
    BY DEF OnceEach, Baselined
  <1>1. c \in Chars /\ Live /\ c \notin DOMAIN known /\ UNCHANGED <<row, told, met>>
    BY DEF Typed, PollerTyped, Checking, Guarded, Active, Baselined
  <1>2. \A q \in Pollers : \A d \in Chars : (Sending(q, d)' <=> Sending(q, d)) /\ (Sending(q, d) => work'[q][d] = work[q][d])
    BY LeavesAsk DEF Baselined
  <1>3. DOMAIN known' = DOMAIN known \cup {c} /\ \A d \in DOMAIN known : known'[d] = known[d]
    BY <1>1 DEF Baselined, With
  <1>4. \A m \in Mounts : <<c, m>> \notin told
    BY <1>1 DEF OnceEach
  <1>5. \A q \in Pollers : \A d \in Chars : Sending(q, d)' =>
         /\ d \in DOMAIN known' /\ work'[q][d].had = known'[d].ids /\ ~work'[q][d].bad
         /\ \A m \in Mounts : m \in work'[q][d].new \/ m = work'[q][d].now => <<d, m>> \notin told
    BY <1>2, <1>3 DEF OnceEach
  <1>6. \A q \in Pollers : \A d \in Chars : \A m : Sent(q, d, m) => Sent(q, d, m)'
    BY <1>2 DEF Sent
  <1>7. \A d \in Chars : \A m \in Mounts : <<d, m>> \in told =>
         d \in DOMAIN known' /\ (m \in known'[d].ids \/ \E q \in Pollers : Sent(q, d, m)')
    BY <1>1, <1>3, <1>6 DEF OnceEach
  <1> QED
    BY <1>1, <1>5, <1>7 DEF OnceEach

(* A comparison and a send have this in common: what was told of the character is on *)
(* record, or in the answer and behind.                                              *)
LEMMA OnceOnward ==
  ASSUME Typed, Guarded, OnceEach, NEW p \in Pollers, NEW c \in DOMAIN work[p], c \in Chars, Alone,
         met \cap {"beside", "unsent", "cut", "left"} = {}, "again" \notin met', UNCHANGED row,
         c \in DOMAIN known, NEW w \in Sends(owned), w.had = known[c].ids, ~w.bad, w.new \subseteq w.has,
         \A m \in Mounts : m \in w.new => <<c, m>> \notin told',
         \A m \in Mounts : <<c, m>> \in told' => m \in w.had \/ (m \in w.has /\ m \notin w.new),
         \A d \in Chars : \A m \in Mounts : d # c => (<<d, m>> \in told' <=> <<d, m>> \in told),
         Ends(p, c, w) \/ \E m, rest : Reports(p, c, w, m, rest)
  PROVE  OnceEach'
  <1>0. Live /\ Live'
    BY DEF Typed, PollerTyped, Guarded, Active, Live
  <1>1. /\ OthersSend(p, c) /\ DOMAIN known' = DOMAIN known /\ \A d \in DOMAIN known : d # c => known'[d] = known[d]
        /\ \A q \in Pollers : q # p => DOMAIN work'[q] = {}
    <2>1. \A q \in Pollers : q # p => DOMAIN work[q] = {}
      BY Lonely
    <2>2. CASE Ends(p, c, w)
      BY <2>1, <2>2, EndsIs
    <2>3. CASE \E m, rest : Reports(p, c, w, m, rest)
      BY <2>1, <2>3, ReportsIs
    <2> QED
      BY <2>2, <2>3
  <1>2. ASSUME NEW q \in Pollers, NEW d \in Chars, Sending(q, d)', q # p \/ d # c
        PROVE  /\ d \in DOMAIN known' /\ work'[q][d].had = known'[d].ids /\ ~work'[q][d].bad
               /\ \A m \in Mounts : m \in work'[q][d].new \/ m = work'[q][d].now => <<d, m>> \notin told'
    <2>1. q = p /\ d # c /\ Sending(p, d) /\ work'[p][d] = work[p][d]
      BY <1>1, <1>2 DEF OthersSend, Sending
    <2> QED
      BY <1>1, <2>1 DEF OnceEach
  <1>3. ASSUME NEW d \in Chars, d # c, NEW m \in Mounts, <<d, m>> \in told'
        PROVE  d \in DOMAIN known' /\ (m \in known'[d].ids \/ \E q \in Pollers : Sent(q, d, m)')
    <2>1. \A q \in Pollers : Sent(q, d, m) => Sent(q, d, m)'
      BY <1>1, <1>3 DEF OthersSend, Sent
    <2> QED
      BY <1>0, <1>1, <1>3, <2>1 DEF OnceEach
  <1>4. CASE Ends(p, c, w)
    <2>1. ~Sending(p, c)' /\ known'[c].ids = w.had \cup w.has
      BY <1>4, EndsIs
    <2>2. \A m \in Mounts : <<c, m>> \in told' => m \in known'[c].ids
      BY <2>1
    <2> QED
      BY <1>1, <1>2, <1>3, <2>1, <2>2 DEF OnceEach
  <1>5. ASSUME NEW x, NEW rest, Reports(p, c, w, x, rest) PROVE OnceEach'
    <2>1. /\ known' = known /\ Sending(p, c)' /\ work'[p][c].had = w.had /\ work'[p][c].has = w.has /\ ~work'[p][c].bad
          /\ work'[p][c].now = x /\ work'[p][c].new = rest /\ x \in w.new /\ rest \subseteq w.new
      BY <1>5, ReportsIs
    <2>2. \A m \in Mounts : m \in work'[p][c].new \/ m = work'[p][c].now => <<c, m>> \notin told'
      BY <2>1
    <2>3. \A m \in Mounts : <<c, m>> \in told' => m \in known'[c].ids \/ Sent(p, c, m)'
      BY <2>1 DEF Sent
    <2> QED
      BY <1>1, <1>2, <1>3, <2>1, <2>2, <2>3 DEF OnceEach
  <1> QED
    BY <1>4, <1>5

LEMMA OnceStep == Typed /\ Guarded /\ OnceEach /\ [Next]_vars => OnceEach'
  <1> SUFFICES ASSUME Typed, Guarded, OnceEach, [Next]_vars, met' \cap {"beside", "unsent", "cut", "left"} = {} PROVE OnceEach'
    BY DEF OnceEach
  <1>0. met \cap {"beside", "unsent", "cut", "left"} = {} /\ Alone /\ met \subseteq met'
    BY MetGrows DEF Guarded
  <1>1. CASE Aside
    BY <1>0, <1>1, OnceAside
  <1>2. CASE Started
    <2>1. \A q \in Pollers : DOMAIN work'[q] = {}
      BY <1>2, StartedWork
    <2>2. "again" \notin met'
      BY <1>0, <1>2 DEF OnceEach, Started
    <2> QED
      BY <1>2, <2>1, <2>2 DEF OnceEach, Started, Sending
  <1>3. CASE Untrack
    <2>1. ~Polling /\ ~Live' /\ UNCHANGED <<work, met>>
      BY <1>3 DEF Untrack, Met, Live, Typed
    <2>2. \A q \in Pollers : DOMAIN work'[q] = {}
      BY <2>1, IdleWork DEF Polling
    <2> QED
      BY <1>0, <2>1, <2>2 DEF OnceEach, Sending
  <1>4. CASE Restart
    BY <1>4 DEF Restart, Met
  <1>5. ASSUME NEW p \in Pollers, NEW c \in DOMAIN work[p], NEW has \in SUBSET owned, Baselined(p, c, has) PROVE OnceEach'
    BY <1>5, OnceBaselined
  <1>6. ASSUME NEW p \in Pollers, NEW c \in DOMAIN work[p], Compare(p, c) PROVE OnceEach'
    <2>1. c \in DOMAIN known /\ c \in Chars /\ work[p][c].at = "ask" /\ UNCHANGED <<row, told, first>> /\ "again" \notin met'
      BY <1>0, <1>6, CompareIs DEF OnceEach
    <2>2. PICK w \in Sends(owned) :
            /\ w.had = known[c].ids /\ w.new \subseteq w.has \ w.had /\ ~w.bad
            /\ Ends(p, c, w) \/ \E m, rest : Reports(p, c, w, m, rest)
      BY <1>6, CompareIs
    <2>3. Live
      BY <1>0 DEF Typed, PollerTyped, Guarded, Active
    <2>4. \A q \in Pollers : ~Sending(q, c)
      BY <1>0, <2>1, Lonely DEF Sending
    <2>5. \A m \in Mounts : <<c, m>> \in told => m \in w.had
      BY <1>0, <2>1, <2>2, <2>3, <2>4 DEF OnceEach, Sent
    <2>6. \A m \in Mounts : m \in w.new => <<c, m>> \notin told
      BY <2>2, <2>5
    <2> QED
      BY <1>0, <2>1, <2>2, <2>5, <2>6, OnceOnward
  <1>7. ASSUME NEW p \in Pollers, NEW c \in DOMAIN work[p], Send(p, c) PROVE OnceEach'
    <2> DEFINE v == work[p][c]
    <2>1. Sending(p, c) /\ c \in Chars /\ v \in Sends(owned) /\ Fit(v) /\ UNCHANGED <<row, first>>
      BY <1>7, SendIs
    <2>2. PICK ok \in BOOLEAN, w \in Sends(owned) :
            /\ told' = told \cup (IF ok THEN {<<c, v.now>>} ELSE {})
            /\ "again" \in met' => "again" \in met \/ (ok /\ <<c, v.now>> \in told)
            /\ ~ok => "unsent" \in met'
            /\ w.had = v.had /\ w.has = v.has /\ w.new = v.new /\ (w.bad <=> v.bad \/ ~ok)
            /\ Ends(p, c, w) \/ \E m, rest : Reports(p, c, w, m, rest)
      BY <1>7, SendIs
    <2>3. ok /\ told' = told \cup {<<c, v.now>>}
      BY <2>2
    <2>4. v.now \in Mounts /\ v.now \in v.has /\ v.now \notin v.new /\ v.new \subseteq v.has
      BY <2>1, NumbersType DEF Sends, Fit
    <2>5. /\ c \in DOMAIN known /\ v.had = known[c].ids /\ ~v.bad
          /\ \A m \in Mounts : m \in v.new \/ m = v.now => <<c, m>> \notin told
      BY <1>0, <2>1 DEF OnceEach
    <2>6. "again" \notin met' /\ ~w.bad
      BY <1>0, <2>2, <2>3, <2>4, <2>5 DEF OnceEach
    <2>7. \A m \in Mounts : m \in w.new => <<c, m>> \notin told'
      BY <2>2, <2>3, <2>4, <2>5
    <2>8. Live
      BY <1>0 DEF Typed, PollerTyped, Guarded, Active
    <2>9. \A m \in Mounts : <<c, m>> \in told' => m \in w.had \/ (m \in w.has /\ m \notin w.new)
      <3>1. \A q \in Pollers : q # p => ~Sending(q, c)
        BY <1>0, Lonely DEF Sending
      <3>2. ASSUME NEW m \in Mounts, <<c, m>> \in told PROVE m \in v.had \/ (m \in v.has /\ m \notin v.new)
        BY <1>0, <2>1, <2>5, <2>8, <3>1, <3>2 DEF OnceEach, Sent
      <3> QED
        BY <2>2, <2>3, <2>4, <3>2
    <2>10. \A d \in Chars : \A m \in Mounts : d # c => (<<d, m>> \in told' <=> <<d, m>> \in told)
      BY <2>3
    <2> HIDE DEF v
    <2> QED
      BY <1>0, <2>1, <2>2, <2>4, <2>5, <2>6, <2>7, <2>9, <2>10, OnceOnward
  <1> QED
    BY <1>1, <1>2, <1>3, <1>4, <1>5, <1>6, <1>7, StepIs

(* However the lists of the API vary, a mount is announced once for a character, as long *)
(* as polls do not run beside each other, every post is sent and no row is lost.         *)
THEOREM EachMountOnce == Spec => []CharacterToldOnce
  <1>1. Init => Typed /\ Guarded /\ OnceEach
    BY InitType, GuardedInit, OnceInit
  <1>2. Typed /\ Guarded /\ OnceEach /\ [Next]_vars => Typed' /\ Guarded' /\ OnceEach'
    BY NextType, GuardedStep, OnceStep
  <1>3. OnceEach => CharacterToldOnce
    BY DEF OnceEach, CharacterToldOnce
  <1> QED
    BY <1>1, <1>2, <1>3, PTL DEF Spec

-----------------------------------------------------------------------------
(* No mount on record is left untold.                                        *)

Told(m) == \E d \in Chars : <<d, m>> \in told
Heard(m) == Told(m) \/ \E p \in Pollers : \E d \in Chars : Sending(p, d) /\ work[p][d].now = m
Lacked(m) == \E d \in DOMAIN known : m \notin known[d].ids
Later(c, m) == m \in known[c].ids /\ m \notin first[c]
Mark(p, d, m) == <<d, m>> \in poll[p].marked

(* As long as every post is sent and no poll is cut off, what some poll counts as *)
(* reported was told or is on its way, whichever poll counts it.                  *)
KeptBeside ==
  met \cap {"lost", "churned", "left", "unsent", "cut"} = {} =>
    /\ \A c \in DOMAIN known : \A m \in Mounts : Later(c, m) => Heard(m)
    /\ \A p \in Pollers : poll[p].pc = "batch" => \A d \in Chars : \A m \in Mounts : Mark(p, d, m) => Heard(m)
    /\ \A p \in Pollers : \A c \in Chars : Sending(p, c) =>
         /\ c \in DOMAIN known
         /\ \A m \in Mounts : /\ m \in work[p][c].had \cup work[p][c].has /\ m \notin first[c]
                             /\ m \notin work[p][c].new /\ m # work[p][c].now
              => Heard(m)

LEMMA BesideInit == Init => KeptBeside
  <1> SUFFICES ASSUME Init PROVE KeptBeside
    OBVIOUS
  <1>1. \A p \in Pollers : DOMAIN work[p] = {} /\ poll[p].pc = "idle"
    BY DEF Init, NoRows, Idle
  <1>2. DOMAIN known = {}
    BY DEF Init, NoRows
  <1> QED
    BY <1>1, <1>2 DEF KeptBeside, Sending

(* What a step that ends no send leaves of what was heard. *)
LEMMA HeardStays ==
  ASSUME told \subseteq told',
         \A q \in Pollers : \A d \in Chars : Sending(q, d) => Sending(q, d)' /\ work'[q][d] = work[q][d]
  PROVE  \A m : (Told(m) => Told(m)') /\ (Heard(m) => Heard(m)')
  BY DEF Told, Heard

LEMMA BesideAside ==
  ASSUME Typed, KeptBeside, Aside, met \subseteq met'
  PROVE  KeptBeside'
  <1> SUFFICES ASSUME met' \cap {"lost", "churned", "left", "unsent", "cut"} = {} PROVE KeptBeside'
    BY DEF KeptBeside
  <1>1. met \cap {"lost", "churned", "left", "unsent", "cut"} = {}
    OBVIOUS
  <1>2. UNCHANGED <<known, first, told>>
        /\ \A q \in Pollers : \A d \in Chars : (Sending(q, d)' <=> Sending(q, d)) /\ (Sending(q, d) => work'[q][d] = work[q][d])
    BY DEF Aside
  <1>3. \A m : Heard(m) => Heard(m)'
    BY <1>2, HeardStays
  <1>4. \A c \in DOMAIN known' : \A m \in Mounts : Later(c, m)' => Heard(m)'
    BY <1>1, <1>2, <1>3 DEF KeptBeside, Later
  <1>5. \A p \in Pollers : poll'[p].pc = "batch" => \A d \in Chars : \A m \in Mounts : Mark(p, d, m)' => Heard(m)'
    BY <1>1, <1>3 DEF KeptBeside, Aside, Mark
  <1>6. \A p \in Pollers : \A c \in Chars : Sending(p, c)' =>
         /\ c \in DOMAIN known'
         /\ \A m \in Mounts : /\ m \in work'[p][c].had \cup work'[p][c].has /\ m \notin first'[c]
                             /\ m \notin work'[p][c].new /\ m # work'[p][c].now
              => Heard(m)'
    BY <1>1, <1>2, <1>3 DEF KeptBeside
  <1> QED
    BY <1>4, <1>5, <1>6 DEF KeptBeside

LEMMA BesideBaselined ==
  ASSUME Typed, KeptBeside, NEW p \in Pollers, NEW c \in DOMAIN work[p], NEW has \in SUBSET owned, Baselined(p, c, has)
  PROVE  KeptBeside'
  <1> SUFFICES ASSUME met \cap {"lost", "churned", "left", "unsent", "cut"} = {} PROVE KeptBeside'
    BY DEF KeptBeside, Baselined
  <1>1. c \in Chars /\ c \notin DOMAIN known /\ UNCHANGED told
    BY DEF Typed, PollerTyped, Checking, Baselined
  <1>2. \A q \in Pollers : \A d \in Chars : (Sending(q, d)' <=> Sending(q, d)) /\ (Sending(q, d) => work'[q][d] = work[q][d])
    BY LeavesAsk DEF Baselined
  <1>3. /\ DOMAIN known' = DOMAIN known \cup {c} /\ \A d \in DOMAIN known : known'[d] = known[d] /\ first'[d] = first[d]
        /\ known'[c].ids = has /\ first'[c] = has
    BY <1>1 DEF Baselined, With, Typed
  <1>4. \A m : Heard(m) => Heard(m)'
    BY <1>1, <1>2, HeardStays
  <1>5. \A d \in DOMAIN known' : \A m \in Mounts : Later(d, m)' => Heard(m)'
    BY <1>3, <1>4 DEF KeptBeside, Later
  <1>6. \A q \in Pollers : poll'[q].pc = "batch" => poll[q].pc = "batch" /\ poll'[q].marked = poll[q].marked
    BY BaselinedPoll
  <1>7. \A q \in Pollers : poll'[q].pc = "batch" => \A d \in Chars : \A m \in Mounts : Mark(q, d, m)' => Heard(m)'
    BY <1>4, <1>6 DEF KeptBeside, Mark
  <1>8. \A q \in Pollers : \A d \in Chars : Sending(q, d)' =>
         /\ d \in DOMAIN known'
         /\ \A m \in Mounts : /\ m \in work'[q][d].had \cup work'[q][d].has /\ m \notin first'[d]
                             /\ m \notin work'[q][d].new /\ m # work'[q][d].now
              => Heard(m)'
    BY <1>2, <1>3, <1>4 DEF KeptBeside
  <1> QED
    BY <1>5, <1>7, <1>8 DEF KeptBeside

(* A comparison and a send: what the check has come past was heard of. *)
LEMMA BesideOnward ==
  ASSUME Typed, KeptBeside, NEW p \in Pollers, NEW c \in DOMAIN work[p], c \in Chars, c \in DOMAIN known,
         met \cap {"lost", "churned", "left", "unsent", "cut"} = {}, UNCHANGED first, told \subseteq told',
         Sending(p, c) => <<c, work[p][c].now>> \in told', NEW w \in Sends(owned), w.had \subseteq owned,
         \A m \in Mounts : m \in w.had \cup w.has /\ m \notin first[c] /\ m \notin w.new => Heard(m) \/ Told(m)',
         Ends(p, c, w) \/ \E m, rest : Reports(p, c, w, m, rest)
  PROVE  KeptBeside'
  <1>1. OthersSend(p, c) /\ DOMAIN known' = DOMAIN known /\ (\A d \in DOMAIN known : d # c => known'[d] = known[d])
        /\ \A q \in Pollers : q # p => poll'[q] = poll[q]
    <2>1. CASE Ends(p, c, w)
      BY <2>1, EndsIs
    <2>2. CASE \E m, rest : Reports(p, c, w, m, rest)
      BY <2>2, ReportsIs
    <2> QED
      BY <2>1, <2>2
  <1>2. ASSUME NEW m, Heard(m) PROVE Heard(m)'
    <2>1. CASE Told(m)
      BY <2>1 DEF Told, Heard
    <2>2. ASSUME NEW q \in Pollers, NEW d \in Chars, Sending(q, d), work[q][d].now = m PROVE Heard(m)'
      <3>1. CASE q = p /\ d = c
        BY <2>2, <3>1 DEF Heard, Told
      <3>2. CASE q # p \/ d # c
        BY <1>1, <2>2, <3>2 DEF OthersSend, Heard
      <3> QED
        BY <3>1, <3>2
    <2> QED
      BY <1>2, <2>1, <2>2 DEF Heard
  <1>3. poll[p].pc = "batch" /\ w.new \subseteq owned /\ w.has \subseteq owned /\ owned \subseteq Mounts
    BY NumbersType DEF Typed, PollerTyped, Sends
  <1>4. \A m \in Mounts : Passed(p, m) => Heard(m)
    BY <1>3 DEF Passed, KeptBeside, Mark
  <1>5. \A m \in Mounts : m \in w.had \cup w.has /\ m \notin first[c] /\ m \notin w.new => Heard(m)'
    BY <1>2 DEF Heard
  <1>6. \A d \in DOMAIN known : d # c => \A m \in Mounts : Later(d, m)' => Heard(m)'
    BY <1>1, <1>2 DEF KeptBeside, Later
  <1>7. \A q \in Pollers : \A d \in Chars : Sending(q, d)' /\ (q # p \/ d # c) =>
         /\ d \in DOMAIN known'
         /\ \A m \in Mounts : /\ m \in work'[q][d].had \cup work'[q][d].has /\ m \notin first'[d]
                             /\ m \notin work'[q][d].new /\ m # work'[q][d].now
              => Heard(m)'
    BY <1>1, <1>2 DEF KeptBeside, OthersSend
  <1>8. \A q \in Pollers : q # p /\ poll'[q].pc = "batch" => \A d \in Chars : \A m \in Mounts : Mark(q, d, m)' => Heard(m)'
    BY <1>1, <1>2 DEF KeptBeside, Mark
  <1>9. CASE Ends(p, c, w)
    <2>1. poll' = poll /\ ~Sending(p, c)' /\ (\A m \in w.new : Passed(p, m))
          /\ (~w.bad => known'[c].ids = w.had \cup w.has) /\ (w.bad => known' = known)
      BY <1>9, EndsIs DEF Ends
    <2>2. \A m \in Mounts : Later(c, m)' => Heard(m)'
      <3>1. CASE w.bad
        BY <1>2, <2>1, <3>1 DEF KeptBeside, Later
      <3>2. CASE ~w.bad
        BY <1>2, <1>4, <1>5, <2>1, <3>2 DEF Later
      <3> QED
        BY <3>1, <3>2
    <2>3. \A d \in Chars : \A m \in Mounts : Mark(p, d, m)' => Heard(m)'
      BY <1>2, <1>3, <2>1 DEF KeptBeside, Mark
    <2> QED
      BY <1>1, <1>6, <1>7, <1>8, <2>1, <2>2, <2>3 DEF KeptBeside
  <1>10. ASSUME NEW x, NEW rest, Reports(p, c, w, x, rest) PROVE KeptBeside'
    <2>1. /\ known' = known /\ Sending(p, c)' /\ work'[p][c].had = w.had /\ work'[p][c].has = w.has
          /\ work'[p][c].now = x /\ work'[p][c].new = rest /\ poll'[p].marked = poll[p].marked \cup {<<c, x>>}
          /\ \A n \in w.new : n \in rest \/ n = x \/ Passed(p, n)
      BY <1>10, ReportsIs
    <2>2. Heard(x)'
      BY <2>1 DEF Heard
    <2>3. \A m \in Mounts : Later(c, m)' => Heard(m)'
      BY <1>2, <2>1 DEF KeptBeside, Later
    <2>4. \A d \in Chars : \A m \in Mounts : Mark(p, d, m)' => Heard(m)'
      BY <1>2, <1>3, <2>1, <2>2 DEF KeptBeside, Mark
    <2>5. \A m \in Mounts : /\ m \in work'[p][c].had \cup work'[p][c].has /\ m \notin first'[c]
                           /\ m \notin work'[p][c].new /\ m # work'[p][c].now
              => Heard(m)'
      BY <1>2, <1>4, <1>5, <2>1
    <2> QED
      BY <1>1, <1>6, <1>7, <1>8, <2>1, <2>3, <2>4, <2>5 DEF KeptBeside
  <1> QED
    BY <1>9, <1>10

LEMMA BesideStep == Typed /\ Guarded /\ KeptBeside /\ [Next]_vars => KeptBeside'
  <1> SUFFICES ASSUME Typed, Guarded, KeptBeside, [Next]_vars, met' \cap {"lost", "churned", "left", "unsent", "cut"} = {} PROVE KeptBeside'
    BY DEF KeptBeside
  <1>0. met \cap {"lost", "churned", "left", "unsent", "cut"} = {} /\ met \subseteq met'
    BY MetGrows
  <1>1. CASE Aside
    BY <1>0, <1>1, BesideAside
  <1>2. CASE Started
    BY <1>2, StartedWork DEF KeptBeside, Started, Sending
  <1>3. CASE Untrack
    <2>1. ~Polling /\ UNCHANGED <<work, poll>> /\ DOMAIN known' = {}
      BY <1>3 DEF Untrack, Met, NoRows
    <2>2. \A q \in Pollers : DOMAIN work'[q] = {} /\ poll'[q].pc = "idle"
      BY <2>1, IdleWork DEF Polling
    <2> QED
      BY <2>1, <2>2 DEF KeptBeside, Sending
  <1>4. CASE Restart
    BY <1>4 DEF Restart, Met
  <1>5. ASSUME NEW p \in Pollers, NEW c \in DOMAIN work[p], NEW has \in SUBSET owned, Baselined(p, c, has) PROVE KeptBeside'
    BY <1>5, BesideBaselined
  <1>6. ASSUME NEW p \in Pollers, NEW c \in DOMAIN work[p], Compare(p, c) PROVE KeptBeside'
    <2>1. c \in DOMAIN known /\ c \in Chars /\ work[p][c].at = "ask" /\ UNCHANGED <<row, told, first>>
      BY <1>6, CompareIs
    <2>2. PICK w \in Sends(owned) :
            /\ w.had = known[c].ids /\ w.new \subseteq w.has \ w.had /\ ~w.bad
            /\ "churned" \notin met' => w.new = w.has \ w.had
            /\ Ends(p, c, w) \/ \E m, rest : Reports(p, c, w, m, rest)
      BY <1>6, CompareIs
    <2>3. w.new = w.has \ w.had /\ w.had \subseteq owned
      BY <2>2 DEF Sends
    <2>4. \A m \in Mounts : m \in w.had \cup w.has /\ m \notin first[c] /\ m \notin w.new => Heard(m)
      BY <1>0, <2>1, <2>2, <2>3 DEF KeptBeside, Later
    <2>5. ~Sending(p, c)
      BY <2>1 DEF Sending
    <2> QED
      BY <1>0, <2>1, <2>2, <2>3, <2>4, <2>5, BesideOnward
  <1>7. ASSUME NEW p \in Pollers, NEW c \in DOMAIN work[p], Send(p, c) PROVE KeptBeside'
    <2> DEFINE v == work[p][c]
    <2>1. Sending(p, c) /\ c \in Chars /\ v \in Sends(owned) /\ Fit(v) /\ UNCHANGED <<row, first>>
      BY <1>7, SendIs
    <2>2. PICK ok \in BOOLEAN, w \in Sends(owned) :
            /\ told' = told \cup (IF ok THEN {<<c, v.now>>} ELSE {})
            /\ ~ok => "unsent" \in met'
            /\ w.had = v.had /\ w.has = v.has /\ w.new = v.new
            /\ Ends(p, c, w) \/ \E m, rest : Reports(p, c, w, m, rest)
      BY <1>7, SendIs
    <2>3. told' = told \cup {<<c, v.now>>}
      BY <2>2
    <2>4. <<c, v.now>> \in told' /\ \A m \in Mounts : m = v.now => Told(m)'
      BY <2>1, <2>3 DEF Told
    <2>5. c \in DOMAIN known /\ \A m \in Mounts : m \in v.had \cup v.has /\ m \notin first[c] /\ m \notin v.new /\ m # v.now => Heard(m)
      BY <1>0, <2>1 DEF KeptBeside
    <2>6. w.had \subseteq owned /\ \A m \in Mounts : m \in w.had \cup w.has /\ m \notin first[c] /\ m \notin w.new => Heard(m) \/ Told(m)'
      BY <2>2, <2>4, <2>5 DEF Sends
    <2>7. told \subseteq told' /\ c \in DOMAIN known
      BY <2>3, <2>5
    <2> QED
      BY <1>0, <2>1, <2>2, <2>4, <2>6, <2>7, BesideOnward
  <1> QED
    BY <1>1, <1>2, <1>3, <1>4, <1>5, <1>6, <1>7, StepIs

(* Of one poll alone: what counts as reported for a character was told, is on its way, *)
(* or was not sent, and then the row of that character will not have it.               *)
Owed(p, d, m) ==
  \/ Told(m)
  \/ Sending(p, d) /\ m \notin work[p][d].had /\ (work[p][d].now = m \/ work[p][d].bad)
  \/ d \notin DOMAIN work[p] /\ ~poll[p].sync /\ (Live => d \in DOMAIN known /\ m \notin known[d].ids)

(* A poll that goes on without its tracker: what is being sent for a row that is gone, *)
(* or passed over in a poll that asks for nobody twice.                                *)
Orphan(p) == ~Live /\ (~poll[p].sync \/ \E d \in Chars : Sending(p, d) /\ d \notin DOMAIN known)

KeptAlone ==
  met \cap {"lost", "churned", "left", "beside"} = {} =>
    /\ \A c \in DOMAIN known : \A m \in Mounts : Later(c, m) => Heard(m) \/ Lacked(m)
    /\ \A p \in Pollers : \A c \in Chars : Sending(p, c) =>
         /\ (c \in DOMAIN known => work[p][c].had = known[c].ids) /\ (Live => c \in DOMAIN known)
         /\ work[p][c].bad => ~poll[p].sync
         /\ \A m \in Mounts : /\ m \in work[p][c].has /\ m \notin work[p][c].had
                             /\ m \notin work[p][c].new /\ m # work[p][c].now
              => Told(m) \/ work[p][c].bad \/ \E d \in Chars : d # c /\ Mark(p, d, m)
    /\ \A p \in Pollers : poll[p].pc = "batch" =>
         /\ \A d \in Chars : \A m \in Mounts : Mark(p, d, m) => Owed(p, d, m)
         /\ Orphan(p) => \A c \in DOMAIN known : c \notin DOMAIN work[p] /\ \A m \in Mounts : ~Later(c, m)

LEMMA AloneInit == Init => KeptAlone
  <1> SUFFICES ASSUME Init PROVE KeptAlone
    OBVIOUS
  <1>1. \A p \in Pollers : DOMAIN work[p] = {} /\ poll[p].pc = "idle"
    BY DEF Init, NoRows, Idle
  <1>2. DOMAIN known = {}
    BY DEF Init, NoRows
  <1> QED
    BY <1>1, <1>2 DEF KeptAlone, Sending

LEMMA AloneAside ==
  ASSUME Typed, Typed', KeptAlone, Aside, met \subseteq met'
  PROVE  KeptAlone'
  <1> SUFFICES ASSUME met' \cap {"lost", "churned", "left", "beside"} = {} PROVE KeptAlone'
    BY DEF KeptAlone
  <1>1. met \cap {"lost", "churned", "left", "beside"} = {}
    OBVIOUS
  <1>2. UNCHANGED <<known, first, told>> /\ (Live' <=> Live)
    BY DEF Aside
  <1>3. \A q \in Pollers : \A d \in Chars : (Sending(q, d)' <=> Sending(q, d)) /\ (Sending(q, d) => work'[q][d] = work[q][d])
    BY DEF Aside
  <1>4. \A m : (Told(m)' <=> Told(m)) /\ (Heard(m) => Heard(m)') /\ (Lacked(m)' <=> Lacked(m))
    <2>1. \A m : Heard(m) => Heard(m)'
      BY <1>2, <1>3, HeardStays
    <2> QED
      BY <1>2, <2>1 DEF Told, Lacked
  <1>5. \A c \in DOMAIN known' : \A m \in Mounts : Later(c, m)' => Heard(m)' \/ Lacked(m)'
    BY <1>1, <1>2, <1>4 DEF KeptAlone, Later
  <1>6. ASSUME NEW q \in Pollers, poll[q].pc = "batch", poll'[q].pc = "batch"
        PROVE  /\ poll'[q].marked = poll[q].marked /\ poll'[q].sync = poll[q].sync
               /\ DOMAIN work'[q] \subseteq DOMAIN work[q] \/ (poll[q].sync /\ DOMAIN work[q] = {})
    BY <1>6 DEF Aside
  <1>7. ASSUME NEW q \in Pollers, NEW c \in Chars, Sending(q, c)
        PROVE  poll[q].pc = "batch" /\ poll'[q].pc = "batch"
    <2>1. Sending(q, c)'
      BY <1>3, <1>7
    <2> QED
      BY <1>7, <2>1 DEF Typed, PollerTyped, Sending
  <1>8. ASSUME NEW q \in Pollers, NEW c \in Chars, Sending(q, c)'
        PROVE  /\ (c \in DOMAIN known' => work'[q][c].had = known'[c].ids) /\ (Live' => c \in DOMAIN known')
               /\ work'[q][c].bad => ~poll'[q].sync
               /\ \A m \in Mounts : /\ m \in work'[q][c].has /\ m \notin work'[q][c].had
                                   /\ m \notin work'[q][c].new /\ m # work'[q][c].now
                    => Told(m)' \/ work'[q][c].bad \/ \E d \in Chars : d # c /\ Mark(q, d, m)'
    <2>1. Sending(q, c) /\ work'[q][c] = work[q][c]
      BY <1>3, <1>8
    <2>2. poll'[q].marked = poll[q].marked /\ poll'[q].sync = poll[q].sync
      BY <1>6, <1>7, <2>1
    <2>3. \A d, m : Mark(q, d, m) => Mark(q, d, m)'
      BY <2>2 DEF Mark
    <2> QED
      BY <1>1, <1>2, <1>4, <2>1, <2>2, <2>3 DEF KeptAlone
  <1>9. ASSUME NEW q \in Pollers, poll'[q].pc = "batch", NEW d \in Chars, NEW m \in Mounts, Mark(q, d, m)'
        PROVE  Owed(q, d, m)'
    <2>1. poll[q].pc = "batch"
      BY <1>9 DEF Aside, Mark
    <2>2. /\ poll'[q].marked = poll[q].marked /\ poll'[q].sync = poll[q].sync
          /\ DOMAIN work'[q] \subseteq DOMAIN work[q] \/ (poll[q].sync /\ DOMAIN work[q] = {})
      BY <1>6, <1>9, <2>1
    <2>3. Owed(q, d, m)
      BY <1>1, <1>9, <2>1, <2>2 DEF KeptAlone, Mark
    <2> QED
      BY <1>2, <1>3, <1>4, <2>2, <2>3 DEF Owed
  <1>10. ASSUME NEW q \in Pollers, poll'[q].pc = "batch", Orphan(q)', NEW c \in DOMAIN known'
         PROVE  c \notin DOMAIN work'[q] /\ \A m \in Mounts : ~Later(c, m)'
    <2>1. ~Live /\ poll[q].pc = "batch"
      BY <1>2, <1>10 DEF Aside, Orphan
    <2>2. /\ poll'[q].sync = poll[q].sync
          /\ DOMAIN work'[q] \subseteq DOMAIN work[q] \/ (poll[q].sync /\ DOMAIN work[q] = {})
      BY <1>6, <1>10, <2>1
    <2>3. ~poll[q].sync \/ \E d \in Chars : Sending(q, d) /\ d \notin DOMAIN known
      BY <1>2, <1>3, <1>10, <2>2 DEF Orphan
    <2>4. Orphan(q) /\ DOMAIN work'[q] \subseteq DOMAIN work[q]
      BY <2>1, <2>2, <2>3 DEF Orphan, Sending
    <2> QED
      BY <1>1, <1>2, <1>10, <2>1, <2>4 DEF KeptAlone, Later
  <1> QED
    BY <1>5, <1>8, <1>9, <1>10 DEF KeptAlone

LEMMA AloneBaselined ==
  ASSUME Typed, Guarded, KeptAlone, NEW p \in Pollers, NEW c \in DOMAIN work[p], NEW has \in SUBSET owned, Baselined(p, c, has)
  PROVE  KeptAlone'
  <1> SUFFICES ASSUME met \cap {"lost", "churned", "left", "beside"} = {} PROVE KeptAlone'
    BY DEF KeptAlone, Baselined
  <1>1. /\ c \in Chars /\ c \notin DOMAIN known /\ UNCHANGED told /\ (Live' <=> Live) /\ work[p][c].at = "ask" /\ Alone
        /\ ~Sending(p, c)
    BY DEF Typed, PollerTyped, Checking, Baselined, Guarded, Live, Sending
  <1>2. \A q \in Pollers : \A d \in Chars : (Sending(q, d)' <=> Sending(q, d)) /\ (Sending(q, d) => work'[q][d] = work[q][d])
    BY LeavesAsk DEF Baselined
  <1>3. /\ DOMAIN known' = DOMAIN known \cup {c} /\ \A d \in DOMAIN known : known'[d] = known[d] /\ first'[d] = first[d]
        /\ known'[c].ids = has /\ first'[c] = has
    BY <1>1 DEF Baselined, With, Typed
  <1>4. \A q \in Pollers : q # p => DOMAIN work[q] = {} /\ poll[q].pc = "idle"
    BY <1>1, Lonely
  <1>5. poll[p].pc = "batch"
        /\ \A q \in Pollers : poll'[q].pc = poll[q].pc /\ (poll'[q].pc = "batch" => poll'[q].marked = poll[q].marked /\ poll'[q].sync = poll[q].sync)
    BY BaselinedPoll DEF Typed, PollerTyped
  <1>6. DOMAIN work'[p] = DOMAIN work[p] \ {c}
    BY LeavesIs DEF Baselined
  <1>7. \A m : (Told(m)' <=> Told(m)) /\ (Heard(m) => Heard(m)') /\ (Lacked(m) => Lacked(m)')
    <2>1. \A m : Heard(m) => Heard(m)'
      BY <1>1, <1>2, HeardStays
    <2> QED
      BY <1>1, <1>3, <2>1 DEF Told, Lacked
  <1>8. \A d \in DOMAIN known' : \A m \in Mounts : Later(d, m)' => Heard(m)' \/ Lacked(m)'
    BY <1>3, <1>7 DEF KeptAlone, Later
  <1>9. ASSUME NEW q \in Pollers, NEW d \in Chars, Sending(q, d)'
        PROVE  /\ (d \in DOMAIN known' => work'[q][d].had = known'[d].ids) /\ (Live' => d \in DOMAIN known')
               /\ work'[q][d].bad => ~poll'[q].sync
               /\ \A m \in Mounts : /\ m \in work'[q][d].has /\ m \notin work'[q][d].had
                                   /\ m \notin work'[q][d].new /\ m # work'[q][d].now
                    => Told(m)' \/ work'[q][d].bad \/ \E e \in Chars : e # d /\ Mark(q, e, m)'
    <2>1. Sending(q, d) /\ work'[q][d] = work[q][d]
      BY <1>2, <1>9
    <2>2. q = p /\ d # c
      BY <1>1, <1>4, <2>1 DEF Sending
    <2>3. poll'[p].marked = poll[p].marked /\ poll'[p].sync = poll[p].sync
      BY <1>5
    <2>4. \A e, m : Mark(p, e, m) => Mark(p, e, m)'
      BY <2>3 DEF Mark
    <2> QED
      BY <1>1, <1>3, <1>7, <2>1, <2>2, <2>3, <2>4 DEF KeptAlone
  <1>10. ASSUME NEW d \in Chars, NEW m \in Mounts, Mark(p, d, m)'
         PROVE  Owed(p, d, m)'
    <2>1. Owed(p, d, m)
      BY <1>5, <1>10 DEF KeptAlone, Mark
    <2>2. poll'[p].sync = poll[p].sync
      BY <1>5
    <2> QED
      BY <1>1, <1>2, <1>3, <1>6, <1>7, <2>1, <2>2 DEF Owed
  <1>11. ASSUME Orphan(p)', NEW d \in DOMAIN known'
         PROVE  d \notin DOMAIN work'[p] /\ \A m \in Mounts : ~Later(d, m)'
    <2>1. Orphan(p)
      BY <1>1, <1>2, <1>3, <1>5, <1>11 DEF Orphan
    <2>2. CASE d = c
      BY <1>3, <1>6, <2>2 DEF Later
    <2>3. CASE d \in DOMAIN known
      BY <1>3, <1>5, <1>6, <2>1, <2>3 DEF KeptAlone, Later
    <2> QED
      BY <1>3, <1>11, <2>2, <2>3
  <1>12. ASSUME NEW q \in Pollers, poll'[q].pc = "batch" PROVE q = p
    BY <1>4, <1>5, <1>12
  <1> QED
    BY <1>8, <1>9, <1>10, <1>11, <1>12 DEF KeptAlone

(* Heard of, or lacked, beside the check of one character. *)
Elsewhere(c, m) ==
  \/ Told(m)
  \/ \E q \in Pollers : \E d \in Chars : d # c /\ Sending(q, d) /\ work[q][d].now = m
  \/ \E d \in DOMAIN known : d # c /\ m \notin known[d].ids

(* What a check has come past because of another character is. *)
LEMMA OthersAccount ==
  ASSUME Typed, KeptAlone, met \cap {"lost", "churned", "left", "beside"} = {},
         NEW p \in Pollers, NEW c \in DOMAIN work[p], c \in DOMAIN known,
         NEW d \in Chars, d # c, NEW m \in Mounts, Mark(p, d, m)
  PROVE  Elsewhere(c, m)
  <1>1. poll[p].pc = "batch"
    BY DEF Typed, PollerTyped
  <1>2. Owed(p, d, m)
    BY <1>1 DEF KeptAlone
  <1>3. ~Orphan(p)
    BY <1>1 DEF KeptAlone
  <1>4. CASE Sending(p, d) /\ m \notin work[p][d].had /\ (work[p][d].now = m \/ work[p][d].bad)
    <2>1. CASE work[p][d].now = m
      BY <1>4, <2>1 DEF Elsewhere
    <2>2. CASE work[p][d].bad
      <3>1. ~poll[p].sync
        BY <1>4, <2>2 DEF KeptAlone
      <3>2. Live
        BY <1>3, <3>1 DEF Orphan
      <3>3. d \in DOMAIN known /\ work[p][d].had = known[d].ids
        BY <1>4, <3>2 DEF KeptAlone
      <3> QED
        BY <1>4, <3>3 DEF Elsewhere
    <2> QED
      BY <1>4, <2>1, <2>2
  <1>5. CASE d \notin DOMAIN work[p] /\ ~poll[p].sync /\ (Live => d \in DOMAIN known /\ m \notin known[d].ids)
    BY <1>3, <1>5 DEF Orphan, Elsewhere
  <1> QED
    BY <1>2, <1>4, <1>5 DEF Owed, Elsewhere

(* A comparison and a send: w is what is left to do of the check. *)
LEMMA AloneOnward ==
  ASSUME Typed, KeptAlone, Alone, met \cap {"lost", "churned", "left", "beside"} = {},
         NEW p \in Pollers, NEW c \in DOMAIN work[p], c \in Chars, UNCHANGED first, Live' <=> Live, told \subseteq told',
         NEW w \in Sends(owned), w.new \subseteq w.has \ w.had,
         c \in DOMAIN known => w.had = known[c].ids, Live => c \in DOMAIN known, c \in DOMAIN known \/ Sending(p, c),
         w.bad => ~poll[p].sync,
         Sending(p, c) => <<c, work[p][c].now>> \in told' \/ (w.bad /\ work[p][c].now \notin w.had),
         \A m \in Mounts : Mark(p, c, m) => Told(m)' \/ (w.bad /\ m \notin w.had),
         \A m \in Mounts : m \in w.has /\ m \notin w.had /\ m \notin w.new =>
           Told(m)' \/ w.bad \/ \E d \in Chars : d # c /\ Mark(p, d, m),
         Ends(p, c, w) \/ \E m, rest : Reports(p, c, w, m, rest)
  PROVE  KeptAlone'
  <1>1. /\ OthersSend(p, c) /\ DOMAIN known' = DOMAIN known /\ \A d \in DOMAIN known : d # c => known'[d] = known[d]
        /\ poll'[p].sync = poll[p].sync /\ DOMAIN work'[p] \subseteq DOMAIN work[p] /\ \A q \in Pollers : q # p => poll'[q] = poll[q]
    <2>1. CASE Ends(p, c, w)
      BY <2>1, EndsIs
    <2>2. CASE \E m, rest : Reports(p, c, w, m, rest)
      BY <2>2, ReportsIs
    <2> QED
      BY <2>1, <2>2
  <1>2. poll[p].pc = "batch" /\ w.new \subseteq Mounts /\ w.has \subseteq Mounts /\ w.had \subseteq Mounts
    BY NumbersType DEF Typed, PollerTyped, Sends
  <1>3. \A q \in Pollers : q # p => DOMAIN work[q] = {} /\ poll[q].pc = "idle"
    BY Lonely
  <1>4. \A m : Told(m) => Told(m)'
    BY DEF Told
  <1>5. \A m \in Mounts : m \in w.new /\ Passed(p, m) => Told(m)' \/ w.bad \/ \E d \in Chars : d # c /\ Mark(p, d, m)
    BY DEF Passed, Mark
  <1>6. ASSUME NEW m, Elsewhere(c, m) PROVE Heard(m)' \/ Lacked(m)'
    <2>1. CASE Told(m)
      BY <1>4, <2>1 DEF Heard
    <2>2. ASSUME NEW q \in Pollers, NEW d \in Chars, d # c, Sending(q, d), work[q][d].now = m PROVE Heard(m)'
      BY <1>1, <2>2 DEF OthersSend, Heard
    <2>3. ASSUME NEW d \in DOMAIN known, d # c, m \notin known[d].ids PROVE Lacked(m)'
      BY <1>1, <2>3 DEF Lacked
    <2> QED
      BY <1>6, <2>1, <2>2, <2>3 DEF Elsewhere
  <1>7. \A q \in Pollers : \A d \in Chars : Sending(q, d)' => q = p
    <2>1. \A q \in Pollers : \A d \in Chars : q # p => ~Sending(q, d)
      BY <1>3 DEF Sending
    <2> QED
      BY <1>1, <2>1 DEF OthersSend
  <1>8. poll[p].marked \subseteq poll'[p].marked /\ poll'[p].marked \subseteq poll[p].marked \cup {<<c, n>> : n \in w.new}
    <2>1. CASE Ends(p, c, w)
      BY <2>1, EndsIs
    <2>2. CASE \E m, rest : Reports(p, c, w, m, rest)
      BY <2>2, ReportsIs
    <2> QED
      BY <2>1, <2>2
  <1>9. ASSUME NEW d \in Chars, d # c, Sending(p, d)'
        PROVE  /\ (d \in DOMAIN known' => work'[p][d].had = known'[d].ids) /\ (Live' => d \in DOMAIN known')
               /\ work'[p][d].bad => ~poll'[p].sync
               /\ \A m \in Mounts : /\ m \in work'[p][d].has /\ m \notin work'[p][d].had
                                   /\ m \notin work'[p][d].new /\ m # work'[p][d].now
                    => Told(m)' \/ work'[p][d].bad \/ \E e \in Chars : e # d /\ Mark(p, e, m)'
    <2>1. Sending(p, d) /\ work'[p][d] = work[p][d]
      BY <1>1, <1>9 DEF OthersSend
    <2>2. \A e, m : Mark(p, e, m) => Mark(p, e, m)'
      BY <1>8 DEF Mark
    <2> QED
      BY <1>1, <1>4, <1>9, <2>1, <2>2 DEF KeptAlone
  <1>10. ASSUME NEW d \in Chars, d # c, NEW m \in Mounts, Mark(p, d, m)' PROVE Owed(p, d, m)'
    <2>1. Mark(p, d, m)
      BY <1>8, <1>10 DEF Mark
    <2>2. Owed(p, d, m)
      BY <1>2, <2>1 DEF KeptAlone
    <2>3. Sending(p, d) => Sending(p, d)' /\ work'[p][d] = work[p][d]
      BY <1>1, <1>10 DEF OthersSend
    <2> QED
      BY <1>1, <1>4, <1>10, <2>2, <2>3 DEF Owed
  <1>11. ASSUME Orphan(p)', NEW d \in DOMAIN known'
         PROVE  d \notin DOMAIN work'[p] /\ \A m \in Mounts : ~Later(d, m)'
    <2>1. Orphan(p)
      <3>1. CASE ~poll[p].sync
        BY <1>11, <3>1 DEF Orphan
      <3>2. ASSUME NEW e \in Chars, Sending(p, e)', e \notin DOMAIN known PROVE Orphan(p)
        BY <1>1, <1>11, <3>2 DEF OthersSend, Orphan
      <3> QED
        BY <1>1, <1>11, <3>1, <3>2 DEF Orphan
    <2>2. c \notin DOMAIN known /\ d # c /\ d \in DOMAIN known
      BY <1>1, <1>2, <1>11, <2>1 DEF KeptAlone
    <2> QED
      BY <1>1, <1>2, <2>1, <2>2 DEF KeptAlone, Later
  <1>12. ASSUME known' = known, NEW d \in DOMAIN known', NEW m \in Mounts, Later(d, m)' PROVE Heard(m)' \/ Lacked(m)'
    <2>1. Later(d, m) /\ d \in DOMAIN known
      BY <1>12 DEF Later
    <2>2. Heard(m) \/ Lacked(m)
      BY <2>1 DEF KeptAlone
    <2>3. CASE Lacked(m)
      BY <1>12, <2>3 DEF Lacked
    <2>4. CASE Told(m)
      BY <1>4, <2>4 DEF Heard
    <2>5. ASSUME NEW q \in Pollers, NEW e \in Chars, Sending(q, e), work[q][e].now = m PROVE Heard(m)' \/ Lacked(m)'
      <3>1. CASE q # p \/ e # c
        BY <1>1, <2>5, <3>1 DEF OthersSend, Heard
      <3>2. CASE q = p /\ e = c /\ <<c, m>> \in told'
        BY <3>2 DEF Heard, Told
      <3>3. CASE q = p /\ e = c /\ w.bad /\ m \notin w.had
        <4>1. c \in DOMAIN known
          <5>1. ~poll[p].sync /\ ~Orphan(p)
            BY <1>2, <2>1, <3>3 DEF KeptAlone
          <5> QED
            BY <5>1 DEF Orphan
        <4> QED
          BY <1>12, <3>3, <4>1 DEF Lacked
      <3> QED
        BY <2>5, <3>1, <3>2, <3>3
    <2> QED
      BY <2>2, <2>3, <2>4, <2>5 DEF Heard
  <1>13. CASE Ends(p, c, w)
    <2>1. /\ poll' = poll /\ ~Sending(p, c)' /\ DOMAIN work'[p] = DOMAIN work[p] \ {c} /\ (\A m \in w.new : Passed(p, m))
          /\ (c \in DOMAIN known /\ ~w.bad => known'[c].ids = w.had \cup w.has) /\ (w.bad \/ c \notin DOMAIN known => known' = known)
      BY <1>13, EndsIs DEF Ends
    <2>2. ASSUME NEW d \in DOMAIN known', NEW m \in Mounts, Later(d, m)' PROVE Heard(m)' \/ Lacked(m)'
      <3>1. CASE w.bad \/ c \notin DOMAIN known
        BY <1>12, <2>1, <2>2, <3>1
      <3>2. CASE ~w.bad /\ c \in DOMAIN known
        <4>1. known'[c].ids = w.had \cup w.has /\ w.had = known[c].ids
          BY <2>1, <3>2
        <4>2. CASE m \in w.has /\ m \notin w.had
          <5>1. Told(m)' \/ \E e \in Chars : e # c /\ Mark(p, e, m)
            BY <1>2, <1>5, <2>1, <3>2, <4>2
          <5> QED
            BY <1>6, <3>2, <5>1, OthersAccount DEF Heard
        <4>3. CASE ~(m \in w.has /\ m \notin w.had)
          <5>1. m \in known'[c].ids <=> m \in known[c].ids
            BY <4>1, <4>3
          <5>2. Later(d, m) /\ d \in DOMAIN known
            BY <1>1, <2>2, <5>1 DEF Later
          <5>3. Heard(m) \/ Lacked(m)
            BY <5>2 DEF KeptAlone
          <5>4. CASE m \notin known[c].ids
            BY <1>1, <3>2, <5>1, <5>4 DEF Lacked
          <5>5. CASE m \in known[c].ids
            <6>1. CASE Lacked(m)
              BY <1>6, <5>5, <6>1 DEF Lacked, Elsewhere
            <6>2. CASE Told(m)
              BY <1>4, <6>2 DEF Heard
            <6>3. ASSUME NEW q \in Pollers, NEW e \in Chars, Sending(q, e), work[q][e].now = m PROVE Heard(m)' \/ Lacked(m)'
              <7>1. CASE e # c
                BY <1>6, <6>3, <7>1 DEF Elsewhere
              <7>2. CASE e = c
                <8>1. q = p
                  BY <1>3, <6>3 DEF Sending
                <8>2. <<c, m>> \in told'
                  BY <3>2, <6>3, <7>2, <8>1
                <8> QED
                  BY <8>2 DEF Heard, Told
              <7> QED
                BY <7>1, <7>2
            <6> QED
              BY <5>3, <6>1, <6>2, <6>3 DEF Heard
          <5> QED
            BY <5>4, <5>5
        <4> QED
          BY <4>2, <4>3
      <3> QED
        BY <3>1, <3>2
    <2>3. ASSUME NEW m \in Mounts, Mark(p, c, m)' PROVE Owed(p, c, m)'
      <3>1. Mark(p, c, m)
        BY <2>1, <2>3 DEF Mark
      <3>2. CASE Told(m)'
        BY <3>2 DEF Owed
      <3>3. CASE w.bad /\ m \notin w.had
        BY <1>1, <2>1, <3>3 DEF Owed
      <3> QED
        BY <3>1, <3>2, <3>3
    <2>4. \A q \in Pollers : poll'[q].pc = "batch" => q = p
      BY <1>3, <2>1
    <2> QED
      BY <1>7, <1>9, <1>10, <1>11, <2>1, <2>2, <2>3, <2>4 DEF KeptAlone
  <1>14. ASSUME NEW x, NEW rest, Reports(p, c, w, x, rest) PROVE KeptAlone'
    <2>1. /\ known' = known /\ Sending(p, c)' /\ work'[p][c].had = w.had /\ work'[p][c].has = w.has /\ work'[p][c].bad = w.bad
          /\ work'[p][c].now = x /\ work'[p][c].new = rest /\ x \in w.new
          /\ poll'[p].marked = poll[p].marked \cup {<<c, x>>}
          /\ \A n \in w.new : n \in rest \/ n = x \/ Passed(p, n)
      BY <1>14, ReportsIs
    <2>2. \A m \in Mounts : m \in w.has /\ m \notin w.had /\ m \notin rest /\ m # x
            => Told(m)' \/ w.bad \/ \E d \in Chars : d # c /\ Mark(p, d, m)'
      <3>1. \A e, m : Mark(p, e, m) => Mark(p, e, m)'
        BY <1>8 DEF Mark
      <3>2. \A m \in Mounts : m \in w.has /\ m \notin w.had /\ m \notin rest /\ m # x
              => Told(m)' \/ w.bad \/ \E d \in Chars : d # c /\ Mark(p, d, m)
        BY <1>5, <2>1
      <3> QED
        BY <3>1, <3>2
    <2>3. ASSUME NEW m \in Mounts, Mark(p, c, m)' PROVE Owed(p, c, m)'
      <3>1. CASE m = x
        BY <2>1, <3>1 DEF Owed
      <3>2. CASE m # x
        <4>1. Mark(p, c, m)
          BY <2>1, <2>3, <3>2 DEF Mark
        <4> QED
          BY <2>1, <4>1 DEF Owed
      <3> QED
        BY <3>1, <3>2
    <2>4. \A q \in Pollers : poll'[q].pc = "batch" => q = p
      BY <1>1, <1>3
    <2>5. (c \in DOMAIN known' => work'[p][c].had = known'[c].ids) /\ (Live' => c \in DOMAIN known') /\ (work'[p][c].bad => ~poll'[p].sync)
      BY <1>1, <2>1
    <2>6. ASSUME NEW d \in DOMAIN known', NEW m \in Mounts, Later(d, m)' PROVE Heard(m)' \/ Lacked(m)'
      BY <1>12, <2>1, <2>6
    <2>7. \A q \in Pollers : \A d \in Chars : Sending(q, d)' =>
            /\ (d \in DOMAIN known' => work'[q][d].had = known'[d].ids) /\ (Live' => d \in DOMAIN known')
            /\ work'[q][d].bad => ~poll'[q].sync
            /\ \A m \in Mounts : /\ m \in work'[q][d].has /\ m \notin work'[q][d].had
                                /\ m \notin work'[q][d].new /\ m # work'[q][d].now
                 => Told(m)' \/ work'[q][d].bad \/ \E e \in Chars : e # d /\ Mark(q, e, m)'
      <3>1. \A m \in Mounts : /\ m \in work'[p][c].has /\ m \notin work'[p][c].had
                             /\ m \notin work'[p][c].new /\ m # work'[p][c].now
              => Told(m)' \/ work'[p][c].bad \/ \E e \in Chars : e # c /\ Mark(p, e, m)'
        BY <2>1, <2>2
      <3> QED
        BY <1>7, <1>9, <2>5, <3>1
    <2>8. \A d \in Chars : \A m \in Mounts : Mark(p, d, m)' => Owed(p, d, m)'
      BY <1>10, <2>3
    <2> QED
      BY <1>11, <2>4, <2>6, <2>7, <2>8 DEF KeptAlone
  <1> QED
    BY <1>13, <1>14

LEMMA AloneStep == Typed /\ Guarded /\ KeptAlone /\ [Next]_vars => KeptAlone'
  <1> SUFFICES ASSUME Typed, Guarded, KeptAlone, [Next]_vars, met' \cap {"lost", "churned", "left", "beside"} = {} PROVE KeptAlone'
    BY DEF KeptAlone
  <1>0. met \cap {"lost", "churned", "left", "beside"} = {} /\ met \subseteq met' /\ Alone
    BY MetGrows DEF Guarded
  <1>1. CASE Aside
    BY <1>0, <1>1, AloneAside, NextType
  <1>2. CASE Started
    BY <1>2, StartedWork DEF KeptAlone, Started, Sending
  <1>3. CASE Untrack
    <2>1. DOMAIN known' = {} /\ ~Live' /\ UNCHANGED <<poll, work, told>>
      BY <1>3 DEF Untrack, NoRows, Live, Typed
    <2>2. \A m : Told(m)' <=> Told(m)
      BY <2>1 DEF Told
    <2>3. \A q \in Pollers : \A d \in Chars : Sending(q, d)' <=> Sending(q, d)
      BY <2>1 DEF Sending
    <2>4. \A q \in Pollers : \A d \in Chars : \A m : (Owed(q, d, m) => Owed(q, d, m)') /\ (Mark(q, d, m)' <=> Mark(q, d, m))
      BY <2>1, <2>2, <2>3 DEF Owed, Mark
    <2> QED
      BY <1>0, <2>1, <2>2, <2>3, <2>4 DEF KeptAlone
  <1>4. CASE Restart
    <2>1. UNCHANGED <<row, known, told, first>> /\ \A q \in Pollers : poll'[q].pc = "idle" /\ DOMAIN work'[q] = {}
      BY <1>4 DEF Restart, Idle, NoRows
    <2>2. ASSUME NEW c \in DOMAIN known', NEW m \in Mounts, Later(c, m)' PROVE Heard(m)' \/ Lacked(m)'
      <3>1. Later(c, m) /\ c \in DOMAIN known
        BY <2>1, <2>2 DEF Later
      <3>2. Heard(m) \/ Lacked(m)
        BY <1>0, <3>1 DEF KeptAlone
      <3>3. CASE Lacked(m) \/ Told(m)
        BY <2>1, <3>3 DEF Lacked, Told, Heard
      <3>4. ASSUME NEW q \in Pollers, NEW d \in Chars, Sending(q, d), work[q][d].now = m PROVE Lacked(m)'
        <4>1. poll[q].pc = "batch" /\ m \notin work[q][d].had
          BY <3>4 DEF Typed, PollerTyped, Checking, Fit, Sending
        <4>2. d \in DOMAIN known
          BY <1>0, <3>1, <3>4, <4>1 DEF KeptAlone, Orphan
        <4>3. work[q][d].had = known[d].ids
          BY <1>0, <3>4, <4>2 DEF KeptAlone
        <4> QED
          BY <2>1, <4>1, <4>2, <4>3 DEF Lacked
      <3> QED
        BY <3>2, <3>3, <3>4 DEF Heard
    <2> QED
      BY <2>1, <2>2 DEF KeptAlone, Sending
  <1>5. ASSUME NEW p \in Pollers, NEW c \in DOMAIN work[p], NEW has \in SUBSET owned, Baselined(p, c, has) PROVE KeptAlone'
    BY <1>5, AloneBaselined
  <1>6. ASSUME NEW p \in Pollers, NEW c \in DOMAIN work[p], Compare(p, c) PROVE KeptAlone'
    <2>1. c \in DOMAIN known /\ c \in Chars /\ ~Sending(p, c) /\ UNCHANGED <<row, told, first>>
      BY <1>6, CompareIs DEF Sending
    <2>2. PICK w \in Sends(owned) :
            /\ w.had = known[c].ids /\ w.new \subseteq w.has \ w.had /\ ~w.bad
            /\ "churned" \notin met' => w.new = w.has \ w.had
            /\ Ends(p, c, w) \/ \E m, rest : Reports(p, c, w, m, rest)
      BY <1>6, CompareIs
    <2>3. w.new = w.has \ w.had
      BY <2>2
    <2>4. poll[p].pc = "batch" /\ (Live' <=> Live)
      BY <2>1 DEF Typed, PollerTyped, Live
    <2>5. ASSUME NEW m \in Mounts, Mark(p, c, m) PROVE Told(m)'
      <3>1. Owed(p, c, m)
        BY <1>0, <2>1, <2>4, <2>5 DEF KeptAlone
      <3> QED
        BY <2>1, <3>1 DEF Owed, Told
    <2> QED
      BY <1>0, <2>1, <2>2, <2>3, <2>4, <2>5, AloneOnward
  <1>7. ASSUME NEW p \in Pollers, NEW c \in DOMAIN work[p], Send(p, c) PROVE KeptAlone'
    <2> DEFINE v == work[p][c]
    <2>1. Sending(p, c) /\ c \in Chars /\ v \in Sends(owned) /\ Fit(v) /\ UNCHANGED <<row, first>>
      BY <1>7, SendIs
    <2>2. PICK ok \in BOOLEAN, w \in Sends(owned) :
            /\ told' = told \cup (IF ok THEN {<<c, v.now>>} ELSE {})
            /\ ~ok => "unsent" \in met' /\ (poll[p].sync => "lost" \in met')
            /\ w.had = v.had /\ w.has = v.has /\ w.new = v.new /\ (w.bad <=> v.bad \/ ~ok)
            /\ Ends(p, c, w) \/ \E m, rest : Reports(p, c, w, m, rest)
      BY <1>7, SendIs
    <2>3. /\ (c \in DOMAIN known => v.had = known[c].ids) /\ (Live => c \in DOMAIN known) /\ (v.bad => ~poll[p].sync)
          /\ \A m \in Mounts : m \in v.has /\ m \notin v.had /\ m \notin v.new /\ m # v.now
               => Told(m) \/ v.bad \/ \E d \in Chars : d # c /\ Mark(p, d, m)
      BY <1>0, <2>1 DEF KeptAlone
    <2>4. told \subseteq told' /\ (ok => <<c, v.now>> \in told') /\ (\A m : Told(m) => Told(m)')
      BY <2>2 DEF Told
    <2>5. v.now \notin v.had /\ v.new \subseteq v.has \ v.had
      BY <2>1 DEF Fit
    <2>6. ok => \A m : m = v.now => Told(m)'
      BY <2>1, <2>4 DEF Told
    <2>7. w.bad => ~poll[p].sync
      BY <2>2, <2>3
    <2>8. Sending(p, c) => <<c, v.now>> \in told' \/ (w.bad /\ v.now \notin w.had)
      BY <2>2, <2>4, <2>5
    <2>9. ASSUME NEW m \in Mounts, Mark(p, c, m) PROVE Told(m)' \/ (w.bad /\ m \notin w.had)
      <3>1. poll[p].pc = "batch"
        BY DEF Typed, PollerTyped
      <3>2. Owed(p, c, m)
        BY <1>0, <2>1, <2>9, <3>1 DEF KeptAlone
      <3>3. Told(m) \/ (m \notin v.had /\ (v.now = m \/ v.bad))
        BY <3>2 DEF Owed
      <3> QED
        BY <2>2, <2>4, <2>6, <3>3
    <2>10. \A m \in Mounts : m \in w.has /\ m \notin w.had /\ m \notin w.new =>
             Told(m)' \/ w.bad \/ \E d \in Chars : d # c /\ Mark(p, d, m)
      BY <2>2, <2>3, <2>4, <2>6
    <2>11. Live' <=> Live
      BY <2>1 DEF Live
    <2>12. w.new \subseteq w.has \ w.had /\ (c \in DOMAIN known => w.had = known[c].ids)
      BY <2>2, <2>3, <2>5
    <2> QED
      BY <1>0, <2>1, <2>2, <2>3, <2>4, <2>7, <2>8, <2>9, <2>10, <2>11, <2>12, AloneOnward
  <1> QED
    BY <1>1, <1>2, <1>3, <1>4, <1>5, <1>6, <1>7, StepIs

(* A mount that came after the baseline and is on record was announced, is being  *)
(* announced, or a row still lacks it: of a poll alone, whatever fails or ends it, *)
(* and of two beside each other as long as nothing does.                           *)
THEOREM EachMountTold == Spec => []MountTold
  <1>1. Init => Typed /\ Guarded /\ KeptBeside /\ KeptAlone
    BY InitType, GuardedInit, BesideInit, AloneInit
  <1>2. Typed /\ Guarded /\ KeptBeside /\ KeptAlone /\ [Next]_vars => Typed' /\ Guarded' /\ KeptBeside' /\ KeptAlone'
    BY NextType, GuardedStep, BesideStep, AloneStep
  <1>3. Typed /\ KeptBeside /\ KeptAlone => MountTold
    <2> SUFFICES ASSUME Typed, KeptBeside, KeptAlone, met \cap {"lost", "churned", "left"} = {},
                        ~("beside" \in met /\ met \cap {"cut", "unsent"} # {}),
                        NEW c \in DOMAIN known, NEW m \in known[c].ids \ first[c]
                 PROVE  \/ \E d \in Chars : <<d, m>> \in told \/ \E p \in Pollers : (At(p, d, "send") /\ work[p][d].now = m)
                        \/ \E d \in DOMAIN known : m \notin known[d].ids
      BY DEF MountTold
    <2>1. m \in Mounts /\ Later(c, m)
      BY NumbersType DEF Typed, Rows, Later
    <2>2. Heard(m) \/ Lacked(m)
      <3>1. CASE "beside" \in met
        BY <2>1, <3>1 DEF KeptBeside
      <3>2. CASE "beside" \notin met
        BY <2>1, <3>2 DEF KeptAlone
      <3> QED
        BY <3>1, <3>2
    <2> QED
      BY <2>2 DEF Heard, Told, Lacked, Sending, At
  <1> QED
    BY <1>1, <1>2, <1>3, PTL DEF Spec
=============================================================================
