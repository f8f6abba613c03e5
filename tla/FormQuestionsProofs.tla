------------------------- MODULE FormQuestionsProofs -------------------------
(* Proofs about FormQuestions, for any number of admins and questions and    *)
(* every bound.                                                              *)
EXTENDS FormQuestions, FiniteSetTheorems, TLAPS

-----------------------------------------------------------------------------
(* Places in the order of the questions.                                     *)

\* The questions of a form under the unique index: finitely many, each of an order of its own.
Proper(rs) ==
  /\ DOMAIN rs \subseteq Texts
  /\ \A i \in DOMAIN rs : rs[i].order \in Nat \ {0}
  /\ Distinct(rs)

Before(rs, i) == {j \in DOMAIN rs : rs[j].order <= rs[i].order}
Count(rs) == Cardinality(DOMAIN rs)

LEMMA FiniteRows ==
  ASSUME NEW rs, DOMAIN rs \subseteq Texts
  PROVE  IsFiniteSet(DOMAIN rs) /\ Count(rs) \in Nat
  <1>1. IsFiniteSet(Texts)
    BY ConstantsAssumption, FS_Interval DEF Texts
  <1> QED
    BY <1>1, FS_Subset, FS_CardinalityType DEF Count

LEMMA BeforeFinite ==
  ASSUME NEW rs, Proper(rs), NEW i \in DOMAIN rs
  PROVE  /\ IsFiniteSet(Before(rs, i)) /\ i \in Before(rs, i) /\ Before(rs, i) \subseteq DOMAIN rs
         /\ Place(rs, i) = Cardinality(Before(rs, i))
  <1>1. Before(rs, i) \subseteq DOMAIN rs /\ i \in Before(rs, i)
    BY DEF Before, Proper
  <1> QED
    BY <1>1, FiniteRows, FS_Subset DEF Proper, Place, Before

LEMMA PlaceRange ==
  ASSUME NEW rs, Proper(rs), NEW i \in DOMAIN rs
  PROVE  Place(rs, i) \in 1 .. Count(rs)
  <1>1. Cardinality(Before(rs, i)) \in Nat /\ Cardinality(Before(rs, i)) <= Count(rs)
    BY BeforeFinite, FiniteRows, FS_Subset, FS_CardinalityType DEF Proper, Count
  <1>2. Cardinality(Before(rs, i)) # 0
    BY BeforeFinite, FS_EmptySet
  <1> QED
    BY <1>1, <1>2, BeforeFinite, FiniteRows DEF Proper

LEMMA PlaceLess ==
  ASSUME NEW rs, Proper(rs), NEW i \in DOMAIN rs, NEW j \in DOMAIN rs, rs[i].order < rs[j].order
  PROVE  Place(rs, i) < Place(rs, j)
  <1>1. Before(rs, i) \subseteq Before(rs, j) /\ j \notin Before(rs, i) /\ j \in Before(rs, j)
    BY DEF Before, Proper
  <1>2. Cardinality(Before(rs, i)) <= Cardinality(Before(rs, j))
        /\ Cardinality(Before(rs, i)) # Cardinality(Before(rs, j))
    BY <1>1, BeforeFinite, FS_Subset
  <1> QED
    BY <1>2, BeforeFinite, PlaceRange, FiniteRows DEF Proper

LEMMA PlaceOrder ==
  ASSUME NEW rs, Proper(rs), NEW i \in DOMAIN rs, NEW j \in DOMAIN rs
  PROVE  /\ Place(rs, i) = Place(rs, j) => i = j
         /\ Place(rs, i) < Place(rs, j) => rs[i].order < rs[j].order
  <1>1. rs[i].order < rs[j].order \/ rs[j].order < rs[i].order \/ i = j
    BY DEF Proper, Distinct
  <1>2. Place(rs, i) \in Nat /\ Place(rs, j) \in Nat
    BY PlaceRange, FiniteRows DEF Proper
  <1> QED
    BY <1>1, <1>2, PlaceLess DEF Proper

LEMMA PlaceOnto ==
  ASSUME NEW rs, Proper(rs), NEW p \in 1 .. Count(rs)
  PROVE  \E i \in DOMAIN rs : Place(rs, i) = p
  <1> DEFINE f == [i \in DOMAIN rs |-> Place(rs, i)]
  <1>1. f \in [DOMAIN rs -> 1 .. Count(rs)] /\ \A i, j \in DOMAIN rs : f[i] = f[j] => i = j
    BY PlaceRange, PlaceOrder
  <1>2. f \in Injection(DOMAIN rs, 1 .. Count(rs))
    BY <1>1 DEF Injection, IsInjective
  <1>3. IsFiniteSet(1 .. Count(rs)) /\ Cardinality(1 .. Count(rs)) = Count(rs)
    <2>1. Count(rs) \in Nat
      BY FiniteRows DEF Proper
    <2> HIDE DEF f
    <2> QED
      BY <2>1, FS_Interval
  <1>4. f \in Surjection(DOMAIN rs, 1 .. Count(rs))
    <2> HIDE DEF f
    <2> QED
      BY <1>2, <1>3, FS_Injection DEF Count
  <1> QED
    BY <1>4 DEF Surjection

\* A place is that of one row, and At finds it.
LEMMA AtPlace ==
  ASSUME NEW rs, Proper(rs)
  PROVE  /\ \A p \in 1 .. Count(rs) : At(rs, p) \in DOMAIN rs /\ Place(rs, At(rs, p)) = p
         /\ \A i \in DOMAIN rs : At(rs, Place(rs, i)) = i
  <1>1. ASSUME NEW p \in 1 .. Count(rs)
        PROVE  At(rs, p) \in DOMAIN rs /\ Place(rs, At(rs, p)) = p
    BY <1>1, PlaceOnto DEF At
  <1> QED
    BY <1>1, PlaceRange, PlaceOrder

\* The place of a question is at most its order.
LEMMA PlaceAtMostOrder ==
  ASSUME NEW rs, Proper(rs), NEW i \in DOMAIN rs
  PROVE  Place(rs, i) <= rs[i].order
  <1> DEFINE f == [j \in Before(rs, i) |-> rs[j].order]
             n == rs[i].order
  <1>1. n \in Nat \ {0}
    BY DEF Proper
  <1>2. f \in [Before(rs, i) -> 1 .. n] /\ \A j, k \in Before(rs, i) : f[j] = f[k] => j = k
    BY DEF Before, Proper, Distinct
  <1>3. f \in Injection(Before(rs, i), 1 .. n)
    BY <1>2 DEF Injection, IsInjective
  <1>4. IsFiniteSet(1 .. n) /\ Cardinality(1 .. n) = n
    <2> HIDE DEF f, n
    <2> QED
      BY <1>1, FS_Interval
  <1>5. Cardinality(Before(rs, i)) <= n
    <2> HIDE DEF f, n
    <2> QED
      BY <1>3, <1>4, FS_Injection
  <1> QED
    BY <1>5, BeforeFinite

\* Orders that are 1, 2, ... are the places.
LEMMA PlaceIsOrder ==
  ASSUME NEW rs, Proper(rs), \A i \in DOMAIN rs : rs[i].order \in 1 .. Count(rs)
  PROVE  \A i \in DOMAIN rs : Place(rs, i) = rs[i].order
  <1> DEFINE f == [i \in DOMAIN rs |-> rs[i].order]
  <1>0. Count(rs) \in Nat /\ IsFiniteSet(1 .. Count(rs)) /\ Cardinality(1 .. Count(rs)) = Count(rs)
    <2>1. Count(rs) \in Nat
      BY FiniteRows DEF Proper
    <2> HIDE DEF f
    <2> QED
      BY <2>1, FS_Interval
  <1>1. f \in [DOMAIN rs -> 1 .. Count(rs)] /\ \A i, j \in DOMAIN rs : f[i] = f[j] => i = j
    BY DEF Proper, Distinct
  <1>2. f \in Injection(DOMAIN rs, 1 .. Count(rs))
    BY <1>1 DEF Injection, IsInjective
  <1>3. f \in Surjection(DOMAIN rs, 1 .. Count(rs))
    <2> HIDE DEF f
    <2> QED
      BY <1>0, <1>2, FS_Injection DEF Count
  <1>4. \A n \in 1 .. Count(rs) : \E i \in DOMAIN rs : rs[i].order = n
    BY <1>3 DEF Surjection
  <1> SUFFICES ASSUME NEW i \in DOMAIN rs
               PROVE  Place(rs, i) = rs[i].order
    OBVIOUS
  <1>5. rs[i].order <= Place(rs, i)
    <2> DEFINE g == [j \in Before(rs, i) |-> rs[j].order]
               n == rs[i].order
    <2>1. n \in 1 .. Count(rs) /\ n \in Nat
      BY <1>0
    <2>2. g \in [Before(rs, i) -> 1 .. n]
      BY <1>0 DEF Before
    <2>3. \A m \in 1 .. n : \E j \in Before(rs, i) : g[j] = m
      BY <1>4, <2>1, <1>0 DEF Before
    <2>4. g \in Surjection(Before(rs, i), 1 .. n)
      BY <2>2, <2>3 DEF Surjection
    <2>5. IsFiniteSet(1 .. n) /\ Cardinality(1 .. n) = n
      <3> HIDE DEF g, n
      <3> QED
        BY <2>1, FS_Interval
    <2>6. n <= Cardinality(Before(rs, i))
      <3> HIDE DEF g, n
      <3> QED
        BY <2>4, <2>5, BeforeFinite, FS_Surjection
    <2> QED
      BY <2>6, BeforeFinite
  <1>6. Place(rs, i) \in Nat /\ rs[i].order \in Nat
    BY PlaceRange, <1>0
  <1> QED
    BY <1>5, <1>6, PlaceAtMostOrder

\* Places depend on nothing but which question comes before which.
LEMMA SamePlaces ==
  ASSUME NEW rs, NEW ss, DOMAIN ss = DOMAIN rs,
         \A i, j \in DOMAIN rs : ss[j].order <= ss[i].order <=> rs[j].order <= rs[i].order
  PROVE  \A i \in DOMAIN rs : Place(ss, i) = Place(rs, i)
  <1> SUFFICES ASSUME NEW i \in DOMAIN rs
               PROVE  Place(ss, i) = Place(rs, i)
    OBVIOUS
  <1>1. {j \in DOMAIN ss : ss[j].order <= ss[i].order} = {j \in DOMAIN rs : rs[j].order <= rs[i].order}
    OBVIOUS
  <1> QED
    BY <1>1 DEF Place

\* A question among the others: those before it keep their places, the rest move by one.
LEMMA InsertedPlaces ==
  ASSUME NEW rs, NEW ss, NEW q, Proper(rs), Proper(ss), q \notin DOMAIN rs, DOMAIN ss = DOMAIN rs \cup {q},
         \A i \in DOMAIN rs : ss[i].order = rs[i].order
  PROVE  /\ Count(ss) = Count(rs) + 1 /\ Place(ss, q) \in 1 .. Count(ss) /\ At(ss, Place(ss, q)) = q
         /\ \A k \in 1 .. Count(ss) :
              /\ k < Place(ss, q) => k \in 1 .. Count(rs) /\ At(ss, k) = At(rs, k)
              /\ k > Place(ss, q) => k - 1 \in 1 .. Count(rs) /\ At(ss, k) = At(rs, k - 1)
  <1>1. Count(ss) = Count(rs) + 1
    BY FiniteRows, FS_AddElement DEF Count, Proper
  <1>2. q \in DOMAIN ss /\ Place(ss, q) \in 1 .. Count(ss) /\ At(ss, Place(ss, q)) = q
    BY PlaceRange, AtPlace
  <1>3. ASSUME NEW i \in DOMAIN rs, ss[i].order < ss[q].order
        PROVE  Place(ss, i) = Place(rs, i)
    <2>1. Before(ss, i) = Before(rs, i)
      BY <1>3, <1>2 DEF Before, Proper
    <2> QED
      BY <2>1 DEF Place, Before
  <1>4. ASSUME NEW i \in DOMAIN rs, ss[q].order < ss[i].order
        PROVE  Place(ss, i) = Place(rs, i) + 1
    <2>1. Before(ss, i) = Before(rs, i) \cup {q} /\ q \notin Before(rs, i)
      BY <1>4, <1>2 DEF Before, Proper
    <2>2. Cardinality(Before(ss, i)) = Cardinality(Before(rs, i)) + 1
      <3>1. IsFiniteSet(Before(rs, i))
        BY BeforeFinite
      <3> QED
        BY <2>1, <3>1, FS_AddElement
    <2> QED
      BY <2>2 DEF Place, Before
  <1>5. Count(rs) \in Nat
    BY FiniteRows DEF Proper
  <1> SUFFICES ASSUME NEW k \in 1 .. Count(ss), k # Place(ss, q)
               PROVE  /\ k < Place(ss, q) => k \in 1 .. Count(rs) /\ At(ss, k) = At(rs, k)
                      /\ k > Place(ss, q) => k - 1 \in 1 .. Count(rs) /\ At(ss, k) = At(rs, k - 1)
    BY <1>1, <1>2, <1>5
  <1> DEFINE i == At(ss, k)
  <1>6. i \in DOMAIN ss /\ Place(ss, i) = k /\ i \in DOMAIN rs
    BY <1>2, AtPlace
  <1> HIDE DEF i
  <1>7. CASE k < Place(ss, q)
    <2>1. ss[i].order < ss[q].order
      BY <1>2, <1>6, <1>7, PlaceOrder
    <2>2. Place(rs, i) = k
      BY <1>3, <1>6, <2>1
    <2>3. At(rs, k) = i /\ k \in 1 .. Count(rs)
      BY <1>6, <2>2, AtPlace, PlaceRange
    <2> QED
      BY <1>7, <1>2, <2>3 DEF i
  <1>8. CASE k > Place(ss, q)
    <2>1. ss[q].order < ss[i].order
      BY <1>2, <1>6, <1>8, PlaceOrder
    <2>2. Place(rs, i) = k - 1
      <3>1. Place(ss, i) = Place(rs, i) + 1
        BY <1>4, <1>6, <2>1
      <3>2. Place(rs, i) \in 1 .. Count(rs)
        BY <1>6, PlaceRange
      <3> QED
        BY <3>1, <3>2, <1>5, <1>6
    <2>3. At(rs, k - 1) = i /\ k - 1 \in 1 .. Count(rs)
      BY <1>6, <2>2, AtPlace, PlaceRange
    <2> QED
      BY <1>8, <1>2, <2>3 DEF i
  <1> QED
    BY <1>2, <1>5, <1>7, <1>8, <1>1

-----------------------------------------------------------------------------
(* The list that rows stand for.                                             *)

Listing(rs) == [p \in 1 .. Count(rs) |-> rs[At(rs, p)].text]

LEMMA ListedIsListing == Listed = Listing(rows) /\ Listed' = Listing(rows')
  BY DEF Listed, Listing, Count, Ids

\* Texts told apart: a text belongs to one question.
Apart(rs) ==
  /\ \A i \in DOMAIN rs : rs[i].text \in Texts
  /\ \A i, j \in DOMAIN rs : rs[i].text = rs[j].text => i = j

LEMMA ListingType ==
  ASSUME NEW rs, Proper(rs), Apart(rs)
  PROVE  /\ Listing(rs) \in Seq(Texts) /\ Len(Listing(rs)) = Count(rs) /\ DOMAIN Listing(rs) = 1 .. Count(rs)
         /\ \A p, q \in 1 .. Count(rs) : Listing(rs)[p] = Listing(rs)[q] => p = q
         /\ \A x : (\E p \in 1 .. Count(rs) : Listing(rs)[p] = x) <=> (\E i \in DOMAIN rs : rs[i].text = x)
  <1>0. Count(rs) \in Nat
    BY FiniteRows DEF Proper
  <1>1. Listing(rs) \in [1 .. Count(rs) -> Texts]
    BY AtPlace DEF Listing, Apart
  <1>2. Listing(rs) \in Seq(Texts) /\ Len(Listing(rs)) = Count(rs) /\ DOMAIN Listing(rs) = 1 .. Count(rs)
    BY <1>0, <1>1
  <1>3. ASSUME NEW p \in 1 .. Count(rs), NEW q \in 1 .. Count(rs), Listing(rs)[p] = Listing(rs)[q]
        PROVE  p = q
    <2>1. rs[At(rs, p)].text = rs[At(rs, q)].text
      BY <1>3 DEF Listing
    <2>2. At(rs, p) = At(rs, q)
      BY <2>1, AtPlace DEF Apart
    <2> QED
      BY <2>2, AtPlace
  <1>4. ASSUME NEW p \in 1 .. Count(rs)
        PROVE  At(rs, p) \in DOMAIN rs /\ Listing(rs)[p] = rs[At(rs, p)].text
    BY AtPlace DEF Listing
  <1>5. ASSUME NEW i \in DOMAIN rs
        PROVE  Place(rs, i) \in 1 .. Count(rs) /\ Listing(rs)[Place(rs, i)] = rs[i].text
    BY AtPlace, PlaceRange DEF Listing
  <1> QED
    BY <1>2, <1>3, <1>4, <1>5

\* Rows in the same order with the same texts are the same list.
LEMMA SameListing ==
  ASSUME NEW rs, NEW ss, Proper(rs), DOMAIN ss = DOMAIN rs,
         \A i, j \in DOMAIN rs : ss[j].order <= ss[i].order <=> rs[j].order <= rs[i].order,
         \A i \in DOMAIN rs : ss[i].text = rs[i].text
  PROVE  Listing(ss) = Listing(rs)
  <1>1. \A i \in DOMAIN rs : Place(ss, i) = Place(rs, i)
    BY SamePlaces
  <1>2. Count(ss) = Count(rs)
    BY DEF Count
  <1>3. \A p \in 1 .. Count(rs) : At(ss, p) = At(rs, p)
    BY <1>1 DEF At
  <1>4. \A p \in 1 .. Count(rs) : ss[At(ss, p)].text = rs[At(rs, p)].text
    BY <1>3, AtPlace
  <1> QED
    BY <1>2, <1>4 DEF Listing

LEMMA InsertAtIs ==
  ASSUME NEW T, NEW s \in Seq(T), NEW t \in Seq(T), NEW p \in 1 .. Len(t),
         Len(t) = Len(s) + 1,
         \A k \in 1 .. Len(t) : /\ k < p => t[k] = s[k]
                                /\ k > p => t[k] = s[k - 1]
  PROVE  /\ t = Abstract!InsertAt(s, p, t[p])
         /\ s = Abstract!RemoveAt(t, p)
  <1>1. Len(s) \in Nat /\ p \in 1 .. Len(s) + 1 /\ t[p] \in T
    OBVIOUS
  <1>2. t = SubSeq(s, 1, p - 1) \o <<t[p]>> \o SubSeq(s, p, Len(s))
    <2> DEFINE a == SubSeq(s, 1, p - 1)
               b == SubSeq(s, p, Len(s))
    <2>1. a \in Seq(T) /\ Len(a) = p - 1 /\ \A k \in 1 .. p - 1 : a[k] = s[k]
      BY <1>1
    <2>2. b \in Seq(T) /\ Len(b) = Len(s) - p + 1 /\ \A k \in 1 .. Len(s) - p + 1 : b[k] = s[k + p - 1]
      BY <1>1
    <2> HIDE DEF a, b
    <2> DEFINE c == a \o <<t[p]>>
    <2>3. c \in Seq(T) /\ Len(c) = p /\ c[p] = t[p] /\ \A k \in 1 .. p - 1 : c[k] = a[k]
      BY <1>1, <2>1
    <2> HIDE DEF c
    <2> DEFINE u == c \o b
    <2>4. u \in Seq(T) /\ Len(u) = Len(s) + 1
      <3>1. u \in Seq(T) /\ Len(u) = Len(c) + Len(b)
        BY <2>2, <2>3
      <3>2. Len(c) + Len(b) = Len(s) + 1
        BY <1>1, <2>2, <2>3
      <3> QED
        BY <3>1, <3>2
    <2>5. ASSUME NEW k \in 1 .. Len(s) + 1
          PROVE  u[k] = t[k]
      <3>1. CASE k < p
        <4>1. u[k] = c[k]
          BY <1>1, <2>2, <2>3, <3>1
        <4> QED
          BY <1>1, <2>1, <2>3, <3>1, <4>1
      <3>2. CASE k = p
        BY <1>1, <2>2, <2>3, <3>2
      <3>3. CASE k > p
        <4> DEFINE m == k - p
        <4>1. m \in 1 .. Len(s) - p + 1 /\ k = m + p /\ s[k - 1] = s[m + p - 1]
          BY <1>1, <3>3
        <4>2. u[k] = b[m]
          <5>1. k \in Len(c) + 1 .. Len(c) + Len(b) /\ k - Len(c) = m
            BY <1>1, <2>2, <2>3, <3>3
          <5> HIDE DEF m
          <5> QED
            BY <2>2, <2>3, <5>1
        <4> HIDE DEF m
        <4>3. b[m] = s[m + p - 1]
          BY <2>2, <4>1
        <4>4. t[k] = s[k - 1]
          BY <1>1, <3>3
        <4> QED
          BY <4>1, <4>2, <4>3, <4>4
      <3>4. k < p \/ k = p \/ k > p
        BY <1>1
      <3> QED
        BY <3>1, <3>2, <3>3, <3>4
    <2>6. u = t
      <3> HIDE DEF u
      <3> QED
        BY <2>4, <2>5
    <2> QED
      BY <2>6 DEF a, b, c
  <1>3. s = SubSeq(t, 1, p - 1) \o SubSeq(t, p + 1, Len(t))
    <2> DEFINE a == SubSeq(t, 1, p - 1)
               b == SubSeq(t, p + 1, Len(t))
    <2>1. a \in Seq(T) /\ Len(a) = p - 1 /\ \A k \in 1 .. p - 1 : a[k] = t[k]
      BY <1>1
    <2>2. b \in Seq(T) /\ Len(b) = Len(s) - p + 1 /\ \A k \in 1 .. Len(s) - p + 1 : b[k] = t[k + p]
      BY <1>1
    <2> HIDE DEF a, b
    <2> DEFINE u == a \o b
    <2>3. u \in Seq(T) /\ Len(u) = Len(s)
      BY <1>1, <2>1, <2>2
    <2>4. ASSUME NEW k \in 1 .. Len(s)
          PROVE  u[k] = s[k]
      <3>1. CASE k < p
        BY <1>1, <2>1, <2>2, <3>1
      <3>2. CASE k >= p
        <4> DEFINE m == k - p + 1
        <4>1. m \in 1 .. Len(s) - p + 1 /\ k + 1 = m + p /\ k + 1 \in 1 .. Len(t) /\ (k + 1) - 1 = k
          BY <1>1, <3>2
        <4>2. u[k] = b[m]
          BY <1>1, <2>1, <2>2, <3>2
        <4> HIDE DEF m
        <4>3. b[m] = t[k + 1]
          BY <2>2, <4>1
        <4>4. t[k + 1] = s[k]
          BY <1>1, <3>2, <4>1
        <4> QED
          BY <4>2, <4>3, <4>4
      <3>3. k < p \/ k >= p
        BY <1>1
      <3> QED
        BY <3>1, <3>2, <3>3
    <2>5. u = s
      <3> HIDE DEF u
      <3>1. u = [k \in 1 .. Len(s) |-> u[k]]
        BY <2>3
      <3>2. s = [k \in 1 .. Len(s) |-> s[k]]
        OBVIOUS
      <3> QED
        BY <2>4, <3>1, <3>2
    <2> QED
      BY <2>5 DEF a, b
  <1> QED
    BY <1>2, <1>3 DEF Abstract!InsertAt, Abstract!RemoveAt

\* With one question more the list has one entry more, and the rest as before.
LEMMA InsertedListing ==
  ASSUME NEW rs, NEW ss, NEW q, Proper(rs), Proper(ss), Apart(ss), q \notin DOMAIN rs,
         DOMAIN ss = DOMAIN rs \cup {q}, \A i \in DOMAIN rs : ss[i] = rs[i]
  PROVE  /\ Place(ss, q) \in 1 .. Len(Listing(rs)) + 1 /\ Place(ss, q) \in DOMAIN Listing(ss)
         /\ Listing(ss) = Abstract!InsertAt(Listing(rs), Place(ss, q), ss[q].text)
         /\ Listing(rs) = Abstract!RemoveAt(Listing(ss), Place(ss, q))
  <1>1. Apart(rs)
    BY DEF Apart
  <1>2. /\ Listing(rs) \in Seq(Texts) /\ Len(Listing(rs)) = Count(rs)
        /\ Listing(ss) \in Seq(Texts) /\ Len(Listing(ss)) = Count(ss) /\ DOMAIN Listing(ss) = 1 .. Count(ss)
    BY <1>1, ListingType
  <1>3. /\ Count(ss) = Count(rs) + 1 /\ Place(ss, q) \in 1 .. Count(ss) /\ At(ss, Place(ss, q)) = q
        /\ \A k \in 1 .. Count(ss) :
              /\ k < Place(ss, q) => k \in 1 .. Count(rs) /\ At(ss, k) = At(rs, k)
              /\ k > Place(ss, q) => k - 1 \in 1 .. Count(rs) /\ At(ss, k) = At(rs, k - 1)
    BY InsertedPlaces
  <1>4. Listing(ss)[Place(ss, q)] = ss[q].text
    BY <1>3 DEF Listing
  <1>5. ASSUME NEW k \in 1 .. Count(ss)
        PROVE  /\ k < Place(ss, q) => Listing(ss)[k] = Listing(rs)[k]
               /\ k > Place(ss, q) => Listing(ss)[k] = Listing(rs)[k - 1]
    BY <1>3, AtPlace DEF Listing
  <1>6. /\ Place(ss, q) \in 1 .. Len(Listing(ss)) /\ Len(Listing(ss)) = Len(Listing(rs)) + 1
        /\ Len(Listing(rs)) \in Nat
        /\ \A k \in 1 .. Len(Listing(ss)) : /\ k < Place(ss, q) => Listing(ss)[k] = Listing(rs)[k]
                                            /\ k > Place(ss, q) => Listing(ss)[k] = Listing(rs)[k - 1]
    BY <1>2, <1>3, <1>5
  <1>7. /\ Listing(ss) = Abstract!InsertAt(Listing(rs), Place(ss, q), Listing(ss)[Place(ss, q)])
        /\ Listing(rs) = Abstract!RemoveAt(Listing(ss), Place(ss, q))
    BY <1>2, <1>6, InsertAtIs
  <1> QED
    BY <1>2, <1>4, <1>6, <1>7

-----------------------------------------------------------------------------
(* What the operations make of the rows.                                     *)

LEMMA LargestExists ==
  ASSUME NEW S, S \subseteq Nat, S # {}, NEW b \in Nat, \A x \in S : x <= b
  PROVE  \E x \in S : \A y \in S : x >= y
  <1> DEFINE T == {n \in Nat : \E x \in S : n = b - x}
  <1>0. \A y \in S : b - y \in T
    OBVIOUS
  <1>1. T \subseteq Nat /\ T # {}
    BY <1>0
  <1> HIDE DEF T
  <1>2. PICK n \in T : \A m \in T : ~(<<m, n>> \in OpToRel(<, Nat))
    BY <1>1, WFMin, NatLessThanWellFounded
  <1>3. \A m \in T : ~(m < n)
    BY <1>1, <1>2 DEF OpToRel
  <1>4. PICK x \in S : n = b - x
    BY <1>2 DEF T
  <1>5. ASSUME NEW y \in S
        PROVE  x >= y
    <2>1. ~(b - y < b - x)
      BY <1>0, <1>3, <1>4
    <2> QED
      BY <2>1
  <1> QED
    BY <1>5

\* The rows under the unique index, of questions no later than n.
RowsOK(rs, n) ==
  /\ \A i \in DOMAIN rs : i \in 1 .. n
  /\ \A i \in DOMAIN rs : rs[i] \in [text : Texts, order : Orders] /\ rs[i].text <= n
  /\ \A i, j \in DOMAIN rs : rs[i].text = rs[j].text => i = j
  /\ Distinct(rs)

LEMMA BoundsType ==
  /\ MaxTexts \in Nat /\ MaxOrder \in Nat /\ MaxEntered \in Nat /\ Imported \in Nat /\ MaxLoose \in Nat
  /\ Entered \subseteq Orders
  /\ \A t : t \in Texts <=> t \in Nat /\ 1 <= t /\ t <= MaxTexts
  /\ \A o : o \in Orders <=> o \in Nat /\ 1 <= o /\ o <= MaxOrder
  BY ConstantsAssumption DEF Texts, Orders, Entered

LEMMA RowsProper ==
  ASSUME NEW rs, NEW n \in 0 .. MaxTexts, RowsOK(rs, n)
  PROVE  Proper(rs) /\ Apart(rs)
  BY BoundsType DEF RowsOK, Proper, Apart

LEMMA ReorderedRows ==
  ASSUME NEW rs, NEW n \in 0 .. MaxTexts, RowsOK(rs, n), NEW ord,
         \A i \in DOMAIN rs : ord[i] \in Orders,
         \A i, j \in DOMAIN rs : ord[i] = ord[j] => i = j
  PROVE  /\ RowsOK(Reordered(rs, ord), n)
         /\ DOMAIN Reordered(rs, ord) = DOMAIN rs
         /\ \A i \in DOMAIN rs : /\ Reordered(rs, ord)[i].text = rs[i].text
                                 /\ Reordered(rs, ord)[i].order = ord[i]
  <1> DEFINE ss == Reordered(rs, ord)
  <1>1. DOMAIN ss = DOMAIN rs
    BY DEF Reordered
  <1>2. \A i \in DOMAIN rs : ss[i] \in [text : Texts, order : Orders] /\ ss[i].text = rs[i].text /\ ss[i].order = ord[i]
    BY DEF Reordered, RowsOK
  <1> HIDE DEF ss
  <1>3. RowsOK(ss, n)
    BY <1>1, <1>2 DEF RowsOK, Distinct
  <1> QED
    BY <1>1, <1>2, <1>3 DEF ss

\* Updates that the unique index lets through one by one leave every order with one question.
LEMMA FlushKeepsApart ==
  ASSUME NEW old, NEW new, DOMAIN old \subseteq Nat, ~FlushFails(old, new),
         \A i, j \in DOMAIN old : old[i] = old[j] => i = j
  PROVE  \A i, j \in DOMAIN old : new[i] = new[j] => i = j
  <1>1. ASSUME NEW i \in DOMAIN old, NEW j \in DOMAIN old, i < j, new[i] = new[j]
        PROVE  FALSE
    BY <1>1 DEF FlushFails
  <1> QED
    BY <1>1

LEMMA RenumberedRows ==
  ASSUME NEW rs, NEW n \in 0 .. MaxTexts, RowsOK(rs, n)
  PROVE  /\ RowsOK(Reordered(rs, Renumbered(rs)), n)
         /\ DOMAIN Reordered(rs, Renumbered(rs)) = DOMAIN rs
         /\ \A i \in DOMAIN rs : Reordered(rs, Renumbered(rs))[i].text = rs[i].text
         /\ Listing(Reordered(rs, Renumbered(rs))) = Listing(rs)
  <1> DEFINE ord == Renumbered(rs)
             ss == Reordered(rs, ord)
  <1>1. Proper(rs)
    BY RowsProper
  <1>2. \A i \in DOMAIN rs : ord[i] = Place(rs, i)
    BY DEF Renumbered
  <1>3. \A i \in DOMAIN rs : ord[i] \in Orders
    <2>1. Count(rs) \in Nat
      BY <1>1, FiniteRows DEF Proper
    <2> SUFFICES ASSUME NEW i \in DOMAIN rs PROVE Place(rs, i) \in Orders
      BY <1>2
    <2>2. Place(rs, i) \in 1 .. Count(rs) /\ Place(rs, i) <= rs[i].order /\ rs[i].order \in Orders
      BY <1>1, PlaceRange, PlaceAtMostOrder DEF RowsOK
    <2> QED
      BY <2>1, <2>2, BoundsType
  <1>4. \A i, j \in DOMAIN rs : ord[i] = ord[j] => i = j
    BY <1>1, <1>2, PlaceOrder
  <1> HIDE DEF ord
  <1>5. /\ RowsOK(ss, n) /\ DOMAIN ss = DOMAIN rs
        /\ \A i \in DOMAIN rs : ss[i].text = rs[i].text /\ ss[i].order = ord[i]
    BY <1>3, <1>4, ReorderedRows
  <1>6. \A i, j \in DOMAIN rs : ord[j] <= ord[i] <=> rs[j].order <= rs[i].order
    <2> SUFFICES ASSUME NEW i \in DOMAIN rs, NEW j \in DOMAIN rs
                 PROVE  ord[j] <= ord[i] <=> rs[j].order <= rs[i].order
      OBVIOUS
    <2>1. rs[i].order \in Nat /\ rs[j].order \in Nat /\ ord[i] \in Nat /\ ord[j] \in Nat
      BY <1>3, BoundsType DEF RowsOK
    <2>2. rs[i].order < rs[j].order => ord[i] < ord[j]
      BY <1>1, <1>2, PlaceLess
    <2>3. rs[j].order < rs[i].order => ord[j] < ord[i]
      BY <1>1, <1>2, PlaceLess
    <2>4. rs[i].order = rs[j].order => i = j
      BY DEF RowsOK, Distinct
    <2> QED
      BY <2>1, <2>2, <2>3, <2>4
  <1> HIDE DEF ss
  <1>7. Listing(ss) = Listing(rs)
    BY <1>1, <1>5, <1>6, SameListing
  <1> QED
    BY <1>5, <1>7 DEF ss, ord

LEMMA WithoutRows ==
  ASSUME NEW n \in 0 .. MaxTexts, RowsOK(rows, n), NEW i \in Ids
  PROVE  /\ RowsOK(Without(i), n)
         /\ DOMAIN Without(i) = Ids \ {i}
         /\ \A j \in Ids \ {i} : Without(i)[j] = rows[j]
         /\ Place(rows, i) \in DOMAIN Listing(rows)
         /\ Listing(Without(i)) = Abstract!RemoveAt(Listing(rows), Place(rows, i))
  <1>1. DOMAIN Without(i) = Ids \ {i} /\ \A j \in Ids \ {i} : Without(i)[j] = rows[j]
    BY DEF Without
  <1>2. RowsOK(Without(i), n)
    BY <1>1 DEF RowsOK, Distinct, Ids
  <1>3. i \notin DOMAIN Without(i) /\ DOMAIN rows = DOMAIN Without(i) \cup {i}
    BY <1>1 DEF Ids
  <1>4. Proper(rows) /\ Apart(rows) /\ Proper(Without(i))
    BY <1>2, RowsProper
  <1> QED
    BY <1>1, <1>2, <1>3, <1>4, InsertedListing DEF Ids

LEMMA NewIdFresh ==
  ASSUME NEW n \in 0 .. MaxTexts, n = created, RowsOK(rows, n)
  PROVE  NewId \in 1 .. created + 1 /\ NewId \notin Ids
  <1>1. Ids \subseteq Nat /\ n \in Nat /\ \A i \in Ids : i >= 1 /\ i <= n
    BY BoundsType DEF RowsOK, Ids
  <1>2. CASE Postgres
    BY <1>1, <1>2 DEF NewId
  <1>3. CASE ~Postgres /\ Ids = {}
    BY <1>1, <1>3 DEF NewId
  <1>4. CASE ~Postgres /\ Ids # {}
    <2>1. \E x \in Ids : \A y \in Ids : x >= y
      BY <1>1, <1>4, LargestExists
    <2>2. Max(Ids) \in Ids /\ \A y \in Ids : Max(Ids) >= y
      BY <2>1 DEF Max
    <2> DEFINE m == Max(Ids)
    <2>3. NewId = m + 1
      BY <1>4 DEF NewId
    <2> HIDE DEF m
    <2>4. m \in Ids /\ \A y \in Ids : m >= y
      BY <2>2 DEF m
    <2>5. m + 1 \in 1 .. created + 1 /\ m + 1 \notin Ids
      BY <1>1, <2>4
    <2> QED
      BY <2>3, <2>5
  <1> QED
    BY <1>2, <1>3, <1>4

LEMMA NextOrderFree ==
  ASSUME NEW n \in 0 .. MaxTexts, RowsOK(rows, n)
  PROVE  NextOrder \in Nat \ {0} /\ \A i \in Ids : rows[i].order # NextOrder
  <1> DEFINE S == {rows[i].order : i \in Ids}
  <1>1. S \subseteq Nat /\ \A x \in S : x <= MaxOrder
    BY BoundsType DEF RowsOK, Ids
  <1>2. CASE Ids = {}
    BY <1>2 DEF NextOrder, LastOrder
  <1>3. CASE Ids # {}
    <2>1. S # {}
      BY <1>3
    <2>2. \E x \in S : \A y \in S : x >= y
      <3> HIDE DEF S
      <3> QED
        BY <1>1, <2>1, LargestExists, BoundsType
    <2>3. Max(S) \in S /\ \A y \in S : Max(S) >= y
      <3> HIDE DEF S
      <3> QED
        BY <2>2 DEF Max
    <2>4. NextOrder = Max(S) + 1
      BY <1>3 DEF NextOrder, LastOrder
    <2>5. \A i \in Ids : rows[i].order \in S
      OBVIOUS
    <2> HIDE DEF S
    <2> QED
      BY <1>1, <2>3, <2>4, <2>5
  <1> QED
    BY <1>2, <1>3

LEMMA WithNewRows ==
  ASSUME RowsOK(rows, created), created \in 0 .. MaxTexts, created < MaxTexts,
         NEW order \in Orders, \A i \in Ids : rows[i].order # order
  PROVE  /\ RowsOK(WithNew(order), created + 1)
         /\ NewId \notin Ids /\ DOMAIN WithNew(order) = Ids \cup {NewId}
         /\ \A i \in Ids : WithNew(order)[i] = rows[i]
         /\ WithNew(order)[NewId] = [text |-> created + 1, order |-> order]
         /\ Place(WithNew(order), NewId) \in 1 .. Len(Listing(rows)) + 1
         /\ Listing(WithNew(order)) = Abstract!InsertAt(Listing(rows), Place(WithNew(order), NewId), created + 1)
  <1> DEFINE ss == WithNew(order)
  <1>1. NewId \in 1 .. created + 1 /\ NewId \notin Ids
    BY NewIdFresh
  <1>2. /\ DOMAIN ss = Ids \cup {NewId} /\ \A i \in Ids : ss[i] = rows[i]
        /\ ss[NewId] = [text |-> created + 1, order |-> order]
    BY <1>1 DEF WithNew
  <1> HIDE DEF ss
  <1>3. created + 1 \in 0 .. MaxTexts /\ created + 1 \in Texts /\ created \in Nat
    BY BoundsType
  <1>4. ss[NewId] \in [text : Texts, order : Orders] /\ ss[NewId].text = created + 1 /\ ss[NewId].order = order
    BY <1>2, <1>3
  <1>5. \A i \in Ids : rows[i].text \in Nat /\ rows[i].text <= created /\ i \in 1 .. created
    BY BoundsType DEF RowsOK, Ids
  <1>6. \A i \in DOMAIN ss : i \in 1 .. created + 1
    BY <1>1, <1>2, <1>3, <1>5
  <1>7. \A i \in DOMAIN ss : ss[i] \in [text : Texts, order : Orders] /\ ss[i].text <= created + 1
    BY <1>2, <1>3, <1>4, <1>5 DEF RowsOK, Ids
  <1>8. \A i, j \in DOMAIN ss : ss[i].text = ss[j].text => i = j
    <2>1. ASSUME NEW i \in DOMAIN ss, NEW j \in DOMAIN ss, ss[i].text = ss[j].text
          PROVE  i = j
      <3>1. CASE i \in Ids /\ j \in Ids
        BY <1>2, <2>1, <3>1 DEF RowsOK, Ids
      <3>2. CASE i \in Ids /\ j = NewId
        BY <1>2, <1>3, <1>4, <1>5, <2>1, <3>2
      <3>3. CASE j \in Ids /\ i = NewId
        BY <1>2, <1>3, <1>4, <1>5, <2>1, <3>3
      <3> QED
        BY <1>2, <3>1, <3>2, <3>3
    <2> QED
      BY <2>1
  <1>9. Distinct(ss)
    BY <1>2, <1>4 DEF RowsOK, Distinct, Ids
  <1>10. RowsOK(ss, created + 1)
    BY <1>6, <1>7, <1>8, <1>9 DEF RowsOK
  <1>11. Proper(rows) /\ Proper(ss) /\ Apart(ss)
    BY <1>3, <1>10, RowsProper
  <1>12. /\ Place(ss, NewId) \in 1 .. Len(Listing(rows)) + 1
         /\ Listing(ss) = Abstract!InsertAt(Listing(rows), Place(ss, NewId), created + 1)
    BY <1>1, <1>2, <1>4, <1>11, InsertedListing DEF Ids
  <1> QED
    BY <1>1, <1>2, <1>10, <1>12 DEF ss

\* The orders of a reordering are those of the numbers, or beyond all of them.
LEMMA AskedOrders ==
  ASSUME NEW rs, NEW n \in 0 .. MaxTexts, RowsOK(rs, n), NEW nums \in Inputs
  PROVE  /\ DOMAIN Asked(rs, nums) = DOMAIN rs
         /\ \A i \in DOMAIN rs :
              /\ Asked(rs, nums)[i] \in Nat \ {0}
              /\ (\E k \in DOMAIN nums : nums[k] = Place(rs, i)) =>
                   Asked(rs, nums)[i] \in DOMAIN nums /\ nums[Asked(rs, nums)[i]] = Place(rs, i)
  <1> SUFFICES ASSUME NEW i \in DOMAIN rs
               PROVE  /\ Asked(rs, nums)[i] \in Nat \ {0}
                      /\ (\E k \in DOMAIN nums : nums[k] = Place(rs, i)) =>
                           Asked(rs, nums)[i] \in DOMAIN nums /\ nums[Asked(rs, nums)[i]] = Place(rs, i)
    BY DEF Asked
  <1>1. PICK m \in 1 .. MaxTexts : DOMAIN nums = 1 .. m
    BY DEF Inputs
  <1>2. DOMAIN nums \subseteq Nat /\ \A k \in DOMAIN nums : 1 <= k /\ k <= m
    BY <1>1
  <1>3. CASE \E k \in DOMAIN nums : nums[k] = Place(rs, i)
    <2> DEFINE S == {k \in DOMAIN nums : nums[k] = Place(rs, i)}
    <2>1. \E x \in S : \A y \in S : x >= y
      <3>1. S \subseteq Nat /\ S # {} /\ m \in Nat /\ \A x \in S : x <= m
        BY <1>2, <1>3
      <3> HIDE DEF S
      <3> QED
        BY <3>1, LargestExists
    <2>2. PICK x \in DOMAIN nums : nums[x] = Place(rs, i) /\ \A y \in DOMAIN nums : nums[y] = nums[x] => y <= x
      BY <2>1, <1>2
    <2>3. Asked(rs, nums)[i] = CHOOSE k \in DOMAIN nums :
            nums[k] = Place(rs, i) /\ \A y \in DOMAIN nums : nums[y] = nums[k] => y <= k
      BY <1>3 DEF Asked
    <2>4. Asked(rs, nums)[i] \in DOMAIN nums /\ nums[Asked(rs, nums)[i]] = Place(rs, i)
      BY <2>2, <2>3
    <2> QED
      BY <1>2, <2>4
  <1>4. CASE ~\E k \in DOMAIN nums : nums[k] = Place(rs, i)
    <2>1. Asked(rs, nums)[i] = Moved(rs)[i]
      BY <1>4 DEF Asked
    <2>2. Count(rs) \in Nat /\ rs[i].order \in Nat
      BY RowsProper, FiniteRows DEF Proper
    <2>3. Moved(rs)[i] = rs[i].order + Count(rs) + 1
      BY DEF Moved, Count
    <2> QED
      BY <1>4, <2>1, <2>2, <2>3
  <1> QED
    BY <1>3, <1>4

LEMMA AskedApart ==
  ASSUME NEW rs, NEW n \in 0 .. MaxTexts, RowsOK(rs, n), NEW nums,
         ~FlushFails(Moved(rs), Asked(rs, nums))
  PROVE  \A i, j \in DOMAIN rs : Asked(rs, nums)[i] = Asked(rs, nums)[j] => i = j
  <1>1. Count(rs) \in Nat /\ DOMAIN rs \subseteq Nat /\ \A i \in DOMAIN rs : rs[i].order \in Nat
    BY BoundsType, RowsProper, FiniteRows DEF Proper
  <1>2. DOMAIN Moved(rs) = DOMAIN rs /\ \A i \in DOMAIN rs : Moved(rs)[i] = rs[i].order + Count(rs) + 1
    BY DEF Moved, Count
  <1>3. ASSUME NEW i \in DOMAIN rs, NEW j \in DOMAIN rs, Moved(rs)[i] = Moved(rs)[j]
        PROVE  i = j
    <2>1. rs[i].order = rs[j].order
      BY <1>1, <1>2, <1>3
    <2> QED
      BY <2>1 DEF RowsOK, Distinct
  <1> QED
    BY <1>1, <1>2, <1>3, FlushKeepsApart

-----------------------------------------------------------------------------
(* The five things a step can do to the questions.                           *)

Unmoved == UNCHANGED <<rows, created>>

Added ==
  /\ created < MaxTexts /\ created' = created + 1
  /\ \E order \in Orders : (\A i \in Ids : rows[i].order # order) /\ rows' = WithNew(order)

Removed ==
  /\ created' = created
  /\ \E i \in Ids :
       /\ Deletable(i)
       /\ rows' = Without(i) \/ rows' = Reordered(Without(i), Renumbered(Without(i)))

Shuffled ==
  /\ created' = created /\ DOMAIN rows' = Ids /\ RowsOK(rows', created)
  /\ \A i \in Ids : rows'[i].text = rows[i].text

Cleared == rows' = <<>> /\ answers' = {} /\ created' = created

Typed == TypeOK /\ RowsOK(rows, created)

LEMMA ReorderShuffles ==
  ASSUME Typed, NEW nums \in Inputs,
         ~FlushFails(Moved(rows), Asked(rows, nums)), \A i \in Ids : Asked(rows, nums)[i] <= MaxOrder,
         rows' = Reordered(rows, Asked(rows, nums)), created' = created
  PROVE  Shuffled
  <1>0. created \in 0 .. MaxTexts /\ RowsOK(rows, created)
    BY DEF Typed, TypeOK
  <1>1. \A i \in DOMAIN rows : Asked(rows, nums)[i] \in Orders
    BY <1>0, AskedOrders, BoundsType DEF Ids
  <1>2. \A i, j \in DOMAIN rows : Asked(rows, nums)[i] = Asked(rows, nums)[j] => i = j
    BY <1>0, AskedApart
  <1>3. /\ RowsOK(rows', created) /\ DOMAIN rows' = DOMAIN rows
        /\ \A i \in DOMAIN rows : rows'[i].text = rows[i].text
    BY <1>0, <1>1, <1>2, ReorderedRows
  <1> QED
    BY <1>3 DEF Shuffled, Ids

LEMMA MoveShuffles ==
  ASSUME Typed, NEW order \in Entered, NEW i \in Ids, WebMove(i, order)
  PROVE  Shuffled
  <1>1. order \in Orders
    BY BoundsType
  <1>2. rows' = [rows EXCEPT ![i].order = order] /\ created' = created /\ Free(order, i)
    BY DEF WebMove
  <1>3. DOMAIN rows' = Ids /\ \A j \in Ids : j # i => rows'[j] = rows[j]
    BY <1>2 DEF Ids
  <1>4. rows'[i] = [rows[i] EXCEPT !.order = order] /\ rows[i] \in [text : Texts, order : Orders]
    BY <1>2 DEF Ids, Typed, TypeOK
  <1>5. rows'[i] \in [text : Texts, order : Orders] /\ rows'[i].text = rows[i].text /\ rows'[i].order = order
    BY <1>1, <1>4
  <1>6. \A j \in Ids : j # i => rows'[j].order # order
    BY <1>2, <1>3 DEF Free
  <1>7. \A j, k \in Ids : rows'[j].order = rows'[k].order => j = k
    BY <1>3, <1>5, <1>6 DEF Typed, TypeOK, Distinct, Ids
  <1>8. RowsOK(rows', created)
    BY <1>3, <1>5, <1>7 DEF Typed, RowsOK, Distinct, Ids
  <1> QED
    BY <1>2, <1>3, <1>5, <1>8 DEF Shuffled

LEMMA AdminChange ==
  ASSUME Typed, NEW a \in Admins,
         \/ Begin(a) \/ Close(a) \/ Add(a)
         \/ \E state \in {"add", "remove", "reorder"} : Choose(a, state)
         \/ \E n \in 1..MaxTexts : Remove(a, n) \/ RemoveFails(a, n)
         \/ \E nums \in Inputs : Reorder(a, nums) \/ ReorderFails(a, nums)
  PROVE  Unmoved \/ Added \/ Removed \/ Shuffled
  <1>1. CASE Begin(a) \/ Close(a)
    BY <1>1 DEF Begin, Close, Unmoved
  <1>2. CASE Add(a)
    <2>1. CASE exists
      <3>1. NextOrder \in Nat \ {0} /\ \A i \in Ids : rows[i].order # NextOrder
        BY NextOrderFree DEF Typed, TypeOK
      <3>2. NextOrder \in Orders /\ created < MaxTexts /\ rows' = WithNew(NextOrder) /\ created' = created + 1
        BY <1>2, <2>1, <3>1, BoundsType DEF Add
      <3> QED
        BY <3>1, <3>2 DEF Added
    <2>2. CASE ~exists
      BY <1>2, <2>2 DEF Add, Unmoved
    <2> QED
      BY <2>1, <2>2
  <1>3. ASSUME NEW state \in {"add", "remove", "reorder"}, Choose(a, state)
        PROVE  Unmoved
    BY <1>3 DEF Choose, Unmoved
  <1>4. ASSUME NEW n \in 1 .. MaxTexts, Remove(a, n)
        PROVE  Unmoved \/ Removed
    BY <1>4 DEF Remove, Unmoved, Removed
  <1>5. ASSUME NEW n \in 1 .. MaxTexts, RemoveFails(a, n)
        PROVE  Unmoved
    BY <1>5 DEF RemoveFails, Fails, Unmoved
  <1>6. ASSUME NEW nums \in Inputs, Reorder(a, nums)
        PROVE  Unmoved \/ Shuffled
    BY <1>6, ReorderShuffles DEF Reorder, Unmoved
  <1>7. ASSUME NEW nums \in Inputs, ReorderFails(a, nums)
        PROVE  Unmoved
    BY <1>7 DEF ReorderFails, Fails, Unmoved
  <1> QED
    BY <1>1, <1>2, <1>3, <1>4, <1>5, <1>6, <1>7

LEMMA NextChange ==
  ASSUME Typed, [Next]_vars
  PROVE  Unmoved \/ Added \/ Removed \/ Shuffled \/ Cleared
  <1>1. ASSUME NEW order \in Entered, WebAdd(order)
        PROVE  Added
    <2>1. order \in Orders /\ \A i \in Ids : i # 0
      BY BoundsType DEF Typed, TypeOK
    <2> QED
      BY <1>1, <2>1 DEF WebAdd, Free, Added
  <1>2. ASSUME NEW order \in Entered, NEW i \in Ids, WebMove(i, order)
        PROVE  Shuffled
    BY <1>2, MoveShuffles
  <1>3. ASSUME NEW i \in Ids, WebDelete(i)
        PROVE  Removed
    BY <1>3 DEF WebDelete, Removed
  <1>4. CASE Submit \/ Restart \/ UNCHANGED vars
    BY <1>4 DEF Submit, Restart, Unmoved, vars
  <1>5. CASE DeleteForm
    BY <1>5 DEF DeleteForm, Cleared
  <1>6. CASE \E a \in Admins :
         \/ Begin(a) \/ Close(a) \/ Add(a)
         \/ \E state \in {"add", "remove", "reorder"} : Choose(a, state)
         \/ \E n \in 1..MaxTexts : Remove(a, n) \/ RemoveFails(a, n)
         \/ \E nums \in Inputs : Reorder(a, nums) \/ ReorderFails(a, nums)
    BY <1>6, AdminChange
  <1> QED
    BY <1>1, <1>2, <1>3, <1>4, <1>5, <1>6 DEF Next

\* What stays true of the rows in all five cases.
LEMMA ChangeRows ==
  ASSUME Typed, Unmoved \/ Added \/ Removed \/ Shuffled \/ Cleared
  PROVE  created' \in 0 .. MaxTexts /\ RowsOK(rows', created')
  <1>0. created \in 0 .. MaxTexts /\ RowsOK(rows, created) /\ created \in Nat
    BY BoundsType DEF Typed, TypeOK
  <1>1. CASE Unmoved
    BY <1>0, <1>1 DEF Unmoved, Typed
  <1>2. CASE Added
    <2>1. created' \in 0 .. MaxTexts
      BY <1>0, <1>2, BoundsType DEF Added
    <2>2. RowsOK(rows', created + 1)
      BY <1>0, <1>2, WithNewRows DEF Added
    <2> QED
      BY <1>2, <2>1, <2>2 DEF Added
  <1>3. CASE Removed
    <2>1. PICK i \in Ids : rows' = Without(i) \/ rows' = Reordered(Without(i), Renumbered(Without(i)))
      BY <1>3 DEF Removed
    <2>2. RowsOK(Without(i), created)
      BY <1>0, WithoutRows
    <2>3. RowsOK(Reordered(Without(i), Renumbered(Without(i))), created)
      BY <1>0, <2>2, RenumberedRows
    <2> QED
      BY <1>0, <1>3, <2>1, <2>2, <2>3 DEF Removed
  <1>4. CASE Shuffled
    BY <1>0, <1>4 DEF Shuffled
  <1>5. CASE Cleared
    <2>1. rows' = <<>> /\ DOMAIN rows' = {}
      BY <1>5 DEF Cleared
    <2> QED
      BY <1>0, <1>5, <2>1 DEF Cleared, RowsOK, Distinct
  <1> QED
    BY <1>1, <1>2, <1>3, <1>4, <1>5

-----------------------------------------------------------------------------
(* Type correctness.                                                         *)

Conversations == [at : {"closed", "menu", "add", "remove", "reorder"}, shown : Seq(Shown), armed : BOOLEAN]

LEMMA LoadedType ==
  ASSUME NEW rs, NEW n \in 0 .. MaxTexts, RowsOK(rs, n)
  PROVE  Loaded(rs) \in Seq(Shown)
  <1>1. Proper(rs) /\ Count(rs) \in Nat
    BY RowsProper, FiniteRows DEF Proper
  <1>2. \A p \in 1 .. Count(rs) : [id |-> At(rs, p), text |-> rs[At(rs, p)].text] \in Shown
    <2> SUFFICES ASSUME NEW p \in 1 .. Count(rs)
                 PROVE  [id |-> At(rs, p), text |-> rs[At(rs, p)].text] \in Shown
      OBVIOUS
    <2>1. At(rs, p) \in DOMAIN rs
      BY <1>1, AtPlace
    <2>2. At(rs, p) \in Texts /\ rs[At(rs, p)].text \in Texts
      BY <2>1, BoundsType DEF RowsOK
    <2> QED
      BY <2>2 DEF Shown
  <1>3. Loaded(rs) = [p \in 1 .. Count(rs) |-> [id |-> At(rs, p), text |-> rs[At(rs, p)].text]]
    BY DEF Loaded, Count
  <1> QED
    BY <1>1, <1>2, <1>3

LEMMA MenuType ==
  ASSUME Typed, NEW a \in Admins, NEW rs, NEW n \in 0 .. MaxTexts, RowsOK(rs, n), Menu(a, rs)
  PROVE  admin' \in [Admins -> Conversations]
  <1>1. Loaded(rs) \in Seq(Shown) /\ <<>> \in Seq(Shown)
    BY LoadedType
  <1>2. [at |-> "menu", shown |-> Loaded(rs), armed |-> FALSE] \in Conversations
        /\ [at |-> "closed", shown |-> <<>>, armed |-> FALSE] \in Conversations
    BY <1>1 DEF Conversations
  <1> QED
    BY <1>2 DEF Menu, Typed, TypeOK, Conversations

LEMMA AdminType ==
  ASSUME Typed, [Next]_vars
  PROVE  admin' \in [Admins -> Conversations]
  <1>0. admin \in [Admins -> Conversations] /\ <<>> \in Seq(Shown)
    BY DEF Typed, TypeOK, Conversations
  <1>1. created' \in 0 .. MaxTexts /\ RowsOK(rows', created') /\ created \in 0 .. MaxTexts /\ RowsOK(rows, created)
    BY NextChange, ChangeRows DEF Typed, TypeOK
  <1>2. ASSUME NEW a \in Admins, Menu(a, rows) \/ Menu(a, rows')
        PROVE  admin' \in [Admins -> Conversations]
    BY <1>1, <1>2, MenuType
  <1>3. ASSUME NEW a \in Admins, Fails(a)
        PROVE  admin' \in [Admins -> Conversations]
    BY <1>0, <1>3 DEF Fails, Conversations
  <1>4. ASSUME NEW a \in Admins, NEW state \in {"add", "remove", "reorder"}, Choose(a, state)
        PROVE  admin' \in [Admins -> Conversations]
    <2>1. admin[a].shown \in Seq(Shown)
      BY <1>0 DEF Conversations
    <2>2. [at |-> state, shown |-> IF state = "add" THEN <<>> ELSE admin[a].shown, armed |-> state # "add"] \in Conversations
      BY <1>0, <2>1 DEF Conversations
    <2> QED
      BY <1>0, <1>4, <2>2 DEF Choose
  <1>5. ASSUME NEW a \in Admins, Close(a)
        PROVE  admin' \in [Admins -> Conversations]
    <2>1. [at |-> "closed", shown |-> <<>>, armed |-> FALSE] \in Conversations
      BY <1>0 DEF Conversations
    <2> QED
      BY <1>0, <1>5, <2>1 DEF Close
  <1>6. CASE Restart
    <2>1. [at |-> "closed", shown |-> <<>>, armed |-> FALSE] \in Conversations
      BY <1>0 DEF Conversations
    <2> QED
      BY <1>6, <2>1 DEF Restart
  <1>7. CASE admin' = admin
    BY <1>0, <1>7
  <1> QED
    BY <1>2, <1>3, <1>4, <1>5, <1>6, <1>7
       DEF Next, vars, Begin, Add, Remove, RemoveFails, Reorder, ReorderFails, WebAdd, WebMove, WebDelete,
           Submit, DeleteForm

\* Only Submit and DeleteForm touch the answers, only DeleteForm the form.
LEMMA AnswersChange ==
  ASSUME [Next]_vars
  PROVE  /\ \/ answers' = answers
            \/ Unmoved /\ answers' = answers \cup {<<i, rows[i].text>> : i \in Ids}
            \/ answers' = {}
         /\ exists' = exists \/ exists' = FALSE
  BY DEF Next, vars, Begin, Close, Add, Choose, Remove, RemoveFails, Fails, Reorder, ReorderFails, WebAdd, WebMove,
         WebDelete, Submit, DeleteForm, Restart, Unmoved

LEMMA NextType ==
  ASSUME Typed, [Next]_vars
  PROVE  Typed'
  <1>1. created' \in 0 .. MaxTexts /\ RowsOK(rows', created')
    BY NextChange, ChangeRows
  <1>2. admin' \in [Admins -> Conversations]
    BY AdminType
  <1>3. answers' \subseteq Texts \X Texts
    <2>1. \A i \in Ids : <<i, rows[i].text>> \in Texts \X Texts
      BY DEF Typed, TypeOK
    <2>2. answers \subseteq Texts \X Texts
      BY DEF Typed, TypeOK
    <2>3. answers' = answers \/ answers' = answers \cup {<<i, rows[i].text>> : i \in Ids} \/ answers' = {}
      BY AnswersChange
    <2> QED
      BY <2>1, <2>2, <2>3
  <1>4. exists' \in BOOLEAN
    BY AnswersChange DEF Typed, TypeOK
  <1>5. Ids' \subseteq Texts /\ (\A i \in Ids' : rows'[i] \in [text : Texts, order : Orders]) /\ Distinct(rows')
    BY <1>1, BoundsType DEF RowsOK, Ids
  <1> QED
    BY <1>1, <1>2, <1>3, <1>4, <1>5 DEF Typed, TypeOK, Conversations

LEMMA InitType == Init => Typed
  <1> SUFFICES ASSUME Init PROVE Typed
    OBVIOUS
  <1>1. PICK order \in [1 .. Imported -> Entered] :
          /\ \A i, j \in 1 .. Imported : order[i] = order[j] => i = j
          /\ rows = [i \in 1 .. Imported |-> [text |-> i, order |-> order[i]]]
    BY DEF Init
  <1>2. 1 .. Imported \subseteq Texts
    BY ConstantsAssumption DEF Texts
  <1>3. DOMAIN rows = 1 .. Imported
        /\ \A i \in 1 .. Imported : rows[i] = [text |-> i, order |-> order[i]] /\ order[i] \in Orders
    BY <1>1, BoundsType
  <1>4. \A i \in 1 .. Imported : rows[i] \in [text : Texts, order : Orders] /\ rows[i].text = i /\ rows[i].order = order[i]
    BY <1>2, <1>3
  <1>5. created = Imported /\ created \in 0 .. MaxTexts
    BY ConstantsAssumption DEF Init
  <1>6. RowsOK(rows, created)
    BY <1>1, <1>3, <1>4, <1>5, BoundsType DEF RowsOK, Distinct
  <1>7. admin \in [Admins -> Conversations]
    BY DEF Init, Conversations
  <1> QED
    BY <1>2, <1>3, <1>4, <1>5, <1>6, <1>7 DEF Init, Typed, TypeOK, RowsOK, Ids, Conversations

LEMMA Typing == Spec => []Typed
  BY InitType, NextType, PTL DEF Spec

\* The types of FormQuestions and the unique index: whatever the admins and the dashboard
\* do, no two questions of the form have one SortOrder (forms.py:77).
THEOREM TypeCorrect == Spec => []TypeOK
  <1>1. Typed => TypeOK
    BY DEF Typed
  <1> QED
    BY <1>1, Typing, PTL

-----------------------------------------------------------------------------
(* Answers, on PostgreSQL.                                                   *)

LEMMA InitAnswers == Init => AnswersKeepTheirQuestion
  BY DEF Init, AnswersKeepTheirQuestion

\* A question somebody answered outlives the step, with its text.
LEMMA AnsweredStays ==
  ASSUME Postgres, Typed, Unmoved \/ Added \/ Removed \/ Shuffled, NEW i \in Ids, Answered(i)
  PROVE  i \in Ids' /\ rows'[i].text = rows[i].text
  <1>0. created \in 0 .. MaxTexts /\ RowsOK(rows, created)
    BY DEF Typed, TypeOK
  <1>1. CASE Unmoved
    BY <1>1 DEF Unmoved, Ids
  <1>2. CASE Added
    <2>1. PICK order \in Orders : (\A j \in Ids : rows[j].order # order) /\ rows' = WithNew(order)
      BY <1>2 DEF Added
    <2>2. DOMAIN rows' = Ids \cup {NewId} /\ \A j \in Ids : rows'[j] = rows[j]
      BY <1>0, <1>2, <2>1, WithNewRows DEF Added
    <2> QED
      BY <2>2 DEF Ids
  <1>3. CASE Removed
    <2>1. PICK j \in Ids : Deletable(j) /\ (rows' = Without(j) \/ rows' = Reordered(Without(j), Renumbered(Without(j))))
      BY <1>3 DEF Removed
    <2>2. i # j
      BY <2>1 DEF Deletable
    <2>3. /\ RowsOK(Without(j), created) /\ i \in DOMAIN Without(j) /\ Without(j)[i] = rows[i]
      BY <1>0, <2>2, WithoutRows
    <2>4. i \in DOMAIN Reordered(Without(j), Renumbered(Without(j)))
          /\ Reordered(Without(j), Renumbered(Without(j)))[i].text = rows[i].text
      BY <1>0, <2>3, RenumberedRows
    <2> QED
      BY <2>1, <2>3, <2>4 DEF Ids
  <1>4. CASE Shuffled
    BY <1>4 DEF Shuffled, Ids
  <1> QED
    BY <1>1, <1>2, <1>3, <1>4

LEMMA NextAnswers ==
  ASSUME Postgres, Typed, AnswersKeepTheirQuestion, [Next]_vars
  PROVE  AnswersKeepTheirQuestion'
  <1>1. CASE answers' = {}
    BY <1>1 DEF AnswersKeepTheirQuestion
  <1>2. CASE answers' = answers
    <2>1. CASE Cleared
      BY <1>1, <2>1 DEF Cleared
    <2>2. CASE Unmoved \/ Added \/ Removed \/ Shuffled
      <3> SUFFICES ASSUME NEW answer \in answers
                   PROVE  answer[1] \in Ids' /\ rows'[answer[1]].text = answer[2]
        BY <1>2 DEF AnswersKeepTheirQuestion
      <3>1. answer[1] \in Ids /\ rows[answer[1]].text = answer[2] /\ Answered(answer[1])
        BY DEF AnswersKeepTheirQuestion, Answered
      <3> QED
        BY <2>2, <3>1, AnsweredStays
    <2> QED
      BY <2>1, <2>2, NextChange
  <1>3. CASE Unmoved /\ answers' = answers \cup {<<i, rows[i].text>> : i \in Ids}
    BY <1>3 DEF Unmoved, AnswersKeepTheirQuestion, Ids
  <1> QED
    BY <1>1, <1>2, <1>3, AnswersChange

\* On PostgreSQL an answer belongs for good to the question it was given to: its id is
\* neither deleted nor given to another question (submissions.py:106).
THEOREM AnswersKept == Spec /\ Postgres => []AnswersKeepTheirQuestion
  <1>1. Postgres /\ Typed /\ AnswersKeepTheirQuestion /\ [Next]_vars => AnswersKeepTheirQuestion'
    BY NextAnswers
  <1>2. CASE Postgres
    BY <1>1, <1>2, InitAnswers, Typing, PTL DEF Spec
  <1>3. CASE ~Postgres
    BY <1>3
  <1> QED
    BY <1>2, <1>3

-----------------------------------------------------------------------------
(* The list without repetition that the rows implement.                      *)

LEMMA InitImplements == Init => Abstract!Init
  <1> SUFFICES ASSUME Typed PROVE Abstract!Init
    BY InitType
  <1>1. Proper(rows) /\ Apart(rows)
    BY RowsProper DEF Typed, TypeOK
  <1>2. Listing(rows) \in Seq(Texts) /\ DOMAIN Listing(rows) = 1 .. Count(rows)
        /\ \A p, q \in 1 .. Count(rows) : Listing(rows)[p] = Listing(rows)[q] => p = q
    BY <1>1, ListingType
  <1> QED
    BY <1>2, ListedIsListing DEF Abstract!Init, Abstract!IsInjective

LEMMA AddedPuts ==
  ASSUME Typed, Added
  PROVE  \E q \in Texts : Abstract!Put(q)
  <1>1. PICK order \in Orders : (\A i \in Ids : rows[i].order # order) /\ rows' = WithNew(order)
    BY DEF Added
  <1>2. created \in 0 .. MaxTexts /\ RowsOK(rows, created) /\ created < MaxTexts
    BY DEF Typed, TypeOK, Added
  <1>3. /\ Place(rows', NewId) \in 1 .. Len(Listing(rows)) + 1
        /\ Listing(rows') = Abstract!InsertAt(Listing(rows), Place(rows', NewId), created + 1)
    BY <1>1, <1>2, WithNewRows
  <1>4. Proper(rows) /\ Apart(rows)
    BY <1>2, RowsProper
  <1>5. created + 1 \in Texts /\ created \in Nat
    BY <1>2, BoundsType
  <1>6. \A i \in DOMAIN rows : rows[i].text # created + 1
    BY <1>2, <1>5, BoundsType DEF RowsOK
  <1>7. created + 1 \notin Abstract!Range(Listing(rows))
    <2>1. DOMAIN Listing(rows) = 1 .. Count(rows)
          /\ \A x : (\E p \in 1 .. Count(rows) : Listing(rows)[p] = x) <=> (\E i \in DOMAIN rows : rows[i].text = x)
      BY <1>4, ListingType
    <2> QED
      BY <1>6, <2>1 DEF Abstract!Range
  <1> QED
    BY <1>3, <1>5, <1>7, ListedIsListing DEF Abstract!Put

LEMMA RemovedTakesOut ==
  ASSUME Typed, Removed
  PROVE  Abstract!TakeOut
  <1>1. PICK i \in Ids : rows' = Without(i) \/ rows' = Reordered(Without(i), Renumbered(Without(i)))
    BY DEF Removed
  <1>2. created \in 0 .. MaxTexts /\ RowsOK(rows, created)
    BY DEF Typed, TypeOK
  <1>3. /\ RowsOK(Without(i), created) /\ Place(rows, i) \in DOMAIN Listing(rows)
        /\ Listing(Without(i)) = Abstract!RemoveAt(Listing(rows), Place(rows, i))
    BY <1>2, WithoutRows
  <1>4. Listing(Reordered(Without(i), Renumbered(Without(i)))) = Listing(Without(i))
    BY <1>2, <1>3, RenumberedRows
  <1>5. Listing(rows') = Abstract!RemoveAt(Listing(rows), Place(rows, i))
    BY <1>1, <1>3, <1>4
  <1> QED
    BY <1>3, <1>5, ListedIsListing DEF Abstract!TakeOut

LEMMA ShuffledRearranges ==
  ASSUME Typed, Shuffled
  PROVE  Abstract!Rearrange
  <1>1. created \in 0 .. MaxTexts /\ RowsOK(rows, created) /\ RowsOK(rows', created)
    BY DEF Typed, TypeOK, Shuffled
  <1>2. Proper(rows) /\ Apart(rows) /\ Proper(rows') /\ Apart(rows')
    BY <1>1, RowsProper
  <1>3. DOMAIN rows' = DOMAIN rows /\ \A i \in DOMAIN rows : rows'[i].text = rows[i].text
    BY DEF Shuffled, Ids
  <1>4. Count(rows') = Count(rows)
    BY <1>3 DEF Count
  <1>5. Len(Listing(rows')) = Len(Listing(rows))
    BY <1>2, <1>4, ListingType
  <1>6. \A x : x \in Abstract!Range(Listing(rows)) <=> \E i \in DOMAIN rows : rows[i].text = x
    BY <1>2, ListingType DEF Abstract!Range
  <1>7. \A x : x \in Abstract!Range(Listing(rows')) <=> \E i \in DOMAIN rows' : rows'[i].text = x
    <2>1. DOMAIN Listing(rows') = 1 .. Count(rows')
          /\ \A x : (\E p \in 1 .. Count(rows') : Listing(rows')[p] = x) <=> (\E i \in DOMAIN rows' : rows'[i].text = x)
      BY <1>2, ListingType
    <2> QED
      BY <2>1 DEF Abstract!Range
  <1>8. Abstract!Range(Listing(rows')) = Abstract!Range(Listing(rows))
    BY <1>3, <1>6, <1>7
  <1> QED
    BY <1>5, <1>8, ListedIsListing DEF Abstract!Rearrange

LEMMA ClearedClears ==
  ASSUME Cleared
  PROVE  Abstract!Clear
  <1>1. DOMAIN rows' = {}
    BY DEF Cleared
  <1>2. Count(rows') = 0
    BY <1>1, FS_EmptySet DEF Count
  <1>3. Listing(rows') = <<>>
    BY <1>2 DEF Listing
  <1> QED
    BY <1>3, ListedIsListing DEF Abstract!Clear

LEMMA StepImplements ==
  ASSUME Typed, [Next]_vars
  PROVE  [Abstract!Next]_Listed
  <1>1. CASE Unmoved
    BY <1>1, ListedIsListing DEF Unmoved
  <1>2. CASE Added
    BY <1>2, AddedPuts DEF Abstract!Next
  <1>3. CASE Removed
    BY <1>3, RemovedTakesOut DEF Abstract!Next
  <1>4. CASE Shuffled
    BY <1>4, ShuffledRearranges DEF Abstract!Next
  <1>5. CASE Cleared
    BY <1>5, ClearedClears DEF Abstract!Next
  <1> QED
    BY <1>1, <1>2, <1>3, <1>4, <1>5, NextChange

\* Rows, orders, renumbering and two-phase updates implement a list of questions without
\* repetition: every step puts one in, takes one out, rearranges or clears the list (forms.py:31).
THEOREM QuestionsAreAList == Spec => ImplementsQuestionList
  <1>1. Typed /\ [Next]_vars => [Abstract!Next]_Listed
    BY StepImplements
  <1> QED
    BY <1>1, InitImplements, Typing, PTL DEF Spec, ImplementsQuestionList, Abstract!Spec

-----------------------------------------------------------------------------
(* Reorderings give what was asked for.                                      *)

LEMMA ReorderGives ==
  ASSUME Typed, NEW a \in Admins, NEW nums \in Inputs, Reorder(a, nums), exists,
         admin[a].armed, Loaded(rows) = admin[a].shown
  PROVE  Listed' = [p \in DOMAIN nums |-> admin[a].shown[nums[p]].text]
  <1> DEFINE n == Count(rows)
             ord == Asked(rows, nums)
  <1>0. created \in 0 .. MaxTexts /\ RowsOK(rows, created) /\ Proper(rows) /\ n \in Nat
    BY RowsProper, FiniteRows DEF Typed, TypeOK, Proper
  <1>1. PICK m \in 1 .. MaxTexts : nums \in [1 .. m -> 1 .. MaxTexts]
    BY DEF Inputs
  <1>2. Len(nums) = m /\ DOMAIN nums = 1 .. m /\ m \in Nat
    BY <1>1
  <1>3. DOMAIN Loaded(rows) = 1 .. n /\ Len(Loaded(rows)) = n
        /\ \A p \in 1 .. n : Loaded(rows)[p].text = rows[At(rows, p)].text
    <2>1. Loaded(rows) = [p \in 1 .. n |-> [id |-> At(rows, p), text |-> rows[At(rows, p)].text]]
      BY DEF Loaded, Count
    <2> HIDE DEF n
    <2>2. Loaded(rows) \in Seq(Shown)
      BY <1>0, LoadedType
    <2> QED
      BY <1>0, <2>1, <2>2
  <1>4. Len(nums) = n /\ {nums[k] : k \in DOMAIN nums} = 1 .. n
    BY <1>3 DEF Reorder, Validated
  <1>5. DOMAIN nums = 1 .. n
    BY <1>2, <1>4
  <1>6. \A i \in DOMAIN rows : ord[i] \in 1 .. n /\ nums[ord[i]] = Place(rows, i)
    <2> SUFFICES ASSUME NEW i \in DOMAIN rows
                 PROVE  ord[i] \in 1 .. n /\ nums[ord[i]] = Place(rows, i)
      OBVIOUS
    <2>1. Place(rows, i) \in 1 .. n
      BY <1>0, PlaceRange
    <2>2. \E k \in DOMAIN nums : nums[k] = Place(rows, i)
      BY <1>4, <2>1
    <2> QED
      BY <1>0, <1>5, <2>2, AskedOrders
  <1>7. rows' = Reordered(rows, ord)
    BY DEF Reorder
  <1>8. \A i \in DOMAIN rows : ord[i] \in Orders
    BY <1>0, <1>6, AskedOrders, BoundsType DEF Reorder, Ids
  <1>9. \A i, j \in DOMAIN rows : ord[i] = ord[j] => i = j
    BY <1>0, AskedApart DEF Reorder
  <1>10. /\ RowsOK(rows', created) /\ DOMAIN rows' = DOMAIN rows
         /\ \A i \in DOMAIN rows : rows'[i].text = rows[i].text /\ rows'[i].order = ord[i]
    <2> HIDE DEF ord
    <2> QED
      BY <1>0, <1>7, <1>8, <1>9, ReorderedRows
  <1>11. Proper(rows') /\ Count(rows') = n
    BY <1>0, <1>10, RowsProper DEF Count
  <1>12. \A i \in DOMAIN rows : Place(rows', i) = ord[i]
    <2> HIDE DEF ord, n
    <2> QED
      BY <1>6, <1>10, <1>11, PlaceIsOrder
  <1>13. ASSUME NEW p \in 1 .. n
         PROVE  Listing(rows')[p] = admin[a].shown[nums[p]].text
    <2> DEFINE i == At(rows', p)
    <2>1. i \in DOMAIN rows /\ Place(rows', i) = p
      BY <1>10, <1>11, AtPlace
    <2>2. Listing(rows')[p] = rows'[i].text
      BY <1>11 DEF Listing
    <2> HIDE DEF i, n, ord
    <2>3. ord[i] = p /\ nums[p] = Place(rows, i) /\ nums[p] \in 1 .. n
      BY <1>4, <1>5, <1>6, <1>12, <2>1
    <2>4. At(rows, nums[p]) = i
      BY <1>0, <2>1, <2>3, AtPlace
    <2>5. admin[a].shown[nums[p]].text = rows[i].text
      BY <1>3, <2>3, <2>4
    <2> QED
      BY <1>10, <2>1, <2>2, <2>5
  <1>14. Listing(rows') = [p \in DOMAIN nums |-> admin[a].shown[nums[p]].text]
    <2>1. Listing(rows') = [p \in 1 .. n |-> Listing(rows')[p]]
      BY <1>11 DEF Listing
    <2> QED
      BY <1>5, <1>13, <2>1
  <1> QED
    BY <1>14, ListedIsListing

\* A reordering that was validated, of questions that are still as shown, makes the list
\* the one asked for, whatever the orders and ids of its rows are (conversations.py:681).
THEOREM ReorderingsAsAsked == Spec => ReorderedAsAsked
  <1>1. Typed /\ [Next]_vars =>
          [\A a \in Admins : Confirmed(a, "reorder") /\ admin[a].armed /\ Loaded(rows) = admin[a].shown =>
             \A nums \in Inputs : Reorder(a, nums) /\ exists =>
               Listed' = [p \in DOMAIN nums |-> admin[a].shown[nums[p]].text]]_vars
    BY ReorderGives
  <1> QED
    BY <1>1, Typing, PTL DEF Spec, ReorderedAsAsked
=============================================================================
