--------------------------- MODULE QueueOpsProofs ---------------------------
(***************************************************************************)
(* What the operations on the queue are made of: facts about positions,    *)
(* searches, insertions and removals, for queues of any length and items   *)
(* of any kind.  The proofs about QueueStore and Playback rest on them.    *)
(***************************************************************************)
EXTENDS QueueOps, FiniteSetTheorems, WellFoundedInduction, TLAPS

-----------------------------------------------------------------------------
(***************************************************************************)
(* The first and the last of some positions.                               *)
(***************************************************************************)

\* Every set of numbers that is not empty has a least one.
LEMMA LeastExists == \A S \in SUBSET Nat : S # {} => \E x \in S : \A y \in S : x <= y
<1> DEFINE R == OpToRel(<, Nat)
<1>1. \A x, y \in Nat : <<y, x>> \in R <=> y < x
  BY DEF OpToRel
<1>2. IsWellFoundedOn(R, Nat)
  BY NatLessThanWellFounded
<1> HIDE DEF R
<1>3. SUFFICES ASSUME NEW S \in SUBSET Nat, S # {}
               PROVE  \E x \in S : \A y \in S : x <= y
  OBVIOUS
<1>4. PICK x \in S : \A y \in S : ~ (<<y, x>> \in R)
  BY <1>2, <1>3, WFMin
<1>5. \A y \in S : ~ (y < x)
  BY <1>1, <1>4
<1>6. QED
  BY <1>5

\* The least of some positions is one of them.
LEMMA MinIsMember ==
  ASSUME NEW S \in SUBSET Nat, S # {}
  PROVE  Min(S) \in S
<1>1. \E x \in S : \A y \in S : x <= y
  BY LeastExists, Zenon
<1>2. QED
  BY <1>1 DEF Min

\* So is the greatest of positions up to n.
LEMMA MaxIsMember ==
  ASSUME NEW n \in Nat, NEW S \in SUBSET (1 .. n), S # {}
  PROVE  Max(S) \in S
<1> DEFINE D == {d \in Nat : \E x \in S : d = n - x}
<1>1. PICK z \in S : TRUE
  OBVIOUS
<1>2. n - z \in D /\ D \in SUBSET Nat
  <2>1. z \in 1 .. n /\ n - z \in Nat
    OBVIOUS
  <2>2. QED
    BY <2>1
<1>3. D # {}
  BY <1>2
<1>4. PICK d \in D : \A e \in D : d <= e
  <2> HIDE DEF D
  <2>1. QED
    BY <1>2, <1>3, LeastExists, Zenon
<1>5. PICK x \in S : d = n - x
  BY <1>4
<1>6. \A y \in S : x >= y
  <2>1. SUFFICES ASSUME NEW y \in S
                 PROVE  x >= y
    OBVIOUS
  <2>2. x \in 1 .. n /\ y \in 1 .. n /\ n - y \in Nat
    OBVIOUS
  <2>3. n - y \in D
    BY <2>2
  <2>4. d <= n - y
    BY <1>4, <2>3
  <2> HIDE DEF D
  <2>5. QED
    BY <1>5, <2>2, <2>4
<1>7. \E v \in S : \A y \in S : v >= y
  BY <1>6
<1>8. QED
  BY <1>7 DEF Max

\* findIndex answers -1 or a position of the queue.
LEMMA FirstIsPosition ==
  ASSUME NEW S, NEW q \in Seq(S), NEW track
  PROVE  FirstWithTrack(q, track) \in -1 .. Len(q) - 1
<1> DEFINE I == {i \in 1..Len(q) : q[i].track = track}
<1>1. FirstWithTrack(q, track) = IF I # {} THEN Min(I) - 1 ELSE -1
  BY DEF FirstWithTrack, SelectInSeq
<1>2. CASE I # {}
  <2>1. I \in SUBSET Nat
    OBVIOUS
  <2>2. Min(I) \in I
    BY <1>2, <2>1, MinIsMember
  <2>3. QED
    BY <1>1, <1>2, <2>2
<1>3. QED
  BY <1>1, <1>2

\* byId finds an item that carries the id, whenever there is one.
LEMMA LastCarriesId ==
  ASSUME NEW S, NEW q \in Seq(S), NEW id \in IdsOf(q)
  PROVE  LET k == SelectLastInSeq(q, LAMBDA it : it.id = id)
         IN  k \in 1 .. Len(q) /\ q[k].id = id
<1> DEFINE I == {i \in 1 .. Len(q) : q[i].id = id}
           k == SelectLastInSeq(q, LAMBDA it : it.id = id)
<1>1. k = IF I # {} THEN Max(I) ELSE 0
  BY DEF SelectLastInSeq
<1> HIDE DEF k
<1>2. I # {} /\ I \in SUBSET (1 .. Len(q)) /\ Len(q) \in Nat
  BY DEF IdsOf
<1>3. Max(I) \in I
  <2> HIDE DEF I
  <2>1. QED
    BY <1>2, MaxIsMember
<1>4. k \in I
  BY <1>1, <1>2, <1>3
<1>5. QED
  BY <1>4 DEF k

\* What reorder puts together are items of the queue.
LEMMA ReorderPicks ==
  ASSUME NEW S, NEW q \in Seq(S), NEW order \in Seq(Nat), ToSet(order) \subseteq IdsOf(q)
  PROVE  LET byId(id) == q[SelectLastInSeq(q, LAMBDA it : it.id = id)]
             o == [k \in DOMAIN order |-> byId(order[k])]
         IN  /\ o \in Seq(S) /\ Len(o) = Len(order)
             /\ \A k \in 1 .. Len(order) : o[k].id = order[k]
<1> DEFINE at(id) == SelectLastInSeq(q, LAMBDA it : it.id = id)
           o == [k \in DOMAIN order |-> q[at(order[k])]]
<1>1. DOMAIN order = 1 .. Len(order) /\ Len(order) \in Nat
  OBVIOUS
<1>2. ASSUME NEW k \in 1 .. Len(order)
      PROVE  at(order[k]) \in 1 .. Len(q) /\ q[at(order[k])].id = order[k]
  <2>1. order[k] \in IdsOf(q)
    BY <1>1 DEF ToSet
  <2>2. QED
    BY <2>1, LastCarriesId
<1> HIDE DEF at
<1>3. \A k \in 1 .. Len(order) : q[at(order[k])] \in S
  BY <1>2
<1>4. o \in Seq(S) /\ Len(o) = Len(order)
  BY <1>1, <1>3
<1>5. \A k \in 1 .. Len(order) : o[k].id = order[k]
  BY <1>1, <1>2
<1>6. QED
  BY <1>4, <1>5 DEF at

-----------------------------------------------------------------------------
(***************************************************************************)
(* Insertion.                                                              *)
(***************************************************************************)

\* splice(i, 0, e) adds e and moves what follows up by one.
LEMMA InsertAdds ==
  ASSUME NEW S, NEW q \in Seq(S), NEW i \in 1 .. Len(q) + 1, NEW e \in S
  PROVE  /\ InsertAt(q, i, e) \in Seq(S)
         /\ Len(InsertAt(q, i, e)) = Len(q) + 1
         /\ \A k \in 1 .. Len(q) + 1 :
              InsertAt(q, i, e)[k] = IF k < i THEN q[k] ELSE IF k = i THEN e ELSE q[k - 1]
<1> DEFINE front == SubSeq(q, 1, i - 1)
           back == SubSeq(q, i, Len(q))
<1>1. /\ front \in Seq(S) /\ Len(front) = i - 1
      /\ \A k \in 1 .. i - 1 : front[k] = q[k]
  OBVIOUS
<1>2. /\ back \in Seq(S) /\ Len(back) = Len(q) - i + 1
      /\ \A k \in 1 .. Len(q) - i + 1 : back[k] = q[i + k - 1]
  OBVIOUS
<1>3. InsertAt(q, i, e) = (front \o <<e>>) \o back
  BY DEF InsertAt
<1> HIDE DEF front, back
<1>4. QED
  BY <1>1, <1>2, <1>3

-----------------------------------------------------------------------------
(***************************************************************************)
(* Removal.                                                                *)
(***************************************************************************)

\* How many positions of S are at most k.
UpTo(S, k) == {j \in S : j <= k}

\* The positions up to k are finitely many, no more than all of them.
LEMMA CountsFinitely ==
  ASSUME NEW n \in Nat, NEW S \in SUBSET (1 .. n)
  PROVE  /\ \A j \in S : j \in Int /\ 1 <= j /\ j <= n
         /\ IsFiniteSet(S) /\ Cardinality(S) \in Nat
         /\ \A k \in Nat : /\ IsFiniteSet(UpTo(S, k)) /\ Cardinality(UpTo(S, k)) \in Nat
                           /\ Cardinality(UpTo(S, k)) <= Cardinality(S)
         /\ UpTo(S, 0) = {} /\ UpTo(S, n) = S
<1>0. \A j \in S : j \in Int /\ 1 <= j /\ j <= n
  OBVIOUS
<1>1. IsFiniteSet(S) /\ Cardinality(S) \in Nat
  <2>1. IsFiniteSet(1 .. n)
    BY FS_Interval
  <2>2. S \in SUBSET (1 .. n)
    OBVIOUS
  <2>3. IsFiniteSet(S)
    BY <2>1, <2>2, FS_Subset
  <2>4. QED
    BY <2>3, FS_CardinalityType
<1>2. ASSUME NEW k \in Nat
      PROVE  /\ IsFiniteSet(UpTo(S, k)) /\ Cardinality(UpTo(S, k)) \in Nat
             /\ Cardinality(UpTo(S, k)) <= Cardinality(S)
  <2>1. UpTo(S, k) \in SUBSET S
    BY DEF UpTo
  <2>2. IsFiniteSet(UpTo(S, k)) /\ Cardinality(UpTo(S, k)) <= Cardinality(S)
    BY <1>1, <2>1, FS_Subset
  <2>3. QED
    BY <2>2, FS_CardinalityType
<1>3. UpTo(S, 0) = {} /\ UpTo(S, n) = S
  <2>1. \A j \in S : ~ (j <= 0) /\ j <= n
    BY <1>0
  <2>2. QED
    BY <2>1 DEF UpTo
<1>4. QED
  BY <1>0, <1>1, <1>2, <1>3

\* A position adds itself to the count, what is none adds nothing.
LEMMA CountsOne ==
  ASSUME NEW n \in Nat, NEW S \in SUBSET (1 .. n), NEW k \in 1 .. n
  PROVE  Cardinality(UpTo(S, k)) =
           IF k \in S THEN Cardinality(UpTo(S, k - 1)) + 1 ELSE Cardinality(UpTo(S, k - 1))
<1>1. k - 1 \in Nat /\ k \notin UpTo(S, k - 1)
  BY DEF UpTo
<1>2. CASE k \in S
  <2>1. \A j \in S : j <= k <=> (j <= k - 1 \/ j = k)
    BY CountsFinitely
  <2>2. UpTo(S, k) = UpTo(S, k - 1) \cup {k}
    BY <1>2, <2>1 DEF UpTo
  <2>3. IsFiniteSet(UpTo(S, k - 1)) /\ Cardinality(UpTo(S, k - 1)) \in Nat
    BY CountsFinitely, <1>1
  <2>4. Cardinality(UpTo(S, k - 1) \cup {k}) = Cardinality(UpTo(S, k - 1)) + 1
    BY <1>1, <2>3, FS_AddElement
  <2>5. QED
    BY <1>2, <2>2, <2>4
<1>3. CASE k \notin S
  <2>1. \A j \in S : j <= k <=> j <= k - 1
    BY CountsFinitely, <1>3
  <2>2. UpTo(S, k) = UpTo(S, k - 1)
    BY <2>1 DEF UpTo
  <2>3. QED
    BY <1>3, <2>2
<1>4. QED
  BY <1>2, <1>3

\* A later position has more of them up to it.
LEMMA CountsMore ==
  ASSUME NEW n \in Nat, NEW S \in SUBSET (1 .. n), NEW j \in Nat, NEW k \in S, j < k
  PROVE  Cardinality(UpTo(S, j)) < Cardinality(UpTo(S, k))
<1>1. k \in Nat /\ k \in UpTo(S, k) /\ k \notin UpTo(S, j) /\ UpTo(S, j) \in SUBSET UpTo(S, k)
  <2>1. k \in Nat /\ k <= k /\ ~ (k <= j)
    BY CountsFinitely, j < k
  <2>2. \A i \in S : i <= j => i <= k
    BY CountsFinitely, j < k
  <2>3. QED
    BY <2>1, <2>2 DEF UpTo
<1>2. IsFiniteSet(UpTo(S, k)) /\ Cardinality(UpTo(S, k)) \in Nat
  BY CountsFinitely, <1>1
<1>3. Cardinality(UpTo(S, j)) \in Nat
  BY CountsFinitely
<1>4. /\ Cardinality(UpTo(S, j)) <= Cardinality(UpTo(S, k))
      /\ Cardinality(UpTo(S, j)) = Cardinality(UpTo(S, k)) => UpTo(S, j) = UpTo(S, k)
  BY <1>1, <1>2, FS_Subset
<1>5. UpTo(S, j) # UpTo(S, k)
  BY <1>1
<1>6. QED
  BY <1>2, <1>3, <1>4, <1>5

\* Every number up to the size of S is the rank of exactly one position.
LEMMA RankExists ==
  ASSUME NEW n \in Nat, NEW S \in SUBSET (1 .. n), NEW m \in 1 .. Cardinality(S)
  PROVE  Nth(S, m) \in S /\ Cardinality(UpTo(S, Nth(S, m))) = m
<1> DEFINE T == {k \in Nat : Cardinality(UpTo(S, k)) >= m}
<1>0. m \in Nat /\ m >= 1 /\ Cardinality(S) \in Nat /\ m <= Cardinality(S)
  BY CountsFinitely
<1>1. n \in T
  <2>1. UpTo(S, n) = S
    BY CountsFinitely, Zenon
  <2>2. QED
    BY <1>0, <2>1
<1>2. T \in SUBSET Nat /\ T # {}
  BY <1>1
<1>3. PICK k \in T : \A j \in T : k <= j
  <2> HIDE DEF T
  <2>1. QED
    BY <1>2, LeastExists, Zenon
<1>4. k \in Nat /\ Cardinality(UpTo(S, k)) >= m /\ k <= n
  BY <1>1, <1>3
<1>5. k # 0
  <2>1. Cardinality(UpTo(S, 0)) = 0
    BY CountsFinitely, FS_EmptySet
  <2>2. QED
    BY <1>0, <1>4, <2>1
<1>6. k - 1 \in Nat /\ k \in 1 .. n
  BY <1>4, <1>5
<1>7. k - 1 \notin T
  <2>1. k - 1 \in T => k <= k - 1
    BY <1>3
  <2>2. QED
    BY <1>4, <2>1
<1>8. Cardinality(UpTo(S, k - 1)) < m /\ Cardinality(UpTo(S, k - 1)) \in Nat
  <2>1. Cardinality(UpTo(S, k - 1)) \in Nat
    BY <1>6, CountsFinitely
  <2>2. ~ (Cardinality(UpTo(S, k - 1)) >= m)
    BY <1>6, <1>7
  <2>3. QED
    BY <1>0, <2>1, <2>2
<1>9. k \in S /\ Cardinality(UpTo(S, k)) = m
  <2>1. Cardinality(UpTo(S, k)) =
          IF k \in S THEN Cardinality(UpTo(S, k - 1)) + 1 ELSE Cardinality(UpTo(S, k - 1))
    <3>1. k \in 1 .. n
      BY <1>6
    <3> HIDE DEF T
    <3>2. QED
      BY <3>1, CountsOne
  <2>2. QED
    BY <1>0, <1>4, <1>8, <2>1
<1>10. Nth(S, m) = CHOOSE x \in S : Cardinality(UpTo(S, x)) = m
  BY DEF Nth, UpTo
<1>11. QED
  <2>1. \E x \in S : Cardinality(UpTo(S, x)) = m
    BY <1>9
  <2>2. QED
    BY <1>10, <2>1

\* remove(itemId) leaves a queue of items it had, none of them with the id, ...
LEMMA WithoutKeeps ==
  ASSUME NEW S, NEW q \in Seq(S), NEW id
  PROVE  /\ Without(q, id) \in Seq(S) /\ Len(Without(q, id)) \in Nat
         /\ Len(Without(q, id)) <= Len(q)
         /\ \A m \in 1 .. Len(Without(q, id)) :
              \E k \in 1 .. Len(q) : Without(q, id)[m] = q[k] /\ q[k].id # id
<1> DEFINE kept == {k \in DOMAIN q : q[k].id # id}
<1>1. DOMAIN q = 1 .. Len(q) /\ Len(q) \in Nat
  OBVIOUS
<1>2. kept \in SUBSET (1 .. Len(q)) /\ \A k \in kept : q[k] \in S /\ q[k].id # id
  BY <1>1
<1>3. Without(q, id) = [m \in 1 .. Cardinality(kept) |-> q[Nth(kept, m)]]
  BY DEF Without
<1> HIDE DEF kept
<1>4. Cardinality(kept) \in Nat /\ Cardinality(kept) <= Len(q)
  <2>1. IsFiniteSet(1 .. Len(q)) /\ Cardinality(1 .. Len(q)) = Len(q)
    BY <1>1, FS_Interval
  <2>2. Cardinality(kept) <= Cardinality(1 .. Len(q))
    BY <1>2, <2>1, FS_Subset
  <2>3. Cardinality(kept) \in Nat
    BY <1>1, <1>2, CountsFinitely
  <2>4. QED
    BY <2>1, <2>2, <2>3
<1>5. \A m \in 1 .. Cardinality(kept) : Nth(kept, m) \in kept
  BY <1>1, <1>2, RankExists
<1>6. Without(q, id) \in Seq(S) /\ Len(Without(q, id)) = Cardinality(kept)
  <2>1. \A m \in 1 .. Cardinality(kept) : q[Nth(kept, m)] \in S
    BY <1>2, <1>5
  <2>2. QED
    BY <1>3, <1>4, <2>1
<1>7. ASSUME NEW m \in 1 .. Len(Without(q, id))
      PROVE  \E k \in 1 .. Len(q) : Without(q, id)[m] = q[k] /\ q[k].id # id
  <2>1. m \in 1 .. Cardinality(kept)
    BY <1>6
  <2>2. Nth(kept, m) \in 1 .. Len(q) /\ q[Nth(kept, m)].id # id
    BY <1>2, <1>5, <2>1
  <2>3. Without(q, id)[m] = q[Nth(kept, m)]
    BY <1>3, <2>1
  <2>4. QED
    BY <2>2, <2>3
<1>8. QED
  BY <1>4, <1>6, <1>7

\* ... it keeps every other item, and keeps them in their order.
LEMMA WithoutOrders ==
  ASSUME NEW S, NEW q \in Seq(S), NEW id
  PROVE  \E f \in [1 .. Len(Without(q, id)) -> 1 .. Len(q)] :
           /\ \A m \in 1 .. Len(Without(q, id)) : Without(q, id)[m] = q[f[m]]
           /\ \A l, m \in 1 .. Len(Without(q, id)) : l < m => f[l] < f[m]
           /\ \A k \in 1 .. Len(q) :
                q[k].id # id => \E m \in 1 .. Len(Without(q, id)) : f[m] = k
<1> DEFINE kept == {k \in DOMAIN q : q[k].id # id}
           f == [m \in 1 .. Cardinality(kept) |-> Nth(kept, m)]
<1>1. DOMAIN q = 1 .. Len(q) /\ Len(q) \in Nat
  OBVIOUS
<1>2. /\ kept \in SUBSET (1 .. Len(q))
      /\ \A k \in 1 .. Len(q) : q[k].id # id => k \in kept
  BY <1>1
<1>3. Without(q, id) = [m \in 1 .. Cardinality(kept) |-> q[Nth(kept, m)]]
  BY DEF Without
<1>0. \A j \in kept : j \in Nat
  BY <1>1
<1> HIDE DEF kept
<1>4. Cardinality(kept) \in Nat
  BY <1>1, <1>2, CountsFinitely
<1>5. \A m \in 1 .. Cardinality(kept) :
        Nth(kept, m) \in kept /\ Cardinality(UpTo(kept, Nth(kept, m))) = m
  BY <1>1, <1>2, RankExists
<1>6. Len(Without(q, id)) = Cardinality(kept)
  BY <1>3, <1>4, WithoutKeeps
<1>7. f \in [1 .. Len(Without(q, id)) -> 1 .. Len(q)]
  BY <1>2, <1>5, <1>6
<1>8. \A m \in 1 .. Len(Without(q, id)) : Without(q, id)[m] = q[f[m]]
  BY <1>3, <1>6
<1>9. ASSUME NEW l \in 1 .. Cardinality(kept), NEW m \in 1 .. Cardinality(kept), l < m
      PROVE  f[l] < f[m]
  <2>1. f[l] = Nth(kept, l) /\ f[m] = Nth(kept, m)
    OBVIOUS
  <2>2. Nth(kept, l) \in kept /\ Nth(kept, m) \in kept
    BY <1>5
  <2>3. Nth(kept, l) \in Nat /\ Nth(kept, m) \in Nat
    BY <1>0, <2>2
  <2>4. Nth(kept, l) # Nth(kept, m)
    BY <1>5, <1>9
  <2>5. ~ (Nth(kept, m) < Nth(kept, l))
    <3>1. Nth(kept, m) < Nth(kept, l) =>
            Cardinality(UpTo(kept, Nth(kept, m))) < Cardinality(UpTo(kept, Nth(kept, l)))
      BY <1>1, <1>2, <2>2, <2>3, CountsMore
    <3>2. QED
      BY <1>5, <1>9, <3>1
  <2>6. QED
    BY <2>1, <2>3, <2>4, <2>5
<1>10. ASSUME NEW k \in 1 .. Len(q), q[k].id # id
       PROVE  \E m \in 1 .. Cardinality(kept) : f[m] = k
  <2> DEFINE m == Cardinality(UpTo(kept, k))
  <2>1. k \in kept /\ k \in Nat
    BY <1>2, <1>10
  <2>2. m \in Nat /\ m <= Cardinality(kept)
    BY <1>1, <1>2, <2>1, CountsFinitely
  <2>3. m # 0
    <3>1. Cardinality(UpTo(kept, 0)) < m /\ Cardinality(UpTo(kept, 0)) \in Nat
      <4>1. 0 < k
        OBVIOUS
      <4>2. QED
        BY <1>1, <1>2, <2>1, <4>1, CountsFinitely, CountsMore
    <3>2. QED
      BY <2>2, <3>1
  <2> HIDE DEF m
  <2>4. m \in 1 .. Cardinality(kept)
    BY <1>4, <2>2, <2>3
  <2>5. Nth(kept, m) \in kept /\ Nth(kept, m) \in Nat /\ Cardinality(UpTo(kept, Nth(kept, m))) = m
    BY <1>0, <1>5, <2>4
  <2>6. Nth(kept, m) = k
    <3>1. k < Nth(kept, m) => m < m
      BY <1>1, <1>2, <2>1, <2>5, CountsMore DEF m
    <3>2. Nth(kept, m) < k => m < m
      BY <1>1, <1>2, <2>1, <2>5, CountsMore DEF m
    <3>3. QED
      BY <2>1, <2>2, <2>5, <3>1, <3>2
  <2>7. f[m] = k
    BY <2>4, <2>6
  <2>8. QED
    BY <2>4, <2>7
<1> HIDE DEF f
<1>11. \A l, m \in 1 .. Len(Without(q, id)) : l < m => f[l] < f[m]
  BY <1>6, <1>9
<1>12. \A k \in 1 .. Len(q) :
         q[k].id # id => \E m \in 1 .. Len(Without(q, id)) : f[m] = k
  BY <1>6, <1>10
<1>13. QED
  BY <1>7, <1>8, <1>11, <1>12
=============================================================================
