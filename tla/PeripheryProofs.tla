-------------------------- MODULE PeripheryProofs --------------------------
(***************************************************************************)
(* Theorems about the parts that Periphery composes, for any numbers of    *)
(* tabs, tokens, requests, devices and refills.                            *)
(***************************************************************************)
EXTENDS Periphery, FiniteSetTheorems, TLAPS

-----------------------------------------------------------------------------
(***************************************************************************)
(* The auto-queue.  That the bound holds now is not enough: a refill that  *)
(* has looked at the queue is going to add to it.  What each refill may    *)
(* still add is counted as claims <<device, k>>, which are at most Batch   *)
(* per device, since a device has one refill at a time.  A refill whose    *)
(* copy of the queue has left more than v is not counted towards v: it     *)
(* will find the queue full unless playback goes on, and then the bound v  *)
(* of the tracks ahead goes down with it.                                  *)
(***************************************************************************)
Refill == [at : {"none", "state", "queue", "asks", "adds"},
           dev : Devices \cup {NoDevice}, left : Nat, adds : 0..Batch]

\* The shape of the variables, and one refill per device.
RefillShape ==
  /\ ahead \in Nat /\ edits \in Nat
  /\ refills \in [Refills -> Refill]
  /\ \A r \in Refills :
       /\ refills[r].at = "none" => refills[r].dev = NoDevice
       /\ refills[r].at # "none" => refills[r].dev \in Devices
       /\ refills[r].at = "asks" => refills[r].left < RefillThreshold
       /\ refills[r].at = "adds" => refills[r].adds >= 1
  /\ \A r, s \in Refills :
       r # s /\ refills[r].dev = refills[s].dev =>
         refills[r].at = "none" \/ refills[s].at = "none"

\* How much a refill may add, if v tracks are ahead.
MayAdd(x, v) ==
  IF x.at = "asks" \/ (x.at = "queue" /\ x.left <= v) THEN Batch
  ELSE IF x.at = "adds" THEN x.adds ELSE 0

Slots == Devices \X (1..Batch)

Claims(f, v) ==
  {p \in Slots : \E r \in Refills : f[r].dev = p[1] /\ p[2] <= MayAdd(f[r], v)}

Room == Cardinality(Devices) * Batch

RefillInv ==
  /\ RefillShape
  /\ \A v \in Nat : v >= RefillThreshold - 1 =>
       ahead + Cardinality(Claims(refills, v)) <= v + Room + edits

\* There are Batch slots per device.
LEMMA ClaimsAreSlots ==
  /\ IsFiniteSet(Slots) /\ Room \in Nat
  /\ \A f, v : /\ IsFiniteSet(Claims(f, v))
               /\ Cardinality(Claims(f, v)) \in 0..Room
<1>1. IsFiniteSet(1..Batch) /\ Cardinality(1..Batch) = Batch
  BY RefillConstants, FS_Interval
<1>2. IsFiniteSet(Slots) /\ Cardinality(Slots) = Room
  BY <1>1, DevicesAreFinite, FS_Product DEF Slots, Room
<1>3. Room \in Nat
  BY <1>2, FS_CardinalityType
<1>4. ASSUME NEW f, NEW v
      PROVE  IsFiniteSet(Claims(f, v)) /\ Cardinality(Claims(f, v)) \in 0..Room
  <2>1. Claims(f, v) \in SUBSET Slots
    BY DEF Claims
  <2>2. IsFiniteSet(Claims(f, v)) /\ Cardinality(Claims(f, v)) <= Room
    BY <1>2, <2>1, FS_Subset
  <2>3. Cardinality(Claims(f, v)) \in Nat
    BY <2>2, FS_CardinalityType
  <2>4. QED
    BY <1>3, <2>2, <2>3
<1>5. QED
  BY <1>2, <1>3, <1>4

\* Refills that may add no more have no more claims.
LEMMA FewerClaims ==
  ASSUME NEW f, NEW g, NEW v, NEW w,
         \A r \in Refills :
           /\ MayAdd(f[r], v) \in Nat /\ MayAdd(g[r], w) \in Nat
           /\ \/ MayAdd(g[r], w) = 0
              \/ g[r].dev = f[r].dev /\ MayAdd(g[r], w) <= MayAdd(f[r], v)
  PROVE  Cardinality(Claims(g, w)) <= Cardinality(Claims(f, v))
<1>1. ASSUME NEW p \in Slots, NEW r \in Refills,
             g[r].dev = p[1], p[2] <= MayAdd(g[r], w)
      PROVE  f[r].dev = p[1] /\ p[2] <= MayAdd(f[r], v)
  <2>1. p[2] \in 1..Batch
    BY DEF Slots
  <2>2. MayAdd(g[r], w) # 0
    BY <1>1, <2>1, RefillConstants
  <2>3. QED
    BY <1>1, <2>1, <2>2, RefillConstants
<1>2. Claims(g, w) \subseteq Claims(f, v)
  BY <1>1 DEF Claims
<1>3. QED
  BY <1>2, ClaimsAreSlots, FS_Subset

\* What a refill may add is a number.
LEMMA MayAddType ==
  ASSUME NEW x \in Refill, NEW v \in Nat
  PROVE  MayAdd(x, v) \in 0..Batch
BY RefillConstants DEF Refill, MayAdd

\* There is nothing ahead and no refill at the start.
LEMMA RefillInvInit == Refiller!Init => RefillInv
<1>1. Refiller!Init => RefillShape
  BY RefillConstants DEF Refiller!Init, Refiller!NoRefill, RefillShape, Refill
<1>2. ASSUME NEW v \in Nat, v >= RefillThreshold - 1
      PROVE  Refiller!Init => ahead + Cardinality(Claims(refills, v)) <= v + Room + edits
  <2>1. Claims(refills, v) \subseteq Slots /\ Cardinality(Claims(refills, v)) \in 0..Room
    BY ClaimsAreSlots DEF Claims
  <2>2. QED
    BY <2>1, ClaimsAreSlots DEF Refiller!Init
<1>3. QED
  BY <1>1, <1>2 DEF RefillInv

\* A refill that goes on adds no more than it was counted for.
LEMMA RefillGoesOn ==
  ASSUME RefillInv, NEW r \in Refills, NEW x \in Refill,
         refills' = [refills EXCEPT ![r] = x], UNCHANGED <<ahead, edits>>, RefillShape',
         x.dev = refills[r].dev \/ x.at \in {"none", "state"},
         \A v \in Nat : v >= RefillThreshold - 1 /\ v < ahead =>
           MayAdd(x, v) = 0 \/ MayAdd(x, v) <= MayAdd(refills[r], v)
  PROVE  RefillInv'
<1>1. ASSUME NEW v \in Nat, v >= RefillThreshold - 1
      PROVE  ahead + Cardinality(Claims(refills', v)) <= v + Room + edits
  <2>1. CASE v >= ahead
    BY <2>1, ClaimsAreSlots DEF RefillInv, RefillShape
  <2>2. CASE v < ahead
    <3>1. ASSUME NEW s \in Refills
          PROVE  /\ MayAdd(refills[s], v) \in Nat /\ MayAdd(refills'[s], v) \in Nat
                 /\ \/ MayAdd(refills'[s], v) = 0
                    \/ refills'[s].dev = refills[s].dev
                       /\ MayAdd(refills'[s], v) <= MayAdd(refills[s], v)
      <4>1. refills[s] \in Refill /\ refills'[s] \in Refill
        BY DEF RefillInv, RefillShape
      <4>2. MayAdd(refills[s], v) \in Nat /\ MayAdd(refills'[s], v) \in Nat
        BY <4>1, MayAddType, RefillConstants
      <4>3. CASE s = r
        <5>1. refills'[s] = x
          BY <4>3 DEF RefillInv, RefillShape
        <5>2. x.at \in {"none", "state"} => MayAdd(x, v) = 0
          BY DEF MayAdd
        <5>3. QED
          BY <1>1, <2>2, <4>2, <4>3, <5>1, <5>2
      <4>4. CASE s # r
        BY <4>2, <4>4 DEF RefillInv, RefillShape
      <4>5. QED
        BY <4>2, <4>3, <4>4
    <3>2. Cardinality(Claims(refills', v)) <= Cardinality(Claims(refills, v))
      BY <3>1, FewerClaims
    <3>3. ahead + Cardinality(Claims(refills, v)) <= v + Room + edits
      BY <1>1 DEF RefillInv
    <3>4. QED
      BY <3>2, <3>3, ClaimsAreSlots DEF RefillInv, RefillShape
  <2>3. QED
    BY <2>1, <2>2 DEF RefillInv, RefillShape
<1>2. QED
  BY <1>1 DEF RefillInv

\* A set that misses an element of another one is smaller.
LEMMA OneLess ==
  ASSUME NEW S, IsFiniteSet(S), NEW p \in S, NEW T, T \subseteq S \ {p}
  PROVE  Cardinality(T) <= Cardinality(S) - 1
<1> DEFINE R == S \ {p}
<1>1. IsFiniteSet(R) /\ Cardinality(R) = Cardinality(S) - 1
  BY FS_RemoveElement
<1>2. T \subseteq R
  OBVIOUS
<1> HIDE DEF R
<1>3. QED
  BY <1>1, <1>2, FS_Subset

\* A refill appends a track for its last claim.
LEMMA AddAutoStep ==
  ASSUME RefillInv, NEW r \in Refills
  PROVE  Refiller!AddAuto(r) => RefillInv'
<1> DEFINE n == refills[r].adds
           x == IF n = 1 THEN Refiller!NoRefill ELSE [refills[r] EXCEPT !.adds = n - 1]
           p == <<refills[r].dev, n>>
<1>1. refills[r] \in Refill
  BY DEF RefillInv, RefillShape
<1>2. Refiller!AddAuto(r) =>
        /\ refills[r].at = "adds" /\ n \in 1..Batch /\ refills[r].dev \in Devices
        /\ ahead' = ahead + 1 /\ edits' = edits /\ refills' = [refills EXCEPT ![r] = x]
  BY RefillConstants DEF Refiller!AddAuto, Refiller!Set, RefillInv, RefillShape, Refill
<1> SUFFICES ASSUME refills[r].at = "adds", n \in 1..Batch, refills[r].dev \in Devices,
                    ahead' = ahead + 1, edits' = edits, refills' = [refills EXCEPT ![r] = x]
             PROVE  RefillInv'
  BY <1>2
<1>3. /\ x \in Refill
      /\ x.at # "none" => x.dev = refills[r].dev /\ x.at = "adds" /\ x.adds = n - 1 /\ n > 1
      /\ x.at = "none" => x.dev = NoDevice
  BY <1>1, RefillConstants DEF Refill, Refiller!NoRefill
<1>4. /\ refills' \in [Refills -> Refill] /\ refills'[r] = x
      /\ \A s \in Refills : s # r => refills'[s] = refills[s]
  BY <1>3 DEF RefillInv, RefillShape
<1> HIDE DEF x
<1>5. RefillShape'
  BY <1>3, <1>4 DEF RefillInv, RefillShape
<1>6. ASSUME NEW v \in Nat, v >= RefillThreshold - 1
      PROVE  ahead' + Cardinality(Claims(refills', v)) <= v + Room + edits'
  <2>1. p \in Claims(refills, v)
    BY DEF Claims, Slots, MayAdd
  <2>2. ASSUME NEW q \in Slots, NEW s \in Refills,
               refills'[s].dev = q[1], q[2] <= MayAdd(refills'[s], v)
        PROVE  q # p /\ refills[s].dev = q[1] /\ q[2] <= MayAdd(refills[s], v)
    <3>1. q[2] \in 1..Batch
      BY DEF Slots
    <3>2. CASE s = r
      BY <1>3, <1>4, <2>2, <3>1, <3>2, RefillConstants DEF MayAdd
    <3>3. CASE s # r
      <4>1. refills'[s] = refills[s] /\ refills[s].at # "none"
        BY <1>4, <2>2, <3>1, <3>3, RefillConstants DEF MayAdd
      <4>2. refills[s].dev # refills[r].dev
        BY <3>3, <4>1 DEF RefillInv, RefillShape
      <4>3. QED
        BY <2>2, <4>1, <4>2
    <3>4. QED
      BY <3>2, <3>3
  <2>3. Claims(refills', v) \subseteq Claims(refills, v) \ {p}
    BY <2>2 DEF Claims
  <2>4. Cardinality(Claims(refills', v)) <= Cardinality(Claims(refills, v)) - 1
    BY <2>1, <2>3, ClaimsAreSlots, OneLess
  <2>5. ahead + Cardinality(Claims(refills, v)) <= v + Room + edits
    BY <1>6 DEF RefillInv
  <2>6. QED
    BY <2>4, <2>5, ClaimsAreSlots DEF RefillInv, RefillShape
<1>7. QED
  BY <1>5, <1>6 DEF RefillInv

\* The cursor moves on: what was counted for v + 1 tracks now counts for v.
LEMMA AdvanceStep == RefillInv /\ Refiller!Advance => RefillInv'
<1> SUFFICES ASSUME RefillInv, Refiller!Advance PROVE RefillInv'
  OBVIOUS
<1> DEFINE down(x) == [x EXCEPT !.left = IF x.left > 0 THEN x.left - 1 ELSE 0]
<1>1. /\ ahead > 0 /\ ahead' = ahead - 1 /\ edits' = edits
      /\ refills' = [r \in Refills |-> down(refills[r])]
  BY DEF Refiller!Advance
<1>2. ASSUME NEW x \in Refill
      PROVE  /\ down(x) \in Refill
             /\ down(x).at = x.at /\ down(x).dev = x.dev /\ down(x).adds = x.adds
             /\ down(x).left \in Nat /\ down(x).left <= x.left
             /\ x.left <= down(x).left + 1
  BY DEF Refill
<1>3. /\ refills' \in [Refills -> Refill]
      /\ \A r \in Refills : refills[r] \in Refill /\ refills'[r] = down(refills[r])
  BY <1>1, <1>2 DEF RefillInv, RefillShape
<1> HIDE DEF down
<1>4. RefillShape'
  BY <1>1, <1>2, <1>3, RefillConstants DEF RefillInv, RefillShape, Refill
<1>5. ASSUME NEW v \in Nat, v >= RefillThreshold - 1
      PROVE  ahead' + Cardinality(Claims(refills', v)) <= v + Room + edits'
  <2>1. ASSUME NEW r \in Refills
        PROVE  /\ MayAdd(refills[r], v + 1) \in Nat /\ MayAdd(refills'[r], v) \in Nat
               /\ refills'[r].dev = refills[r].dev
               /\ MayAdd(refills'[r], v) <= MayAdd(refills[r], v + 1)
    <3>1. MayAdd(refills[r], v + 1) \in Nat /\ MayAdd(refills'[r], v) \in Nat
      BY <1>2, <1>3, MayAddType, RefillConstants
    <3>2. QED
      BY <1>2, <1>3, <3>1, RefillConstants DEF MayAdd, Refill
  <2>2. Cardinality(Claims(refills', v)) <= Cardinality(Claims(refills, v + 1))
    BY <2>1, FewerClaims
  <2>3. ahead + Cardinality(Claims(refills, v + 1)) <= v + 1 + Room + edits
    BY <1>5, RefillConstants DEF RefillInv
  <2>4. QED
    BY <1>1, <2>2, <2>3, ClaimsAreSlots DEF RefillInv, RefillShape
<1>6. QED
  BY <1>4, <1>5 DEF RefillInv

\* Refills of several devices, edits and playback, in any order.
LEMMA RefillInvNext == RefillInv /\ [Refiller!Next]_autoVars => RefillInv'
<1> SUFFICES ASSUME RefillInv, [Refiller!Next]_autoVars PROVE RefillInv'
  OBVIOUS
<1> USE DEF Refiller!Set, Refiller!NoRefill
<1>0. \A r \in Refills : refills[r] \in Refill
  BY DEF RefillInv, RefillShape
<1>1. ASSUME NEW r \in Refills, NEW d \in Devices
      PROVE  Refiller!Ensure(r, d) => RefillInv'
  <2> DEFINE x == [Refiller!NoRefill EXCEPT !.at = "state", !.dev = d]
  <2>1. x \in Refill /\ x.at = "state" /\ x.dev = d
    <3> DEFINE y == Refiller!NoRefill
    <3>1. y \in Refill
      BY RefillConstants DEF Refill
    <3>2. x = [y EXCEPT !.at = "state", !.dev = d]
      OBVIOUS
    <3> HIDE DEF x, y
    <3>3. QED
      BY <3>1, <3>2 DEF Refill
  <2>2. Refiller!Ensure(r, d) =>
          /\ refills' = [refills EXCEPT ![r] = x] /\ UNCHANGED <<ahead, edits>>
          /\ \A s \in Refills : refills[s].dev # d
    BY DEF Refiller!Ensure
  <2> HIDE DEF x
  <2>3. Refiller!Ensure(r, d) => RefillShape'
    BY <2>1, <2>2 DEF RefillInv, RefillShape
  <2>4. \A v \in Nat : MayAdd(x, v) = 0
    BY <2>1 DEF MayAdd
  <2>5. QED
    BY <2>1, <2>2, <2>3, <2>4, RefillGoesOn
<1>2. ASSUME NEW r \in Refills, NEW x \in Refill, refills[r].at # "none",
             x = Refiller!NoRefill \/ (x.at # "none" /\ x.dev = refills[r].dev),
             x.at = "asks" => x.left < RefillThreshold, x.at = "adds" => x.adds >= 1,
             refills' = [refills EXCEPT ![r] = x], UNCHANGED <<ahead, edits>>,
             x.at # "none" =>
               \A v \in Nat : v >= RefillThreshold - 1 /\ v < ahead =>
                 MayAdd(x, v) = 0 \/ MayAdd(x, v) <= MayAdd(refills[r], v)
      PROVE  RefillInv'
  <2>1. RefillShape'
    BY <1>2 DEF RefillInv, RefillShape
  <2>2. x = Refiller!NoRefill => \A v \in Nat : MayAdd(x, v) = 0
    BY DEF MayAdd
  <2>3. QED
    BY <1>2, <2>1, <2>2, RefillGoesOn
<1>3. ASSUME NEW r \in Refills
      PROVE  Refiller!GivesUp(r) => RefillInv'
  <2>1. Refiller!NoRefill \in Refill
    BY RefillConstants DEF Refill
  <2>2. QED
    BY <1>2, <2>1 DEF Refiller!GivesUp
<1>4. ASSUME NEW r \in Refills
      PROVE  Refiller!ReadQueue(r) => RefillInv'
  <2> DEFINE x == [refills[r] EXCEPT !.at = "queue", !.left = ahead]
  <2>1. x \in Refill /\ x.at = "queue" /\ x.left = ahead /\ x.dev = refills[r].dev
    BY <1>0 DEF RefillInv, RefillShape, Refill
  <2>2. Refiller!ReadQueue(r) =>
          refills[r].at = "state" /\ refills' = [refills EXCEPT ![r] = x] /\ UNCHANGED <<ahead, edits>>
    BY DEF Refiller!ReadQueue
  <2> HIDE DEF x
  <2>3. \A v \in Nat : v < ahead => MayAdd(x, v) = 0
    BY <2>1 DEF MayAdd, RefillInv, RefillShape
  <2>4. QED
    BY <1>2, <2>1, <2>2, <2>3
<1>5. ASSUME NEW r \in Refills
      PROVE  Refiller!ReadIndex(r) => RefillInv'
  <2> DEFINE x == [refills[r] EXCEPT !.at = "asks"]
  <2>1. /\ x \in Refill /\ x.at = "asks" /\ x.left = refills[r].left /\ x.dev = refills[r].dev
        /\ Refiller!NoRefill \in Refill /\ refills[r].left \in Nat
    BY <1>0, RefillConstants DEF Refill
  <2>2. Refiller!ReadIndex(r) =>
          /\ refills[r].at = "queue" /\ UNCHANGED <<ahead, edits>>
          /\ refills' = [refills EXCEPT ![r] =
               IF refills[r].left >= RefillThreshold THEN Refiller!NoRefill ELSE x]
    BY DEF Refiller!ReadIndex
  <2> HIDE DEF x
  <2>3. CASE refills[r].left >= RefillThreshold
    BY <1>2, <2>1, <2>2, <2>3
  <2>4. CASE refills[r].left < RefillThreshold
    <3>1. refills[r].at = "queue" =>
            \A v \in Nat : v >= RefillThreshold - 1 => MayAdd(x, v) <= MayAdd(refills[r], v)
      BY <2>1, <2>4, RefillConstants DEF MayAdd
    <3>2. QED
      BY <1>2, <2>1, <2>2, <2>4, <3>1, RefillConstants
  <2>5. QED
    BY <2>1, <2>3, <2>4, RefillConstants
<1>6. ASSUME NEW r \in Refills, NEW n \in 0..Batch
      PROVE  Refiller!Recommends(r, n) => RefillInv'
  <2> DEFINE x == [refills[r] EXCEPT !.at = "adds", !.adds = n]
  <2>1. /\ x \in Refill /\ x.at = "adds" /\ x.adds = n /\ x.dev = refills[r].dev
        /\ Refiller!NoRefill \in Refill
    <3> DEFINE y == refills[r]
    <3>1. y \in Refill
      BY <1>0
    <3>2. [y EXCEPT !.at = "adds", !.adds = n] \in Refill
      BY <3>1 DEF Refill
    <3>3. Refiller!NoRefill \in Refill
      BY RefillConstants DEF Refill
    <3>4. QED
      BY <3>1, <3>2, <3>3 DEF Refill
  <2>2. Refiller!Recommends(r, n) =>
          /\ refills[r].at = "asks" /\ UNCHANGED <<ahead, edits>>
          /\ refills' = [refills EXCEPT ![r] = IF n = 0 THEN Refiller!NoRefill ELSE x]
    BY DEF Refiller!Recommends
  <2> HIDE DEF x
  <2>3. refills[r].at = "asks" => \A v \in Nat : MayAdd(x, v) <= MayAdd(refills[r], v)
    BY <2>1, RefillConstants DEF MayAdd
  <2>4. QED
    BY <1>2, <2>1, <2>2, <2>3, RefillConstants
<1>7. Refiller!UserAdds \/ Refiller!UserRemoves => RefillInv'
  <2>1. Refiller!UserAdds \/ Refiller!UserRemoves =>
          /\ refills' = refills /\ ahead' \in Nat /\ edits' \in Nat
          /\ ahead' - edits' <= ahead - edits
    BY DEF Refiller!UserAdds, Refiller!UserRemoves, RefillInv, RefillShape
  <2>2. QED
    BY <2>1, ClaimsAreSlots DEF RefillInv, RefillShape
<1>8. UNCHANGED autoVars => RefillInv'
  BY DEF autoVars, RefillInv, RefillShape
<1>9. QED
  BY <1>1, <1>3, <1>4, <1>5, <1>6, <1>7, <1>8, AddAutoStep, AdvanceStep DEF Refiller!Next

\* A step of the system is one of the auto-queue or leaves it alone.
LEMMA AutoQueuePart == [PeripheryNext]_allVars => [Refiller!Next]_autoVars
BY DEF PeripheryNext, OfSessions, OfStore, OfCatalogue, OfAutoQueue, allVars, autoVars

\* However the refills of an account's devices overlap with one another, with
\* edits and with playback, they add at most one batch per device more than a
\* refill is made for.
THEOREM RefillsAreBounded == PeripherySpec => []RefillBounded
<1>1. RefillInv => RefillBounded
  <2>1. ASSUME RefillInv
        PROVE  ahead <= RefillThreshold - 1 + Room + edits
    <3>1. RefillThreshold - 1 \in Nat
      BY RefillConstants
    <3>2. ahead + Cardinality(Claims(refills, RefillThreshold - 1)) <= RefillThreshold - 1 + Room + edits
      BY <2>1, <3>1 DEF RefillInv
    <3>3. QED
      BY <2>1, <3>1, <3>2, ClaimsAreSlots DEF RefillInv, RefillShape
  <2>2. Refiller!Cardinality(Devices) = Cardinality(Devices)
    BY Zenon DEF Refiller!Cardinality, Cardinality
  <2>3. QED
    BY <2>1, <2>2 DEF RefillBounded, Refiller!RefillBounded, Room
<1>2. PeripheryInit => RefillInv
  BY RefillInvInit DEF PeripheryInit
<1>3. RefillInv /\ [PeripheryNext]_allVars => RefillInv'
  BY RefillInvNext, AutoQueuePart
<1>4. QED
  BY <1>1, <1>2, <1>3, PTL DEF PeripherySpec

-----------------------------------------------------------------------------
(***************************************************************************)
(* Sessions: types.                                                        *)
(***************************************************************************)
Request == [at : {"none", "sent", "found", "created", "refused", "missing"},
            tab : Tabs \cup {NoTab}, raw : 0..MaxTokens, new : 0..MaxTokens]

Tab == [at : {"out", "in", "starting"}, access : {"none", "fresh", "stale"}]

\* Every variable of the sessions has its type at the start.
LEMMA SessionTypesInit == Session!Init => Session!TypeOK
BY SessionConstants DEF Session!Init, Session!TypeOK, Session!NoRequest, Session!NoBye,
     Session!Out, Session!Tokens, Session!Requests, Session!NoToken

LoggingIn(t) == [Session!NoRequest EXCEPT !.at = "found", !.tab = t]

\* The requests a tab makes.
LEMMA RequestForms ==
  ASSUME Session!TypeOK, NEW t \in Tabs
  PROVE  /\ /\ Session!NoRequest \in Request
            /\ Session!NoRequest.at = "none" /\ Session!NoRequest.tab = NoTab
            /\ Session!NoRequest.raw = 0
         /\ /\ Session!Sent(t) \in Request
            /\ Session!Sent(t).at = "sent" /\ Session!Sent(t).tab = t
            /\ Session!Sent(t).raw = cookie
         /\ /\ LoggingIn(t) \in Request
            /\ LoggingIn(t).at = "found" /\ LoggingIn(t).tab = t /\ LoggingIn(t).raw = 0
<1> DEFINE x == Session!NoRequest
<1>1. x \in Request /\ x.at = "none" /\ x.tab = NoTab /\ x.raw = 0
  BY SessionConstants DEF Request, Session!NoRequest, Session!NoToken
<1>2. cookie \in 0..MaxTokens
  BY DEF Session!TypeOK
<1>3. Session!Sent(t) = [x EXCEPT !.at = "sent", !.tab = t, !.raw = cookie]
      /\ LoggingIn(t) = [x EXCEPT !.at = "found", !.tab = t]
  BY DEF Session!Sent, LoggingIn
<1> HIDE DEF x
<1>4. QED
  BY <1>1, <1>2, <1>3 DEF Request, x

\* Every step of a tab, of the server and of the network keeps the types.
LEMMA SessionTypesNext == Session!TypeOK /\ [Session!Next]_sessionVars => Session!TypeOK'
<1> SUFFICES ASSUME Session!TypeOK, [Session!Next]_sessionVars PROVE Session!TypeOK'
  OBVIOUS
<1> USE SessionConstants DEF Session!Disturb
<1>0. /\ reqs \in [Session!Requests -> Request] /\ tabs \in [Tabs -> Tab]
      /\ sessionEvents \in 0..MaxSessionEvents
  BY DEF Session!TypeOK, Request, Tab
<1>1. ASSUME NEW t \in Tabs, NEW i \in Session!Requests, NEW x \in Request,
             reqs' = [reqs EXCEPT ![i] = x], UNCHANGED <<db, cookie, bye>>,
             tabs' \in [Tabs -> Tab], sessionEvents' \in 0..MaxSessionEvents
      PROVE  Session!TypeOK'
  <2>1. reqs' \in [Session!Requests -> Request]
    BY <1>0, <1>1
  <2>2. QED
    BY <1>1, <2>1 DEF Session!TypeOK, Request, Tab
<1>2. ASSUME NEW t \in Tabs, NEW i \in Session!Requests, Session!Login(t, i) \/ Session!Refresh(t, i)
      PROVE  Session!TypeOK'
  <2>1. PICK x \in {LoggingIn(t), Session!Sent(t)} :
          /\ reqs' = [reqs EXCEPT ![i] = x]
          /\ UNCHANGED <<db, cookie, bye, tabs, sessionEvents>>
    BY <1>2 DEF Session!Login, Session!Refresh, LoggingIn
  <2>2. x \in Request
    BY RequestForms
  <2>3. QED
    BY <1>0, <1>1, <2>1, <2>2
<1>3. ASSUME NEW t \in Tabs, NEW i \in Session!Requests, Session!Load(t, i)
      PROVE  Session!TypeOK'
  <2>1. /\ tabs' = [tabs EXCEPT ![t] = Session!Starting]
        /\ reqs' = [j \in Session!Requests |->
                      IF j = i THEN Session!Sent(t)
                      ELSE IF reqs[j].tab = t THEN [reqs[j] EXCEPT !.tab = NoTab] ELSE reqs[j]]
        /\ UNCHANGED <<db, cookie, bye>> /\ sessionEvents' \in 0..MaxSessionEvents
    BY <1>0, <1>3 DEF Session!Load
  <2>2. reqs' \in [Session!Requests -> Request]
    <3>1. \A j \in Session!Requests : [reqs[j] EXCEPT !.tab = NoTab] \in Request
      BY <1>0 DEF Request
    <3>2. QED
      BY <1>0, <2>1, <3>1, RequestForms
  <2>3. tabs' \in [Tabs -> Tab]
    BY <1>0, <2>1 DEF Tab, Session!Starting
  <2>4. QED
    BY <2>1, <2>2, <2>3 DEF Session!TypeOK, Request, Tab
<1>4. ASSUME NEW t \in Tabs,
             Session!AccessExpires(t) \/ Session!Logout(t) \/ Session!ChangePassword(t)
      PROVE  Session!TypeOK'
  BY <1>4 DEF Session!TypeOK, Session!AccessExpires, Session!Logout, Session!ChangePassword,
       Session!ClearTokens, Session!Good, Session!Tokens, Session!Out
<1>5. ASSUME NEW i \in Session!Requests,
             Session!Arrive(i) \/ Session!Fail(i) \/ Session!LoseAnswer(i) \/ Session!Find(i)
      PROVE  Session!TypeOK'
  BY <1>5 DEF Session!TypeOK, Session!Arrive, Session!Fail, Session!LoseAnswer, Session!Find,
       Session!NoRequest, Session!NoToken, Session!Out
<1>6. ASSUME NEW i \in Session!Requests, Session!RedirectToLogin(i)
      PROVE  Session!TypeOK'
  <2> DEFINE t == reqs[i].tab
  <2>1. t \in Tabs
    BY <1>0, <1>6 DEF Session!RedirectToLogin, Request
  <2>2. /\ tabs' = [tabs EXCEPT ![t] = Session!Starting]
        /\ reqs' = [reqs EXCEPT ![i] = Session!Sent(t)]
        /\ bye' = IF bye.at = "none" THEN [at |-> "sent", raw |-> cookie] ELSE bye
        /\ UNCHANGED <<db, cookie, sessionEvents>>
    BY <1>6 DEF Session!RedirectToLogin, Session!ClearTokens
  <2> HIDE DEF t
  <2>3. reqs' \in [Session!Requests -> Request] /\ tabs' \in [Tabs -> Tab]
    BY <1>0, <2>1, <2>2, RequestForms DEF Tab, Session!Starting
  <2>4. QED
    BY <2>2, <2>3 DEF Session!TypeOK, Request, Tab
<1>7. ASSUME NEW i \in Session!Requests, NEW k \in Session!Tokens, Session!Rotate(i, k)
      PROVE  Session!TypeOK'
  <2>1. /\ reqs' = [reqs EXCEPT ![i] = [reqs[i] EXCEPT !.at = "created", !.new = k]]
        /\ UNCHANGED <<cookie, tabs, bye, sessionEvents>>
        /\ db' = [j \in Session!Tokens |->
                    IF j = k THEN "live"
                    ELSE IF j = reqs[i].raw /\ Session!Good(j) THEN "window" ELSE db[j]]
    BY <1>0, <1>7 DEF Session!Rotate
  <2>2. k \in 0..MaxTokens
    BY DEF Session!Tokens
  <2>3. [reqs[i] EXCEPT !.at = "created", !.new = k] \in Request
    BY <1>0, <2>2 DEF Request
  <2>4. reqs' \in [Session!Requests -> Request]
    BY <1>0, <2>1, <2>3
  <2>5. db' \in [Session!Tokens -> {"unused", "live", "window", "lapsed", "revoked"}]
    BY <2>1 DEF Session!TypeOK
  <2>6. QED
    BY <2>1, <2>4, <2>5 DEF Session!TypeOK, Request
<1>8. ASSUME NEW k \in Session!Tokens, Session!Lapse(k)
      PROVE  Session!TypeOK'
  BY <1>8 DEF Session!TypeOK, Session!Lapse
<1>9. CASE Session!Revoke \/ Session!ClearCookie
  BY <1>9 DEF Session!TypeOK, Session!Revoke, Session!ClearCookie, Session!NoToken, Session!NoBye
<1>10. CASE UNCHANGED sessionVars
  BY <1>10 DEF Session!TypeOK, sessionVars
<1>11. QED
  BY <1>2, <1>3, <1>4, <1>5, <1>6, <1>7, <1>8, <1>9, <1>10 DEF Session!Next

-----------------------------------------------------------------------------
(***************************************************************************)
(* Sessions: no false log-out.  A refresh is refused for a token that is   *)
(* not good.  To see that this token was revoked one must know that no     *)
(* request carries a token that was never issued, or has lapsed; requests  *)
(* take theirs from the cookie, so the same must be known of the cookie.   *)
(* A token only lapses in its reuse window, and when the cookie holds such *)
(* a token somebody is about to replace it (CookieIsAwaited): all this     *)
(* takes that retries come within the window.                              *)
(***************************************************************************)
Issued == {"live", "window", "revoked"}

\* A tab waits for one request at most; one that waits for a refresh while it
\* is open has a stale access token.
TabsWait ==
  /\ \A t \in Tabs : tabs[t].access # "none" => tabs[t].at = "in"
  /\ \A i \in Session!Requests :
       /\ reqs[i].at = "none" => reqs[i].tab = NoTab
       /\ \A j \in Session!Requests : reqs[i].tab = reqs[j].tab /\ i # j => reqs[i].tab = NoTab
       /\ \A t \in Tabs : reqs[i].tab = t /\ reqs[i].raw # 0 /\ tabs[t].at = "in" =>
            tabs[t].access = "stale"

\* Nobody holds a token that was not issued or has lapsed.
TokensAreIssued ==
  /\ cookie # 0 => db[cookie] \in Issued
  /\ \A i \in Session!Requests :
       /\ reqs[i].raw # 0 => db[reqs[i].raw] \in Issued
       /\ reqs[i].at = "missing" => reqs[i].raw = 0
       /\ reqs[i].at = "refused" => reqs[i].raw # 0 /\ db[reqs[i].raw] = "revoked"

\* A token on its way to the browser is new to everybody.
NewTokensAreNew ==
  \A i \in Session!Requests : reqs[i].at = "created" =>
    /\ reqs[i].new # 0 /\ db[reqs[i].new] \in {"live", "revoked"} /\ cookie # reqs[i].new
    /\ \A j \in Session!Requests :
         /\ reqs[j].raw # reqs[i].new
         /\ i # j /\ reqs[j].at = "created" => reqs[j].new # reqs[i].new

\* The cookie's token may have been rotated.
CookieIsUsed ==
  /\ cookie # 0 /\ db[cookie] # "revoked"
  /\ db[cookie] = "window" \/ \E i \in Session!Requests : reqs[i].raw = cookie

\* A tab waits for the answer, is about to ask, or logs out.
CookieIsAwaited ==
  \/ \E i \in Session!Requests :
       reqs[i].tab # NoTab /\ reqs[i].raw = cookie /\ reqs[i].at \in {"sent", "found", "created"}
  \/ \E t \in Tabs : tabs[t].access = "stale"
  \/ bye.raw = cookie

SessionInv ==
  /\ Session!TypeOK
  /\ TabsWait /\ TokensAreIssued /\ NewTokensAreNew
  /\ CookieIsUsed => CookieIsAwaited

\* Nobody is logged in at the start.
LEMMA SessionInvInit == Session!Init => SessionInv
<1>1. Session!Init => TabsWait /\ TokensAreIssued /\ NewTokensAreNew /\ ~CookieIsUsed
  BY DEF Session!Init, Session!NoRequest, Session!Out, Session!NoToken, TabsWait, TokensAreIssued,
         NewTokensAreNew, CookieIsUsed
<1>2. QED
  BY <1>1, SessionTypesInit DEF SessionInv

\* The types, by name.
LEMMA SessionShape ==
  ASSUME Session!TypeOK
  PROVE  /\ reqs \in [Session!Requests -> Request] /\ tabs \in [Tabs -> Tab]
         /\ db \in [Session!Tokens -> {"unused", "live", "window", "lapsed", "revoked"}]
         /\ \A k \in 0..MaxTokens : k # 0 => k \in Session!Tokens
         /\ 0 \notin Session!Tokens
         /\ cookie \in 0..MaxTokens /\ bye.raw \in 0..MaxTokens
BY SessionConstants DEF Session!TypeOK, Request, Tab, Session!Tokens

\* What tabs wait for.
LEMMA TabsWaitNext == SessionInv /\ [Session!Next]_sessionVars => TabsWait'
<1> SUFFICES ASSUME SessionInv, [Session!Next]_sessionVars PROVE TabsWait'
  OBVIOUS
<1>0. /\ reqs \in [Session!Requests -> Request] /\ tabs \in [Tabs -> Tab] /\ TabsWait
      /\ NoTab \notin Tabs
  BY SessionShape, SessionConstants DEF SessionInv
<1> USE <1>0 DEF TabsWait, Request, Tab
<1>1. ASSUME NEW t \in Tabs, NEW i \in Session!Requests, Session!Login(t, i)
      PROVE  TabsWait'
  BY <1>1 DEF Session!Login, Session!Waits, Session!NoRequest, Session!NoToken
<1>2. ASSUME NEW t \in Tabs, NEW i \in Session!Requests, Session!Refresh(t, i)
      PROVE  TabsWait'
  BY <1>2 DEF Session!Refresh, Session!Waits, Session!Sent, Session!NoRequest, Session!NoToken
<1>3. ASSUME NEW t \in Tabs, NEW i \in Session!Requests, Session!Load(t, i)
      PROVE  TabsWait'
  BY <1>3 DEF Session!Load, Session!Sent, Session!NoRequest, Session!NoToken, Session!Starting
<1>4. ASSUME NEW t \in Tabs,
             Session!AccessExpires(t) \/ Session!Logout(t) \/ Session!ChangePassword(t)
      PROVE  TabsWait'
  BY <1>4 DEF Session!AccessExpires, Session!Logout, Session!ChangePassword, Session!Out
<1>5. ASSUME NEW i \in Session!Requests, Session!Arrive(i)
      PROVE  TabsWait'
  BY <1>5 DEF Session!Arrive, Session!NoRequest, Session!NoToken
<1>6. ASSUME NEW i \in Session!Requests, Session!Fail(i)
      PROVE  TabsWait'
  BY <1>6 DEF Session!Fail, Session!NoRequest, Session!NoToken, Session!Out
<1>7. ASSUME NEW i \in Session!Requests, Session!LoseAnswer(i) \/ Session!Find(i)
      PROVE  TabsWait'
  BY <1>7 DEF Session!LoseAnswer, Session!Find, Session!Out
<1>8. ASSUME NEW i \in Session!Requests, Session!RedirectToLogin(i)
      PROVE  TabsWait'
  BY <1>8 DEF Session!RedirectToLogin, Session!Sent, Session!NoRequest, Session!NoToken, Session!Starting
<1>9. ASSUME NEW i \in Session!Requests, NEW k \in Session!Tokens, Session!Rotate(i, k)
      PROVE  TabsWait'
  BY <1>9 DEF Session!Rotate
<1>10. ASSUME NEW k \in Session!Tokens, Session!Lapse(k)
       PROVE  TabsWait'
  BY <1>10 DEF Session!Lapse
<1>11. CASE Session!Revoke \/ Session!ClearCookie \/ UNCHANGED sessionVars
  BY <1>11 DEF Session!Revoke, Session!ClearCookie, sessionVars
<1>12. QED
  BY <1>1, <1>2, <1>3, <1>4, <1>5, <1>6, <1>7, <1>8, <1>9, <1>10, <1>11 DEF Session!Next

\* A token of the cookie's that is in its reuse window does not lapse.
LEMMA CookieOutlivesWindow ==
  ASSUME RetriesInTime, SessionInv, NEW k \in Session!Tokens, Session!Lapse(k)
  PROVE  cookie # k
<1> SUFFICES ASSUME cookie = k PROVE FALSE
  OBVIOUS
<1>1. CookieIsAwaited
  BY SessionShape DEF SessionInv, CookieIsUsed, Session!Lapse
<1>2. /\ bye.raw # k /\ \A i \in Session!Requests : reqs[i].raw # k
      /\ \A t \in Tabs : tabs[t].access # "stale"
  BY DEF Session!Lapse
<1>3. QED
  BY <1>1, <1>2 DEF CookieIsAwaited

\* What is known of the tokens that requests and the cookie hold.
LEMMA TokensAreIssuedNext ==
  ASSUME RetriesInTime, SessionInv, [Session!Next]_sessionVars
  PROVE  TokensAreIssued'
<1>0. /\ reqs \in [Session!Requests -> Request] /\ TokensAreIssued /\ NewTokensAreNew
      /\ db \in [Session!Tokens -> {"unused", "live", "window", "lapsed", "revoked"}]
      /\ \A k \in 0..MaxTokens : k # 0 => k \in Session!Tokens
      /\ 0 \notin Session!Tokens
      /\ cookie \in 0..MaxTokens
  BY SessionShape DEF SessionInv
<1> USE <1>0, CookieOutlivesWindow DEF TokensAreIssued, Request, Issued
<1>1. ASSUME NEW t \in Tabs, NEW i \in Session!Requests, Session!Login(t, i)
      PROVE  TokensAreIssued'
  BY <1>1 DEF Session!Login, Session!NoRequest, Session!NoToken
<1>2. ASSUME NEW t \in Tabs, NEW i \in Session!Requests, Session!Refresh(t, i)
      PROVE  TokensAreIssued'
  BY <1>2 DEF Session!Refresh, Session!Sent, Session!NoRequest, Session!NoToken
<1>3. ASSUME NEW t \in Tabs, NEW i \in Session!Requests, Session!Load(t, i)
      PROVE  TokensAreIssued'
  BY <1>3 DEF Session!Load, Session!Sent, Session!NoRequest, Session!NoToken, Session!Starting
<1>4. ASSUME NEW t \in Tabs, Session!AccessExpires(t)
      PROVE  TokensAreIssued'
  BY <1>4 DEF Session!AccessExpires
<1>5. ASSUME NEW t \in Tabs, Session!Logout(t)
      PROVE  TokensAreIssued'
  BY <1>5 DEF Session!Logout, Session!ClearTokens, Session!Out
<1>6. ASSUME NEW t \in Tabs, Session!ChangePassword(t)
      PROVE  TokensAreIssued'
  BY <1>6 DEF Session!ChangePassword, Session!Good
<1>7. ASSUME NEW i \in Session!Requests, Session!Arrive(i)
      PROVE  TokensAreIssued'
  BY <1>7 DEF NewTokensAreNew, Session!Arrive, Session!NoRequest, Session!NoToken
<1>8. ASSUME NEW i \in Session!Requests, Session!Fail(i)
      PROVE  TokensAreIssued'
  BY <1>8 DEF Session!Fail, Session!NoRequest, Session!NoToken, Session!Out
<1>9. ASSUME NEW i \in Session!Requests, Session!LoseAnswer(i)
      PROVE  TokensAreIssued'
  BY <1>9 DEF Session!LoseAnswer, Session!NoToken, Session!Out
<1>10. ASSUME NEW i \in Session!Requests, Session!Find(i)
      PROVE  TokensAreIssued'
  BY <1>10 DEF Session!Find, Session!Good, Session!NoToken
<1>11. ASSUME NEW i \in Session!Requests, Session!RedirectToLogin(i)
      PROVE  TokensAreIssued'
  BY <1>11 DEF Session!RedirectToLogin, Session!ClearTokens, Session!Sent, Session!NoRequest,
         Session!NoToken, Session!Starting
<1>12. ASSUME NEW i \in Session!Requests, NEW k \in Session!Tokens, Session!Rotate(i, k)
      PROVE  TokensAreIssued'
  BY <1>12 DEF Session!Rotate, Session!Unused, Session!Good
<1>13. ASSUME NEW k \in Session!Tokens, Session!Lapse(k)
      PROVE  TokensAreIssued'
  BY <1>13 DEF Session!Lapse
<1>14. CASE Session!Revoke \/ Session!ClearCookie \/ UNCHANGED sessionVars
  BY <1>14 DEF Session!Revoke, Session!ClearCookie, Session!Good, Session!NoToken, Session!NoBye,
         sessionVars
<1>15. QED
  BY <1>1, <1>2, <1>3, <1>4, <1>5, <1>6, <1>7, <1>8, <1>9, <1>10, <1>11, <1>12, <1>13, <1>14 DEF Session!Next

\* A new token is known to its answer only, until that arrives.
LEMMA NewTokensAreNewNext == SessionInv /\ [Session!Next]_sessionVars => NewTokensAreNew'
<1> SUFFICES ASSUME SessionInv, [Session!Next]_sessionVars PROVE NewTokensAreNew'
  OBVIOUS
<1>0. /\ reqs \in [Session!Requests -> Request] /\ TokensAreIssued /\ NewTokensAreNew
      /\ db \in [Session!Tokens -> {"unused", "live", "window", "lapsed", "revoked"}]
      /\ \A k \in 0..MaxTokens : k # 0 => k \in Session!Tokens
      /\ 0 \notin Session!Tokens
      /\ cookie \in 0..MaxTokens
  BY SessionShape DEF SessionInv
<1> USE <1>0 DEF NewTokensAreNew, Request
<1>1. ASSUME NEW t \in Tabs, NEW i \in Session!Requests, Session!Login(t, i)
      PROVE  NewTokensAreNew'
  BY <1>1 DEF Session!Login, Session!NoRequest, Session!NoToken
<1>2. ASSUME NEW t \in Tabs, NEW i \in Session!Requests, Session!Refresh(t, i)
      PROVE  NewTokensAreNew'
  BY <1>2 DEF Session!Refresh, Session!Sent, Session!NoRequest, Session!NoToken
<1>3. ASSUME NEW t \in Tabs, NEW i \in Session!Requests, Session!Load(t, i)
      PROVE  NewTokensAreNew'
  BY <1>3 DEF Session!Load, Session!Sent, Session!NoRequest, Session!NoToken, Session!Starting
<1>4. ASSUME NEW t \in Tabs, Session!AccessExpires(t)
      PROVE  NewTokensAreNew'
  BY <1>4 DEF Session!AccessExpires
<1>5. ASSUME NEW t \in Tabs, Session!Logout(t)
      PROVE  NewTokensAreNew'
  BY <1>5 DEF Session!Logout, Session!ClearTokens, Session!Out
<1>6. ASSUME NEW t \in Tabs, Session!ChangePassword(t)
      PROVE  NewTokensAreNew'
  BY <1>6 DEF Session!ChangePassword, Session!Good
<1>7. ASSUME NEW i \in Session!Requests, Session!Arrive(i)
      PROVE  NewTokensAreNew'
  BY <1>7 DEF Session!Arrive, Session!NoRequest, Session!NoToken
<1>8. ASSUME NEW i \in Session!Requests, Session!Fail(i)
      PROVE  NewTokensAreNew'
  BY <1>8 DEF Session!Fail, Session!NoRequest, Session!NoToken, Session!Out
<1>9. ASSUME NEW i \in Session!Requests, Session!LoseAnswer(i)
      PROVE  NewTokensAreNew'
  BY <1>9 DEF Session!LoseAnswer, Session!NoToken, Session!Out
<1>10. ASSUME NEW i \in Session!Requests, Session!Find(i)
      PROVE  NewTokensAreNew'
  BY <1>10 DEF Session!Find, Session!Good, Session!NoToken
<1>11. ASSUME NEW i \in Session!Requests, Session!RedirectToLogin(i)
      PROVE  NewTokensAreNew'
  BY <1>11 DEF Session!RedirectToLogin, Session!ClearTokens, Session!Sent, Session!NoRequest,
         Session!NoToken, Session!Starting
<1>12. ASSUME NEW i \in Session!Requests, NEW k \in Session!Tokens, Session!Rotate(i, k)
      PROVE  NewTokensAreNew'
  BY <1>12 DEF TokensAreIssued, Issued, Session!Rotate, Session!Unused, Session!Good
<1>13. ASSUME NEW k \in Session!Tokens, Session!Lapse(k)
      PROVE  NewTokensAreNew'
  BY <1>13 DEF Session!Lapse
<1>14. CASE Session!Revoke \/ Session!ClearCookie \/ UNCHANGED sessionVars
  BY <1>14 DEF Session!Revoke, Session!ClearCookie, Session!Good, Session!NoToken, Session!NoBye,
         sessionVars
<1>15. QED
  BY <1>1, <1>2, <1>3, <1>4, <1>5, <1>6, <1>7, <1>8, <1>9, <1>10, <1>11, <1>12, <1>13, <1>14 DEF Session!Next

\* Whoever gives up waiting for an answer asks again, or logs out.
LEMMA CookieIsAwaitedNext ==
  ASSUME RetriesInTime, SessionInv, [Session!Next]_sessionVars
  PROVE  (CookieIsUsed => CookieIsAwaited)'
<1>0. /\ reqs \in [Session!Requests -> Request] /\ tabs \in [Tabs -> Tab]
      /\ TabsWait /\ TokensAreIssued /\ NewTokensAreNew
      /\ CookieIsUsed => CookieIsAwaited
      /\ db \in [Session!Tokens -> {"unused", "live", "window", "lapsed", "revoked"}]
      /\ \A k \in 0..MaxTokens : k # 0 => k \in Session!Tokens
      /\ 0 \notin Session!Tokens
      /\ cookie \in 0..MaxTokens /\ NoTab \notin Tabs
  BY SessionShape, SessionConstants DEF SessionInv
<1> USE <1>0 DEF CookieIsUsed, CookieIsAwaited, TabsWait, TokensAreIssued, NewTokensAreNew, Request, Tab, Issued
<1>1. ASSUME NEW t \in Tabs, NEW i \in Session!Requests, Session!Login(t, i)
      PROVE  (CookieIsUsed => CookieIsAwaited)'
  <2>1. /\ reqs' = [reqs EXCEPT ![i] = LoggingIn(t)] /\ reqs[i].at = "none"
        /\ UNCHANGED <<db, cookie, tabs, bye>>
    BY <1>1 DEF Session!Login, Session!Free, LoggingIn
  <2>2. /\ \A j \in Session!Requests : j # i => reqs'[j] = reqs[j]
        /\ reqs'[i].raw = 0
    BY <2>1, RequestForms DEF SessionInv
  <2>3. CookieIsUsed' => CookieIsUsed
    BY <2>1, <2>2 DEF CookieIsUsed
  <2>4. CookieIsAwaited => CookieIsAwaited'
    BY <2>1, <2>2 DEF CookieIsAwaited
  <2>5. QED
    BY <2>3, <2>4
<1>2. ASSUME NEW t \in Tabs, NEW i \in Session!Requests, Session!Refresh(t, i)
      PROVE  (CookieIsUsed => CookieIsAwaited)'
  BY <1>2 DEF Session!Refresh, Session!Sent, Session!NoRequest, Session!NoToken
<1>3. ASSUME NEW t \in Tabs, NEW i \in Session!Requests, Session!Load(t, i)
      PROVE  (CookieIsUsed => CookieIsAwaited)'
  BY <1>3 DEF Session!Load, Session!Sent, Session!NoRequest, Session!NoToken, Session!Starting
<1>4. ASSUME NEW t \in Tabs, Session!AccessExpires(t)
      PROVE  (CookieIsUsed => CookieIsAwaited)'
  BY <1>4 DEF Session!AccessExpires
<1>5. ASSUME NEW t \in Tabs, Session!Logout(t)
      PROVE  (CookieIsUsed => CookieIsAwaited)'
  BY <1>5 DEF Session!Logout, Session!ClearTokens, Session!Out
<1>6. ASSUME NEW t \in Tabs, Session!ChangePassword(t)
      PROVE  (CookieIsUsed => CookieIsAwaited)'
  BY <1>6 DEF Session!ChangePassword, Session!Good
<1>7. ASSUME NEW i \in Session!Requests, Session!Arrive(i)
      PROVE  (CookieIsUsed => CookieIsAwaited)'
  BY <1>7 DEF Session!Arrive, Session!NoRequest, Session!NoToken
<1>8. ASSUME NEW i \in Session!Requests, Session!Fail(i)
      PROVE  (CookieIsUsed => CookieIsAwaited)'
  BY <1>8 DEF Session!Fail, Session!NoRequest, Session!NoToken, Session!Out
<1>9. ASSUME NEW i \in Session!Requests, Session!LoseAnswer(i)
      PROVE  (CookieIsUsed => CookieIsAwaited)'
  BY <1>9 DEF Session!LoseAnswer, Session!NoToken, Session!Out
<1>10. ASSUME NEW i \in Session!Requests, Session!Find(i)
      PROVE  (CookieIsUsed => CookieIsAwaited)'
  BY <1>10 DEF Session!Find, Session!Good, Session!NoToken
<1>11. ASSUME NEW i \in Session!Requests, Session!RedirectToLogin(i)
      PROVE  (CookieIsUsed => CookieIsAwaited)'
  BY <1>11 DEF Session!RedirectToLogin, Session!ClearTokens, Session!Sent, Session!NoRequest,
         Session!NoToken, Session!Starting
<1>12. ASSUME NEW i \in Session!Requests, NEW k \in Session!Tokens, Session!Rotate(i, k)
      PROVE  (CookieIsUsed => CookieIsAwaited)'
  BY <1>12 DEF Session!Rotate, Session!Unused, Session!Good
<1>13. ASSUME NEW k \in Session!Tokens, Session!Lapse(k)
      PROVE  (CookieIsUsed => CookieIsAwaited)'
  BY <1>13 DEF Session!Lapse
<1>14. CASE Session!Revoke \/ Session!ClearCookie \/ UNCHANGED sessionVars
  BY <1>14 DEF Session!Revoke, Session!ClearCookie, Session!Good, Session!NoToken, Session!NoBye,
         sessionVars
<1>15. QED
  BY <1>1, <1>2, <1>3, <1>4, <1>5, <1>6, <1>7, <1>8, <1>9, <1>10, <1>11, <1>12, <1>13, <1>14 DEF Session!Next

\* A step of the system is one of the sessions or leaves them alone.
LEMMA SessionsPart == [PeripheryNext]_allVars => [Session!Next]_sessionVars
BY DEF PeripheryNext, OfSessions, OfStore, OfCatalogue, OfAutoQueue, allVars, sessionVars

\* However refreshes, log-ins, lost answers and page loads of any number of
\* tabs interleave, a refresh is refused only for a token that a log-out or a
\* new password has revoked (auth.ts, issueRefreshToken), if whoever gets no
\* answer asks again within the reuse window.
THEOREM RefusedMeansRevoked ==
  ASSUME RetriesInTime
  PROVE  PeripherySpec => []NoFalseLogout
<1>1. SessionInv => NoFalseLogout
  BY DEF SessionInv, TokensAreIssued, NoFalseLogout, Session!NoFalseLogout
<1>2. PeripheryInit => SessionInv
  BY SessionInvInit DEF PeripheryInit
<1>3. SessionInv /\ [PeripheryNext]_allVars => SessionInv'
  BY SessionsPart, SessionTypesNext, TabsWaitNext, TokensAreIssuedNext, NewTokensAreNewNext,
     CookieIsAwaitedNext DEF SessionInv
<1>4. QED
  BY <1>1, <1>2, <1>3, PTL DEF PeripherySpec

-----------------------------------------------------------------------------
(***************************************************************************)
(* The catalogue.  That a call is alone for its key follows from the Map   *)
(* inFlight, which must hold a key exactly as long as somebody leads a     *)
(* call for it: FlightsAreLed says so, and is inductive.                   *)
(***************************************************************************)
Leads(c) == lookups[c].at \in {"calls", "hangs", "stores"}

LookupsTyped ==
  lookups \in [Callers -> [at : {"none", "asks", "missed", "calls", "hangs", "joined", "stores"},
                           key : Keys]]

FlightsAreLed ==
  /\ LookupsTyped
  /\ inFlight \subseteq Shared
  /\ \A c \in Callers : (Leads(c) /\ lookups[c].key \in Shared) => lookups[c].key \in inFlight
  /\ \A c, d \in Callers :
       (Leads(c) /\ Leads(d) /\ lookups[c].key = lookups[d].key /\ lookups[c].key \in Shared) => c = d
  /\ \A k \in inFlight : \E c \in Callers : Leads(c) /\ lookups[c].key = k
  /\ \A c \in Callers : lookups[c].at = "joined" => lookups[c].key \in inFlight

-----------------------------------------------------------------------------
\* A caller that neither leads nor has joined may go on to anything but that:
\* Lookup, the answer of the cache, a refusal.
LEMMA AloneMoves ==
  ASSUME FlightsAreLed, inFlight' = inFlight,
         NEW c \in Callers, NEW r \in [at : {"none", "asks", "missed"}, key : Keys],
         lookups[c].at \in {"none", "asks", "missed"},
         lookups' = [lookups EXCEPT ![c] = r]
  PROVE  FlightsAreLed'
BY SMT DEF FlightsAreLed, LookupsTyped, Leads

\* One that leads goes on leading: Hangs, and Found of a key that is cached.
LEMMA LeaderMoves ==
  ASSUME FlightsAreLed, inFlight' = inFlight,
         NEW c \in Callers, Leads(c), NEW where \in {"hangs", "stores"},
         To(c, where)
  PROVE  FlightsAreLed'
BY SMT DEF FlightsAreLed, LookupsTyped, Leads, To

\* The end of a call takes its key and everybody who joined with it.
LEMMA OverMoves ==
  ASSUME FlightsAreLed, NEW c \in Callers, Leads(c), Over(c)
  PROVE  FlightsAreLed'
<1> DEFINE k == lookups[c].key
           mine(d) == d = c \/ (lookups[d].at = "joined" /\ lookups[d].key = k)
<1>1. lookups' = [d \in Callers |-> IF mine(d) THEN Idle ELSE lookups[d]] /\ inFlight' = inFlight \ {k}
  BY DEF Over
<1>2. Idle \in [at : {"none"}, key : Keys]
  BY DEF Idle, Keys
<1>3. LookupsTyped'
  BY <1>1, <1>2 DEF FlightsAreLed, LookupsTyped
<1>4. \A d \in Callers : ~mine(d) => lookups'[d] = lookups[d]
  BY <1>1
<1>5. \A d \in Callers : mine(d) => lookups'[d].at = "none"
  BY <1>1, <1>2
<1>6. \A d \in Callers : (Leads(d)' \/ lookups'[d].at = "joined") => ~mine(d)
  BY <1>5 DEF Leads
<1>7. \A d \in Callers : (Leads(d) /\ d # c) => ~mine(d)
  BY DEF Leads
<1> HIDE DEF mine
<1>8. (inFlight \subseteq Shared)'
  BY <1>1 DEF FlightsAreLed, Shared
<1>9. \A d \in Callers : (Leads(d)' /\ lookups'[d].key \in Shared) => lookups'[d].key \in inFlight'
  <2> SUFFICES ASSUME NEW d \in Callers, Leads(d)', lookups'[d].key \in Shared
               PROVE  lookups'[d].key \in inFlight'
    OBVIOUS
  <2>1. ~mine(d) /\ lookups'[d] = lookups[d] /\ Leads(d) /\ d # c
    BY <1>4, <1>6 DEF Leads, mine
  <2>2. lookups[d].key \in inFlight /\ lookups[d].key # k
    BY <2>1 DEF FlightsAreLed
  <2> QED BY <2>1, <2>2, <1>1
<1>10. \A d, e \in Callers :
         (Leads(d)' /\ Leads(e)' /\ lookups'[d].key = lookups'[e].key /\ lookups'[d].key \in Shared) => d = e
  BY <1>4, <1>6 DEF FlightsAreLed, Leads
<1>11. \A j \in inFlight' : \E d \in Callers : Leads(d)' /\ lookups'[d].key = j
  <2> SUFFICES ASSUME NEW j \in inFlight' PROVE \E d \in Callers : Leads(d)' /\ lookups'[d].key = j
    OBVIOUS
  <2>1. PICK d \in Callers : Leads(d) /\ lookups[d].key = j
    BY <1>1 DEF FlightsAreLed
  <2>2. d # c
    BY <2>1, <1>1
  <2> QED BY <2>1, <2>2, <1>4, <1>7 DEF Leads
<1>12. \A d \in Callers : lookups'[d].at = "joined" => lookups'[d].key \in inFlight'
  <2> SUFFICES ASSUME NEW d \in Callers, lookups'[d].at = "joined" PROVE lookups'[d].key \in inFlight'
    OBVIOUS
  <2>1. ~mine(d) /\ lookups'[d] = lookups[d]
    BY <1>4, <1>6
  <2> QED BY <2>1, <1>1 DEF FlightsAreLed, mine
<1> QED BY <1>3, <1>8, <1>9, <1>10, <1>11, <1>12 DEF FlightsAreLed, Shared

-----------------------------------------------------------------------------
LEMMA FlightsLedInit == Init => FlightsAreLed
BY DEF Init, FlightsAreLed, LookupsTyped, Leads, Idle, Keys

LEMMA FlightsLedNext == FlightsAreLed /\ [Next]_vars => FlightsAreLed'
<1> SUFFICES ASSUME FlightsAreLed, [Next]_vars PROVE FlightsAreLed'
  OBVIOUS
<1>t. LookupsTyped /\ \A c \in Callers : lookups[c].key \in Keys
  BY DEF FlightsAreLed, LookupsTyped
<1>i. Idle \in [at : {"none", "asks", "missed"}, key : Keys]
  BY DEF Idle, Keys
<1>1. ASSUME NEW c \in Callers, NEW k \in Keys, Lookup(c, k) PROVE FlightsAreLed'
  <2> DEFINE r == [at |-> IF k = UpNext THEN "missed" ELSE "asks", key |-> k]
  <2>1. r \in [at : {"none", "asks", "missed"}, key : Keys]
    OBVIOUS
  <2>2. inFlight' = inFlight /\ lookups[c].at = "none" /\ lookups' = [lookups EXCEPT ![c] = r]
    BY <1>1 DEF Lookup
  <2> HIDE DEF r
  <2> QED BY <2>1, <2>2, AloneMoves
<1>2. ASSUME NEW c \in Callers, CacheAnswers(c) PROVE FlightsAreLed'
  <2> DEFINE r == [at |-> "missed", key |-> lookups[c].key]
  <2>1. r \in [at : {"none", "asks", "missed"}, key : Keys]
    BY <1>t
  <2>2. lookups' = [lookups EXCEPT ![c] = Idle] \/ lookups' = [lookups EXCEPT ![c] = r]
    BY <1>2, <1>t DEF CacheAnswers, To
  <2>3. inFlight' = inFlight /\ lookups[c].at \in {"none", "asks", "missed"}
    BY <1>2 DEF CacheAnswers
  <2> HIDE DEF r
  <2> QED BY <1>i, <2>1, <2>2, <2>3, AloneMoves
<1>3. ASSUME NEW c \in Callers, Call(c) PROVE FlightsAreLed'
  <2>1. lookups' = [lookups EXCEPT ![c] = [at |-> "calls", key |-> lookups[c].key]]
    BY <1>3, <1>t DEF Call, To
  <2>2. lookups[c].at = "missed" /\ lookups[c].key \notin inFlight
        /\ inFlight' = inFlight \cup ({lookups[c].key} \cap Shared)
    BY <1>3 DEF Call
  <2> QED BY <2>1, <2>2, <1>t, SMT DEF FlightsAreLed, LookupsTyped, Leads
<1>4. ASSUME NEW c \in Callers, Join(c) PROVE FlightsAreLed'
  <2>1. lookups' = [lookups EXCEPT ![c] = [at |-> "joined", key |-> lookups[c].key]]
    BY <1>4, <1>t DEF Join, To
  <2>2. lookups[c].at = "missed" /\ lookups[c].key \in inFlight /\ inFlight' = inFlight
    BY <1>4 DEF Join
  <2> QED BY <2>1, <2>2, <1>t, SMT DEF FlightsAreLed, LookupsTyped, Leads
<1>5. ASSUME NEW c \in Callers, Refuse(c) PROVE FlightsAreLed'
  BY <1>5, <1>i, AloneMoves DEF Refuse
<1>6. ASSUME NEW c \in Callers, Hangs(c) PROVE FlightsAreLed'
  BY <1>6, LeaderMoves DEF Hangs, Leads
<1>7. ASSUME NEW c \in Callers, Ends(c) PROVE FlightsAreLed'
  <2>1. CASE Found(c)
    BY <2>1, LeaderMoves, OverMoves DEF Found, Leads
  <2>2. CASE FoundNothing(c) \/ Throws(c) \/ TimesOut(c) \/ Stored(c)
    BY <2>2, OverMoves DEF FoundNothing, Throws, TimesOut, Stored, Leads
  <2> QED BY <1>7, <2>1, <2>2 DEF Ends
<1>8. CASE UNCHANGED <<lookups, inFlight>>
  BY <1>8 DEF FlightsAreLed, LookupsTyped, Leads
<1> QED
  BY <1>1, <1>2, <1>3, <1>4, <1>5, <1>6, <1>7, <1>8
  DEF Next, vars, Expires, Cools, GoesDown, ComesUp

\* However many callers look up however many keys: no two of them have a call
\* under way for one key, and whoever joined a call has one to wait for
\* (withSingleFlight, music.service.ts:22-28).
THEOREM LookupsAreShared == Spec => []OneFetch
<1>1. FlightsAreLed => OneFetch
  <2> SUFFICES ASSUME FlightsAreLed, NEW k \in Shared, NEW c \in Callers
               PROVE  LET L == {d \in Callers : lookups[d].key = k /\ Leads(d)}
                      IN  (c \in L => L = {c}) /\ (lookups[c] = [at |-> "joined", key |-> k] => L # {})
    BY DEF OneFetch, Leads
  <2> QED BY DEF FlightsAreLed, Leads
<1> QED BY <1>1, FlightsLedInit, FlightsLedNext, PTL DEF Spec

-----------------------------------------------------------------------------
(***************************************************************************)
(* The catalogue: types.  What is stored is a key of the cache because a   *)
(* look-up without one never comes to store anything.                      *)
(***************************************************************************)
CatalogueInv ==
  /\ FlightsAreLed
  /\ cached \subseteq Shared
  /\ failures \in 0..Threshold /\ openFor \in 0..2
  /\ up \in BOOLEAN /\ outages \in 0..MaxOutages
  /\ \A c \in Callers : lookups[c].at = "stores" => lookups[c].key \in Shared

\* Nobody looks anything up at the start.
LEMMA CatalogueInvInit == Init => CatalogueInv
BY FlightsLedInit, CatalogueConstants DEF Init, CatalogueInv, Idle

\* A caller that does not go on to store leaves the others as they are.
LEMMA StoresNothing ==
  ASSUME CatalogueInv, NEW c \in Callers, NEW r, r.at # "stores",
         lookups' = [lookups EXCEPT ![c] = r]
  PROVE  \A d \in Callers : lookups'[d].at = "stores" => lookups'[d].key \in Shared
<1>1. ASSUME NEW d \in Callers
      PROVE  lookups'[d] = IF d = c THEN r ELSE lookups[d]
  BY DEF CatalogueInv, FlightsAreLed, LookupsTyped
<1>2. QED
  BY <1>1 DEF CatalogueInv

\* Nor does the end of a call make anybody store.
LEMMA OverStoresNothing ==
  ASSUME CatalogueInv, NEW c \in Callers, Over(c)
  PROVE  \A d \in Callers : lookups'[d].at = "stores" => lookups'[d].key \in Shared
<1>1. ASSUME NEW d \in Callers
      PROVE  lookups'[d] = Idle \/ lookups'[d] = lookups[d]
  BY DEF Over
<1>2. QED
  BY <1>1 DEF CatalogueInv, Idle

\* Failures are counted up to the threshold.
LEMMA CountFailureTypes ==
  ASSUME failures \in 0..Threshold, openFor \in 0..2, CountFailure
  PROVE  failures' \in 0..Threshold /\ openFor' \in 0..2
BY CatalogueConstants DEF CountFailure

\* Look-ups, calls however they end, the circuit and the provider.
LEMMA CatalogueInvNext == CatalogueInv /\ [Next]_vars => CatalogueInv'
<1> SUFFICES ASSUME CatalogueInv, [Next]_vars PROVE CatalogueInv'
  OBVIOUS
<1>1. FlightsAreLed'
  BY FlightsLedNext DEF CatalogueInv
<1> DEFINE Stores == \A d \in Callers : lookups[d].at = "stores" => lookups[d].key \in Shared
           Rest == /\ cached \subseteq Shared
                   /\ failures \in 0..Threshold /\ openFor \in 0..2
                   /\ up \in BOOLEAN /\ outages \in 0..MaxOutages
<1>2. Stores /\ Rest
  BY DEF CatalogueInv
<1>3. SUFFICES Stores' /\ Rest'
  BY <1>1 DEF CatalogueInv
<1>4. ASSUME NEW c \in Callers, NEW k \in Keys, Lookup(c, k)
      PROVE  Stores' /\ Rest'
  BY <1>2, <1>4, StoresNothing DEF Lookup
<1>5. ASSUME NEW c \in Callers, CacheAnswers(c) \/ Call(c) \/ Join(c) \/ Refuse(c) \/ Hangs(c)
      PROVE  Stores' /\ Rest'
  <2>1. PICK r \in {Idle, [at |-> "missed", key |-> lookups[c].key],
                     [at |-> "calls", key |-> lookups[c].key],
                     [at |-> "joined", key |-> lookups[c].key],
                     [at |-> "hangs", key |-> lookups[c].key]} :
          lookups' = [lookups EXCEPT ![c] = r]
    BY <1>5 DEF CacheAnswers, Call, Join, Refuse, Hangs, To
  <2>2. r.at # "stores"
    BY DEF Idle
  <2>3. Stores'
    BY <2>1, <2>2, StoresNothing
  <2>4. Rest'
    BY <1>2, <1>5 DEF CacheAnswers, Call, Join, Refuse, Hangs
  <2>5. QED
    BY <2>3, <2>4
<1>6. ASSUME NEW c \in Callers, Found(c)
      PROVE  Stores' /\ Rest'
  <2>1. Rest'
    BY <1>2, <1>6, CatalogueConstants DEF Found, Close
  <2>2. CASE lookups[c].key \in Shared
    <3>1. lookups' = [lookups EXCEPT ![c] = [at |-> "stores", key |-> lookups[c].key]]
      BY <1>6, <2>2 DEF Found, To
    <3>2. \A d \in Callers : d # c => lookups'[d] = lookups[d]
      BY <3>1 DEF CatalogueInv, FlightsAreLed, LookupsTyped
    <3>3. lookups'[c].key = lookups[c].key
      BY <3>1 DEF CatalogueInv, FlightsAreLed, LookupsTyped
    <3>4. Stores'
      BY <1>2, <2>2, <3>2, <3>3
    <3>5. QED
      BY <2>1, <3>4
  <2>3. CASE lookups[c].key \notin Shared
    BY <1>6, <2>1, <2>3, OverStoresNothing DEF Found
  <2>4. QED
    BY <2>2, <2>3
<1>7. ASSUME NEW c \in Callers, FoundNothing(c)
      PROVE  Stores' /\ Rest'
  BY <1>2, <1>7, OverStoresNothing, CatalogueConstants DEF FoundNothing, Close
<1>8. ASSUME NEW c \in Callers, Throws(c) \/ TimesOut(c)
      PROVE  Stores' /\ Rest'
  BY <1>2, <1>8, OverStoresNothing, CountFailureTypes DEF Throws, TimesOut
<1>9. ASSUME NEW c \in Callers, Stored(c)
      PROVE  Stores' /\ Rest'
  BY <1>2, <1>9, OverStoresNothing DEF Stored
<1>10. ASSUME NEW k \in Shared, Expires(k)
       PROVE  Stores' /\ Rest'
  BY <1>2, <1>10 DEF Expires
<1>11. CASE Cools \/ GoesDown \/ ComesUp \/ UNCHANGED vars
  <2>1. CASE Cools
    <3>1. openFor' \in 0..2 /\ UNCHANGED <<cached, lookups, failures, up, outages>>
      BY <1>2, <2>1 DEF Cools
    <3>2. QED
      BY <1>2, <3>1
  <2>2. CASE GoesDown
    <3>1. up' = FALSE /\ UNCHANGED <<cached, lookups, failures, openFor>>
      BY <2>2 DEF GoesDown
    <3>2. outages' \in 0..MaxOutages
      <4>1. outages \in 0..MaxOutages /\ outages < MaxOutages /\ outages' = outages + 1
        BY <1>2, <2>2 DEF GoesDown
      <4>2. QED
        BY <4>1, CatalogueConstants
    <3>3. up' \in BOOLEAN
      BY <3>1
    <3>4. QED
      BY <1>2, <3>1, <3>2, <3>3
  <2>3. CASE ComesUp
    BY <1>2, <2>3 DEF ComesUp
  <2>4. CASE UNCHANGED vars
    BY <1>2, <2>4 DEF vars
  <2>5. QED
    BY <1>11, <2>1, <2>2, <2>3, <2>4
<1>12. QED
  BY <1>4, <1>5, <1>6, <1>7, <1>8, <1>9, <1>10, <1>11 DEF Next, Ends

-----------------------------------------------------------------------------
(***************************************************************************)
(* The web client's store: types.  That a tab which is logged in shows a   *)
(* device depends on what is under way to it: a pick is of a device, while *)
(* the account may have none.                                              *)
(***************************************************************************)
Answer ==
  {a \in [kind : {"state", "poll", "sync", "transfer", "pick", "put"},
          dev : Devices \cup {NoDevice}, ver : 0..MaxStoreEvents] :
     a.kind \in {"transfer", "pick", "put"} => a.dev \in Devices}

Shown == [dev : Devices \cup {NoDevice}, ver : 0..MaxStoreEvents]

StoreInv ==
  /\ chosen \in Devices
  /\ storeEvents \in 0..MaxStoreEvents
  /\ version \in [Devices -> 0..storeEvents]
  /\ socket \subseteq authed /\ authed \subseteq Tabs
  /\ selected \in [Tabs -> Devices \cup {NoDevice}]
  /\ \A t \in authed : selected[t] # NoDevice
  /\ playback \in [Tabs -> Shown]
  /\ answers \in [Tabs -> SUBSET Answer]

\* Every tab shows the account's device at the start.
LEMMA StoreInvInit == Store!Init => StoreInv
BY StoreConstants DEF Store!Init, StoreInv, Shown

\* What the server answers about a device's state, and about the selection.
LEMMA AnswerForms ==
  ASSUME StoreInv
  PROVE  /\ \A kind \in {"state", "poll", "pick"} : \A d \in Devices :
              Store!StateOf(kind, d) \in Answer
         /\ Store!Sync \in Answer
         /\ \A d \in Devices : [kind |-> "transfer", dev |-> d, ver |-> 0] \in Answer
         /\ \A a \in Answer : a.kind = "pick" => [a EXCEPT !.kind = "put"] \in Answer
         /\ \A a \in Answer : [dev |-> a.dev, ver |-> a.ver] \in Shown
<1>1. ASSUME NEW kind \in {"state", "poll", "pick"}, NEW d \in Devices
      PROVE  Store!StateOf(kind, d) \in Answer
  <2>1. version[d] \in 0..MaxStoreEvents
    BY StoreConstants DEF StoreInv
  <2>2. QED
    BY <2>1 DEF Store!StateOf, Answer
<1>2. Store!Sync \in Answer
  BY StoreConstants DEF StoreInv, Store!Sync, Answer
<1>3. \A d \in Devices : [kind |-> "transfer", dev |-> d, ver |-> 0] \in Answer
  BY StoreConstants DEF Answer
<1>4. \A a \in Answer : a.kind = "pick" => [a EXCEPT !.kind = "put"] \in Answer
  BY DEF Answer
<1>5. \A a \in Answer : [dev |-> a.dev, ver |-> a.ver] \in Shown
  BY DEF Answer, Shown
<1>6. QED
  BY <1>1, <1>2, <1>3, <1>4, <1>5

\* An answer is followed by others.
LEMMA InsteadTypes ==
  ASSUME StoreInv, NEW t \in Tabs, NEW a, NEW more \in SUBSET Answer,
         Store!Instead(t, a, more)
  PROVE  answers' \in [Tabs -> SUBSET Answer]
<1>1. answers \in [Tabs -> SUBSET Answer]
  BY DEF StoreInv
<1> DEFINE kept == (answers[t] \ {a}) \cup more
<1>2. answers' = [answers EXCEPT ![t] = kept]
  BY <1>1, Zenon DEF Store!Instead
<1>3. kept \in SUBSET Answer
  <2>1. answers[t] \in SUBSET Answer
    BY <1>1
  <2>2. QED
    BY <2>1
<1> HIDE DEF kept
<1>4. QED
  BY <1>1, <1>2, <1>3

\* Log-ins, picks, polls, sockets, changes and answers in any order.
LEMMA StoreInvNext == StoreInv /\ [Store!Next]_storeVars => StoreInv'
<1> SUFFICES ASSUME StoreInv, [Store!Next]_storeVars PROVE StoreInv'
  OBVIOUS
<1> USE StoreConstants DEF Store!Disturb
<1>0. \A e \in {storeEvents, storeEvents + 1} : version \in [Devices -> 0..e]
  BY DEF StoreInv
<1>1. ASSUME NEW t \in Tabs, NEW d \in Devices, Store!Login(t, d)
      PROVE  StoreInv'
  <2>1. answers' \in [Tabs -> SUBSET Answer]
    <3> DEFINE more == {Store!StateOf("state", d), Store!Sync}
    <3>1. more \in SUBSET Answer
      BY AnswerForms
    <3>2. answers' = [answers EXCEPT ![t] = @ \cup more]
      BY <1>1 DEF Store!Login
    <3> HIDE DEF more
    <3>3. QED
      BY <3>1, <3>2 DEF StoreInv
  <2>2. QED
    BY <1>0, <1>1, <2>1 DEF StoreInv, Store!Login
<1>2. ASSUME NEW t \in Tabs, NEW d \in Devices, Store!Pick(t, d)
      PROVE  StoreInv'
  <2>1. answers' \in [Tabs -> SUBSET Answer]
    BY <1>2, AnswerForms DEF Store!Pick, StoreInv
  <2>2. QED
    BY <1>0, <1>2, <2>1 DEF StoreInv, Store!Pick
<1>3. ASSUME NEW t \in Tabs, Store!Logout(t)
      PROVE  StoreInv'
  <2>1. Store!NoState \in Shown
    BY DEF Store!NoState, Shown
  <2>2. QED
    BY <1>0, <1>3, <2>1 DEF StoreInv, Store!Logout
<1>4. ASSUME NEW t \in Tabs, Store!Poll(t)
      PROVE  StoreInv'
  <2>1. answers' \in [Tabs -> SUBSET Answer]
    <3>1. selected[t] \in Devices
      BY <1>4 DEF StoreInv, Store!Poll
    <3>2. QED
      BY <1>4, <3>1, AnswerForms DEF Store!Poll, StoreInv
  <2>2. QED
    BY <1>4, <2>1 DEF StoreInv, Store!Poll
<1>5. ASSUME NEW t \in Tabs, Store!WsCloses(t) \/ Store!WsConnects(t)
      PROVE  StoreInv'
  BY <1>0, <1>5 DEF StoreInv, Store!WsCloses, Store!WsConnects
<1>6. ASSUME NEW d \in Devices, Store!Change(d)
      PROVE  StoreInv'
  <2>1. version' \in [Devices -> 0..storeEvents'] /\ storeEvents' \in 0..MaxStoreEvents
    BY <1>6 DEF StoreInv, Store!Change
  <2>2. [dev |-> d, ver |-> version'[d]] \in Shown
    BY <2>1 DEF Shown
  <2>3. playback' \in [Tabs -> Shown]
    BY <1>6, <2>2 DEF StoreInv, Store!Change
  <2>4. QED
    BY <1>6, <2>1, <2>3 DEF StoreInv, Store!Change
<1>7. ASSUME NEW t \in Tabs, NEW a \in answers[t]
      PROVE  a \in Answer
  BY DEF StoreInv
<1>8. ASSUME NEW t \in Tabs, NEW a \in answers[t], Store!StateArrives(t, a)
      PROVE  StoreInv'
  <2>1. PICK more \in {{}, {Store!Sync}, {[a EXCEPT !.kind = "put"]}} :
          Store!Instead(t, a, more) /\ (a.kind = "pick" \/ more \in {{}, {Store!Sync}})
    BY <1>8 DEF Store!StateArrives, Store!Of
  <2>2. more \in SUBSET Answer
    BY <1>7, <2>1, AnswerForms
  <2>3. answers' \in [Tabs -> SUBSET Answer]
    BY <2>1, <2>2, InsteadTypes
  <2>4. [dev |-> a.dev, ver |-> a.ver] \in Shown
    BY <1>7, AnswerForms
  <2>5. QED
    BY <1>8, <2>3, <2>4 DEF StoreInv, Store!StateArrives
<1>9. ASSUME NEW t \in Tabs, NEW a \in answers[t], Store!SyncArrives(t, a)
      PROVE  StoreInv'
  <2>1. a.dev \in Devices \cup {NoDevice}
    BY <1>7 DEF Answer
  <2>2. CASE t \in authed /\ a.dev \notin {NoDevice, selected[t]}
    <3>1. Store!StateOf("state", a.dev) \in Answer
      BY <2>1, <2>2, AnswerForms
    <3>2. answers' \in [Tabs -> SUBSET Answer]
      BY <1>9, <2>2, <3>1, InsteadTypes DEF Store!SyncArrives
    <3>3. QED
      BY <1>9, <2>1, <2>2, <3>2 DEF StoreInv, Store!SyncArrives
  <2>3. CASE ~ (t \in authed /\ a.dev \notin {NoDevice, selected[t]})
    <3>1. answers' \in [Tabs -> SUBSET Answer]
      BY <1>9, <2>3, InsteadTypes DEF Store!SyncArrives
    <3>2. QED
      BY <1>9, <2>3, <3>1 DEF StoreInv, Store!SyncArrives
  <2>4. QED
    BY <2>2, <2>3
<1>10. ASSUME NEW t \in Tabs, NEW a \in answers[t], Store!Selects(t, a)
       PROVE  StoreInv'
  <2>1. a.dev \in Devices
    BY <1>7, <1>10 DEF Answer, Store!Selects, Store!Of
  <2>2. answers' \in [Tabs -> SUBSET Answer]
    BY <1>10, <2>1, AnswerForms, InsteadTypes DEF Store!Selects
  <2>3. QED
    BY <1>10, <2>1, <2>2 DEF StoreInv, Store!Selects
<1>11. ASSUME NEW t \in Tabs, NEW a \in answers[t], Store!PutArrives(t, a)
       PROVE  StoreInv'
  <2>1. a.dev \in Devices
    BY <1>7, <1>11 DEF Answer, Store!PutArrives, Store!Of
  <2>2. Store!StateOf("state", a.dev) \in Answer
    BY <2>1, AnswerForms
  <2>3. answers' \in [Tabs -> SUBSET Answer]
    BY <1>11, <2>2 DEF StoreInv, Store!PutArrives
  <2>4. /\ selected' \in [Tabs -> Devices \cup {NoDevice}]
        /\ \A u \in Tabs : selected'[u] = a.dev \/ selected'[u] = selected[u]
    BY <1>11, <2>1 DEF StoreInv, Store!PutArrives
  <2>5. QED
    BY <1>11, <2>1, <2>3, <2>4 DEF StoreInv, Store!PutArrives
<1>12. ASSUME NEW t \in Tabs, NEW a \in answers[t], Store!Fails(t, a)
       PROVE  StoreInv'
  <2>1. answers' \in [Tabs -> SUBSET Answer]
    BY <1>12, AnswerForms, InsteadTypes DEF Store!Fails
  <2>2. QED
    BY <1>0, <1>12, <2>1 DEF StoreInv, Store!Fails
<1>13. UNCHANGED storeVars => StoreInv'
  BY DEF StoreInv, storeVars
<1>14. QED
  BY <1>1, <1>2, <1>3, <1>4, <1>5, <1>6, <1>8, <1>9, <1>10, <1>11, <1>12, <1>13
     DEF Store!Next, Store!Arrival, Store!Arrives

-----------------------------------------------------------------------------
(***************************************************************************)
(* The parts together.                                                     *)
(***************************************************************************)

\* A step of the system is one of the store, or of the catalogue, or leaves it
\* alone.
LEMMA StorePart == [PeripheryNext]_allVars => [Store!Next]_storeVars
BY DEF PeripheryNext, OfSessions, OfStore, OfCatalogue, OfAutoQueue, allVars, storeVars

LEMMA CataloguePart == [PeripheryNext]_allVars => [Next]_vars
BY DEF PeripheryNext, OfSessions, OfStore, OfCatalogue, OfAutoQueue, allVars

\* The user adds a bounded number of tracks.
LEMMA EditsNext ==
  edits \in 0..MaxEdits /\ [Refiller!Next]_autoVars => edits' \in 0..MaxEdits
<1> SUFFICES ASSUME edits \in 0..MaxEdits, [Refiller!Next]_autoVars
             PROVE  edits' \in 0..MaxEdits
  OBVIOUS
<1>1. edits' = edits \/ Refiller!UserAdds
  <2>1. ASSUME NEW r \in Refills, NEW d \in Devices, Refiller!Ensure(r, d)
        PROVE  edits' = edits
    BY <2>1 DEF Refiller!Ensure
  <2>2. ASSUME NEW r \in Refills,
               \/ Refiller!GivesUp(r) \/ Refiller!ReadQueue(r) \/ Refiller!ReadIndex(r)
               \/ Refiller!AddAuto(r)
        PROVE  edits' = edits
    BY <2>2 DEF Refiller!GivesUp, Refiller!ReadQueue, Refiller!ReadIndex, Refiller!AddAuto
  <2>3. ASSUME NEW r \in Refills, NEW n \in 0..Batch, Refiller!Recommends(r, n)
        PROVE  edits' = edits
    BY <2>3 DEF Refiller!Recommends
  <2>4. CASE Refiller!Advance \/ Refiller!UserRemoves \/ UNCHANGED autoVars
    BY <2>4 DEF Refiller!Advance, Refiller!UserRemoves, autoVars
  <2>5. QED
    BY <2>1, <2>2, <2>3, <2>4 DEF Refiller!Next
<1>2. QED
  BY <1>1, RefillConstants DEF Refiller!UserAdds

\* The sessions, the store, the look-ups and the refills keep their types for
\* any number of tabs, tokens, callers and devices; a tab whose socket is open
\* is logged in, and one that is logged in shows a device (useMusic.ts: logout
\* closes the socket, selectDevice and syncSelectedDevice only take devices).
THEOREM PeripheryTyped == PeripherySpec => []PeripheryTypeOK
<1> DEFINE Inv == /\ Session!TypeOK /\ StoreInv /\ CatalogueInv
                  /\ RefillInv /\ edits \in 0..MaxEdits
<1>1. PeripheryInit => Inv
  BY SessionTypesInit, StoreInvInit, CatalogueInvInit, RefillInvInit, RefillConstants
     DEF PeripheryInit, Refiller!Init
<1>2. Inv /\ [PeripheryNext]_allVars => Inv'
  BY SessionsPart, StorePart, CataloguePart, AutoQueuePart,
     SessionTypesNext, StoreInvNext, CatalogueInvNext, RefillInvNext, EditsNext
<1>3. Inv => PeripheryTypeOK
  <2> SUFFICES ASSUME Inv PROVE PeripheryTypeOK
    OBVIOUS
  <2>1. TypeOK
    BY DEF CatalogueInv, FlightsAreLed, LookupsTyped, TypeOK
  <2>2. version \in [Devices -> 0..MaxStoreEvents]
    <3>1. version \in [Devices -> 0..storeEvents] /\ storeEvents \in 0..MaxStoreEvents
      BY DEF StoreInv
    <3>2. 0..storeEvents \subseteq 0..MaxStoreEvents
      BY <3>1, StoreConstants
    <3>3. QED
      BY <3>1, <3>2
  <2>3. Store!TypeOK
    <3>1. ASSUME NEW t \in Tabs
          PROVE  answers[t] \subseteq
                   [kind : {"state", "poll", "sync", "transfer", "pick", "put"},
                    dev : Devices \cup {NoDevice}, ver : 0..MaxStoreEvents]
      BY DEF StoreInv, Answer
    <3>2. QED
      BY <2>2, <3>1 DEF StoreInv, Shown, Store!TypeOK
  <2>4. Refiller!TypeOK
    BY DEF RefillInv, RefillShape, Refill, Refiller!TypeOK
  <2>5. QED
    BY <2>1, <2>3, <2>4 DEF PeripheryTypeOK
<1>4. QED
  BY <1>1, <1>2, <1>3, PTL DEF PeripherySpec
=============================================================================
