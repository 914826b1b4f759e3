-------------------------- MODULE QueueStoreProofs --------------------------
(***************************************************************************)
(* Theorems about QueueStore, for any number of requests, any tracks and   *)
(* any number of calls.                                                    *)
(***************************************************************************)
EXTENDS QueueStore, QueueOpsProofs

-----------------------------------------------------------------------------
(***************************************************************************)
(* The lock.  A handler inside its critical section owns the lock key, as  *)
(* long as no lock expires under a holder at work.                         *)
(***************************************************************************)

\* What the proof needs to know of the variables' shape.
LockTypeOK ==
  /\ pc \in [Procs -> Critical \cup {"idle", "lock", "setIndex", "return"}]
  /\ lock \in Procs \cup {NoToken}

LockInv == LockTypeOK /\ MutualExclusion

\* At the start nobody holds the lock and nobody is inside.
LEMMA LockInvInit == Init => LockInv
  BY DEF Init, LockInv, LockTypeOK, MutualExclusion, Critical

\* Every step of every handler, of Redis and of a crash keeps the lock with
\* the handler that is inside its critical section.
LEMMA LockInvNext ==
  ASSUME ~SlowHolders, LockInv, [Next]_vars
  PROVE  LockInv'
<1> USE TokenAssumption DEF LockInv, LockTypeOK, MutualExclusion, Critical, Goto, redis, locals
<1>1. ASSUME NEW p \in Procs, Begin(p)
      PROVE  LockInv'
  BY <1>1 DEF Begin
<1>2. ASSUME NEW p \in Procs, Acquire(p)
      PROVE  LockInv'
  BY <1>2 DEF Acquire
<1>3. ASSUME NEW p \in Procs, Retry(p)
      PROVE  LockInv'
  BY <1>3 DEF Retry
<1>4. ASSUME NEW p \in Procs, Conflict(p)
      PROVE  LockInv'
  BY <1>4 DEF Conflict
<1>5. ASSUME NEW p \in Procs, ReadQueue(p)
      PROVE  LockInv'
  BY <1>5 DEF ReadQueue
<1>6. ASSUME NEW p \in Procs, ReadIndex(p)
      PROVE  LockInv'
  <2> DEFINE l == AfterRead(call[p], Outcome(call[p], readQ[p], index))
  <2>1. l \in {"release", "moveIndex", "writeQueue"}
    BY DEF AfterRead
  <2>2. pc[p] = "readIndex" /\ pc' = [pc EXCEPT ![p] = l] /\ lock' = lock
    BY <1>6 DEF ReadIndex
  <2> HIDE DEF l
  <2>3. QED
    BY <2>1, <2>2
<1>7. ASSUME NEW p \in Procs, WriteQueue(p)
      PROVE  LockInv'
  BY <1>7 DEF WriteQueue
<1>8. ASSUME NEW p \in Procs, WriteIndex(p)
      PROVE  LockInv'
  BY <1>8 DEF WriteIndex
<1>9. ASSUME NEW p \in Procs, MoveIndex(p)
      PROVE  LockInv'
  BY <1>9 DEF MoveIndex
<1>10. ASSUME NEW p \in Procs, Release(p)
       PROVE  LockInv'
  BY <1>10 DEF Release, Forget
<1>11. ASSUME NEW p \in Procs, SetIndex(p)
       PROVE  LockInv'
  BY <1>11 DEF SetIndex
<1>12. ASSUME NEW p \in Procs, Return(p)
       PROVE  LockInv'
  BY <1>12 DEF Return, Forget
<1>13. ASSUME NEW p \in Procs, Fault(p)
       PROVE  LockInv'
  BY <1>13 DEF Fault, RedisFails, ReleaseFails, Forget
<1>14. CASE Expire
  BY <1>14 DEF Expire
<1>15. CASE Crash
  BY <1>15 DEF Crash
<1>16. CASE UNCHANGED vars
  BY <1>16 DEF vars
<1>17. QED
  BY <1>1, <1>2, <1>3, <1>4, <1>5, <1>6, <1>7, <1>8, <1>9, <1>10, <1>11,
     <1>12, <1>13, <1>14, <1>15, <1>16 DEF Next, Step

\* At any time at most one handler is between its SET NX and its release,
\* however many requests there are, also when Redis rejects commands and when
\* the server crashes (mutateWithCursor and advance in queue.service.ts).
THEOREM LockExcludes ==
  ASSUME ~SlowHolders
  PROVE  Spec => []MutualExclusion
<1>1. Spec => []LockInv
  BY LockInvInit, LockInvNext, PTL DEF Spec
<1>2. LockInv => MutualExclusion
  BY DEF LockInv
<1>3. QED
  BY <1>1, <1>2, PTL

-----------------------------------------------------------------------------
(***************************************************************************)
(* The lock changes hands.  No hypothesis on the environment: locks may    *)
(* expire under their holders, Redis may reject commands, and the server   *)
(* may crash.                                                              *)
(***************************************************************************)

\* Every step leaves the lock a token or absent and every handler at an
\* await, whatever the environment does.
LEMMA LockTypeNext == ASSUME LockTypeOK, [Next]_vars PROVE LockTypeOK'
<1> USE DEF LockTypeOK, Critical, Goto, Forget, redis, locals
<1>1. ASSUME NEW p \in Procs, Begin(p) \/ Acquire(p) \/ Retry(p) \/ Conflict(p)
      PROVE  LockTypeOK'
  BY <1>1 DEF Begin, Acquire, Retry, Conflict
<1>2. ASSUME NEW p \in Procs, ReadIndex(p)
      PROVE  LockTypeOK'
  <2> DEFINE l == AfterRead(call[p], Outcome(call[p], readQ[p], index))
  <2>1. l \in {"release", "moveIndex", "writeQueue"}
    BY DEF AfterRead
  <2>2. pc' = [pc EXCEPT ![p] = l] /\ lock' = lock
    BY <1>2 DEF ReadIndex
  <2> HIDE DEF l
  <2>3. QED
    BY <2>1, <2>2
<1>3. ASSUME NEW p \in Procs,
             ReadQueue(p) \/ WriteQueue(p) \/ WriteIndex(p) \/ MoveIndex(p)
      PROVE  LockTypeOK'
  BY <1>3 DEF ReadQueue, WriteQueue, WriteIndex, MoveIndex
<1>4. ASSUME NEW p \in Procs, Release(p) \/ SetIndex(p) \/ Return(p)
      PROVE  LockTypeOK'
  BY <1>4 DEF Release, SetIndex, Return
<1>5. ASSUME NEW p \in Procs, Fault(p)
      PROVE  LockTypeOK'
  BY <1>5 DEF Fault, RedisFails, ReleaseFails
<1>6. CASE Expire \/ Crash \/ UNCHANGED vars
  BY <1>6 DEF Expire, Crash, vars
<1>7. QED
  BY <1>1, <1>2, <1>3, <1>4, <1>5, <1>6 DEF Next, Step

\* A step that takes p's lock away and is not the TTL is p's own release.
LEMMA OwnerReleases ==
  ASSUME LockTypeOK, [Next]_vars, NEW p \in Procs, lock = p, lock' # p, ~Expire
  PROVE  pc[p] = "release" /\ pc'[p] = "idle"
<1> USE DEF LockTypeOK, redis
<1>0. lock # NoToken
  BY TokenAssumption
<1>1. ASSUME NEW r \in Procs, Begin(r)
      PROVE  FALSE
  BY <1>1 DEF Begin
<1>2. ASSUME NEW r \in Procs, Step(r), ~Release(r)
      PROVE  FALSE
  <2>1. ~Acquire(r)
    BY <1>0 DEF Acquire
  <2>2. lock' = lock
    BY <1>2, <2>1 DEF Step, Retry, Conflict, ReadQueue, ReadIndex, WriteQueue,
                      WriteIndex, MoveIndex, SetIndex, Return
  <2>3. QED
    BY <2>2
<1>3. ASSUME NEW r \in Procs, Fault(r)
      PROVE  FALSE
  BY <1>3 DEF Fault, RedisFails, ReleaseFails
<1>4. ASSUME NEW r \in Procs, Release(r)
      PROVE  pc[p] = "release" /\ pc'[p] = "idle"
  <2>1. lock = r
    BY <1>4 DEF Release
  <2>2. QED
    BY <1>4, <2>1 DEF Release, Forget
<1>5. ~Crash /\ ~UNCHANGED vars
  BY DEF Crash, vars
<1>6. QED
  BY <1>1, <1>2, <1>3, <1>4, <1>5 DEF Next

\* RELEASE_LUA in every environment: a lock that is held goes away only with
\* the release of the call that took it or with its TTL.  A handler whose
\* lock expired and was taken by another one never releases the other's.
THEOREM LockGoesWithItsOwner == Spec => OnlyOwnerReleases
<1>1. Init => LockTypeOK
  BY DEF Init, LockTypeOK
<1>2. Spec => []LockTypeOK
  BY <1>1, LockTypeNext, PTL DEF Spec
<1>3. LockTypeOK /\ [Next]_vars
        => [\A p \in Procs :
              lock = p /\ lock' # p /\ ~Expire => pc[p] = "release" /\ pc'[p] = "idle"]_vars
  BY OwnerReleases
<1>4. QED
  BY <1>2, <1>3, PTL DEF Spec, OnlyOwnerReleases

-----------------------------------------------------------------------------
(***************************************************************************)
(* Lost updates.  Mutual exclusion alone is not enough: the cursor is also *)
(* written by setIndex, which takes no lock.  Without setIndex what a      *)
(* handler read stays true until it writes.                                *)
(***************************************************************************)

\* setIndex is not called.
NoSetIndex == \A p \in Procs : pc[p] # "setIndex"

\* The handlers' locals are functions on the processes.
LocalsOK ==
  /\ call = [p \in Procs |-> call[p]]
  /\ readQ = [p \in Procs |-> readQ[p]]
  /\ readI = [p \in Procs |-> readI[p]]
  /\ answer = [p \in Procs |-> answer[p]]

StoreInv == LockInv /\ NoSetIndex /\ LocalsOK /\ NoLostUpdate

\* At the start nobody has read anything.
LEMMA StoreInvInit == Init => StoreInv
  BY LockInvInit DEF Init, StoreInv, NoSetIndex, LocalsOK, NoLostUpdate

\* Every step leaves the locals functions on the processes.
LEMMA LocalsOKNext == ASSUME LocalsOK, [Next]_vars PROVE LocalsOK'
<1> USE DEF LocalsOK, redis, locals, Forget
<1>1. ASSUME NEW p \in Procs, Begin(p)
      PROVE  LocalsOK'
  BY <1>1 DEF Begin
<1>2. ASSUME NEW p \in Procs, Step(p)
      PROVE  LocalsOK'
  <2>1. CASE Acquire(p) \/ Retry(p) \/ Conflict(p) \/ Return(p)
    BY <2>1 DEF Acquire, Retry, Conflict, Return
  <2>2. CASE ReadQueue(p) \/ ReadIndex(p)
    BY <2>2 DEF ReadQueue, ReadIndex
  <2>3. CASE WriteQueue(p) \/ WriteIndex(p) \/ MoveIndex(p)
    BY <2>3 DEF WriteQueue, WriteIndex, MoveIndex
  <2>4. CASE Release(p) \/ SetIndex(p)
    BY <2>4 DEF Release, SetIndex
  <2>5. QED
    BY <1>2, <2>1, <2>2, <2>3, <2>4 DEF Step
<1>3. ASSUME NEW p \in Procs, Fault(p)
      PROVE  LocalsOK'
  BY <1>3 DEF Fault, RedisFails, ReleaseFails
<1>4. CASE Expire \/ Crash \/ UNCHANGED vars
  BY <1>4 DEF Expire, Crash, vars
<1>5. QED
  BY <1>1, <1>2, <1>3, <1>4 DEF Next

\* A service whose callers never use setIndex never executes it.
LEMMA NoSetIndexNext ==
  ASSUME "setIndex" \notin Kinds, LockInv, NoSetIndex, [Next]_vars
  PROVE  NoSetIndex'
<1> USE DEF NoSetIndex, LockInv, LockTypeOK, Goto, Forget, redis, locals
<1>1. ASSUME NEW p \in Procs, Begin(p)
      PROVE  NoSetIndex'
  BY <1>1 DEF Begin
<1>2. ASSUME NEW p \in Procs, Step(p)
      PROVE  NoSetIndex'
  <2>1. CASE Acquire(p) \/ Retry(p) \/ Conflict(p) \/ Return(p) \/ ReadQueue(p)
    BY <2>1 DEF Acquire, Retry, Conflict, Return, ReadQueue
  <2>2. CASE ReadIndex(p)
    <3> DEFINE l == AfterRead(call[p], Outcome(call[p], readQ[p], index))
    <3>1. l # "setIndex"
      BY DEF AfterRead
    <3>2. pc' = [pc EXCEPT ![p] = l]
      BY <2>2 DEF ReadIndex
    <3> HIDE DEF l
    <3>3. QED
      BY <3>1, <3>2
  <2>3. CASE WriteQueue(p) \/ WriteIndex(p) \/ MoveIndex(p)
    BY <2>3 DEF WriteQueue, WriteIndex, MoveIndex
  <2>4. CASE Release(p) \/ SetIndex(p)
    BY <2>4 DEF Release, SetIndex
  <2>5. QED
    BY <1>2, <2>1, <2>2, <2>3, <2>4 DEF Step
<1>3. ASSUME NEW p \in Procs, Fault(p)
      PROVE  NoSetIndex'
  BY <1>3 DEF Fault, RedisFails, ReleaseFails
<1>4. CASE Expire \/ Crash \/ UNCHANGED vars
  BY <1>4 DEF Expire, Crash, vars
<1>5. QED
  BY <1>1, <1>2, <1>3, <1>4 DEF Next

\* No step of another handler touches queue or cursor between the reads and
\* the writes of the handler that holds the lock.
LEMMA StoreInvNext ==
  ASSUME ~SlowHolders, "setIndex" \notin Kinds, StoreInv, [Next]_vars
  PROVE  StoreInv'
<1>0. LockInv' /\ NoSetIndex' /\ LocalsOK'
  BY LockInvNext, NoSetIndexNext, LocalsOKNext DEF StoreInv
<1> SUFFICES NoLostUpdate'
  BY <1>0 DEF StoreInv
<1> USE DEF StoreInv, NoSetIndex, LocalsOK, NoLostUpdate, Goto, redis, locals
<1> USE DEF LockInv, LockTypeOK, MutualExclusion, Critical
<1>1. ASSUME NEW p \in Procs, Begin(p)
      PROVE  NoLostUpdate'
  BY <1>1 DEF Begin
<1>2. ASSUME NEW p \in Procs, Acquire(p) \/ Retry(p) \/ Conflict(p)
      PROVE  NoLostUpdate'
  BY <1>2 DEF Acquire, Retry, Conflict
<1>3. ASSUME NEW p \in Procs, ReadQueue(p)
      PROVE  NoLostUpdate'
  BY <1>3 DEF ReadQueue
<1>4. ASSUME NEW p \in Procs, ReadIndex(p)
      PROVE  NoLostUpdate'
  BY <1>4 DEF ReadIndex
<1>5. ASSUME NEW p \in Procs, WriteQueue(p)
      PROVE  NoLostUpdate'
  BY <1>5 DEF WriteQueue
<1>6. ASSUME NEW p \in Procs, WriteIndex(p) \/ MoveIndex(p)
      PROVE  NoLostUpdate'
  BY <1>6 DEF WriteIndex, MoveIndex
<1>7. ASSUME NEW p \in Procs, Release(p) \/ ReleaseFails(p) \/ Return(p)
      PROVE  NoLostUpdate'
  BY <1>7 DEF Release, ReleaseFails, Return, Forget
<1>8. ASSUME NEW p \in Procs, SetIndex(p)
      PROVE  NoLostUpdate'
  BY <1>8 DEF SetIndex
<1>9. ASSUME NEW p \in Procs, RedisFails(p)
      PROVE  NoLostUpdate'
  <2>1. pc[p] \in Critical /\ pc' = [pc EXCEPT ![p] = "release"]
    BY <1>9 DEF RedisFails
  <2>2. UNCHANGED <<readQ, readI>>
    BY <1>9 DEF RedisFails
  <2>3. \A r \in Procs \ {p} : pc'[r] \notin Critical
    BY <2>1
  <2>4. QED
    BY <2>1, <2>2, <2>3
<1>10. CASE Expire \/ Crash \/ UNCHANGED vars
  BY <1>10 DEF Expire, Crash, vars
<1>11. QED
  BY <1>1, <1>2, <1>3, <1>4, <1>5, <1>6, <1>7, <1>8, <1>9, <1>10
     DEF Next, Step, Fault

\* Whatever a handler writes, it computed from what Redis still holds: no
\* update of queue or cursor is lost, however many handlers run, when Redis
\* rejects commands and when the server crashes, provided that no lock
\* expires under its holder and that nobody uses the unlocked setIndex.
THEOREM NoUpdateIsLost ==
  ASSUME ~SlowHolders, "setIndex" \notin Kinds
  PROVE  Spec => []NoLostUpdate
<1>1. Spec => []StoreInv
  BY StoreInvInit, StoreInvNext, PTL DEF Spec
<1>2. StoreInv => NoLostUpdate
  BY DEF StoreInv
<1>3. QED
  BY <1>1, <1>2, PTL

-----------------------------------------------------------------------------
(***************************************************************************)
(* Types.  What Redis holds are items with ids already handed out because  *)
(* what a handler is about to write is: its outcome was computed from      *)
(* items it read and from items of its call.  No hypothesis on the         *)
(* environment.                                                            *)
(***************************************************************************)

\* The fields of a call, when n ids have been handed out.
CallFits(c, n) ==
  /\ c.kind \in Kinds
  /\ c.kind \in {"add", "addNext", "insertAtCurrent"} => c.item \in Items(n)
  /\ c.kind = "replace" => c.items \in Seq(Items(n)) /\ c.at \in Nat
  /\ c.kind = "reorder" => c.order \in Seq(Nat)
  /\ c.kind = "setIndex" => c.at \in Nat

\* An outcome that may be written.
OutcomeFits(o, n) == o.queue \in Seq(Items(n)) /\ o.index \in Nat

\* A handler at await l, with its call, its reads, its answer and its tries.
HandlerFits(l, c, q, i, ans, tries, n) ==
  /\ q \in Seq(Items(n)) /\ i \in Nat
  /\ l = "idle" => c = NoCall /\ ans = NoAnswer
  /\ l # "idle" => CallFits(c, n)
  /\ l = "setIndex" => c.kind = "setIndex"
  /\ l \in {"writeQueue", "writeIndex", "moveIndex"} => OutcomeFits(ans, n)
  /\ tries < MutateAttempts + AdvanceAttempts

TypeInv ==
  /\ LockTypeOK /\ LocalsOK
  /\ attempt \in [Procs -> Nat]
  /\ fresh \in Nat \ {0}
  /\ queue \in Seq(Items(fresh - 1))
  /\ index \in Nat
  /\ calls \in 0..MaxCalls
  /\ \A p \in Procs :
       HandlerFits(pc[p], call[p], readQ[p], readI[p], answer[p], attempt[p], fresh - 1)

\* A queue of items stays one when more ids are handed out.
LEMMA ItemsGrow ==
  ASSUME NEW n \in Nat, NEW m \in Nat, n <= m
  PROVE  /\ \A it \in Items(n) : it \in Items(m)
         /\ \A q \in Seq(Items(n)) : q \in Seq(Items(m))
<1>1. \A it \in Items(n) : it \in Items(m)
  BY DEF Items
<1>2. ASSUME NEW q \in Seq(Items(n))
      PROVE  q \in Seq(Items(m))
  <2>1. Len(q) \in Nat /\ q \in [1 .. Len(q) -> Items(n)]
    OBVIOUS
  <2>2. q \in [1 .. Len(q) -> Items(m)]
    BY <1>1, <2>1
  <2>3. QED
    BY <2>1, <2>2
<1>3. QED
  BY <1>1, <1>2

\* ... and so does what a handler holds.
LEMMA HandlerGrows ==
  ASSUME NEW n \in Nat, NEW m \in Nat, n <= m,
         NEW l, NEW c, NEW q, NEW i, NEW ans, NEW tries,
         HandlerFits(l, c, q, i, ans, tries, n)
  PROVE  HandlerFits(l, c, q, i, ans, tries, m)
BY ItemsGrow DEF HandlerFits, CallFits, OutcomeFits

\* Marking an item as patched keeps the queue's type.
LEMMA PatchFits ==
  ASSUME NEW n \in Nat, NEW q \in Seq(Items(n)), NEW k \in 1 .. Len(q)
  PROVE  [q EXCEPT ![k].patched = TRUE] \in Seq(Items(n))
<1>1. q[k] \in Items(n) /\ [q[k] EXCEPT !.patched = TRUE] \in Items(n)
  <2>1. q[k] \in Items(n)
    OBVIOUS
  <2>2. QED
    BY <2>1 DEF Items
<1>2. [q EXCEPT ![k] = [q[k] EXCEPT !.patched = TRUE]] \in Seq(Items(n))
  BY <1>1
<1>3. [q EXCEPT ![k].patched = TRUE] = [q EXCEPT ![k] = [q[k] EXCEPT !.patched = TRUE]]
  OBVIOUS
<1>4. QED
  BY <1>2, <1>3

\* Every operation answers with a queue of items and a cursor.
LEMMA OutcomeIsTyped ==
  ASSUME NEW n \in Nat, NEW c, CallFits(c, n), NEW q \in Seq(Items(n)), NEW i \in Nat
  PROVE  OutcomeFits(Outcome(c, q, i), n)
<1> USE DEF OutcomeFits, Ok, Null, Throws
<1>1. CASE c.kind = "add"
  <2>1. c.item \in Items(n)
    BY <1>1 DEF CallFits
  <2>2. QED
    BY <1>1, <2>1 DEF Outcome, Add
<1>2. CASE c.kind \in {"addNext", "insertAtCurrent"}
  <2>1. c.item \in Items(n)
    BY <1>2 DEF CallFits
  <2>2. Lesser(i + 1, Len(q)) + 1 \in 1 .. Len(q) + 1 /\ Lesser(i, Len(q)) + 1 \in 1 .. Len(q) + 1
    BY DEF Lesser
  <2>3. \A k \in 1 .. Len(q) + 1 : InsertAt(q, k, c.item) \in Seq(Items(n))
    BY <2>1, InsertAdds
  <2>4. QED
    BY <1>2, <2>2, <2>3 DEF Outcome, AddNext, InsertAtCurrent
<1>3. CASE c.kind = "remove"
  BY <1>3, WithoutKeeps DEF Outcome, RemoveItem
<1>4. CASE c.kind = "clear"
  <2>1. Outcome(c, q, i) = Ok(<<>>, 0, NoItem)
    BY <1>4 DEF Outcome, ClearAll
  <2>2. <<>> \in Seq(Items(n))
    OBVIOUS
  <2>3. QED
    BY <2>1, <2>2
<1>5. CASE c.kind = "replace"
  <2>1. c.items \in Seq(Items(n)) /\ c.at \in Nat
    BY <1>5 DEF CallFits
  <2>2. Lesser(c.at, IF c.items = <<>> THEN 0 ELSE Len(c.items) - 1) \in Nat
    <3>1. c.items # <<>> => Len(c.items) - 1 \in Nat
      BY <2>1
    <3>2. QED
      BY <2>1, <3>1 DEF Lesser
  <2>3. QED
    BY <1>5, <2>1, <2>2 DEF Outcome, Replace
<1>6. CASE c.kind = "updateTrackMetadata"
  <2> DEFINE k == FirstWithTrack(q, c.track) + 1
  <2>1. k \in 0 .. Len(q)
    BY FirstIsPosition
  <2>2. Outcome(c, q, i) = Ok(IF k = 0 THEN q ELSE [q EXCEPT ![k].patched = TRUE], i, NoItem)
    BY <1>6 DEF Outcome, UpdateTrackMetadata
  <2> HIDE DEF k
  <2>3. k # 0 => [q EXCEPT ![k].patched = TRUE] \in Seq(Items(n))
    BY <2>1, PatchFits
  <2>4. QED
    BY <2>2, <2>3
<1>7. CASE c.kind = "reorder"
  <2>1. c.order \in Seq(Nat)
    BY <1>7 DEF CallFits
  <2>2. Outcome(c, q, i) = Reorder(q, i, c.order)
    BY <1>7 DEF Outcome
  <2>3. CASE Len(c.order) = Len(q) /\ ToSet(c.order) \subseteq IdsOf(q)
    <3> DEFINE o == [k \in DOMAIN c.order |->
                       q[SelectLastInSeq(q, LAMBDA it : it.id = c.order[k])]]
    <3>1. Reorder(q, i, c.order) = Ok(o, i, NoItem)
      BY <2>3 DEF Reorder
    <3>2. o \in Seq(Items(n))
      BY <2>1, <2>3, ReorderPicks
    <3> HIDE DEF o
    <3>3. QED
      BY <2>2, <3>1, <3>2
  <2>4. CASE ~ (Len(c.order) = Len(q) /\ ToSet(c.order) \subseteq IdsOf(q))
    BY <2>2, <2>4 DEF Reorder
  <2>5. QED
    BY <2>3, <2>4
<1>8. CASE c.kind = "advance"
  BY <1>8 DEF Outcome, Advance
<1>9. CASE c.kind = "placeCurrent"
  <2>1. FirstWithTrack(q, c.track) \in -1 .. Len(q) - 1
    BY FirstIsPosition
  <2>2. QED
    BY <1>9, <2>1 DEF Outcome, PlaceCurrent
<1>10. CASE c.kind = "setIndex"
  <2>1. c.at \in Nat
    BY <1>10 DEF CallFits
  <2>2. QED
    BY <1>10, <2>1 DEF Outcome
<1>11. QED
  BY <1>1, <1>2, <1>3, <1>4, <1>5, <1>6, <1>7, <1>8, <1>9, <1>10, KindsAssumption DEF CallFits

\* The calls of a kind carry that kind.
LEMMA CallsHaveKind ==
  ASSUME NEW kind \in Kinds, NEW c \in CallsOf(kind)
  PROVE  c.kind = kind
<1>1. CASE kind \in {"add", "addNext", "insertAtCurrent"}
  BY <1>1 DEF CallsOf
<1>2. CASE kind \in {"remove", "clear", "advance"}
  BY <1>2 DEF CallsOf
<1>3. CASE kind = "replace"
  BY <1>3 DEF CallsOf
<1>4. CASE kind = "reorder"
  BY <1>4 DEF CallsOf
<1>5. CASE kind \in {"updateTrackMetadata", "placeCurrent", "setIndex"}
  BY <1>5 DEF CallsOf
<1>6. QED
  BY <1>1, <1>2, <1>3, <1>4, <1>5, KindsAssumption

\* The calls of a request fit, once their ids are handed out.
LEMMA CallsFit ==
  ASSUME fresh \in Nat \ {0}, queue \in Seq(Items(fresh - 1)),
         NEW kind \in Kinds, NEW c \in CallsOf(kind)
  PROVE  NewIds(c) \in Nat /\ CallFits(c, fresh + NewIds(c) - 1)
<1>0. c.kind = kind
  BY CallsHaveKind
<1>1. CASE kind \in {"add", "addNext", "insertAtCurrent"}
  <2>1. PICK t \in Tracks : c = [kind |-> kind, item |-> NewItem(fresh, t)]
    BY <1>1 DEF CallsOf
  <2>2. NewIds(c) = 1
    BY <1>0, <1>1 DEF NewIds
  <2>3. c.item \in Items(fresh)
    BY <2>1 DEF NewItem, Items
  <2>4. QED
    BY <1>0, <1>1, <2>2, <2>3 DEF CallFits
<1>2. CASE kind \in {"remove", "clear", "advance", "updateTrackMetadata", "placeCurrent"}
  <2>1. NewIds(c) = 0
    BY <1>0, <1>2 DEF NewIds
  <2>2. QED
    BY <1>0, <1>2, <2>1 DEF CallFits
<1>3. CASE kind = "replace"
  <2>1. PICK ts \in Playlists : \E at \in 0..Len(ts) :
          c = [kind |-> kind, at |-> at,
               items |-> [k \in DOMAIN ts |-> NewItem(fresh + k - 1, ts[k])]]
    BY <1>3 DEF CallsOf
  <2>2. ts \in Seq(Tracks) /\ DOMAIN ts = 1..Len(ts) /\ Len(ts) \in Nat
    BY ListsAssumption
  <2>3. c.at \in Nat /\ c.items = [k \in 1..Len(ts) |-> NewItem(fresh + k - 1, ts[k])]
    BY <2>1, <2>2
  <2>4. \A k \in 1..Len(ts) : NewItem(fresh + k - 1, ts[k]) \in Items(fresh + Len(ts) - 1)
    <3>1. \A k \in 1..Len(ts) : ts[k] \in Tracks /\ fresh + k - 1 \in 1..(fresh + Len(ts) - 1)
      BY <2>2
    <3>2. QED
      BY <3>1 DEF NewItem, Items
  <2>5. c.items \in Seq(Items(fresh + Len(ts) - 1)) /\ Len(c.items) = Len(ts)
    BY <2>2, <2>3, <2>4
  <2>6. NewIds(c) = Len(ts)
    BY <1>0, <1>3, <2>5 DEF NewIds
  <2>7. QED
    BY <1>0, <1>3, <2>2, <2>3, <2>5, <2>6 DEF CallFits
<1>4. CASE kind = "reorder"
  <2>1. PICK o \in [1..Len(queue) -> 1..(fresh - 1)] : c = [kind |-> kind, order |-> o]
    BY <1>4 DEF CallsOf
  <2>2. Len(queue) \in Nat /\ o \in [1..Len(queue) -> Nat]
    BY <2>1
  <2>3. c.order \in Seq(Nat)
    BY <2>1, <2>2
  <2>4. NewIds(c) = 0
    BY <1>0, <1>4 DEF NewIds
  <2>5. QED
    BY <1>0, <1>4, <2>3, <2>4 DEF CallFits
<1>5. CASE kind = "setIndex"
  <2>1. PICK k \in DOMAIN queue : c = [kind |-> kind, at |-> k - 1]
    BY <1>5 DEF CallsOf
  <2>2. c.at \in Nat
    BY <2>1
  <2>3. NewIds(c) = 0
    BY <1>0, <1>5 DEF NewIds
  <2>4. QED
    BY <1>0, <1>5, <2>2, <2>3 DEF CallFits
<1>6. QED
  BY <1>1, <1>2, <1>3, <1>4, <1>5, KindsAssumption

\* The queue a behaviour starts from holds items.
LEMMA TypeInvInit == Init => TypeInv
<1> SUFFICES ASSUME Init
             PROVE  TypeInv
  OBVIOUS
<1>1. LockTypeOK /\ LocalsOK
  BY DEF Init, LockTypeOK, LocalsOK
<1>2. StartTracks \in Seq(Tracks) /\ DOMAIN StartTracks = 1..Len(StartTracks) /\ Len(StartTracks) \in Nat
  BY ListsAssumption
<1>3. \A k \in 1..Len(StartTracks) : NewItem(k, StartTracks[k]) \in Items(Len(StartTracks))
  BY <1>2 DEF NewItem, Items
<1>4. StartQueue \in Seq(Items(Len(StartTracks)))
  BY <1>2, <1>3 DEF StartQueue
<1>5. fresh \in Nat \ {0} /\ fresh - 1 = Len(StartTracks)
  BY <1>2 DEF Init
<1>6. <<>> \in Seq(Items(fresh - 1))
  OBVIOUS
<1>7. ASSUME NEW p \in Procs
      PROVE  HandlerFits(pc[p], call[p], readQ[p], readI[p], answer[p], attempt[p], fresh - 1)
  BY <1>6, AttemptsAssumption DEF Init, HandlerFits
<1>8. attempt \in [Procs -> Nat] /\ index \in Nat /\ calls \in 0..MaxCalls /\ queue = StartQueue
  BY MaxCallsAssumption DEF Init
<1>9. QED
  BY <1>1, <1>4, <1>5, <1>7, <1>8 DEF TypeInv

\* A step of one handler leaves the others what they were.
LEMMA OthersFit ==
  ASSUME TypeInv, NEW p \in Procs, UNCHANGED fresh,
         \A r \in Procs \ {p} : /\ pc'[r] = pc[r] /\ call'[r] = call[r]
                                /\ readQ'[r] = readQ[r] /\ readI'[r] = readI[r]
                                /\ answer'[r] = answer[r] /\ attempt'[r] = attempt[r],
         HandlerFits(pc'[p], call'[p], readQ'[p], readI'[p], answer'[p], attempt'[p], fresh - 1)
  PROVE  \A r \in Procs :
           HandlerFits(pc'[r], call'[r], readQ'[r], readI'[r], answer'[r], attempt'[r], fresh' - 1)
BY DEF TypeInv

\* Every step of every handler, every fault and every crash keeps the types.
LEMMA TypeInvNext == ASSUME TypeInv, [Next]_vars PROVE TypeInv'
<1>0. LockTypeOK' /\ LocalsOK' /\ LockTypeOK /\ LocalsOK
  BY LockTypeNext, LocalsOKNext DEF TypeInv
<1> DEFINE Fit(r) ==
      HandlerFits(pc[r], call[r], readQ[r], readI[r], answer[r], attempt[r], fresh - 1)
<1> DEFINE Others(p) ==
      \A r \in Procs \ {p} : /\ pc'[r] = pc[r] /\ call'[r] = call[r]
                             /\ readQ'[r] = readQ[r] /\ readI'[r] = readI[r]
                             /\ answer'[r] = answer[r] /\ attempt'[r] = attempt[r]
<1> DEFINE Global ==
      /\ attempt \in [Procs -> Nat] /\ fresh \in Nat \ {0}
      /\ queue \in Seq(Items(fresh - 1)) /\ index \in Nat /\ calls \in 0..MaxCalls
<1>a. Global /\ \A r \in Procs : Fit(r)
  BY DEF TypeInv
<1>b. (Global' /\ \A r \in Procs : Fit(r)') => TypeInv'
  BY <1>0 DEF TypeInv
<1>1. ASSUME NEW p \in Procs, Begin(p)
      PROVE  TypeInv'
  <2>1. PICK kind \in Kinds : \E c \in CallsOf(kind) :
          /\ call' = [call EXCEPT ![p] = c]
          /\ fresh' = fresh + NewIds(c)
          /\ pc' = [pc EXCEPT ![p] = IF kind = "setIndex" THEN "setIndex" ELSE "lock"]
    BY <1>1 DEF Begin, Goto
  <2>2. PICK c \in CallsOf(kind) :
          /\ call' = [call EXCEPT ![p] = c]
          /\ fresh' = fresh + NewIds(c)
          /\ pc' = [pc EXCEPT ![p] = IF kind = "setIndex" THEN "setIndex" ELSE "lock"]
    BY <2>1
  <2>3. NewIds(c) \in Nat /\ CallFits(c, fresh + NewIds(c) - 1) /\ c.kind = kind
    BY <1>a, CallsFit, CallsHaveKind
  <2>4. /\ fresh' \in Nat \ {0} /\ fresh - 1 \in Nat /\ fresh' - 1 \in Nat /\ fresh - 1 <= fresh' - 1
        /\ CallFits(c, fresh' - 1)
    BY <1>a, <2>2, <2>3
  <2>5. UNCHANGED <<queue, index, attempt, readQ, readI, answer>> /\ calls < MaxCalls /\ calls' = calls + 1
    BY <1>1 DEF Begin, redis
  <2>6. Global'
    <3>1. queue' \in Seq(Items(fresh' - 1))
      BY <1>a, <2>4, <2>5, ItemsGrow
    <3>2. calls' \in 0..MaxCalls
      BY <1>a, <2>5, MaxCallsAssumption
    <3>3. QED
      BY <1>a, <2>4, <2>5, <3>1, <3>2
  <2>7. ASSUME NEW r \in Procs
        PROVE  HandlerFits(pc[r], call[r], readQ[r], readI[r], answer[r], attempt[r], fresh' - 1)
    BY <1>a, <2>4, HandlerGrows
  <2>8. ASSUME NEW r \in Procs, r # p
        PROVE  Fit(r)'
    <3>1. pc'[r] = pc[r] /\ call'[r] = call[r]
      BY <1>0, <2>2, <2>8 DEF LockTypeOK, LocalsOK
    <3>2. QED
      BY <2>5, <2>7, <3>1
  <2>9. Fit(p)'
    <3>1. call'[p] = c /\ pc'[p] = IF kind = "setIndex" THEN "setIndex" ELSE "lock"
      BY <1>0, <2>2 DEF LockTypeOK, LocalsOK
    <3>2. QED
      BY <2>3, <2>4, <2>5, <2>7, <3>1 DEF HandlerFits
  <2>10. QED
    BY <1>b, <2>6, <2>8, <2>9
<1>2. ASSUME NEW p \in Procs, Acquire(p) \/ Conflict(p)
      PROVE  TypeInv'
  <2>1. /\ Others(p) /\ pc[p] = "lock" /\ pc'[p] \in {"readQueue", "return"}
        /\ UNCHANGED <<queue, index, fresh, calls, call, readQ, readI, attempt>>
    BY <1>0, <1>2 DEF Acquire, Conflict, Goto, LockTypeOK, LocalsOK, redis
  <2>2. Fit(p)'
    BY <1>a, <2>1 DEF HandlerFits
  <2>3. QED
    BY <1>a, <1>b, <2>1, <2>2, OthersFit
<1>3. ASSUME NEW p \in Procs, Retry(p)
      PROVE  TypeInv'
  <2>1. /\ Others(p) /\ UNCHANGED <<queue, index, fresh, calls, call, readQ, readI, pc, answer>>
        /\ attempt' = [attempt EXCEPT ![p] = @ + 1] /\ attempt[p] + 1 < AttemptsOf(call[p])
    BY <1>0, <1>3 DEF Retry, LockTypeOK, LocalsOK, redis
  <2>2. attempt' \in [Procs -> Nat] /\ attempt'[p] < MutateAttempts + AdvanceAttempts
    BY <1>a, <2>1, AttemptsAssumption DEF AttemptsOf
  <2>3. Fit(p)'
    BY <1>a, <2>1, <2>2 DEF HandlerFits
  <2>4. QED
    BY <1>a, <1>b, <2>1, <2>2, <2>3, OthersFit
<1>4. ASSUME NEW p \in Procs, ReadQueue(p)
      PROVE  TypeInv'
  <2>1. /\ Others(p) /\ UNCHANGED <<queue, index, fresh, calls, call, readI, attempt, answer>>
        /\ pc[p] = "readQueue" /\ pc'[p] = "readIndex" /\ readQ'[p] = queue
    BY <1>0, <1>4 DEF ReadQueue, Goto, LockTypeOK, LocalsOK, redis
  <2>2. Fit(p)'
    BY <1>a, <2>1 DEF HandlerFits
  <2>3. QED
    BY <1>a, <1>b, <2>1, <2>2, OthersFit
<1>5. ASSUME NEW p \in Procs, ReadIndex(p)
      PROVE  TypeInv'
  <2> DEFINE o == Outcome(call[p], readQ[p], index)
             l == AfterRead(call[p], o)
  <2>1. /\ UNCHANGED <<queue, index, fresh, calls, call, readQ, attempt>>
        /\ pc[p] = "readIndex" /\ pc' = [pc EXCEPT ![p] = l]
        /\ readI' = [readI EXCEPT ![p] = index] /\ answer' = [answer EXCEPT ![p] = o]
    BY <1>5 DEF ReadIndex, Goto, redis
  <2>2. l \in {"release", "moveIndex", "writeQueue"}
    BY DEF AfterRead
  <2>3. CallFits(call[p], fresh - 1) /\ readQ[p] \in Seq(Items(fresh - 1))
    BY <1>a, <2>1 DEF HandlerFits
  <2>4. OutcomeFits(o, fresh - 1)
    BY <1>a, <2>3, OutcomeIsTyped
  <2> HIDE DEF o, l
  <2>5. /\ Others(p) /\ pc'[p] = l /\ readI'[p] = index /\ answer'[p] = o
    BY <1>0, <2>1 DEF LockTypeOK, LocalsOK
  <2>6. Fit(p)'
    BY <1>a, <2>1, <2>2, <2>3, <2>4, <2>5 DEF HandlerFits
  <2>7. QED
    BY <1>a, <1>b, <2>1, <2>5, <2>6, OthersFit
<1>6. ASSUME NEW p \in Procs, WriteQueue(p) \/ WriteIndex(p) \/ MoveIndex(p)
      PROVE  TypeInv'
  <2>1. /\ Others(p) /\ UNCHANGED <<fresh, calls, call, readQ, readI, attempt, answer>>
        /\ pc[p] \in {"writeQueue", "writeIndex", "moveIndex"} /\ pc'[p] \in {"writeIndex", "release"}
        /\ queue' \in {queue, answer[p].queue} /\ index' \in {index, answer[p].index}
    BY <1>0, <1>6 DEF WriteQueue, WriteIndex, MoveIndex, Goto, LockTypeOK
  <2>2. OutcomeFits(answer[p], fresh - 1)
    BY <1>a, <2>1 DEF HandlerFits
  <2>3. queue' \in Seq(Items(fresh - 1)) /\ index' \in Nat
    BY <1>a, <2>1, <2>2 DEF OutcomeFits
  <2>4. Fit(p)'
    BY <1>a, <2>1, <2>2 DEF HandlerFits
  <2>5. QED
    BY <1>a, <1>b, <2>1, <2>3, <2>4, OthersFit
<1>7. ASSUME NEW p \in Procs, Release(p) \/ Return(p) \/ ReleaseFails(p)
      PROVE  TypeInv'
  <2>1. /\ UNCHANGED <<queue, index, fresh, calls>> /\ Forget(p)
    BY <1>7 DEF Release, Return, ReleaseFails, redis
  <2>2. /\ Others(p) /\ pc'[p] = "idle" /\ call'[p] = NoCall /\ readQ'[p] = <<>> /\ readI'[p] = 0
        /\ answer'[p] = NoAnswer /\ attempt' = [attempt EXCEPT ![p] = 0]
    BY <1>0, <1>a, <2>1 DEF Forget, LockTypeOK, LocalsOK
  <2>3. attempt' \in [Procs -> Nat] /\ attempt'[p] < MutateAttempts + AdvanceAttempts
    BY <1>a, <2>2, AttemptsAssumption
  <2>4. <<>> \in Seq(Items(fresh - 1))
    OBVIOUS
  <2>5. Fit(p)'
    BY <2>1, <2>2, <2>3, <2>4 DEF HandlerFits
  <2>6. QED
    BY <1>a, <1>b, <2>1, <2>2, <2>3, <2>5, OthersFit
<1>8. ASSUME NEW p \in Procs, SetIndex(p)
      PROVE  TypeInv'
  <2>1. /\ Others(p) /\ UNCHANGED <<queue, fresh, calls, call, readQ, readI, attempt>>
        /\ pc[p] = "setIndex" /\ pc'[p] = "return" /\ index' = call[p].at
    BY <1>0, <1>8 DEF SetIndex, Goto, LockTypeOK, LocalsOK
  <2>2. index' \in Nat
    BY <1>a, <2>1 DEF HandlerFits, CallFits
  <2>3. Fit(p)'
    BY <1>a, <2>1 DEF HandlerFits
  <2>4. QED
    BY <1>a, <1>b, <2>1, <2>2, <2>3, OthersFit
<1>9. ASSUME NEW p \in Procs, RedisFails(p)
      PROVE  TypeInv'
  <2>1. /\ Others(p) /\ UNCHANGED <<fresh, calls, call, readQ, readI, attempt>>
        /\ pc[p] \in Critical /\ pc'[p] = "release"
        /\ \/ UNCHANGED <<queue, index>>
           \/ /\ pc[p] \in {"writeQueue", "writeIndex", "moveIndex"}
              /\ queue' \in {queue, answer[p].queue} /\ index' \in {index, answer[p].index}
    BY <1>0, <1>9 DEF RedisFails, Goto, LockTypeOK, LocalsOK
  <2>2. queue' \in Seq(Items(fresh - 1)) /\ index' \in Nat
    BY <1>a, <2>1 DEF HandlerFits, OutcomeFits
  <2>3. Fit(p)'
    BY <1>a, <2>1 DEF HandlerFits, Critical
  <2>4. QED
    BY <1>a, <1>b, <2>1, <2>2, <2>3, OthersFit
<1>10. CASE Expire \/ UNCHANGED vars
  <2>1. UNCHANGED <<queue, index, pc, call, attempt, readQ, readI, answer, fresh, calls>>
    BY <1>10 DEF Expire, vars, locals
  <2>2. QED
    BY <1>a, <1>b, <2>1
<1>11. CASE Crash
  <2>1. UNCHANGED <<queue, index, fresh, calls>> /\ attempt' = [p \in Procs |-> 0]
    BY <1>11 DEF Crash, redis
  <2>2. <<>> \in Seq(Items(fresh - 1))
    OBVIOUS
  <2>3. \A r \in Procs : Fit(r)'
    BY <1>11, <2>1, <2>2, AttemptsAssumption DEF Crash, HandlerFits
  <2>4. QED
    BY <1>a, <1>b, <2>1, <2>3
<1>12. QED
  BY <1>1, <1>2, <1>3, <1>4, <1>5, <1>6, <1>7, <1>8, <1>9, <1>10, <1>11
     DEF Next, Step, Fault

\* Redis always holds a queue of items whose ids were handed out and a cursor
\* that is a number, and no handler tries for the lock longer than it may,
\* however many requests there are and whatever the environment does: locks
\* that expire under their holders, rejected commands, crashes, setIndex.
THEOREM QueueTypes == Spec => []TypeOK
<1>1. Spec => []TypeInv
  BY TypeInvInit, TypeInvNext, PTL DEF Spec
<1>2. TypeInv => TypeOK
  BY DEF TypeInv, TypeOK, LockTypeOK, HandlerFits
<1>3. QED
  BY <1>1, <1>2, PTL

-----------------------------------------------------------------------------
(***************************************************************************)
(* Reordering.  The code compares the length of the order with the         *)
(* queue's and looks every id up; that the order then covers all items is  *)
(* a counting argument, and it needs the lock: the queue that is written   *)
(* over must be the queue the order was compared with.                     *)
(***************************************************************************)

\* An order as long as the queue, of ids of the queue and of none twice,
\* names them all.
LEMMA ReorderCovers ==
  ASSUME NEW S, NEW q \in Seq(S), NEW order \in Seq(Nat), Len(order) = Len(q),
         ToSet(order) \subseteq IdsOf(q), IsInjective(order)
  PROVE  IdsOf(q) \subseteq ToSet(order)
<1> DEFINE at(id) == SelectLastInSeq(q, LAMBDA it : it.id = id)
           f == [k \in 1 .. Len(q) |-> at(order[k])]
<1>1. DOMAIN order = 1 .. Len(q) /\ Len(q) \in Nat /\ DOMAIN q = 1 .. Len(q)
  OBVIOUS
<1>2. ASSUME NEW k \in 1 .. Len(q)
      PROVE  at(order[k]) \in 1 .. Len(q) /\ q[at(order[k])].id = order[k]
  <2>1. order[k] \in IdsOf(q)
    BY <1>1 DEF ToSet
  <2>2. QED
    BY <2>1, LastCarriesId
<1> HIDE DEF at
<1>3. f \in [1 .. Len(q) -> 1 .. Len(q)] /\ \A k \in 1 .. Len(q) : q[f[k]].id = order[k]
  BY <1>2
<1> HIDE DEF f
<1>4. IsInjective(f)
  <2>1. \A k, l \in 1 .. Len(q) : f[k] = f[l] => order[k] = order[l]
    BY <1>3, Zenon
  <2>2. \A k, l \in 1 .. Len(q) : order[k] = order[l] => k = l
    BY <1>1 DEF IsInjective
  <2>3. QED
    BY <1>3, <2>1, <2>2 DEF IsInjective
<1>5. f \in Injection(1 .. Len(q), 1 .. Len(q))
  BY <1>3, <1>4 DEF Injection
<1>6. IsFiniteSet(1 .. Len(q))
  BY <1>1, FS_Interval
<1>7. f \in Surjection(1 .. Len(q), 1 .. Len(q))
  BY <1>5, <1>6, FS_Injection
<1>8. \A m \in 1 .. Len(q) : \E k \in 1 .. Len(q) : f[k] = m
  BY <1>7 DEF Surjection
<1>9. SUFFICES ASSUME NEW m \in 1 .. Len(q)
               PROVE  q[m].id \in ToSet(order)
  BY <1>1 DEF IdsOf
<1>10. PICK k \in 1 .. Len(q) : f[k] = m
  BY <1>8
<1>11. QED
  BY <1>1, <1>3, <1>10 DEF ToSet

\* So a reorder, whether it succeeds or throws, leaves the same items.
LEMMA ReorderOutcome ==
  ASSUME NEW S, NEW q \in Seq(S), NEW i, NEW order \in Seq(Nat), IsInjective(order)
  PROVE  IdsOf(Reorder(q, i, order).queue) = IdsOf(q)
<1>1. CASE Len(order) = Len(q) /\ ToSet(order) \subseteq IdsOf(q)
  <2> DEFINE o == [k \in DOMAIN order |->
                     q[SelectLastInSeq(q, LAMBDA it : it.id = order[k])]]
  <2>1. Reorder(q, i, order).queue = o
    BY <1>1 DEF Reorder, Ok
  <2>2. o \in Seq(S) /\ Len(o) = Len(order) /\ \A k \in 1 .. Len(order) : o[k].id = order[k]
    BY <1>1, ReorderPicks
  <2> HIDE DEF o
  <2>3. DOMAIN o = 1 .. Len(order) /\ DOMAIN order = 1 .. Len(order)
    BY <2>2
  <2>4. IdsOf(o) = ToSet(order)
    BY <2>2, <2>3 DEF IdsOf, ToSet
  <2>5. ToSet(order) = IdsOf(q)
    BY <1>1, ReorderCovers
  <2>6. QED
    BY <2>1, <2>4, <2>5
<1>2. CASE ~ (Len(order) = Len(q) /\ ToSet(order) \subseteq IdsOf(q))
  BY <1>2 DEF Reorder, Throws
<1>3. QED
  BY <1>1, <1>2

\* The queue a handler read is Redis' queue until it is written; its answer
\* is computed from it; no reorder request in progress names an id twice.
ReadsHold ==
  \A p \in Procs :
    /\ pc[p] \in {"readIndex", "writeQueue"} => readQ[p] = queue
    /\ pc[p] = "writeQueue" => answer[p] = Outcome(call[p], readQ[p], readI[p])
    /\ pc[p] # "idle" /\ call[p].kind = "reorder" => IsInjective(call[p].order)

ReorderInv == LockInv /\ TypeInv /\ ReadsHold

\* A reorder request without repetitions brings an order without repetitions.
LEMMA OrdersAreInjective ==
  ASSUME ~RepeatedIds, NEW kind \in Kinds, NEW c \in CallsOf(kind), c.kind = "reorder"
  PROVE  IsInjective(c.order)
<1>1. kind = "reorder"
  BY CallsHaveKind
<1>2. c \in {[kind |-> kind, order |-> o] :
               o \in {s \in [1..Len(queue) -> 1..(fresh - 1)] :
                        s # <<>> /\ (RepeatedIds \/ IsInjective(s))}}
  BY <1>1 DEF CallsOf
<1>3. QED
  BY <1>2

\* No step of another handler comes between the read and the write of the
\* queue, and setIndex, which takes no lock, writes only the cursor.
LEMMA ReorderInvNext ==
  ASSUME ~SlowHolders, ~RepeatedIds, ReorderInv, [Next]_vars
  PROVE  ReorderInv'
<1>0. LockInv' /\ TypeInv'
  BY LockInvNext, TypeInvNext DEF ReorderInv
<1> SUFFICES ReadsHold'
  BY <1>0 DEF ReorderInv
<1> USE DEF ReorderInv, ReadsHold, TypeInv, LocalsOK, Goto, Forget, redis, locals
<1> USE DEF LockInv, LockTypeOK, MutualExclusion, Critical
<1>1. ASSUME NEW p \in Procs, Begin(p)
      PROVE  ReadsHold'
  <2>1. PICK kind \in Kinds : \E c \in CallsOf(kind) :
          /\ call' = [call EXCEPT ![p] = c]
          /\ pc' = [pc EXCEPT ![p] = IF kind = "setIndex" THEN "setIndex" ELSE "lock"]
    BY <1>1 DEF Begin
  <2>2. PICK c \in CallsOf(kind) :
          /\ call' = [call EXCEPT ![p] = c]
          /\ pc' = [pc EXCEPT ![p] = IF kind = "setIndex" THEN "setIndex" ELSE "lock"]
    BY <2>1
  <2>3. c.kind = "reorder" => IsInjective(c.order)
    BY OrdersAreInjective
  <2>4. UNCHANGED <<queue, readQ, readI, answer>>
    BY <1>1 DEF Begin
  <2>5. QED
    BY <2>2, <2>3, <2>4
<1>2. ASSUME NEW p \in Procs, Acquire(p) \/ Retry(p) \/ Conflict(p)
      PROVE  ReadsHold'
  BY <1>2 DEF Acquire, Retry, Conflict
<1>3. ASSUME NEW p \in Procs, ReadQueue(p)
      PROVE  ReadsHold'
  BY <1>3 DEF ReadQueue
<1>4. ASSUME NEW p \in Procs, ReadIndex(p)
      PROVE  ReadsHold'
  <2> DEFINE o == Outcome(call[p], readQ[p], index)
             l == AfterRead(call[p], o)
  <2>1. l \in {"release", "moveIndex", "writeQueue"}
    BY DEF AfterRead
  <2>2. /\ pc[p] = "readIndex"
        /\ pc' = [pc EXCEPT ![p] = l]
        /\ readI' = [readI EXCEPT ![p] = index]
        /\ answer' = [answer EXCEPT ![p] = o]
        /\ UNCHANGED <<queue, call, readQ>>
    BY <1>4 DEF ReadIndex
  <2>3. o = Outcome(call'[p], readQ'[p], readI'[p])
    BY <2>2
  <2> HIDE DEF l, o
  <2>4. QED
    BY <2>1, <2>2, <2>3
<1>5. ASSUME NEW p \in Procs, WriteQueue(p)
      PROVE  ReadsHold'
  <2>1. \A r \in Procs \ {p} : pc[r] \notin Critical
    BY <1>5 DEF WriteQueue
  <2>2. QED
    BY <1>5, <2>1 DEF WriteQueue
<1>6. ASSUME NEW p \in Procs, WriteIndex(p) \/ MoveIndex(p) \/ SetIndex(p)
      PROVE  ReadsHold'
  BY <1>6 DEF WriteIndex, MoveIndex, SetIndex
<1>7. ASSUME NEW p \in Procs, Release(p) \/ ReleaseFails(p) \/ Return(p)
      PROVE  ReadsHold'
  BY <1>7 DEF Release, ReleaseFails, Return
<1>8. ASSUME NEW p \in Procs, RedisFails(p)
      PROVE  ReadsHold'
  <2>1. pc[p] \in Critical /\ pc' = [pc EXCEPT ![p] = "release"]
    BY <1>8 DEF RedisFails
  <2>2. UNCHANGED <<call, readQ, readI>> /\ \A r \in Procs \ {p} : answer'[r] = answer[r]
    BY <1>8 DEF RedisFails
  <2>3. \A r \in Procs \ {p} : pc[r] \notin Critical
    BY <2>1
  <2>4. QED
    BY <2>1, <2>2, <2>3
<1>9. CASE Expire \/ Crash \/ UNCHANGED vars
  BY <1>9 DEF Expire, Crash, vars
<1>10. QED
  BY <1>1, <1>2, <1>3, <1>4, <1>5, <1>6, <1>7, <1>8, <1>9 DEF Next, Step, Fault

\* The step that writes the reordered queue writes the same items.
LEMMA ReorderStep ==
  ASSUME ReorderInv, [Next]_vars, NEW p \in Procs,
         pc[p] = "writeQueue", call[p].kind = "reorder", queue' # queue
  PROVE  IdsOf(queue') = IdsOf(queue)
<1> USE DEF ReorderInv, redis, locals
<1>1. \A r \in Procs : pc[r] = "writeQueue" => r = p
  BY DEF LockInv, MutualExclusion, Critical
<1>2. \A r \in Procs : ~Begin(r) /\ ~ReleaseFails(r) /\ (Step(r) => WriteQueue(r))
  BY DEF Begin, ReleaseFails, Step, Acquire, Retry, Conflict, ReadQueue, ReadIndex,
         WriteIndex, MoveIndex, Release, SetIndex, Return
<1>3. ~Expire /\ ~Crash /\ ~UNCHANGED vars
  BY DEF Expire, Crash, vars
<1>4. PICK r \in Procs : WriteQueue(r) \/ RedisFails(r)
  BY <1>2, <1>3 DEF Next, Fault
<1>5. pc[r] = "writeQueue" /\ queue' = answer[r].queue
  BY <1>4 DEF WriteQueue, RedisFails
<1>6. queue' = Reorder(queue, readI[p], call[p].order).queue
  <2>1. answer[p] = Outcome(call[p], queue, readI[p])
    BY DEF ReadsHold
  <2>2. QED
    BY <1>1, <1>5, <2>1 DEF Outcome
<1>7. call[p].order \in Seq(Nat) /\ IsInjective(call[p].order)
  BY DEF TypeInv, HandlerFits, CallFits, ReadsHold
<1>8. queue \in Seq(Items(fresh - 1))
  BY DEF TypeInv
<1>9. QED
  BY <1>6, <1>7, <1>8, ReorderOutcome

\* reorder(order): the service answers "order must cover all items" by
\* comparing lengths, and that is enough: a reorder never drops an item,
\* however many handlers and unlocked setIndex calls run beside it, when
\* Redis rejects commands and when the server crashes, provided that no lock
\* expires under its holder and that no request names an id twice.
THEOREM ReorderDropsNothing ==
  ASSUME ~SlowHolders, ~RepeatedIds
  PROVE  Spec => ReorderKeepsItems
<1>1. Init => ReorderInv
  BY LockInvInit, TypeInvInit DEF Init, ReorderInv, ReadsHold
<1>2. Spec => []ReorderInv
  BY <1>1, ReorderInvNext, PTL DEF Spec
<1>3. ReorderInv /\ [Next]_vars
        => [\A p \in Procs :
              pc[p] = "writeQueue" /\ call[p].kind = "reorder" /\ queue' # queue
                => IdsOf(queue') = IdsOf(queue)]_vars
  BY ReorderStep
<1>4. QED
  BY <1>2, <1>3, PTL DEF Spec, ReorderKeepsItems

-----------------------------------------------------------------------------
(***************************************************************************)
(* Atomicity: QueueStore implements AtomicQueue.                           *)
(***************************************************************************)
\* What is not "ok" leaves queue and cursor as they were read, so not
\* writing it loses nothing.
LEMMA UnwrittenOutcome ==
  ASSUME NEW c, c.kind \in Kinds, NEW q, NEW i, Outcome(c, q, i).status # "ok"
  PROVE  Outcome(c, q, i).queue = q /\ Outcome(c, q, i).index = i
<1> DEFINE o == Outcome(c, q, i)
<1>1. CASE c.kind \in {"add", "addNext", "insertAtCurrent"}
  BY <1>1 DEF Outcome, Add, AddNext, InsertAtCurrent, Ok
<1>2. CASE c.kind = "remove"
  BY <1>2 DEF Outcome, RemoveItem, Ok
<1>3. CASE c.kind \in {"clear", "setIndex"}
  BY <1>3 DEF Outcome, ClearAll, Ok
<1>4. CASE c.kind = "replace"
  BY <1>4 DEF Outcome, Replace, Ok
<1>5. CASE c.kind = "updateTrackMetadata"
  BY <1>5 DEF Outcome, UpdateTrackMetadata, Ok
<1>6. CASE c.kind = "reorder"
  BY <1>6 DEF Outcome, Reorder, Ok, Throws
<1>7. CASE c.kind = "advance"
  BY <1>7 DEF Outcome, Advance, Ok, Null
<1>8. CASE c.kind = "placeCurrent"
  BY <1>8 DEF Outcome, PlaceCurrent, Ok
<1>9. QED
  BY <1>1, <1>2, <1>3, <1>4, <1>5, <1>6, <1>7, <1>8, KindsAssumption

\* advance writes the cursor alone because it changes nothing else.
LEMMA AdvanceKeepsQueue ==
  ASSUME NEW c, c.kind = "advance", NEW q, NEW i
  PROVE  Outcome(c, q, i).queue = q
BY DEF Outcome, Advance, Ok, Null

\* A call in progress has a kind; the outcome a handler holds is the one of
\* its call on what it read; between its two writes the queue it wrote is
\* the one in Redis.
AnswerInv ==
  \A p \in Procs :
    /\ pc[p] # "idle" => call[p].kind \in Kinds
    /\ pc[p] \in {"writeQueue", "moveIndex"} =>
         answer[p] = Outcome(call[p], readQ[p], readI[p])
    /\ pc[p] = "moveIndex" => call[p].kind = "advance" /\ readQ[p] = queue

RefInv == StoreInv /\ AnswerInv

\* At the start no call is in progress.
LEMMA RefInvInit == Init => RefInv
  BY StoreInvInit DEF Init, RefInv, AnswerInv

\* Every step keeps the outcome a handler holds the outcome of its call on
\* what it read.
LEMMA RefInvNext ==
  ASSUME ~SlowHolders, "setIndex" \notin Kinds, RefInv, [Next]_vars
  PROVE  RefInv'
<1>0. StoreInv'
  BY StoreInvNext DEF RefInv
<1> SUFFICES AnswerInv'
  BY <1>0 DEF RefInv
<1> USE DEF RefInv, StoreInv, AnswerInv, LocalsOK, Goto, Forget, redis, locals
<1> USE DEF LockInv, LockTypeOK
<1>1. ASSUME NEW p \in Procs, Begin(p)
      PROVE  AnswerInv'
  <2>1. PICK kind \in Kinds : \E c \in CallsOf(kind) :
          /\ call' = [call EXCEPT ![p] = c]
          /\ pc' = [pc EXCEPT ![p] = IF kind = "setIndex" THEN "setIndex" ELSE "lock"]
    BY <1>1 DEF Begin
  <2>2. PICK c \in CallsOf(kind) :
          /\ call' = [call EXCEPT ![p] = c]
          /\ pc' = [pc EXCEPT ![p] = IF kind = "setIndex" THEN "setIndex" ELSE "lock"]
    BY <2>1
  <2>3. c.kind \in Kinds
    BY CallsHaveKind
  <2>4. UNCHANGED <<queue, readQ, readI, answer>>
    BY <1>1 DEF Begin
  <2>5. QED
    BY <2>2, <2>3, <2>4
<1>2. ASSUME NEW p \in Procs, Acquire(p) \/ Retry(p) \/ Conflict(p)
      PROVE  AnswerInv'
  BY <1>2 DEF Acquire, Retry, Conflict
<1>3. ASSUME NEW p \in Procs, ReadQueue(p)
      PROVE  AnswerInv'
  BY <1>3 DEF ReadQueue
<1>4. ASSUME NEW p \in Procs, ReadIndex(p)
      PROVE  AnswerInv'
  <2> DEFINE o == Outcome(call[p], readQ[p], index)
  <2> DEFINE l == AfterRead(call[p], o)
  <2>1. /\ l \in {"release", "moveIndex", "writeQueue"}
        /\ l = "moveIndex" => call[p].kind = "advance"
    BY DEF AfterRead
  <2>2. /\ pc[p] = "readIndex"
        /\ pc' = [pc EXCEPT ![p] = l]
        /\ readI' = [readI EXCEPT ![p] = index]
        /\ answer' = [answer EXCEPT ![p] = o]
        /\ UNCHANGED <<queue, call, readQ>>
    BY <1>4 DEF ReadIndex
  <2>3. readQ[p] = queue
    BY <2>2 DEF NoLostUpdate
  <2>4. o = Outcome(call'[p], readQ'[p], readI'[p])
    BY <2>2
  <2> HIDE DEF l, o
  <2>5. QED
    BY <2>1, <2>2, <2>3, <2>4
<1>5. ASSUME NEW p \in Procs, WriteQueue(p)
      PROVE  AnswerInv'
  <2>1. \A r \in Procs \ {p} : pc[r] # "moveIndex"
    BY <1>5 DEF WriteQueue, MutualExclusion, Critical
  <2>2. QED
    BY <1>5, <2>1 DEF WriteQueue
<1>6. ASSUME NEW p \in Procs, WriteIndex(p) \/ MoveIndex(p) \/ SetIndex(p)
      PROVE  AnswerInv'
  BY <1>6 DEF WriteIndex, MoveIndex, SetIndex
<1>7. ASSUME NEW p \in Procs, Release(p) \/ ReleaseFails(p) \/ Return(p)
      PROVE  AnswerInv'
  BY <1>7 DEF Release, ReleaseFails, Return
<1>8. ASSUME NEW p \in Procs, RedisFails(p)
      PROVE  AnswerInv'
  <2>1. pc[p] \in Critical /\ pc' = [pc EXCEPT ![p] = "release"]
    BY <1>8 DEF RedisFails
  <2>2. UNCHANGED <<call, readQ, readI>> /\ \A r \in Procs \ {p} : answer'[r] = answer[r]
    BY <1>8 DEF RedisFails
  <2>3. \A r \in Procs \ {p} : pc[r] \notin Critical
    BY <2>1 DEF MutualExclusion
  <2>4. pc[p] # "idle"
    BY <2>1 DEF Critical
  <2>5. QED
    BY <2>1, <2>2, <2>3, <2>4 DEF Critical
<1>9. CASE Expire \/ Crash \/ UNCHANGED vars
  BY <1>9 DEF Expire, Crash, vars
<1>10. QED
  BY <1>1, <1>2, <1>3, <1>4, <1>5, <1>6, <1>7, <1>8, <1>9 DEF Next, Step, Fault

\* At most one handler is between its two writes, so CursorOf is the cursor
\* of that handler, or Redis' cursor when there is none.
LEMMA CursorOfWriter ==
  ASSUME NEW at, NEW ans, NEW i, NEW p \in Procs, at[p] = "writeIndex",
         \A r \in Procs \ {p} : at[r] # "writeIndex"
  PROVE  CursorOf(at, ans, i) = ans[p].index
<1>1. (CHOOSE r \in Procs : at[r] = "writeIndex") = p
  OBVIOUS
<1>2. QED
  BY <1>1 DEF CursorOf

\* With no handler between its two writes the abstract cursor is Redis' own.
LEMMA CursorOfNobody ==
  ASSUME NEW at, NEW ans, NEW i, \A r \in Procs : at[r] # "writeIndex"
  PROVE  CursorOf(at, ans, i) = i
BY DEF CursorOf

\* A step of p that neither starts nor ends between the two writes and leaves
\* the cursor alone leaves the abstract cursor alone, whoever is there.
LEMMA CursorOfOthers ==
  ASSUME NEW at, NEW ans, NEW at2, NEW ans2, NEW i, NEW p \in Procs,
         at[p] # "writeIndex", at2[p] # "writeIndex",
         \A r \in Procs \ {p} : at2[r] = at[r] /\ ans2[r] = ans[r]
  PROVE  CursorOf(at2, ans2, i) = CursorOf(at, ans, i)
<1>1. \A r \in Procs : at2[r] = "writeIndex" <=> at[r] = "writeIndex"
  OBVIOUS
<1>2. (CHOOSE r \in Procs : at2[r] = "writeIndex") = (CHOOSE r \in Procs : at[r] = "writeIndex")
  BY <1>1
<1>3. CASE \E r \in Procs : at[r] = "writeIndex"
  <2> DEFINE w == CHOOSE r \in Procs : at[r] = "writeIndex"
  <2>1. w \in Procs /\ at[w] = "writeIndex"
    BY <1>3
  <2>2. ans2[w] = ans[w]
    BY <2>1
  <2>3. QED
    BY <1>1, <1>2, <1>3, <2>2 DEF CursorOf
<1>4. CASE \A r \in Procs : at[r] # "writeIndex"
  BY <1>1, <1>4, CursorOfNobody
<1>5. QED
  BY <1>3, <1>4

\* The abstract cursor, before and after a step, as an instance of CursorOf.
LEMMA CursorNow ==
  /\ AbstractIndex = CursorOf(pc, answer, index)
  /\ AbstractIndex' = CursorOf(pc', answer', index')
BY DEF AbstractIndex, CursorOf

\* How the phases and the answers move with a handler.
LEMMA PhaseMoves ==
  ASSUME NEW p \in Procs, NEW l, LockTypeOK, pc' = [pc EXCEPT ![p] = l]
  PROVE  AbstractPhase' = [AbstractPhase EXCEPT ![p] = Phase(l)]
BY DEF AbstractPhase, LockTypeOK

\* A step that sets a handler's answer sets its abstract answer, from the
\* moment the call counts as done.
LEMMA AnswerMoves ==
  ASSUME NEW p \in Procs, NEW l, NEW o, LockTypeOK, LocalsOK,
         pc' = [pc EXCEPT ![p] = l], answer' = [answer EXCEPT ![p] = o]
  PROVE  AbstractAnswer' =
           [AbstractAnswer EXCEPT ![p] = IF Phase(l) = "done" THEN o ELSE NoAnswer]
BY DEF AbstractAnswer, LockTypeOK, LocalsOK

\* A step that neither ends a call nor sets an answer leaves the abstract
\* answers alone.
LEMMA AnswerStays ==
  ASSUME NEW p \in Procs, NEW l, LockTypeOK, LocalsOK,
         pc' = [pc EXCEPT ![p] = l], answer' = answer, 
         (Phase(l) = "done") = (Phase(pc[p]) = "done")
  PROVE  AbstractAnswer' = AbstractAnswer
BY DEF AbstractAnswer, LockTypeOK, LocalsOK

\* Every step of the service is a step of the contract or leaves it alone.
LEMMA StepImplements ==
  ASSUME ~SlowHolders, ~RedisMayFail, ~MayCrash, "setIndex" \notin Kinds,
         RefInv, [Next]_vars
  PROVE  [Abstract!Next]_(Abstract!vars)
<1> USE DEF RefInv, StoreInv
<1>0. LockTypeOK /\ LocalsOK /\ MutualExclusion
  BY DEF LockInv
<1> DEFINE Still == UNCHANGED <<queue, AbstractIndex, AbstractPhase, call, AbstractAnswer>>
<1>1. ASSUME NEW p \in Procs, Begin(p)
      PROVE  Abstract!Call(p)
  <2>1. PICK l : pc[p] = "idle" /\ pc' = [pc EXCEPT ![p] = l] /\ l \in {"lock", "setIndex"}
    BY <1>1 DEF Begin, Goto
  <2>2. UNCHANGED <<queue, index, answer>> /\ call' = [call EXCEPT ![p] = call'[p]]
    BY <1>0, <1>1 DEF Begin, redis, LocalsOK
  <2>3. AbstractPhase' = [AbstractPhase EXCEPT ![p] = "called"] /\ AbstractPhase[p] = "idle"
    BY <1>0, <2>1, PhaseMoves DEF Phase, AbstractPhase
  <2>4. AbstractAnswer' = AbstractAnswer
    BY <1>0, <2>1, <2>2, AnswerStays DEF Phase
  <2>5. AbstractIndex' = AbstractIndex
    <3>1. /\ pc[p] # "writeIndex" /\ pc'[p] # "writeIndex"
          /\ \A r \in Procs \ {p} : pc'[r] = pc[r] /\ answer'[r] = answer[r]
      BY <1>0, <2>1, <2>2 DEF LockTypeOK, LocalsOK
    <3>2. CursorOf(pc', answer', index) = CursorOf(pc, answer, index)
      BY <3>1, CursorOfOthers
    <3>3. QED
      BY <2>1, <2>2, <3>2, CursorNow
  <2>6. QED
    BY <2>2, <2>3, <2>4, <2>5 DEF Abstract!Call
<1>2. ASSUME NEW p \in Procs, Acquire(p) \/ Retry(p) \/ ReadQueue(p)
      PROVE  Still
  <2>1. PICK l : pc' = [pc EXCEPT ![p] = l] /\ l \in {"lock", "readQueue", "readIndex"}
    BY <1>0, <1>2 DEF Acquire, Retry, ReadQueue, Goto, LockTypeOK
  <2>2. UNCHANGED <<queue, index, call, answer>> /\ pc[p] \in {"lock", "readQueue"}
    BY <1>2 DEF Acquire, Retry, ReadQueue, redis
  <2>3. AbstractPhase' = AbstractPhase
    BY <1>0, <2>1, <2>2, PhaseMoves DEF Phase, AbstractPhase
  <2>4. AbstractAnswer' = AbstractAnswer
    BY <1>0, <2>1, <2>2, AnswerStays DEF Phase
  <2>5. AbstractIndex' = AbstractIndex
    <3>1. /\ pc[p] # "writeIndex" /\ pc'[p] # "writeIndex"
          /\ \A r \in Procs \ {p} : pc'[r] = pc[r] /\ answer'[r] = answer[r]
      BY <1>0, <2>1, <2>2 DEF LockTypeOK, LocalsOK
    <3>2. CursorOf(pc', answer', index) = CursorOf(pc, answer, index)
      BY <3>1, CursorOfOthers
    <3>3. QED
      BY <2>1, <2>2, <3>2, CursorNow
  <2>6. QED
    BY <2>2, <2>3, <2>4, <2>5
<1>3. ASSUME NEW p \in Procs, Conflict(p)
      PROVE  Abstract!Refuse(p)
  <2>1. /\ pc[p] = "lock"
        /\ pc' = [pc EXCEPT ![p] = "return"]
        /\ answer' = [answer EXCEPT ![p] = Throws(<<>>, 0)]
        /\ UNCHANGED <<queue, index, call>>
    BY <1>3 DEF Conflict, Goto, redis
  <2>2. AbstractPhase' = [AbstractPhase EXCEPT ![p] = "done"] /\ AbstractPhase[p] = "called"
    BY <1>0, <2>1, PhaseMoves DEF Phase, AbstractPhase
  <2>3. AbstractAnswer' = [AbstractAnswer EXCEPT ![p] = Throws(<<>>, 0)]
    BY <1>0, <2>1, AnswerMoves DEF Phase
  <2>4. AbstractIndex' = AbstractIndex
    <3>1. /\ pc[p] # "writeIndex" /\ pc'[p] # "writeIndex"
          /\ \A r \in Procs \ {p} : pc'[r] = pc[r] /\ answer'[r] = answer[r]
      BY <1>0, <2>1 DEF LockTypeOK, LocalsOK
    <3>2. CursorOf(pc', answer', index) = CursorOf(pc, answer, index)
      BY <3>1, CursorOfOthers
    <3>3. QED
      BY <2>1, <3>2, CursorNow
  <2>5. QED
    BY <2>1, <2>2, <2>3, <2>4 DEF Abstract!Refuse
<1>4. ASSUME NEW p \in Procs, ReadIndex(p)
      PROVE  Abstract!Effect(p) \/ Still
  <2> DEFINE o == Outcome(call[p], readQ[p], index)
  <2> DEFINE l == AfterRead(call[p], o)
  <2>1. /\ pc[p] = "readIndex"
        /\ pc' = [pc EXCEPT ![p] = l]
        /\ answer' = [answer EXCEPT ![p] = o]
        /\ UNCHANGED <<queue, index, call>>
    BY <1>4 DEF ReadIndex, Goto, redis
  <2>2. /\ l \in {"release", "moveIndex", "writeQueue"}
        /\ l = "release" => o.status # "ok"
    BY DEF AfterRead
  <2>3. readQ[p] = queue /\ call[p].kind \in Kinds
    BY <2>1 DEF NoLostUpdate, AnswerInv
  <2>4. \A r \in Procs : pc[r] # "writeIndex"
    BY <1>0, <2>1 DEF MutualExclusion, Critical
  <2>5. l = "release" => o.queue = queue /\ o.index = index
    BY <2>2, <2>3, UnwrittenOutcome
  <2>6. o = Outcome(call[p], queue, index)
    BY <2>3
  <2> HIDE DEF o, l
  <2>7. AbstractIndex' = index /\ AbstractIndex = index
    <3>1. \A r \in Procs : pc'[r] # "writeIndex"
      BY <1>0, <2>1, <2>2, <2>4 DEF LockTypeOK
    <3>2. CursorOf(pc', answer', index') = index' /\ CursorOf(pc, answer, index) = index
      BY <2>4, <3>1, CursorOfNobody
    <3>3. QED
      BY <2>1, <3>2, CursorNow
  <2>8. CASE l = "release"
    <3>1. AbstractPhase' = [AbstractPhase EXCEPT ![p] = "done"] /\ AbstractPhase[p] = "called"
      BY <1>0, <2>1, <2>8, PhaseMoves DEF Phase, AbstractPhase
    <3>2. AbstractAnswer' = [AbstractAnswer EXCEPT ![p] = o]
      BY <1>0, <2>1, <2>8, AnswerMoves DEF Phase
    <3>3. Abstract!Effect(p)
      BY <2>1, <2>5, <2>6, <2>7, <2>8, <3>1, <3>2 DEF Abstract!Effect
    <3>4. QED
      BY <3>3
  <2>9. CASE l # "release"
    <3>1. AbstractPhase' = AbstractPhase
      BY <1>0, <2>1, <2>2, <2>9, PhaseMoves DEF Phase, AbstractPhase
    <3>2. AbstractAnswer' = [AbstractAnswer EXCEPT ![p] = NoAnswer] /\ AbstractAnswer[p] = NoAnswer
      BY <1>0, <2>1, <2>2, <2>9, AnswerMoves DEF Phase, AbstractAnswer
    <3>3. AbstractAnswer' = AbstractAnswer
      BY <3>2 DEF AbstractAnswer
    <3>4. QED
      BY <2>1, <2>7, <3>1, <3>3
  <2>10. QED
    BY <2>8, <2>9
<1>5. ASSUME NEW p \in Procs, WriteQueue(p)
      PROVE  Abstract!Effect(p)
  <2>1. /\ pc[p] = "writeQueue"
        /\ pc' = [pc EXCEPT ![p] = "writeIndex"]
        /\ queue' = answer[p].queue
        /\ UNCHANGED <<index, answer, call>>
    BY <1>5 DEF WriteQueue, Goto
  <2>2. answer[p] = Outcome(call[p], queue, index)
    BY <2>1 DEF NoLostUpdate, AnswerInv
  <2>3. \A r \in Procs : pc[r] # "writeIndex"
    BY <1>0, <2>1 DEF MutualExclusion, Critical
  <2>4. AbstractIndex = index /\ AbstractIndex' = answer[p].index
    <3>1. pc'[p] = "writeIndex" /\ \A r \in Procs \ {p} : pc'[r] # "writeIndex"
      BY <1>0, <2>1, <2>3 DEF LockTypeOK
    <3>2. CursorOf(pc', answer', index') = answer'[p].index
      BY <3>1, CursorOfWriter
    <3>3. CursorOf(pc, answer, index) = index
      BY <2>3, CursorOfNobody
    <3>4. QED
      BY <2>1, <3>2, <3>3, CursorNow
  <2>5. AbstractPhase' = [AbstractPhase EXCEPT ![p] = "done"] /\ AbstractPhase[p] = "called"
    BY <1>0, <2>1, PhaseMoves DEF Phase, AbstractPhase
  <2>6. answer' = [answer EXCEPT ![p] = answer[p]]
    BY <1>0, <2>1 DEF LocalsOK
  <2>7. AbstractAnswer' = [AbstractAnswer EXCEPT ![p] = answer[p]]
    <3>1. pc' = [pc EXCEPT ![p] = "writeIndex"]
      BY <2>1
    <3>2. QED
      BY <1>0, <2>6, <3>1, AnswerMoves DEF Phase
  <2>8. QED
    BY <2>1, <2>2, <2>4, <2>5, <2>7 DEF Abstract!Effect
<1>6. ASSUME NEW p \in Procs, WriteIndex(p)
      PROVE  Still
  <2>1. /\ pc[p] = "writeIndex"
        /\ pc' = [pc EXCEPT ![p] = "release"]
        /\ index' = answer[p].index
        /\ UNCHANGED <<queue, answer, call>>
    BY <1>6 DEF WriteIndex, Goto
  <2>2. \A r \in Procs \ {p} : pc[r] # "writeIndex"
    BY <1>0, <2>1 DEF MutualExclusion, Critical
  <2>3. AbstractIndex = answer[p].index /\ AbstractIndex' = answer[p].index
    <3>1. \A r \in Procs : pc'[r] # "writeIndex"
      BY <1>0, <2>1, <2>2 DEF LockTypeOK
    <3>2. CursorOf(pc', answer', index') = index'
      BY <3>1, CursorOfNobody
    <3>3. CursorOf(pc, answer, index) = answer[p].index
      BY <2>1, <2>2, CursorOfWriter
    <3>4. QED
      BY <2>1, <3>2, <3>3, CursorNow
  <2>4. AbstractPhase' = AbstractPhase
    BY <1>0, <2>1, PhaseMoves DEF Phase, AbstractPhase
  <2>5. AbstractAnswer' = AbstractAnswer
    BY <1>0, <2>1, AnswerStays DEF Phase
  <2>6. QED
    BY <2>1, <2>3, <2>4, <2>5
<1>7. ASSUME NEW p \in Procs, MoveIndex(p)
      PROVE  Abstract!Effect(p)
  <2>1. /\ pc[p] = "moveIndex"
        /\ pc' = [pc EXCEPT ![p] = "release"]
        /\ index' = answer[p].index
        /\ UNCHANGED <<queue, answer, call>>
    BY <1>7 DEF MoveIndex, Goto
  <2>2. answer[p] = Outcome(call[p], queue, index) /\ call[p].kind = "advance"
    BY <2>1 DEF NoLostUpdate, AnswerInv
  <2>3. answer[p].queue = queue
    BY <2>2, AdvanceKeepsQueue
  <2>4. \A r \in Procs : pc[r] # "writeIndex"
    BY <1>0, <2>1 DEF MutualExclusion, Critical
  <2>5. AbstractIndex = index /\ AbstractIndex' = index'
    <3>1. \A r \in Procs : pc'[r] # "writeIndex"
      BY <1>0, <2>1, <2>4 DEF LockTypeOK
    <3>2. CursorOf(pc', answer', index') = index' /\ CursorOf(pc, answer, index) = index
      BY <2>4, <3>1, CursorOfNobody
    <3>3. QED
      BY <3>2, CursorNow
  <2>6. AbstractPhase' = [AbstractPhase EXCEPT ![p] = "done"] /\ AbstractPhase[p] = "called"
    BY <1>0, <2>1, PhaseMoves DEF Phase, AbstractPhase
  <2>7. answer' = [answer EXCEPT ![p] = answer[p]]
    BY <1>0, <2>1 DEF LocalsOK
  <2>8. AbstractAnswer' = [AbstractAnswer EXCEPT ![p] = answer[p]]
    <3>1. pc' = [pc EXCEPT ![p] = "release"]
      BY <2>1
    <3>2. QED
      BY <1>0, <2>7, <3>1, AnswerMoves DEF Phase
  <2>9. QED
    BY <2>1, <2>2, <2>3, <2>5, <2>6, <2>8 DEF Abstract!Effect
<1>8. ASSUME NEW p \in Procs, Release(p) \/ Return(p)
      PROVE  Abstract!Return(p)
  <2>1. /\ pc[p] \in {"release", "return"}
        /\ pc' = [pc EXCEPT ![p] = "idle"]
        /\ answer' = [answer EXCEPT ![p] = NoAnswer]
        /\ call' = [call EXCEPT ![p] = NoCall]
        /\ UNCHANGED <<queue, index>>
    BY <1>8 DEF Release, Return, Forget, redis
  <2>2. AbstractIndex' = AbstractIndex
    <3>1. /\ pc[p] # "writeIndex" /\ pc'[p] # "writeIndex"
          /\ \A r \in Procs \ {p} : pc'[r] = pc[r] /\ answer'[r] = answer[r]
      BY <1>0, <2>1 DEF LockTypeOK, LocalsOK
    <3>2. CursorOf(pc', answer', index) = CursorOf(pc, answer, index)
      BY <3>1, CursorOfOthers
    <3>3. QED
      BY <2>1, <3>2, CursorNow
  <2>3. AbstractPhase' = [AbstractPhase EXCEPT ![p] = "idle"] /\ AbstractPhase[p] = "done"
    BY <1>0, <2>1, PhaseMoves DEF Phase, AbstractPhase
  <2>4. AbstractAnswer' = [AbstractAnswer EXCEPT ![p] = NoAnswer]
    BY <1>0, <2>1, AnswerMoves DEF Phase
  <2>5. QED
    BY <2>1, <2>2, <2>3, <2>4 DEF Abstract!Return
<1>9. ASSUME NEW p \in Procs
      PROVE  ~SetIndex(p) /\ ~RedisFails(p) /\ ~ReleaseFails(p)
  BY DEF SetIndex, RedisFails, ReleaseFails, NoSetIndex
<1>10. CASE Expire \/ UNCHANGED vars
  BY <1>10 DEF Expire, vars, locals, AbstractIndex, AbstractPhase, AbstractAnswer, Abstract!vars
<1>11. ~Crash
  BY DEF Crash
<1>12. Still => UNCHANGED Abstract!vars
  BY DEF Abstract!vars
<1>13. QED
  BY <1>1, <1>2, <1>3, <1>4, <1>5, <1>6, <1>7, <1>8, <1>9, <1>10, <1>11, <1>12
     DEF Next, Step, Fault, Abstract!Next

\* The initial states of the service are those of the contract.
LEMMA InitImplements == Init => Abstract!Init
BY DEF Init, Abstract!Init, AbstractPhase, AbstractAnswer, Phase

\* QueueService implements the atomic queue: with any number of concurrent
\* requests, each mutation takes effect on queue and cursor together, at one
\* instant, or is refused and changes nothing.  It holds as long as no lock
\* expires under its holder, Redis answers, the server stays up, and nobody
\* moves the cursor with the unlocked setIndex.
THEOREM QueueIsAtomic ==
  ASSUME ~SlowHolders, ~RedisMayFail, ~MayCrash, "setIndex" \notin Kinds
  PROVE  Spec => Atomic
<1>1. Spec => []RefInv
  BY RefInvInit, RefInvNext, PTL DEF Spec
<1>2. RefInv /\ [Next]_vars => [Abstract!Next]_(Abstract!vars)
  BY StepImplements
<1>3. QED
  BY <1>1, <1>2, InitImplements, PTL DEF Spec, Atomic, Abstract!Spec
=============================================================================
