------------------------ MODULE PlayerProcessProofs ------------------------
(***************************************************************************)
(* Theorems about the parts of a player agent's process, for any number of *)
(* commands, tracks, sockets, exits and calls, and for any volumes.        *)
(***************************************************************************)
EXTENDS PlayerProcess, FiniteSetTheorems, TLAPS

-----------------------------------------------------------------------------
(***************************************************************************)
(* ResolveSlots: the semaphore of the resolver never exceeds its bound and *)
(* never leaves a slot idle while a call waits, for any number of calls    *)
(* and any bound.                                                          *)
(***************************************************************************)

\* The inductive invariant: the counter is the number of holders, the queue is
\* the set of waiting calls, and a call only waits while every slot is taken.
SlotInv ==
  /\ TypeOK
  /\ QueueIsWaiters
  /\ SlotsAreHeld
  /\ NoIdleSlot
  /\ activeResolves <= MaxConcurrency

\* The holders are finitely many, so that they can be counted.
LEMMA HoldersFinite ==
  IsFiniteSet(Holders) /\ Cardinality(Holders) \in Nat
<1>1. Holders \in SUBSET Resolves  BY DEF Holders
<1> QED  BY <1>1, ResolvesAssumption, FS_Subset, FS_CardinalityType

\* The head of a queue without repetitions is a member of it, and the tail is
\* the rest.
LEMMA HeadLeaves ==
  ASSUME NEW q \in Seq(Resolves), q # <<>>, IsInjective(q)
  PROVE  /\ Head(q) \in ToSet(q)
         /\ Tail(q) \in Seq(Resolves)
         /\ ToSet(Tail(q)) = ToSet(q) \ {Head(q)}
         /\ IsInjective(Tail(q))
<1>1. /\ Len(q) \in Nat \ {0} /\ DOMAIN q = 1..Len(q)
      /\ Tail(q) \in Seq(Resolves) /\ Len(Tail(q)) = Len(q) - 1
      /\ DOMAIN Tail(q) = 1..(Len(q) - 1)
      /\ \A k \in 1..(Len(q) - 1) : Tail(q)[k] = q[k + 1]
      /\ Head(q) = q[1]
  OBVIOUS
<1>2. Head(q) \in ToSet(q)  BY <1>1 DEF ToSet
<1>3. ToSet(Tail(q)) \subseteq ToSet(q) \ {Head(q)}
  BY <1>1 DEF ToSet, IsInjective
<1>4. ASSUME NEW x \in ToSet(q), x # Head(q)  PROVE  x \in ToSet(Tail(q))
  <2>1. PICK k \in 1..Len(q) : x = q[k]  BY <1>1 DEF ToSet
  <2>2. k # 1 /\ k - 1 \in 1..(Len(q) - 1) /\ Tail(q)[k - 1] = x  BY <1>1, <2>1, <1>4
  <2> QED  BY <1>1, <2>2 DEF ToSet
<1>5. IsInjective(Tail(q))  BY <1>1 DEF IsInjective
<1> QED  BY <1>1, <1>2, <1>3, <1>4, <1>5

\* Appending a call that is not in the queue keeps it without repetitions.
LEMMA AppendJoins ==
  ASSUME NEW q \in Seq(Resolves), NEW r \in Resolves, r \notin ToSet(q), IsInjective(q)
  PROVE  /\ Append(q, r) \in Seq(Resolves)
         /\ ToSet(Append(q, r)) = ToSet(q) \cup {r}
         /\ IsInjective(Append(q, r))
<1>1. /\ Len(q) \in Nat /\ DOMAIN q = 1..Len(q)
      /\ Append(q, r) \in Seq(Resolves)
      /\ DOMAIN Append(q, r) = 1..(Len(q) + 1)
      /\ \A k \in 1..Len(q) : Append(q, r)[k] = q[k]
      /\ Append(q, r)[Len(q) + 1] = r
  OBVIOUS
<1>2. ToSet(Append(q, r)) \subseteq ToSet(q) \cup {r}
  <2>1. SUFFICES ASSUME NEW k \in 1..(Len(q) + 1)
                 PROVE  Append(q, r)[k] \in ToSet(q) \cup {r}
    BY <1>1 DEF ToSet
  <2>2. CASE k = Len(q) + 1  BY <1>1, <2>2
  <2>3. CASE k \in 1..Len(q)  BY <1>1, <2>3 DEF ToSet
  <2> QED  BY <1>1, <2>2, <2>3
<1>3. ToSet(q) \subseteq ToSet(Append(q, r))  BY <1>1 DEF ToSet
<1>4. r \in ToSet(Append(q, r))  BY <1>1 DEF ToSet
<1>5. IsInjective(Append(q, r))
  <2>1. SUFFICES ASSUME NEW i \in 1..(Len(q) + 1), NEW j \in 1..(Len(q) + 1),
                        Append(q, r)[i] = Append(q, r)[j]
                 PROVE  i = j
    BY <1>1 DEF IsInjective
  <2>2. CASE i \in 1..Len(q) /\ j \in 1..Len(q)  BY <1>1, <2>1, <2>2 DEF IsInjective
  <2>3. CASE i = Len(q) + 1 /\ j \in 1..Len(q)  BY <1>1, <2>1, <2>3 DEF ToSet
  <2>4. CASE j = Len(q) + 1 /\ i \in 1..Len(q)  BY <1>1, <2>1, <2>4 DEF ToSet
  <2> QED  BY <1>1, <2>2, <2>3, <2>4
<1> QED  BY <1>1, <1>2, <1>3, <1>4, <1>5

-----------------------------------------------------------------------------
\* The invariant holds at the start: no calls, no holders.
LEMMA SlotInvInit == Init => SlotInv
<1> SUFFICES ASSUME Init  PROVE SlotInv  OBVIOUS
<1>1. Holders = {} /\ Waiters = {}  BY DEF Init, Holders, Waiters
<1>2. ToSet(resolveQueue) = {} /\ IsInjective(resolveQueue)
  BY DEF Init, ToSet, IsInjective
<1> QED
  BY <1>1, <1>2, FS_EmptySet, ConcurrencyAssumption
  DEF Init, SlotInv, TypeOK, QueueIsWaiters, SlotsAreHeld, NoIdleSlot

\* Every step keeps the invariant.
LEMMA SlotInvNext == SlotInv /\ [Next]_vars => SlotInv'
<1> SUFFICES ASSUME SlotInv, [Next]_vars  PROVE SlotInv'  OBVIOUS
<1>0. /\ TypeOK /\ QueueIsWaiters /\ SlotsAreHeld /\ NoIdleSlot
      /\ activeResolves <= MaxConcurrency
      /\ MaxConcurrency \in Nat \ {0}
      /\ IsFiniteSet(Holders) /\ Cardinality(Holders) \in Nat
  BY HoldersFinite, ConcurrencyAssumption DEF SlotInv
<1>1. ASSUME NEW r \in Resolves, Wait(r)  PROVE SlotInv'
  <2>1. Holders' = Holders /\ Waiters' = Waiters \cup {r} /\ r \notin Waiters
    BY <1>0, <1>1 DEF Wait, Holders, Waiters, TypeOK
  <2>2. /\ resolveQueue' \in Seq(Resolves)
        /\ ToSet(resolveQueue') = ToSet(resolveQueue) \cup {r}
        /\ IsInjective(resolveQueue')
    BY <1>0, <1>1, <2>1, AppendJoins DEF Wait, TypeOK, QueueIsWaiters
  <2>3. TypeOK'  BY <1>0, <1>1, <2>2 DEF Wait, TypeOK
  <2>4. QueueIsWaiters'  BY <1>0, <2>1, <2>2 DEF QueueIsWaiters
  <2> QED  BY <1>0, <1>1, <2>1, <2>3, <2>4 DEF SlotInv, SlotsAreHeld, NoIdleSlot, Wait, TypeOK
<1>2. ASSUME NEW r \in Resolves, Acquire(r)  PROVE SlotInv'
  <2>1. Holders' = Holders \cup {r} /\ r \notin Holders /\ Waiters' = Waiters
    BY <1>0, <1>2 DEF Acquire, Holders, Waiters, TypeOK
  <2>2. Cardinality(Holders') = Cardinality(Holders) + 1
    BY <1>0, <2>1, FS_AddElement
  <2>3. TypeOK'  BY <1>0, <1>2 DEF Acquire, TypeOK
  <2>4. QueueIsWaiters'  BY <1>0, <1>2, <2>1 DEF QueueIsWaiters, Acquire
  <2>5. SlotsAreHeld'  BY <1>0, <1>2, <2>2 DEF SlotsAreHeld, Acquire
  <2>6. NoIdleSlot' /\ activeResolves' <= MaxConcurrency
    BY <1>0, <1>2 DEF NoIdleSlot, Acquire, TypeOK
  <2> QED  BY <2>3, <2>4, <2>5, <2>6 DEF SlotInv
<1>3. ASSUME NEW r \in Resolves, Start(r)  PROVE SlotInv'
  <2>1. Holders' = Holders /\ Waiters' = Waiters
    BY <1>0, <1>3 DEF Start, Holders, Waiters, TypeOK
  <2>2. TypeOK'  BY <1>0, <1>3 DEF Start, TypeOK
  <2> QED
    BY <1>0, <1>3, <2>1, <2>2
    DEF SlotInv, QueueIsWaiters, SlotsAreHeld, NoIdleSlot, Start
<1>4. ASSUME NEW r \in Resolves, pc[r] = "running", GiveBack(r)  PROVE SlotInv'
  <2>1. Holders' = Holders \ {r} /\ r \in Holders /\ Waiters' = Waiters
    BY <1>0, <1>4 DEF GiveBack, Holders, Waiters, TypeOK
  <2>2. Cardinality(Holders') = Cardinality(Holders) - 1
    BY <1>0, <2>1, FS_RemoveElement
  <2>3. Cardinality(Holders) # 0  BY <1>0, <2>1, FS_EmptySet
  <2>4. TypeOK'  BY <1>0, <1>4, <2>3 DEF GiveBack, TypeOK, SlotsAreHeld
  <2>5. QueueIsWaiters'  BY <1>0, <1>4, <2>1 DEF QueueIsWaiters, GiveBack
  <2>6. SlotsAreHeld'  BY <1>0, <1>4, <2>2 DEF SlotsAreHeld, GiveBack
  <2>7. NoIdleSlot' /\ activeResolves' <= MaxConcurrency
    BY <1>0, <1>4 DEF NoIdleSlot, GiveBack, TypeOK
  <2> QED  BY <2>4, <2>5, <2>6, <2>7 DEF SlotInv
<1>5. ASSUME NEW r \in Resolves, pc[r] = "running", HandOver(r)  PROVE SlotInv'
  <2> DEFINE head == Head(resolveQueue)
  <2>1. /\ head \in Waiters
        /\ resolveQueue' \in Seq(Resolves)
        /\ ToSet(resolveQueue') = Waiters \ {head}
        /\ IsInjective(resolveQueue')
    BY <1>0, <1>5, HeadLeaves DEF HandOver, TypeOK, QueueIsWaiters
  <2>2. head \in Resolves /\ pc[head] = "waiting" /\ head # r /\ head \notin Holders
    BY <1>5, <2>1 DEF Waiters, Holders
  <2>3. /\ pc' = [pc EXCEPT ![r] = "idle", ![head] = "granted"]
        /\ activeResolves' = activeResolves
    BY <1>5 DEF HandOver
  <2> HIDE DEF head
  <2>4. /\ Holders' = (Holders \ {r}) \cup {head} /\ r \in Holders
        /\ Waiters' = Waiters \ {head}
    BY <1>0, <1>5, <2>2, <2>3 DEF Holders, Waiters, TypeOK
  <2>5. Cardinality(Holders') = Cardinality(Holders)
    <3>1. /\ IsFiniteSet(Holders \ {r})
          /\ Cardinality(Holders \ {r}) = Cardinality(Holders) - 1
      BY <1>0, <2>4, FS_RemoveElement
    <3>2. head \notin Holders \ {r}  BY <2>2
    <3>3. Cardinality((Holders \ {r}) \cup {head}) = Cardinality(Holders \ {r}) + 1
      BY <3>1, <3>2, FS_AddElement
    <3> QED  BY <1>0, <2>4, <3>1, <3>3
  <2>6. TypeOK'  BY <1>0, <2>1, <2>3, <2>2 DEF TypeOK
  <2>7. QueueIsWaiters'  BY <2>1, <2>4 DEF QueueIsWaiters
  <2>8. SlotsAreHeld'  BY <1>0, <2>3, <2>5 DEF SlotsAreHeld
  <2>9. NoIdleSlot' /\ activeResolves' <= MaxConcurrency
    BY <1>0, <1>5, <2>3 DEF NoIdleSlot, HandOver
  <2> QED  BY <2>6, <2>7, <2>8, <2>9 DEF SlotInv
<1>6. CASE UNCHANGED vars
  BY <1>0, <1>6
  DEF SlotInv, TypeOK, QueueIsWaiters, SlotsAreHeld, NoIdleSlot, Holders, Waiters, vars
<1> QED  BY <1>1, <1>2, <1>3, <1>4, <1>5, <1>6 DEF Next, Finish

\* The variables keep their types, for any set of calls and any bound.
THEOREM SlotsTyped == Spec => []TypeOK
<1>1. SlotInv => TypeOK  BY DEF SlotInv
<1> QED  BY <1>1, SlotInvInit, SlotInvNext, PTL DEF Spec

\* At most MAX_YTDLP_CONCURRENCY calls ever hold a slot.
THEOREM NeverMoreThanMax == Spec => []Bounded
<1>1. SlotInv => Bounded  BY DEF SlotInv, SlotsAreHeld, Bounded
<1> QED  BY <1>1, SlotInvInit, SlotInvNext, PTL DEF Spec

\* A call waits only while every slot is taken, and the queue forgets nobody.
THEOREM NoSlotIsWasted == Spec => [](SlotsAreHeld /\ QueueIsWaiters /\ NoIdleSlot)
<1>1. SlotInv => SlotsAreHeld /\ QueueIsWaiters /\ NoIdleSlot  BY DEF SlotInv
<1> QED  BY <1>1, SlotInvInit, SlotInvNext, PTL DEF Spec

-----------------------------------------------------------------------------
(***************************************************************************)
(* The parts of the process.                                               *)
(***************************************************************************)

\* A step of the process is a step of one part or leaves it alone.
LEMMA EachPartSteps ==
  ASSUME [ProcessNext]_allVars
  PROVE  /\ [Next]_vars
         /\ [Agent!Next]_(Agent!vars)
         /\ [Process!Next]_(Process!vars)
         /\ [Ramp!Next]_(Ramp!vars)
BY DEF ProcessNext, OfResolver, OfCommands, OfMpv, OfVolume, allVars, vars,
       agentVars, mpvVars, rampVars, Agent!vars, Process!vars, Ramp!vars

-----------------------------------------------------------------------------
(***************************************************************************)
(* MpvProcess: one connection.                                             *)
(***************************************************************************)

\* The variables of the supervisor keep their shape: a reconnect timer is never
\* armed twice.
MpvTypes ==
  /\ proc \in {"none", "booting", "listening"}
  /\ started \in BOOLEAN /\ stopping \in BOOLEAN
  /\ ipcConnecting \in BOOLEAN /\ restartTimer \in BOOLEAN
  /\ retryTimers \in 0..1
  /\ sock \in Links \cup {NoLink}
  /\ links \in [Links -> {"free", "attempt", "open", "closing"}]
  /\ crashes \in 0..MaxCrashes /\ drops \in 0..MaxDrops

\* At most one socket is in use; mpv is only started when it is gone; and no
\* reconnect timer runs while a socket is connected or about to be.
LinkInv ==
  /\ MpvTypes
  /\ \A s, t \in Links : links[s] # "free" /\ links[t] # "free" => s = t
  /\ restartTimer => proc = "none"
  /\ \A s \in Links : links[s] = "open" => proc = "listening"
  /\ \A s \in Links : links[s] \in {"open", "attempt"} /\ proc = "listening" => retryTimers = 0
  /\ sock # NoLink => links[sock] \in {"open", "closing"}

\* The shape at the start.
LEMMA MpvTypesInit == Process!Init => MpvTypes
<1> SUFFICES ASSUME Process!Init PROVE MpvTypes  OBVIOUS
<1>1. links \in [Links -> {"free", "attempt", "open", "closing"}]  BY DEF Process!Init
<1>2. crashes \in 0..MaxCrashes /\ drops \in 0..MaxDrops /\ retryTimers \in 0..1
  BY MpvBounds DEF Process!Init
<1>3. started \in BOOLEAN /\ stopping \in BOOLEAN /\ ipcConnecting \in BOOLEAN /\ restartTimer \in BOOLEAN
  BY Zenon DEF Process!Init
<1>4. proc \in {"none", "booting", "listening"} /\ sock \in Links \cup {NoLink}
  BY DEF Process!Init
<1> QED  BY Zenon, <1>1, <1>2, <1>3, <1>4 DEF MpvTypes

\* An attempt takes a free socket, and nothing else changes.
LEMMA AttemptTakesFreeSocket ==
  ASSUME MpvTypes, Process!ConnectWithRetry
  PROVE  /\ ipcConnecting' \in BOOLEAN
         /\ \/ links' = links
            \/ \E s \in Links : links[s] = "free" /\ links' = [links EXCEPT ![s] = "attempt"]
         /\ links' \in [Links -> {"free", "attempt", "open", "closing"}]
<1>1. CASE stopping \/ ipcConnecting
  BY <1>1 DEF Process!ConnectWithRetry, MpvTypes
<1>2. CASE ~stopping /\ ~ipcConnecting
  <2> DEFINE s == CHOOSE x \in Process!Are("free") : TRUE
  <2>1. Process!Are("free") # {} /\ links' = [links EXCEPT ![s] = "attempt"] /\ ipcConnecting' = TRUE
    BY <1>2 DEF Process!ConnectWithRetry
  <2>2. s \in Process!Are("free")  BY <2>1
  <2> HIDE DEF s
  <2> QED  BY <2>1, <2>2 DEF Process!Are, MpvTypes
<1> QED  BY <1>1, <1>2

\* Every step keeps the shape.
LEMMA MpvTypesNext ==
  ASSUME MpvTypes, [Process!Next]_(Process!vars)
  PROVE  MpvTypes'
<1> USE MpvBounds DEF MpvTypes, Process!counts
<1>1. CASE Process!Start  BY <1>1, AttemptTakesFreeSocket DEF Process!Start
<1>2. CASE Process!Retry  BY <1>2, AttemptTakesFreeSocket DEF Process!Retry
<1>3. ASSUME NEW s \in Links, Process!Connected(s)  PROVE MpvTypes'
  BY <1>3 DEF Process!Connected
<1>4. ASSUME NEW s \in Links, Process!Refused(s)  PROVE MpvTypes'
  <2>1. links' \in [Links -> {"free", "attempt", "open", "closing"}]  BY <1>4 DEF Process!Refused, Process!ScheduleIpcReconnect
  <2>2. crashes' \in 0..MaxCrashes /\ drops' \in 0..MaxDrops /\ retryTimers' \in 0..1
    BY <1>4 DEF Process!Refused, Process!ScheduleIpcReconnect
  <2>3. started' \in BOOLEAN /\ stopping' \in BOOLEAN  BY Zenon, <1>4 DEF Process!Refused, Process!ScheduleIpcReconnect
  <2>4. ipcConnecting' \in BOOLEAN /\ restartTimer' \in BOOLEAN  BY Zenon, <1>4 DEF Process!Refused, Process!ScheduleIpcReconnect
  <2>5. proc' \in {"none", "booting", "listening"} /\ sock' \in Links \cup {NoLink}
    BY <1>4 DEF Process!Refused, Process!ScheduleIpcReconnect
  <2> QED  BY Zenon, <2>1, <2>2, <2>3, <2>4, <2>5
<1>5. ASSUME NEW s \in Links, Process!Closed(s)  PROVE MpvTypes'
  <2>1. links' \in [Links -> {"free", "attempt", "open", "closing"}]  BY <1>5 DEF Process!Closed, Process!ScheduleIpcReconnect
  <2>2. crashes' \in 0..MaxCrashes /\ drops' \in 0..MaxDrops /\ retryTimers' \in 0..1
    BY <1>5 DEF Process!Closed, Process!ScheduleIpcReconnect
  <2>3. started' \in BOOLEAN /\ stopping' \in BOOLEAN  BY Zenon, <1>5 DEF Process!Closed, Process!ScheduleIpcReconnect
  <2>4. ipcConnecting' \in BOOLEAN /\ restartTimer' \in BOOLEAN  BY Zenon, <1>5 DEF Process!Closed, Process!ScheduleIpcReconnect
  <2>5. proc' \in {"none", "booting", "listening"} /\ sock' \in Links \cup {NoLink}
    BY <1>5 DEF Process!Closed, Process!ScheduleIpcReconnect
  <2> QED  BY Zenon, <2>1, <2>2, <2>3, <2>4, <2>5
<1>6. CASE Process!Listens  BY <1>6 DEF Process!Listens
<1>7. CASE Process!Exit
  <2>1. links' \in [Links -> {"free", "attempt", "open", "closing"}]  BY <1>7 DEF Process!Exit, Process!Broken
  <2>2. crashes' \in 0..MaxCrashes /\ drops' \in 0..MaxDrops /\ retryTimers' \in 0..1
    BY <1>7 DEF Process!Exit, Process!Broken
  <2>3. started' \in BOOLEAN /\ stopping' \in BOOLEAN  BY Zenon, <1>7 DEF Process!Exit, Process!Broken
  <2>4. ipcConnecting' \in BOOLEAN /\ restartTimer' \in BOOLEAN  BY Zenon, <1>7 DEF Process!Exit, Process!Broken
  <2>5. proc' \in {"none", "booting", "listening"} /\ sock' \in Links \cup {NoLink}
    BY <1>7 DEF Process!Exit, Process!Broken
  <2> QED  BY Zenon, <2>1, <2>2, <2>3, <2>4, <2>5
<1>8. CASE Process!Shutdown
  <2>1. links' \in [Links -> {"free", "attempt", "open", "closing"}]  BY <1>8 DEF Process!Shutdown
  <2>2. crashes' \in 0..MaxCrashes /\ drops' \in 0..MaxDrops /\ retryTimers' \in 0..1
    BY <1>8 DEF Process!Shutdown
  <2>3. started' \in BOOLEAN /\ stopping' \in BOOLEAN  BY Zenon, <1>8 DEF Process!Shutdown
  <2>4. ipcConnecting' \in BOOLEAN /\ restartTimer' \in BOOLEAN  BY Zenon, <1>8 DEF Process!Shutdown
  <2>5. proc' \in {"none", "booting", "listening"} /\ sock' \in Links \cup {NoLink}
    BY <1>8 DEF Process!Shutdown
  <2> QED  BY Zenon, <2>1, <2>2, <2>3, <2>4, <2>5
<1>9. ASSUME NEW s \in Links, Process!Drop(s)  PROVE MpvTypes'
  BY <1>9 DEF Process!Drop
<1>10. CASE UNCHANGED Process!vars  BY <1>10 DEF Process!vars
<1> QED
  BY <1>1, <1>2, <1>3, <1>4, <1>5, <1>6, <1>7, <1>8, <1>9, <1>10 DEF Process!Next, Process!Agent

\* No socket is in use at the start.
LEMMA LinkInvInit == Process!Init => LinkInv
BY MpvTypesInit DEF Process!Init, LinkInv, MpvTypes

\* A connection is only tried when every socket is free, provided that refusals
\* and close events come before the timers and before mpv listens.
LEMMA LinkInvNext ==
  ASSUME ~SlowSockets, LinkInv, [Process!Next]_(Process!vars)
  PROVE  LinkInv'
<1>0. MpvTypes /\ MpvTypes'  BY MpvTypesNext DEF LinkInv
<1> USE <1>0 DEF LinkInv, MpvTypes, Process!counts
<1>1. CASE Process!Start
  <2>1. \A s \in Links : links[s] = "free"  BY <1>1 DEF Process!Start, Process!Settled, Process!Are
  <2> QED  BY <1>1, <2>1, AttemptTakesFreeSocket DEF Process!Start
<1>2. CASE Process!Retry
  <2>1. \A s \in Links : links[s] = "free"  BY <1>2 DEF Process!Retry, Process!Settled, Process!Are
  <2> QED  BY <1>2, <2>1, AttemptTakesFreeSocket DEF Process!Retry
<1>3. ASSUME NEW s \in Links, Process!Connected(s)  PROVE LinkInv'
  BY <1>3 DEF Process!Connected
<1>4. ASSUME NEW s \in Links, Process!Refused(s)  PROVE LinkInv'
  BY <1>4 DEF Process!Refused, Process!ScheduleIpcReconnect
<1>5. ASSUME NEW s \in Links, Process!Closed(s)  PROVE LinkInv'
  BY <1>5 DEF Process!Closed, Process!ScheduleIpcReconnect
<1>6. CASE Process!Listens  BY <1>6 DEF Process!Listens, Process!Settled, Process!Are
<1>7. CASE Process!Exit  BY <1>7 DEF Process!Exit, Process!Broken
<1>8. CASE Process!Shutdown  BY <1>8 DEF Process!Shutdown
<1>9. ASSUME NEW s \in Links, Process!Drop(s)  PROVE LinkInv'
  BY <1>9 DEF Process!Drop
<1>10. CASE UNCHANGED Process!vars  BY <1>10 DEF Process!vars
<1> QED
  BY <1>1, <1>2, <1>3, <1>4, <1>5, <1>6, <1>7, <1>8, <1>9, <1>10 DEF Process!Next, Process!Agent

\* The agent never listens to mpv on two connections, however often mpv exits,
\* drops the connection or is started again, as long as close events and refusals
\* are not late (mpv.ts, connectWithRetry and scheduleIpcReconnect).
THEOREM ListensOnce ==
  ASSUME ~SlowSockets
  PROVE  ProcessSpec => []OneConnection
<1>1. ProcessInit => LinkInv  BY LinkInvInit DEF ProcessInit
<1>2. LinkInv /\ [ProcessNext]_allVars => LinkInv'  BY EachPartSteps, LinkInvNext
<1>3. LinkInv => OneConnection
  <2> SUFFICES ASSUME LinkInv PROVE OneConnection  OBVIOUS
  <2> DEFINE open == Process!Are("open")
  <2>0. Process!Cardinality(open) = Cardinality(open)  BY Zenon DEF Process!Cardinality, Cardinality
  <2>1. CASE open = {}  BY <2>0, <2>1, FS_EmptySet DEF OneConnection, Process!OneConnection
  <2>2. CASE open # {}
    <3>1. PICK s \in open : TRUE  BY <2>2
    <3>2. open = {s}  BY <3>1 DEF LinkInv, Process!Are
    <3>3. Cardinality({s}) = 1  BY FS_Singleton
    <3> QED  BY <2>0, <3>2, <3>3 DEF OneConnection, Process!OneConnection
  <2> QED  BY <2>1, <2>2
<1> QED  BY <1>1, <1>2, <1>3, PTL DEF ProcessSpec
-----------------------------------------------------------------------------
(***************************************************************************)
(* VolumeRamp: the last target wins.                                       *)
(***************************************************************************)
RampRecord ==
  [at : {"idle", "asked", "measured", "ramping"}, target : Nat, from : Nat, ticks : 0..60]

\* A ramp has between two and sixty steps.
LEMMA StepsAreBounded ==
  ASSUME NEW r \in RampRecord
  PROVE  Ramp!Steps(r) \in 2..60
<1> DEFINE half == (Ramp!Distance(r) + 1) \div 2
<1>1. Ramp!Distance(r) \in Nat  BY DEF RampRecord, Ramp!Distance
<1>2. half \in Int  BY <1>1
<1> HIDE DEF half
<1> QED  BY <1>2 DEF Ramp!Steps, half

\* Between its start and its target a ramp plays at a volume that is not negative.
LEMMA RoundedIsVolume ==
  ASSUME NEW r \in RampRecord, NEW k \in 0..Ramp!Steps(r)
  PROVE  Ramp!Rounded(r, k) \in Nat
<1> DEFINE n == Ramp!Steps(r)
           f == r.from
           t == r.target
           x == 2 * (f * n + k * (t - f)) + n
<1>1. n \in 2..60 /\ f \in Nat /\ t \in Nat /\ k \in 0..n
  BY StepsAreBounded DEF RampRecord
<1>2. Ramp!Rounded(r, k) = x \div (2 * n)  BY DEF Ramp!Rounded
<1> HIDE DEF n, f, t
<1>3. (n - k) * f \in Nat /\ k * t \in Nat  BY <1>1
<1>4. f * n + k * (t - f) = (n - k) * f + k * t  BY <1>1
<1>5. x \in Nat /\ 2 * n \in Nat \ {0}  BY <1>1, <1>3, <1>4
<1> HIDE DEF x
<1>6. \A a \in Nat, b \in Nat \ {0} : a \div b \in Nat  OBVIOUS
<1> QED  BY <1>2, <1>5, <1>6

\* The variables of the ramps keep their shape, and a ramp is over before it has
\* made more steps than it has.
RampTypes ==
  /\ volume \in Nat
  /\ ramps \in [Calls -> RampRecord]
  /\ asking \in Seq(Calls)
  /\ rampTimer \in Calls \cup {NoCall}
  /\ wanted \in Levels \cup {NoLevel}
  /\ \A c \in Calls : IF ramps[c].at = "ramping" THEN ramps[c].ticks < Ramp!Steps(ramps[c])
                                                 ELSE ramps[c].ticks = 0

\* The call has not heard from mpv yet, or has not gone on.
Waits(c) == ramps[c].at \in {"asked", "measured"}

\* A call that waits is the only one, the field remembers the ramp that is walking,
\* and whatever is in progress goes to what was asked for last.
RampInv ==
  /\ RampTypes
  /\ \A c \in Calls : Waits(c) => asking = <<c>>
  /\ asking # <<>> => \E c \in Calls : Waits(c)
  /\ \A c \in Calls : ramps[c].at = "ramping" => rampTimer = c /\ asking = <<>>
  /\ rampTimer # NoCall => ramps[rampTimer].at = "ramping"
  /\ wanted # NoLevel =>
       /\ \A c \in Calls : ramps[c].at # "idle" => ramps[c].target = wanted
       /\ (\A c \in Calls : ramps[c].at = "idle") => volume = wanted

\* No ramp is in progress at the start.
LEMMA RampInvInit == Ramp!Init => RampInv
<1> SUFFICES ASSUME Ramp!Init PROVE RampInv  OBVIOUS
<1>1. Ramp!Idle \in RampRecord /\ Ramp!Idle.at = "idle" /\ Ramp!Idle.ticks = 0
  BY DEF Ramp!Idle, RampRecord
<1>2. \A c \in Calls : ramps[c] = Ramp!Idle  BY DEF Ramp!Init
<1>3. RampTypes  BY <1>1, <1>2, VolumesAreNumbers DEF Ramp!Init, RampTypes
<1> QED  BY <1>1, <1>2, <1>3 DEF Ramp!Init, RampInv, Waits

\* A cancelled ramp is idle, the others are as they were.
LEMMA CancelledShape ==
  ASSUME RampTypes
  PROVE  /\ Ramp!Cancelled \in [Calls -> RampRecord]
         /\ Ramp!Idle \in RampRecord /\ Ramp!Idle.at = "idle" /\ Ramp!Idle.ticks = 0
         /\ \A c \in Calls : Ramp!Cancelled[c] = IF c = rampTimer THEN Ramp!Idle ELSE ramps[c]
<1>1. Ramp!Idle \in RampRecord /\ Ramp!Idle.at = "idle" /\ Ramp!Idle.ticks = 0
  BY DEF Ramp!Idle, RampRecord
<1> QED  BY <1>1, VolumesAreNumbers DEF Ramp!Cancelled, RampTypes

\* Every step keeps the shape.
LEMMA RampTypesNext ==
  ASSUME RampTypes, [Ramp!Next]_(Ramp!vars)
  PROVE  RampTypes'
<1> USE VolumesAreNumbers
<1>1. ASSUME NEW c \in Calls, NEW v \in Levels, Ramp!SetVolume(c, v)  PROVE RampTypes'
  <2> DEFINE x == [Ramp!Idle EXCEPT !.at = "asked", !.target = v]
  <2>1. x \in RampRecord /\ x.at = "asked" /\ x.ticks = 0
    <3>1. Ramp!Idle \in RampRecord /\ Ramp!Idle.ticks = 0  BY CancelledShape
    <3>2. v \in Nat  OBVIOUS
    <3> QED  BY <3>1, <3>2 DEF RampRecord
  <2>2. ramps' = [Ramp!Cancelled EXCEPT ![c] = x] /\ asking' = Append(asking, c)
        /\ rampTimer' = NoCall /\ wanted' = v /\ volume' = volume
    BY <1>1 DEF Ramp!SetVolume
  <2> HIDE DEF x
  <2>3. ramps' \in [Calls -> RampRecord]  BY <2>1, <2>2, CancelledShape
  <2>4. \A d \in Calls : ramps'[d] = IF d = c THEN x
                                     ELSE IF d = rampTimer THEN Ramp!Idle ELSE ramps[d]
    BY <2>2, CancelledShape
  <2> QED  BY <2>1, <2>2, <2>3, <2>4, CancelledShape DEF RampTypes
<1>2. ASSUME NEW c \in Calls, Ramp!Measure(c)  PROVE RampTypes'
  <2> DEFINE x == [ramps[c] EXCEPT !.at = "measured", !.from = volume]
  <2>1. x \in RampRecord /\ x.at = "measured" /\ x.ticks = 0
    BY <1>2 DEF Ramp!Measure, RampRecord, RampTypes
  <2>2. ramps' = [ramps EXCEPT ![c] = x]  BY <1>2 DEF Ramp!Measure, RampTypes
  <2> HIDE DEF x
  <2>3. \A d \in Calls : ramps'[d] = IF d = c THEN x ELSE ramps[d]  BY <2>2 DEF RampTypes
  <2> QED  BY <1>2, <2>1, <2>2, <2>3 DEF Ramp!Measure, RampTypes
<1>3. ASSUME NEW c \in Calls, Ramp!Walk(c), ramps[c].at # "idle", asking' \in Seq(Calls)
      PROVE  RampTypes'
  <2> DEFINE r == ramps[c]
             done == r.ticks + 1 = Ramp!Steps(r)
             x == IF done THEN Ramp!Idle ELSE [r EXCEPT !.at = "ramping", !.ticks = @ + 1]
  <2>1. r \in RampRecord /\ Ramp!Steps(r) \in 2..60 /\ r.ticks + 1 \in 0..Ramp!Steps(r)
    <3>1. r \in RampRecord  BY DEF RampTypes
    <3>2. Ramp!Steps(r) \in 2..60  BY <3>1, StepsAreBounded
    <3>3. IF r.at = "ramping" THEN r.ticks < Ramp!Steps(r) ELSE r.ticks = 0  BY DEF RampTypes
    <3>4. r.ticks \in Nat  BY <3>1 DEF RampRecord
    <3> HIDE DEF r
    <3> QED  BY <3>1, <3>2, <3>3, <3>4
  <2>2. volume' \in Nat
    BY <1>3, <2>1, RoundedIsVolume DEF Ramp!Walk, RampRecord
  <2>3. x \in RampRecord
    <3>1. CASE done  BY <3>1, CancelledShape
    <3>2. CASE ~done
      <4>1. x = [r EXCEPT !.at = "ramping", !.ticks = r.ticks + 1]  BY <3>2
      <4>2. r.ticks + 1 \in 0..60  BY <2>1
      <4> HIDE DEF x, r
      <4> QED  BY <2>1, <4>1, <4>2 DEF RampRecord
    <3> QED  BY <3>1, <3>2
  <2>4. IF x.at = "ramping" THEN x.ticks < Ramp!Steps(x) ELSE x.ticks = 0
    <3>1. CASE done  BY <3>1, CancelledShape
    <3>2. CASE ~done
      <4>1. x.at = "ramping" /\ x.ticks = r.ticks + 1 /\ x.from = r.from /\ x.target = r.target
        BY <2>1, <3>2 DEF RampRecord
      <4>2. Ramp!Steps(x) = Ramp!Steps(r)  BY <4>1 DEF Ramp!Steps, Ramp!Distance
      <4> QED  BY <2>1, <3>2, <4>1, <4>2 DEF RampRecord
    <3> QED  BY <3>1, <3>2
  <2>5. ramps' = [ramps EXCEPT ![c] = x]  BY <1>3 DEF Ramp!Walk
  <2> HIDE DEF x
  <2>6. \A d \in Calls : ramps'[d] = IF d = c THEN x ELSE ramps[d]  BY <2>5 DEF RampTypes
  <2> QED  BY <1>3, <2>2, <2>3, <2>4, <2>5, <2>6 DEF Ramp!Walk, RampTypes
<1>4. ASSUME NEW c \in Calls, Ramp!Begin(c)  PROVE RampTypes'
  <2>1. asking' \in Seq(Calls)  BY <1>4 DEF Ramp!Begin, RampTypes
  <2>2. CASE Ramp!Walk(c)  BY <1>3, <1>4, <2>1, <2>2 DEF Ramp!Begin
  <2>3. CASE volume' = ramps[c].target /\ ramps' = [ramps EXCEPT ![c] = Ramp!Idle]
             /\ UNCHANGED <<rampTimer, wanted>>
    <3>1. \A d \in Calls : ramps'[d] = IF d = c THEN Ramp!Idle ELSE ramps[d]
      BY <2>3 DEF RampTypes
    <3>2. volume' \in Nat  BY <2>3 DEF RampTypes, RampRecord
    <3> QED  BY <2>1, <2>3, <3>1, <3>2, CancelledShape DEF RampTypes
  <2> QED  BY <1>4, <2>2, <2>3 DEF Ramp!Begin
<1>5. ASSUME NEW c \in Calls, Ramp!Tick(c)  PROVE RampTypes'
  BY <1>3, <1>5 DEF Ramp!Tick, RampTypes
<1>6. CASE Ramp!Stop
  BY <1>6, CancelledShape DEF Ramp!Stop, RampTypes
<1>7. CASE UNCHANGED Ramp!vars  BY <1>7 DEF Ramp!vars, RampTypes
<1> QED  BY <1>1, <1>2, <1>4, <1>5, <1>6, <1>7 DEF Ramp!Next

\* A new call comes when none waits and cancels the only ramp there is, so that
\* at most one call is ever on its way to a target.
LEMMA RampInvNext ==
  ASSUME CallsApart, RampInv, [Ramp!Next]_(Ramp!vars)
  PROVE  RampInv'
<1>0. RampTypes /\ RampTypes'  BY RampTypesNext DEF RampInv
<1> USE VolumesAreNumbers DEF Waits
<1>1. ASSUME NEW c \in Calls, NEW v \in Levels, Ramp!SetVolume(c, v)  PROVE RampInv'
  <2> DEFINE x == [Ramp!Idle EXCEPT !.at = "asked", !.target = v]
  <2>1. x.at = "asked" /\ x.target = v  BY CancelledShape, <1>0 DEF RampRecord
  <2>2. /\ ramps' = [Ramp!Cancelled EXCEPT ![c] = x] /\ asking' = Append(asking, c)
        /\ rampTimer' = NoCall /\ wanted' = v /\ volume' = volume /\ asking = <<>>
    BY <1>1 DEF Ramp!SetVolume
  <2> HIDE DEF x
  <2>3. \A d \in Calls : ramps'[d] = IF d = c THEN x
                                     ELSE IF d = rampTimer THEN Ramp!Idle ELSE ramps[d]
    BY <2>2, <1>0, CancelledShape
  <2>4. ASSUME NEW d \in Calls, d # c  PROVE ramps'[d].at = "idle"
    <3>1. CASE d = rampTimer
      BY <1>0, <2>3, <2>4, <3>1, CancelledShape
    <3>2. CASE d # rampTimer
      <4>1. ramps'[d] = ramps[d]  BY <2>3, <2>4, <3>2
      <4>2. ramps[d].at # "ramping"  BY <3>2 DEF RampInv
      <4>3. ~Waits(d)  BY <2>2 DEF RampInv
      <4>4. ramps[d] \in RampRecord  BY <1>0 DEF RampTypes
      <4> QED  BY <4>1, <4>2, <4>3, <4>4 DEF RampRecord
    <3> QED  BY <3>1, <3>2
  <2>5. asking' = <<c>>  BY <2>2
  <2> QED  BY <1>0, <2>1, <2>2, <2>3, <2>4, <2>5 DEF RampInv
<1>2. ASSUME NEW c \in Calls, Ramp!Measure(c)  PROVE RampInv'
  <2> DEFINE x == [ramps[c] EXCEPT !.at = "measured", !.from = volume]
  <2>1. x.at = "measured" /\ x.target = ramps[c].target /\ ramps[c].at = "asked"
    BY <1>0, <1>2 DEF Ramp!Measure, RampRecord, RampTypes
  <2>2. ramps' = [ramps EXCEPT ![c] = x] /\ UNCHANGED <<volume, asking, rampTimer, wanted>>
    BY <1>0, <1>2 DEF Ramp!Measure, RampTypes
  <2> HIDE DEF x
  <2>3. \A d \in Calls : ramps'[d] = IF d = c THEN x ELSE ramps[d]
    BY <1>0, <2>2 DEF RampTypes
  <2> QED  BY <1>0, <2>1, <2>2, <2>3 DEF RampInv
<1>3. ASSUME NEW c \in Calls, Ramp!Walk(c), asking' = <<>>,
             ramps[c].at = "ramping" \/ (asking = <<c>> /\ ramps[c].at = "measured")
      PROVE  RampInv'
  <2> DEFINE r == ramps[c]
             done == r.ticks + 1 = Ramp!Steps(r)
             x == IF done THEN Ramp!Idle ELSE [r EXCEPT !.at = "ramping", !.ticks = @ + 1]
  <2>1. r \in RampRecord  BY <1>0 DEF RampTypes
  <2>2. ramps' = [ramps EXCEPT ![c] = x] /\ wanted' = wanted
        /\ rampTimer' = (IF done THEN NoCall ELSE c) /\ (done => volume' = r.target)
    BY <1>3 DEF Ramp!Walk
  <2>3. \A d \in Calls : d # c => ramps[d].at = "idle"
    <3> SUFFICES ASSUME NEW d \in Calls, d # c  PROVE ramps[d].at = "idle"  OBVIOUS
    <3>1. ramps[d].at \in {"idle", "asked", "measured", "ramping"}
      BY <1>0 DEF RampTypes, RampRecord
    <3>2. ramps[d].at # "ramping"  BY <1>3 DEF RampInv
    <3>3. ~Waits(d)
      <4>1. <<d>> # <<c>> /\ <<d>> # <<>>  OBVIOUS
      <4>2. asking = <<>> \/ asking = <<c>>  BY <1>3 DEF RampInv
      <4> QED  BY <4>1, <4>2 DEF RampInv
    <3> QED  BY <3>1, <3>2, <3>3
  <2>4. IF done THEN x.at = "idle" ELSE x.at = "ramping" /\ x.target = r.target
    BY <1>0, <2>1, CancelledShape DEF RampRecord
  <2>5. \A d \in Calls : ramps'[d] = IF d = c THEN x ELSE ramps[d]
    BY <1>0, <2>2 DEF RampTypes
  <2>6. wanted # NoLevel => r.target = wanted  BY <1>3 DEF RampInv
  <2> HIDE DEF x, r, done
  <2> QED  BY <1>0, <1>3, <2>2, <2>3, <2>4, <2>5, <2>6 DEF RampInv
<1>4. ASSUME NEW c \in Calls, Ramp!Begin(c)  PROVE RampInv'
  <2>1. asking = <<c>> /\ asking' = <<>> /\ ramps[c].at = "measured"
    BY <1>4 DEF Ramp!Begin, RampInv
  <2>2. CASE Ramp!Walk(c)  BY <1>3, <2>1, <2>2
  <2>3. CASE volume' = ramps[c].target /\ ramps' = [ramps EXCEPT ![c] = Ramp!Idle]
             /\ UNCHANGED <<rampTimer, wanted>>
    <3>1. \A d \in Calls : ramps'[d] = IF d = c THEN Ramp!Idle ELSE ramps[d]
      BY <1>0, <2>3 DEF RampTypes
    <3>2. \A d \in Calls : d # c => ramps[d].at = "idle"
      BY <1>0, <2>1 DEF RampInv, RampTypes, RampRecord
    <3>3. \A d \in Calls : ramps'[d].at = "idle"  BY <1>0, <3>1, <3>2, CancelledShape
    <3>4. rampTimer' = NoCall  BY <2>1, <2>3, <1>0 DEF RampInv, RampTypes
    <3> QED  BY <1>0, <2>1, <2>3, <3>3, <3>4 DEF RampInv
  <2> QED  BY <1>4, <2>2, <2>3 DEF Ramp!Begin
<1>5. ASSUME NEW c \in Calls, Ramp!Tick(c)  PROVE RampInv'
  <2>1. ramps[c].at = "ramping" /\ Ramp!Walk(c) /\ asking' = asking  BY <1>5 DEF Ramp!Tick
  <2>2. asking = <<>>  BY <2>1 DEF RampInv
  <2>3. asking' = <<>>  BY <2>1, <2>2
  <2> QED  BY <1>3, <2>1, <2>3
<1>6. CASE Ramp!Stop
  <2>1. \A d \in Calls : ramps'[d] = IF d = rampTimer THEN Ramp!Idle ELSE ramps[d]
    BY <1>0, <1>6, CancelledShape DEF Ramp!Stop
  <2>2. /\ rampTimer' = NoCall /\ wanted' = NoLevel /\ asking' = asking
    BY <1>6 DEF Ramp!Stop
  <2>3. ASSUME NEW d \in Calls
        PROVE  ramps'[d].at # "ramping" /\ (Waits(d)' => asking = <<d>>)
               /\ (Waits(d) => Waits(d)')
    <3>1. CASE d = rampTimer
      BY <1>0, <2>1, <3>1, CancelledShape DEF RampInv
    <3>2. CASE d # rampTimer
      BY <2>1, <3>2 DEF RampInv
    <3> QED  BY <3>1, <3>2
  <2> QED  BY <1>0, <2>2, <2>3 DEF RampInv
<1>7. CASE UNCHANGED Ramp!vars  BY <1>0, <1>7 DEF Ramp!vars, RampInv
<1> QED  BY <1>1, <1>2, <1>4, <1>5, <1>6, <1>7 DEF Ramp!Next

\* Once no ramp is left mpv plays at the volume asked for last, for any targets and
\* any number of calls, as long as no call comes while another waits for mpv's answer
\* (mpv.ts, setVolumeSmooth).
THEOREM RampsReachTheLastTarget ==
  ASSUME CallsApart
  PROVE  ProcessSpec => []LastTargetWins
<1>1. ProcessInit => RampInv  BY RampInvInit DEF ProcessInit
<1>2. RampInv /\ [ProcessNext]_allVars => RampInv'  BY EachPartSteps, RampInvNext
<1>3. RampInv => LastTargetWins  BY DEF RampInv, LastTargetWins, Ramp!LastTargetWins
<1> QED  BY <1>1, <1>2, <1>3, PTL DEF ProcessSpec
-----------------------------------------------------------------------------
(***************************************************************************)
(* PlayerAgent: the shape of its variables, and what encounters exclude.   *)
(***************************************************************************)
Stages == {"none", "resolveLoad", "loadFile", "resolvePrefetch", "append"}

Commands == 1..MaxCommands

Job == [at : Stages, track : Agent!Optional]
Entry == [track : Agent!Optional, from : Commands]
State == [id : Agent!Optional, buffered : Agent!Optional,
          status : {"stopped", "playing", "paused"}, moved : BOOLEAN]
Machine == [now : Agent!Optional, entries : Seq(Entry), paused : BOOLEAN, moved : BOOLEAN]
Wish == [n : Nat, track : Agent!Optional, watched : BOOLEAN]
EndEvent == [reason : {"eof", "error"}, of : Nat, to : Agent!Optional]

Loads(n) == jobs[n].at \in {"resolveLoad", "loadFile"}
Prefetches(n) == jobs[n].at \in {"resolvePrefetch", "append"}

\* An event on its way is of a load or stop that has been carried out, if of any.
EndsKnown ==
  /\ ends \in Seq(EndEvent)
  /\ \A k \in DOMAIN ends : ends[k].of # 0 =>
       ends[k].of <= arrived /\ ends[k].of \in Commands /\ jobs[ends[k].of].at = "none"

\* The shape of the variables of the command handlers.
AgentTypes ==
  /\ jobs \in [Commands -> Job]
  /\ arrived \in 0..MaxCommands
  /\ \A n \in Commands : n > arrived => jobs[n].at = "none"
  /\ ps \in State
  /\ mpv \in Machine
  /\ \A k \in DOMAIN mpv.entries : mpv.entries[k].from <= arrived
  /\ mpv.now = NoTrack => ~mpv.moved
  /\ watch \in Agent!Optional
  /\ dropped \in 0..arrived
  /\ wish \in Wish
  /\ wish.n <= arrived
  /\ wish.n # 0 => ~Prefetches(wish.n)
  /\ EndsKnown

\* Nothing has happened at the start.
LEMMA AgentTypesInit == Agent!Init => AgentTypes
<1> SUFFICES ASSUME Agent!Init PROVE AgentTypes  OBVIOUS
<1> USE CommandBound DEF Agent!Init, Agent!Optional
<1>1. jobs \in [Commands -> Job] /\ \A n \in Commands : jobs[n].at = "none"
  BY DEF Agent!NoJob, Job, Stages, Commands
<1>2. ps \in State  BY DEF State
<1>3. mpv \in Machine /\ mpv.entries = <<>> /\ ~mpv.moved
  <2>1. <<>> \in Seq(Entry)  OBVIOUS
  <2> QED  BY <2>1 DEF Machine
<1>4. wish \in Wish /\ wish.n = 0  BY DEF Agent!NoWish, Wish
<1>5. EndsKnown
  <2>1. <<>> \in Seq(EndEvent) /\ DOMAIN <<>> = {}  OBVIOUS
  <2> QED  BY <2>1 DEF EndsKnown
<1> QED  BY <1>1, <1>2, <1>3, <1>4, <1>5 DEF AgentTypes, Commands

\* The head of mpv's playlist plays next, the rest stays.
LEMMA NextEntryShape ==
  ASSUME AgentTypes
  PROVE  /\ Agent!NextEntry \in Machine
         /\ Agent!NextEntry.moved <=> FALSE
         /\ mpv.entries = <<>> => /\ Agent!NextEntry.now = NoTrack
                                  /\ Agent!NextEntry.entries = <<>>
         /\ mpv.entries # <<>> => /\ Agent!NextEntry.now = mpv.entries[1].track
                                  /\ Agent!NextEntry.entries = Tail(mpv.entries)
<1> USE DEF AgentTypes
<1>1. CASE mpv.entries = <<>>
  BY <1>1 DEF Agent!NextEntry, Machine, Agent!Optional
<1>2. CASE mpv.entries # <<>>
  <2>1. /\ mpv.entries \in Seq(Entry) /\ Head(mpv.entries) = mpv.entries[1]
        /\ Tail(mpv.entries) \in Seq(Entry) /\ Head(mpv.entries) \in Entry
    BY <1>2 DEF Machine
  <2>2. Head(mpv.entries).track \in Agent!Optional  BY <2>1 DEF Entry
  <2> QED  BY <1>2, <2>1, <2>2 DEF Agent!NextEntry, Machine
<1> QED  BY <1>1, <1>2
\* What a step makes of a handler, of the state, of mpv and of the wish.
JobBecomes(n, at, track) ==
  /\ jobs' \in [Commands -> Job]
  /\ jobs'[n].at = at /\ jobs'[n].track = track
  /\ \A m \in Commands : m # n => jobs'[m] = jobs[m]

StateBecomes(id, buffered) ==
  ps' \in State /\ ps'.id = id /\ ps'.buffered = buffered

MachineBecomes(now, entries, moved) ==
  /\ mpv' \in Machine /\ mpv'.now = now /\ mpv'.entries = entries
  /\ mpv'.moved <=> moved

WishBecomes(n, track) ==
  wish' \in Wish /\ wish'.n = n /\ wish'.track = track

\* A handler moves on and the others stay where they are.
LEMMA OneHandlerMoves ==
  ASSUME AgentTypes, NEW n \in Commands, NEW x \in Job, jobs' = [jobs EXCEPT ![n] = x]
  PROVE  JobBecomes(n, x.at, x.track)
BY DEF AgentTypes, JobBecomes

\* The next command is here and its handler is free.
Comes(y) ==
  /\ arrived' = arrived + 1 /\ arrived' \in Commands
  /\ jobs[arrived'].at = "none"
  /\ Agent!Meets(y)

\* The steps of the agent, as far as the invariants below tell them apart.
LoadStep(t) ==
  /\ Comes("load") /\ JobBecomes(arrived', "resolveLoad", t)
  /\ StateBecomes(ps.id, ps.buffered) /\ MachineBecomes(mpv.now, mpv.entries, mpv.moved)
  /\ WishBecomes(arrived', t) /\ watch' = t /\ UNCHANGED <<ends, dropped>>

PrefetchStep(t) ==
  /\ Comes("prefetch") /\ JobBecomes(arrived', "resolvePrefetch", t)
  /\ UNCHANGED <<ps, mpv, ends, watch, dropped, wish>>

ClearStep ==
  /\ Comes("clear") /\ UNCHANGED <<jobs, ends, watch, wish>>
  /\ StateBecomes(ps.id, NoTrack) /\ MachineBecomes(mpv.now, <<>>, mpv.moved)
  /\ dropped' = arrived'

StopStep ==
  /\ Comes("stop") /\ UNCHANGED <<jobs, ends, watch>>
  /\ StateBecomes(ps.id, NoTrack) /\ MachineBecomes(NoTrack, <<>>, FALSE)
  /\ WishBecomes(arrived', NoTrack) /\ dropped' = arrived'

ResolvedStep(n) ==
  /\ jobs[n].at = "resolveLoad" /\ JobBecomes(n, "loadFile", jobs[n].track)
  /\ StateBecomes(jobs[n].track, NoTrack) /\ MachineBecomes(mpv.now, <<>>, mpv.moved)
  /\ UNCHANGED <<arrived, ends, watch, dropped, wish, met>>

FileStep(n) ==
  /\ jobs[n].at = "loadFile" /\ JobBecomes(n, "none", NoTrack)
  /\ MachineBecomes(jobs[n].track, <<>>, FALSE) /\ WishBecomes(wish.n, wish.track)
  /\ dropped' = n /\ UNCHANGED <<arrived, ps, ends, watch, met>>

FailStep(n) ==
  /\ jobs[n].at \in {"resolveLoad", "resolvePrefetch"} /\ JobBecomes(n, "none", NoTrack)
  /\ IF jobs[n].at = "resolveLoad" /\ wish.n = n THEN WishBecomes(0, NoTrack) ELSE wish' = wish
  /\ UNCHANGED <<arrived, ps, mpv, ends, watch, dropped, met>>

RefuseStep(n) ==
  /\ jobs[n].at = "loadFile" /\ JobBecomes(n, "none", NoTrack) /\ Agent!Meets("refusal")
  /\ IF wish.n = n THEN WishBecomes(0, NoTrack) ELSE wish' = wish
  /\ UNCHANGED <<arrived, ps, mpv, ends, watch, dropped>>

AppendStep(n) ==
  /\ jobs[n].at = "resolvePrefetch" /\ JobBecomes(n, "append", jobs[n].track)
  /\ IF PrefetchEnabled
     THEN MachineBecomes(mpv.now,
                         Append(mpv.entries, [track |-> jobs[n].track, from |-> n]), mpv.moved)
     ELSE mpv' = mpv
  /\ UNCHANGED <<arrived, ps, ends, watch, dropped, wish, met>>

NoteStep(n) ==
  /\ jobs[n].at = "append" /\ JobBecomes(n, "none", NoTrack)
  /\ StateBecomes(ps.id, jobs[n].track)
  /\ UNCHANGED <<arrived, mpv, ends, watch, dropped, wish, met>>

\* The end-file event of a track that ends now.
EventOf(reason) ==
  [reason |-> reason, of |-> IF Agent!Granted THEN wish.n ELSE 0, to |-> Agent!NextEntry.now]

\* mpv goes on, and an event is on its way.
GoesOn(y, reason) ==
  /\ Agent!Meets(y) /\ mpv.now # NoTrack
  /\ MachineBecomes(Agent!NextEntry.now, Agent!NextEntry.entries, FALSE)
  /\ ends' = Append(ends, EventOf(reason))
  /\ UNCHANGED <<jobs, arrived, ps, watch, dropped, wish>>

EofStep == GoesOn("end", "eof")
BreakStep == GoesOn("break", "error")

\* The agent handles an event: the wish ends with what it played.
EndStep ==
  /\ ends # <<>> /\ ends' = Tail(ends) /\ watch' = NoTrack
  /\ IF Head(ends).of = wish.n /\ wish.n # 0 THEN WishBecomes(0, NoTrack) ELSE wish' = wish
  /\ StateBecomes(IF Head(ends).reason = "eof" /\ ps.buffered # NoTrack THEN ps.buffered ELSE ps.id,
                  NoTrack)
  /\ UNCHANGED <<jobs, arrived, mpv, dropped, met>>

\* A pause, a resume, a report, the watchdog, or nothing at all.
OtherStep ==
  /\ arrived' \in {arrived, arrived + 1} \cap (0..MaxCommands)
  /\ StateBecomes(ps.id, ps.buffered)
  /\ mpv.now # NoTrack \/ (mpv'.moved => mpv.moved)
  /\ MachineBecomes(mpv.now, mpv.entries, mpv'.moved)
  /\ WishBecomes(wish.n, wish.track)
  /\ watch' \in {watch, NoTrack} /\ met \subseteq met' /\ UNCHANGED <<jobs, ends, dropped>>

\* A new command finds its handler free.
LEMMA NextCommand ==
  ASSUME AgentTypes, NEW y, Agent!Arrive(y)
  PROVE  Comes(y)
BY CommandBound DEF AgentTypes, Agent!Arrive, Commands, Comes

\* What the commands do.
LEMMA CommandSteps ==
  ASSUME AgentTypes
  PROVE  /\ \A t \in Tracks : (Agent!Load(t) => LoadStep(t)) /\ (Agent!Prefetch(t) => PrefetchStep(t))
         /\ Agent!PrefetchClear => ClearStep
         /\ Agent!Stop => StopStep
         /\ Agent!Pause => OtherStep
         /\ Agent!Resume => OtherStep
<1>0. /\ ps \in State /\ mpv \in Machine /\ wish \in Wish /\ jobs \in [Commands -> Job]
      /\ NoTrack \in Agent!Optional /\ \A t \in Tracks : t \in Agent!Optional
      /\ <<>> \in Seq(Entry)
  BY DEF AgentTypes, Agent!Optional
<1>1. ASSUME NEW t \in Tracks, Agent!Load(t)
      PROVE  LoadStep(t)
  <2> DEFINE x == [at |-> "resolveLoad", track |-> t]
  <2>1. x \in Job  BY <1>0 DEF Job, Stages
  <2>2. JobBecomes(arrived', x.at, x.track)
    BY <1>1, <2>1, OneHandlerMoves, NextCommand DEF Agent!Load, Comes
  <2>3. StateBecomes(ps.id, ps.buffered)  BY <1>0, <1>1 DEF Agent!Load, State, StateBecomes
  <2>4. MachineBecomes(mpv.now, mpv.entries, mpv.moved)
    BY <1>0, <1>1 DEF Agent!Load, Machine, MachineBecomes
  <2>5. wish' = [Agent!NoWish EXCEPT !.n = arrived', !.track = t] /\ arrived' \in Nat
    BY <1>1, NextCommand DEF Agent!Load, Comes, Commands
  <2>6. WishBecomes(arrived', t)
    <3>1. Agent!NoWish \in Wish  BY <1>0 DEF Agent!NoWish, Wish
    <3> QED  BY <1>0, <2>5, <3>1 DEF Wish, WishBecomes
  <2> QED  BY <1>1, <2>2, <2>3, <2>4, <2>6, NextCommand DEF Agent!Load, LoadStep
<1>2. ASSUME NEW t \in Tracks, Agent!Prefetch(t)
      PROVE  PrefetchStep(t)
  <2> DEFINE x == [at |-> "resolvePrefetch", track |-> t]
  <2>1. x \in Job  BY <1>0 DEF Job, Stages
  <2>2. JobBecomes(arrived', x.at, x.track)
    BY <1>2, <2>1, OneHandlerMoves, NextCommand DEF Agent!Prefetch, Comes
  <2> QED  BY <1>2, <2>2, NextCommand DEF Agent!Prefetch, PrefetchStep
<1>3. ASSUME Agent!PrefetchClear
      PROVE  ClearStep
  <2>1. StateBecomes(ps.id, NoTrack)
    BY <1>0, <1>3 DEF Agent!PrefetchClear, Agent!ForgetEntries, State, StateBecomes
  <2>2. MachineBecomes(mpv.now, <<>>, mpv.moved)
    BY <1>0, <1>3 DEF Agent!PrefetchClear, Agent!ForgetEntries, Machine, MachineBecomes
  <2> QED
    BY <1>3, <2>1, <2>2, NextCommand DEF Agent!PrefetchClear, Agent!ForgetEntries, ClearStep
<1>4. ASSUME Agent!Stop
      PROVE  StopStep
  <2>1. StateBecomes(ps.id, NoTrack)
    BY <1>0, <1>4 DEF Agent!Stop, State, StateBecomes
  <2>2. MachineBecomes(NoTrack, <<>>, FALSE)
    BY <1>0, <1>4 DEF Agent!Stop, Machine, MachineBecomes
  <2>3. wish' = [Agent!NoWish EXCEPT !.n = arrived'] /\ arrived' \in Nat
    BY <1>4, NextCommand DEF Agent!Stop, Comes, Commands
  <2>4. WishBecomes(arrived', NoTrack)
    <3>1. Agent!NoWish \in Wish /\ Agent!NoWish.track = NoTrack  BY <1>0 DEF Agent!NoWish, Wish
    <3> QED  BY <2>3, <3>1 DEF Wish, WishBecomes
  <2> QED  BY <1>4, <2>1, <2>2, <2>4, NextCommand DEF Agent!Stop, StopStep
<1>5. ASSUME Agent!Pause
      PROVE  OtherStep
  <2>1. StateBecomes(ps.id, ps.buffered)
    BY <1>0, <1>5 DEF Agent!Pause, State, StateBecomes
  <2>2. MachineBecomes(mpv.now, mpv.entries, mpv.moved)
    BY <1>0, <1>5 DEF Agent!Pause, Machine, MachineBecomes
  <2>3. WishBecomes(wish.n, wish.track)
    BY <1>0, <1>5 DEF Agent!Pause, Wish, WishBecomes
  <2>4. Comes("pause")  BY <1>5, NextCommand DEF Agent!Pause
  <2>5. met \subseteq met' /\ arrived' \in {arrived, arrived + 1} \cap (0..MaxCommands)
    BY <2>4 DEF Comes, Agent!Meets, Commands
  <2> QED  BY <1>5, <2>1, <2>2, <2>3, <2>5 DEF Agent!Pause, OtherStep, MachineBecomes
<1>6. ASSUME Agent!Resume
      PROVE  OtherStep
  <2>1. StateBecomes(ps.id, ps.buffered)
    BY <1>0, <1>6 DEF Agent!Resume, State, StateBecomes
  <2>2. MachineBecomes(mpv.now, mpv.entries, mpv.moved)
    BY <1>0, <1>6 DEF Agent!Resume, Machine, MachineBecomes
  <2>3. WishBecomes(wish.n, wish.track)  BY <1>0, <1>6 DEF Agent!Resume, WishBecomes
  <2>4. Comes("resume")  BY <1>6, NextCommand DEF Agent!Resume
  <2>5. met \subseteq met' /\ arrived' \in {arrived, arrived + 1} \cap (0..MaxCommands)
    BY <2>4 DEF Comes, Agent!Meets, Commands
  <2> QED  BY <1>6, <2>1, <2>2, <2>3, <2>5 DEF Agent!Resume, OtherStep, MachineBecomes
<1> QED  BY <1>1, <1>2, <1>3, <1>4, <1>5, <1>6

\* What the handlers do.
LEMMA HandlerSteps ==
  ASSUME AgentTypes, NEW n \in Commands
  PROVE  /\ Agent!LoadResolved(n) => ResolvedStep(n)
         /\ Agent!LoadFile(n) => FileStep(n)
         /\ Agent!LoadGivesUp(n) => RefuseStep(n)
         /\ Agent!ResolveFails(n) => FailStep(n)
         /\ Agent!PrefetchResolved(n) => AppendStep(n)
         /\ Agent!PrefetchDone(n) => NoteStep(n)
<1>0. /\ ps \in State /\ mpv \in Machine /\ wish \in Wish /\ jobs \in [Commands -> Job]
      /\ NoTrack \in Agent!Optional /\ <<>> \in Seq(Entry)
      /\ jobs[n] \in Job /\ jobs[n].at \in Stages /\ jobs[n].track \in Agent!Optional
  BY DEF AgentTypes, Agent!Optional, Job
<1>1. \A a \in Stages : [jobs[n] EXCEPT !.at = a] \in Job /\ [jobs[n] EXCEPT !.at = a].at = a
                        /\ [jobs[n] EXCEPT !.at = a].track = jobs[n].track
  BY <1>0 DEF Job
<1>2. Agent!NoJob \in Job /\ Agent!NoJob.at = "none" /\ Agent!NoJob.track = NoTrack
  BY <1>0 DEF Agent!NoJob, Job, Stages
<1>3. Agent!NoWish \in Wish /\ Agent!NoWish.n = 0 /\ Agent!NoWish.track = NoTrack
  BY <1>0 DEF Agent!NoWish, Wish
<1>4. \A a \in Stages : jobs' = [jobs EXCEPT ![n].at = a] => JobBecomes(n, a, jobs[n].track)
  <2> SUFFICES ASSUME NEW a \in Stages, jobs' = [jobs EXCEPT ![n].at = a]
               PROVE  JobBecomes(n, a, jobs[n].track)
    OBVIOUS
  <2> DEFINE x == [jobs[n] EXCEPT !.at = a]
  <2>1. x \in Job /\ x.at = a /\ x.track = jobs[n].track  BY <1>1
  <2>2. jobs' = [jobs EXCEPT ![n] = x]  BY <1>0
  <2> HIDE DEF x
  <2> QED  BY <2>1, <2>2, OneHandlerMoves
<1>5. jobs' = [jobs EXCEPT ![n] = Agent!NoJob] => JobBecomes(n, "none", NoTrack)
  BY <1>2, OneHandlerMoves
<1>6. ASSUME Agent!LoadResolved(n)
      PROVE  /\ JobBecomes(n, "loadFile", jobs[n].track)
             /\ StateBecomes(jobs[n].track, NoTrack) /\ MachineBecomes(mpv.now, <<>>, mpv.moved)
  <2>1. JobBecomes(n, "loadFile", jobs[n].track)
    BY <1>4, <1>6 DEF Agent!LoadResolved, Stages
  <2>2. StateBecomes(jobs[n].track, NoTrack)
    BY <1>0, <1>6 DEF Agent!LoadResolved, Agent!SetTrack, State, StateBecomes
  <2>3. MachineBecomes(mpv.now, <<>>, mpv.moved)
    BY <1>0, <1>6 DEF Agent!LoadResolved, Machine, MachineBecomes
  <2> QED  BY <2>1, <2>2, <2>3
<1>7. ASSUME Agent!LoadFile(n)
      PROVE  /\ JobBecomes(n, "none", NoTrack) /\ MachineBecomes(jobs[n].track, <<>>, FALSE)
             /\ WishBecomes(wish.n, wish.track)
  <2>1. JobBecomes(n, "none", NoTrack)  BY <1>5, <1>7 DEF Agent!LoadFile
  <2>2. MachineBecomes(jobs[n].track, <<>>, FALSE)
    BY <1>0, <1>7 DEF Agent!LoadFile, Machine, MachineBecomes
  <2>3. WishBecomes(wish.n, wish.track)
    <3>1. CASE wish' = wish  BY <1>0, <3>1 DEF WishBecomes
    <3>2. CASE wish' = [wish EXCEPT !.watched = (watch = wish.track /\ ~mpv.paused /\ ends = <<>>)]
      <4> DEFINE w == (watch = wish.track /\ ~mpv.paused /\ ends = <<>>)
      <4>1. w \in BOOLEAN  OBVIOUS
      <4> HIDE DEF w
      <4> QED  BY <1>0, <3>2, <4>1 DEF Wish, WishBecomes, w
    <3> QED  BY <1>7, <3>1, <3>2 DEF Agent!LoadFile, Agent!Watched
  <2> QED  BY <2>1, <2>2, <2>3
<1>8. ASSUME Agent!ResolveFails(n)
      PROVE  /\ JobBecomes(n, "none", NoTrack)
             /\ IF jobs[n].at = "resolveLoad" /\ wish.n = n THEN WishBecomes(0, NoTrack)
                ELSE wish' = wish
  <2>1. JobBecomes(n, "none", NoTrack)  BY <1>5, <1>8 DEF Agent!ResolveFails
  <2>2. wish' = IF jobs[n].at = "resolveLoad" /\ wish.n = n THEN Agent!NoWish ELSE wish
    BY <1>8 DEF Agent!ResolveFails
  <2> QED  BY <1>3, <2>1, <2>2 DEF WishBecomes
<1>9. ASSUME Agent!PrefetchResolved(n)
      PROVE  /\ JobBecomes(n, "append", jobs[n].track)
             /\ PrefetchEnabled =>
                  MachineBecomes(mpv.now,
                                 Append(mpv.entries, [track |-> jobs[n].track, from |-> n]), mpv.moved)
  <2>1. JobBecomes(n, "append", jobs[n].track)
    BY <1>4, <1>9 DEF Agent!PrefetchResolved, Stages
  <2> DEFINE e == [track |-> jobs[n].track, from |-> n]
  <2>2. e \in Entry  BY <1>0 DEF Entry
  <2>3. Append(mpv.entries, e) \in Seq(Entry)  BY <1>0, <2>2 DEF Machine
  <2>4. PrefetchEnabled => mpv' = [mpv EXCEPT !.entries = Append(mpv.entries, e)]
    BY <1>0, <1>9 DEF Agent!PrefetchResolved, Machine
  <2> HIDE DEF e
  <2>5. PrefetchEnabled => MachineBecomes(mpv.now, Append(mpv.entries, e), mpv.moved)
    BY <1>0, <2>3, <2>4 DEF Machine, MachineBecomes
  <2> QED  BY <2>1, <2>5 DEF e
<1>10. ASSUME Agent!PrefetchDone(n)
       PROVE  JobBecomes(n, "none", NoTrack) /\ StateBecomes(ps.id, jobs[n].track)
  <2>1. JobBecomes(n, "none", NoTrack)  BY <1>5, <1>10 DEF Agent!PrefetchDone
  <2>2. StateBecomes(ps.id, jobs[n].track)
    BY <1>0, <1>10 DEF Agent!PrefetchDone, State, StateBecomes
  <2> QED  BY <2>1, <2>2
<1>11. ASSUME Agent!LoadGivesUp(n)
       PROVE  /\ JobBecomes(n, "none", NoTrack)
              /\ IF wish.n = n THEN WishBecomes(0, NoTrack) ELSE wish' = wish
  <2>1. JobBecomes(n, "none", NoTrack)  BY <1>5, <1>11 DEF Agent!LoadGivesUp
  <2>2. wish' = IF wish.n = n THEN Agent!NoWish ELSE wish  BY <1>11 DEF Agent!LoadGivesUp
  <2> QED  BY <1>3, <2>1, <2>2 DEF WishBecomes
<1> QED
  <2>1. Agent!LoadResolved(n) => ResolvedStep(n)
    BY <1>6 DEF Agent!LoadResolved, Agent!history, ResolvedStep
  <2>2. Agent!LoadFile(n) => FileStep(n)
    BY <1>7 DEF Agent!LoadFile, Agent!history, FileStep
  <2>3. Agent!ResolveFails(n) => FailStep(n)
    BY <1>8 DEF Agent!ResolveFails, Agent!history, FailStep
  <2>4. Agent!PrefetchResolved(n) => AppendStep(n)
    BY <1>9 DEF Agent!PrefetchResolved, Agent!history, AppendStep
  <2>5. Agent!PrefetchDone(n) => NoteStep(n)
    BY <1>10 DEF Agent!PrefetchDone, Agent!history, NoteStep
  <2>6. Agent!LoadGivesUp(n) => RefuseStep(n)
    BY <1>11 DEF Agent!LoadGivesUp, RefuseStep
  <2> QED  BY <2>1, <2>2, <2>3, <2>4, <2>5, <2>6

\* What mpv and the timers do.
LEMMA MpvSteps ==
  ASSUME AgentTypes
  PROVE  /\ Agent!TrackIsOver => EofStep
         /\ Agent!StreamBreaks => BreakStep
         /\ Agent!EndFile => EndStep
         /\ Agent!Moves => OtherStep
         /\ Agent!Tick => OtherStep
         /\ Agent!WatchdogFires => OtherStep
         /\ UNCHANGED Agent!vars => OtherStep
<1>0. /\ ps \in State /\ mpv \in Machine /\ wish \in Wish /\ NoTrack \in Agent!Optional
  BY DEF AgentTypes, Agent!Optional
<1>1. Agent!NoWish \in Wish /\ Agent!NoWish.n = 0 /\ Agent!NoWish.track = NoTrack
  BY <1>0 DEF Agent!NoWish, Wish
<1>2. Agent!EndHandled =>
        IF Head(ends).of = wish.n /\ wish.n # 0 THEN WishBecomes(0, NoTrack) ELSE wish' = wish
  BY <1>1 DEF Agent!EndHandled, WishBecomes
<1>3. mpv' = Agent!NextEntry => MachineBecomes(Agent!NextEntry.now, Agent!NextEntry.entries, FALSE)
  BY NextEntryShape DEF MachineBecomes
<1>4. Agent!Moves => MachineBecomes(mpv.now, mpv.entries, TRUE)
  BY <1>0 DEF Agent!Moves, Machine, MachineBecomes
<1>5. Agent!EndFile =>
        StateBecomes(IF Head(ends).reason = "eof" /\ ps.buffered # NoTrack
                     THEN ps.buffered ELSE ps.id, NoTrack)
  <2> SUFFICES ASSUME Agent!EndFile
               PROVE  StateBecomes(IF Head(ends).reason = "eof" /\ ps.buffered # NoTrack
                                   THEN ps.buffered ELSE ps.id, NoTrack)
    OBVIOUS
  <2>1. CASE Head(ends).reason = "eof" /\ ps.buffered # NoTrack
    <3>1. ps' = Agent!SetTrack(ps.buffered, NoTrack)  BY <2>1 DEF Agent!EndFile
    <3> QED  BY <1>0, <2>1, <3>1 DEF Agent!SetTrack, State, StateBecomes
  <2>2. CASE ~(Head(ends).reason = "eof" /\ ps.buffered # NoTrack)
    <3>1. ps' = [ps EXCEPT !.buffered = NoTrack]  BY <2>2 DEF Agent!EndFile
    <3> QED  BY <1>0, <2>2, <3>1 DEF State, StateBecomes
  <2> QED  BY <2>1, <2>2
<1>6. \A reason : Agent!GoesOn(reason) => ends' = Append(ends, EventOf(reason))
  BY DEF Agent!GoesOn, EventOf
<1>7. Agent!Tick => StateBecomes(ps.id, ps.buffered)
  <2> SUFFICES ASSUME Agent!Tick PROVE StateBecomes(ps.id, ps.buffered)  OBVIOUS
  <2> DEFINE m == IF mpv.now # NoTrack THEN mpv.moved ELSE ps.moved
  <2>1. m \in BOOLEAN  BY <1>0 DEF State, Machine
  <2>2. ps' = [ps EXCEPT !.moved = m]  BY DEF Agent!Tick
  <2> HIDE DEF m
  <2> QED  BY <1>0, <2>1, <2>2 DEF State, StateBecomes
<1>8. arrived' = arrived => arrived' \in {arrived, arrived + 1} \cap (0..MaxCommands)
  BY DEF AgentTypes
<1>9. /\ ps' = ps => StateBecomes(ps.id, ps.buffered)
      /\ mpv' = mpv => MachineBecomes(mpv.now, mpv.entries, mpv'.moved) /\ (mpv'.moved => mpv.moved)
      /\ wish' = wish => WishBecomes(wish.n, wish.track)
  BY <1>0 DEF StateBecomes, MachineBecomes, WishBecomes
<1>10. Agent!TrackIsOver => EofStep
  BY <1>3, <1>6 DEF Agent!TrackIsOver, Agent!GoesOn, EofStep, GoesOn
<1>11. Agent!StreamBreaks => BreakStep
  BY <1>3, <1>6 DEF Agent!StreamBreaks, Agent!GoesOn, BreakStep, GoesOn
<1>16. Agent!EndFile => EndStep
  BY <1>2, <1>5 DEF Agent!EndFile, Agent!EndHandled, EndStep
<1>12. Agent!Moves => OtherStep
  BY <1>4, <1>8, <1>9 DEF Agent!Moves, Agent!history, OtherStep, MachineBecomes
<1>13. Agent!Tick => OtherStep
  BY <1>7, <1>8, <1>9 DEF Agent!Tick, Agent!history, OtherStep
<1>14. Agent!WatchdogFires => OtherStep
  BY <1>8, <1>9 DEF Agent!WatchdogFires, OtherStep
<1>15. UNCHANGED Agent!vars => OtherStep
  BY <1>8, <1>9 DEF Agent!vars, OtherStep
<1> QED  BY <1>10, <1>11, <1>12, <1>13, <1>14, <1>15, <1>16

\* Every step of the agent is one of these.
LEMMA AgentSteps ==
  ASSUME AgentTypes, [Agent!Next]_(Agent!vars)
  PROVE  \/ \E t \in Tracks : LoadStep(t) \/ PrefetchStep(t)
         \/ ClearStep \/ StopStep \/ EofStep \/ BreakStep \/ EndStep \/ OtherStep
         \/ \E n \in Commands : \/ ResolvedStep(n) \/ FileStep(n) \/ RefuseStep(n)
                                \/ FailStep(n) \/ AppendStep(n) \/ NoteStep(n)
<1>1. DOMAIN jobs = Commands  BY DEF AgentTypes
<1> QED
  BY <1>1, CommandSteps, HandlerSteps, MpvSteps DEF Agent!Next, Agent!Command, Agent!Handler

\* A playlist keeps its bound when an entry is appended or the first one goes.
LEMMA EntriesKeepBound ==
  ASSUME NEW b \in Nat, NEW q \in Seq(Entry), \A k \in DOMAIN q : q[k].from <= b
  PROVE  /\ \A e \in Entry : e.from <= b => \A k \in DOMAIN Append(q, e) : Append(q, e)[k].from <= b
         /\ q # <<>> => \A k \in DOMAIN Tail(q) : Tail(q)[k].from <= b
OBVIOUS

\* An event that is of a command carried out stays so, while handlers move on that are
\* in progress and commands come.
LEMMA EventsStayKnown ==
  ASSUME AgentTypes, NEW n, JobBecomes(n, jobs'[n].at, jobs'[n].track),
         arrived' \in Nat, arrived' >= arrived, n > arrived \/ jobs[n].at # "none", n \in Nat,
         ends' = ends
  PROVE  EndsKnown'
<1>1. EndsKnown  BY DEF AgentTypes
<1>2. arrived \in Nat  BY CommandBound DEF AgentTypes
<1> SUFFICES ASSUME NEW k \in DOMAIN ends, ends[k].of # 0
             PROVE  ends[k].of <= arrived' /\ ends[k].of \in Commands /\ jobs'[ends[k].of].at = "none"
  BY <1>1 DEF EndsKnown
<1>3. ends[k].of <= arrived /\ ends[k].of \in Commands /\ jobs[ends[k].of].at = "none"
  BY <1>1 DEF EndsKnown
<1>4. ends[k].of \in Nat  BY <1>3 DEF Commands
<1>5. ends[k].of # n  BY <1>2, <1>3, <1>4
<1> QED  BY <1>2, <1>3, <1>4, <1>5 DEF JobBecomes

\* An event more, or the first one gone, and the others stay known.
LEMMA EventsKeepKnown ==
  ASSUME AgentTypes, UNCHANGED <<jobs, arrived>>,
         \/ ends' = ends
         \/ ends # <<>> /\ ends' = Tail(ends)
         \/ \E e \in EndEvent :
              /\ ends' = Append(ends, e)
              /\ e.of # 0 => e.of <= arrived /\ e.of \in Commands /\ jobs[e.of].at = "none"
  PROVE  EndsKnown'
<1> DEFINE Known(e) == e.of # 0 => e.of <= arrived /\ e.of \in Commands /\ jobs[e.of].at = "none"
<1>1. ends \in Seq(EndEvent) /\ \A k \in DOMAIN ends : Known(ends[k])
  BY DEF AgentTypes, EndsKnown
<1>2. ASSUME ends' \in Seq(EndEvent), \A k \in DOMAIN ends' : Known(ends'[k])
      PROVE  EndsKnown'
  BY <1>2 DEF EndsKnown
<1> HIDE DEF Known
<1>3. CASE ends' = ends  BY <1>1, <1>2, <1>3
<1>4. CASE ends # <<>> /\ ends' = Tail(ends)
  <2>1. Tail(ends) \in Seq(EndEvent) /\ \A k \in DOMAIN Tail(ends) : Known(Tail(ends)[k])
    BY <1>1, <1>4
  <2> QED  BY <1>2, <1>4, <2>1
<1>5. ASSUME NEW e \in EndEvent, ends' = Append(ends, e), Known(e)  PROVE EndsKnown'
  <2>1. Append(ends, e) \in Seq(EndEvent) /\ \A k \in DOMAIN Append(ends, e) : Known(Append(ends, e)[k])
    BY <1>1, <1>5
  <2> QED  BY <1>2, <1>5, <2>1
<1> QED  BY <1>3, <1>4, <1>5 DEF Known

\* The event of a track that ends now is of a command carried out.
LEMMA EventShape ==
  ASSUME AgentTypes, NEW reason \in {"eof", "error"}
  PROVE  /\ EventOf(reason) \in EndEvent
         /\ EventOf(reason).reason = reason /\ EventOf(reason).to = Agent!NextEntry.now
         /\ Agent!Granted => EventOf(reason).of = wish.n
         /\ EventOf(reason).of # 0 =>
              /\ EventOf(reason).of <= arrived /\ EventOf(reason).of \in Commands
              /\ jobs[EventOf(reason).of].at = "none"
<1>1. wish.n \in Nat /\ wish.n <= arrived /\ arrived \in 0..MaxCommands  BY DEF AgentTypes, Wish
<1>2. wish.n # 0 => wish.n \in Commands  BY <1>1, CommandBound DEF Commands
<1>3. Agent!NextEntry.now \in Agent!Optional  BY NextEntryShape DEF Machine
<1>4. EventOf(reason).of = IF Agent!Granted THEN wish.n ELSE 0  BY DEF EventOf
<1>5. EventOf(reason) \in EndEvent  BY <1>1, <1>3 DEF EventOf, EndEvent
<1>6. Agent!Granted => jobs[wish.n].at = "none" /\ wish.n # 0  BY DEF Agent!Granted
<1> QED  BY <1>1, <1>2, <1>4, <1>5, <1>6 DEF EventOf

\* Every step keeps the shape.
LEMMA AgentTypesNext ==
  ASSUME AgentTypes, [Agent!Next]_(Agent!vars)
  PROVE  AgentTypes'
<1> USE CommandBound DEF JobBecomes, StateBecomes, MachineBecomes, WishBecomes, Prefetches
<1>0. /\ dropped \in Nat /\ arrived \in Nat /\ wish.n \in Nat
      /\ NoTrack \in Agent!Optional /\ \A t \in Tracks : t \in Agent!Optional
      /\ \A n \in Commands : jobs[n].at # "none" => n <= arrived
      /\ mpv.entries \in Seq(Entry)
      /\ \A k \in DOMAIN mpv.entries : mpv.entries[k].from \in Nat
  <2>1. dropped \in Nat /\ arrived \in Nat  BY DEF AgentTypes
  <2>2. wish.n \in Nat /\ mpv.entries \in Seq(Entry)  BY DEF AgentTypes, Wish, Machine
  <2>3. NoTrack \in Agent!Optional /\ \A t \in Tracks : t \in Agent!Optional
    BY DEF Agent!Optional
  <2>4. \A n \in Commands : jobs[n].at # "none" => n <= arrived
    BY <2>1 DEF AgentTypes, Commands
  <2>5. \A k \in DOMAIN mpv.entries : mpv.entries[k].from \in Nat
    <3>1. \A e \in Entry : e.from \in Nat  BY DEF Entry, Commands
    <3> QED  BY <2>2, <3>1
  <2> QED  BY <2>1, <2>2, <2>3, <2>4, <2>5
<1>1. ASSUME NEW t \in Tracks, LoadStep(t)  PROVE AgentTypes'
  <2>1. arrived' = arrived + 1 /\ arrived' \in Commands /\ JobBecomes(arrived', "resolveLoad", t)
    BY <1>1 DEF LoadStep, Comes
  <2>2. jobs' \in [Commands -> Job] /\ \A n \in Commands : n > arrived' => jobs'[n].at = "none"
    <3>1. arrived \in Nat /\ \A n \in Commands : jobs[n].at # "none" => n <= arrived  BY <1>0
    <3> QED  BY <2>1, <3>1 DEF Commands
  <2>3. wish' \in Wish /\ wish'.n = arrived' /\ ~Prefetches(wish.n)'
    BY <1>1, <2>1 DEF LoadStep
  <2>4. /\ ps' \in State /\ mpv' \in Machine /\ mpv'.entries = mpv.entries
        /\ mpv'.now = NoTrack => ~mpv'.moved
    BY <1>1 DEF LoadStep, AgentTypes
  <2>5. dropped' = dropped /\ watch' \in Agent!Optional  BY <1>0, <1>1 DEF LoadStep
  <2>6. EndsKnown'  BY <1>0, <1>1, <2>1, EventsStayKnown DEF LoadStep
  <2> QED  BY <1>0, <2>1, <2>2, <2>3, <2>4, <2>5, <2>6 DEF AgentTypes, Commands
<1>2. ASSUME NEW t \in Tracks, PrefetchStep(t)  PROVE AgentTypes'
  <2>1. arrived' = arrived + 1 /\ arrived' \in Commands /\ JobBecomes(arrived', "resolvePrefetch", t)
    BY <1>2 DEF PrefetchStep, Comes
  <2>2. jobs' \in [Commands -> Job] /\ \A n \in Commands : n > arrived' => jobs'[n].at = "none"
    <3>1. arrived \in Nat /\ \A n \in Commands : jobs[n].at # "none" => n <= arrived  BY <1>0
    <3> QED  BY <2>1, <3>1 DEF Commands
  <2>3. UNCHANGED <<ps, mpv, watch, dropped, wish>>  BY <1>2 DEF PrefetchStep
  <2>4. wish.n # 0 => ~Prefetches(wish.n)'
    <3>1. SUFFICES ASSUME wish.n # 0 PROVE ~Prefetches(wish.n)'  OBVIOUS
    <3>2. wish.n \in Commands /\ wish.n # arrived'  BY <1>0, <2>1, <3>1 DEF AgentTypes, Commands
    <3> QED  BY <2>1, <2>3, <3>1, <3>2 DEF AgentTypes
  <2>5. EndsKnown'  BY <1>0, <1>2, <2>1, EventsStayKnown DEF PrefetchStep
  <2> QED  BY <1>0, <2>1, <2>2, <2>3, <2>4, <2>5 DEF AgentTypes, Commands
<1>20. ASSUME NEW y, Comes(y), jobs' = jobs, ends' = ends  PROVE EndsKnown'
  <2>1. /\ arrived' = arrived + 1 /\ arrived' \in Commands
        /\ JobBecomes(arrived', jobs'[arrived'].at, jobs'[arrived'].track)
    BY <1>20 DEF Comes, AgentTypes
  <2> QED  BY <1>0, <1>20, <2>1, EventsStayKnown DEF Commands
<1>3. CASE ClearStep
  <2>1. EndsKnown'  BY <1>3, <1>20 DEF ClearStep
  <2> QED  BY <1>0, <1>3, <2>1 DEF ClearStep, Comes, AgentTypes, Commands
<1>4. CASE StopStep
  <2>1. EndsKnown'  BY <1>4, <1>20 DEF StopStep
  <2> QED  BY <1>0, <1>4, <2>1 DEF StopStep, Comes, AgentTypes, Commands
<1>5. \A k \in DOMAIN Agent!NextEntry.entries : Agent!NextEntry.entries[k].from <= arrived
  BY <1>0, EntriesKeepBound, NextEntryShape DEF AgentTypes
<1>6. ASSUME NEW y, NEW reason \in {"eof", "error"}, GoesOn(y, reason)  PROVE AgentTypes'
  <2>1. EndsKnown'  BY <1>6, EventShape, EventsKeepKnown DEF GoesOn
  <2> QED  BY <1>0, <1>5, <1>6, <2>1, NextEntryShape DEF GoesOn, AgentTypes, Commands
<1>7. CASE EofStep  BY <1>6, <1>7 DEF EofStep
<1>8. CASE BreakStep  BY <1>6, <1>8 DEF BreakStep
<1>15. CASE EndStep
  <2>1. EndsKnown'  BY <1>15, EventsKeepKnown DEF EndStep
  <2> QED  BY <1>0, <1>15, <2>1 DEF EndStep, AgentTypes, Commands
<1>9. CASE OtherStep
  <2>1. /\ arrived' \in 0..MaxCommands /\ arrived' >= arrived /\ dropped' = dropped /\ jobs' = jobs
        /\ wish' \in Wish /\ wish'.n = wish.n /\ ps' \in State /\ watch' \in {watch, NoTrack}
    BY <1>0, <1>9 DEF OtherStep
  <2>2. /\ mpv' \in Machine /\ mpv'.entries = mpv.entries /\ mpv'.now = mpv.now
        /\ mpv'.now = NoTrack => ~mpv'.moved
    BY <1>9 DEF OtherStep, AgentTypes
  <2>3. EndsKnown'
    <3>1. EndsKnown /\ ends' = ends /\ arrived' \in Nat /\ arrived' >= arrived
      BY <1>0, <1>9 DEF OtherStep, AgentTypes
    <3>2. \A k \in DOMAIN ends : ends[k].of # 0 => ends[k].of \in Nat
      BY <3>1 DEF EndsKnown, Commands
    <3> QED  BY <1>0, <2>1, <3>1, <3>2 DEF EndsKnown
  <2> QED  BY <1>0, <2>1, <2>2, <2>3 DEF AgentTypes, Commands
<1>21. ASSUME NEW n \in Commands, NEW at, NEW track, jobs[n].at # "none",
              JobBecomes(n, at, track), arrived' = arrived, ends' = ends
       PROVE  EndsKnown'
  <2>1. JobBecomes(n, jobs'[n].at, jobs'[n].track) /\ n \in Nat  BY <1>21 DEF Commands
  <2> QED  BY <1>0, <1>21, <2>1, EventsStayKnown
<1>10. ASSUME NEW n \in Commands, ResolvedStep(n)  PROVE AgentTypes'
  <2>1. EndsKnown'  BY <1>10, <1>21 DEF ResolvedStep
  <2> QED  BY <1>0, <1>10, <2>1 DEF ResolvedStep, AgentTypes, Commands
<1>11. ASSUME NEW n \in Commands, FileStep(n)  PROVE AgentTypes'
  <2>1. EndsKnown'  BY <1>11, <1>21 DEF FileStep
  <2> QED  BY <1>0, <1>11, <2>1 DEF FileStep, AgentTypes, Commands
<1>16. ASSUME NEW n \in Commands, RefuseStep(n)  PROVE AgentTypes'
  <2>1. EndsKnown'  BY <1>16, <1>21 DEF RefuseStep
  <2> QED  BY <1>0, <1>16, <2>1 DEF RefuseStep, AgentTypes, Commands
<1>12. ASSUME NEW n \in Commands, FailStep(n)  PROVE AgentTypes'
  <2>1. EndsKnown'  BY <1>12, <1>21 DEF FailStep
  <2> QED  BY <1>0, <1>12, <2>1 DEF FailStep, AgentTypes, Commands
<1>13. ASSUME NEW n \in Commands, AppendStep(n)  PROVE AgentTypes'
  <2> DEFINE e == [track |-> jobs[n].track, from |-> n]
  <2>1. e \in Entry /\ e.from <= arrived
    BY <1>0, <1>13 DEF AppendStep, AgentTypes, Job, Entry
  <2>2. \A k \in DOMAIN Append(mpv.entries, e) : Append(mpv.entries, e)[k].from <= arrived
    BY <1>0, <2>1, EntriesKeepBound DEF AgentTypes
  <2> HIDE DEF e
  <2>3. mpv' = mpv \/ MachineBecomes(mpv.now, Append(mpv.entries, e), mpv.moved)
    BY <1>13 DEF AppendStep, e
  <2>4. /\ mpv' \in Machine /\ \A k \in DOMAIN mpv'.entries : mpv'.entries[k].from <= arrived
        /\ mpv'.now = NoTrack => ~mpv'.moved
    BY <2>2, <2>3 DEF AgentTypes
  <2>5. JobBecomes(n, "append", jobs[n].track) /\ UNCHANGED <<arrived, ps, watch, dropped, wish>>
        /\ jobs[n].at = "resolvePrefetch"
    BY <1>13 DEF AppendStep
  <2>6. wish.n # n \/ wish.n = 0  BY <2>5 DEF AgentTypes
  <2>7. EndsKnown'  BY <1>13, <1>21 DEF AppendStep
  <2> QED  BY <1>0, <2>4, <2>5, <2>6, <2>7 DEF AgentTypes, Commands
<1>14. ASSUME NEW n \in Commands, NoteStep(n)  PROVE AgentTypes'
  <2>1. EndsKnown'  BY <1>14, <1>21 DEF NoteStep
  <2> QED  BY <1>0, <1>14, <2>1 DEF NoteStep, AgentTypes, Commands
<1> QED
  BY <1>1, <1>2, <1>3, <1>4, <1>7, <1>8, <1>9, <1>10, <1>11, <1>12, <1>13, <1>14, <1>15, <1>16,
     AgentSteps

\* What happened in a behaviour stays noted.
LEMMA EncountersStay ==
  ASSUME AgentTypes, [Agent!Next]_(Agent!vars)
  PROVE  met \subseteq met'
BY AgentSteps
DEF LoadStep, PrefetchStep, ClearStep, StopStep, EofStep, BreakStep, EndStep, OtherStep, GoesOn,
    Comes, ResolvedStep, FileStep, RefuseStep, FailStep, AppendStep, NoteStep, Agent!Meets

\* What is under way when a command or an end comes is noted.
LEMMA EncountersAreNoted ==
  ASSUME AgentTypes, NEW y, Agent!Meets(y)
  PROVE  /\ y \in {"load", "stop", "prefetch", "refusal"} =>
              \A n \in Commands : Loads(n) => <<"load", y>> \in met'
         /\ y \in {"load", "stop", "prefetch", "clear", "end"} =>
              \A n \in Commands : Prefetches(n) => <<"prefetch", y>> \in met'
         /\ y \in {"prefetch", "break"} /\ mpv.entries # <<>> => <<"entry", y>> \in met'
         /\ y \in {"prefetch", "clear"} /\ ends # <<>> => <<"event", y>> \in met'
<1>1. \A x \in Agent!UnderWay : <<x, y>> \in Agent!Disorder => <<x, y>> \in met'
  BY DEF Agent!Meets
<1>2. \A n \in Commands : /\ Loads(n) => "load" \in Agent!UnderWay
                          /\ Prefetches(n) => "prefetch" \in Agent!UnderWay
  <2>1. \A n \in Commands : Agent!WorkOf(jobs[n]) \in Agent!UnderWay
    BY DEF Agent!UnderWay, AgentTypes
  <2>2. \A n \in Commands : /\ Loads(n) => Agent!WorkOf(jobs[n]) = "load"
                            /\ Prefetches(n) => Agent!WorkOf(jobs[n]) = "prefetch"
    BY DEF Loads, Prefetches, Agent!WorkOf
  <2> QED  BY <2>1, <2>2
<1>3. /\ mpv.entries # <<>> => "entry" \in Agent!UnderWay
      /\ ends # <<>> => "event" \in Agent!UnderWay
  BY DEF Agent!UnderWay
<1>4. /\ y \in {"load", "stop", "prefetch", "refusal"} => <<"load", y>> \in Agent!Disorder
      /\ y \in {"load", "stop", "prefetch", "clear", "end"} => <<"prefetch", y>> \in Agent!Disorder
      /\ y \in {"prefetch", "break"} => <<"entry", y>> \in Agent!Disorder
      /\ y \in {"prefetch", "clear"} => <<"event", y>> \in Agent!Disorder
  BY DEF Agent!Disorder
<1> QED  BY <1>1, <1>2, <1>3, <1>4

-----------------------------------------------------------------------------
(***************************************************************************)
(* PlayerAgent: the last command wins.                                     *)
(***************************************************************************)
NoOtherLoad == Agent!Apart({"load"}, {"load", "stop"})

\* A load that is under way is the wish, and once its handler is done what the wish
\* asked for plays, or the event of its end is on its way.
WishHolds ==
  /\ \A n \in Commands : Loads(n) => wish.n = n /\ wish.track = jobs[n].track
  /\ Agent!Granted => mpv.now = wish.track \/ \E k \in DOMAIN ends : ends[k].of = wish.n

WishInv == AgentTypes /\ (NoOtherLoad => WishHolds)

\* Nothing is wished for at the start.
LEMMA WishInvInit == Agent!Init => WishInv
<1> SUFFICES ASSUME Agent!Init PROVE WishInv  OBVIOUS
<1>1. \A n \in Commands : jobs[n].at = "none"  BY DEF Agent!Init, Agent!NoJob, Commands
<1>2. wish.n = 0  BY DEF Agent!Init, Agent!NoWish
<1> QED  BY <1>1, <1>2, AgentTypesInit DEF WishInv, WishHolds, Loads, Agent!Granted

\* Under the hypothesis a load or a stop finds no load under way, so that the wish
\* it replaces is carried out, and a load that is under way is not overtaken.
LEMMA WishInvNext ==
  ASSUME WishInv, [Agent!Next]_(Agent!vars)
  PROVE  WishInv'
<1>0. AgentTypes /\ AgentTypes'  BY AgentTypesNext DEF WishInv
<1> SUFFICES ASSUME NoOtherLoad' PROVE WishHolds'  BY <1>0 DEF WishInv
<1>1. WishHolds  BY <1>0, EncountersStay DEF WishInv, NoOtherLoad, Agent!Apart
<1>2. wish.n # 0 => wish.n \in Commands
  BY <1>0, CommandBound DEF AgentTypes, Wish, Commands
<1>3. \A y \in {"load", "stop"} : Agent!Meets(y) => \A n \in Commands : ~Loads(n)
  <2>1. \A y \in {"load", "stop"} : <<"load", y>> \notin met'  BY DEF NoOtherLoad, Agent!Apart
  <2> QED  BY <1>0, <2>1, EncountersAreNoted
<1> USE DEF WishHolds, JobBecomes, WishBecomes, MachineBecomes, Loads, Agent!Granted
<1>4. ASSUME NEW t \in Tracks, LoadStep(t)  PROVE WishHolds'
  BY <1>3, <1>4 DEF LoadStep, Comes
<1>5. ASSUME NEW t \in Tracks, PrefetchStep(t)  PROVE WishHolds'
  BY <1>1, <1>2, <1>5 DEF PrefetchStep, Comes
<1>6. CASE ClearStep  BY <1>1, <1>6 DEF ClearStep
<1>7. CASE StopStep  BY <1>3, <1>7 DEF StopStep, Comes
<1>20. ends \in Seq(EndEvent) /\ EndsKnown  BY <1>0 DEF AgentTypes, EndsKnown
<1>8. ASSUME NEW y, NEW reason \in {"eof", "error"}, GoesOn(y, reason)  PROVE WishHolds'
  <2>1. Agent!Granted => \E k \in DOMAIN ends' : ends'[k].of = wish.n
    <3>1. SUFFICES ASSUME Agent!Granted PROVE \E k \in DOMAIN ends' : ends'[k].of = wish.n  OBVIOUS
    <3> DEFINE e == EventOf(reason)
    <3>2. e \in EndEvent /\ e.of = wish.n  BY <1>0, <3>1, EventShape
    <3>3. ends' = Append(ends, e)  BY <1>8 DEF GoesOn
    <3> HIDE DEF e
    <3>4. Len(ends) + 1 \in DOMAIN ends' /\ ends'[Len(ends) + 1] = e  BY <1>20, <3>2, <3>3
    <3> QED  BY <3>2, <3>4
  <2>2. UNCHANGED <<jobs, wish>>  BY <1>8 DEF GoesOn
  <2> QED  BY <1>1, <1>2, <2>1, <2>2
<1>15. CASE EndStep
  <2>1. UNCHANGED <<jobs, mpv>> /\ ends # <<>> /\ ends' = Tail(ends)  BY <1>15 DEF EndStep
  <2>2. CASE Head(ends).of = wish.n /\ wish.n # 0
    <3>1. wish'.n = 0  BY <1>15, <2>2 DEF EndStep
    <3>2. Head(ends) = ends[1] /\ 1 \in DOMAIN ends  BY <1>20, <2>1
    <3>3. jobs[wish.n].at = "none"  BY <1>20, <2>2, <3>2 DEF EndsKnown
    <3>4. \A n \in Commands : ~Loads(n)  BY <1>1, <3>3
    <3> QED  BY <2>1, <3>1, <3>4
  <2>3. CASE ~(Head(ends).of = wish.n /\ wish.n # 0)
    <3>1. wish' = wish  BY <1>15, <2>3 DEF EndStep
    <3>2. ASSUME wish.n # 0, NEW k \in DOMAIN ends, ends[k].of = wish.n
          PROVE  \E j \in DOMAIN Tail(ends) : Tail(ends)[j].of = wish.n
      <4>1. Head(ends) = ends[1]  BY <1>20, <2>1
      <4>2. k # 1  BY <2>3, <3>2, <4>1
      <4>3. k - 1 \in DOMAIN Tail(ends) /\ Tail(ends)[k - 1] = ends[k]  BY <1>20, <2>1, <3>2, <4>2
      <4> QED  BY <3>2, <4>3
    <3>3. wish'.n = wish.n /\ wish'.track = wish.track  BY <3>1
    <3> QED  BY <1>1, <1>2, <2>1, <3>2, <3>3
  <2> QED  BY <2>2, <2>3
<1>9. CASE OtherStep  BY <1>1, <1>9 DEF OtherStep
<1>10. ASSUME NEW n \in Commands, ResolvedStep(n)  PROVE WishHolds'
  BY <1>1, <1>2, <1>10 DEF ResolvedStep
<1>11. ASSUME NEW n \in Commands, FileStep(n)  PROVE WishHolds'
  BY <1>1, <1>2, <1>11 DEF FileStep
<1>12. ASSUME NEW n \in Commands, FailStep(n)  PROVE WishHolds'
  BY <1>0, <1>1, <1>2, <1>12 DEF FailStep, AgentTypes, Prefetches
<1>16. ASSUME NEW n \in Commands, RefuseStep(n)  PROVE WishHolds'
  BY <1>0, <1>1, <1>2, <1>16 DEF RefuseStep, AgentTypes, Prefetches
<1>13. ASSUME NEW n \in Commands, AppendStep(n)  PROVE WishHolds'
  BY <1>0, <1>1, <1>2, <1>13 DEF AppendStep, AgentTypes, Prefetches
<1>14. ASSUME NEW n \in Commands, NoteStep(n)  PROVE WishHolds'
  BY <1>0, <1>1, <1>2, <1>14 DEF NoteStep, AgentTypes, Prefetches
<1> QED
  BY <1>0, <1>4, <1>5, <1>6, <1>7, <1>8, <1>9, <1>10, <1>11, <1>12, <1>13, <1>14, <1>15, <1>16,
     AgentSteps DEF EofStep, BreakStep

\* When no handler is in progress mpv plays what the last load asked for, and
\* nothing after a stop, for any number of commands, unless a load or a stop came
\* while an earlier load was still under way (index.ts, commands.ts: no handler is
\* waited for).
THEOREM LastCommandIsObeyed == ProcessSpec => []LastCommandWins
<1>1. ProcessInit => WishInv  BY WishInvInit DEF ProcessInit
<1>2. WishInv /\ [ProcessNext]_allVars => WishInv'  BY EachPartSteps, WishInvNext
<1>3. WishInv => LastCommandWins
  <2>1. WishInv => DOMAIN jobs = Commands /\ (wish.n # 0 => wish.n \in Commands)
    BY CommandBound DEF WishInv, AgentTypes, Wish, Commands
  <2>2. ends = <<>> => ~\E k \in DOMAIN ends : ends[k].of = wish.n  OBVIOUS
  <2> QED
    BY <2>1, <2>2 DEF WishInv, WishHolds, NoOtherLoad, LastCommandWins, Agent!LastCommandWins,
                      Agent!Quiet, Agent!Granted
<1> QED  BY <1>1, <1>2, <1>3, PTL DEF ProcessSpec
-----------------------------------------------------------------------------
(***************************************************************************)
(* PlayerAgent: reports name what is heard, and an end adopts what mpv     *)
(* goes on to.                                                             *)
(***************************************************************************)
Busy(n) == jobs[n].at # "none"

\* mpv's playlist holds t and nothing else, if it holds anything.
AtMost(t) == mpv.entries = <<>> \/ (Len(mpv.entries) = 1 /\ mpv.entries[1].track = t)

\* One handler is in progress at a time.
OneBusy == \A m, n \in Commands : Busy(m) /\ Busy(n) => m = n

\* Between the new track of the state and loadfile nothing waits in mpv's playlist, and
\* nothing does while a prefetch is being resolved.
NothingWaits ==
  \A n \in Commands :
    /\ jobs[n].at = "loadFile" => ps.id = jobs[n].track /\ mpv.entries = <<>> /\ ps.buffered = NoTrack
    /\ jobs[n].at = "resolvePrefetch" => mpv.entries = <<>>

\* The state names what mpv plays, or will once the first event on its way is handled.
NamesNow ==
  (\A n \in Commands : jobs[n].at # "loadFile") =>
    IF ends = <<>> \/ ps.buffered = NoTrack THEN ps.id = mpv.now
    ELSE Head(ends).reason = "eof" /\ ps.buffered = mpv.now

\* Mpv's playlist holds what the state calls buffered, or what the prefetch in progress
\* has appended; and nothing while an event is on its way, with no prefetch in progress.
HoldsBuffered ==
  /\ ends # <<>> => mpv.entries = <<>> /\ \A n \in Commands : ~Prefetches(n)
  /\ \A n \in Commands : jobs[n].at = "append" => AtMost(jobs[n].track)
  /\ ends = <<>> /\ (\A n \in Commands : jobs[n].at # "append") => AtMost(ps.buffered)

IdHolds ==
  /\ OneBusy /\ NothingWaits
  /\ mpv.now # NoTrack => NamesNow /\ HoldsBuffered

IdInv == AgentTypes /\ (Agent!Orderly => IdHolds)

\* No handler is in progress at the start.
LEMMA IdInvInit == Agent!Init => IdInv
<1> SUFFICES ASSUME Agent!Init PROVE IdInv  OBVIOUS
<1>1. \A n \in Commands : jobs[n].at = "none"  BY DEF Agent!Init, Agent!NoJob, Commands
<1>2. mpv.entries = <<>> /\ mpv.now = NoTrack  BY DEF Agent!Init
<1> QED  BY <1>1, <1>2, AgentTypesInit DEF IdInv, IdHolds, OneBusy, NothingWaits, Busy

\* What the hypothesis says of the handlers and the playlist a command or an end finds.
LEMMA OrderlyMeetings ==
  ASSUME AgentTypes, Agent!Orderly', NEW y, Agent!Meets(y)
  PROVE  /\ y \in {"load", "prefetch"} => \A n \in Commands : ~Busy(n)
         /\ y \in {"prefetch", "clear"} => ends = <<>>
         /\ y = "refusal" => \A n \in Commands : ~Loads(n)
         /\ y = "end" => \A n \in Commands : ~Prefetches(n)
         /\ y \in {"prefetch", "break"} => mpv.entries = <<>>
<1>1. /\ \A x \in {"load", "prefetch", "entry"}, z \in {"load", "prefetch", "end"} : <<x, z>> \notin met'
      /\ <<"entry", "break">> \notin met' /\ <<"load", "refusal">> \notin met'
      /\ <<"event", "prefetch">> \notin met' /\ <<"event", "clear">> \notin met'
  BY DEF Agent!Orderly, Agent!Apart
<1>2. \A n \in Commands : Busy(n) => Loads(n) \/ Prefetches(n)
  BY DEF AgentTypes, Job, Stages, Busy, Loads, Prefetches
<1> QED  BY <1>1, <1>2, EncountersAreNoted

\* After the only entry of a playlist nothing is left.
LEMMA OneEntryGoes ==
  ASSUME NEW q \in Seq(Entry), Len(q) = 1
  PROVE  q # <<>> /\ Tail(q) = <<>>
<1>1. q # <<>>  OBVIOUS
<1>2. Tail(q) \in Seq(Entry) /\ Len(Tail(q)) = Len(q) - 1  BY <1>1
<1>3. Len(Tail(q)) = 0  BY <1>2
<1>4. \A p \in Seq(Entry) : Len(p) = 0 => p = <<>>  OBVIOUS
<1>5. Tail(q) = <<>>  BY Zenon, <1>2, <1>3, <1>4
<1> QED  BY Zenon, <1>1, <1>5

\* Every step keeps the state in step with mpv.
LEMMA IdInvNext ==
  ASSUME IdInv, [Agent!Next]_(Agent!vars)
  PROVE  IdInv'
<1>0. AgentTypes /\ AgentTypes'  BY AgentTypesNext DEF IdInv
<1> SUFFICES ASSUME Agent!Orderly' PROVE IdHolds'  BY <1>0 DEF IdInv
<1>1. IdHolds  BY <1>0, EncountersStay DEF IdInv, Agent!Orderly, Agent!Apart
<1>2. mpv.entries \in Seq(Entry) /\ ends \in Seq(EndEvent)  BY <1>0 DEF AgentTypes, EndsKnown, Machine
<1> USE DEF IdHolds, OneBusy, NothingWaits, NamesNow, HoldsBuffered, Busy, AtMost, JobBecomes,
            StateBecomes, MachineBecomes
<1>3. ASSUME NEW t \in Tracks, LoadStep(t)  PROVE IdHolds'
  <2>1. \A n \in Commands : ~Busy(n)  BY <1>0, <1>3, OrderlyMeetings DEF LoadStep, Comes
  <2> QED  BY <1>1, <1>3, <2>1 DEF LoadStep, Comes, Prefetches
<1>4. ASSUME NEW t \in Tracks, PrefetchStep(t)  PROVE IdHolds'
  <2>1. (\A n \in Commands : ~Busy(n)) /\ mpv.entries = <<>> /\ ends = <<>>
    BY <1>0, <1>4, OrderlyMeetings DEF PrefetchStep, Comes
  <2> QED  BY <1>1, <1>4, <2>1 DEF PrefetchStep, Comes
<1>5. CASE ClearStep
  <2>1. ends = <<>>  BY <1>0, <1>5, OrderlyMeetings DEF ClearStep, Comes
  <2> QED  BY <1>1, <1>5, <2>1 DEF ClearStep, Prefetches
<1>6. CASE StopStep  BY <1>1, <1>6 DEF StopStep
<1>7. CASE EofStep
  <2>1. \A n \in Commands : ~Prefetches(n)  BY <1>0, <1>7, OrderlyMeetings DEF EofStep, GoesOn
  <2>2. mpv.now # NoTrack  BY <1>7 DEF EofStep, GoesOn
  <2>3. CASE ends # <<>>
    <3>1. mpv.entries = <<>>  BY <1>1, <2>2, <2>3
    <3>2. Agent!NextEntry.now = NoTrack /\ Agent!NextEntry.entries = <<>>
      BY <1>0, <3>1, NextEntryShape
    <3> QED  BY <1>1, <1>7, <3>2 DEF EofStep, GoesOn
  <2>4. CASE ends = <<>>
    <3>1. AtMost(ps.buffered)  BY <1>1, <2>1, <2>2, <2>4 DEF Prefetches
    <3>2. Agent!NextEntry.entries = <<>> /\ Agent!NextEntry.now \in {NoTrack, ps.buffered}
      <4>1. CASE mpv.entries = <<>>  BY <1>0, <4>1, NextEntryShape
      <4>2. CASE Len(mpv.entries) = 1 /\ mpv.entries[1].track = ps.buffered
        BY <1>0, <1>2, <4>2, OneEntryGoes, NextEntryShape
      <4> QED  BY <3>1, <4>1, <4>2
    <3>3. ends' # <<>> /\ Head(ends').reason = "eof"
      <4>1. ends' = Append(<<>>, EventOf("eof"))  BY <1>7, <2>4 DEF EofStep, GoesOn
      <4>2. EventOf("eof").reason = "eof"  BY DEF EventOf
      <4> QED  BY <4>1, <4>2
    <3> QED  BY <1>1, <1>7, <2>1, <3>2, <3>3 DEF EofStep, GoesOn, Prefetches
  <2> QED  BY <2>3, <2>4
<1>8. CASE BreakStep
  <2>1. mpv.entries = <<>>  BY <1>0, <1>8, OrderlyMeetings DEF BreakStep, GoesOn
  <2>2. Agent!NextEntry.entries = <<>> /\ Agent!NextEntry.now = NoTrack
    BY <1>0, <2>1, NextEntryShape
  <2> QED  BY <1>1, <1>8, <2>2 DEF BreakStep, GoesOn
<1>15. CASE EndStep
  <2>1. UNCHANGED <<jobs, mpv>> /\ ps'.buffered = NoTrack /\ ends # <<>>  BY <1>15 DEF EndStep
  <2>2. mpv.now # NoTrack => mpv.entries = <<>> /\ \A n \in Commands : ~Prefetches(n)
    BY <1>1, <2>1
  <2>3. ASSUME NEW n \in Commands, jobs[n].at = "loadFile"  PROVE ps'.id = ps.id
    BY <1>1, <1>15, <2>3 DEF EndStep
  <2>4. mpv.now # NoTrack /\ (\A n \in Commands : jobs[n].at # "loadFile") => ps'.id = mpv.now
    BY <1>1, <1>15 DEF EndStep
  <2> QED  BY <1>1, <2>1, <2>2, <2>3, <2>4 DEF Prefetches
<1>9. CASE OtherStep  BY <1>1, <1>9 DEF OtherStep, Prefetches
<1>10. ASSUME NEW n \in Commands, ResolvedStep(n)  PROVE IdHolds'
  BY <1>1, <1>10 DEF ResolvedStep, Prefetches
<1>11. ASSUME NEW n \in Commands, FileStep(n)  PROVE IdHolds'
  BY <1>1, <1>11 DEF FileStep, Prefetches
<1>16. ASSUME NEW n \in Commands, RefuseStep(n)  PROVE IdHolds'
  <2>1. ~Loads(n)  BY <1>0, <1>16, OrderlyMeetings DEF RefuseStep
  <2> QED  BY <1>16, <2>1 DEF RefuseStep, Loads
<1>12. ASSUME NEW n \in Commands, FailStep(n)  PROVE IdHolds'
  BY <1>1, <1>12 DEF FailStep, Prefetches
<1>13. ASSUME NEW n \in Commands, AppendStep(n)  PROVE IdHolds'
  <2> DEFINE e == [track |-> jobs[n].track, from |-> n]
  <2>1. mpv.entries = <<>>  BY <1>1, <1>13 DEF AppendStep
  <2>2. Append(<<>>, e) = <<e>> /\ Len(<<e>>) = 1 /\ <<e>>[1].track = jobs[n].track  OBVIOUS
  <2> HIDE DEF e
  <2>3. mpv' = mpv \/ MachineBecomes(mpv.now, <<e>>, mpv.moved)
    BY <1>13, <2>1, <2>2 DEF AppendStep, e
  <2>4. AtMost(jobs[n].track)' /\ mpv'.now = mpv.now
    BY <1>13, <2>1, <2>2, <2>3 DEF AppendStep
  <2>5. mpv.now # NoTrack => ends = <<>>  BY <1>1, <1>13 DEF AppendStep, Prefetches
  <2> QED  BY <1>1, <1>13, <2>4, <2>5 DEF AppendStep, Prefetches
<1>14. ASSUME NEW n \in Commands, NoteStep(n)  PROVE IdHolds'
  <2>1. mpv.now # NoTrack => ends = <<>>  BY <1>1, <1>14 DEF NoteStep, Prefetches
  <2> QED  BY <1>1, <1>14, <2>1 DEF NoteStep, Prefetches
<1> QED
  BY <1>0, <1>3, <1>4, <1>5, <1>6, <1>7, <1>8, <1>9, <1>10, <1>11, <1>12, <1>13, <1>14, <1>15,
     <1>16, AgentSteps

\* When no handler is in progress and no event is on its way reports carry the id of what
\* is heard, whatever loads and stops came between an end and its event, unless loads and
\* prefetches overlapped, an end overtook a prefetch, a prefetch or prefetchClear came
\* between an end and its event, a stream broke in front of an entry, or mpv refused a
\* load (index.ts, the end-file handler; commands.ts).
THEOREM ReportsNameWhatIsHeard == ProcessSpec => []IdIsHeard
<1>1. ProcessInit => IdInv  BY IdInvInit DEF ProcessInit
<1>2. IdInv /\ [ProcessNext]_allVars => IdInv'  BY EachPartSteps, IdInvNext
<1>3. IdInv => IdIsHeard
  <2>1. IdInv => DOMAIN jobs = Commands  BY DEF IdInv, AgentTypes
  <2> QED  BY <2>1 DEF IdInv, IdHolds, NamesNow, IdIsHeard, Agent!IdIsHeard, Agent!Quiet
<1> QED  BY <1>1, <1>2, <1>3, PTL DEF ProcessSpec

\* What the state calls buffered waits in mpv's playlist while mpv plays, and so does
\* what a prefetch in progress has appended.
BufferedWaits ==
  mpv.now # NoTrack /\ ends = <<>> =>
    /\ ps.buffered # NoTrack => mpv.entries # <<>> /\ mpv.entries[1].track = ps.buffered
    /\ \A n \in Commands : jobs[n].at = "append" => mpv.entries # <<>>

\* Only errors are on their way while a prefetch is in progress.
OnlyErrors ==
  \A n \in Commands : Prefetches(n) => \A k \in DOMAIN ends : ends[k].reason = "error"

\* If the first event on its way is a natural end, mpv went on to what is buffered.
FirstEndAdopts ==
  ends # <<>> /\ ps.buffered # NoTrack /\ Head(ends).reason = "eof" => Head(ends).to = ps.buffered

AdoptHolds == BufferedWaits /\ OnlyErrors /\ FirstEndAdopts

NoClearInBetween == Agent!Apart({"prefetch"}, {"clear"})

AdoptInv == IdInv /\ (Agent!Orderly /\ NoClearInBetween => AdoptHolds)

\* Nothing is buffered at the start.
LEMMA AdoptInvInit == Agent!Init => AdoptInv
BY IdInvInit DEF Agent!Init, AdoptInv, AdoptHolds, BufferedWaits, OnlyErrors, FirstEndAdopts

\* Every step keeps what is buffered in mpv's playlist.
LEMMA AdoptInvNext ==
  ASSUME PrefetchEnabled, AdoptInv, [Agent!Next]_(Agent!vars)
  PROVE  AdoptInv'
<1>0. AgentTypes /\ AgentTypes' /\ IdInv /\ IdInv'
  BY AgentTypesNext, IdInvNext DEF AdoptInv, IdInv
<1> SUFFICES ASSUME Agent!Orderly', NoClearInBetween' PROVE AdoptHolds'
  BY <1>0 DEF AdoptInv
<1>1. IdHolds /\ AdoptHolds
  BY <1>0, EncountersStay DEF AdoptInv, IdInv, Agent!Orderly, NoClearInBetween, Agent!Apart
<1>2. mpv.entries \in Seq(Entry) /\ ends \in Seq(EndEvent)  BY <1>0 DEF AgentTypes, EndsKnown, Machine
<1> USE DEF IdHolds, OneBusy, NothingWaits, NamesNow, HoldsBuffered, AdoptHolds, BufferedWaits,
            OnlyErrors, FirstEndAdopts, Busy, AtMost, JobBecomes, StateBecomes, MachineBecomes
<1>3. ASSUME NEW t \in Tracks, LoadStep(t)  PROVE AdoptHolds'
  BY <1>1, <1>3 DEF LoadStep, Comes, Prefetches
<1>4. ASSUME NEW t \in Tracks, PrefetchStep(t)  PROVE AdoptHolds'
  <2>1. ends = <<>>  BY <1>0, <1>4, OrderlyMeetings DEF PrefetchStep, Comes, AdoptInv
  <2> QED  BY <1>1, <1>4, <2>1 DEF PrefetchStep, Comes, Prefetches
<1>5. CASE ClearStep
  <2>1. \A n \in Commands : ~Prefetches(n)
    <3>1. <<"prefetch", "clear">> \notin met'  BY DEF NoClearInBetween, Agent!Apart
    <3> QED  BY <1>0, <1>5, <3>1, EncountersAreNoted DEF ClearStep, Comes
  <2> QED  BY <1>5, <2>1 DEF ClearStep, Prefetches
<1>6. CASE StopStep  BY <1>1, <1>6 DEF StopStep, Prefetches
<1>7. CASE EofStep
  <2>1. \A n \in Commands : ~Prefetches(n)  BY <1>0, <1>7, OrderlyMeetings DEF EofStep, GoesOn
  <2>2. UNCHANGED <<jobs, ps>> /\ ends' = Append(ends, EventOf("eof")) /\ mpv.now # NoTrack
    BY <1>7 DEF EofStep, GoesOn
  <2>3. EventOf("eof") \in EndEvent /\ EventOf("eof").to = Agent!NextEntry.now
    BY <1>0, EventShape
  <2>4. CASE ends = <<>>
    <3>1. ps.buffered # NoTrack => Agent!NextEntry.now = ps.buffered
      BY <1>0, <1>1, <2>2, <2>4, NextEntryShape
    <3>2. Head(ends') = EventOf("eof") /\ ends' # <<>>  BY <2>2, <2>3, <2>4
    <3> QED  BY <2>1, <2>2, <2>3, <3>1, <3>2 DEF Prefetches
  <2>5. CASE ends # <<>>
    <3>1. Head(ends') = Head(ends) /\ ends' # <<>>  BY <1>2, <2>2, <2>3, <2>5
    <3> QED  BY <1>1, <2>1, <2>2, <2>5, <3>1 DEF Prefetches
  <2> QED  BY <2>4, <2>5
<1>8. CASE BreakStep
  <2>1. mpv.entries = <<>> /\ mpv.now # NoTrack
    BY <1>0, <1>8, OrderlyMeetings DEF BreakStep, GoesOn
  <2>2. UNCHANGED <<jobs, ps>> /\ ends' = Append(ends, EventOf("error"))
    BY <1>8 DEF BreakStep, GoesOn
  <2>3. EventOf("error") \in EndEvent /\ EventOf("error").reason = "error"
    BY <1>0, EventShape
  <2>4. ends' # <<>> /\ Head(ends') = IF ends = <<>> THEN EventOf("error") ELSE Head(ends)
    BY <1>2, <2>2, <2>3
  <2>5. \A k \in DOMAIN ends' :
          ends'[k] = EventOf("error") \/ (k \in DOMAIN ends /\ ends'[k] = ends[k])
    BY <1>2, <2>2, <2>3
  <2>6. OnlyErrors'  BY <1>1, <2>2, <2>3, <2>5 DEF Prefetches
  <2>7. FirstEndAdopts'  BY <1>1, <2>2, <2>3, <2>4
  <2> QED  BY <2>4, <2>6, <2>7
<1>15. CASE EndStep
  <2>1. UNCHANGED <<jobs, mpv>> /\ ps'.buffered = NoTrack /\ ends # <<>> /\ ends' = Tail(ends)
    BY <1>15 DEF EndStep
  <2>2. mpv.now # NoTrack => \A n \in Commands : ~Prefetches(n)  BY <1>1, <2>1
  <2>3. \A k \in DOMAIN Tail(ends) : k + 1 \in DOMAIN ends /\ Tail(ends)[k] = ends[k + 1]
    BY <1>2, <2>1
  <2>4. OnlyErrors'  BY <1>1, <2>1, <2>3 DEF Prefetches
  <2> QED  BY <2>1, <2>2, <2>4 DEF Prefetches
<1>9. CASE OtherStep  BY <1>1, <1>9 DEF OtherStep, Prefetches
<1>10. ASSUME NEW n \in Commands, ResolvedStep(n)  PROVE AdoptHolds'
  BY <1>1, <1>10 DEF ResolvedStep, Prefetches
<1>11. ASSUME NEW n \in Commands, FileStep(n)  PROVE AdoptHolds'
  BY <1>1, <1>11 DEF FileStep, Prefetches
<1>16. ASSUME NEW n \in Commands, RefuseStep(n)  PROVE AdoptHolds'
  BY <1>1, <1>16 DEF RefuseStep, Prefetches
<1>12. ASSUME NEW n \in Commands, FailStep(n)  PROVE AdoptHolds'
  BY <1>1, <1>12 DEF FailStep, Prefetches
<1>13. ASSUME NEW n \in Commands, AppendStep(n)  PROVE AdoptHolds'
  <2> DEFINE e == [track |-> jobs[n].track, from |-> n]
  <2>1. mpv.entries = <<>>  BY <1>1, <1>13 DEF AppendStep
  <2>2. Append(<<>>, e) = <<e>> /\ <<e>> # <<>>  OBVIOUS
  <2>3. MachineBecomes(mpv.now, Append(mpv.entries, e), mpv.moved)  BY <1>13 DEF AppendStep
  <2> HIDE DEF e
  <2>4. mpv'.entries # <<>> /\ mpv'.now = mpv.now  BY <2>1, <2>2, <2>3
  <2>5. mpv.now # NoTrack /\ ends = <<>> => ps.buffered = NoTrack  BY <1>1, <2>1
  <2>6. UNCHANGED <<ends, ps>>  BY <1>13 DEF AppendStep
  <2>7. OnlyErrors'  BY <1>1, <1>13 DEF AppendStep, Prefetches
  <2> QED  BY <1>1, <2>4, <2>5, <2>6, <2>7
<1>14. ASSUME NEW n \in Commands, NoteStep(n)  PROVE AdoptHolds'
  <2>1. UNCHANGED <<mpv, ends>> /\ jobs[n].at = "append" /\ ps'.buffered = jobs[n].track
    BY <1>14 DEF NoteStep
  <2>2. BufferedWaits'  BY <1>1, <1>14, <2>1 DEF NoteStep
  <2>3. OnlyErrors'  BY <1>1, <1>14 DEF NoteStep, Prefetches
  <2>4. ends # <<>> => Head(ends).reason = "error"
    <3>1. ends # <<>> => 1 \in DOMAIN ends /\ Head(ends) = ends[1]  BY <1>2
    <3> QED  BY <1>1, <2>1, <3>1 DEF Prefetches
  <2> QED  BY <2>1, <2>2, <2>3, <2>4
<1> QED
  BY <1>0, <1>3, <1>4, <1>5, <1>6, <1>7, <1>8, <1>9, <1>10, <1>11, <1>12, <1>13, <1>14, <1>15,
     <1>16, AgentSteps

\* What the agent adopts at a natural end is what mpv went on to, with prefetching on
\* and under the hypotheses of ReportsNameWhatIsHeard, unless a prefetchClear overtook
\* a prefetch (index.ts, the end-file handler).
THEOREM EndsAdoptWhatPlays ==
  ASSUME PrefetchEnabled
  PROVE  ProcessSpec => AdoptedIsPlayed
<1>1. ProcessInit => AdoptInv  BY AdoptInvInit DEF ProcessInit
<1>2. AdoptInv /\ [ProcessNext]_allVars => AdoptInv'  BY EachPartSteps, AdoptInvNext
<1>3. AdoptInv /\ [ProcessNext]_allVars =>
        [Agent!EndFile /\ Head(ends).reason = "eof" /\ ps.buffered # NoTrack
           /\ Agent!Orderly /\ NoClearInBetween =>
           Head(ends).to = ps.buffered]_(Agent!vars)
  <2> SUFFICES ASSUME AdoptInv, Agent!EndFile, Head(ends).reason = "eof", ps.buffered # NoTrack,
                      Agent!Orderly, NoClearInBetween
               PROVE  Head(ends).to = ps.buffered
    OBVIOUS
  <2>1. FirstEndAdopts  BY DEF AdoptInv, AdoptHolds
  <2>2. ends # <<>>  BY DEF Agent!EndFile, Agent!EndHandled
  <2> QED  BY <2>1, <2>2 DEF FirstEndAdopts
<1> QED  BY <1>1, <1>2, <1>3, PTL DEF ProcessSpec, AdoptedIsPlayed, Agent!AdoptedIsPlayed, NoClearInBetween
-----------------------------------------------------------------------------
(***************************************************************************)
(* PlayerAgent: what was dropped stays out.                                *)
(***************************************************************************)
NoneOvertaken == Agent!Apart({"prefetch"}, {"load", "stop", "clear"})

\* What waits in mpv's playlist, or is being resolved for it, was asked for after the
\* playlist was emptied last, and after the loads that will empty it again.
DropHolds ==
  /\ \A k \in DOMAIN mpv.entries : mpv.entries[k].from > dropped
  /\ \A n \in Commands : jobs[n].at = "resolvePrefetch" => n > dropped
  /\ \A m, n \in Commands : Loads(m) /\ jobs[n].at = "resolvePrefetch" => n > m

DropInv == AgentTypes /\ (NoneOvertaken => DropHolds)

\* mpv's playlist is empty at the start.
LEMMA DropInvInit == Agent!Init => DropInv
<1> SUFFICES ASSUME Agent!Init PROVE DropInv  OBVIOUS
<1>1. \A n \in Commands : jobs[n].at = "none"  BY DEF Agent!Init, Agent!NoJob, Commands
<1>2. mpv.entries = <<>>  BY DEF Agent!Init
<1> QED  BY <1>1, <1>2, AgentTypesInit DEF DropInv, DropHolds, Loads

\* A playlist stays above its bound when an entry is appended or the first one goes.
LEMMA EntriesStayAbove ==
  ASSUME NEW b \in Nat, NEW q \in Seq(Entry), \A k \in DOMAIN q : q[k].from > b
  PROVE  /\ \A e \in Entry : e.from > b => \A k \in DOMAIN Append(q, e) : Append(q, e)[k].from > b
         /\ q # <<>> => \A k \in DOMAIN Tail(q) : Tail(q)[k].from > b
OBVIOUS

\* A command that empties the playlist finds no prefetch under way, and a prefetch
\* comes after every load it will follow.
LEMMA DropInvNext ==
  ASSUME DropInv, [Agent!Next]_(Agent!vars)
  PROVE  DropInv'
<1>0. AgentTypes /\ AgentTypes'  BY AgentTypesNext DEF DropInv
<1> SUFFICES ASSUME NoneOvertaken' PROVE DropHolds'  BY <1>0 DEF DropInv
<1>1. DropHolds  BY <1>0, EncountersStay DEF DropInv, NoneOvertaken, Agent!Apart
<1>2. mpv.entries \in Seq(Entry) /\ dropped \in Nat /\ arrived \in Nat /\ dropped <= arrived
  BY <1>0 DEF AgentTypes, Machine
<1>3. \A n \in Commands : n \in Nat /\ (Loads(n) => n <= arrived)
  BY <1>0, <1>2 DEF AgentTypes, Commands, Loads
<1>4. \A y \in {"load", "stop", "clear"} : Agent!Meets(y) => \A n \in Commands : ~Prefetches(n)
  <2>1. \A y \in {"load", "stop", "clear"} : <<"prefetch", y>> \notin met'
    BY DEF NoneOvertaken, Agent!Apart
  <2> QED  BY <1>0, <2>1, EncountersAreNoted
<1> USE DEF DropHolds, Loads, JobBecomes, MachineBecomes
<1>5. ASSUME NEW t \in Tracks, LoadStep(t)  PROVE DropHolds'
  <2>1. \A n \in Commands : ~Prefetches(n)  BY <1>4, <1>5 DEF LoadStep, Comes
  <2> QED  BY <1>1, <1>5, <2>1 DEF LoadStep, Comes, Prefetches
<1>6. ASSUME NEW t \in Tracks, PrefetchStep(t)  PROVE DropHolds'
  BY <1>1, <1>2, <1>3, <1>6 DEF PrefetchStep, Comes
<1>7. ASSUME ClearStep \/ StopStep  PROVE DropHolds'
  <2>1. \A n \in Commands : ~Prefetches(n)  BY <1>4, <1>7 DEF ClearStep, StopStep, Comes
  <2> QED  BY <1>7, <2>1 DEF ClearStep, StopStep, Prefetches
<1>8. ASSUME NEW y, NEW reason, GoesOn(y, reason)  PROVE DropHolds'
  <2>1. \A k \in DOMAIN Agent!NextEntry.entries : Agent!NextEntry.entries[k].from > dropped
    BY <1>0, <1>1, <1>2, EntriesStayAbove, NextEntryShape
  <2> QED  BY <1>1, <1>8, <2>1 DEF GoesOn
<1>9. CASE OtherStep  BY <1>1, <1>9 DEF OtherStep
<1>10. ASSUME NEW n \in Commands, ResolvedStep(n)  PROVE DropHolds'
  BY <1>1, <1>10 DEF ResolvedStep
<1>11. ASSUME NEW n \in Commands, FileStep(n)  PROVE DropHolds'
  BY <1>1, <1>11 DEF FileStep
<1>12. ASSUME NEW n \in Commands, FailStep(n)  PROVE DropHolds'
  BY <1>1, <1>12 DEF FailStep
<1>15. CASE EndStep  BY <1>1, <1>15 DEF EndStep
<1>16. ASSUME NEW n \in Commands, RefuseStep(n)  PROVE DropHolds'
  BY <1>1, <1>16 DEF RefuseStep
<1>13. ASSUME NEW n \in Commands, AppendStep(n)  PROVE DropHolds'
  <2> DEFINE e == [track |-> jobs[n].track, from |-> n]
  <2>1. e \in Entry /\ e.from > dropped
    BY <1>0, <1>1, <1>13 DEF AppendStep, AgentTypes, Job, Entry
  <2>2. \A k \in DOMAIN Append(mpv.entries, e) : Append(mpv.entries, e)[k].from > dropped
    BY <1>1, <1>2, <2>1, EntriesStayAbove
  <2> HIDE DEF e
  <2>3. mpv' = mpv \/ MachineBecomes(mpv.now, Append(mpv.entries, e), mpv.moved)
    BY <1>13 DEF AppendStep, e
  <2>4. \A k \in DOMAIN mpv'.entries : mpv'.entries[k].from > dropped  BY <1>1, <2>2, <2>3
  <2> QED  BY <1>1, <1>13, <2>4 DEF AppendStep
<1>14. ASSUME NEW n \in Commands, NoteStep(n)  PROVE DropHolds'
  BY <1>1, <1>14 DEF NoteStep
<1> QED
  BY <1>0, <1>5, <1>6, <1>7, <1>8, <1>9, <1>10, <1>11, <1>12, <1>13, <1>14, <1>15, <1>16,
     AgentSteps DEF EofStep, BreakStep

\* A load, a stop or a prefetchClear takes every prefetch asked for before it out of
\* mpv's playlist for good, unless one was still under way (commands.ts, prefetch and
\* prefetchClear).
THEOREM DroppedEntriesStayOut == ProcessSpec => []DroppedStaysOut
<1>1. ProcessInit => DropInv  BY DropInvInit DEF ProcessInit
<1>2. DropInv /\ [ProcessNext]_allVars => DropInv'  BY EachPartSteps, DropInvNext
<1>3. DropInv => DroppedStaysOut
  BY DEF DropInv, DropHolds, NoneOvertaken, DroppedStaysOut, Agent!DroppedStaysOut
<1> QED  BY <1>1, <1>2, <1>3, PTL DEF ProcessSpec
-----------------------------------------------------------------------------
(***************************************************************************)
(* PlayerAgent: the watchdog of a load.                                    *)
(***************************************************************************)
NoTwoLoads == Agent!Apart({"load"}, {"load"})

\* The last load or stop was a load, and neither its track has ended nor the load failed.
ForLoad == wish.n # 0 /\ wish.track # NoTrack

\* mpv plays what the load asked for, the agent's state is about it, and the watchdog
\* is armed unless the load is heard or reported.
GuardsNow ==
  /\ mpv.now = wish.track /\ ~mpv.paused
  /\ ps.id = wish.track /\ (ps.moved => mpv.moved)
  /\ watch = wish.track \/ told \/ mpv.moved

\* No load but that of the wish is under way.  A watchdog still armed when mpv gets the
\* load finds the state at the start of its track; once mpv has it, every end on its way
\* is its own.
GuardHolds ==
  /\ wish.n # 0 /\ Loads(wish.n) => wish.track # NoTrack
  /\ ForLoad => \A n \in Commands : Loads(n) => n = wish.n /\ jobs[n].track = wish.track
  /\ ForLoad /\ ~mpv.paused => ps.status = "playing"
  /\ ForLoad /\ jobs[wish.n].at = "loadFile" /\ watch = wish.track =>
       ps.id = wish.track /\ ~ps.moved
  /\ wish.watched => /\ ForLoad /\ jobs[wish.n].at = "none"
                     /\ \A k \in DOMAIN ends : ends[k].of = wish.n
  /\ wish.watched /\ ends = <<>> => GuardsNow

GuardInv == AgentTypes /\ (NoTwoLoads => GuardHolds)

\* Nothing is wished for at the start.
LEMMA GuardInvInit == Agent!Init => GuardInv
<1> SUFFICES ASSUME Agent!Init PROVE GuardInv  OBVIOUS
<1>1. wish.n = 0 /\ ~wish.watched  BY DEF Agent!Init, Agent!NoWish
<1> QED  BY <1>1, AgentTypesInit DEF GuardInv, GuardHolds, ForLoad

\* Whatever a handler, a pause, a report or the watchdog itself does in between.
LEMMA GuardInvNext ==
  ASSUME GuardInv, [Agent!Next]_(Agent!vars)
  PROVE  GuardInv'
<1>0. AgentTypes /\ AgentTypes'  BY AgentTypesNext DEF GuardInv
<1> SUFFICES ASSUME NoTwoLoads' PROVE GuardHolds'  BY <1>0 DEF GuardInv
<1>1. GuardHolds  BY <1>0, EncountersStay DEF GuardInv, NoTwoLoads, Agent!Apart
<1>2. /\ ps \in State /\ mpv \in Machine /\ wish \in Wish /\ DOMAIN jobs = Commands
      /\ wish.n # 0 => wish.n \in Commands /\ wish.n <= arrived /\ ~Prefetches(wish.n)
      /\ ends \in Seq(EndEvent)
  BY <1>0, CommandBound DEF AgentTypes, Wish, Commands, EndsKnown
<1>3. Agent!NoWish \in Wish /\ Agent!NoWish.n = 0 /\ ~Agent!NoWish.watched
      /\ Agent!NoWish.track = NoTrack
  BY DEF Agent!NoWish, Wish, Agent!Optional
<1> USE DEF GuardHolds, ForLoad, GuardsNow, JobBecomes, WishBecomes, StateBecomes,
            MachineBecomes, Loads
<1>4. ASSUME NEW t \in Tracks, Agent!Load(t)  PROVE GuardHolds'
  <2>1. LoadStep(t)  BY <1>0, <1>4, CommandSteps
  <2>2. \A n \in Commands : ~Loads(n)
    <3>1. Agent!Meets("load") /\ <<"load", "load">> \notin met'
      BY <2>1 DEF LoadStep, Comes, NoTwoLoads, Agent!Apart
    <3> QED  BY <1>0, <3>1, EncountersAreNoted
  <2>3. ps'.status = "playing" /\ ~wish'.watched
    BY <1>2, <1>3, <1>4 DEF Agent!Load, State, Wish
  <2> QED  BY <2>1, <2>2, <2>3, NothingIsNoTrack DEF LoadStep, Comes
<1>5. ASSUME NEW t \in Tracks, Agent!Prefetch(t)  PROVE GuardHolds'
  <2>1. PrefetchStep(t) /\ told' = told  BY <1>0, <1>5, CommandSteps DEF Agent!Prefetch
  <2>2. arrived' # wish.n
    <3>1. arrived \in Nat /\ wish.n \in Nat /\ wish.n <= arrived
      BY <1>0, CommandBound DEF AgentTypes, Wish
    <3> QED  BY <2>1, <3>1 DEF PrefetchStep, Comes
  <2> QED  BY <1>1, <1>2, <2>1, <2>2 DEF PrefetchStep, Comes
<1>6. CASE Agent!PrefetchClear
  <2>1. ClearStep /\ told' = told  BY <1>0, <1>6, CommandSteps DEF Agent!PrefetchClear
  <2>2. ps'.status = ps.status /\ ps'.moved = ps.moved /\ mpv'.paused = mpv.paused
    BY <1>2, <1>6 DEF Agent!PrefetchClear, Agent!ForgetEntries, State, Machine
  <2> QED  BY <1>1, <2>1, <2>2 DEF ClearStep
<1>7. CASE Agent!Stop
  <2>1. StopStep  BY <1>0, <1>7, CommandSteps
  <2>2. ~wish'.watched  BY <1>3, <1>7 DEF Agent!Stop, Wish
  <2> QED  BY <2>1, <2>2 DEF StopStep, Comes
<1>8. CASE Agent!Pause
  <2>1. OtherStep /\ watch' = watch  BY <1>0, <1>8, CommandSteps DEF Agent!Pause
  <2>2. ~wish'.watched /\ mpv'.paused /\ ps'.moved = ps.moved
    BY <1>2, <1>8 DEF Agent!Pause, Wish, Machine, State
  <2> QED  BY <1>1, <2>1, <2>2 DEF OtherStep
<1>9. CASE Agent!Resume
  <2>1. OtherStep /\ watch' = watch /\ told' = told /\ wish' = wish
    BY <1>0, <1>9, CommandSteps DEF Agent!Resume
  <2>2. ~mpv'.paused /\ mpv'.moved = mpv.moved /\ ps'.moved = ps.moved /\ ps'.status = "playing"
    BY <1>2, <1>9 DEF Agent!Resume, Machine, State
  <2> QED  BY <1>1, <2>1, <2>2 DEF OtherStep
<1>10. ASSUME NEW n \in Commands, Agent!LoadResolved(n)  PROVE GuardHolds'
  <2>1. ResolvedStep(n) /\ told' = told  BY <1>0, <1>10, HandlerSteps DEF Agent!LoadResolved, Agent!history
  <2>2. ps'.status = "playing" /\ ~ps'.moved  BY <1>10 DEF Agent!LoadResolved, Agent!SetTrack
  <2>3. ~wish.watched  BY <1>1, <2>1 DEF ResolvedStep
  <2>4. ForLoad => n = wish.n /\ jobs[n].track = wish.track  BY <1>1, <2>1 DEF ResolvedStep
  <2> QED  BY <1>1, <1>2, <2>1, <2>2, <2>3, <2>4 DEF ResolvedStep
<1>11. ASSUME NEW n \in Commands, Agent!LoadFile(n)  PROVE GuardHolds'
  <2>1. FileStep(n) /\ told' = told  BY <1>0, <1>11, HandlerSteps DEF Agent!LoadFile
  <2>2. mpv'.paused = mpv.paused  BY <1>2, <1>11 DEF Agent!LoadFile, Machine
  <2>3. CASE wish.n = n
    <3>1. wish'.watched <=> watch = wish.track /\ ~mpv.paused /\ ends = <<>>
      <4> DEFINE w == (watch = wish.track /\ ~mpv.paused /\ ends = <<>>)
      <4>1. w \in BOOLEAN  OBVIOUS
      <4>2. wish' = [wish EXCEPT !.watched = w]  BY <1>11, <2>3 DEF Agent!LoadFile, Agent!Watched
      <4> HIDE DEF w
      <4>3. wish'.watched = w  BY <1>2, <4>1, <4>2 DEF Wish
      <4> QED  BY <4>3 DEF w
    <3>2. ForLoad /\ jobs[n].track = wish.track /\ jobs[n].at = "loadFile"
      BY <1>1, <2>1, <2>3 DEF FileStep, Commands
    <3>3. ends = <<>> => \A k \in DOMAIN ends : ends[k].of = wish.n  OBVIOUS
    <3> QED  BY <1>1, <2>1, <2>2, <2>3, <3>1, <3>2, <3>3 DEF FileStep
  <2>4. CASE wish.n # n
    <3>1. wish' = wish /\ ~ForLoad  BY <1>1, <1>11, <2>1, <2>4 DEF Agent!LoadFile, Agent!Watched, FileStep
    <3> QED  BY <1>1, <1>2, <2>1, <2>4, <3>1 DEF FileStep
  <2> QED  BY <2>3, <2>4
<1>12. ASSUME NEW n \in Commands, Agent!LoadGivesUp(n)  PROVE GuardHolds'
  <2>1. RefuseStep(n)  BY <1>0, <1>12, HandlerSteps
  <2>2. CASE wish.n = n
    <3>1. wish' = Agent!NoWish  BY <1>12, <2>2 DEF Agent!LoadGivesUp
    <3> QED  BY <1>3, <3>1
  <2>3. CASE wish.n # n
    <3>1. wish' = wish /\ ~ForLoad  BY <1>1, <2>1, <2>3 DEF RefuseStep
    <3> QED  BY <1>1, <1>2, <2>1, <2>3, <3>1 DEF RefuseStep
  <2> QED  BY <2>2, <2>3
<1>13. ASSUME NEW n \in Commands, Agent!ResolveFails(n)  PROVE GuardHolds'
  <2>1. FailStep(n)  BY <1>0, <1>13, HandlerSteps
  <2>2. CASE jobs[n].at = "resolveLoad" /\ wish.n = n
    <3>1. wish' = Agent!NoWish  BY <1>13, <2>2 DEF Agent!ResolveFails
    <3> QED  BY <1>3, <3>1
  <2>3. CASE jobs[n].at = "resolveLoad" /\ wish.n # n
    <3>1. wish' = wish /\ ~ForLoad  BY <1>1, <2>1, <2>3 DEF FailStep
    <3> QED  BY <1>1, <1>2, <2>1, <2>3, <3>1 DEF FailStep
  <2>4. CASE jobs[n].at = "resolvePrefetch"
    <3>1. wish' = wish /\ told' = told  BY <1>13, <2>4 DEF Agent!ResolveFails
    <3>2. wish.n # n \/ wish.n = 0  BY <1>2, <2>4 DEF Prefetches
    <3> QED  BY <1>1, <1>2, <2>1, <2>4, <3>1, <3>2 DEF FailStep
  <2> QED  BY <2>1, <2>2, <2>3, <2>4 DEF FailStep
<1>14. ASSUME NEW n \in Commands, Agent!PrefetchResolved(n)  PROVE GuardHolds'
  <2>1. AppendStep(n) /\ told' = told
    BY <1>0, <1>14, HandlerSteps DEF Agent!PrefetchResolved, Agent!history
  <2>2. mpv'.now = mpv.now /\ mpv'.moved = mpv.moved /\ mpv'.paused = mpv.paused
    BY <1>2, <1>14 DEF Agent!PrefetchResolved, Machine
  <2>3. wish.n # n \/ wish.n = 0  BY <1>2, <2>1 DEF AppendStep, Prefetches
  <2> QED  BY <1>1, <1>2, <2>1, <2>2, <2>3 DEF AppendStep
<1>15. ASSUME NEW n \in Commands, Agent!PrefetchDone(n)  PROVE GuardHolds'
  <2>1. NoteStep(n) /\ told' = told
    BY <1>0, <1>15, HandlerSteps DEF Agent!PrefetchDone, Agent!history
  <2>2. ps'.moved = ps.moved /\ ps'.status = ps.status  BY <1>2, <1>15 DEF Agent!PrefetchDone, State
  <2>3. wish.n # n \/ wish.n = 0  BY <1>2, <2>1 DEF NoteStep, Prefetches
  <2> QED  BY <1>1, <1>2, <2>1, <2>2, <2>3 DEF NoteStep
<1>16. CASE Agent!Moves
  <2>1. OtherStep /\ UNCHANGED <<jobs, ps, ends, watch, wish, told>>
    BY <1>0, <1>16, MpvSteps DEF Agent!Moves, Agent!history
  <2>2. mpv'.moved /\ mpv'.now = mpv.now /\ mpv'.paused = mpv.paused
    BY <1>2, <1>16 DEF Agent!Moves, Machine
  <2> QED  BY <1>1, <2>1, <2>2
<1>17. ASSUME NEW y, NEW reason \in {"eof", "error"}, GoesOn(y, reason), Agent!GoesOn(reason)
       PROVE  GuardHolds'
  <2> DEFINE e == EventOf(reason)
  <2>1. e \in EndEvent /\ (Agent!Granted => e.of = wish.n)  BY <1>0, EventShape
  <2>2. ends' = Append(ends, e) /\ UNCHANGED <<jobs, ps, watch, wish, told>>
    BY <1>17 DEF GoesOn, Agent!GoesOn
  <2>3. mpv'.paused = mpv.paused
    <3>1. mpv' = Agent!NextEntry  BY <1>17 DEF Agent!GoesOn
    <3> QED  BY <1>2, <3>1 DEF Agent!NextEntry, Machine
  <2> HIDE DEF e
  <2>4. ends' # <<>>  BY <1>2, <2>1, <2>2
  <2>5. wish.watched => \A k \in DOMAIN ends' : ends'[k].of = wish.n
    <3> SUFFICES ASSUME wish.watched, NEW k \in DOMAIN ends' PROVE ends'[k].of = wish.n  OBVIOUS
    <3>1. e.of = wish.n  BY <1>1, <2>1 DEF Agent!Granted
    <3>2. ends'[k] = e \/ (k \in DOMAIN ends /\ ends'[k] = ends[k])  BY <1>2, <2>1, <2>2
    <3> QED  BY <1>1, <3>1, <3>2
  <2> QED  BY <1>1, <2>2, <2>3, <2>4, <2>5
<1>18. CASE Agent!EndFile
  <2>1. EndStep  BY <1>0, <1>18, MpvSteps
  <2>2. mpv' = mpv /\ jobs' = jobs /\ watch' = NoTrack /\ ends # <<>>  BY <2>1 DEF EndStep
  <2>3. ps'.status \in {ps.status, "playing"}
    BY <1>2, <1>18 DEF Agent!EndFile, Agent!SetTrack, State
  <2>4. CASE Head(ends).of = wish.n /\ wish.n # 0
    <3>1. wish' = Agent!NoWish  BY <1>18, <2>4 DEF Agent!EndFile, Agent!EndHandled
    <3> QED  BY <1>3, <3>1
  <2>5. CASE ~(Head(ends).of = wish.n /\ wish.n # 0)
    <3>1. wish' = wish  BY <1>18, <2>5 DEF Agent!EndFile, Agent!EndHandled
    <3>2. 1 \in DOMAIN ends /\ Head(ends) = ends[1]  BY <1>2, <2>2
    <3>3. ~wish.watched  BY <1>1, <2>5, <3>2
    <3> QED  BY <1>1, <2>2, <2>3, <3>1, <3>3
  <2> QED  BY <2>4, <2>5
<1>19. CASE Agent!Tick
  <2>1. OtherStep /\ UNCHANGED <<jobs, mpv, ends, wish, told>>
    BY <1>0, <1>19, MpvSteps DEF Agent!Tick, Agent!history
  <2> DEFINE m == IF mpv.now # NoTrack THEN mpv.moved ELSE ps.moved
  <2>2. m \in BOOLEAN  BY <1>2 DEF State, Machine
  <2>3. ps' = [ps EXCEPT !.moved = m]  BY <1>19 DEF Agent!Tick
  <2>4. ps'.moved = m /\ ps'.status = ps.status
    <3> HIDE DEF m
    <3> QED  BY <1>2, <2>2, <2>3 DEF State
  <2>5. IF ps'.moved THEN watch' = NoTrack ELSE watch' = watch  BY <1>19 DEF Agent!Tick
  <2> QED  BY <1>1, <2>1, <2>4, <2>5 DEF OtherStep
<1>20. CASE Agent!WatchdogFires
  <2>1. UNCHANGED <<jobs, ps, mpv, ends, wish>> /\ watch' = NoTrack
    BY <1>20 DEF Agent!WatchdogFires
  <2>2. told' <=> told \/ (ps.status = "playing" /\ ps.id = watch /\ ~ps.moved)
    BY <1>20 DEF Agent!WatchdogFires
  <2> QED  BY <1>1, <2>1, <2>2
<1>21. CASE UNCHANGED Agent!vars  BY <1>1, <1>21 DEF Agent!vars
<1>22. Agent!TrackIsOver => GuardHolds'
  BY <1>0, <1>17, MpvSteps DEF Agent!TrackIsOver, EofStep
<1>23. Agent!StreamBreaks => GuardHolds'
  BY <1>0, <1>17, MpvSteps DEF Agent!StreamBreaks, BreakStep
<1> QED
  BY <1>2, <1>4, <1>5, <1>6, <1>7, <1>8, <1>9, <1>10, <1>11, <1>12, <1>13, <1>14, <1>15, <1>16,
     <1>18, <1>19, <1>20, <1>21, <1>22, <1>23 DEF Agent!Next, Agent!Command, Agent!Handler

\* A load whose watchdog is still armed when mpv gets it stays guarded until it is heard
\* or the server is told: no report, end, pause, prefetch or other handler disarms the
\* watchdog before that (index.ts, the watchdog and its reports), for any number of
\* commands, unless two loads were under way at once.
THEOREM WatchedLoadsAreAnswered == ProcessSpec => []LoadIsAnswered
<1>1. ProcessInit => GuardInv  BY GuardInvInit DEF ProcessInit
<1>2. GuardInv /\ [ProcessNext]_allVars => GuardInv'  BY EachPartSteps, GuardInvNext
<1>3. GuardInv => LoadIsAnswered
  BY DEF GuardInv, GuardHolds, GuardsNow, NoTwoLoads, LoadIsAnswered, Agent!LoadIsAnswered
<1> QED  BY <1>1, <1>2, <1>3, PTL DEF ProcessSpec
-----------------------------------------------------------------------------
(***************************************************************************)
(* The process as a whole.                                                 *)
(***************************************************************************)
ProcessTypes == SlotInv /\ AgentTypes /\ MpvTypes /\ RampTypes

\* What the proofs use of the shapes gives the type invariant.
LEMMA ProcessTypesSuffice == ProcessTypes => ProcessTypeOK
<1> SUFFICES ASSUME ProcessTypes PROVE ProcessTypeOK  OBVIOUS
<1>1. TypeOK  BY DEF ProcessTypes, SlotInv
<1>2. Agent!TypeOK
  <2>1. /\ ps.id \in Agent!Optional /\ ps.buffered \in Agent!Optional
        /\ mpv.now \in Agent!Optional /\ watch \in Agent!Optional
        /\ ps.status \in {"stopped", "playing", "paused"}
    BY DEF ProcessTypes, AgentTypes, State, Machine
  <2>2. \A n \in DOMAIN jobs : jobs[n].at \in Stages  BY DEF ProcessTypes, AgentTypes, Job
  <2>3. \A k \in DOMAIN mpv.entries : mpv.entries[k].from \in 1..arrived
    <3>1. mpv.entries \in Seq(Entry) /\ arrived \in Nat
          /\ \A k \in DOMAIN mpv.entries : mpv.entries[k].from <= arrived
      BY DEF ProcessTypes, AgentTypes, Machine
    <3>2. \A e \in Entry : e.from \in Nat \ {0}  BY CommandBound DEF Entry, Commands
    <3>3. \A k \in DOMAIN mpv.entries : mpv.entries[k].from \in Nat \ {0}  BY <3>1, <3>2
    <3> QED  BY <3>1, <3>3
  <2>4. arrived \in 0..MaxCommands /\ (mpv.now = NoTrack => ~mpv.moved)
    BY DEF ProcessTypes, AgentTypes
  <2>5. \A k \in DOMAIN ends : ends[k].of \in 0..arrived /\ ends[k].to \in Agent!Optional
    <3>1. ends \in Seq(EndEvent) /\ arrived \in Nat
          /\ \A k \in DOMAIN ends : ends[k].of # 0 => ends[k].of <= arrived
      BY <2>4 DEF ProcessTypes, AgentTypes, EndsKnown
    <3>2. \A e \in EndEvent : e.of \in Nat /\ e.to \in Agent!Optional  BY DEF EndEvent
    <3>3. \A k \in DOMAIN ends : ends[k] \in EndEvent  BY <3>1
    <3> QED  BY <3>1, <3>2, <3>3
  <2> QED  BY <2>1, <2>2, <2>3, <2>4, <2>5 DEF Agent!TypeOK, Stages
<1>3. Process!TypeOK
  <2>1. {started, stopping, ipcConnecting, restartTimer} \subseteq BOOLEAN
    BY Zenon DEF ProcessTypes, MpvTypes
  <2>2. retryTimers \in 0..2  BY DEF ProcessTypes, MpvTypes
  <2> QED  BY Zenon, <2>1, <2>2 DEF ProcessTypes, MpvTypes, Process!TypeOK
<1>4. Ramp!TypeOK  BY DEF ProcessTypes, RampTypes, RampRecord, Ramp!TypeOK
<1> QED  BY <1>1, <1>2, <1>3, <1>4 DEF ProcessTypeOK

\* The shapes hold at the start.
LEMMA ProcessTypesInit == ProcessInit => ProcessTypes
BY SlotInvInit, AgentTypesInit, MpvTypesInit, RampInvInit
DEF ProcessInit, ProcessTypes, RampInv

\* Every step of the process keeps the shapes.
LEMMA ProcessTypesNext == ProcessTypes /\ [ProcessNext]_allVars => ProcessTypes'
BY EachPartSteps, SlotInvNext, AgentTypesNext, MpvTypesNext, RampTypesNext DEF ProcessTypes

\* Every variable of the process keeps its shape: no ramp has more than sixty steps,
\* no volume is negative, mpv plays nothing that has not started, and its playlist holds
\* entries that were asked for.
THEOREM ProcessTyped == ProcessSpec => []ProcessTypeOK
BY ProcessTypesInit, ProcessTypesNext, ProcessTypesSuffice, PTL DEF ProcessSpec

\* At most MAX_YTDLP_CONCURRENCY resolves run at once in the process, and none waits
\* while a slot is free.
THEOREM SlotsOfTheProcess == ProcessSpec => [](Bounded /\ NoIdleSlot)
<1>1. ProcessTypes => Bounded /\ NoIdleSlot
  BY DEF ProcessTypes, SlotInv, SlotsAreHeld, Bounded
<1> QED  BY <1>1, ProcessTypesInit, ProcessTypesNext, PTL DEF ProcessSpec
=============================================================================
