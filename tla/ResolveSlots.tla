---------------------------- MODULE ResolveSlots ----------------------------
(***************************************************************************)
(* The semaphore that bounds the yt-dlp processes of a player agent        *)
(* (apps/player/src/resolver.ts).  A resolve takes a slot or queues up; a  *)
(* release hands its slot straight to the head of the queue, and only      *)
(* gives it back when nobody waits.  A call whose url is in the cache      *)
(* needs no slot and changes nothing here.                                 *)
(*                                                                         *)
(* A call is "idle", "waiting" in the queue, "granted" (its promise is     *)
(* resolved, its await has not resumed yet), or "running" yt-dlp.          *)
(***************************************************************************)
EXTENDS Integers, Sequences, FiniteSets, SequencesExt

CONSTANTS
  Resolves,        \* the calls of resolveStreamUrl that may be in progress
  MaxConcurrency   \* MAX_YTDLP_CONCURRENCY

ASSUME ConcurrencyAssumption == MaxConcurrency \in Nat \ {0}
ASSUME ResolvesAssumption == IsFiniteSet(Resolves)

VARIABLES
  activeResolves,  \* slots taken
  resolveQueue,    \* the calls that wait for one
  pc               \* pc[r]

vars == <<activeResolves, resolveQueue, pc>>

Init ==
  /\ activeResolves = 0
  /\ resolveQueue = <<>>
  /\ pc = [r \in Resolves |-> "idle"]

\* acquireResolveSlot: no slot is free, so the call joins the queue.
Wait(r) ==
  /\ pc[r] = "idle"
  /\ activeResolves >= MaxConcurrency
  /\ resolveQueue' = Append(resolveQueue, r)
  /\ pc' = [pc EXCEPT ![r] = "waiting"]
  /\ UNCHANGED activeResolves

\* Mutant: the bound is off by one.
AcquireOneMore(r) ==
  /\ pc[r] = "idle"
  /\ activeResolves <= MaxConcurrency
  /\ activeResolves' = activeResolves + 1
  /\ pc' = [pc EXCEPT ![r] = "granted"]
  /\ UNCHANGED resolveQueue

\* acquireResolveSlot: a slot is free.
Acquire(r) ==
  /\ pc[r] = "idle"
  /\ activeResolves < MaxConcurrency
  /\ activeResolves' = activeResolves + 1
  /\ pc' = [pc EXCEPT ![r] = "granted"]
  /\ UNCHANGED resolveQueue

\* The await resumes and yt-dlp is started.
Start(r) ==
  /\ pc[r] = "granted"
  /\ pc' = [pc EXCEPT ![r] = "running"]
  /\ UNCHANGED <<activeResolves, resolveQueue>>

\* Mutant: the slot is given back although calls wait.
GiveBackAnyway(r) ==
  /\ activeResolves' = activeResolves - 1
  /\ pc' = [pc EXCEPT ![r] = "idle"]
  /\ UNCHANGED resolveQueue

\* releaseResolveSlot with nobody in the queue.
GiveBack(r) ==
  /\ resolveQueue = <<>>
  /\ activeResolves' = activeResolves - 1
  /\ pc' = [pc EXCEPT ![r] = "idle"]
  /\ UNCHANGED resolveQueue

\* releaseResolveSlot: the slot changes hands, the counter stays.
HandOver(r) ==
  /\ resolveQueue # <<>>
  /\ pc' = [pc EXCEPT ![r] = "idle", ![Head(resolveQueue)] = "granted"]
  /\ resolveQueue' = Tail(resolveQueue)
  /\ UNCHANGED activeResolves

\* yt-dlp answers, fails or times out, and the finally releases the slot.
Finish(r) == pc[r] = "running" /\ (GiveBack(r) \/ HandOver(r))

Next == \E r \in Resolves : Wait(r) \/ Acquire(r) \/ Start(r) \/ Finish(r)

Spec == Init /\ [][Next]_vars

\* The event loop resumes an await, and yt-dlp ends or is killed after 20 s.
Fairness == \A r \in Resolves : WF_vars(Start(r)) /\ WF_vars(Finish(r))

FairSpec == Spec /\ Fairness

-----------------------------------------------------------------------------
Holders == {r \in Resolves : pc[r] \in {"granted", "running"}}
Waiters == {r \in Resolves : pc[r] = "waiting"}

\* The counter of slots is a natural number, the queue holds calls.
TypeOK ==
  /\ activeResolves \in Nat
  /\ resolveQueue \in Seq(Resolves)
  /\ pc \in [Resolves -> {"idle", "waiting", "granted", "running"}]

\* The counter counts the holders: no slot is lost and none is made up,
\* although a slot changes hands without the counter being touched.
SlotsAreHeld == activeResolves = Cardinality(Holders)

\* However calls come and go, at most MAX_YTDLP_CONCURRENCY of them hold a slot
\* ("bound how many yt-dlp processes run at once").
Bounded == Cardinality(Holders) <= MaxConcurrency

\* The queue is exactly the calls that wait, once each: a release wakes nobody
\* twice and forgets nobody.
QueueIsWaiters == ToSet(resolveQueue) = Waiters /\ IsInjective(resolveQueue)

\* Nobody waits while a slot is free.
NoIdleSlot == resolveQueue # <<>> => activeResolves = MaxConcurrency

\* Every call that waits gets its slot and runs.
WaiterRuns == \A r \in Resolves : pc[r] = "waiting" ~> pc[r] = "running"
=============================================================================
