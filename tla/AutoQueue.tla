----------------------------- MODULE AutoQueue -----------------------------
(***************************************************************************)
(* The auto-queue (apps/server/src/services/auto-queue.service.ts): when   *)
(* fewer than Threshold tracks lie beyond the cursor, up to Batch          *)
(* recommended ones are appended.  A refill is single-flight per device,   *)
(* but the queue is the account's: refills of its devices overlap, and so  *)
(* do the user's edits and the playback that moves the cursor.             *)
(*                                                                         *)
(* The queue is read, then the cursor; what a refill finds left is what    *)
(* its copy of the queue has beyond the cursor by then.  Of the queue the  *)
(* model has the number of tracks beyond the cursor.                       *)
(***************************************************************************)
EXTENDS Naturals, FiniteSets

CONSTANTS
  Refills,          \* calls of ensure
  Devices, NoDevice,
  Threshold,        \* AUTO_QUEUE_THRESHOLD
  Batch,            \* AUTO_QUEUE_BATCH
  MaxEdits          \* bound: tracks the user adds

VARIABLES
  ahead,    \* how many tracks lie beyond the cursor
  refills,  \* refills[r]: [at, dev, left, adds]: left, what its copy of the
            \* queue has beyond the cursor of now; adds, tracks still to append
  edits     \* how many tracks the user added

vars == <<ahead, refills, edits>>

NoRefill == [at |-> "none", dev |-> NoDevice, left |-> 0, adds |-> 0]

Init ==
  /\ ahead = 0
  /\ refills = [r \in Refills |-> NoRefill]
  /\ edits = 0

Set(r, rec) == refills' = [refills EXCEPT ![r] = rec]

\* Mutant: without the single flight.
EnsureAnyway(r, d) ==
  /\ refills[r].at = "none"
  /\ Set(r, [NoRefill EXCEPT !.at = "state", !.dev = d])
  /\ UNCHANGED <<ahead, edits>>

\* ensure: reuse the refill of the device that is under way, or start one, which
\* awaits the device's state.
Ensure(r, d) ==
  /\ refills[r].at = "none" /\ \A s \in Refills : refills[s].dev # d
  /\ Set(r, [NoRefill EXCEPT !.at = "state", !.dev = d])
  /\ UNCHANGED <<ahead, edits>>

\* Repeat is on; or an await rejects, which ensure swallows, before the first
\* track or between two: the refill is over.
GivesUp(r) ==
  /\ refills[r].at # "none"
  /\ Set(r, NoRefill)
  /\ UNCHANGED <<ahead, edits>>

ReadQueue(r) ==
  /\ refills[r].at = "state"
  /\ Set(r, [refills[r] EXCEPT !.at = "queue", !.left = ahead])
  /\ UNCHANGED <<ahead, edits>>

\* The cursor is read.
ReadIndex(r) ==
  /\ refills[r].at = "queue"
  /\ Set(r, IF refills[r].left >= Threshold THEN NoRefill ELSE [refills[r] EXCEPT !.at = "asks"])
  /\ UNCHANGED <<ahead, edits>>

\* fetchRecommendations, from its cache or the catalogue, less those that the
\* copy of the queue holds.
Recommends(r, n) ==
  /\ refills[r].at = "asks"
  /\ Set(r, IF n = 0 THEN NoRefill ELSE [refills[r] EXCEPT !.at = "adds", !.adds = n])
  /\ UNCHANGED <<ahead, edits>>

\* One addAuto, atomic under the queue's lock.
AddAuto(r) ==
  /\ refills[r].at = "adds"
  /\ ahead' = ahead + 1
  /\ Set(r, IF refills[r].adds = 1 THEN NoRefill ELSE [refills[r] EXCEPT !.adds = @ - 1])
  /\ UNCHANGED edits

\* The cursor moves on.
Advance ==
  /\ ahead > 0 /\ ahead' = ahead - 1
  /\ refills' = [r \in Refills |->
                   [refills[r] EXCEPT !.left = IF @ > 0 THEN @ - 1 ELSE 0]]
  /\ UNCHANGED edits

\* The user adds a track, next or last, or removes one that is to come.
UserAdds ==
  /\ edits < MaxEdits /\ edits' = edits + 1
  /\ ahead' = ahead + 1
  /\ UNCHANGED refills

UserRemoves ==
  /\ ahead > 0 /\ ahead' = ahead - 1
  /\ UNCHANGED <<refills, edits>>

Next ==
  \/ \E r \in Refills, d \in Devices : Ensure(r, d)
  \/ \E r \in Refills : GivesUp(r) \/ ReadQueue(r) \/ ReadIndex(r) \/ AddAuto(r)
  \/ \E r \in Refills, n \in 0..Batch : Recommends(r, n)
  \/ Advance \/ UserAdds \/ UserRemoves

Spec == Init /\ [][Next]_vars

-----------------------------------------------------------------------------
TypeOK ==
  /\ ahead \in Nat /\ edits \in 0..MaxEdits
  /\ refills \in [Refills -> [at : {"none", "state", "queue", "asks", "adds"},
                              dev : Devices \cup {NoDevice}, left : Nat, adds : 0..Batch]]

\* "Single-flight (4.3): only one ensure() runs per device at a time"
\* (auto-queue.service.ts:22): however the refills of an account's devices
\* overlap with one another, with edits and with playback that goes forward,
\* beyond the cursor there are, besides what the user added, at most one refill
\* per device more than what a refill is made for.
RefillBounded == ahead <= Threshold - 1 + Cardinality(Devices) * Batch + edits
=============================================================================
