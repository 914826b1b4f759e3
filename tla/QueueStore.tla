----------------------------- MODULE QueueStore -----------------------------
(***************************************************************************)
(* QueueService over Redis (apps/server/src/services/queue.service.ts).    *)
(*                                                                         *)
(* One account has three Redis keys: the queue, the cursor and a lock with *)
(* a 5 s TTL.  Every mutation is a handler that awaits Redis between       *)
(* acquiring the lock, reading the queue, reading the cursor, writing the  *)
(* queue, writing the cursor and releasing the lock; each await is a step  *)
(* of its own here, so that handlers interleave as they do in the server.  *)
(* setIndex alone writes the cursor without the lock.                      *)
(*                                                                         *)
(* Three switches say what the environment may do beyond that:             *)
(*   SlowHolders   a lock may expire under a holder that needs over 5 s;   *)
(*   RedisMayFail  a Redis command of a critical section may be rejected;  *)
(*   MayCrash      the server process may die and restart.                 *)
(***************************************************************************)
EXTENDS QueueOps

CONSTANTS
  Procs,            \* the requests that may be in progress at once
  Tracks,           \* track ids
  StartTracks,      \* the tracks of the queue a behaviour starts from
  Playlists,        \* the track lists a replace may bring
  Kinds,            \* the kinds of call that are made
  RepeatedIds,      \* may a reorder request name an id twice?
  MutateAttempts,   \* lock attempts of a mutation (50 in the code)
  AdvanceAttempts,  \* lock attempts of advance (500 in the code)
  MaxCalls,         \* bound: calls made in a behaviour
  SlowHolders, RedisMayFail, MayCrash,
  NoCall, NoAnswer, NoToken

ASSUME TokenAssumption == NoToken \notin Procs

ASSUME KindsAssumption ==
  Kinds \subseteq {"add", "addNext", "remove", "clear", "replace", "reorder",
                   "updateTrackMetadata", "advance", "placeCurrent",
                   "insertAtCurrent", "setIndex"}

ASSUME AttemptsAssumption ==
  /\ MutateAttempts \in Nat \ {0}
  /\ AdvanceAttempts \in Nat \ {0}

ASSUME ListsAssumption ==
  /\ StartTracks \in Seq(Tracks)
  /\ Playlists \subseteq Seq(Tracks)

ASSUME MaxCallsAssumption == MaxCalls \in Nat

VARIABLES
  queue,    \* Redis: the queue
  index,    \* Redis: the cursor
  lock,     \* Redis: the lock key; a call's token is named by its process
  pc,       \* pc[p]: the await p is at
  call,     \* call[p]: the call p makes
  attempt,  \* attempt[p]: failed attempts to take the lock
  readQ,    \* readQ[p]: the queue as p read it
  readI,    \* readI[p]: the cursor as p read it
  answer,   \* answer[p]: what p's function computed, or its error
  fresh,    \* the next unused item id (randomUUID)
  calls     \* calls made so far

redis == <<queue, index, lock>>
locals == <<pc, call, attempt, readQ, readI, answer>>
vars == <<queue, index, lock, pc, call, attempt, readQ, readI, answer, fresh, calls>>

\* The awaits between a successful SET NX and the release.
Critical == {"readQueue", "readIndex", "writeQueue", "writeIndex", "moveIndex", "release"}

-----------------------------------------------------------------------------
\* The calls a request can make now: what a client can know of the queue.
CallsOf(kind) ==
  CASE kind \in {"add", "addNext", "insertAtCurrent"} ->
         {[kind |-> kind, item |-> NewItem(fresh, t)] : t \in Tracks}
    [] kind = "remove" -> {[kind |-> kind, id |-> id] : id \in 1..(fresh - 1)}
    [] kind = "replace" ->
         UNION {{[kind |-> kind, at |-> at,
                  items |-> [k \in DOMAIN ts |-> NewItem(fresh + k - 1, ts[k])]]
                   : at \in 0..Len(ts)} : ts \in Playlists}
    [] kind = "reorder" ->
         {[kind |-> kind, order |-> o] :
            o \in {s \in [1..Len(queue) -> 1..(fresh - 1)] :
                     s # <<>> /\ (RepeatedIds \/ IsInjective(s))}}
    [] kind \in {"updateTrackMetadata", "placeCurrent"} ->
         {[kind |-> kind, track |-> t] : t \in Tracks}
    [] kind = "setIndex" ->
         {[kind |-> kind, at |-> k - 1] : k \in DOMAIN queue}
    [] kind \in {"clear", "advance"} -> {[kind |-> kind]}

\* Item ids the call takes from randomUUID.
NewIds(c) ==
  CASE c.kind \in {"add", "addNext", "insertAtCurrent"} -> 1
    [] c.kind = "replace" -> Len(c.items)
    [] OTHER -> 0

AttemptsOf(c) == IF c.kind = "advance" THEN AdvanceAttempts ELSE MutateAttempts

StartQueue == [k \in DOMAIN StartTracks |-> NewItem(k, StartTracks[k])]

Init ==
  /\ queue = StartQueue
  /\ index = 0
  /\ lock = NoToken
  /\ pc = [p \in Procs |-> "idle"]
  /\ call = [p \in Procs |-> NoCall]
  /\ attempt = [p \in Procs |-> 0]
  /\ readQ = [p \in Procs |-> <<>>]
  /\ readI = [p \in Procs |-> 0]
  /\ answer = [p \in Procs |-> NoAnswer]
  /\ fresh = Len(StartTracks) + 1
  /\ calls = 0

Goto(p, l) == pc' = [pc EXCEPT ![p] = l]

\* p's locals once its method has returned or thrown.
Forget(p) ==
  /\ pc' = [pc EXCEPT ![p] = "idle"]
  /\ call' = [call EXCEPT ![p] = NoCall]
  /\ attempt' = [attempt EXCEPT ![p] = 0]
  /\ readQ' = [readQ EXCEPT ![p] = <<>>]
  /\ readI' = [readI EXCEPT ![p] = 0]
  /\ answer' = [answer EXCEPT ![p] = NoAnswer]

\* A request calls a method of QueueService.
Begin(p) ==
  /\ pc[p] = "idle"
  /\ calls < MaxCalls
  /\ \E kind \in Kinds : \E c \in CallsOf(kind) :
       /\ call' = [call EXCEPT ![p] = c]
       /\ fresh' = fresh + NewIds(c)
       /\ Goto(p, IF kind = "setIndex" THEN "setIndex" ELSE "lock")
  /\ calls' = calls + 1
  /\ UNCHANGED <<redis, attempt, readQ, readI, answer>>

\* Mutant: SET without NX.
AcquireWithoutNX(p) ==
  /\ pc[p] = "lock"
  /\ lock' = p
  /\ Goto(p, "readQueue")
  /\ UNCHANGED <<queue, index, call, attempt, readQ, readI, answer, fresh, calls>>

\* SET lock token EX 5 NX succeeds.
Acquire(p) ==
  /\ pc[p] = "lock"
  /\ lock = NoToken
  /\ lock' = p
  /\ Goto(p, "readQueue")
  /\ UNCHANGED <<queue, index, call, attempt, readQ, readI, answer, fresh, calls>>

\* SET NX fails; back off and try again.
Retry(p) ==
  /\ pc[p] = "lock"
  /\ lock # NoToken
  /\ attempt[p] + 1 < AttemptsOf(call[p])
  /\ attempt' = [attempt EXCEPT ![p] = @ + 1]
  /\ UNCHANGED <<redis, pc, call, readQ, readI, answer, fresh, calls>>

\* The last attempt failed: QUEUE_CONFLICT or QUEUE_LOCK_TIMEOUT.
Conflict(p) ==
  /\ pc[p] = "lock"
  /\ lock # NoToken
  /\ attempt[p] + 1 >= AttemptsOf(call[p])
  /\ answer' = [answer EXCEPT ![p] = Throws(<<>>, 0)]
  /\ Goto(p, "return")
  /\ UNCHANGED <<redis, call, attempt, readQ, readI, fresh, calls>>

ReadQueue(p) ==
  /\ pc[p] = "readQueue"
  /\ readQ' = [readQ EXCEPT ![p] = queue]
  /\ Goto(p, "readIndex")
  /\ UNCHANGED <<redis, call, attempt, readI, answer, fresh, calls>>

\* Where a computed outcome sends the handler: advance writes the cursor
\* only, the others write the queue and then the cursor, and an error or an
\* exhausted queue goes straight to the finally block.
AfterRead(c, o) ==
  IF o.status # "ok" THEN "release"
  ELSE IF c.kind = "advance" THEN "moveIndex" ELSE "writeQueue"

\* The cursor arrives and the synchronous function runs on what was read.
ReadIndex(p) ==
  /\ pc[p] = "readIndex"
  /\ readI' = [readI EXCEPT ![p] = index]
  /\ LET o == Outcome(call[p], readQ[p], index)
     IN  /\ answer' = [answer EXCEPT ![p] = o]
         /\ Goto(p, AfterRead(call[p], o))
  /\ UNCHANGED <<redis, call, attempt, readQ, fresh, calls>>

WriteQueue(p) ==
  /\ pc[p] = "writeQueue"
  /\ queue' = answer[p].queue
  /\ Goto(p, "writeIndex")
  /\ UNCHANGED <<index, lock, call, attempt, readQ, readI, answer, fresh, calls>>

\* Mutant: the cursor is not written back.
WriteIndexForgotten(p) ==
  /\ pc[p] = "writeIndex"
  /\ Goto(p, "release")
  /\ UNCHANGED <<redis, call, attempt, readQ, readI, answer, fresh, calls>>

\* The cursor write of a mutation, behind its queue write ...
WriteIndex(p) ==
  /\ pc[p] = "writeIndex"
  /\ index' = answer[p].index
  /\ Goto(p, "release")
  /\ UNCHANGED <<queue, lock, call, attempt, readQ, readI, answer, fresh, calls>>

\* ... and the only write of advance.
MoveIndex(p) ==
  /\ pc[p] = "moveIndex"
  /\ index' = answer[p].index
  /\ Goto(p, "release")
  /\ UNCHANGED <<queue, lock, call, attempt, readQ, readI, answer, fresh, calls>>

\* Mutant: a plain DEL, whoever holds the lock.
ReleaseUnchecked(p) ==
  /\ pc[p] = "release"
  /\ lock' = NoToken
  /\ Forget(p)
  /\ UNCHANGED <<queue, index, fresh, calls>>

\* RELEASE_LUA: the lock goes only if it still holds p's token.
Release(p) ==
  /\ pc[p] = "release"
  /\ lock' = IF lock = p THEN NoToken ELSE lock
  /\ Forget(p)
  /\ UNCHANGED <<queue, index, fresh, calls>>

\* setIndex(index): one write, no lock.
SetIndex(p) ==
  /\ pc[p] = "setIndex"
  /\ index' = call[p].at
  /\ answer' = [answer EXCEPT ![p] = Ok(queue, call[p].at, NoItem)]
  /\ Goto(p, "return")
  /\ UNCHANGED <<queue, lock, call, attempt, readQ, readI, fresh, calls>>

Return(p) ==
  /\ pc[p] = "return"
  /\ Forget(p)
  /\ UNCHANGED <<redis, fresh, calls>>

-----------------------------------------------------------------------------
\* Mutant: the lock is set without EX.
ExpireNever == FALSE /\ UNCHANGED vars

\* Redis drops the lock 5 s after it was taken.  A lock whose holder is gone
\* always gets there; a lock whose holder is still at work only if the
\* holder is slower than the TTL.
Expire ==
  /\ lock # NoToken
  /\ SlowHolders \/ lock \notin {p \in Procs : pc[p] \in Critical}
  /\ lock' = NoToken
  /\ UNCHANGED <<queue, index, locals, fresh, calls>>

\* A read or a write of the critical section is rejected: the function's
\* result is lost and the finally block runs.  The write itself may or may
\* not have reached Redis.
RedisFails(p) ==
  /\ RedisMayFail
  /\ pc[p] \in Critical \ {"release"}
  /\ \/ UNCHANGED <<queue, index>>
     \/ pc[p] = "writeQueue" /\ queue' = answer[p].queue /\ UNCHANGED index
     \/ pc[p] \in {"writeIndex", "moveIndex"} /\ index' = answer[p].index /\ UNCHANGED queue
  /\ answer' = [answer EXCEPT ![p] = Throws(<<>>, 0)]
  /\ Goto(p, "release")
  /\ UNCHANGED <<lock, call, attempt, readQ, readI, fresh, calls>>

\* The release itself is rejected; its error is swallowed and the lock stays.
ReleaseFails(p) ==
  /\ RedisMayFail
  /\ pc[p] = "release"
  /\ Forget(p)
  /\ UNCHANGED <<redis, fresh, calls>>

\* The server process dies: every handler is gone, Redis keeps its keys.
Crash ==
  /\ MayCrash
  /\ \E p \in Procs : pc[p] # "idle"
  /\ pc' = [p \in Procs |-> "idle"]
  /\ call' = [p \in Procs |-> NoCall]
  /\ attempt' = [p \in Procs |-> 0]
  /\ readQ' = [p \in Procs |-> <<>>]
  /\ readI' = [p \in Procs |-> 0]
  /\ answer' = [p \in Procs |-> NoAnswer]
  /\ UNCHANGED <<redis, fresh, calls>>

-----------------------------------------------------------------------------
\* What p does on its own once it is called.
Step(p) ==
  \/ Acquire(p) \/ Retry(p) \/ Conflict(p)
  \/ ReadQueue(p) \/ ReadIndex(p)
  \/ WriteQueue(p) \/ WriteIndex(p) \/ MoveIndex(p)
  \/ Release(p) \/ SetIndex(p) \/ Return(p)

Fault(p) == RedisFails(p) \/ ReleaseFails(p)

Next ==
  \/ \E p \in Procs : Begin(p) \/ Step(p) \/ Fault(p)
  \/ Expire
  \/ Crash

Spec == Init /\ [][Next]_vars

\* The event loop resumes every handler whose Redis answer has arrived, and
\* Redis applies a TTL.
Fairness == WF_vars(Expire) /\ \A p \in Procs : WF_vars(Step(p))

FairSpec == Spec /\ Fairness

-----------------------------------------------------------------------------
(***************************************************************************)
(* What the service promises.                                              *)
(***************************************************************************)
Items(n) == [id : 1..n, track : Tracks, patched : BOOLEAN]

\* Every variable has its type: Redis holds a queue of items with ids already
\* handed out, and a handler holds a lock only as a process.
TypeOK ==
  /\ queue \in Seq(Items(fresh - 1))
  /\ index \in Nat
  /\ lock \in Procs \cup {NoToken}
  /\ pc \in [Procs -> Critical \cup {"idle", "lock", "setIndex", "return"}]
  /\ attempt \in [Procs -> Nat]
  /\ \A p \in Procs : /\ readQ[p] \in Seq(Items(fresh - 1))
                      /\ readI[p] \in Nat
                      /\ pc[p] = "idle" => call[p] = NoCall /\ answer[p] = NoAnswer
                      /\ attempt[p] < MutateAttempts + AdvanceAttempts
  /\ calls \in 0..MaxCalls

\* At most one handler is between its SET NX and its release, and the lock
\* names it: "a lock is the reliable way to serialize mutations".
MutualExclusion ==
  \A p \in Procs : pc[p] \in Critical => lock = p

\* What a handler read is still what Redis holds when it writes: nothing it
\* overwrites was changed behind its back, so no update of queue or cursor
\* is lost ("concurrent controllers can never lose each other's updates").
NoLostUpdate ==
  \A p \in Procs :
    /\ pc[p] \in {"readIndex", "writeQueue"} => readQ[p] = queue
    /\ pc[p] \in {"writeQueue", "writeIndex", "moveIndex"} => readI[p] = index

\* A lock that is held goes away only through the release of the call that
\* took it or through its TTL: "a stale release can't unlock someone else's
\* critical section".
OnlyOwnerReleases ==
  [][\A p \in Procs :
       lock = p /\ lock' # p /\ ~Expire => pc[p] = "release" /\ pc'[p] = "idle"]_vars

\* Reordering moves items and never drops one ("must cover all items").
ReorderKeepsItems ==
  [][\A p \in Procs :
       pc[p] = "writeQueue" /\ call[p].kind = "reorder" /\ queue' # queue
         => IdsOf(queue') = IdsOf(queue)]_vars

\* No lock outlives its call for good: whoever holds it, it is released or
\* expires, even when the release is rejected or the server dies.
LockIsFreed == \A p \in Procs : lock = p ~> lock # p

\* The abstract contract: a mutation takes effect at its queue write, when
\* its cursor is already decided; advance at its cursor write.
Phase(l) ==
  CASE l = "idle" -> "idle"
    [] l \in {"writeIndex", "release", "return"} -> "done"
    [] OTHER -> "called"

\* The cursor a handler between its two writes is about to write; Redis' own
\* when there is no such handler.
CursorOf(at, ans, i) ==
  IF \E p \in Procs : at[p] = "writeIndex"
  THEN ans[CHOOSE p \in Procs : at[p] = "writeIndex"].index
  ELSE i

AbstractIndex == CursorOf(pc, answer, index)
AbstractPhase == [p \in Procs |-> Phase(pc[p])]
AbstractAnswer == [p \in Procs |-> IF Phase(pc[p]) = "done" THEN answer[p] ELSE NoAnswer]

Abstract ==
  INSTANCE AtomicQueue WITH
    Apply <- Outcome,
    Refused <- Throws(<<>>, 0),
    index <- AbstractIndex,
    phase <- AbstractPhase,
    answer <- AbstractAnswer

\* Every call of the service takes effect at one instant or not at all.
Atomic == Abstract!Spec
=============================================================================
