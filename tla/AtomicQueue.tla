---------------------------- MODULE AtomicQueue -----------------------------
(***************************************************************************)
(* What the queue of an account promises its callers: every call takes     *)
(* effect at one instant between its start and its answer, on the queue    *)
(* and the cursor together, or it is refused and changes nothing.  This is *)
(* the contract behind "concurrent controllers can never lose each other's *)
(* updates" (queue.service.ts, class comment).  It knows nothing of locks, *)
(* and of the calls only that each has an outcome.                         *)
(***************************************************************************)
CONSTANTS Procs,           \* the requests in progress on the server
          Apply(_, _, _),  \* Apply(c, q, i): the outcome of c on queue q, cursor i
          Refused,         \* the answer of a refused call
          NoCall,          \* the call of an idle process
          NoAnswer         \* the answer of a process that has none yet

VARIABLES queue,    \* the account's queue
          index,    \* its cursor
          phase,    \* phase[p]: "idle", "called" or "done"
          call,     \* call[p]: what p asked for
          answer    \* answer[p]: the outcome p is about to return

vars == <<queue, index, phase, call, answer>>

Init ==
  /\ phase = [p \in Procs |-> "idle"]
  /\ call = [p \in Procs |-> NoCall]
  /\ answer = [p \in Procs |-> NoAnswer]

\* p starts a call; which one is the environment's choice.
Call(p) ==
  /\ phase[p] = "idle"
  /\ phase' = [phase EXCEPT ![p] = "called"]
  /\ call' = [call EXCEPT ![p] = call'[p]]
  /\ UNCHANGED <<queue, index, answer>>

\* The call takes effect, all at once.
Effect(p) ==
  /\ phase[p] = "called"
  /\ phase' = [phase EXCEPT ![p] = "done"]
  /\ answer' = [answer EXCEPT ![p] = Apply(call[p], queue, index)]
  /\ queue' = Apply(call[p], queue, index).queue
  /\ index' = Apply(call[p], queue, index).index
  /\ UNCHANGED call

\* The call is refused (contention) and has no effect.
Refuse(p) ==
  /\ phase[p] = "called"
  /\ phase' = [phase EXCEPT ![p] = "done"]
  /\ answer' = [answer EXCEPT ![p] = Refused]
  /\ UNCHANGED <<queue, index, call>>

Return(p) ==
  /\ phase[p] = "done"
  /\ phase' = [phase EXCEPT ![p] = "idle"]
  /\ call' = [call EXCEPT ![p] = NoCall]
  /\ answer' = [answer EXCEPT ![p] = NoAnswer]
  /\ UNCHANGED <<queue, index>>

Next == \E p \in Procs : Call(p) \/ Effect(p) \/ Refuse(p) \/ Return(p)

Spec == Init /\ [][Next]_vars
=============================================================================
