----------------------------- MODULE VolumeRamp -----------------------------
(***************************************************************************)
(* The smooth volume changes of a player agent (apps/player/src/mpv.ts,    *)
(* setVolumeSmooth and volumeRampPlan).  A call cancels the ramp in        *)
(* progress, asks mpv for its volume, and when the answer comes walks to   *)
(* the target in steps, one per timer.  The field rampTimer remembers one  *)
(* timer; a ramp whose timer it has forgotten cannot be cancelled.         *)
(*                                                                         *)
(* A call is "idle", "asked" (getVolume is on its way to mpv), "measured"  *)
(* (mpv has answered; the await resumes before any other callback runs),   *)
(* or "ramping" (its timer is armed).  mpv answers in order, and keeps    *)
(* the volume it is given.                                                 *)
(***************************************************************************)
EXTENDS Integers, Sequences

CONSTANTS
  Calls,     \* the calls of setVolumeSmooth that may be in progress
  BootVolume, \* what mpv starts with
  Levels,    \* the volumes asked for
  CallsApart, \* environment: a call comes only when no other waits for mpv
  NoCall,
  NoLevel

VARIABLES
  volume,    \* what mpv plays at
  ramps,     \* ramps[c]: [at, target, from, ticks]
  asking,    \* the calls that wait for mpv, in order
  rampTimer, \* the ramp whose timer the field remembers
  wanted     \* history: the volume asked for last, until a stop

vars == <<volume, ramps, asking, rampTimer, wanted>>

Idle == [at |-> "idle", target |-> 0, from |-> 0, ticks |-> 0]

Init ==
  /\ volume = BootVolume
  /\ ramps = [c \in Calls |-> Idle]
  /\ asking = <<>>
  /\ rampTimer = NoCall
  /\ wanted = NoLevel

Distance(r) == IF r.target > r.from THEN r.target - r.from ELSE r.from - r.target

\* Half a step per unit, rounded up, at least two steps and at most sixty.
Steps(r) ==
  LET half == (Distance(r) + 1) \div 2
  IN  IF half < 2 THEN 2 ELSE IF half > 60 THEN 60 ELSE half

\* Math.round(from + ticks * delta).
Rounded(r, ticks) ==
  (2 * (r.from * Steps(r) + ticks * (r.target - r.from)) + Steps(r)) \div (2 * Steps(r))

\* clearTimeout of the timer the field remembers.
Cancelled == IF rampTimer = NoCall THEN ramps ELSE [ramps EXCEPT ![rampTimer] = Idle]

\* No await is about to resume: other callbacks may run.
Resumed == \A c \in Calls : ramps[c].at # "measured"

\* Mutant: the ramp in progress is not cancelled.
SetVolumeOverRamp(c, v) ==
  /\ ramps[c].at = "idle" /\ Resumed
  /\ CallsApart => asking = <<>>
  /\ ramps' = [ramps EXCEPT ![c] = [Idle EXCEPT !.at = "asked", !.target = v]]
  /\ asking' = Append(asking, c)
  /\ rampTimer' = NoCall
  /\ wanted' = v
  /\ UNCHANGED volume

\* setVolumeSmooth up to its await.
SetVolume(c, v) ==
  /\ ramps[c].at = "idle" /\ Resumed
  /\ CallsApart => asking = <<>>
  /\ ramps' = [Cancelled EXCEPT ![c] = [Idle EXCEPT !.at = "asked", !.target = v]]
  /\ asking' = Append(asking, c)
  /\ rampTimer' = NoCall
  /\ wanted' = v
  /\ UNCHANGED volume

\* mpv answers get_property volume.
Measure(c) ==
  /\ \E k \in DOMAIN asking :
       /\ asking[k] = c /\ ramps[c].at = "asked"
       /\ \A j \in 1..k-1 : ramps[asking[j]].at = "measured"
  /\ ramps' = [ramps EXCEPT ![c].at = "measured", ![c].from = volume]
  /\ UNCHANGED <<volume, asking, rampTimer, wanted>>

\* tick: one step of the ramp; the last one lands on the target.  The field is
\* overwritten, whatever ramp it remembered.
Walk(c) ==
  LET r == ramps[c]
      done == r.ticks + 1 = Steps(r)
  IN  /\ volume' = IF done THEN r.target ELSE Rounded(r, r.ticks + 1)
      /\ ramps' = [ramps EXCEPT ![c] =
                     IF done THEN Idle ELSE [r EXCEPT !.at = "ramping", !.ticks = @ + 1]]
      /\ rampTimer' = IF done THEN NoCall ELSE c
      /\ UNCHANGED wanted

\* The await resumes: one jump of less than 1, or the first step of the ramp.
Begin(c) ==
  /\ asking # <<>> /\ Head(asking) = c /\ ramps[c].at = "measured"
  /\ asking' = Tail(asking)
  /\ \/ /\ Distance(ramps[c]) = 0
        /\ volume' = ramps[c].target
        /\ ramps' = [ramps EXCEPT ![c] = Idle]
        /\ UNCHANGED <<rampTimer, wanted>>
     \/ Distance(ramps[c]) # 0 /\ Walk(c)

Tick(c) == ramps[c].at = "ramping" /\ Resumed /\ Walk(c) /\ UNCHANGED asking

\* stop: the ramp ends where it is.
Stop ==
  /\ Resumed
  /\ ramps' = Cancelled
  /\ rampTimer' = NoCall
  /\ wanted' = NoLevel
  /\ UNCHANGED <<volume, asking>>

Next ==
  \/ \E c \in Calls, v \in Levels : SetVolume(c, v)
  \/ \E c \in Calls : Measure(c) \/ Begin(c) \/ Tick(c)
  \/ Stop

Spec == Init /\ [][Next]_vars

-----------------------------------------------------------------------------
TypeOK ==
  /\ volume \in Nat
  /\ ramps \in [Calls -> [at : {"idle", "asked", "measured", "ramping"},
                          target : Nat, from : Nat, ticks : 0..60]]
  /\ asking \in Seq(Calls)
  /\ rampTimer \in Calls \cup {NoCall}
  /\ wanted \in Levels \cup {NoLevel}

\* "A new target restarts from wherever the ramp is right now - never fights
\* the previous ramp" (mpv.ts:378): once no ramp is left, mpv plays at the
\* volume that was asked for last.
LastTargetWins ==
  (wanted # NoLevel /\ \A c \in Calls : ramps[c].at = "idle") => volume = wanted
=============================================================================
