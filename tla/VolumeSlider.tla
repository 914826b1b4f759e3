---------------------------- MODULE VolumeSlider ----------------------------
(***************************************************************************)
(* The volume slider of the web client                                     *)
(* (apps/web/src/components/Player.vue).  A drag makes an input event per  *)
(* movement; the first is sent at once, those within 250 ms of the last    *)
(* volume sent wait on a timer that each of them sets anew.  The mute      *)
(* button sends at once and knows of no timer.                             *)
(*                                                                         *)
(* A timer set within the 250 ms fires after they are over: it is ripe     *)
(* then.  Setting the slider to another volume that the server reports is  *)
(* left out.                                                               *)
(***************************************************************************)
EXTENDS Naturals

CONSTANTS
  Volumes,    \* positions of the slider; 0 is mute
  FirstVolume,
  NoTimer,
  MaxInputs   \* bound: what the user does

VARIABLES
  volumeLocal,  \* where the slider stands
  lastVolume,   \* what to go back to from mute
  sent,         \* the volume last sent
  recent,       \* less than 250 ms since volumeInput sent one (lastVolumeSent)
  volumeTimer,  \* [volume, ripe] or NoTimer
  inputs

vars == <<volumeLocal, lastVolume, sent, recent, volumeTimer, inputs>>

Init ==
  /\ volumeLocal = FirstVolume /\ lastVolume = FirstVolume /\ sent = FirstVolume
  /\ recent = FALSE /\ volumeTimer = NoTimer
  /\ inputs = 0

Acts == inputs < MaxInputs /\ inputs' = inputs + 1

\* volumeInput, 250 ms or more after the last volume it sent: a timer that is
\* set stays set.
SendNow(v) ==
  /\ Acts /\ ~recent
  /\ volumeLocal' = v /\ sent' = v /\ recent' = TRUE
  /\ UNCHANGED <<lastVolume, volumeTimer>>

\* volumeInput, sooner.
SendLater(v) ==
  /\ Acts /\ recent
  /\ volumeLocal' = v
  /\ volumeTimer' = [volume |-> v, ripe |-> FALSE]
  /\ UNCHANGED <<lastVolume, sent, recent>>

ToggleMute ==
  /\ Acts
  /\ volumeLocal' = IF volumeLocal > 0 THEN 0 ELSE lastVolume
  /\ lastVolume' = IF volumeLocal > 0 THEN volumeLocal ELSE lastVolume
  /\ sent' = volumeLocal'
  /\ UNCHANGED <<recent, volumeTimer>>

\* 250 ms are over.
Quiet ==
  /\ recent /\ recent' = FALSE
  /\ volumeTimer' = IF volumeTimer = NoTimer THEN NoTimer ELSE [volumeTimer EXCEPT !.ripe = TRUE]
  /\ UNCHANGED <<volumeLocal, lastVolume, sent, inputs>>

Fire ==
  /\ volumeTimer # NoTimer /\ volumeTimer.ripe
  /\ sent' = volumeTimer.volume /\ recent' = TRUE
  /\ volumeTimer' = NoTimer
  /\ UNCHANGED <<volumeLocal, lastVolume, inputs>>

Next == (\E v \in Volumes : SendNow(v) \/ SendLater(v)) \/ ToggleMute \/ Quiet \/ Fire

Spec == Init /\ [][Next]_vars

-----------------------------------------------------------------------------
\* "the web already debounces them and only the latest value matters"
\* (ws-rate-limit.ts:11): when no timer is set, the volume last sent is the one
\* the slider shows.  It is not: a timer that an input outside the 250 ms, or the
\* mute button, leaves set sends its older volume after theirs.
LatestIsSent == volumeTimer = NoTimer => sent = volumeLocal
=============================================================================
