--------------------------- MODULE HandoffProofs ----------------------------
(***************************************************************************)
(* Theorems about Handoff, for any tracks, any bounds and any choice of    *)
(* what may go wrong: a busy target, reports sent early, loads that fail   *)
(* or start late, devices that go offline.  Each theorem names those of    *)
(* them it survives.                                                       *)
(***************************************************************************)
EXTENDS Handoff, FiniteSetTheorems, TLAPS

-----------------------------------------------------------------------------
(***************************************************************************)
(* Types.                                                                  *)
(***************************************************************************)

\* The shape of every variable, as the proof of the invariant needs it.
AgentShape ==
  /\ agent \in [Devices -> [now : Optional, loading : Optional, id : Optional,
                            status : {"stopped", "playing"}]]
  /\ \A d \in Devices : agent[d].status = "stopped" => agent[d].now = NoTrack
MailShape ==
  /\ mail \in [Devices -> Seq(Reports)]
  /\ \A d \in Devices : Len(mail[d]) <= MaxMail
RecoveryShape ==
  /\ cursor \in Optional
  /\ failed \in [Devices -> BOOLEAN]
  /\ budget \in [Devices -> [track : Optional, count : 0..MaxTrackRetries]]
  /\ streak \in [Devices -> 0..(MaxConsecutiveErrors - 1)]
  /\ failures \in 0..MaxFailures
Shape ==
  /\ pc \in {"idle", "load", "patch", "wait", "rollback", "commit", "commitPatch", "ok", "failed"}
  /\ want \in Optional
  /\ st \in [Devices -> [state : {"stopped", "playing", "paused"}, track : Optional]]
  /\ AgentShape
  /\ MailShape
  /\ RecoveryShape
  /\ online \in [Devices -> BOOLEAN] /\ parking \in [Devices -> BOOLEAN]

\* At the start both devices play or are silent, and nothing is on its way.
LEMMA ShapeInit == Init => Shape
<1> SUFFICES ASSUME Init PROVE Shape
  OBVIOUS
<1> USE DEF Init, Devices, Optional, Playing, Silent
<1>1. PICK other \in Optional :
        /\ agent = [source |-> Playing(Song),
                    target |-> IF other = NoTrack THEN Silent ELSE Playing(other)]
        /\ st = [source |-> [state |-> "playing", track |-> Song],
                 target |-> [state |-> IF other = NoTrack THEN "stopped" ELSE "playing",
                             track |-> other]]
  OBVIOUS
<1>2. /\ st \in [Devices -> [state : {"stopped", "playing", "paused"}, track : Optional]]
      /\ AgentShape
  BY <1>1 DEF AgentShape
<1>3. MailShape
  BY SettingsAreNumbers DEF MailShape
<1>4. RecoveryShape
  BY SettingsAreNumbers DEF RecoveryShape, NoRetries
<1>5. QED
  BY <1>2, <1>3, <1>4 DEF Shape

\* Sending or stopping a device keeps its shape.
LEMMA SendsKeepShape ==
  ASSUME AgentShape, NEW d \in Devices, NEW t \in Optional,
         agent' = ToLoad(d, t) \/ agent' = ToStop(d) \/ UNCHANGED agent
  PROVE  AgentShape'
BY DEF AgentShape, ToLoad, ToStop, Optional

\* So does the recovery from a failed load.
LEMMA RecoverKeepsShape ==
  ASSUME Shape, NEW d \in Devices, Recover(d)
  PROVE  Shape'
<1> USE SettingsAreNumbers
<1>1. /\ failed' = [failed EXCEPT ![d] = FALSE]
      /\ UNCHANGED <<pc, want, mail, online, parking, failures>>
  BY DEF Recover, Retry, MoveOn, Surrender, IgnoreError, links
<1>2. failed' \in [Devices -> BOOLEAN]
  BY <1>1, Zenon DEF Shape, RecoveryShape
<1>3. st[d].track \in Optional /\ Used(d) \in 0..MaxTrackRetries
  BY DEF Shape, RecoveryShape, Used
<1>4. {Song, OtherSong, NoTrack} = Optional
  BY DEF Optional
<1>5. /\ cursor' \in Optional
      /\ budget' \in [Devices -> [track : Optional, count : 0..MaxTrackRetries]]
      /\ streak' \in [Devices -> 0..(MaxConsecutiveErrors - 1)]
  <2>1. CASE Retry(d)
    <3>1. Used(d) + 1 \in 0..MaxTrackRetries
      BY <1>3, <2>1 DEF Retry, MayRetry
    <3>2. QED
      BY <1>3, <2>1, <3>1 DEF Retry, Shape, RecoveryShape
  <2>2. CASE MoveOn(d)
    <3>1. streak' \in [Devices -> 0..(MaxConsecutiveErrors - 1)]
      BY <2>2 DEF MoveOn, Shape, RecoveryShape
    <3>2. cursor' \in Optional
      BY <1>4, <2>2 DEF MoveOn, Shape, RecoveryShape
    <3>3. budget' = [budget EXCEPT ![d] = NoRetries] \/ budget' = budget
      BY <2>2 DEF MoveOn
    <3>4. budget' \in [Devices -> [track : Optional, count : 0..MaxTrackRetries]]
      BY <1>4, <3>3 DEF NoRetries, Shape, RecoveryShape
    <3>5. QED
      BY <3>1, <3>2, <3>4
  <2>3. CASE Surrender(d)
    BY <1>4, <2>3 DEF Surrender, NoRetries, Shape, RecoveryShape
  <2>4. CASE IgnoreError(d)
    BY <2>4 DEF IgnoreError, Shape, RecoveryShape
  <2>5. QED
    BY <2>1, <2>2, <2>3, <2>4 DEF Recover
<1>6. /\ AgentShape'
      /\ st' \in [Devices -> [state : {"stopped", "playing", "paused"}, track : Optional]]
  <2>1. ASSUME NEW t \in Optional, LoadOn(d, t)
        PROVE  /\ AgentShape'
               /\ st' \in [Devices -> [state : {"stopped", "playing", "paused"}, track : Optional]]
    <3>1. agent' = ToLoad(d, t) \/ UNCHANGED agent
      BY <2>1 DEF LoadOn
    <3>2. AgentShape'
      BY <3>1, SendsKeepShape DEF Shape
    <3>3. QED
      BY <2>1, <3>2 DEF LoadOn, Shape
  <2>2. CASE Retry(d)
    BY <1>3, <2>1, <2>2 DEF Retry
  <2>3. CASE MoveOn(d)
    <3>1. CASE \E t \in {Song, OtherSong} : LoadOn(d, t)
      BY <1>4, <2>1, <3>1
    <3>2. CASE ~\E t \in {Song, OtherSong} : LoadOn(d, t)
      <4>1. \/ agent' = ToStop(d) /\ st' = [st EXCEPT ![d].state = "stopped"]
            \/ UNCHANGED <<agent, st>>
        BY <2>3, <3>2 DEF MoveOn
      <4>2. AgentShape'
        BY <1>3, <4>1, SendsKeepShape DEF Shape
      <4>3. QED
        BY <4>1, <4>2 DEF Shape
    <3>3. QED
      BY <3>1, <3>2
  <2>4. CASE Surrender(d) \/ IgnoreError(d)
    BY <2>4 DEF Surrender, IgnoreError, Shape, AgentShape
  <2>5. QED
    BY <2>2, <2>3, <2>4 DEF Recover
<1>7. QED
  BY <1>1, <1>2, <1>5, <1>6 DEF Shape, MailShape, RecoveryShape

\* Every step of the handler, of an agent and of the network keeps the shape.
LEMMA ShapeNext == Shape /\ [Next]_vars => Shape'
<1> SUFFICES ASSUME Shape, [Next]_vars PROVE Shape'
  OBVIOUS
<1> USE SettingsAreNumbers DEF Devices, recovery, links
<1>1. CASE Begin
  BY <1>1 DEF Begin, Shape, AgentShape, MailShape, RecoveryShape
<1>2. CASE SendLoad \/ Timeout \/ StopSource
  <2>1. AgentShape'
    BY <1>2, SendsKeepShape DEF SendLoad, Timeout, StopSource, Shape, Optional
  <2>2. QED
    BY <1>2, <2>1 DEF SendLoad, Timeout, StopSource, Shape, MailShape, RecoveryShape
<1>3. CASE PatchTarget \/ Rollback \/ CommitPatch \/ Poll
  BY <1>3 DEF PatchTarget, Rollback, CommitPatch, Poll, Shape, AgentShape, MailShape,
              RecoveryShape, Optional
<1>4. ASSUME NEW d \in Devices, Starts(d)
      PROVE  Shape'
  <2>1. AgentShape'
    BY <1>4 DEF Starts, Playing, Shape, AgentShape, Optional
  <2>2. QED
    BY <1>4, <2>1 DEF Starts, Shape, MailShape, RecoveryShape
<1>5. ASSUME NEW d \in Devices, LoadFails(d)
      PROVE  Shape'
  <2>1. failed' \in [Devices -> BOOLEAN]
    BY <1>5, Zenon DEF LoadFails, Shape, RecoveryShape
  <2>2. failures' \in 0..MaxFailures
    BY <1>5 DEF LoadFails, Shape, RecoveryShape
  <2>3. AgentShape'
    BY <1>5 DEF LoadFails, Shape, AgentShape, Optional
  <2>4. UNCHANGED <<pc, want, cursor, st, mail, online, parking, budget, streak>>
    BY <1>5 DEF LoadFails
  <2>5. QED
    BY <2>1, <2>2, <2>3, <2>4 DEF Shape, MailShape, RecoveryShape
<1>6. ASSUME NEW d \in Devices, Recover(d)
      PROVE  Shape'
  BY <1>6, RecoverKeepsShape
<1>7. ASSUME NEW d \in Devices, SendReport(d)
      PROVE  Shape'
  <2>1. [state |-> agent[d].status, track |-> agent[d].id] \in Reports
    BY DEF Shape, AgentShape, Reports
  <2>2. MailShape'
    BY <1>7, <2>1 DEF SendReport, Shape, MailShape
  <2>3. QED
    BY <1>7, <2>2 DEF SendReport, Shape, AgentShape, RecoveryShape
<1>8. ASSUME NEW d \in Devices, ApplyReport(d)
      PROVE  Shape'
  <2>1. Head(mail[d]) \in Reports
    BY <1>8 DEF ApplyReport, Shape, MailShape
  <2>2. st' \in [Devices -> [state : {"stopped", "playing", "paused"}, track : Optional]]
    BY <1>8, <2>1 DEF ApplyReport, Reports, Shape
  <2>3. MailShape'
    BY <1>8 DEF ApplyReport, Shape, MailShape
  <2>4. QED
    BY <1>8, <2>2, <2>3 DEF ApplyReport, Shape, AgentShape, RecoveryShape
<1>9. ASSUME NEW d \in Devices, Disconnect(d) \/ GraceEnds(d) \/ Park(d)
      PROVE  Shape'
  <2>1. online' \in [Devices -> BOOLEAN] /\ parking' \in [Devices -> BOOLEAN]
    BY <1>9, Zenon DEF Disconnect, GraceEnds, Park, Shape
  <2>2. st' \in [Devices -> [state : {"stopped", "playing", "paused"}, track : Optional]]
    BY <1>9 DEF Disconnect, GraceEnds, Park, Shape
  <2>3. QED
    BY <1>9, <2>1, <2>2 DEF Disconnect, GraceEnds, Park, Shape, AgentShape, MailShape, RecoveryShape
<1>10. CASE UNCHANGED vars
  BY <1>10 DEF vars, Shape, AgentShape, MailShape, RecoveryShape
<1>11. QED
  BY <1>1, <1>2, <1>3, <1>4, <1>5, <1>6, <1>7, <1>8, <1>9, <1>10 DEF Next, Transfer

\* The variables of a transfer keep their types, whatever happens to it.
THEOREM HandoffTyped == Spec => []TypeOK
<1>1. Shape => TypeOK
  BY DEF Shape, AgentShape, MailShape, RecoveryShape, TypeOK, ToSet, Optional
<1>2. QED
  BY <1>1, ShapeInit, ShapeNext, PTL DEF Spec

-----------------------------------------------------------------------------
(***************************************************************************)
(* Roll-back.  As it stands FailureKeepsSource is not inductive: a report  *)
(* of the source with another track, a load of its own that starts or      *)
(* fails, or an error of it that is recovered from would break it, and so  *)
(* would an error of the target without a failed load.  The invariant says *)
(* that there are none, up to the moment the source is stopped.            *)
(***************************************************************************)
SourceReport == [state |-> "playing", track |-> Song]

SourceUntouched ==
  /\ agent["source"] = Playing(Song)
  /\ st["source"].track = Song
  /\ st["source"].state = "playing" \/ (st["source"].state = "paused" /\ "offline" \in may)
  /\ \A k \in DOMAIN mail["source"] : mail["source"][k] = SourceReport
  /\ ~failed["source"]

\* Only a device that has gone is parked.
ParkedHasGone == \A d \in Devices : ~online[d] \/ parking[d] => "offline" \in may

\* Only a load that fails sets a recovery going, which may move the cursor.
CursorStays == "failing" \notin may => cursor = Song /\ \A d \in Devices : ~failed[d]

Committed == pc \in {"commitPatch", "ok"}

SourceInv == Shape /\ ParkedHasGone /\ CursorStays /\ (Committed \/ SourceUntouched)

\* The source plays the track and nothing of it is on its way.
LEMMA SourceInvInit == Init => SourceInv
<1> SUFFICES ASSUME Init PROVE SourceUntouched /\ ParkedHasGone /\ CursorStays
  BY ShapeInit DEF SourceInv
<1>1. agent["source"] = Playing(Song) /\ st["source"] = [state |-> "playing", track |-> Song]
  BY DEF Init
<1>2. mail["source"] = <<>> /\ ~failed["source"]
  BY DEF Init, Devices
<1>3. ParkedHasGone /\ CursorStays
  BY DEF Init, ParkedHasGone, CursorStays
<1>4. QED
  BY <1>1, <1>2, <1>3 DEF SourceUntouched

\* What may go wrong is fixed for a behaviour.
LEMMA MayIsFixed == [Next]_vars => may' = may
BY DEF Next, Transfer, vars, Begin, SendLoad, PatchTarget, Poll, Timeout, Rollback,
       StopSource, CommitPatch, Starts, LoadFails, Recover, Retry, MoveOn, Surrender,
       IgnoreError, SendReport, ApplyReport, Disconnect, GraceEnds, Park

\* Nothing but a disconnection takes a device away.
LEMMA ParkedHasGoneNext == Shape /\ ParkedHasGone /\ [Next]_vars => ParkedHasGone'
<1> SUFFICES ASSUME Shape, ParkedHasGone, [Next]_vars, may' = may PROVE ParkedHasGone'
  BY MayIsFixed
<1>1. ASSUME NEW d \in Devices, Disconnect(d) \/ GraceEnds(d) \/ Park(d)
      PROVE  ParkedHasGone'
  BY <1>1 DEF ParkedHasGone, Disconnect, GraceEnds, Park, Shape
<1>2. CASE UNCHANGED links
  BY <1>2 DEF ParkedHasGone, links
<1>3. QED
  BY <1>1, <1>2 DEF Next, Transfer, vars, links, Begin, SendLoad, PatchTarget, Poll, Timeout,
       Rollback, StopSource, CommitPatch, Starts, LoadFails, Recover, Retry, MoveOn,
       Surrender, IgnoreError, SendReport, ApplyReport

\* Nothing but the recovery from a failure moves the cursor.
LEMMA CursorStaysNext == Shape /\ CursorStays /\ [Next]_vars => CursorStays'
<1> SUFFICES ASSUME Shape, cursor = Song, \A d \in Devices : ~failed[d], "failing" \notin may,
                    [Next]_vars
             PROVE  cursor' = Song /\ \A d \in Devices : ~failed'[d]
  BY MayIsFixed DEF CursorStays
<1>1. UNCHANGED <<cursor, failed>>
  BY DEF Next, Transfer, vars, recovery, Begin, SendLoad, PatchTarget, Poll, Timeout,
       Rollback, StopSource, CommitPatch, Starts, LoadFails, Recover, Retry, MoveOn,
       Surrender, IgnoreError, SendReport, ApplyReport, Disconnect, GraceEnds, Park
<1>2. QED
  BY <1>1

\* Until it is stopped, no step of the transfer or of the target reaches the
\* source, its own reports say what is so already, and the end of its grace
\* window only parks it.
LEMMA SourceInvNext == SourceInv /\ [Next]_vars => SourceInv'
<1> SUFFICES ASSUME Shape, ParkedHasGone, Committed \/ SourceUntouched, [Next]_vars, may' = may
             PROVE  (Committed \/ SourceUntouched)'
  BY ShapeNext, MayIsFixed, ParkedHasGoneNext, CursorStaysNext DEF SourceInv
<1> USE DEF Devices, Committed, SourceUntouched, recovery, Shape, AgentShape
<1>1. CASE Begin \/ Poll
  BY <1>1 DEF Begin, Poll
<1>2. CASE SendLoad
  BY <1>2 DEF SendLoad, ToLoad
<1>3. CASE PatchTarget \/ Rollback
  BY <1>3 DEF PatchTarget, Rollback
<1>4. CASE Timeout
  BY <1>4 DEF Timeout, ToStop
<1>5. CASE StopSource \/ CommitPatch
  BY <1>5 DEF StopSource, CommitPatch, ToStop
<1>6. ASSUME NEW d \in Devices, Starts(d)
      PROVE  (Committed \/ SourceUntouched)'
  BY <1>6 DEF Starts, Playing
<1>7. ASSUME NEW d \in Devices, LoadFails(d)
      PROVE  (Committed \/ SourceUntouched)'
  BY <1>7 DEF LoadFails, Playing, RecoveryShape
<1>8. ASSUME NEW d \in Devices, Recover(d)
      PROVE  (Committed \/ SourceUntouched)'
  <2>1. CASE Committed
    BY <1>8, <2>1 DEF Recover, Retry, MoveOn, Surrender, IgnoreError
  <2>2. CASE ~Committed
    <3>1. d = "target" /\ SourceUntouched
      BY <1>8, <2>2 DEF Recover, Retry, MoveOn, Surrender, IgnoreError
    <3>2. agent'["source"] = agent["source"] /\ st'["source"] = st["source"]
      BY <1>8, <3>1 DEF Recover, Retry, MoveOn, Surrender, IgnoreError, LoadOn, ToLoad, ToStop
    <3>3. failed' = [failed EXCEPT ![d] = FALSE] /\ UNCHANGED mail
      BY <1>8 DEF Recover, Retry, MoveOn, Surrender, IgnoreError
    <3>4. ~failed'["source"]
      BY <3>1, <3>3 DEF RecoveryShape
    <3>5. QED
      BY <3>1, <3>2, <3>3, <3>4
  <2>3. QED
    BY <2>1, <2>2
<1>9. ASSUME NEW d \in Devices, SendReport(d)
      PROVE  (Committed \/ SourceUntouched)'
  BY <1>9 DEF SendReport, Playing, SourceReport, MailShape
<1>10. ASSUME NEW d \in Devices, ApplyReport(d)
       PROVE  (Committed \/ SourceUntouched)'
  BY <1>10 DEF ApplyReport, SourceReport, MailShape
<1>11. ASSUME NEW d \in Devices, Disconnect(d) \/ GraceEnds(d) \/ Park(d)
       PROVE  (Committed \/ SourceUntouched)'
  BY <1>11 DEF Disconnect, GraceEnds, Park, ParkedHasGone
<1>12. CASE UNCHANGED vars
  BY <1>12 DEF vars
<1>13. QED
  BY <1>1, <1>2, <1>3, <1>4, <1>5, <1>6, <1>7, <1>8, <1>9, <1>10, <1>11, <1>12
     DEF Next, Transfer

\* A transfer that has not committed, or that failed in whatever way, leaves
\* the source playing its track and the source's state naming it: playing, or
\* paused if the source was away beyond the grace window.
THEOREM RollbackIsClean == Spec => []FailureKeepsSource
<1>1. SourceInv => FailureKeepsSource
  BY DEF SourceInv, CursorStays, Committed, SourceUntouched, FailureKeepsSource, Playing
<1>2. QED
  BY <1>1, SourceInvInit, SourceInvNext, PTL DEF Spec

-----------------------------------------------------------------------------
(***************************************************************************)
(* Commitment.  For a target that was silent, reports only what it plays   *)
(* and does not fail: any sign of a start, a report on its way or a state  *)
(* "playing", implies that the target plays the track already.             *)
(***************************************************************************)
Waiting == [now |-> NoTrack, loading |-> Song, id |-> NoTrack, status |-> "playing"]

\* Something says that the target has started.
StartSeen ==
  \/ st["target"].state = "playing"
  \/ \E k \in DOMAIN mail["target"] : mail["target"][k].state = "playing"

QuietTarget ==
  /\ ~failed["target"]
  /\ pc # "idle" => want = Song /\ Song # NoTrack
  /\ pc \in {"idle", "load"} => agent["target"] = Silent /\ ~StartSeen
  /\ pc \in {"patch", "wait"} =>
       \/ agent["target"] = Playing(Song)
       \/ agent["target"] = Waiting /\ ~StartSeen
  /\ pc = "commit" => agent["target"] = Playing(Song)

CommitInv == SourceInv /\ (may \subseteq {"late", "offline"} => QuietTarget)

\* A target that was silent at the start has reported nothing.
LEMMA CommitInvInit == Init => CommitInv
<1> SUFFICES ASSUME Init, may \subseteq {"late", "offline"} PROVE QuietTarget
  BY SourceInvInit DEF CommitInv
<1>1. "busy" \notin may
  OBVIOUS
<1>2. agent["target"] = Silent /\ st["target"] = [state |-> "stopped", track |-> NoTrack]
  BY <1>1 DEF Init
<1>3. mail["target"] = <<>> /\ ~failed["target"] /\ pc = "idle"
  BY DEF Init, Devices
<1>4. QED
  BY <1>2, <1>3 DEF QuietTarget, StartSeen

\* Until the source is stopped only the start of the load it was sent makes
\* the target play, and only from then on it reports.
LEMMA CommitInvNext == CommitInv /\ [Next]_vars => CommitInv'
<1> SUFFICES ASSUME SourceInv, Shape, Shape', QuietTarget, [Next]_vars,
                    may \subseteq {"late", "offline"}, may' = may
             PROVE  QuietTarget'
  BY MayIsFixed, SourceInvNext, ShapeNext DEF CommitInv, SourceInv
<1> USE DEF QuietTarget, StartSeen, Waiting, Playing, Silent, Devices, Shape, AgentShape,
            recovery, links
<1>1. CASE Begin
  BY <1>1 DEF Begin, SourceInv, Committed, SourceUntouched
<1>2. CASE SendLoad
  BY <1>2 DEF SendLoad, ToLoad
<1>3. CASE PatchTarget
  BY <1>3 DEF PatchTarget
<1>4. CASE Poll
  BY <1>4 DEF Poll
<1>5. CASE Timeout \/ Rollback \/ StopSource \/ CommitPatch
  BY <1>5 DEF Timeout, Rollback, StopSource, CommitPatch
<1>6. ASSUME NEW d \in Devices, Starts(d)
      PROVE  QuietTarget'
  BY <1>6 DEF Starts
<1>7. ASSUME NEW d \in Devices, LoadFails(d)
      PROVE  QuietTarget'
  BY <1>7 DEF LoadFails
<1>8. ASSUME NEW d \in Devices, Recover(d)
      PROVE  QuietTarget'
  <2>1. d = "source" /\ Committed
    BY <1>8 DEF Recover, Retry, MoveOn, Surrender, IgnoreError, SourceInv, SourceUntouched
  <2>2. failed' = [failed EXCEPT ![d] = FALSE] /\ UNCHANGED <<pc, want>>
    BY <1>8 DEF Recover, Retry, MoveOn, Surrender, IgnoreError
  <2>3. ~failed'["target"]
    BY <2>1, <2>2 DEF RecoveryShape
  <2>4. QED
    BY <2>1, <2>2, <2>3 DEF Committed
<1>9. ASSUME NEW d \in Devices, SendReport(d)
      PROVE  QuietTarget'
  BY <1>9 DEF SendReport, MailShape, Reports
<1>10. ASSUME NEW d \in Devices, ApplyReport(d)
       PROVE  QuietTarget'
  BY <1>10 DEF ApplyReport, MailShape
<1>11. ASSUME NEW d \in Devices, Disconnect(d) \/ GraceEnds(d) \/ Park(d)
       PROVE  QuietTarget'
  BY <1>11 DEF Disconnect, GraceEnds, Park
<1>12. CASE UNCHANGED vars
  BY <1>12 DEF vars
<1>13. QED
  BY <1>1, <1>2, <1>3, <1>4, <1>5, <1>6, <1>7, <1>8, <1>9, <1>10, <1>11, <1>12
     DEF Next, Transfer

\* If nothing goes wrong but late loads and disconnections (the target was
\* silent, reports only what it plays, and its load does not fail), the handler
\* stops the source only when the target plays the track.
THEOREM SourceStopsLast == Spec => CommitIsProven
<1>1. CommitInv /\ [Next]_vars =>
        [StopSource /\ online["source"] /\ may \subseteq {"late", "offline"} =>
           agent["target"].now = want]_vars
  <2> SUFFICES ASSUME CommitInv, StopSource, may \subseteq {"late", "offline"}
               PROVE  agent["target"].now = want
    OBVIOUS
  <2>1. QED
    BY DEF CommitInv, QuietTarget, StopSource, Playing
<1>2. QED
  BY <1>1, CommitInvInit, CommitInvNext, PTL DEF Spec, CommitIsProven

-----------------------------------------------------------------------------
(***************************************************************************)
(* Exactly one.  Behind the load the target plays the track or will; a     *)
(* transfer that was given up has stopped it, one that committed has       *)
(* stopped the source.                                                     *)
(***************************************************************************)
OneWillPlay ==
  /\ \A d \in Devices : online[d] /\ ~failed[d]
  /\ pc # "idle" => want = Song /\ Song # NoTrack
  /\ pc \in {"patch", "wait", "commit", "commitPatch", "ok"} =>
       \/ agent["target"].loading = Song
       \/ agent["target"].loading = NoTrack /\ agent["target"].now = Song
  /\ GivenUp => agent["target"].now = NoTrack
  /\ Committed => agent["source"].now = NoTrack /\ agent["source"].loading = NoTrack

HandOverInv == SourceInv /\ (may \subseteq {"busy", "early"} => OneWillPlay)

\* At the start both devices are there and no transfer has begun.
LEMMA HandOverInvInit == Init => HandOverInv
<1> SUFFICES ASSUME Init PROVE OneWillPlay
  BY SourceInvInit DEF HandOverInv
<1>1. QED
  BY DEF Init, OneWillPlay, Devices, GivenUp, Committed

\* With loads that neither fail nor start late, and both devices online.
LEMMA HandOverInvNext == HandOverInv /\ [Next]_vars => HandOverInv'
<1> SUFFICES ASSUME SourceInv, Shape, Shape', OneWillPlay, [Next]_vars,
                    may \subseteq {"busy", "early"}, may' = may
             PROVE  OneWillPlay'
  BY MayIsFixed, SourceInvNext, ShapeNext DEF HandOverInv, SourceInv
<1> USE DEF OneWillPlay, Playing, Devices, Shape, AgentShape, GivenUp, Committed, recovery, links
<1>1. CASE Begin
  BY <1>1 DEF Begin, SourceInv, SourceUntouched
<1>2. CASE SendLoad
  BY <1>2 DEF SendLoad, ToLoad
<1>3. CASE PatchTarget \/ Rollback \/ CommitPatch
  BY <1>3 DEF PatchTarget, Rollback, CommitPatch
<1>4. CASE Poll
  BY <1>4 DEF Poll
<1>5. CASE Timeout
  BY <1>5 DEF Timeout, ToStop
<1>6. CASE StopSource
  BY <1>6 DEF StopSource, ToStop, SourceInv, SourceUntouched
<1>7. ASSUME NEW d \in Devices, Starts(d)
      PROVE  OneWillPlay'
  BY <1>7 DEF Starts
<1>8. ASSUME NEW d \in Devices,
             LoadFails(d) \/ Recover(d) \/ Disconnect(d) \/ GraceEnds(d) \/ Park(d)
      PROVE  OneWillPlay'
  BY <1>8 DEF LoadFails, Recover, Retry, MoveOn, Surrender, IgnoreError, Disconnect,
              GraceEnds, Park, SourceInv, ParkedHasGone
<1>9. ASSUME NEW d \in Devices, SendReport(d) \/ ApplyReport(d)
      PROVE  OneWillPlay'
  BY <1>9 DEF SendReport, ApplyReport
<1>10. CASE UNCHANGED vars
  BY <1>10 DEF vars
<1>11. QED
  BY <1>1, <1>2, <1>3, <1>4, <1>5, <1>6, <1>7, <1>8, <1>9, <1>10 DEF Next, Transfer

\* If nothing goes wrong but a busy target and early reports (no load fails or
\* starts after the transfer was given up, both devices stay online), exactly
\* one device plays the track once the transfer is over and nothing is on its
\* way, even if the source was stopped too early.
THEOREM ExactlyOnePlays == Spec => []OneDevicePlays
<1>1. ASSUME HandOverInv, pc \in {"ok", "failed"}, may \subseteq {"busy", "early"},
             \A d \in Devices : agent[d].loading = NoTrack /\ ~failed[d]
      PROVE  Cardinality({d \in Devices : agent[d].now = Song}) = 1
  <2>1. Song # NoTrack
    BY <1>1 DEF HandOverInv, OneWillPlay
  <2>2. CASE pc = "ok"
    <3>1. {d \in Devices : agent[d].now = Song} = {"target"}
      BY <1>1, <2>1, <2>2 DEF HandOverInv, OneWillPlay, Committed, Devices
    <3>2. QED
      BY <3>1, FS_Singleton
  <2>3. CASE pc = "failed"
    <3>1. agent["source"].now = Song
      BY <1>1, <2>3 DEF HandOverInv, SourceInv, Committed, SourceUntouched, Playing
    <3>2. {d \in Devices : agent[d].now = Song} = {"source"}
      BY <1>1, <2>1, <2>3, <3>1 DEF HandOverInv, OneWillPlay, GivenUp, Devices
    <3>3. QED
      BY <3>2, FS_Singleton
  <2>4. QED
    BY <1>1, <2>2, <2>3
<1>2. HandOverInv => OneDevicePlays
  BY <1>1 DEF OneDevicePlays
<1>3. QED
  BY <1>2, HandOverInvInit, HandOverInvNext, PTL DEF Spec
=============================================================================
