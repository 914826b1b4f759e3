------------------------------ MODULE Handoff ------------------------------
(***************************************************************************)
(* Moving playback from one device to another: transfer() and              *)
(* waitForTarget() of playback.service.ts, with what the two agents and    *)
(* their reports do meanwhile.                                             *)
(*                                                                         *)
(* The source plays Song; Song and OtherSong are in the owner's queue, so  *)
(* a report of either is taken as it is.  The target gets a load, and the  *)
(* handler waits up to HANDOFF_TIMEOUT_MS for the target's device state to *)
(* say "playing"; only then the source is stopped.  The agents are those   *)
(* of PlayerAgent: play behind a load makes the status "playing" at once,  *)
(* a stop does not undo a load that still resolves.  The recovery from a   *)
(* failed load is one step, without the modes (Playback has the detail);   *)
(* of the queue both devices share only the track at its cursor is kept.   *)
(***************************************************************************)
EXTENDS Integers, Sequences, FiniteSets, SequencesExt

CONSTANTS
  Song,           \* the track that moves
  OtherSong,      \* what the target may play before
  Hazards,        \* what may go wrong in some behaviour: members of
                  \* "busy", the target plays when the transfer begins;
                  \* "early", an agent reports while its load resolves;
                  \* "late", a load starts after the transfer was given up;
                  \* "failing", a load fails; "offline", a device goes away
  MaxTrackRetries,       \* MAX_TRACK_RETRIES
  MaxConsecutiveErrors,  \* MAX_CONSECUTIVE_ERRORS
  MaxFailures,    \* bound: loads that fail
  MaxMail,        \* bound: reports of a device on their way
  NoTrack

ASSUME SettingsAreNumbers ==
  /\ MaxTrackRetries \in Nat
  /\ MaxConsecutiveErrors \in Nat \ {0}
  /\ MaxFailures \in Nat /\ MaxMail \in Nat

VARIABLES
  may,      \* the hazards this behaviour may meet
  pc,       \* where the handler of the transfer is
  want,     \* the track it read from the source's state
  cursor,   \* Redis: the track at the cursor of the queue both devices share
  st,       \* Redis: st[d] = [state, track]
  agent,    \* agent[d] = [now, loading, id, status]
  mail,     \* mail[d]: the reports on their way, [state, track]
  failed,   \* failed[d]: an error report on its way
  online,
  parking,  \* parking[d]: pauseOnDisconnect has read "playing"
  budget,   \* trackRetries: budget[d] = [track, count]
  streak,   \* errorStreak
  failures  \* loads that have failed so far

vars == <<may, pc, want, cursor, st, agent, mail, failed, online, parking, budget,
          streak, failures>>
recovery == <<cursor, failed, budget, streak, failures>>
links == <<online, parking>>
Devices == {"source", "target"}
NoRetries == [track |-> NoTrack, count |-> 0]

Playing(t) == [now |-> t, loading |-> NoTrack, id |-> t, status |-> "playing"]
Silent == [now |-> NoTrack, loading |-> NoTrack, id |-> NoTrack, status |-> "stopped"]

Init ==
  /\ may \in SUBSET Hazards
  /\ pc = "idle"
  /\ want = NoTrack
  /\ cursor = Song
  /\ \E other \in IF "busy" \in may THEN {NoTrack, OtherSong} ELSE {NoTrack} :
       /\ agent = [source |-> Playing(Song),
                   target |-> IF other = NoTrack THEN Silent ELSE Playing(other)]
       /\ st = [source |-> [state |-> "playing", track |-> Song],
                target |-> [state |-> IF other = NoTrack THEN "stopped" ELSE "playing",
                            track |-> other]]
  /\ mail = [d \in Devices |-> <<>>]
  /\ failed = [d \in Devices |-> FALSE]
  /\ online = [d \in Devices |-> TRUE]
  /\ parking = [d \in Devices |-> FALSE]
  /\ budget = [d \in Devices |-> NoRetries]
  /\ streak = [d \in Devices |-> 0]
  /\ failures = 0

ToLoad(d, t) == [agent EXCEPT ![d].loading = t, ![d].status = "playing"]

ToStop(d) == [agent EXCEPT ![d].now = NoTrack, ![d].status = "stopped"]

-----------------------------------------------------------------------------
(***************************************************************************)
(* transfer(from, to)                                                      *)
(***************************************************************************)

\* Nothing to transfer without a track.
Begin ==
  /\ pc = "idle"
  /\ st["source"].track # NoTrack
  /\ want' = st["source"].track
  /\ pc' = "load"
  /\ UNCHANGED <<may, st, agent, mail, recovery, links>>

\* Mutant: the source is stopped first.
SendLoadAndStop ==
  /\ pc = "load"
  /\ agent' = IF online["target"] THEN [ToLoad("target", want) EXCEPT !["source"] = Silent] ELSE agent
  /\ pc' = IF online["target"] THEN "patch" ELSE "failed"
  /\ UNCHANGED <<may, want, st, mail, recovery, links>>

\* player.load and player.play, or PLAYER_OFFLINE.
SendLoad ==
  /\ pc = "load"
  /\ agent' = IF online["target"] THEN ToLoad("target", want) ELSE agent
  /\ pc' = IF online["target"] THEN "patch" ELSE "failed"
  /\ UNCHANGED <<may, want, st, mail, recovery, links>>

\* The target shows the track, its state is left as it was.
PatchTarget ==
  /\ pc = "patch"
  /\ st' = [st EXCEPT !["target"].track = want]
  /\ pc' = "wait"
  /\ UNCHANGED <<may, want, agent, mail, recovery, links>>

\* Mutant: the track alone counts as a start.
PollTrack ==
  /\ pc = "wait"
  /\ st["target"].track = want
  /\ pc' = "commit"
  /\ UNCHANGED <<may, want, st, agent, mail, recovery, links>>

\* A poll finds the target's state "playing".
Poll ==
  /\ pc = "wait"
  /\ st["target"].state = "playing"
  /\ pc' = "commit"
  /\ UNCHANGED <<may, want, st, agent, mail, recovery, links>>

\* Mutant: the target is not told.
TimeoutSilently ==
  /\ pc = "wait"
  /\ pc' = "rollback"
  /\ UNCHANGED <<may, want, st, agent, mail, recovery, links>>

\* The deadline has passed: the target is stopped ...
Timeout ==
  /\ pc = "wait"
  /\ agent' = IF online["target"] THEN ToStop("target") ELSE agent
  /\ pc' = "rollback"
  /\ UNCHANGED <<may, want, st, mail, recovery, links>>

\* ... and its state reset: HANDOFF_FAILED.
Rollback ==
  /\ pc = "rollback"
  /\ st' = [st EXCEPT !["target"] = [state |-> "stopped", track |-> NoTrack]]
  /\ pc' = "failed"
  /\ UNCHANGED <<may, want, agent, mail, recovery, links>>

\* The source is stopped, or PLAYER_OFFLINE.
StopSource ==
  /\ pc = "commit"
  /\ agent' = IF online["source"] THEN ToStop("source") ELSE agent
  /\ pc' = IF online["source"] THEN "commitPatch" ELSE "failed"
  /\ UNCHANGED <<may, want, st, mail, recovery, links>>

CommitPatch ==
  /\ pc = "commitPatch"
  /\ st' = [st EXCEPT !["source"].state = "stopped"]
  /\ pc' = "ok"
  /\ UNCHANGED <<may, want, agent, mail, recovery, links>>

-----------------------------------------------------------------------------
(***************************************************************************)
(* The agents, their reports, and the recovery from a failed load.         *)
(***************************************************************************)
GivenUp == pc \in {"rollback", "failed"}

\* A load resolves and plays.
Starts(d) ==
  /\ agent[d].loading # NoTrack
  /\ "late" \in may \/ ~GivenUp
  /\ agent' = [agent EXCEPT ![d] = Playing(agent[d].loading)]
  /\ UNCHANGED <<may, pc, want, st, mail, recovery, links>>

\* A load fails; what played before plays on.
LoadFails(d) ==
  /\ "failing" \in may /\ failures < MaxFailures
  /\ agent[d].loading # NoTrack
  /\ agent' = [agent EXCEPT ![d].loading = NoTrack]
  /\ failed' = [failed EXCEPT ![d] = online[d]]
  /\ failures' = failures + 1
  /\ UNCHANGED <<may, pc, want, cursor, st, mail, links, budget, streak>>

\* loadTrack(t); an offline device makes it throw.
LoadOn(d, t) ==
  IF online[d] THEN /\ agent' = ToLoad(d, t)
                    /\ st' = [st EXCEPT ![d] = [state |-> "playing", track |-> t]]
  ELSE UNCHANGED <<agent, st>>

\* The retries already spent on the track of the device state.
Used(d) == IF budget[d].track = st[d].track THEN budget[d].count ELSE 0
MayRetry(d) == st[d].track # NoTrack /\ Used(d) < MaxTrackRetries

\* onTrackEnded "error": the track of the state is loaded once more.
Retry(d) ==
  /\ failed[d] /\ MayRetry(d)
  /\ failed' = [failed EXCEPT ![d] = FALSE]
  /\ budget' = [budget EXCEPT ![d] = [track |-> st[d].track, count |-> Used(d) + 1]]
  /\ LoadOn(d, st[d].track)
  /\ UNCHANGED <<may, pc, want, cursor, mail, links, streak, failures>>

\* The budget is spent, or there is no track to retry: next() moves the cursor
\* and loads what it finds there, or stops the device at the end of the queue.
MoveOn(d) ==
  /\ failed[d] /\ ~MayRetry(d) /\ streak[d] + 1 < MaxConsecutiveErrors
  /\ failed' = [failed EXCEPT ![d] = FALSE]
  /\ streak' = [streak EXCEPT ![d] = @ + 1]
  /\ \/ \E t \in {Song, OtherSong} :
          /\ cursor' = t
          /\ budget' = [budget EXCEPT ![d] = NoRetries]
          /\ LoadOn(d, t)
     \/ /\ IF online[d] THEN agent' = ToStop(d) /\ st' = [st EXCEPT ![d].state = "stopped"]
           ELSE UNCHANGED <<agent, st>>
        /\ UNCHANGED <<cursor, budget>>
  /\ UNCHANGED <<may, pc, want, mail, links, failures>>

\* Too many tracks in a row have failed: STREAM_FAILED.
Surrender(d) ==
  /\ failed[d] /\ ~MayRetry(d) /\ streak[d] + 1 >= MaxConsecutiveErrors
  /\ failed' = [failed EXCEPT ![d] = FALSE]
  /\ streak' = [streak EXCEPT ![d] = 0]
  /\ budget' = [budget EXCEPT ![d] = NoRetries]
  /\ st' = [st EXCEPT ![d].state = "stopped"]
  /\ UNCHANGED <<may, pc, want, cursor, agent, mail, links, failures>>

\* An error within 3 s of a load of the recovery is ignored.
IgnoreError(d) ==
  /\ failed[d] /\ (budget[d].count > 0 \/ streak[d] > 0)
  /\ failed' = [failed EXCEPT ![d] = FALSE]
  /\ UNCHANGED <<may, pc, want, cursor, st, agent, mail, links, budget, streak, failures>>

Recover(d) == Retry(d) \/ MoveOn(d) \/ Surrender(d) \/ IgnoreError(d)

\* A report goes out, with the track the agent last started and its status: one
\* every 2 s while it plays (a stop may fall into the tick) and on each connect ...
SendReport(d) ==
  /\ online[d]
  /\ "early" \in may \/ agent[d].loading = NoTrack
  /\ Len(mail[d]) < MaxMail
  /\ mail' = [mail EXCEPT ![d] = Append(@, [state |-> agent[d].status, track |-> agent[d].id])]
  /\ UNCHANGED <<may, pc, want, st, agent, recovery, links>>

\* ... and is applied.
ApplyReport(d) ==
  /\ mail[d] # <<>>
  /\ st' = [st EXCEPT ![d] = Head(mail[d])]
  /\ mail' = [mail EXCEPT ![d] = Tail(@)]
  /\ UNCHANGED <<may, pc, want, agent, recovery, links>>

\* A device loses its connection, or comes back; its mpv plays on.
Disconnect(d) ==
  /\ "offline" \in may
  /\ online' = [online EXCEPT ![d] = ~@]
  /\ UNCHANGED <<may, pc, want, st, agent, mail, recovery, parking>>

\* The grace window of a device that is still gone is over: pauseOnDisconnect
\* reads its state ...
GraceEnds(d) ==
  /\ ~online[d] /\ st[d].state = "playing"
  /\ parking' = [parking EXCEPT ![d] = TRUE]
  /\ UNCHANGED <<may, pc, want, st, agent, mail, recovery, online>>

\* ... and patches it, whatever it says by then.
Park(d) ==
  /\ parking[d]
  /\ parking' = [parking EXCEPT ![d] = FALSE]
  /\ st' = [st EXCEPT ![d].state = "paused"]
  /\ UNCHANGED <<may, pc, want, agent, mail, recovery, online>>

Transfer ==
  Begin \/ SendLoad \/ PatchTarget \/ Poll \/ Timeout \/ Rollback \/ StopSource \/ CommitPatch

Next ==
  \/ Transfer
  \/ \E d \in Devices :
       \/ Starts(d) \/ LoadFails(d) \/ Recover(d)
       \/ SendReport(d) \/ ApplyReport(d)
       \/ Disconnect(d) \/ GraceEnds(d) \/ Park(d)

Spec == Init /\ [][Next]_vars

-----------------------------------------------------------------------------
Optional == {Song, OtherSong, NoTrack}

Reports == [state : {"stopped", "playing"}, track : Optional]

\* Every variable keeps its shape; only the two devices' own tracks appear, and
\* a device that is stopped plays nothing.
TypeOK ==
  /\ pc \in {"idle", "load", "patch", "wait", "rollback", "commit", "commitPatch", "ok", "failed"}
  /\ {want, cursor} \subseteq Optional
  /\ \A d \in Devices :
       /\ st[d].state \in {"stopped", "playing", "paused"} /\ st[d].track \in Optional
       /\ {agent[d].now, agent[d].loading, agent[d].id} \subseteq Optional
       /\ agent[d].status = "stopped" => agent[d].now = NoTrack
       /\ ToSet(mail[d]) \subseteq Reports /\ Len(mail[d]) <= MaxMail
       /\ budget[d].count \in 0..MaxTrackRetries
       /\ streak[d] \in 0..(MaxConsecutiveErrors - 1)
  /\ failures \in 0..MaxFailures

\* "rollback: source still playing".  A transfer that has not committed, or
\* that failed in whatever way, leaves the source's player on its track, and
\* its state names the track and says "playing"; "paused" when the source has
\* been offline beyond the grace window.  The cursor of the queue both devices
\* share stays on the track as well, unless a load failed on the target: its
\* recovery may move on.
FailureKeepsSource ==
  pc \in {"load", "patch", "wait", "rollback", "failed"} =>
    /\ agent["source"].now = Song
    /\ st["source"].track = Song
    /\ st["source"].state \in {"playing"} \cup (IF "offline" \in may THEN {"paused"} ELSE {})
    /\ "failing" \notin may => cursor = Song

\* "only the target's own report proves that" it plays.  The source is stopped
\* only when the target plays the track, however late the load starts and
\* whichever device goes offline, if the target was silent before, sends no
\* report while the load resolves, and the load does not fail.  Without any of
\* the three waitForTarget can be misled.
CommitIsProven ==
  [][StopSource /\ online["source"] /\ may \subseteq {"late", "offline"} =>
       agent["target"].now = want]_vars

\* When the transfer is over and nothing is on its way, exactly one of the two
\* devices plays the track, even if the target was busy or an early report had
\* the source stopped too soon.  Both devices stay online, and every load ends
\* well before the transfer is given up: a load that starts after the roll-back
\* makes both play, and so does a source that is offline when it is to be
\* stopped.
OneDevicePlays ==
  pc \in {"ok", "failed"} /\ may \subseteq {"busy", "early"}
    /\ (\A d \in Devices : agent[d].loading = NoTrack /\ ~failed[d]) =>
    Cardinality({d \in Devices : agent[d].now = Song}) = 1
=============================================================================
