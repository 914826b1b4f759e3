---------------------------- MODULE PlayerAgent ----------------------------
(***************************************************************************)
(* The player agent (apps/player/src): commands from the server, the state *)
(* it reports, mpv and the start watchdog.                                 *)
(*                                                                         *)
(* Every command starts a handler that is not waited for (index.ts): a     *)
(* load and a prefetch resolve their stream first, and whatever arrives    *)
(* meanwhile is handled meanwhile.  jobs[n] is where the handler of the    *)
(* n-th command stands.  Nothing here keeps commands apart: what met       *)
(* during a behaviour is noted, and each property says which encounters it *)
(* does not survive.  mpv obeys its IPC in order, and goes on to the next  *)
(* entry of its playlist by itself; the agent learns of it from an event,  *)
(* and commands may fall in between.  Volumes and the exact position are   *)
(* left out (moved: is it beyond 0?).                                      *)
(*                                                                         *)
(* The server sends play right behind every load (loadTrack, transfer), so *)
(* the two are one command here.                                           *)
(***************************************************************************)
EXTENDS Integers, Sequences, FiniteSets

CONSTANTS
  Tracks,        \* track ids
  MaxCommands,   \* bound: commands in a behaviour
  MaxEntries,    \* bound: entries appended to mpv's playlist at once
  MaxEnds,       \* bound: ends of tracks that wait for the agent
  PrefetchEnabled, \* PREFETCH_ENABLED of the player's environment
  NoTrack

VARIABLES
  jobs,     \* jobs[n]: the handler of command n
  arrived,  \* commands so far
  ps,       \* PlayerState: [id, buffered, status, moved]
  mpv,      \* mpv: [now, entries, paused, moved]; an entry is [track, from],
            \* from being the command that appended it
  ends,     \* the end-file events on their way to the agent: [reason, of, to],
            \* the wish whose track ended (0: of none) and what mpv went on to
  watch,    \* the track the start watchdog is armed for
  dropped,  \* history: the last command that emptied mpv's playlist
  wish,     \* history: [n, track, watched], the last load or stop, until its
            \* track has ended or failed; watched: the watchdog was still armed
            \* for it when mpv got it, no end was on its way that would
            \* disarm it, and no pause came since
  told,     \* history: has the server been told that the wish failed?
  met       \* history: the encounters <<x, y>> this behaviour has had

vars == <<jobs, arrived, ps, mpv, ends, watch, dropped, wish, told, met>>
history == <<dropped, wish, told, met>>

NoJob == [at |-> "none", track |-> NoTrack]
NoWish == [n |-> 0, track |-> NoTrack, watched |-> FALSE]

Init ==
  /\ jobs = [n \in 1..MaxCommands |-> NoJob]
  /\ arrived = 0
  /\ ps = [id |-> NoTrack, buffered |-> NoTrack, status |-> "stopped", moved |-> FALSE]
  /\ mpv = [now |-> NoTrack, entries |-> <<>>, paused |-> FALSE, moved |-> FALSE]
  /\ ends = <<>>
  /\ watch = NoTrack
  /\ dropped = 0
  /\ wish = NoWish
  /\ told = FALSE
  /\ met = {}

\* No handler is in progress, and no event on its way.
Quiet == ends = <<>> /\ \A n \in DOMAIN jobs : jobs[n].at = "none"

\* The load, or the stop, of the wish has been carried out.
Granted == wish.n # 0 /\ jobs[wish.n].at = "none"

\* What a handler is busy with.
WorkOf(j) ==
  CASE j.at \in {"resolveLoad", "loadFile"} -> "load"
    [] j.at \in {"resolvePrefetch", "append"} -> "prefetch"
    [] j.at = "none" -> "nothing"

\* What is under way, waits in mpv's playlist, or has not reached the agent.
UnderWay ==
  {WorkOf(jobs[n]) : n \in DOMAIN jobs}
    \cup (IF mpv.entries = <<>> THEN {} ELSE {"entry"})
    \cup (IF ends = <<>> THEN {} ELSE {"event"})

\* The encounters that some property does not survive: y comes while x is
\* under way, in mpv's playlist, or on its way to the agent.
Disorder ==
  ({"load", "prefetch"} \X {"load", "stop", "prefetch"})
    \cup ({"prefetch"} \X {"clear", "end"})
    \cup ({"entry"} \X {"prefetch", "break"})
    \cup ({"event"} \X {"prefetch", "clear"})
    \cup {<<"load", "refusal">>}

Meets(y) == met' = met \cup (Disorder \cap (UnderWay \X {y}))

\* The next command is here.
Arrive(kind) ==
  /\ arrived < MaxCommands
  /\ arrived' = arrived + 1
  /\ Meets(kind)

\* PlayerState.setTrack(track): a new track plays from its start.
SetTrack(t, buffered) == [id |-> t, buffered |-> buffered, status |-> "playing", moved |-> FALSE]

\* mpv goes on to the next entry of its playlist, or idles.
NextEntry ==
  IF mpv.entries = <<>> THEN [mpv EXCEPT !.now = NoTrack, !.moved = FALSE]
  ELSE [mpv EXCEPT !.now = Head(mpv.entries).track, !.entries = Tail(mpv.entries),
                   !.moved = FALSE]

-----------------------------------------------------------------------------
(***************************************************************************)
(* Commands (commands.ts).                                                 *)
(***************************************************************************)

\* load: the resolve starts, play is obeyed at once, the watchdog is armed.
Load(t) ==
  /\ Arrive("load")
  /\ jobs' = [jobs EXCEPT ![arrived'] = [at |-> "resolveLoad", track |-> t]]
  /\ ps' = [ps EXCEPT !.status = "playing"]
  /\ mpv' = [mpv EXCEPT !.paused = FALSE]
  /\ watch' = t
  /\ wish' = [NoWish EXCEPT !.n = arrived', !.track = t]
  /\ told' = FALSE
  /\ UNCHANGED <<ends, dropped>>

\* Mutant: the state still names the entry that mpv has dropped.
LoadResolvedKeepsEntry(n) ==
  /\ jobs[n].at = "resolveLoad"
  /\ ps' = SetTrack(jobs[n].track, ps.buffered)
  /\ mpv' = [mpv EXCEPT !.entries = <<>>]
  /\ jobs' = [jobs EXCEPT ![n].at = "loadFile"]
  /\ UNCHANGED <<arrived, ends, watch, history>>

\* The stream is resolved: the state takes the new track, forgets what was
\* appended, and mpv.load empties the playlist.
LoadResolved(n) ==
  /\ jobs[n].at = "resolveLoad"
  /\ ps' = SetTrack(jobs[n].track, NoTrack)
  /\ mpv' = [mpv EXCEPT !.entries = <<>>]
  /\ jobs' = [jobs EXCEPT ![n].at = "loadFile"]
  /\ UNCHANGED <<arrived, ends, watch, history>>

\* The load of the wish is mpv's now: is the watchdog still armed for it?
Watched(n) ==
  wish' = IF wish.n = n
          THEN [wish EXCEPT !.watched = (watch = wish.track /\ ~mpv.paused /\ ends = <<>>)]
          ELSE wish

\* Mutant: loadfile without "replace" appends.
LoadFileAppends(n) ==
  /\ jobs[n].at = "loadFile"
  /\ mpv' = IF mpv.now = NoTrack THEN [mpv EXCEPT !.now = jobs[n].track]
            ELSE [mpv EXCEPT !.entries = Append(@, [track |-> jobs[n].track, from |-> n])]
  /\ jobs' = [jobs EXCEPT ![n] = NoJob]
  /\ dropped' = n
  /\ Watched(n)
  /\ UNCHANGED <<arrived, ps, ends, watch, told, met>>

\* loadfile url replace: mpv plays this and nothing after it.
LoadFile(n) ==
  /\ jobs[n].at = "loadFile"
  /\ mpv' = [mpv EXCEPT !.now = jobs[n].track, !.entries = <<>>, !.moved = FALSE]
  /\ jobs' = [jobs EXCEPT ![n] = NoJob]
  /\ dropped' = n
  /\ Watched(n)
  /\ UNCHANGED <<arrived, ps, ends, watch, told, met>>

\* mpv has refused the file three times: the load is reported as an error, and
\* the state goes on naming its track.
LoadGivesUp(n) ==
  /\ jobs[n].at = "loadFile"
  /\ jobs' = [jobs EXCEPT ![n] = NoJob]
  /\ Meets("refusal")
  /\ told' = (told \/ wish.n = n)
  /\ wish' = IF wish.n = n THEN NoWish ELSE wish
  /\ UNCHANGED <<arrived, ps, mpv, ends, watch, dropped>>

\* A resolve fails: a load is reported as an error, a prefetch is skipped.
ResolveFails(n) ==
  /\ jobs[n].at \in {"resolveLoad", "resolvePrefetch"}
  /\ jobs' = [jobs EXCEPT ![n] = NoJob]
  /\ IF jobs[n].at = "resolveLoad"
     THEN /\ told' = (told \/ wish.n = n)
          /\ wish' = IF wish.n = n THEN NoWish ELSE wish
     ELSE UNCHANGED <<told, wish>>
  /\ UNCHANGED <<arrived, ps, mpv, ends, watch, dropped, met>>

\* prefetch: the resolve starts.
Prefetch(t) ==
  /\ Arrive("prefetch")
  /\ jobs' = [jobs EXCEPT ![arrived'] = [at |-> "resolvePrefetch", track |-> t]]
  /\ UNCHANGED <<ps, mpv, ends, watch, dropped, wish, told>>

\* The stream is resolved and appended, unless PREFETCH_ENABLED is false ...
PrefetchResolved(n) ==
  /\ jobs[n].at = "resolvePrefetch"
  /\ Len(mpv.entries) < MaxEntries
  /\ mpv' = IF PrefetchEnabled
            THEN [mpv EXCEPT !.entries = Append(@, [track |-> jobs[n].track, from |-> n])]
            ELSE mpv
  /\ jobs' = [jobs EXCEPT ![n].at = "append"]
  /\ UNCHANGED <<arrived, ps, ends, watch, history>>

\* ... and once mpv has answered the state notes it.
PrefetchDone(n) ==
  /\ jobs[n].at = "append"
  /\ ps' = [ps EXCEPT !.buffered = jobs[n].track]
  /\ jobs' = [jobs EXCEPT ![n] = NoJob]
  /\ UNCHANGED <<arrived, mpv, ends, watch, history>>

\* Mutant: only the agent forgets the entry.
ForgetEntriesOnly ==
  /\ ps' = [ps EXCEPT !.buffered = NoTrack]
  /\ dropped' = arrived'
  /\ UNCHANGED mpv

\* clearPrefetched and mpv's playlist-clear.
ForgetEntries ==
  /\ ps' = [ps EXCEPT !.buffered = NoTrack]
  /\ mpv' = [mpv EXCEPT !.entries = <<>>]
  /\ dropped' = arrived'

PrefetchClear ==
  /\ Arrive("clear")
  /\ ForgetEntries
  /\ UNCHANGED <<jobs, ends, watch, wish, told>>

\* Mutant: the position outlives the track.
StopKeepsPosition ==
  /\ Arrive("stop")
  /\ ps' = [ps EXCEPT !.status = "stopped", !.buffered = NoTrack]
  /\ mpv' = [mpv EXCEPT !.now = NoTrack, !.entries = <<>>]
  /\ dropped' = arrived'
  /\ wish' = [NoWish EXCEPT !.n = arrived']
  /\ told' = FALSE
  /\ UNCHANGED <<jobs, ends, watch>>

\* stop: mpv stops and empties its playlist.
Stop ==
  /\ Arrive("stop")
  /\ ps' = [ps EXCEPT !.status = "stopped", !.buffered = NoTrack]
  /\ mpv' = [mpv EXCEPT !.now = NoTrack, !.entries = <<>>, !.moved = FALSE]
  /\ dropped' = arrived'
  /\ wish' = [NoWish EXCEPT !.n = arrived']
  /\ told' = FALSE
  /\ UNCHANGED <<jobs, ends, watch>>

\* A watchdog that fires during a pause says nothing, and is not armed again.
Pause ==
  /\ Arrive("pause")
  /\ ps' = [ps EXCEPT !.status = "paused"]
  /\ mpv' = [mpv EXCEPT !.paused = TRUE]
  /\ wish' = [wish EXCEPT !.watched = FALSE]
  /\ UNCHANGED <<jobs, ends, watch, dropped, told>>

Resume ==
  /\ Arrive("resume")
  /\ ps' = [ps EXCEPT !.status = "playing"]
  /\ mpv' = [mpv EXCEPT !.paused = FALSE]
  /\ UNCHANGED <<jobs, ends, watch, dropped, wish, told>>

-----------------------------------------------------------------------------
(***************************************************************************)
(* mpv and the timers (index.ts).                                          *)
(***************************************************************************)

\* External: the stream starts to play.
Moves ==
  /\ mpv.now # NoTrack /\ ~mpv.paused /\ ~mpv.moved
  /\ mpv' = [mpv EXCEPT !.moved = TRUE]
  /\ UNCHANGED <<jobs, arrived, ps, ends, watch, history>>

\* mpv goes on by itself, and tells the agent why.
GoesOn(reason) ==
  /\ Len(ends) < MaxEnds
  /\ mpv' = NextEntry
  /\ ends' = Append(ends, [reason |-> reason, of |-> IF Granted THEN wish.n ELSE 0,
                           to |-> NextEntry.now])
  /\ UNCHANGED <<jobs, arrived, ps, watch, dropped, wish, told>>

\* A track ends by itself.
TrackIsOver ==
  /\ mpv.now # NoTrack /\ mpv.moved /\ ~mpv.paused
  /\ Meets("end")
  /\ GoesOn("eof")

\* A stream breaks.
StreamBreaks ==
  /\ mpv.now # NoTrack
  /\ Meets("break")
  /\ GoesOn("error")

\* Whatever ended, the watchdog is disarmed; with the track of the wish the wish
\* is over, and the server is told of an error.
EndHandled ==
  /\ ends # <<>>
  /\ ends' = Tail(ends)
  /\ watch' = NoTrack
  /\ LET ofWish == Head(ends).of = wish.n /\ wish.n # 0
     IN  /\ wish' = IF ofWish THEN NoWish ELSE wish
         /\ told' = (told \/ (ofWish /\ Head(ends).reason = "error"))
  /\ UNCHANGED <<jobs, arrived, mpv, dropped, met>>

\* Mutant: the entry mpv went on to is not adopted.
EndFileKeepsId ==
  /\ EndHandled
  /\ ps' = [ps EXCEPT !.buffered = NoTrack]

\* end-file: at a natural end the state adopts the entry it had noted, which
\* mpv should have gone on to; after an error it only forgets the entry.
EndFile ==
  /\ EndHandled
  /\ ps' = IF Head(ends).reason = "eof" /\ ps.buffered # NoTrack
           THEN SetTrack(ps.buffered, NoTrack)
           ELSE [ps EXCEPT !.buffered = NoTrack]

\* Mutant: any report satisfies the watchdog.
TickSatisfies ==
  /\ ps.status = "playing"
  /\ ps' = [ps EXCEPT !.moved = IF mpv.now # NoTrack THEN mpv.moved ELSE @]
  /\ watch' = NoTrack
  /\ UNCHANGED <<jobs, arrived, mpv, ends, history>>

\* The 2 s report: the position is asked of mpv, which answers only while it
\* plays; a position beyond 0 satisfies the watchdog.
Tick ==
  /\ ps.status = "playing"
  /\ ps' = [ps EXCEPT !.moved = IF mpv.now # NoTrack THEN mpv.moved ELSE @]
  /\ watch' = IF ps'.moved THEN NoTrack ELSE watch
  /\ UNCHANGED <<jobs, arrived, mpv, ends, history>>

\* The watchdog fires: a track that is still at 0 is reported as an error.
WatchdogFires ==
  /\ watch # NoTrack
  /\ watch' = NoTrack
  /\ told' = (told \/ (ps.status = "playing" /\ ps.id = watch /\ ~ps.moved))
  /\ UNCHANGED <<jobs, arrived, ps, mpv, ends, dropped, wish, met>>

Command ==
  \/ \E t \in Tracks : Load(t) \/ Prefetch(t)
  \/ PrefetchClear \/ Stop \/ Pause \/ Resume

Handler(n) ==
  \/ LoadResolved(n) \/ LoadFile(n) \/ LoadGivesUp(n) \/ ResolveFails(n)
  \/ PrefetchResolved(n) \/ PrefetchDone(n)

Next ==
  \/ Command
  \/ \E n \in DOMAIN jobs : Handler(n)
  \/ Moves \/ TrackIsOver \/ StreamBreaks
  \/ EndFile \/ Tick \/ WatchdogFires

Spec == Init /\ [][Next]_vars

-----------------------------------------------------------------------------
Optional == Tracks \cup {NoTrack}

\* Every variable keeps its shape.
TypeOK ==
  /\ \A n \in DOMAIN jobs :
       jobs[n].at \in {"none", "resolveLoad", "loadFile", "resolvePrefetch", "append"}
  /\ arrived \in 0..MaxCommands
  /\ {ps.id, ps.buffered, mpv.now, watch} \subseteq Optional
  /\ ps.status \in {"stopped", "playing", "paused"}
  /\ mpv.now = NoTrack => ~mpv.moved
  /\ \A k \in DOMAIN mpv.entries : mpv.entries[k].from \in 1..arrived
  /\ \A k \in DOMAIN ends : ends[k].of \in 0..arrived /\ ends[k].to \in Optional

\* None of these encounters has happened.
Apart(x, y) == met \cap (x \X y) = {}

\* When no handler is in progress, mpv plays what the last load asked for, and
\* nothing after a stop, whatever else overlapped; it takes that the load or
\* stop did not come while an earlier load was still resolving.
LastCommandWins ==
  Quiet /\ wish.n # 0 /\ Apart({"load"}, {"load", "stop"}) => mpv.now = wish.track

\* Loads and prefetches kept apart, every prefetch was answered before the end
\* it was meant for, none was asked for or cancelled between mpv's end of a
\* track and the agent's, no stream broke in front of an entry, and no load was
\* refused by mpv.
Orderly ==
  /\ Apart({"load", "prefetch", "entry"}, {"load", "prefetch", "end"})
  /\ Apart({"event"}, {"prefetch", "clear"})
  /\ Apart({"entry"}, {"break"})
  /\ Apart({"load"}, {"refusal"})

\* When no handler is in progress, reports carry the id of what is heard: an
\* entry mpv went on to by itself has been adopted, whatever loads and stops
\* came before the agent learned of it.
IdIsHeard == Quiet /\ mpv.now # NoTrack /\ Orderly => ps.id = mpv.now

\* The entry a natural end adopts is the one mpv went on to: the state never
\* announces a track mpv was not given.  Here a prefetchClear that overtakes a
\* prefetch hurts as well.
AdoptedIsPlayed ==
  [][EndFile /\ Head(ends).reason = "eof" /\ ps.buffered # NoTrack
       /\ Orderly /\ Apart({"prefetch"}, {"clear"}) =>
       Head(ends).to = ps.buffered]_vars

\* A load, a stop or a prefetchClear takes every prefetch that was asked for
\* before it out of mpv's playlist, for good, unless the prefetch was still
\* resolving.
DroppedStaysOut ==
  Apart({"prefetch"}, {"load", "stop", "clear"}) =>
    \A k \in DOMAIN mpv.entries : mpv.entries[k].from > dropped

\* A load whose watchdog is still armed when mpv gets it stays guarded until it
\* is heard or the server is told that it failed: nothing disarms the watchdog,
\* which fires after 10 s, before that.  It takes that no other load, stop or
\* pause came after it, and that two loads did not overlap.  An end that the
\* agent handles after mpv got the load disarms the watchdog, whichever track
\* ended: such a load is not watched.
LoadIsAnswered ==
  wish.watched /\ ends = <<>> /\ Apart({"load"}, {"load"}) =>
    \/ watch = wish.track
    \/ told
    \/ mpv.now = wish.track /\ mpv.moved
=============================================================================
