------------------------------ MODULE Playback ------------------------------
(***************************************************************************)
(* PlaybackService (apps/server/src/services/playback.service.ts) for one  *)
(* device: what the handlers of commands, player events and timers do to   *)
(* the queue's cursor, to the device state in Redis and to the player.     *)
(*                                                                         *)
(* A handler is an async method: it runs synchronously from one await to   *)
(* the next, and other handlers run in between.  frame[h] is where handler *)
(* h stands and the values it read before the await.  Queue operations are *)
(* single steps (QueueStoreProofs!QueueIsAtomic); setIndex is a bare write *)
(* of the cursor.  schedulePrefetch leaves an async block running after    *)
(* its handler went on: block[h].                                          *)
(*                                                                         *)
(* The player agent (apps/player) is at its best here: it obeys commands   *)
(* in order, a newer load supersedes one that still resolves, an append is *)
(* resolved at once.  PlayerAgent has its own concurrency.  Positions,     *)
(* volumes, metadata and history are left out; every track has a known     *)
(* duration and lasts longer than the 3 s of the anti-loop guard.          *)
(***************************************************************************)
EXTENDS QueueOps, FiniteSetsExt

CONSTANTS
  Handlers,              \* handlers that may be in progress at once
  Tracks,                \* track ids
  StartTracks,           \* the tracks of the queue a behaviour starts from
  Playlists,             \* the lists playTracks may be given
  Commands,              \* the kinds of commands and events that arrive
  GrowOnly,              \* do requests only add to the queue?
  Recommended,           \* tracks the auto-queue may append
  AutoQueueThreshold,    \* AUTO_QUEUE_THRESHOLD
  OldTrackPlaysOn,       \* may the old track end while a load resolves?
  SlowResolve,           \* does a load outlast the handler that sent it?
  ShortTracks,           \* may a prefetch timer fire while a load resolves?
  EarlyFailures,         \* may a track fail within 3 s of its load?
  MayDisconnect,         \* may the player go offline?
  MaxCommands,           \* bound: commands and events in a behaviour
  MaxTimers,             \* bound: prefetch timers armed at once
  MaxTrackRetries,       \* MAX_TRACK_RETRIES
  MaxConsecutiveErrors,  \* MAX_CONSECUTIVE_ERRORS
  NoTrack

ASSUME StartIsAQueue == StartTracks \in Seq(Tracks)
ASSUME PlaylistsAreLists == Playlists \subseteq Seq(Tracks) \ {<<>>}
ASSUME SettingsAreNumbers ==
  /\ AutoQueueThreshold \in Nat
  /\ MaxTrackRetries \in Nat
  /\ MaxConsecutiveErrors \in Nat \ {0}
ASSUME BoundsAreNumbers == MaxCommands \in Nat /\ MaxTimers \in Nat
\* null is neither a track nor an item of the queue.
ASSUME NullIsNothing ==
  /\ NoTrack \notin Tracks \cup Recommended
  /\ NoItem \notin [id : Nat, track : Tracks \cup Recommended, patched : BOOLEAN]

VARIABLES
  queue, cursor,  \* Redis: the account's queue and its index
  st,             \* Redis: the device state
  chain,          \* stateChains: the patches waiting for their turn
  pending,        \* pendingNext: the track pre-picked to play next
  timers,         \* armed prefetch timers, each with the track it will send
  mapped,         \* prefetchTimers: the timer clearPrefetchTimer can cancel
  retries,        \* trackRetries
  streak,         \* errorStreak
  recent,         \* lastLoadAt lies less than 3 s back
  online,         \* the player's socket is registered
  player,         \* the agent: [now, entries, loading], what mpv plays, has
                  \* appended, and is resolving; [id, buffered, status], the
                  \* track ids and the status PlayerState holds
  frame,          \* frame[h]
  block,          \* block[h]: h's schedulePrefetch block
  fresh,          \* next unused item id
  arrived,        \* commands and events so far
  failLoads       \* history: loads sent since the last command that starts a
                  \* track, natural end or surrender

account == <<queue, cursor, fresh>>
state == <<st, chain>>
memory == <<pending, timers, mapped, retries, streak, recent>>
prefetch == <<pending, timers, mapped>>
vars == <<queue, cursor, st, chain, pending, timers, mapped, retries, streak, recent,
          online, player, frame, block, fresh, arrived, failLoads>>

NoTimer == 0
NoRetries == [track |-> NoTrack, count |-> 0]
Idle == [at |-> "idle", s |-> [state |-> "stopped"], q |-> <<>>, i |-> 0,
         track |-> NoTrack, retry |-> FALSE, feed |-> TRUE]
NoBlock == [at |-> "none", s |-> [state |-> "stopped"], q |-> <<>>, track |-> NoTrack]

TracksOf(q) == {q[k].track : k \in DOMAIN q}

Init ==
  /\ queue = [k \in DOMAIN StartTracks |-> NewItem(k, StartTracks[k])]
  /\ cursor = 0
  /\ st = [state |-> "stopped", track |-> NoTrack, shuffle |-> FALSE, repeat |-> "off"]
  /\ chain = <<>>
  /\ pending = NoTrack
  /\ timers = {}
  /\ mapped = NoTimer
  /\ retries = NoRetries
  /\ streak = 0
  /\ recent = FALSE
  /\ online = TRUE
  /\ player = [now |-> NoTrack, entries |-> <<>>, loading |-> NoTrack,
               id |-> NoTrack, buffered |-> NoTrack, status |-> "stopped"]
  /\ frame = [h \in Handlers |-> Idle]
  /\ block = [h \in Handlers |-> NoBlock]
  /\ fresh = Len(StartTracks) + 1
  /\ arrived = 0
  /\ failLoads = 0

-----------------------------------------------------------------------------
(***************************************************************************)
(* Shared pieces of the handlers.                                          *)
(***************************************************************************)
At(h, l) == frame[h].at = l
Go(h, l) == frame' = [frame EXCEPT ![h].at = l]
GoWith(h, f) == frame' = [frame EXCEPT ![h] = f]
Done(h) == frame' = [frame EXCEPT ![h] = Idle]

\* patchState(patch): the patch queues behind those of the device already
\* waiting, and the handler resumes at l once it is written.
Patch(h, patch, l) ==
  /\ chain' = Append(chain, [by |-> h, patch |-> patch, next |-> l])
  /\ Go(h, "patching")

\* Where loadTrack(track) begins; a load that is no retry starts a new budget.
Loading(h, track, retry) ==
  [frame[h] EXCEPT !.at = "load", !.track = track, !.retry = retry]
StartLoad(h, track) == GoWith(h, Loading(h, track, FALSE)) /\ retries' = NoRetries

\* clearPrefetchTimer: cancels the one timer the map knows.
ClearTimer ==
  /\ timers' = {t \in timers : t.id # mapped}
  /\ mapped' = NoTimer

\* Mutant: the pick for the track before survives.
SchedulePrefetchKeepsPick(h, track) ==
  /\ ClearTimer
  /\ UNCHANGED pending
  /\ block' = [block EXCEPT ![h] = [NoBlock EXCEPT !.at = "state", !.track = track]]

\* schedulePrefetch(track): cancel, forget the pick, start the async block.
SchedulePrefetch(h, track) ==
  /\ ClearTimer
  /\ pending' = NoTrack
  /\ block' = [block EXCEPT ![h] = [NoBlock EXCEPT !.at = "state", !.track = track]]

\* What the player makes of a command; nothing reaches a player that is gone.
Send(p) == player' = IF online THEN p ELSE player
ToLoad(t) == [player EXCEPT !.loading = t, !.status = "playing"]
ToAppend(t) == [player EXCEPT !.entries = Append(@, t), !.buffered = t]
ToDropNothing == [player EXCEPT !.buffered = NoTrack]    \* mutant
ToDropEntries == [player EXCEPT !.entries = <<>>, !.buffered = NoTrack]
ToStopKeepingLoad == [ToDropEntries EXCEPT !.now = NoTrack, !.status = "stopped"]  \* mutant
ToStop == [ToDropEntries EXCEPT !.now = NoTrack, !.loading = NoTrack, !.status = "stopped"]

\* mpv goes on to the entry it had appended, if any.
EntryUp == IF player.entries = <<>> THEN NoTrack ELSE Head(player.entries)
Rest == IF player.entries = <<>> THEN <<>> ELSE Tail(player.entries)

\* The positions shuffle or repeat-all jump to; empty for a plain advance.
Jumps(q, i, s) ==
  IF s.shuffle /\ Len(q) > 1 THEN (0..(Len(q) - 1)) \ {i}
  ELSE IF s.repeat = "all" /\ Len(q) > 0 /\ i >= Len(q) - 1 THEN {0} ELSE {}

\* pickNext: the positions next() might choose now; empty for none.
Picks(q, i, s) ==
  IF s.repeat = "one" THEN {}
  ELSE IF Jumps(q, i, s) # {} THEN Jumps(q, i, s)
  ELSE IF i + 1 < Len(q) THEN {i + 1} ELSE {}

-----------------------------------------------------------------------------
(***************************************************************************)
(* Arrivals.  A request or a player message starts a handler, up to its    *)
(* first await.  A handler's own prefetch block must be over first, a      *)
(* bound on how many run at once.                                          *)
(***************************************************************************)
StartsATrack == {"play", "playItem", "playTracks", "next", "previous"}

Arrive(h, kind) ==
  /\ At(h, "idle")
  /\ block[h].at = "none"
  /\ kind \in Commands
  /\ arrived < MaxCommands
  /\ arrived' = arrived + 1
  /\ failLoads' = IF kind \in StartsATrack THEN 0 ELSE failLoads

Command(h, kind, label) ==
  /\ Arrive(h, kind)
  /\ Go(h, label)
  /\ UNCHANGED <<account, state, memory, online, player, block>>

Play(h) ==
  /\ Arrive(h, "play")
  /\ \E t \in Tracks : GoWith(h, [Idle EXCEPT !.at = "place", !.track = t])
  /\ UNCHANGED <<account, state, memory, online, player, block>>

NextCommand(h) == Command(h, "next", "nextState")
Previous(h) == Command(h, "previous", "prevIndex")
PlayTracks(h) == Command(h, "playTracks", "replace")
Edit(h) == Command(h, "edit", "edit")
PlayItem(h) == Command(h, "playItem", "itemQueue")

\* setShuffle and setRepeat, one patch each.
Mode(h) ==
  /\ Arrive(h, "mode")
  /\ \/ \E on \in BOOLEAN : Patch(h, [shuffle |-> on], "idle")
     \/ \E r \in {"off", "all", "one"} : Patch(h, [repeat |-> r], "idle")
  /\ UNCHANGED <<account, st, memory, online, player, block>>

\* stop(): the prefetch is dropped before the player is asked; offline throws.
Stop(h) ==
  /\ Arrive(h, "stop")
  /\ ClearTimer
  /\ pending' = NoTrack
  /\ Send(ToStop)
  /\ IF online THEN Patch(h, [state |-> "stopped"], "idle") ELSE Done(h) /\ UNCHANGED chain
  /\ UNCHANGED <<account, st, retries, streak, recent, online, block>>

\* pause() and resume().
Transport(h) ==
  /\ online
  /\ \E kind \in {"pause", "resume"} :
       LET status == IF kind = "pause" THEN "paused" ELSE "playing"
       IN  /\ Arrive(h, kind)
           /\ player' = [player EXCEPT !.status = status]
           /\ Patch(h, [state |-> status], "idle")
  /\ UNCHANGED <<account, st, memory, online, block>>

\* The grace window of a lost player is over and it is still gone.
Grace(h) ==
  /\ ~online
  /\ Command(h, "grace", "parkState")

\* mpv reached the end and went on to the entry it had appended; the agent
\* adopts the id it had buffered, and says that the track ended.
TrackEnds(h) ==
  /\ Arrive(h, "eof")
  /\ online
  /\ player.now # NoTrack /\ player.status = "playing"
  /\ OldTrackPlaysOn \/ (player.loading = NoTrack /\ ~recent)
  /\ player' = [player EXCEPT !.now = EntryUp, !.entries = Rest, !.buffered = NoTrack,
                  !.id = IF player.buffered # NoTrack THEN player.buffered ELSE @]
  /\ GoWith(h, [Idle EXCEPT !.at = "eof", !.track = player.now])
  /\ UNCHANGED <<account, state, memory, online, block>>

\* A load fails to resolve, and mpv keeps what it plays; or the stream of the
\* track breaks.
TrackFails(h) ==
  /\ Arrive(h, "error")
  /\ online
  /\ EarlyFailures \/ ~recent
  /\ \/ /\ player.loading # NoTrack
        /\ player' = [player EXCEPT !.loading = NoTrack]
        /\ GoWith(h, [Idle EXCEPT !.at = "error", !.track = player.loading])
     \/ /\ player.loading = NoTrack /\ player.now # NoTrack
        /\ player' = [player EXCEPT !.now = EntryUp, !.entries = Rest, !.buffered = NoTrack]
        /\ GoWith(h, [Idle EXCEPT !.at = "error", !.track = player.now])
  /\ UNCHANGED <<account, state, memory, online, block>>

\* The agent reports its status and the track it last started; while a load
\* resolves that is still the track before, if any.  It reports on each connect,
\* and every 2 s if it plays when the tick asks mpv for the position: by the time
\* mpv has answered it may be paused or stopped.
Report(h) ==
  /\ Arrive(h, "report")
  /\ online
  /\ GoWith(h, [Idle EXCEPT !.at = "report", !.track = player.id,
                            !.s = [state |-> player.status]])
  /\ UNCHANGED <<account, state, memory, online, player, block>>

-----------------------------------------------------------------------------
(***************************************************************************)
(* loadTrack and the auto-queue.                                           *)
(***************************************************************************)

\* The awaits of getState and getVolume over, player.load and player.play go
\* out; an offline player makes the handler throw where it stands.
SendLoad(h) ==
  /\ At(h, "load")
  /\ Send(ToLoad(frame[h].track))
  /\ failLoads' = IF online THEN failLoads + 1 ELSE failLoads
  /\ IF online THEN Go(h, "loadPatch") ELSE Done(h)
  /\ UNCHANGED <<account, state, memory, online, block, arrived>>

\* Mutant: the patch forgets the track.
LoadPatchStateOnly(h) ==
  /\ At(h, "loadPatch")
  /\ Patch(h, [state |-> "playing"], "loadTail")
  /\ UNCHANGED <<account, st, memory, online, player, block, arrived, failLoads>>

LoadPatch(h) ==
  /\ At(h, "loadPatch")
  /\ Patch(h, [state |-> "playing", track |-> frame[h].track], "loadTail")
  /\ UNCHANGED <<account, st, memory, online, player, block, arrived, failLoads>>

\* After the patch: lastLoadAt, and the next track is picked in the background.
LoadTail(h) ==
  /\ At(h, "loadTail")
  /\ recent' = TRUE
  /\ SchedulePrefetch(h, frame[h].track)
  /\ IF frame[h].feed /\ ~frame[h].retry THEN Go(h, "ensure") ELSE Done(h)
  /\ UNCHANGED <<account, state, retries, streak, online, player, arrived, failLoads>>

\* autoQueueService.ensure: with repeat off and fewer than the threshold left,
\* tracks the queue does not have are appended (one here).
Refilled(seed) ==
  LET low  == Len(queue) - cursor - 1 < AutoQueueThreshold
      news == Recommended \ TracksOf(queue)
  IN  IF seed # NoTrack /\ st.repeat = "off" /\ low /\ news # {}
      THEN {Append(queue, NewItem(fresh, t)) : t \in news} \cup {queue}
      ELSE {queue}

Ensure(h) ==
  /\ frame[h].at \in {"ensure", "refill"}
  /\ queue' \in Refilled(IF At(h, "ensure") THEN frame[h].track ELSE frame[h].s.track)
  /\ fresh' = fresh + Len(queue') - Len(queue)
  /\ IF At(h, "refill") THEN Go(h, "advanceAgain") ELSE Done(h)
  /\ UNCHANGED <<cursor, state, memory, online, player, block, arrived, failLoads>>

-----------------------------------------------------------------------------
(***************************************************************************)
(* play(trackId), playTracks, the queue's own play button, stop, modes.    *)
(***************************************************************************)
PlaceCurrentStep(h) ==
  /\ At(h, "place")
  /\ LET o == PlaceCurrent(queue, cursor, frame[h].track)
     IN  /\ cursor' = o.index
         /\ IF o.item # NoItem
            THEN StartLoad(h, frame[h].track)
            ELSE Go(h, "insert") /\ UNCHANGED retries
  /\ UNCHANGED <<queue, fresh, state, prefetch, streak, recent, online, player,
                 block, arrived, failLoads>>

\* The track is not in the queue: insert it where the cursor stands.
InsertStep(h) ==
  /\ At(h, "insert")
  /\ queue' = InsertAtCurrent(queue, cursor, NewItem(fresh, frame[h].track)).queue
  /\ fresh' = fresh + 1
  /\ StartLoad(h, frame[h].track)
  /\ UNCHANGED <<cursor, state, prefetch, streak, recent, online, player, block,
                 arrived, failLoads>>

\* playTracks: replace, from the first track on, then getCurrent, then load.
ReplaceStep(h) ==
  /\ At(h, "replace")
  /\ \E ts \in Playlists :
       LET items == [k \in DOMAIN ts |-> NewItem(fresh + k - 1, ts[k])]
           o == Replace(queue, cursor, items, 0)
       IN  /\ queue' = o.queue
           /\ cursor' = o.index
           /\ fresh' = fresh + Len(ts)
  /\ Go(h, "current")
  /\ UNCHANGED <<state, memory, online, player, block, arrived, failLoads>>

\* getCurrent: the queue first ...
CurrentQueue(h) ==
  /\ At(h, "current")
  /\ GoWith(h, [frame[h] EXCEPT !.at = "currentIndex", !.q = queue])
  /\ UNCHANGED <<account, state, memory, online, player, block, arrived, failLoads>>

\* ... and then the cursor; no item, no load.
CurrentIndex(h) ==
  /\ At(h, "currentIndex")
  /\ LET item == ItemAt(frame[h].q, cursor)
     IN  IF item = NoItem THEN Done(h) /\ UNCHANGED retries
         ELSE StartLoad(h, item.track)
  /\ UNCHANGED <<account, state, prefetch, streak, recent, online, player, block,
                 arrived, failLoads>>

\* POST .../queue/:itemId/play: find the item, set the cursor to it, and play
\* its track, which places the cursor once more.
ItemQueue(h) ==
  /\ At(h, "itemQueue")
  /\ \/ \E k \in DOMAIN queue :
          GoWith(h, [frame[h] EXCEPT !.at = "itemIndex", !.i = k - 1,
                                     !.track = queue[k].track])
     \/ queue = <<>> /\ Done(h)
  /\ UNCHANGED <<account, state, memory, online, player, block, arrived, failLoads>>

ItemIndex(h) ==
  /\ At(h, "itemIndex")
  /\ cursor' = frame[h].i
  /\ Go(h, "place")
  /\ UNCHANGED <<queue, fresh, state, memory, online, player, block, arrived, failLoads>>

\* pauseOnDisconnect: the state is read, and patched if it says "playing".
ParkState(h) ==
  /\ At(h, "parkState")
  /\ IF st.state = "playing" THEN Go(h, "parkPatch") ELSE Done(h)
  /\ UNCHANGED <<account, state, memory, online, player, block, arrived, failLoads>>

ParkPatch(h) ==
  /\ At(h, "parkPatch")
  /\ Patch(h, [state |-> "paused"], "idle")
  /\ UNCHANGED <<account, st, memory, online, player, block, arrived, failLoads>>

\* The turn of the first patch of the chain: { ...cur, ...patch }.
ApplyPatch ==
  /\ chain # <<>>
  /\ LET p == Head(chain)
     IN  /\ st' = [k \in DOMAIN st |-> IF k \in DOMAIN p.patch THEN p.patch[k] ELSE st[k]]
         /\ frame' = [frame EXCEPT ![p.by] = IF p.next = "idle" THEN Idle ELSE [@ EXCEPT !.at = p.next]]
  /\ chain' = Tail(chain)
  /\ UNCHANGED <<account, memory, online, player, block, arrived, failLoads>>

-----------------------------------------------------------------------------
(***************************************************************************)
(* next() and previous().                                                  *)
(***************************************************************************)
NextState(h) ==
  /\ At(h, "nextState")
  /\ GoWith(h, [frame[h] EXCEPT !.at = "nextQueue", !.s = st])
  /\ UNCHANGED <<account, state, memory, online, player, block, arrived, failLoads>>

NextQueue(h) ==
  /\ At(h, "nextQueue")
  /\ GoWith(h, [frame[h] EXCEPT !.at = "nextIndex", !.q = queue])
  /\ UNCHANGED <<account, state, memory, online, player, block, arrived, failLoads>>

\* Where next() turns when the pick is not settled yet: a jump sets the
\* cursor to a position of the queue it read, otherwise it advances.
Turn(h, i) ==
  LET f == frame[h]
  IN  \/ \E t \in Jumps(f.q, i, f.s) : GoWith(h, [f EXCEPT !.at = "setIndex", !.i = t])
      \/ Jumps(f.q, i, f.s) = {} /\ Go(h, "advance")

\* The cursor has arrived and next() decides, without another await: replay
\* under repeat-one, else the pick the player is already buffering, else a
\* jump or an advance.
NextIndex(h) ==
  /\ At(h, "nextIndex")
  /\ LET f == frame[h]
         item == IF ItemAt(f.q, cursor) # NoItem THEN ItemAt(f.q, cursor)
                 ELSE ItemAt(queue, cursor)
         replay == f.s.repeat = "one" /\ item # NoItem
         k == FirstWithTrack(f.q, pending)
     IN  \/ replay /\ StartLoad(h, item.track) /\ UNCHANGED prefetch
         \/ /\ ~replay /\ pending # NoTrack
            /\ pending' = NoTrack
            /\ ClearTimer
            /\ IF k >= 0 THEN GoWith(h, [f EXCEPT !.at = "setIndex", !.i = k])
                         ELSE Turn(h, cursor)
            /\ UNCHANGED retries
         \/ ~replay /\ pending = NoTrack /\ Turn(h, cursor) /\ UNCHANGED <<prefetch, retries>>
  /\ UNCHANGED <<account, state, streak, recent, online, player, block, arrived, failLoads>>

\* setIndex(target), then load what stood there when the queue was read.
SetIndexStep(h) ==
  /\ At(h, "setIndex")
  /\ cursor' = frame[h].i
  /\ StartLoad(h, frame[h].q[frame[h].i + 1].track)
  /\ UNCHANGED <<queue, fresh, state, prefetch, streak, recent, online, player,
                 block, arrived, failLoads>>

\* advance(); at the end of the queue once more after a refill, then stop.
AdvanceStep(h) ==
  /\ frame[h].at \in {"advance", "advanceAgain"}
  /\ LET o == Advance(queue, cursor)
     IN  /\ cursor' = o.index
         /\ \/ o.item # NoItem /\ StartLoad(h, o.item.track) /\ UNCHANGED <<player, chain>>
            \/ /\ o.item = NoItem /\ At(h, "advance")
               /\ Go(h, "refill")
               /\ UNCHANGED <<retries, player, chain>>
            \/ /\ o.item = NoItem /\ At(h, "advanceAgain")
               /\ Send(ToStop)
               /\ IF online THEN Patch(h, [state |-> "stopped"], "idle")
                  ELSE Done(h) /\ UNCHANGED chain
               /\ UNCHANGED retries
  /\ UNCHANGED <<queue, fresh, st, prefetch, streak, recent, online, block,
                 arrived, failLoads>>

\* Mutant: also goes back from the first track.
PrevIndexUnchecked(h) ==
  /\ At(h, "prevIndex")
  /\ GoWith(h, [frame[h] EXCEPT !.at = "prevSet", !.i = cursor - 1, !.feed = FALSE])
  /\ UNCHANGED <<account, state, memory, online, player, block, arrived, failLoads>>

\* previous(): at the first track only a seek to 0.
PrevIndex(h) ==
  /\ At(h, "prevIndex")
  /\ IF cursor > 0
     THEN GoWith(h, [frame[h] EXCEPT !.at = "prevSet", !.i = cursor - 1, !.feed = FALSE])
     ELSE Done(h)
  /\ UNCHANGED <<account, state, memory, online, player, block, arrived, failLoads>>

PrevSet(h) ==
  /\ At(h, "prevSet")
  /\ cursor' = frame[h].i
  /\ Go(h, "current")
  /\ UNCHANGED <<queue, fresh, state, memory, online, player, block, arrived, failLoads>>

-----------------------------------------------------------------------------
(***************************************************************************)
(* onTrackEnded and retryTrack.                                            *)
(***************************************************************************)

\* A natural end: dropped within 3 s of a load; adopts the pick the player
\* went on to, or asks for the next track.
Eof(h) ==
  /\ At(h, "eof")
  /\ \/ recent /\ Done(h) /\ UNCHANGED <<streak, failLoads>>
     \/ /\ ~recent
        /\ streak' = 0
        /\ failLoads' = 0
        /\ IF pending # NoTrack
           THEN GoWith(h, [frame[h] EXCEPT !.at = "adoptQueue", !.track = pending])
           ELSE Go(h, "nextState")
  /\ UNCHANGED <<account, state, prefetch, retries, recent, online, player, block, arrived>>

AdoptQueue(h) ==
  /\ At(h, "adoptQueue")
  /\ LET k == FirstWithTrack(queue, frame[h].track)
     IN  \/ /\ k >= 0
            /\ pending' = NoTrack
            /\ ClearTimer
            /\ retries' = NoRetries
            /\ GoWith(h, [frame[h] EXCEPT !.at = "adoptSet", !.i = k])
         \/ k < 0 /\ Go(h, "nextState") /\ UNCHANGED <<prefetch, retries>>
  /\ UNCHANGED <<account, state, streak, recent, online, player, block, arrived, failLoads>>

AdoptSet(h) ==
  /\ At(h, "adoptSet")
  /\ cursor' = frame[h].i
  /\ Go(h, "adoptPatch")
  /\ UNCHANGED <<queue, fresh, state, memory, online, player, block, arrived, failLoads>>

AdoptPatch(h) ==
  /\ At(h, "adoptPatch")
  /\ Patch(h, [state |-> "playing", track |-> frame[h].track], "adoptTail")
  /\ UNCHANGED <<account, st, memory, online, player, block, arrived, failLoads>>

AdoptTail(h) ==
  /\ At(h, "adoptTail")
  /\ SchedulePrefetch(h, frame[h].track)
  /\ Go(h, "ensure")
  /\ UNCHANGED <<account, state, retries, streak, recent, online, player, arrived, failLoads>>

\* A failure: dropped within 3 s of a load, like a natural end.
Error(h) ==
  /\ At(h, "error")
  /\ IF recent THEN Done(h) ELSE Go(h, "retryState")
  /\ UNCHANGED <<account, state, memory, online, player, block, arrived, failLoads>>

\* Mutant: the retries already made are not counted.
NoneUsed == 0

\* The retries already spent on the track of the device state.
Used == IF retries.track = st.track THEN retries.count ELSE 0

\* retryTrack: reload the track of the device state while its budget lasts;
\* else count a failed track, and stop after too many in a row.
RetryState(h) ==
  /\ At(h, "retryState")
  /\ LET again == st.track # NoTrack /\ Used < MaxTrackRetries
     IN  \/ /\ again
            /\ retries' = [track |-> st.track, count |-> Used + 1]
            /\ GoWith(h, Loading(h, st.track, TRUE))
            /\ UNCHANGED <<prefetch, streak, failLoads, chain>>
         \/ /\ ~again /\ streak + 1 < MaxConsecutiveErrors
            /\ streak' = streak + 1
            /\ Go(h, "nextState")
            /\ UNCHANGED <<prefetch, retries, failLoads, chain>>
         \/ /\ ~again /\ streak + 1 >= MaxConsecutiveErrors
            /\ streak' = 0
            /\ ClearTimer
            /\ pending' = NoTrack
            /\ retries' = NoRetries
            /\ failLoads' = 0
            /\ Patch(h, [state |-> "stopped"], "idle")
  /\ UNCHANGED <<account, st, recent, online, player, block, arrived>>

-----------------------------------------------------------------------------
(***************************************************************************)
(* applyPlayerReport.  The state is read, the track worked out, and only   *)
(* then the patch is queued behind the other patches of the device.        *)
(***************************************************************************)
ReportState(h) ==
  /\ At(h, "report")
  /\ Go(h, IF st.track = frame[h].track THEN "reportPatch" ELSE "reportQueue")
  /\ UNCHANGED <<account, state, memory, online, player, block, arrived, failLoads>>

\* Another track than the state's: restore it from the queue, else none.
ReportQueue(h) ==
  /\ At(h, "reportQueue")
  /\ GoWith(h, [frame[h] EXCEPT !.at = "reportPatch",
                  !.track = IF @ \in TracksOf(queue) THEN @ ELSE NoTrack])
  /\ UNCHANGED <<account, state, memory, online, player, block, arrived, failLoads>>

ReportPatch(h) ==
  /\ At(h, "reportPatch")
  /\ Patch(h, [state |-> frame[h].s.state, track |-> frame[h].track], "idle")
  /\ UNCHANGED <<account, st, memory, online, player, block, arrived, failLoads>>

-----------------------------------------------------------------------------
(***************************************************************************)
(* Gapless prefetch.                                                       *)
(***************************************************************************)
EndBlock(h) == block' = [block EXCEPT ![h] = NoBlock]

BlockState(h) ==
  /\ block[h].at = "state"
  /\ IF st.state = "playing" /\ st.repeat # "one"
     THEN block' = [block EXCEPT ![h].at = "queue", ![h].s = st]
     ELSE EndBlock(h)
  /\ UNCHANGED <<account, state, memory, online, player, frame, arrived, failLoads>>

BlockQueue(h) ==
  /\ block[h].at = "queue"
  /\ block' = [block EXCEPT ![h].at = "index", ![h].q = queue]
  /\ UNCHANGED <<account, state, memory, online, player, frame, arrived, failLoads>>

\* The pick is made and a timer armed for it.  The map remembers the new
\* timer; a timer another block has armed meanwhile stays armed.
BlockIndex(h) ==
  /\ block[h].at = "index"
  /\ LET blk == block[h]
         picks == Picks(blk.q, cursor, blk.s)
         free == 1..MaxTimers \ ({t.id : t \in timers} \cup {mapped})
     IN  \/ picks = {} /\ UNCHANGED <<timers, mapped>>
         \/ /\ free # {}
            /\ mapped' = Min(free)
            /\ \E k \in picks : timers' = timers \cup {[id |-> Min(free), track |-> blk.q[k + 1].track]}
  /\ EndBlock(h)
  /\ UNCHANGED <<account, state, pending, retries, streak, recent, online, player,
                 frame, arrived, failLoads>>

\* PREFETCH_LEAD before the end the timer fires: the pick becomes pendingNext
\* and the player appends it; an offline player drops both.
TimerFires ==
  /\ ShortTracks \/ player.loading = NoTrack
  /\ \E t \in timers :
       /\ timers' = timers \ {t}
       /\ mapped' = IF mapped = t.id THEN NoTimer ELSE mapped
       /\ pending' = IF online THEN t.track ELSE NoTrack
       /\ Send(ToAppend(t.track))
  /\ UNCHANGED <<account, state, retries, streak, recent, online, frame, block,
                 arrived, failLoads>>

\* The orders a client may ask for that names each item once; another one is
\* refused or loses items (QueueStore).
Orders == {[k \in DOMAIN queue |-> queue[p[k]].id] : p \in Injection(DOMAIN queue, DOMAIN queue)}

\* The queue edits of the API, and then invalidatePrefetch.
EditsOf(item) ==
  {Add(queue, cursor, item), AddNext(queue, cursor, item)}
    \cup IF GrowOnly THEN {}
         ELSE {ClearAll(queue, cursor)}
                \cup {RemoveItem(queue, cursor, id) : id \in IdsOf(queue)}
                \cup {Reorder(queue, cursor, order) : order \in Orders}

EditQueue(h) ==
  /\ At(h, "edit")
  /\ \E t \in Tracks : \E o \in EditsOf(NewItem(fresh, t)) :
       /\ queue' = o.queue
       /\ cursor' = o.index
  /\ fresh' = fresh + 1
  /\ Go(h, "invalidate")
  /\ UNCHANGED <<state, memory, online, player, block, arrived, failLoads>>

Invalidate(h) ==
  /\ At(h, "invalidate")
  /\ ClearTimer
  /\ pending' = NoTrack
  /\ Send(ToDropEntries)
  /\ Go(h, "invalidateState")
  /\ UNCHANGED <<account, state, retries, streak, recent, online, block, arrived, failLoads>>

InvalidateState(h) ==
  /\ At(h, "invalidateState")
  /\ IF st.state = "playing" /\ st.track # NoTrack
     THEN SchedulePrefetch(h, st.track)
     ELSE UNCHANGED <<prefetch, block>>
  /\ Done(h)
  /\ UNCHANGED <<account, state, retries, streak, recent, online, player, arrived, failLoads>>

-----------------------------------------------------------------------------
(***************************************************************************)
(* Time and the environment.                                               *)
(***************************************************************************)

\* Three seconds have passed since the last load.
Age ==
  /\ recent
  /\ recent' = FALSE
  /\ UNCHANGED <<account, state, prefetch, retries, streak, online, player, frame,
                 block, arrived, failLoads>>

\* A load resolves: mpv replaces what it played and what it had appended.
PlayerStarts ==
  /\ player.loading # NoTrack
  /\ SlowResolve => \A h \in Handlers : At(h, "idle")
  /\ player' = [now |-> player.loading, entries |-> <<>>, loading |-> NoTrack,
                id |-> player.loading, buffered |-> NoTrack, status |-> "playing"]
  /\ UNCHANGED <<account, state, memory, online, frame, block, arrived, failLoads>>

\* The player's socket goes and comes back; mpv plays on.
Disconnect ==
  /\ MayDisconnect
  /\ online' = ~online
  /\ UNCHANGED <<account, state, memory, player, frame, block, arrived, failLoads>>

Arrival(h) ==
  \/ Play(h) \/ NextCommand(h) \/ Previous(h) \/ Mode(h) \/ PlayTracks(h)
  \/ Edit(h) \/ PlayItem(h) \/ Stop(h)
  \/ Transport(h) \/ Grace(h) \/ TrackEnds(h) \/ TrackFails(h) \/ Report(h)

Resume(h) ==
  \/ SendLoad(h) \/ LoadPatch(h) \/ LoadTail(h) \/ Ensure(h)
  \/ PlaceCurrentStep(h) \/ InsertStep(h) \/ ReplaceStep(h)
  \/ CurrentQueue(h) \/ CurrentIndex(h) \/ ItemQueue(h) \/ ItemIndex(h)
  \/ ParkState(h) \/ ParkPatch(h)
  \/ NextState(h) \/ NextQueue(h) \/ NextIndex(h) \/ SetIndexStep(h)
  \/ AdvanceStep(h) \/ PrevIndex(h) \/ PrevSet(h)
  \/ Eof(h) \/ AdoptQueue(h) \/ AdoptSet(h) \/ AdoptPatch(h) \/ AdoptTail(h)
  \/ Error(h) \/ RetryState(h)
  \/ ReportState(h) \/ ReportQueue(h) \/ ReportPatch(h)
  \/ EditQueue(h) \/ Invalidate(h) \/ InvalidateState(h)
  \/ BlockState(h) \/ BlockQueue(h) \/ BlockIndex(h)

Next ==
  \/ \E h \in Handlers : Arrival(h) \/ Resume(h)
  \/ ApplyPatch
  \/ TimerFires
  \/ Age
  \/ PlayerStarts
  \/ Disconnect

Spec == Init /\ [][Next]_vars

-----------------------------------------------------------------------------
(***************************************************************************)
(* Properties.                                                             *)
(***************************************************************************)
Labels ==
  {"idle", "patching", "load", "loadPatch", "loadTail", "ensure", "refill", "advanceAgain",
   "place", "insert", "replace", "current", "currentIndex", "itemQueue",
   "itemIndex", "parkState", "parkPatch",
   "nextState", "nextQueue", "nextIndex", "setIndex", "advance", "prevIndex",
   "prevSet", "eof", "adoptQueue", "adoptSet", "adoptPatch", "adoptTail",
   "error", "retryState", "report", "reportQueue", "reportPatch", "edit",
   "invalidate", "invalidateState"}
AnyTrack == Tracks \cup ToSet(StartTracks) \cup Recommended
OptTrack == AnyTrack \cup {NoTrack}
States == {"stopped", "playing", "paused"}

\* Every variable keeps its shape; item ids stay distinct, and the cursor
\* never goes below 0.
TypeOK ==
  /\ \A k \in DOMAIN queue : queue[k].id < fresh /\ queue[k].track \in AnyTrack
  /\ Cardinality(IdsOf(queue)) = Len(queue)
  /\ cursor \in Nat
  /\ st.state \in States /\ st.track \in OptTrack
  /\ pending \in OptTrack
  /\ mapped \in 0..MaxTimers
  /\ \A t \in timers : t.id \in 1..MaxTimers /\ t.track \in AnyTrack
  /\ retries.count \in 0..MaxTrackRetries
  /\ streak \in 0..(MaxConsecutiveErrors - 1)
  /\ player.status \in States
  /\ {player.now, player.loading, player.id, player.buffered} \subseteq OptTrack
  /\ \A h \in Handlers : At(h, "idle") \/ frame[h].at \in Labels
  /\ \A h \in Handlers : block[h].at \in {"none", "state", "queue", "index"}

\* No handler and no prefetch block is in progress.
Quiet == \A h \in Handlers : At(h, "idle") /\ block[h].at = "none"

\* The track the player is to play: the one it resolves, else the one it plays.
Wanted == IF player.loading # NoTrack THEN player.loading ELSE player.now

\* When every handler is done, the queue's cursor stands on an item of the
\* track the player was made to play (loadTrack, the adoption of a prefetch):
\* the highlight of the UI and the next advance() start from what is heard.
CursorIsLoaded ==
  Quiet /\ Wanted # NoTrack =>
    cursor + 1 \in DOMAIN queue /\ queue[cursor + 1].track = Wanted

\* When every handler is done, the state in Redis tells what the player does:
\* "playing" names the track it plays, "stopped" means that it is silent, and a
\* player that was paused or stopped is not shown as playing.  This is about the
\* patches of commands and natural ends handled one at a time.  Reports, which
\* write the state as well, break it: one that has read the state before a pause
\* is written after it, and with two handlers and the command "report" this
\* does not hold.
StateMatchesPlayer ==
  Quiet => /\ (st.state = "playing" /\ Wanted # NoTrack => st.track = Wanted)
           /\ (st.state = "stopped" => Wanted = NoTrack)
           /\ (player.status \in {"paused", "stopped"} => st.state # "playing")

\* When every handler is done and a track plays, the pick the server holds is
\* exactly what mpv will go on to: onTrackEnded adopts it without another load.
PendingIsBuffered ==
  Quiet /\ Wanted # NoTrack /\ pending # NoTrack =>
    player.entries # <<>> /\ player.entries[1] = pending

\* When every handler is done, what mpv would go on to is a track the queue
\* still has: an edit takes a removed track out of mpv's playlist.
BufferedIsQueued ==
  Quiet /\ player.loading = NoTrack => ToSet(player.entries) \subseteq TracksOf(queue)

\* However requests interleave, as long as they only add items the cursor
\* stays on the queue.
CursorInRange == queue # <<>> => cursor < Len(queue)

\* A provider that is broken altogether is given up: from the command that
\* starts a track, or a natural end, to the surrender at most (retries + 1)
\* loads are sent for each of MAX_CONSECUTIVE_ERRORS tracks, whatever edits,
\* modes, pauses and stops come in between.  Reports break it: one that names
\* another track than the state's gives the retries of that track a new budget.
FailuresAreBounded == failLoads <= (MaxTrackRetries + 1) * MaxConsecutiveErrors

\* A failure during playback is answered by a reload of the very track that
\* failed, or by moving on.
RetriesSameTrack ==
  [][\A h \in Handlers :
       At(h, "retryState") /\ frame'[h].at = "load" /\ st.state = "playing" =>
         frame'[h].track = frame[h].track]_vars
=============================================================================
