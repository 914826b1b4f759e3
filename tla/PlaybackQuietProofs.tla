------------------------ MODULE PlaybackQuietProofs ------------------------
(***************************************************************************)
(* What the queue, the device state, the picks and the player agree on     *)
(* when one handler at a time runs and nothing comes from outside while it *)
(* does: for any number of commands, tracks and timers, any retry limits   *)
(* and any auto-queue.                                                     *)
(***************************************************************************)
EXTENDS PlaybackProofs

\* The conditions: one handler at a time, a load outlasts its handler, neither
\* a natural end nor a failure belongs to the track before, no prefetch timer
\* fires while a load resolves, and the player stays connected and only
\* answers.  A device that is given up after failures says "stopped" while mpv
\* plays on, so that resume is left out where tracks fail.
Undisturbed ==
  /\ OneHandler
  /\ SlowResolve /\ ~OldTrackPlaysOn /\ ~ShortTracks /\ ~EarlyFailures /\ ~MayDisconnect
  /\ "report" \notin Commands
  /\ "error" \notin Commands \/ "resume" \notin Commands

NoErrors == "error" \notin Commands

\* Nothing moves the track that is played away from the cursor: a removal does,
\* and so does a failed load.
Followed == GrowOnly /\ NoErrors

-----------------------------------------------------------------------------
(***************************************************************************)
(* The invariant.                                                          *)
(***************************************************************************)

\* Where the handler stands, or goes on at once its patch is written, and what
\* the device state is then.
Ahead(h) == IF chain = <<>> THEN frame[h].at ELSE chain[1].next
Soon == IF chain = <<>> THEN st ELSE Spread(st, chain[1].patch)

\* Labels at which the handler has not disturbed anything, or is done with it;
\* at which it is about to load or to stop; and the rest of a load, of the
\* adoption of a pick and of a failure.
Resting == {"idle", "ensure", "edit", "invalidate", "prevIndex", "itemQueue"}
Heading == {"nextState", "nextQueue", "nextIndex", "setIndex", "advance", "refill",
            "advanceAgain", "place", "insert", "replace", "current", "currentIndex",
            "itemIndex", "prevSet", "load"}
Arriving == {"loadPatch", "loadTail"}
Adopting == {"adoptQueue", "adoptSet", "adoptPatch", "adoptTail"}
Failing == {"error", "retryState"}

\* The cursor stands on an item of track t.
Stands(t) == cursor < Len(queue) /\ queue[cursor + 1].track = t

\* mpv plays and resolves nothing; a pick is being made or waits for its time.
Plays == player.loading = NoTrack /\ player.now # NoTrack
Picking(h) == timers # {} \/ block[h].at # "none"

\* Nothing that is to be played next has been touched.
Untouched(h) ==
  /\ player.loading # NoTrack => pending = NoTrack
  /\ Plays /\ pending # NoTrack => player.entries = <<pending>>
  /\ Plays /\ Picking(h) => player.entries = <<>>
  /\ Soon.state = "playing" /\ Wanted # NoTrack => Soon.track = Wanted
  /\ player.status # "playing" => Soon.state # "playing"
  /\ NoErrors /\ Wanted # NoTrack => Soon.track = Wanted /\ Soon.state # "stopped"

Rests(h) ==
  /\ Untouched(h)
  /\ Followed /\ Wanted # NoTrack => Stands(Wanted)

\* invalidatePrefetch has emptied mpv's playlist.
Empties(h) == Rests(h) /\ player.entries = <<>> /\ timers = {}

Heads(h) ==
  /\ Ahead(h) = "load" => frame[h].track # NoTrack
  /\ Ahead(h) \in {"nextIndex", "setIndex", "currentIndex"} => frame[h].q = queue
  /\ Ahead(h) \in {"setIndex", "itemIndex"} => frame[h].i < Len(queue)
  /\ Ahead(h) \in {"replace", "prevSet", "current", "currentIndex"} => Untouched(h)
  /\ Ahead(h) = "replace" => "playTracks" \in Commands
  /\ GrowOnly /\ Ahead(h) = "prevSet" => frame[h].i < Len(queue)
  /\ GrowOnly /\ Ahead(h) \in {"current", "currentIndex"} => cursor < Len(queue)
  /\ Followed /\ Ahead(h) = "load" => Stands(frame[h].track)

Loads(h) ==
  /\ player.loading = frame[h].track /\ frame[h].track # NoTrack
  /\ player.status = "playing"
  /\ Followed => Stands(frame[h].track)
  /\ Ahead(h) = "loadTail" => Soon.state = "playing" /\ Soon.track = frame[h].track

\* The track has ended: mpv has gone on to the pick, if the server has one.  It
\* may also have gone on to one that the server has forgotten since.
Ended ==
  /\ player.loading = NoTrack /\ player.status = "playing" /\ ~recent
  /\ Plays => timers = {} /\ (pending # NoTrack => player.entries = <<>> /\ player.now = pending)

Adopts(h) ==
  /\ player.loading = NoTrack /\ player.status = "playing"
  /\ timers = {}
  /\ Plays => player.entries = <<>> /\ player.now = frame[h].track
  /\ IF Ahead(h) = "adoptQueue" THEN pending = frame[h].track ELSE pending = NoTrack
  /\ Ahead(h) = "adoptSet" =>
       frame[h].i < Len(queue) /\ queue[frame[h].i + 1].track = frame[h].track
  /\ Ahead(h) \in {"adoptPatch", "adoptTail"} => Stands(frame[h].track)
  /\ Ahead(h) = "adoptTail" => Soon.state = "playing" /\ Soon.track = frame[h].track

Fails(h) ==
  /\ ~NoErrors
  /\ player.loading = NoTrack
  /\ Ahead(h) = "error" => ~recent
  /\ Soon.state = "playing" => Soon.track = frame[h].track

\* At most one timer is armed, the one the map knows, and none beside a pick.
Steady ==
  /\ online
  /\ GrowOnly => OnQueue(cursor, Len(queue))
  /\ \A t \in timers : t.id = mapped /\ pending = NoTrack
  /\ \A t, u \in timers : t = u

\* The handler waits for its own patch only, and a block runs beside no other
\* part of a handler than the refill.
Settled(h) ==
  /\ At(h, "patching") <=> chain # <<>>
  /\ chain = <<>> \/ chain = <<chain[1]>>
  /\ block[h].at # "none" =>
       Ahead(h) \in {"idle", "ensure"} /\ timers = {} /\ pending = NoTrack

Stage(h) ==
  \/ Ahead(h) \in Resting /\ Rests(h)
  \/ Ahead(h) = "invalidateState" /\ Empties(h)
  \/ Ahead(h) \in Heading /\ Heads(h)
  \/ Ahead(h) \in Arriving /\ Loads(h)
  \/ Ahead(h) = "eof" /\ Ended
  \/ Ahead(h) \in Adopting /\ Adopts(h)
  \/ Ahead(h) \in Failing /\ Fails(h)

QuietInv == Steady /\ \A h \in Handlers : Settled(h) /\ Stage(h)

-----------------------------------------------------------------------------
(***************************************************************************)
(* How a step moves the handler, and what it must show for the invariant.  *)
(***************************************************************************)

\* A track is something.
LEMMA TracksAreSomething == NoTrack \notin AnyTrack /\ NoItem \notin Item
<1>1. AnyTrack = Tracks \cup Recommended
  <2>1. ToSet(StartTracks) \subseteq Tracks
    BY StartIsAQueue DEF ToSet
  <2>2. QED
    BY <2>1 DEF AnyTrack
<1>2. QED
  BY <1>1, NullIsNothing DEF Item

\* The label decides what is known.
LEMMA Known ==
  ASSUME QuietInv, NEW h \in Handlers
  PROVE  /\ Ahead(h) \in Resting => Rests(h)
         /\ Ahead(h) = "invalidateState" => Empties(h)
         /\ Ahead(h) \in Heading => Heads(h)
         /\ Ahead(h) \in Arriving => Loads(h)
         /\ Ahead(h) = "eof" => Ended
         /\ Ahead(h) \in Adopting => Adopts(h)
         /\ Ahead(h) \in Failing => Fails(h)
         /\ Ahead(h) \notin {"report", "reportQueue", "reportPatch", "parkState", "parkPatch"}
<1> DEFINE l == Ahead(h)
<1>1. \/ l \in Resting /\ Rests(h)
      \/ l = "invalidateState" /\ Empties(h)
      \/ l \in Heading /\ Heads(h)
      \/ l \in Arriving /\ Loads(h)
      \/ l = "eof" /\ Ended
      \/ l \in Adopting /\ Adopts(h)
      \/ l \in Failing /\ Fails(h)
  BY DEF QuietInv, Stage
<1> HIDE DEF l
<1> DEFINE Marks == {"eof", "invalidateState"}
           None == {"report", "reportQueue", "reportPatch", "parkState", "parkPatch"}
<1>2. /\ l \in Resting => l \notin Heading \cup Arriving \cup Adopting \cup Failing \cup Marks \cup None
      /\ l \in Heading => l \notin Resting \cup Arriving \cup Adopting \cup Failing \cup Marks \cup None
      /\ l \in Arriving => l \notin Resting \cup Heading \cup Adopting \cup Failing \cup Marks \cup None
      /\ l \in Adopting => l \notin Resting \cup Heading \cup Arriving \cup Failing \cup Marks \cup None
      /\ l \in Failing => l \notin Resting \cup Heading \cup Arriving \cup Adopting \cup Marks \cup None
      /\ l \in Marks => l \notin Resting \cup Heading \cup Arriving \cup Adopting \cup Failing \cup None
  BY DEF Resting, Heading, Arriving, Adopting, Failing
<1>3. QED
  BY <1>1, <1>2 DEF l

\* A handler that does not wait for a patch stands where it is, and nobody
\* else has a patch waiting.
LEMMA Standing ==
  ASSUME QuietInv, NEW h \in Handlers, frame[h].at # "patching"
  PROVE  /\ chain = <<>> /\ Ahead(h) = frame[h].at /\ Soon = st
         /\ block[h].at # "none" =>
              frame[h].at \in {"idle", "ensure"} /\ timers = {} /\ pending = NoTrack
  BY DEF QuietInv, Settled, At, Ahead, Soon

\* With one handler, its stage is all there is to show.
LEMMA OneStage ==
  ASSUME OneHandler, NEW h \in Handlers, Steady', Settled(h)', Stage(h)'
  PROVE  QuietInv'
  BY DEF OneHandler, QuietInv

LEMMA SteadyStays ==
  ASSUME Steady, UNCHANGED <<online, queue, cursor, timers, mapped, pending>>
  PROVE  Steady'
  BY DEF Steady

\* The handler goes on without a patch.
LEMMA HandlerMoves ==
  ASSUME PlaybackTypes, NEW h \in Handlers
  PROVE  /\ \A f : GoWith(h, f) => frame'[h] = f
         /\ \A l : Go(h, l) =>
              /\ frame'[h].at = l /\ frame'[h].track = frame[h].track
              /\ frame'[h].q = frame[h].q /\ frame'[h].i = frame[h].i
         /\ Done(h) => frame'[h].at = "idle"
<1>1. frame \in [Handlers -> Frames] /\ frame[h] \in Frames
  BY DEF PlaybackTypes, FrameTypes
<1>2. \A f : GoWith(h, f) => frame'[h] = f
  BY <1>1 DEF GoWith
<1>3. ASSUME NEW l, Go(h, l)
      PROVE  /\ frame'[h].at = l /\ frame'[h].track = frame[h].track
             /\ frame'[h].q = frame[h].q /\ frame'[h].i = frame[h].i
  BY <1>1, <1>3 DEF Go, Frames
<1>4. Done(h) => frame'[h] = Idle
  BY <1>1 DEF Done
<1>5. Idle.at = "idle"
  BY DEF Idle
<1>6. QED
  BY <1>2, <1>3, <1>4, <1>5

\* It stands at the new label, ...
LEMMA Arrives ==
  ASSUME NEW h \in Handlers, chain = <<>>, UNCHANGED state, frame'[h].at # "patching",
         block'[h].at # "none" =>
           frame'[h].at \in {"idle", "ensure"} /\ timers' = {} /\ pending' = NoTrack
  PROVE  Ahead(h)' = frame'[h].at /\ Soon' = st /\ Settled(h)'
  BY DEF state, Ahead, Soon, Settled, At

\* ... or waits for its patch.
LEMMA PatchWaits ==
  ASSUME PlaybackTypes, NEW h \in Handlers, NEW patch, NEW l, chain = <<>>, st' = st,
         Patch(h, patch, l),
         block'[h].at # "none" =>
           l \in {"idle", "ensure"} /\ timers' = {} /\ pending' = NoTrack
  PROVE  /\ Ahead(h)' = l /\ Soon' = Spread(st, patch) /\ Settled(h)'
         /\ frame'[h].track = frame[h].track
<1>1. /\ frame'[h].at = "patching" /\ frame'[h].track = frame[h].track
      /\ chain' = <<[by |-> h, patch |-> patch, next |-> l]>>
  BY HandlerMoves DEF Patch
<1>2. chain' # <<>> /\ chain' = <<chain'[1]>> /\ chain'[1].patch = patch /\ chain'[1].next = l
  BY <1>1
<1>3. Ahead(h)' = l /\ Soon' = Spread(st, patch)
  BY <1>2 DEF Ahead, Soon
<1>4. QED
  BY <1>1, <1>2, <1>3 DEF Settled, At

\* The patches of the commands.
LEMMA PatchedState ==
  ASSUME PlaybackTypes
  PROVE  /\ \A x : /\ Spread(st, [state |-> x]).state = x
                   /\ Spread(st, [state |-> x]).track = st.track
         /\ \A x, t : /\ Spread(st, [state |-> x, track |-> t]).state = x
                      /\ Spread(st, [state |-> x, track |-> t]).track = t
         /\ \A x : /\ Spread(st, [shuffle |-> x]).state = st.state
                   /\ Spread(st, [shuffle |-> x]).track = st.track
                   /\ Spread(st, [repeat |-> x]).state = st.state
                   /\ Spread(st, [repeat |-> x]).track = st.track
<1>1. DOMAIN st = {"state", "track", "shuffle", "repeat"}
  BY DEF PlaybackTypes, StateTypes, DeviceStates
<1>2. QED
  BY <1>1 DEF Spread

-----------------------------------------------------------------------------
(***************************************************************************)
(* What the queue operations do to the item under the cursor.              *)
(***************************************************************************)

\* findIndex answers the position of an item of the track, if any.
LEMMA FirstHasTrack ==
  ASSUME QueueTypes, NEW t, FirstWithTrack(queue, t) >= 0
  PROVE  /\ FirstWithTrack(queue, t) \in Nat /\ FirstWithTrack(queue, t) < Len(queue)
         /\ queue[FirstWithTrack(queue, t) + 1].track = t
<1> DEFINE I == {i \in 1..Len(queue) : queue[i].track = t}
           k == FirstWithTrack(queue, t)
<1>1. k = IF I # {} THEN Min(I) - 1 ELSE -1
  BY DEF FirstWithTrack, SelectInSeq
<1>2. k \in -1 .. Len(queue) - 1 /\ k >= 0
  BY FirstIsPosition DEF QueueTypes
<1> HIDE DEF k
<1>3. I # {} /\ k = Min(I) - 1
  BY <1>1, <1>2
<1>4. Min(I) \in I
  <2>1. I \in SUBSET Nat
    OBVIOUS
  <2> HIDE DEF I
  <2>2. QED
    BY <1>3, <2>1, MinIsMember, Zenon
<1>5. Min(I) \in Int /\ Min(I) \in 1..Len(queue) /\ queue[Min(I)].track = t
  BY <1>4
<1> HIDE DEF I
<1>6. k + 1 = Min(I)
  BY <1>3, <1>5
<1>7. QED
  BY <1>2, <1>5, <1>6 DEF k, QueueTypes

\* splice(i, 0, e) puts e at i, and leaves what stands before it.
LEMMA InsertPuts ==
  ASSUME NEW q \in Seq(Item), NEW i \in 1 .. Len(q) + 1, NEW e \in Item
  PROVE  /\ InsertAt(q, i, e)[i] = e
         /\ \A k \in 1 .. Len(q) + 1 : k < i => InsertAt(q, i, e)[k] = q[k]
<1>1. \A k \in 1 .. Len(q) + 1 :
        InsertAt(q, i, e)[k] = IF k < i THEN q[k] ELSE IF k = i THEN e ELSE q[k - 1]
  BY InsertAdds
<1>2. ~(i < i)
  OBVIOUS
<1>3. QED
  BY <1>1, <1>2

\* An item that requests add does not move what the cursor stands on.
LEMMA EditStays ==
  ASSUME GrowOnly, QueueTypes, NEW h \in Handlers, EditQueue(h), NEW t, Stands(t)
  PROVE  Stands(t)'
<1>1. queue \in Seq(Item) /\ cursor \in Nat /\ fresh \in Nat /\ Len(queue) \in Nat
  BY DEF QueueTypes
<1>2. PICK x \in Tracks :
        \E o \in EditsOf(NewItem(fresh, x)) : queue' = o.queue /\ cursor' = o.index
  BY DEF EditQueue
<1>3. PICK o \in EditsOf(NewItem(fresh, x)) : queue' = o.queue /\ cursor' = o.index
  BY <1>2
<1> DEFINE e == NewItem(fresh, x)
           n == Lesser(cursor + 1, Len(queue)) + 1
<1>4. e \in Item
  BY <1>1 DEF NewItem, Item, AnyTrack
<1>5. o \in {Add(queue, cursor, e), AddNext(queue, cursor, e)}
  BY <1>3 DEF EditsOf
<1> HIDE DEF e
<1>6. cursor < Len(queue) /\ queue[cursor + 1].track = t
  BY DEF Stands
<1>7. CASE o = Add(queue, cursor, e)
  <2>1. queue' = Append(queue, e) /\ cursor' = cursor
    BY <1>3, <1>7 DEF Add, Ok
  <2>2. Len(queue') = Len(queue) + 1 /\ queue'[cursor + 1] = queue[cursor + 1]
    BY <1>1, <1>4, <1>6, <2>1
  <2>3. QED
    BY <1>1, <1>6, <2>1, <2>2 DEF Stands
<1>8. CASE o = AddNext(queue, cursor, e)
  <2>1. queue' = InsertAt(queue, n, e) /\ cursor' = cursor
    BY <1>3, <1>8 DEF AddNext, Ok
  <2>2. n \in 1 .. Len(queue) + 1 /\ cursor + 1 < n /\ cursor + 1 \in 1 .. Len(queue) + 1
    BY <1>1, <1>6 DEF Lesser
  <2> HIDE DEF n
  <2>3. Len(queue') = Len(queue) + 1
    BY <1>1, <1>4, <2>1, <2>2, InsertGrows
  <2>4. queue'[cursor + 1] = queue[cursor + 1]
    BY <1>1, <1>4, <2>1, <2>2, InsertPuts, Zenon
  <2>5. QED
    BY <1>1, <1>6, <2>1, <2>3, <2>4 DEF Stands
<1>9. QED
  BY <1>5, <1>7, <1>8

\* Neither do the items of a refill.
LEMMA RefillStays ==
  ASSUME QueueTypes, NEW h \in Handlers, Ensure(h)
  PROVE  /\ cursor' = cursor /\ Len(queue') >= Len(queue) /\ Len(queue') \in Nat
         /\ \A t : Stands(t) => Stands(t)'
<1>1. queue \in Seq(Item) /\ cursor \in Nat /\ fresh \in Nat /\ Len(queue) \in Nat
  BY DEF QueueTypes
<1>2. cursor' = cursor /\ \E seed : queue' \in Refilled(seed)
  BY DEF Ensure
<1>3. queue' = queue \/ \E x \in Recommended : queue' = Append(queue, NewItem(fresh, x))
  <2>1. PICK seed : queue' \in Refilled(seed)
    BY <1>2
  <2>2. QED
    BY <2>1 DEF Refilled
<1>4. CASE queue' = queue
  BY <1>1, <1>2, <1>4 DEF Stands
<1>5. ASSUME NEW x \in Recommended, queue' = Append(queue, NewItem(fresh, x))
      PROVE  /\ Len(queue') = Len(queue) + 1
             /\ \A k \in 1 .. Len(queue) : queue'[k] = queue[k]
  <2> DEFINE e == NewItem(fresh, x)
  <2>1. e \in Item
    BY <1>1 DEF NewItem, Item, AnyTrack
  <2> HIDE DEF e
  <2>2. QED
    BY <1>1, <1>5, <2>1 DEF e
<1>6. ASSUME Len(queue') = Len(queue) + 1, \A k \in 1 .. Len(queue) : queue'[k] = queue[k],
             NEW t, Stands(t)
      PROVE  Stands(t)'
  <2>1. cursor + 1 \in 1 .. Len(queue) /\ queue[cursor + 1].track = t
    BY <1>1, <1>6 DEF Stands
  <2>2. queue'[cursor + 1] = queue[cursor + 1]
    BY <1>6, <2>1
  <2>3. QED
    BY <1>1, <1>2, <1>6, <2>1, <2>2 DEF Stands
<1>7. QED
  BY <1>1, <1>2, <1>3, <1>4, <1>5, <1>6

\* play(trackId) did not find the track and puts it under the cursor.
LEMMA InsertStands ==
  ASSUME QueueTypes, OnQueue(cursor, Len(queue)), NEW h \in Handlers, InsertStep(h),
         frame[h].track \in AnyTrack
  PROVE  cursor' = cursor /\ Len(queue') = Len(queue) + 1 /\ cursor' < Len(queue')
         /\ queue'[cursor' + 1].track = frame[h].track
<1> DEFINE e == NewItem(fresh, frame[h].track)
           n == Lesser(cursor, Len(queue)) + 1
<1>1. queue \in Seq(Item) /\ cursor \in Nat /\ fresh \in Nat /\ Len(queue) \in Nat
  BY DEF QueueTypes
<1>2. e \in Item /\ e.track = frame[h].track
  BY <1>1 DEF NewItem, Item
<1>3. queue' = InsertAt(queue, n, e) /\ cursor' = cursor
  BY DEF InsertStep, InsertAtCurrent, Ok
<1>4. n = cursor + 1 /\ n \in 1 .. Len(queue) + 1
  BY <1>1 DEF OnQueue, Lesser
<1> HIDE DEF e, n
<1>5. Len(queue') = Len(queue) + 1
  <2>1. n \in 1 .. Len(queue) + 1
    BY <1>4
  <2>2. Len(InsertAt(queue, n, e)) = Len(queue) + 1
    BY <1>1, <1>2, <2>1, InsertGrows
  <2>3. QED
    BY <1>3, <2>2
<1>6. queue'[n] = e
  BY <1>1, <1>2, <1>3, <1>4, InsertPuts
<1>7. QED
  BY <1>1, <1>2, <1>3, <1>4, <1>5, <1>6

-----------------------------------------------------------------------------
(***************************************************************************)
(* The steps.                                                              *)
(***************************************************************************)

\* A step that changes neither what the player has nor what is to be played
\* next touches nothing, ...
LEMMA StaysUntouched ==
  ASSUME NEW h \in Handlers, Untouched(h), Soon'.state = Soon.state, Soon'.track = Soon.track,
         UNCHANGED <<pending, timers, player>>, block'[h].at = block[h].at
  PROVE  Untouched(h)'
  BY DEF Untouched, Plays, Picking, Wanted, NoErrors

\* ... and leaves a resting handler at rest.
LEMMA RestsStay ==
  ASSUME NEW h \in Handlers, Rests(h), Soon'.state = Soon.state, Soon'.track = Soon.track,
         UNCHANGED <<queue, cursor, pending, timers, player>>, block'[h].at = block[h].at
  PROVE  Rests(h)'
<1>1. Untouched(h)'
  BY StaysUntouched DEF Rests
<1>2. QED
  BY <1>1 DEF Rests, Untouched, Followed, NoErrors, Wanted, Stands

\* A command, a natural end or a failure finds the handler at rest.
LEMMA QuietArrival ==
  ASSUME Undisturbed, PlaybackTypes, QuietInv, NEW h \in Handlers, Arrival(h)
  PROVE  QuietInv'
<1>1. At(h, "idle") /\ block[h].at = "none"
  BY Zenon DEF Arrival, Play, NextCommand, Previous, PlayTracks, Edit, PlayItem, Grace, Command, Mode,
         Stop, Transport, TrackEnds, TrackFails, Report, Arrive
<1>2. chain = <<>> /\ Ahead(h) = "idle" /\ Soon = st
  BY <1>1, Standing DEF At
<1>3. Rests(h) /\ Steady
  BY <1>2, Known DEF Resting, QuietInv
<1>4. OneHandler
  BY DEF Undisturbed
<1>5. ASSUME NEW kind, NEW l \in Resting \cup {"nextState", "replace"}, Command(h, kind, l),
             l = "replace" => kind = "playTracks"
      PROVE  QuietInv'
  <2>1. frame'[h].at = l /\ l # "patching"
    BY <1>5, HandlerMoves DEF Command, Resting
  <2>2. UNCHANGED <<online, queue, cursor, timers, mapped, pending, player, block, chain, st>>
    BY <1>5 DEF Command, account, memory, state
  <2>3. Ahead(h)' = l /\ Soon' = st /\ Settled(h)'
    BY <1>1, <1>2, <2>1, <2>2, Arrives DEF state
  <2>4. Steady'
    BY <1>3, <2>2, SteadyStays
  <2>5. CASE l \in Resting
    <3>1. Rests(h)'
      BY <1>2, <1>3, <2>2, <2>3, RestsStay
    <3>2. QED
      BY <1>4, <2>3, <2>4, <2>5, <3>1, OneStage DEF Stage
  <2>6. CASE l \in {"nextState", "replace"}
    <3>1. Untouched(h)'
      BY <1>2, <1>3, <2>2, <2>3, StaysUntouched DEF Rests
    <3>2. l = "replace" => "playTracks" \in Commands
      BY <1>5 DEF Command, Arrive
    <3>3. l \in Heading /\ Heads(h)'
      BY <2>3, <2>6, <3>1, <3>2 DEF Heads, Heading
    <3>4. QED
      BY <1>4, <2>3, <2>4, <3>3, OneStage DEF Stage
  <2>7. QED
    BY <2>5, <2>6
<1>6. CASE NextCommand(h) \/ Previous(h) \/ PlayTracks(h) \/ Edit(h) \/ PlayItem(h)
  BY <1>5, <1>6 DEF NextCommand, Previous, PlayTracks, Edit, PlayItem, Resting
<1>7. CASE Play(h)
  <2>1. PICK t \in Tracks : GoWith(h, [Idle EXCEPT !.at = "place", !.track = t])
    BY <1>7, Zenon DEF Play
  <2>2. frame'[h].at = "place"
    BY <2>1, HandlerMoves DEF Idle
  <2>3. UNCHANGED <<online, queue, cursor, timers, mapped, pending, player, block, chain, st>>
    BY <1>7 DEF Play, account, memory, state
  <2>4. Ahead(h)' = "place" /\ Settled(h)'
    BY <1>1, <1>2, <2>2, <2>3, Arrives DEF state
  <2>5. Steady'
    BY <1>3, <2>3, SteadyStays
  <2>6. Heads(h)'
    BY <2>4 DEF Heads
  <2>7. QED
    BY <1>4, <2>4, <2>5, <2>6, OneStage DEF Stage, Heading
<1>8. CASE Mode(h)
  <2>1. PICK patch : /\ Patch(h, patch, "idle")
                     /\ \/ \E x : patch = [shuffle |-> x]
                        \/ \E x : patch = [repeat |-> x]
    BY <1>8 DEF Mode
  <2>2. UNCHANGED <<online, queue, cursor, timers, mapped, pending, player, block, st>>
    BY <1>8 DEF Mode, account, memory
  <2>3. Ahead(h)' = "idle" /\ Settled(h)' /\ Soon' = Spread(st, patch)
    BY <1>1, <1>2, <2>1, <2>2, PatchWaits
  <2>4. Soon'.state = Soon.state /\ Soon'.track = Soon.track
    <3>1. ASSUME NEW x, patch = [shuffle |-> x]
          PROVE  Spread(st, patch).state = st.state /\ Spread(st, patch).track = st.track
      BY <3>1, PatchedState, Zenon
    <3>2. ASSUME NEW x, patch = [repeat |-> x]
          PROVE  Spread(st, patch).state = st.state /\ Spread(st, patch).track = st.track
      BY <3>2, PatchedState, Zenon
    <3>3. QED
      BY <1>2, <2>1, <2>3, <3>1, <3>2
  <2>5. Rests(h)'
    BY <1>3, <2>2, <2>4, RestsStay
  <2>6. Steady'
    BY <1>3, <2>2, SteadyStays
  <2>7. QED
    BY <1>4, <2>3, <2>5, <2>6, OneStage DEF Stage, Resting
<1>9. CASE Stop(h)
  <2>1. /\ Patch(h, [state |-> "stopped"], "idle") /\ player' = ToStop /\ pending' = NoTrack
        /\ UNCHANGED <<online, queue, cursor, block, st>>
    BY <1>3, <1>9 DEF Stop, Steady, Send, account
  <2>2. timers' = {}
    BY <1>3, <1>9 DEF Stop, ClearTimer, Steady
  <2>3. Ahead(h)' = "idle" /\ Settled(h)' /\ Soon' = Spread(st, [state |-> "stopped"])
    BY <1>1, <1>2, <2>1, PatchWaits
  <2>4. Soon'.state = "stopped"
    BY <2>3, PatchedState
  <2>5. player'.now = NoTrack /\ player'.loading = NoTrack
    BY <2>1 DEF ToStop, ToDropEntries, PlaybackTypes, PlayerTypes, Players
  <2>6. Rests(h)'
    BY <2>1, <2>4, <2>5 DEF Rests, Untouched, Followed, NoErrors, Plays, Wanted
  <2>7. Steady'
    BY <1>3, <2>1, <2>2 DEF Steady
  <2>8. QED
    BY <1>4, <2>3, <2>6, <2>7, OneStage DEF Stage, Resting
<1>10. CASE Transport(h)
  <2>1. PICK kind \in {"pause", "resume"}, s \in {"paused", "playing"} :
          /\ kind \in Commands /\ (s = "playing" => kind = "resume")
          /\ player' = [player EXCEPT !.status = s] /\ Patch(h, [state |-> s], "idle")
    BY <1>10 DEF Transport, Arrive
  <2>2. UNCHANGED <<online, queue, cursor, timers, mapped, pending, block, st>>
    BY <1>10 DEF Transport, account, memory
  <2>3. Ahead(h)' = "idle" /\ Settled(h)' /\ Soon' = Spread(st, [state |-> s])
    BY <1>1, <1>2, <2>1, <2>2, PatchWaits
  <2>4. Soon'.state = s /\ Soon'.track = Soon.track
    BY <1>2, <2>3, PatchedState
  <2>5. /\ player'.status = s /\ player'.now = player.now /\ player'.loading = player.loading
        /\ player'.entries = player.entries
    BY <2>1 DEF PlaybackTypes, PlayerTypes, Players
  <2>6. s = "playing" => NoErrors
    BY <2>1 DEF Undisturbed, NoErrors
  <2>7. Rests(h)'
    BY <1>3, <2>1, <2>2, <2>4, <2>5, <2>6 DEF Rests, Untouched, Followed, NoErrors, Plays, Picking, Wanted, Stands
  <2>8. Steady'
    BY <1>3, <2>2, SteadyStays
  <2>9. QED
    BY <1>4, <2>3, <2>7, <2>8, OneStage DEF Stage, Resting
<1>11. CASE TrackEnds(h)
  <2>1. /\ player.status = "playing" /\ player.loading = NoTrack /\ ~recent
        /\ player.now # NoTrack
        /\ GoWith(h, [Idle EXCEPT !.at = "eof", !.track = player.now])
        /\ UNCHANGED <<online, queue, cursor, timers, mapped, pending, recent, block, chain, st>>
    BY <1>11 DEF TrackEnds, Undisturbed, account, memory, state
  <2>2. /\ player'.status = player.status /\ player'.loading = player.loading
        /\ player'.now = EntryUp /\ player'.entries = Rest
    BY <1>11 DEF TrackEnds, PlaybackTypes, PlayerTypes, Players
  <2>3. frame'[h].at = "eof"
    BY <2>1, HandlerMoves DEF Idle
  <2>4. Ahead(h)' = "eof" /\ Settled(h)'
    BY <1>1, <1>2, <2>1, <2>3, Arrives DEF state
  <2>5. Steady'
    BY <1>3, <2>1, SteadyStays
  <2>6. /\ timers # {} => player.entries = <<>>
        /\ pending # NoTrack => player.entries = <<pending>>
    BY <1>3, <2>1 DEF Rests, Untouched, Followed, NoErrors, Plays, Picking
  <2>7. /\ EntryUp # NoTrack => timers = {}
        /\ pending # NoTrack => Rest = <<>> /\ EntryUp = pending
    <3>1. \A x : <<x>> # <<>> /\ Head(<<x>>) = x /\ Tail(<<x>>) = <<>>
      OBVIOUS
    <3>2. QED
      BY <2>6, <3>1 DEF EntryUp, Rest
  <2>8. Ended'
    BY <2>1, <2>2, <2>7 DEF Ended, Plays
  <2>9. QED
    BY <1>4, <2>4, <2>5, <2>8, OneStage DEF Stage
<1>12. CASE TrackFails(h)
  <2>1. PICK t : /\ GoWith(h, [Idle EXCEPT !.at = "error", !.track = t])
                 /\ t = Wanted /\ t # NoTrack /\ player'.loading = NoTrack
    BY <1>12, Zenon DEF TrackFails, Wanted, PlaybackTypes, PlayerTypes, Players
  <2>2. /\ ~recent /\ ~NoErrors
        /\ UNCHANGED <<online, queue, cursor, timers, mapped, pending, recent, block, chain, st>>
    BY <1>12 DEF TrackFails, Arrive, NoErrors, Undisturbed, account, memory, state
  <2>3. frame'[h].at = "error" /\ frame'[h].track = t
    <3>1. frame'[h] = [Idle EXCEPT !.at = "error", !.track = t]
      BY <2>1, HandlerMoves, Zenon
    <3>2. QED
      BY <3>1 DEF Idle
  <2>4. Ahead(h)' = "error" /\ Settled(h)' /\ Soon' = st
    BY <1>1, <1>2, <2>2, <2>3, Arrives DEF state
  <2>5. Steady'
    BY <1>3, <2>2, SteadyStays
  <2>6. st.state = "playing" => st.track = t
    BY <1>2, <1>3, <2>1 DEF Rests, Untouched
  <2>7. Fails(h)'
    BY <2>1, <2>2, <2>3, <2>4, <2>6 DEF Fails, NoErrors
  <2>8. QED
    BY <1>4, <2>4, <2>5, <2>7, OneStage DEF Stage, Failing
<1>13. ~Grace(h) /\ ~Report(h)
  BY <1>3 DEF Grace, Report, Arrive, Steady, Undisturbed
<1>14. QED
  BY <1>6, <1>7, <1>8, <1>9, <1>10, <1>11, <1>12, <1>13 DEF Arrival

\* Where a handler that goes on without a patch must fit.
LEMMA Lands ==
  ASSUME OneHandler, QuietInv, NEW h \in Handlers, frame[h].at # "patching", UNCHANGED state,
         frame'[h].at # "patching", Steady',
         block'[h].at # "none" =>
           frame'[h].at \in {"idle", "ensure"} /\ timers' = {} /\ pending' = NoTrack,
         Ahead(h)' = frame'[h].at /\ Soon' = st => Stage(h)'
  PROVE  QuietInv'
<1>1. chain = <<>>
  BY Standing
<1>2. Ahead(h)' = frame'[h].at /\ Soon' = st /\ Settled(h)'
  BY <1>1, Arrives
<1>3. QED
  BY <1>2, OneStage

\* A handler that heads for a load keeps nothing but its plan.
LEMMA HeadsFor ==
  ASSUME OneHandler, QuietInv, NEW h \in Handlers, frame[h].at \notin {"patching", "idle", "ensure"},
         UNCHANGED <<st, chain, block>>, Steady', frame'[h].at \in Heading,
         Ahead(h)' = frame'[h].at => Heads(h)'
  PROVE  QuietInv'
<1>1. frame'[h].at # "patching" /\ block[h].at = "none"
  BY Standing DEF Heading
<1>2. Ahead(h)' = frame'[h].at => Stage(h)'
  BY DEF Stage
<1>3. QED
  BY <1>1, <1>2, Lands DEF state

\* A load begins, and its track is under the cursor.
LEMMA LoadBegins ==
  ASSUME OneHandler, PlaybackTypes, QuietInv, NEW h \in Handlers,
         frame[h].at \notin {"patching", "idle", "ensure"},
         UNCHANGED <<st, chain, block>>, Steady',
         NEW t, t # NoTrack, NEW retry, GoWith(h, Loading(h, t, retry)),
         Followed => cursor' < Len(queue') /\ queue'[cursor' + 1].track = t
  PROVE  QuietInv'
<1>1. frame'[h] = Loading(h, t, retry)
  BY HandlerMoves
<1>2. frame'[h].at = "load" /\ frame'[h].track = t
  BY <1>1 DEF Loading, PlaybackTypes, FrameTypes, Frames
<1>3. Ahead(h)' = frame'[h].at => Heads(h)'
  BY <1>2 DEF Heads, Stands, NoErrors, Followed
<1>4. QED
  BY <1>2, <1>3, HeadsFor DEF Heading

\* loadTrack.
LEMMA QuietLoads ==
  ASSUME Undisturbed, PlaybackTypes, QuietInv, NEW h \in Handlers,
         SendLoad(h) \/ LoadPatch(h) \/ LoadTail(h) \/ Ensure(h)
  PROVE  QuietInv'
<1>1. OneHandler /\ Steady
  BY DEF Undisturbed, QuietInv
<1>2. CASE SendLoad(h)
  <2>1. frame[h].at = "load"
    BY <1>2 DEF SendLoad, At
  <2>2. Ahead(h) = "load" /\ Soon = st /\ chain = <<>> /\ block[h].at = "none"
    BY <2>1, Standing
  <2>3. Heads(h)
    BY <2>2, Known DEF Heading
  <2>4. /\ player' = ToLoad(frame[h].track) /\ Go(h, "loadPatch")
        /\ UNCHANGED <<online, queue, cursor, timers, mapped, pending, block, chain, st>>
    BY <1>1, <1>2 DEF SendLoad, Send, Steady, account, memory, state
  <2>5. player'.loading = frame[h].track /\ player'.status = "playing"
    BY <2>4 DEF ToLoad, PlaybackTypes, PlayerTypes, Players
  <2>6. frame'[h].at = "loadPatch" /\ frame'[h].track = frame[h].track
    BY <2>4, HandlerMoves
  <2>7. Ahead(h)' = frame'[h].at => Loads(h)'
    BY <2>2, <2>3, <2>4, <2>5, <2>6 DEF Loads, Heads, Stands, NoErrors, Followed
  <2>8. Steady'
    BY <1>1, <2>4, SteadyStays
  <2>9. QED
    BY <1>1, <2>1, <2>2, <2>4, <2>6, <2>7, <2>8, Lands DEF Stage, Arriving, state
<1>3. CASE LoadPatch(h)
  <2>1. frame[h].at = "loadPatch"
    BY <1>3 DEF LoadPatch, At
  <2>2. Ahead(h) = "loadPatch" /\ chain = <<>> /\ block[h].at = "none"
    BY <2>1, Standing
  <2>3. Loads(h)
    BY <2>2, Known DEF Arriving
  <2> DEFINE patch == [state |-> "playing", track |-> frame[h].track]
  <2>4. /\ Patch(h, patch, "loadTail")
        /\ UNCHANGED <<online, queue, cursor, timers, mapped, pending, player, block, st>>
    BY <1>3 DEF LoadPatch, account, memory
  <2>5. Spread(st, patch).state = "playing" /\ Spread(st, patch).track = frame[h].track
    BY PatchedState
  <2> HIDE DEF patch
  <2>6. /\ Ahead(h)' = "loadTail" /\ Soon' = Spread(st, patch) /\ Settled(h)'
        /\ frame'[h].track = frame[h].track
    BY <2>2, <2>4, PatchWaits
  <2>7. Loads(h)'
    BY <2>3, <2>4, <2>5, <2>6 DEF Loads, Stands, NoErrors, Followed
  <2>8. Steady'
    BY <1>1, <2>4, SteadyStays
  <2>9. QED
    BY <1>1, <2>6, <2>7, <2>8, OneStage DEF Stage, Arriving
<1>4. CASE LoadTail(h)
  <2>1. frame[h].at = "loadTail"
    BY <1>4 DEF LoadTail, At
  <2>2. Ahead(h) = "loadTail" /\ Soon = st /\ chain = <<>> /\ block[h].at = "none"
    BY <2>1, Standing
  <2>3. Loads(h)
    BY <2>2, Known DEF Arriving
  <2>4. /\ pending' = NoTrack
        /\ UNCHANGED <<online, queue, cursor, player, chain, st>>
    BY <1>4 DEF LoadTail, SchedulePrefetch, account, state
  <2>5. timers' = {}
    BY <1>1, <1>4 DEF LoadTail, SchedulePrefetch, ClearTimer, Steady
  <2>6. frame'[h].at \in {"idle", "ensure"}
    BY <1>4, HandlerMoves DEF LoadTail
  <2>7. Soon' = st => Rests(h)'
    BY <2>2, <2>3, <2>4, <2>5 DEF Rests, Untouched, Followed, Loads, Plays, Wanted, Stands, NoErrors
  <2>8. Steady'
    BY <1>1, <2>4, <2>5 DEF Steady
  <2>9. QED
    BY <1>1, <2>1, <2>4, <2>5, <2>6, <2>7, <2>8, Lands DEF Stage, Resting, state
<1>5. CASE Ensure(h)
  <2>1. frame[h].at \in {"ensure", "refill"}
    BY <1>5 DEF Ensure
  <2>2. /\ Ahead(h) = frame[h].at /\ Soon = st /\ chain = <<>>
        /\ block[h].at # "none" =>
             frame[h].at \in {"idle", "ensure"} /\ timers = {} /\ pending = NoTrack
    BY <2>1, Standing
  <2>3. UNCHANGED <<online, timers, mapped, pending, player, block, chain, st>>
    BY <1>5 DEF Ensure, memory, state
  <2>4. /\ cursor' = cursor /\ Len(queue') >= Len(queue) /\ Len(queue') \in Nat
        /\ \A t : Stands(t) => Stands(t)'
    BY <1>5, RefillStays DEF PlaybackTypes
  <2>5. GrowOnly => OnQueue(cursor', Len(queue'))
    BY <1>1, <2>4 DEF Steady, OnQueue, PlaybackTypes, QueueTypes
  <2>6. Steady'
    BY <1>1, <2>3, <2>5 DEF Steady
  <2>7. CASE frame[h].at = "ensure"
    <3>1. frame'[h].at = "idle"
      BY <1>5, <2>7, HandlerMoves DEF Ensure, At
    <3>2. Rests(h)
      BY <2>2, <2>7, Known DEF Resting
    <3>3. \A t : Stands(t) => Stands(t)'
      BY <2>4
    <3>4. Soon' = st => Rests(h)'
      <4>1. Wanted' = Wanted /\ Plays' = Plays /\ Picking(h)' = Picking(h)
        BY <2>3 DEF Wanted, Plays, Picking
      <4>2. Stands(Wanted) => Stands(Wanted)'
        BY <2>4, <4>1 DEF Stands
      <4>3. QED
        BY <2>2, <2>3, <3>2, <4>1, <4>2 DEF Rests, Untouched, Followed, NoErrors
    <3>5. QED
      BY <1>1, <2>1, <2>2, <2>3, <2>6, <3>1, <3>4, Lands DEF Stage, Resting, state
  <2>8. CASE frame[h].at = "refill"
    <3>1. frame'[h].at = "advanceAgain"
      BY <1>5, <2>8, HandlerMoves DEF Ensure, At
    <3>2. Ahead(h)' = frame'[h].at => Heads(h)'
      BY <3>1 DEF Heads
    <3>3. QED
      BY <1>1, <2>3, <2>6, <2>8, <3>1, <3>2, HeadsFor DEF Heading
  <2>9. QED
    BY <2>1, <2>7, <2>8
<1>6. QED
  BY <1>2, <1>3, <1>4, <1>5


\* The cursor moves on the queue.
LEMMA SteadyOn ==
  ASSUME Steady, UNCHANGED <<online, timers, mapped, pending>>,
         GrowOnly => OnQueue(cursor', Len(queue'))
  PROVE  Steady'
  BY DEF Steady

\* The items and the track a handler holds are something.
LEMMA Held ==
  ASSUME PlaybackTypes, NEW h \in Handlers
  PROVE  /\ queue \in Seq(Item) /\ Len(queue) \in Nat /\ cursor \in Nat
         /\ frame[h].i \in Nat /\ frame[h].q \in Seq(Item) /\ Len(frame[h].q) \in Nat
         /\ \A q \in Seq(Item) : \A k \in 1 .. Len(q) :
              /\ q[k] # NoItem /\ q[k].track # NoTrack /\ q[k].track \in AnyTrack
              /\ ItemAt(q, k - 1) = q[k]
<1>1. /\ queue \in Seq(Item) /\ Len(queue) \in Nat /\ cursor \in Nat
      /\ frame[h].i \in Nat /\ frame[h].q \in Seq(Item) /\ Len(frame[h].q) \in Nat
  BY DEF PlaybackTypes, QueueTypes, FrameTypes, Frames
<1>2. ASSUME NEW q \in Seq(Item), NEW k \in 1 .. Len(q)
      PROVE  /\ q[k] # NoItem /\ q[k].track # NoTrack /\ q[k].track \in AnyTrack
             /\ ItemAt(q, k - 1) = q[k]
  <2>1. q[k] \in Item /\ k \in DOMAIN q /\ (k - 1) + 1 = k
    OBVIOUS
  <2>2. q[k].track \in AnyTrack
    BY <2>1, ItemsHaveTracks
  <2>3. QED
    BY <2>1, <2>2, TracksAreSomething DEF ItemAt
<1>3. QED
  BY <1>1, <1>2

\* play(trackId) and playTracks.
LEMMA QuietPlaces ==
  ASSUME Undisturbed, PlaybackTypes, QuietInv, NEW h \in Handlers,
         PlaceCurrentStep(h) \/ InsertStep(h) \/ ReplaceStep(h)
  PROVE  QuietInv'
<1>1. OneHandler /\ Steady /\ QueueTypes
  BY DEF Undisturbed, QuietInv, PlaybackTypes
<1>2. CASE PlaceCurrentStep(h)
  <2> DEFINE t == frame[h].track
             k == FirstWithTrack(queue, t)
  <2>1. /\ frame[h].at = "place"
        /\ UNCHANGED <<queue, online, timers, mapped, pending, st, chain, block>>
    BY <1>2 DEF PlaceCurrentStep, At, prefetch, state
  <2>2. /\ cursor' = IF k >= 0 THEN k ELSE cursor
        /\ IF (IF k >= 0 THEN ItemAt(queue, k) ELSE NoItem) # NoItem
           THEN StartLoad(h, t) ELSE Go(h, "insert")
    BY <1>2 DEF PlaceCurrentStep, PlaceCurrent, Ok
  <2>3. CASE k >= 0
    <3>1. k \in Nat /\ k < Len(queue) /\ queue[k + 1].track = t
      BY <1>1, <2>3, FirstHasTrack
    <3> HIDE DEF k
    <3>2. k + 1 \in 1 .. Len(queue) /\ (k + 1) - 1 = k
      BY <3>1, Held
    <3>3. ItemAt(queue, k) = queue[k + 1] /\ queue[k + 1] # NoItem /\ queue[k + 1].track # NoTrack
      BY <3>2, Held
    <3>4. cursor' = k /\ GoWith(h, Loading(h, t, FALSE))
      BY <2>2, <2>3, <3>3 DEF StartLoad
    <3>5. Steady'
      BY <1>1, <2>1, <3>1, <3>4, SteadyOn DEF OnQueue
    <3>6. QED
      BY <1>1, <2>1, <3>1, <3>3, <3>4, <3>5, LoadBegins
  <2>4. CASE ~(k >= 0)
    <3>1. cursor' = cursor /\ Go(h, "insert")
      BY <2>2, <2>4
    <3>2. frame'[h].at = "insert"
      BY <3>1, HandlerMoves
    <3>3. Steady'
      BY <1>1, <2>1, <3>1, SteadyStays
    <3>4. Ahead(h)' = frame'[h].at => Heads(h)'
      BY <3>2 DEF Heads
    <3>5. QED
      BY <1>1, <2>1, <3>2, <3>3, <3>4, HeadsFor DEF Heading
  <2>5. QED
    BY <2>3, <2>4
<1>3. CASE InsertStep(h)
  <2>1. /\ frame[h].at = "insert" /\ GoWith(h, Loading(h, frame[h].track, FALSE))
        /\ UNCHANGED <<online, timers, mapped, pending, st, chain, block>>
    BY <1>3 DEF InsertStep, At, StartLoad, prefetch, state
  <2>2. frame[h].track \in AnyTrack
    BY <2>1 DEF PlaybackTypes, FrameTypes, FrameOf
  <2>3. GrowOnly => cursor' < Len(queue') /\ queue'[cursor' + 1].track = frame[h].track
    BY <1>1, <1>3, <2>2, InsertStands DEF Steady
  <2>4. Steady'
    BY <1>1, <2>1, <2>3, SteadyOn DEF OnQueue
  <2>5. QED
    BY <1>1, <2>1, <2>2, <2>3, <2>4, LoadBegins, TracksAreSomething DEF Followed
<1>4. CASE ReplaceStep(h)
  <2>1. /\ frame[h].at = "replace" /\ Go(h, "current") /\ cursor' = 0
        /\ UNCHANGED <<online, timers, mapped, pending, st, chain, block, player>>
    <3>1. cursor' = 0
      BY <1>1, <1>4, ReplaceShape DEF PlaybackTypes
    <3>2. QED
      BY <1>4, <3>1 DEF ReplaceStep, At, memory, state
  <2>2. frame'[h].at = "current" /\ cursor' < Len(queue')
    <3>1. cursor' < Len(queue')
      BY <1>1, <1>4, ReplaceShape DEF PlaybackTypes
    <3>2. QED
      BY <2>1, <3>1, HandlerMoves
  <2>3. Steady'
    BY <1>1, <2>1, SteadyOn DEF OnQueue
  <2>4. Untouched(h)'
    <3>1. Ahead(h) = "replace" /\ Untouched(h)
      BY <2>1, Standing, Known DEF Heading, Heads
    <3>2. QED
      BY <2>1, <3>1, StaysUntouched DEF Soon
  <2>5. Ahead(h)' = frame'[h].at => Heads(h)'
    BY <2>1, <2>2, <2>4 DEF Heads
  <2>6. QED
    BY <1>1, <2>1, <2>2, <2>3, <2>5, HeadsFor DEF Heading
<1>5. QED
  BY <1>2, <1>3, <1>4

\* getCurrent, and the play button of an item of the queue.
LEMMA QuietItems ==
  ASSUME Undisturbed, PlaybackTypes, QuietInv, NEW h \in Handlers,
         CurrentQueue(h) \/ CurrentIndex(h) \/ ItemQueue(h) \/ ItemIndex(h)
  PROVE  QuietInv'
<1>1. OneHandler /\ Steady
  BY DEF Undisturbed, QuietInv
<1>2. CASE CurrentQueue(h)
  <2>1. /\ frame[h].at = "current"
        /\ GoWith(h, [frame[h] EXCEPT !.at = "currentIndex", !.q = queue])
        /\ UNCHANGED <<queue, cursor, online, timers, mapped, pending, st, chain, block, player>>
    BY <1>2 DEF CurrentQueue, At, account, memory, state
  <2>2. Ahead(h) = "current"
    BY <2>1, Standing
  <2>3. Untouched(h) /\ (GrowOnly => cursor < Len(queue))
    BY <2>2, Known DEF Heading, Heads
  <2>4. frame'[h].at = "currentIndex" /\ frame'[h].q = queue
    <3>1. frame'[h] = [frame[h] EXCEPT !.at = "currentIndex", !.q = queue]
      BY <2>1, HandlerMoves, Zenon
    <3>2. QED
      BY <3>1 DEF PlaybackTypes, FrameTypes, Frames
  <2>5. Steady'
    BY <1>1, <2>1, SteadyStays
  <2>6. Untouched(h)'
    BY <2>1, <2>3, StaysUntouched DEF Soon
  <2>7. Ahead(h)' = frame'[h].at => Heads(h)'
    BY <2>1, <2>3, <2>4, <2>6 DEF Heads
  <2>8. QED
    BY <1>1, <2>1, <2>4, <2>5, <2>7, HeadsFor DEF Heading
<1>3. CASE CurrentIndex(h)
  <2> DEFINE item == ItemAt(frame[h].q, cursor)
  <2>1. /\ frame[h].at = "currentIndex"
        /\ IF item # NoItem THEN GoWith(h, Loading(h, item.track, FALSE)) ELSE Done(h)
        /\ UNCHANGED <<queue, cursor, online, timers, mapped, pending, st, chain, block, player>>
    BY <1>3 DEF CurrentIndex, At, account, prefetch, state, StartLoad
  <2>2. Ahead(h) = "currentIndex" /\ Soon = st /\ block[h].at = "none" /\ chain = <<>>
    BY <2>1, Standing
  <2>3. Untouched(h) /\ (GrowOnly => cursor < Len(queue)) /\ frame[h].q = queue
    BY <2>2, Known DEF Heading, Heads
  <2>4. Steady'
    BY <1>1, <2>1, SteadyStays
  <2>5. CASE item # NoItem
    <3>1. cursor + 1 \in DOMAIN queue /\ item = queue[cursor + 1]
      BY <2>3, <2>5 DEF ItemAt
    <3>2. cursor + 1 \in 1 .. Len(queue) /\ cursor < Len(queue)
      BY <3>1, Held
    <3>3. item.track # NoTrack
      BY <3>1, <3>2, Held
    <3>4. cursor' < Len(queue') /\ queue'[cursor' + 1].track = item.track
      BY <2>1, <3>1, <3>2
    <3> HIDE DEF item
    <3>5. QED
      BY <1>1, <2>1, <2>4, <2>5, <3>3, <3>4, LoadBegins
  <2>6. CASE item = NoItem
    <3>1. frame'[h].at = "idle"
      BY <2>1, <2>6, HandlerMoves
    <3>2. ~(cursor < Len(queue))
      <4>1. cursor < Len(queue) => cursor + 1 \in 1 .. Len(queue) /\ (cursor + 1) - 1 = cursor
        BY Held
      <4>2. QED
        BY <2>3, <2>6, <4>1, Held
    <3>3. ~Followed
      BY <2>3, <3>2 DEF Followed
    <3>4. Soon' = st => Rests(h)'
      <4>1. Soon' = st => Untouched(h)'
        BY <2>1, <2>2, <2>3, StaysUntouched
      <4>2. QED
        BY <3>3, <4>1 DEF Rests, Followed, NoErrors
    <3>5. QED
      BY <1>1, <2>1, <2>2, <2>4, <3>1, <3>4, Lands DEF Stage, Resting, state
  <2>7. QED
    BY <2>5, <2>6
<1>4. CASE ItemQueue(h)
  <2>1. /\ frame[h].at = "itemQueue"
        /\ UNCHANGED <<queue, cursor, online, timers, mapped, pending, st, chain, block, player>>
        /\ \/ \E k \in DOMAIN queue :
                GoWith(h, [frame[h] EXCEPT !.at = "itemIndex", !.i = k - 1, !.track = queue[k].track])
           \/ Done(h)
    BY <1>4, Zenon DEF ItemQueue, At, account, memory, state
  <2>2. Ahead(h) = "itemQueue" /\ Soon = st /\ block[h].at = "none" /\ chain = <<>>
    BY <2>1, Standing, Zenon
  <2>3. Steady'
    BY <1>1, <2>1, SteadyStays, Zenon
  <2>4. ASSUME NEW k \in DOMAIN queue,
               GoWith(h, [frame[h] EXCEPT !.at = "itemIndex", !.i = k - 1, !.track = queue[k].track])
        PROVE  QuietInv'
    <3>1. frame'[h] = [frame[h] EXCEPT !.at = "itemIndex", !.i = k - 1, !.track = queue[k].track]
      BY <2>4, HandlerMoves, Zenon
    <3>2. frame[h] \in Frames
      BY DEF PlaybackTypes, FrameTypes
    <3>3. frame'[h].at = "itemIndex" /\ frame'[h].i = k - 1
      BY <3>1, <3>2 DEF Frames
    <3>4. k - 1 < Len(queue)
      BY Held
    <3>5. Ahead(h)' = frame'[h].at => Heads(h)'
      BY <2>1, <3>3, <3>4, Zenon DEF Heads
    <3>6. QED
      BY <1>1, <2>1, <2>3, <3>3, <3>5, HeadsFor, Zenon DEF Heading
  <2>5. CASE Done(h)
    <3>1. frame'[h].at = "idle"
      BY <2>5, HandlerMoves
    <3>2. Rests(h)
      BY <2>2, Known DEF Resting
    <3>3. Soon' = st => Rests(h)'
      BY <2>1, <2>2, <3>2, RestsStay, Zenon
    <3>4. QED
      BY <1>1, <2>1, <2>2, <2>3, <3>1, <3>3, Lands, Zenon DEF Stage, Resting, state
  <2>6. QED
    BY <2>1, <2>4, <2>5, Zenon
<1>5. CASE ItemIndex(h)
  <2>1. /\ frame[h].at = "itemIndex" /\ cursor' = frame[h].i /\ Go(h, "place")
        /\ UNCHANGED <<queue, online, timers, mapped, pending, st, chain, block>>
    BY <1>5 DEF ItemIndex, At, memory, state
  <2>2. Ahead(h) = "itemIndex"
    BY <2>1, Standing
  <2>3. frame[h].i < Len(queue)
    BY <2>2, Known DEF Heading, Heads
  <2>4. frame'[h].at = "place"
    BY <2>1, HandlerMoves
  <2>5. Steady'
    BY <1>1, <2>1, <2>3, SteadyOn DEF OnQueue
  <2>6. Ahead(h)' = frame'[h].at => Heads(h)'
    BY <2>4 DEF Heads
  <2>7. QED
    BY <1>1, <2>1, <2>4, <2>5, <2>6, HeadsFor DEF Heading
<1>6. QED
  BY <1>2, <1>3, <1>4, <1>5


\* The prefetch is cancelled, and the pick forgotten.
LEMMA SteadyClears ==
  ASSUME Steady, ClearTimer, pending' = NoTrack, UNCHANGED <<online, queue, cursor>>
  PROVE  Steady' /\ timers' = {}
<1>1. timers' = {}
  BY DEF Steady, ClearTimer
<1>2. QED
  BY <1>1 DEF Steady

\* next() turns to a jump or to an advance.
LEMMA TurnStays ==
  ASSUME OneHandler, PlaybackTypes, QuietInv, NEW h \in Handlers, frame[h].at = "nextIndex",
         UNCHANGED <<queue, st, chain, block>>, Steady', Turn(h, cursor)
  PROVE  QuietInv'
<1>1. Ahead(h) = "nextIndex"
  BY Standing
<1>2. frame[h].q = queue
  BY <1>1, Known DEF Heading, Heads
<1>3. ASSUME NEW t \in Jumps(frame[h].q, cursor, frame[h].s),
             GoWith(h, [frame[h] EXCEPT !.at = "setIndex", !.i = t])
      PROVE  QuietInv'
  <2>1. frame'[h] = [frame[h] EXCEPT !.at = "setIndex", !.i = t]
    BY <1>3, HandlerMoves, Zenon
  <2>2. frame[h] \in Frames
    BY DEF PlaybackTypes, FrameTypes
  <2>3. frame'[h].at = "setIndex" /\ frame'[h].i = t /\ frame'[h].q = queue
    BY <1>2, <2>1, <2>2 DEF Frames
  <2>4. queue \in Seq(Item) /\ cursor \in Nat /\ Len(queue) \in Nat
    BY Held
  <2>5. t \in 0 .. Len(queue) - 1
    BY <1>2, <1>3, <2>4, JumpsArePositions
  <2>6. t < Len(queue)
    BY <2>4, <2>5
  <2>7. Ahead(h)' = frame'[h].at => Heads(h)'
    BY <2>3, <2>6 DEF Heads
  <2>8. QED
    BY <2>3, <2>7, HeadsFor DEF Heading
<1>4. CASE Go(h, "advance")
  <2>1. frame'[h].at = "advance"
    BY <1>4, HandlerMoves
  <2>2. Ahead(h)' = frame'[h].at => Heads(h)'
    BY <2>1 DEF Heads
  <2>3. QED
    BY <2>1, <2>2, HeadsFor DEF Heading
<1>5. QED
  BY <1>3, <1>4, Zenon DEF Turn

\* next() reads and decides.
LEMMA QuietNext ==
  ASSUME Undisturbed, PlaybackTypes, QuietInv, NEW h \in Handlers,
         NextState(h) \/ NextQueue(h) \/ NextIndex(h) \/ SetIndexStep(h)
  PROVE  QuietInv'
<1>1. OneHandler /\ Steady /\ frame[h] \in Frames
  BY DEF Undisturbed, QuietInv, PlaybackTypes, FrameTypes
<1>2. CASE NextState(h)
  <2>1. /\ frame[h].at = "nextState"
        /\ GoWith(h, [frame[h] EXCEPT !.at = "nextQueue", !.s = st])
        /\ UNCHANGED <<queue, cursor, online, timers, mapped, pending, st, chain, block>>
    BY <1>2 DEF NextState, At, account, memory, state
  <2>2. frame'[h] = [frame[h] EXCEPT !.at = "nextQueue", !.s = st]
    BY <2>1, HandlerMoves, Zenon
  <2>3. frame'[h].at = "nextQueue"
    BY <1>1, <2>2 DEF Frames
  <2>4. Steady'
    BY <1>1, <2>1, SteadyStays
  <2>5. Ahead(h)' = frame'[h].at => Heads(h)'
    BY <2>3 DEF Heads
  <2>6. QED
    BY <1>1, <2>1, <2>3, <2>4, <2>5, HeadsFor DEF Heading
<1>3. CASE NextQueue(h)
  <2>1. /\ frame[h].at = "nextQueue"
        /\ GoWith(h, [frame[h] EXCEPT !.at = "nextIndex", !.q = queue])
        /\ UNCHANGED <<queue, cursor, online, timers, mapped, pending, st, chain, block>>
    BY <1>3 DEF NextQueue, At, account, memory, state
  <2>2. frame'[h] = [frame[h] EXCEPT !.at = "nextIndex", !.q = queue]
    BY <2>1, HandlerMoves, Zenon
  <2>3. frame'[h].at = "nextIndex" /\ frame'[h].q = queue
    BY <1>1, <2>2 DEF Frames
  <2>4. Steady'
    BY <1>1, <2>1, SteadyStays
  <2>5. Ahead(h)' = frame'[h].at => Heads(h)'
    BY <2>1, <2>3 DEF Heads
  <2>6. QED
    BY <1>1, <2>1, <2>3, <2>4, <2>5, HeadsFor DEF Heading
<1>4. CASE NextIndex(h)
  <2> DEFINE f == frame[h]
             item == IF ItemAt(f.q, cursor) # NoItem THEN ItemAt(f.q, cursor)
                     ELSE ItemAt(queue, cursor)
             k == FirstWithTrack(f.q, pending)
  <2>1. /\ f.at = "nextIndex"
        /\ UNCHANGED <<queue, cursor, online, st, chain, block>>
        /\ \/ item # NoItem /\ StartLoad(h, item.track) /\ UNCHANGED prefetch
           \/ /\ pending' = NoTrack
              /\ ClearTimer
              /\ IF k >= 0 THEN GoWith(h, [f EXCEPT !.at = "setIndex", !.i = k])
                           ELSE Turn(h, cursor)
           \/ Turn(h, cursor) /\ UNCHANGED prefetch
    BY <1>4 DEF NextIndex, At, account, state, prefetch
  <2>2. Ahead(h) = "nextIndex"
    BY <2>1, Standing
  <2>3. f.q = queue
    BY <2>2, Known DEF Heading, Heads
  <2>4. UNCHANGED prefetch => Steady'
    BY <1>1, <2>1, SteadyStays DEF prefetch
  <2>5. CASE item # NoItem /\ StartLoad(h, item.track) /\ UNCHANGED prefetch
    <3>1. item = ItemAt(queue, cursor)
      BY <2>3
    <3>2. cursor + 1 \in DOMAIN queue /\ item = queue[cursor + 1]
      BY <2>5, <3>1 DEF ItemAt
    <3>3. cursor + 1 \in 1 .. Len(queue) /\ cursor < Len(queue)
      BY <3>2, Held
    <3>4. item.track # NoTrack /\ queue[cursor + 1].track = item.track
      BY <3>2, <3>3, Held
    <3>5. cursor' < Len(queue') /\ queue'[cursor' + 1].track = item.track
      BY <2>1, <3>3, <3>4
    <3>6. GoWith(h, Loading(h, item.track, FALSE))
      BY <2>5 DEF StartLoad
    <3> HIDE DEF item
    <3>7. QED
      BY <1>1, <2>1, <2>4, <2>5, <3>4, <3>5, <3>6, LoadBegins
  <2>6. CASE /\ pending' = NoTrack
             /\ ClearTimer
             /\ IF k >= 0 THEN GoWith(h, [f EXCEPT !.at = "setIndex", !.i = k])
                          ELSE Turn(h, cursor)
    <3>1. Steady'
      BY <1>1, <2>1, <2>6, SteadyClears
    <3>2. CASE k >= 0
      <4>1. k < Len(queue)
        BY <2>3, <3>2, FirstHasTrack DEF PlaybackTypes
      <4> HIDE DEF k
      <4>2. frame'[h] = [frame[h] EXCEPT !.at = "setIndex", !.i = k]
        BY <2>6, <3>2, HandlerMoves, Zenon
      <4>3. frame'[h].at = "setIndex" /\ frame'[h].i = k /\ frame'[h].q = queue
        BY <1>1, <2>3, <4>2 DEF Frames
      <4>4. Ahead(h)' = frame'[h].at => Heads(h)'
        BY <2>1, <4>1, <4>3 DEF Heads
      <4>5. QED
        BY <1>1, <2>1, <3>1, <4>3, <4>4, HeadsFor DEF Heading
    <3>3. CASE ~(k >= 0)
      BY <1>1, <2>1, <2>6, <3>1, <3>3, TurnStays
    <3>4. QED
      BY <3>2, <3>3
  <2>7. CASE Turn(h, cursor) /\ UNCHANGED prefetch
    BY <1>1, <2>1, <2>4, <2>7, TurnStays
  <2>8. QED
    BY <2>1, <2>5, <2>6, <2>7
<1>5. CASE SetIndexStep(h)
  <2> DEFINE t == frame[h].q[frame[h].i + 1].track
  <2>1. /\ frame[h].at = "setIndex" /\ cursor' = frame[h].i
        /\ GoWith(h, Loading(h, t, FALSE))
        /\ UNCHANGED <<queue, online, timers, mapped, pending, st, chain, block>>
    BY <1>5 DEF SetIndexStep, StartLoad, At, prefetch, state
  <2>2. Ahead(h) = "setIndex"
    BY <2>1, Standing
  <2>3. frame[h].q = queue /\ frame[h].i < Len(queue)
    BY <2>2, Known DEF Heading, Heads
  <2>4. frame[h].i + 1 \in 1 .. Len(queue)
    BY <2>3, Held
  <2>5. t # NoTrack /\ t = queue[frame[h].i + 1].track
    BY <2>3, <2>4, Held
  <2>6. Steady'
    BY <1>1, <2>1, <2>3, SteadyOn DEF OnQueue
  <2> HIDE DEF t
  <2>7. cursor' < Len(queue') /\ queue'[cursor' + 1].track = t
    BY <2>1, <2>3, <2>5
  <2>8. QED
    BY <1>1, <2>1, <2>5, <2>6, <2>7, LoadBegins
<1>6. QED
  BY <1>2, <1>3, <1>4, <1>5

\* advance(), and previous().
LEMMA QuietTurns ==
  ASSUME Undisturbed, PlaybackTypes, QuietInv, NEW h \in Handlers,
         AdvanceStep(h) \/ PrevIndex(h) \/ PrevSet(h)
  PROVE  QuietInv'
<1>1. OneHandler /\ Steady /\ frame[h] \in Frames
  BY DEF Undisturbed, QuietInv, PlaybackTypes, FrameTypes
<1>2. CASE AdvanceStep(h)
  <2> DEFINE o == Advance(queue, cursor)
  <2>1. /\ frame[h].at \in {"advance", "advanceAgain"}
        /\ cursor' = o.index
        /\ UNCHANGED <<queue, online, timers, mapped, pending, st, block>>
    BY <1>2 DEF AdvanceStep, prefetch
  <2>2. Ahead(h) = frame[h].at /\ Soon = st /\ chain = <<>> /\ block[h].at = "none"
    BY <2>1, Standing
  <2>3. \/ /\ o.item = NoItem /\ cursor' = cursor
        \/ /\ cursor' = cursor + 1 /\ cursor' < Len(queue) /\ o.item = queue[cursor' + 1]
           /\ o.item.track # NoTrack
    <3>1. CASE cursor + 1 >= Len(queue)
      BY <2>1, <3>1 DEF Advance, Null
    <3>2. CASE ~(cursor + 1 >= Len(queue))
      <4>1. o.index = cursor + 1 /\ o.item = ItemAt(queue, cursor + 1)
        BY <3>2 DEF Advance, Ok
      <4>2. (cursor + 1) + 1 \in 1 .. Len(queue) /\ ((cursor + 1) + 1) - 1 = cursor + 1
        BY <3>2, Held
      <4>3. ItemAt(queue, cursor + 1) = queue[(cursor + 1) + 1]
            /\ queue[(cursor + 1) + 1].track # NoTrack
        BY <4>2, Held
      <4>4. cursor + 1 < Len(queue)
        BY <4>2, Held
      <4>5. QED
        BY <2>1, <4>1, <4>3, <4>4
    <3>3. QED
      BY <3>1, <3>2
  <2>4. Steady'
    BY <1>1, <2>1, <2>3, SteadyOn DEF OnQueue, Steady
  <2>5. \/ o.item # NoItem /\ StartLoad(h, o.item.track) /\ UNCHANGED <<player, chain>>
        \/ Go(h, "refill") /\ UNCHANGED <<player, chain>>
        \/ /\ o.item = NoItem /\ Send(ToStop)
           /\ IF online THEN Patch(h, [state |-> "stopped"], "idle")
              ELSE Done(h) /\ UNCHANGED chain
    BY <1>2 DEF AdvanceStep
  <2> HIDE DEF o
  <2>6. CASE o.item # NoItem /\ StartLoad(h, o.item.track) /\ UNCHANGED <<player, chain>>
    BY <1>1, <2>1, <2>3, <2>4, <2>6, LoadBegins DEF StartLoad
  <2>7. CASE Go(h, "refill") /\ UNCHANGED <<player, chain>>
    <3>1. frame'[h].at = "refill"
      BY <2>7, HandlerMoves
    <3>2. Ahead(h)' = frame'[h].at => Heads(h)'
      BY <3>1 DEF Heads
    <3>3. QED
      BY <1>1, <2>1, <2>4, <2>7, <3>1, <3>2, HeadsFor DEF Heading
  <2>8. CASE /\ o.item = NoItem /\ Send(ToStop)
             /\ IF online THEN Patch(h, [state |-> "stopped"], "idle")
                ELSE Done(h) /\ UNCHANGED chain
    <3>1. player' = ToStop /\ Patch(h, [state |-> "stopped"], "idle")
      BY <1>1, <2>8 DEF Steady, Send
    <3>2. Ahead(h)' = "idle" /\ Settled(h)' /\ Soon' = Spread(st, [state |-> "stopped"])
      BY <2>1, <2>2, <3>1, PatchWaits
    <3>3. Soon'.state = "stopped"
      BY <3>2, PatchedState
    <3>4. player'.now = NoTrack /\ player'.loading = NoTrack
      BY <3>1 DEF ToStop, ToDropEntries, PlaybackTypes, PlayerTypes, Players
    <3>5. Rests(h)'
      BY <3>3, <3>4 DEF Rests, Untouched, Followed, NoErrors, Plays, Wanted
    <3>6. QED
      BY <1>1, <2>4, <3>2, <3>5, OneStage DEF Stage, Resting
  <2>9. QED
    BY <2>5, <2>6, <2>7, <2>8
<1>3. CASE PrevIndex(h)
  <2>1. /\ frame[h].at = "prevIndex"
        /\ UNCHANGED <<queue, cursor, online, timers, mapped, pending, st, chain, block, player>>
    BY <1>3 DEF PrevIndex, At, account, memory, state
  <2>2. Ahead(h) = "prevIndex" /\ Soon = st /\ block[h].at = "none" /\ chain = <<>>
    BY <2>1, Standing
  <2>3. Steady'
    BY <1>1, <2>1, SteadyStays
  <2>4. CASE cursor > 0
    <3>1. frame'[h] = [frame[h] EXCEPT !.at = "prevSet", !.i = cursor - 1, !.feed = FALSE]
      BY <1>3, <2>4, HandlerMoves DEF PrevIndex
    <3>2. frame'[h].at = "prevSet" /\ frame'[h].i = cursor - 1
      BY <1>1, <3>1 DEF Frames
    <3>3. GrowOnly => cursor - 1 < Len(queue)
      BY <1>1, <2>4, Held DEF Steady, OnQueue
    <3>4. Untouched(h)
      BY <2>2, Known DEF Resting, Rests
    <3>5. Untouched(h)'
      BY <2>1, <3>4, StaysUntouched DEF Soon
    <3>6. Ahead(h)' = frame'[h].at => Heads(h)'
      BY <2>1, <3>2, <3>3, <3>5 DEF Heads
    <3>7. QED
      BY <1>1, <2>1, <2>3, <3>2, <3>6, HeadsFor DEF Heading
  <2>5. CASE ~(cursor > 0)
    <3>1. frame'[h].at = "idle"
      BY <1>3, <2>5, HandlerMoves DEF PrevIndex
    <3>2. Rests(h)
      BY <2>2, Known DEF Resting
    <3>3. Soon' = st => Rests(h)'
      BY <2>1, <2>2, <3>2, RestsStay
    <3>4. QED
      BY <1>1, <2>1, <2>2, <2>3, <3>1, <3>3, Lands DEF Stage, Resting, state
  <2>6. QED
    BY <2>4, <2>5
<1>4. CASE PrevSet(h)
  <2>1. /\ frame[h].at = "prevSet" /\ cursor' = frame[h].i /\ Go(h, "current")
        /\ UNCHANGED <<queue, online, timers, mapped, pending, st, chain, block, player>>
    BY <1>4 DEF PrevSet, At, memory, state
  <2>2. Ahead(h) = "prevSet"
    BY <2>1, Standing
  <2>3. Untouched(h) /\ (GrowOnly => frame[h].i < Len(queue))
    BY <2>2, Known DEF Heading, Heads
  <2>4. frame'[h].at = "current"
    BY <2>1, HandlerMoves
  <2>5. Steady'
    BY <1>1, <2>1, <2>3, SteadyOn DEF OnQueue
  <2>6. Untouched(h)'
    BY <2>1, <2>3, StaysUntouched DEF Soon
  <2>7. Ahead(h)' = frame'[h].at => Heads(h)'
    BY <2>1, <2>3, <2>4, <2>6 DEF Heads
  <2>8. QED
    BY <1>1, <2>1, <2>4, <2>5, <2>7, HeadsFor DEF Heading
<1>5. QED
  BY <1>2, <1>3, <1>4


\* onTrackEnded after a natural end: the adoption of the pick, or next().
LEMMA QuietAdopts ==
  ASSUME Undisturbed, PlaybackTypes, QuietInv, NEW h \in Handlers,
         Eof(h) \/ AdoptQueue(h) \/ AdoptSet(h) \/ AdoptPatch(h) \/ AdoptTail(h)
  PROVE  QuietInv'
<1>1. OneHandler /\ Steady /\ frame[h] \in Frames
  BY DEF Undisturbed, QuietInv, PlaybackTypes, FrameTypes
<1>2. ASSUME frame[h].at \in {"eof", "adoptQueue"}, Go(h, "nextState"),
             UNCHANGED <<st, chain, block>>, Steady'
      PROVE  QuietInv'
  <2>1. frame'[h].at = "nextState"
    BY <1>2, HandlerMoves
  <2>2. Ahead(h)' = frame'[h].at => Heads(h)'
    BY <2>1 DEF Heads
  <2>3. QED
    BY <1>1, <1>2, <2>1, <2>2, HeadsFor DEF Heading
<1>3. CASE Eof(h)
  <2>1. /\ frame[h].at = "eof"
        /\ UNCHANGED <<queue, cursor, online, timers, mapped, pending, st, chain, block, player>>
    BY <1>3 DEF Eof, At, account, prefetch, state
  <2>2. Ahead(h) = "eof" /\ chain = <<>> /\ block[h].at = "none"
    BY <2>1, Standing
  <2>3. Ended
    BY <2>2, Known
  <2>4. Steady'
    BY <1>1, <2>1, SteadyStays
  <2>5. IF pending # NoTrack
        THEN GoWith(h, [frame[h] EXCEPT !.at = "adoptQueue", !.track = pending])
        ELSE Go(h, "nextState")
    BY <1>3, <2>3 DEF Eof, Ended
  <2>6. CASE pending # NoTrack
    <3>1. frame'[h] = [frame[h] EXCEPT !.at = "adoptQueue", !.track = pending]
      BY <2>5, <2>6, HandlerMoves, Zenon
    <3>2. frame'[h].at = "adoptQueue" /\ frame'[h].track = pending
      BY <1>1, <3>1 DEF Frames
    <3>3. timers = {}
      BY <1>1, <2>6 DEF Steady
    <3>4. Ahead(h)' = frame'[h].at => Adopts(h)'
      BY <2>1, <2>3, <2>6, <3>2, <3>3 DEF Ended, Adopts, Plays
    <3>5. Ahead(h)' = frame'[h].at => Stage(h)'
      BY <3>2, <3>4 DEF Stage, Adopting
    <3>6. QED
      BY <1>1, <2>1, <2>2, <2>4, <3>2, <3>5, Lands DEF state
  <2>7. CASE pending = NoTrack
    BY <1>2, <2>1, <2>4, <2>5, <2>7
  <2>8. QED
    BY <2>6, <2>7
<1>4. CASE AdoptQueue(h)
  <2> DEFINE t == frame[h].track
             k == FirstWithTrack(queue, t)
  <2>1. /\ frame[h].at = "adoptQueue"
        /\ UNCHANGED <<queue, cursor, online, st, chain, block, player>>
        /\ \/ /\ k >= 0 /\ pending' = NoTrack /\ ClearTimer
              /\ GoWith(h, [frame[h] EXCEPT !.at = "adoptSet", !.i = k])
           \/ Go(h, "nextState") /\ UNCHANGED <<timers, mapped, pending>>
    BY <1>4 DEF AdoptQueue, At, account, prefetch, state
  <2>2. Ahead(h) = "adoptQueue" /\ chain = <<>> /\ block[h].at = "none"
    BY <2>1, Standing
  <2>3. Adopts(h)
    BY <2>2, Known DEF Adopting
  <2>4. CASE /\ k >= 0 /\ pending' = NoTrack /\ ClearTimer
             /\ GoWith(h, [frame[h] EXCEPT !.at = "adoptSet", !.i = k])
    <3>1. k < Len(queue) /\ queue[k + 1].track = t
      BY <2>4, FirstHasTrack DEF PlaybackTypes
    <3> HIDE DEF k
    <3>2. frame'[h] = [frame[h] EXCEPT !.at = "adoptSet", !.i = k]
      BY <2>4, HandlerMoves, Zenon
    <3>3. frame'[h].at = "adoptSet" /\ frame'[h].i = k /\ frame'[h].track = t
      BY <1>1, <3>2 DEF Frames
    <3>4. Steady' /\ timers' = {}
      BY <1>1, <2>1, <2>4, SteadyClears
    <3>5. Ahead(h)' = frame'[h].at => Adopts(h)'
      BY <2>1, <2>3, <2>4, <3>1, <3>3, <3>4 DEF Adopts, Plays
    <3>6. Ahead(h)' = frame'[h].at => Stage(h)'
      BY <3>3, <3>5 DEF Stage, Adopting
    <3>7. QED
      BY <1>1, <2>1, <2>2, <3>3, <3>4, <3>6, Lands DEF state
  <2>5. CASE Go(h, "nextState") /\ UNCHANGED <<timers, mapped, pending>>
    <3>1. Steady'
      BY <1>1, <2>1, <2>5, SteadyStays
    <3>2. QED
      BY <1>2, <2>1, <2>5, <3>1
  <2>6. QED
    BY <2>1, <2>4, <2>5
<1>5. CASE AdoptSet(h)
  <2>1. /\ frame[h].at = "adoptSet" /\ cursor' = frame[h].i /\ Go(h, "adoptPatch")
        /\ UNCHANGED <<queue, online, timers, mapped, pending, st, chain, block, player>>
    BY <1>5 DEF AdoptSet, At, memory, state
  <2>2. Ahead(h) = "adoptSet" /\ chain = <<>> /\ block[h].at = "none"
    BY <2>1, Standing
  <2>3. Adopts(h)
    BY <2>2, Known DEF Adopting
  <2>4. frame[h].i < Len(queue) /\ queue[frame[h].i + 1].track = frame[h].track
    BY <2>2, <2>3 DEF Adopts
  <2>5. frame'[h].at = "adoptPatch" /\ frame'[h].track = frame[h].track
    BY <2>1, HandlerMoves
  <2>6. Steady'
    BY <1>1, <2>1, <2>4, SteadyOn DEF OnQueue
  <2>7. Ahead(h)' = frame'[h].at => Adopts(h)'
    BY <2>1, <2>2, <2>3, <2>4, <2>5 DEF Adopts, Plays, Stands
  <2>8. Ahead(h)' = frame'[h].at => Stage(h)'
    BY <2>5, <2>7 DEF Stage, Adopting
  <2>9. QED
    BY <1>1, <2>1, <2>2, <2>5, <2>6, <2>8, Lands DEF state
<1>6. CASE AdoptPatch(h)
  <2>1. frame[h].at = "adoptPatch"
    BY <1>6 DEF AdoptPatch, At
  <2>2. Ahead(h) = "adoptPatch" /\ chain = <<>> /\ block[h].at = "none"
    BY <2>1, Standing
  <2>3. Adopts(h)
    BY <2>2, Known DEF Adopting
  <2> DEFINE patch == [state |-> "playing", track |-> frame[h].track]
  <2>4. /\ Patch(h, patch, "adoptTail")
        /\ UNCHANGED <<online, queue, cursor, timers, mapped, pending, player, block, st>>
    BY <1>6 DEF AdoptPatch, account, memory
  <2>5. Spread(st, patch).state = "playing" /\ Spread(st, patch).track = frame[h].track
    BY PatchedState
  <2> HIDE DEF patch
  <2>6. /\ Ahead(h)' = "adoptTail" /\ Soon' = Spread(st, patch) /\ Settled(h)'
        /\ frame'[h].track = frame[h].track
    BY <2>2, <2>4, PatchWaits
  <2>7. Adopts(h)'
    BY <2>2, <2>3, <2>4, <2>5, <2>6 DEF Adopts, Plays, Stands
  <2>8. Steady'
    BY <1>1, <2>4, SteadyStays
  <2>9. QED
    BY <1>1, <2>6, <2>7, <2>8, OneStage DEF Stage, Adopting
<1>7. CASE AdoptTail(h)
  <2>1. frame[h].at = "adoptTail"
    BY <1>7 DEF AdoptTail, At
  <2>2. Ahead(h) = "adoptTail" /\ Soon = st /\ chain = <<>> /\ block[h].at = "none"
    BY <2>1, Standing
  <2>3. Adopts(h)
    BY <2>2, Known DEF Adopting
  <2>4. /\ pending' = NoTrack /\ ClearTimer /\ Go(h, "ensure")
        /\ UNCHANGED <<online, queue, cursor, player, chain, st>>
    BY <1>7 DEF AdoptTail, SchedulePrefetch, account, state
  <2>5. Steady' /\ timers' = {}
    BY <1>1, <2>4, SteadyClears
  <2>6. frame'[h].at = "ensure"
    BY <2>4, HandlerMoves
  <2>7. Soon' = st => Rests(h)'
    BY <2>2, <2>3, <2>4, <2>5 DEF Rests, Untouched, Followed, Adopts, Plays, Wanted, Stands, NoErrors
  <2>8. QED
    BY <1>1, <2>1, <2>4, <2>5, <2>6, <2>7, Lands DEF Stage, Resting, state
<1>8. QED
  BY <1>3, <1>4, <1>5, <1>6, <1>7

\* onTrackEnded after a failure: another try, the next track, or the surrender.
LEMMA QuietFails ==
  ASSUME Undisturbed, PlaybackTypes, QuietInv, NEW h \in Handlers, Error(h) \/ RetryState(h)
  PROVE  QuietInv'
<1>1. OneHandler /\ Steady
  BY DEF Undisturbed, QuietInv
<1>2. CASE Error(h)
  <2>1. /\ frame[h].at = "error"
        /\ UNCHANGED <<queue, cursor, online, timers, mapped, pending, st, chain, block, player>>
    BY <1>2 DEF Error, At, account, memory, state
  <2>2. Ahead(h) = "error" /\ Soon = st /\ chain = <<>> /\ block[h].at = "none"
    BY <2>1, Standing
  <2>3. Fails(h)
    BY <2>2, Known DEF Failing
  <2>4. Go(h, "retryState")
    BY <1>2, <2>2, <2>3 DEF Error, Fails
  <2>5. frame'[h].at = "retryState" /\ frame'[h].track = frame[h].track
    BY <2>4, HandlerMoves
  <2>6. Steady'
    BY <1>1, <2>1, SteadyStays
  <2>7. Ahead(h)' = frame'[h].at /\ Soon' = st => Fails(h)'
    BY <2>1, <2>2, <2>3, <2>5 DEF Fails, NoErrors
  <2>8. Ahead(h)' = frame'[h].at /\ Soon' = st => Stage(h)'
    BY <2>5, <2>7 DEF Stage, Failing
  <2>9. QED
    BY <1>1, <2>1, <2>2, <2>5, <2>6, <2>8, Lands DEF state
<1>3. CASE RetryState(h)
  <2>1. /\ frame[h].at = "retryState"
        /\ UNCHANGED <<queue, cursor, online, st, block, player>>
        /\ \/ /\ st.track # NoTrack /\ GoWith(h, Loading(h, st.track, TRUE))
              /\ UNCHANGED <<timers, mapped, pending, chain>>
           \/ Go(h, "nextState") /\ UNCHANGED <<timers, mapped, pending, chain>>
           \/ /\ ClearTimer /\ pending' = NoTrack
              /\ Patch(h, [state |-> "stopped"], "idle")
    BY <1>3 DEF RetryState, At, account, prefetch
  <2>2. Ahead(h) = "retryState" /\ Soon = st /\ chain = <<>> /\ block[h].at = "none"
    BY <2>1, Standing
  <2>3. Fails(h)
    BY <2>2, Known DEF Failing
  <2>4. UNCHANGED <<timers, mapped, pending>> => Steady'
    BY <1>1, <2>1, SteadyStays
  <2>5. CASE /\ st.track # NoTrack /\ GoWith(h, Loading(h, st.track, TRUE))
             /\ UNCHANGED <<timers, mapped, pending, chain>>
    BY <1>1, <2>1, <2>3, <2>4, <2>5, LoadBegins DEF Fails, Followed
  <2>6. CASE Go(h, "nextState") /\ UNCHANGED <<timers, mapped, pending, chain>>
    <3>1. frame'[h].at = "nextState"
      BY <2>6, HandlerMoves
    <3>2. Ahead(h)' = frame'[h].at => Heads(h)'
      BY <3>1 DEF Heads
    <3>3. QED
      BY <1>1, <2>1, <2>4, <2>6, <3>1, <3>2, HeadsFor DEF Heading
  <2>7. CASE /\ ClearTimer /\ pending' = NoTrack
             /\ Patch(h, [state |-> "stopped"], "idle")
    <3>1. Steady' /\ timers' = {}
      BY <1>1, <2>1, <2>7, SteadyClears
    <3>2. Ahead(h)' = "idle" /\ Settled(h)' /\ Soon' = Spread(st, [state |-> "stopped"])
      BY <2>1, <2>2, <2>7, PatchWaits
    <3>3. Soon'.state = "stopped"
      BY <3>2, PatchedState
    <3>4. Rests(h)'
      BY <2>1, <2>2, <2>3, <2>7, <3>1, <3>3 DEF Rests, Untouched, Followed, Fails, Plays, Picking, NoErrors
    <3>5. QED
      BY <1>1, <3>1, <3>2, <3>4, OneStage DEF Stage, Resting
  <2>8. QED
    BY <2>1, <2>5, <2>6, <2>7
<1>4. QED
  BY <1>2, <1>3


\* A request edits the queue, and invalidates the prefetch.
LEMMA QuietEdits ==
  ASSUME Undisturbed, PlaybackTypes, QuietInv, NEW h \in Handlers,
         EditQueue(h) \/ Invalidate(h) \/ InvalidateState(h)
  PROVE  QuietInv'
<1>1. OneHandler /\ Steady /\ QueueTypes
  BY DEF Undisturbed, QuietInv, PlaybackTypes
<1>2. CASE EditQueue(h)
  <2>1. /\ frame[h].at = "edit" /\ Go(h, "invalidate")
        /\ UNCHANGED <<online, timers, mapped, pending, player, block, chain, st>>
    BY <1>2 DEF EditQueue, At, memory, state
  <2>2. Ahead(h) = "edit" /\ Soon = st /\ block[h].at = "none"
    BY <2>1, Standing
  <2>3. Rests(h)
    BY <2>2, Known DEF Resting
  <2>4. GrowOnly => cursor' = cursor /\ Len(queue') = Len(queue) + 1
    BY <1>1, <1>2, EditKeeps
  <2>5. GrowOnly => OnQueue(cursor', Len(queue'))
    BY <1>1, <2>4, Held DEF Steady, OnQueue
  <2>6. Steady'
    BY <1>1, <2>1, <2>5, SteadyOn
  <2>7. frame'[h].at = "invalidate"
    BY <2>1, HandlerMoves
  <2>8. Soon' = st => Rests(h)'
    <3>1. Wanted' = Wanted /\ Plays' = Plays /\ Picking(h)' = Picking(h)
      BY <2>1 DEF Wanted, Plays, Picking
    <3>2. ASSUME Followed, Stands(Wanted)
          PROVE  Stands(Wanted)'
      <4>1. \A t : Stands(t) => (Stands(t))'
        BY <1>1, <1>2, <3>2, EditStays DEF Followed
      <4>2. QED
        BY <3>1, <3>2, <4>1 DEF Stands
    <3>3. QED
      BY <2>1, <2>2, <2>3, <3>1, <3>2 DEF Rests, Untouched, Followed, NoErrors
  <2>9. QED
    BY <1>1, <2>1, <2>2, <2>6, <2>7, <2>8, Lands DEF Stage, Resting, state
<1>3. CASE Invalidate(h)
  <2>1. /\ frame[h].at = "invalidate" /\ Go(h, "invalidateState")
        /\ ClearTimer /\ pending' = NoTrack /\ player' = ToDropEntries
        /\ UNCHANGED <<online, queue, cursor, block, chain, st>>
    BY <1>1, <1>3 DEF Invalidate, At, Steady, Send, account, state
  <2>2. Ahead(h) = "invalidate" /\ Soon = st /\ block[h].at = "none"
    BY <2>1, Standing
  <2>3. Rests(h)
    BY <2>2, Known DEF Resting
  <2>4. Steady' /\ timers' = {}
    BY <1>1, <2>1, SteadyClears
  <2>5. /\ player'.entries = <<>> /\ player'.now = player.now
        /\ player'.loading = player.loading /\ player'.status = player.status
    BY <2>1 DEF ToDropEntries, PlaybackTypes, PlayerTypes, Players
  <2>6. frame'[h].at = "invalidateState"
    BY <2>1, HandlerMoves
  <2>7. Soon' = st => Rests(h)'
    BY <2>1, <2>2, <2>3, <2>5 DEF Rests, Untouched, Followed, Plays, Wanted, Stands, NoErrors
  <2>8. Soon' = st => Empties(h)'
    BY <2>4, <2>5, <2>7 DEF Empties
  <2>9. Ahead(h)' = frame'[h].at /\ Soon' = st => Stage(h)'
    BY <2>6, <2>8 DEF Stage
  <2>10. QED
    BY <1>1, <2>1, <2>2, <2>4, <2>6, <2>9, Lands DEF state
<1>4. CASE InvalidateState(h)
  <2>1. /\ frame[h].at = "invalidateState" /\ Done(h)
        /\ \/ SchedulePrefetch(h, st.track)
           \/ UNCHANGED <<timers, mapped, pending, block>>
        /\ UNCHANGED <<online, queue, cursor, player, chain, st>>
    BY <1>4 DEF InvalidateState, At, account, prefetch, state
  <2>2. Ahead(h) = "invalidateState" /\ Soon = st /\ block[h].at = "none"
    BY <2>1, Standing
  <2>3. Rests(h) /\ player.entries = <<>> /\ timers = {}
    BY <2>2, Known DEF Empties
  <2>4. frame'[h].at = "idle"
    BY <2>1, HandlerMoves
  <2>5. CASE SchedulePrefetch(h, st.track)
    <3>1. ClearTimer /\ pending' = NoTrack
      BY <2>5 DEF SchedulePrefetch
    <3>2. Steady' /\ timers' = {}
      BY <1>1, <2>1, <3>1, SteadyClears
    <3>3. Soon' = st => Rests(h)'
      BY <2>1, <2>2, <2>3, <3>1 DEF Rests, Untouched, Followed, Plays, Wanted, Stands, NoErrors
    <3>4. Ahead(h)' = frame'[h].at /\ Soon' = st => Stage(h)'
      BY <2>4, <3>3 DEF Stage, Resting
    <3>5. QED
      BY <1>1, <2>1, <2>2, <2>4, <3>1, <3>2, <3>4, Lands DEF state
  <2>6. CASE UNCHANGED <<timers, mapped, pending, block>>
    <3>1. Steady'
      BY <1>1, <2>1, <2>6, SteadyStays
    <3>2. Soon' = st => Rests(h)'
      BY <2>1, <2>2, <2>3, <2>6, RestsStay
    <3>3. Ahead(h)' = frame'[h].at /\ Soon' = st => Stage(h)'
      BY <2>4, <3>2 DEF Stage, Resting
    <3>4. QED
      BY <1>1, <2>1, <2>2, <2>4, <2>6, <3>1, <3>3, Lands DEF state
  <2>7. QED
    BY <2>1, <2>5, <2>6
<1>5. QED
  BY <1>2, <1>3, <1>4

\* The prefetch block picks the next track beside the end of its handler.
LEMMA QuietBlocks ==
  ASSUME Undisturbed, PlaybackTypes, QuietInv, NEW h \in Handlers,
         BlockState(h) \/ BlockQueue(h) \/ BlockIndex(h)
  PROVE  QuietInv'
<1>1. OneHandler /\ Steady /\ Settled(h) /\ block \in [Handlers -> Blocks]
  BY DEF Undisturbed, QuietInv, PlaybackTypes, BlockTypes
<1>2. /\ block[h].at # "none"
      /\ UNCHANGED <<online, queue, cursor, pending, player, frame, chain, st>>
  BY DEF BlockState, BlockQueue, BlockIndex, account, memory, state
<1>3. Ahead(h) \in {"idle", "ensure"} /\ timers = {} /\ pending = NoTrack
  BY <1>1, <1>2 DEF Settled
<1>4. Rests(h)
  BY <1>3, Known DEF Resting
<1>5. Ahead(h)' = Ahead(h) /\ Soon' = Soon
  BY <1>2 DEF Ahead, Soon
<1>6. Rests(h)'
  <2>1. Picking(h)
    BY <1>2 DEF Picking
  <2>2. QED
    BY <1>2, <1>3, <1>4, <1>5, <2>1 DEF Rests, Untouched, Followed, Plays, Wanted, Stands, NoErrors
<1>7. block'[h].at = "none" \/ UNCHANGED <<timers, mapped>>
  BY <1>1 DEF BlockState, BlockQueue, BlockIndex, EndBlock, NoBlock, memory
<1>8. Settled(h)'
  BY <1>1, <1>2, <1>3, <1>5, <1>7 DEF Settled, At
<1>9. Steady'
  <2>1. UNCHANGED <<timers, mapped>> \/ \E n, t : mapped' = n /\ timers' = {[id |-> n, track |-> t]}
    <3>1. CASE BlockIndex(h)
      <4>1. \/ UNCHANGED <<timers, mapped>>
            \/ \E n, t : mapped' = n /\ timers' = timers \cup {[id |-> n, track |-> t]}
        BY <3>1 DEF BlockIndex
      <4>2. \A x : timers \cup {x} = {x}
        BY <1>3
      <4>3. QED
        BY <4>1, <4>2
    <3>2. QED
      BY <3>1 DEF BlockState, BlockQueue, memory
  <2>2. CASE UNCHANGED <<timers, mapped>>
    BY <1>1, <1>2, <2>2, SteadyStays
  <2>3. ASSUME NEW n, NEW t, mapped' = n, timers' = {[id |-> n, track |-> t]}
        PROVE  Steady'
    BY <1>1, <1>2, <1>3, <2>3 DEF Steady
  <2>4. QED
    BY <2>1, <2>2, <2>3
<1>10. QED
  BY <1>1, <1>3, <1>5, <1>6, <1>8, <1>9, OneStage DEF Stage, Resting

\* A step beside the handler that leaves what it and the player have alone.
LEMMA StagePasses ==
  ASSUME NEW h \in Handlers, Stage(h), Ahead(h)' = Ahead(h), Soon' = Soon, recent' => recent,
         UNCHANGED <<queue, cursor, pending, timers, player, block>>,
         Ahead(h) = "idle" \/ /\ frame'[h].track = frame[h].track
                              /\ frame'[h].i = frame[h].i /\ frame'[h].q = frame[h].q
  PROVE  Stage(h)'
<1>1. (Untouched(h) => Untouched(h)') /\ (Rests(h) => Rests(h)')
  BY StaysUntouched, RestsStay
<1>2. CASE Ahead(h) = "idle"
  BY <1>1, <1>2 DEF Stage, Resting, Heading, Arriving, Adopting, Failing
<1>3. CASE Ahead(h) # "idle"
  <2>1. Heads(h) => Heads(h)'
    BY <1>1, <1>3 DEF Heads, Stands, NoErrors, Followed
  <2>2. Loads(h) => Loads(h)'
    BY <1>3 DEF Loads, Stands, NoErrors, Followed
  <2>3. Ended => Ended'
    BY DEF Ended, Plays
  <2>4. Adopts(h) => Adopts(h)'
    BY <1>3 DEF Adopts, Plays, Stands
  <2>5. Fails(h) => Fails(h)'
    BY <1>3 DEF Fails, NoErrors
  <2>6. Empties(h) => Empties(h)'
    BY <1>1 DEF Empties
  <2>7. QED
    BY <1>1, <2>1, <2>2, <2>3, <2>4, <2>5, <2>6 DEF Stage
<1>4. QED
  BY <1>2, <1>3


\* The patch is written, and the handler goes on where it said.
LEMMA PatchGoesOn ==
  ASSUME Undisturbed, PlaybackTypes, QuietInv, ApplyPatch, NEW h \in Handlers
  PROVE  /\ chain' = <<>> /\ Ahead(h)' = Ahead(h) /\ Soon' = Soon
         /\ frame'[h].at = Ahead(h) /\ Ahead(h) \in {"idle", "loadTail", "adoptTail"}
         /\ Ahead(h) = "idle" \/ /\ frame'[h].track = frame[h].track
                                 /\ frame'[h].i = frame[h].i /\ frame'[h].q = frame[h].q
<1>1. /\ chain # <<>> /\ chain \in Seq(Waiting) /\ frame \in [Handlers -> Frames] /\ Settled(h)
  BY DEF QuietInv, ApplyPatch, PlaybackTypes, StateTypes, FrameTypes
<1> DEFINE p == chain[1]
<1>2. /\ chain' = Tail(chain) /\ st' = Spread(st, p.patch)
      /\ frame' = [frame EXCEPT ![p.by] = IF p.next = "idle" THEN Idle ELSE [@ EXCEPT !.at = p.next]]
  <2>1. p = Head(chain)
    BY <1>1
  <2> HIDE DEF p
  <2>2. chain' = Tail(chain) /\ st' = Spread(st, p.patch)
    BY <2>1 DEF ApplyPatch, Spread
  <2>3. frame' = [frame EXCEPT ![p.by] = IF p.next = "idle" THEN Idle ELSE [@ EXCEPT !.at = p.next]]
    BY <2>1 DEF ApplyPatch
  <2>4. QED
    BY <2>2, <2>3
<1>3. p \in Waiting
  BY <1>1
<1>4. p.by \in Handlers /\ p.next \in {"idle", "loadTail", "adoptTail"}
  BY <1>3 DEF Waiting
<1>5. chain = <<p>> /\ Ahead(h) = p.next /\ Soon = st'
  BY <1>1, <1>2 DEF Settled, Ahead, Soon
<1>6. chain' = <<>>
  BY <1>2, <1>5
<1>7. p.by = h
  BY <1>4 DEF Undisturbed, OneHandler
<1>8. frame'[h] = IF p.next = "idle" THEN Idle ELSE [frame[h] EXCEPT !.at = p.next]
  BY <1>1, <1>2, <1>7
<1>9. /\ frame'[h].at = p.next
      /\ p.next = "idle" \/ /\ frame'[h].track = frame[h].track
                            /\ frame'[h].i = frame[h].i /\ frame'[h].q = frame[h].q
  <2>1. CASE p.next = "idle"
    BY <1>8, <2>1 DEF Idle
  <2>2. frame[h] \in Frames
    BY <1>1
  <2>3. CASE p.next # "idle"
    BY <1>8, <2>2, <2>3 DEF Frames
  <2>4. QED
    BY <2>1, <2>3
<1>10. QED
  BY <1>4, <1>5, <1>6, <1>9 DEF Ahead, Soon

LEMMA QuietPatch ==
  ASSUME Undisturbed, PlaybackTypes, QuietInv, ApplyPatch
  PROVE  QuietInv'
<1>1. /\ Steady'
      /\ UNCHANGED <<queue, cursor, pending, timers, recent, player, block>>
  BY SteadyStays DEF QuietInv, ApplyPatch, account, memory
<1>2. ASSUME NEW h \in Handlers
      PROVE  Settled(h)' /\ Stage(h)'
  <2>1. Settled(h) /\ Stage(h)
    BY DEF QuietInv
  <2>2. Settled(h)'
    BY <1>1, <2>1, PatchGoesOn DEF Settled, At
  <2>3. Stage(h)'
    BY <1>1, <2>1, PatchGoesOn, StagePasses
  <2>4. QED
    BY <2>2, <2>3
<1>3. QED
  BY <1>1, <1>2 DEF QuietInv

\* The timer fires: the pick is held, and mpv appends it.
LEMMA QuietTimer ==
  ASSUME Undisturbed, PlaybackTypes, QuietInv, TimerFires
  PROVE  QuietInv'
<1>1. Steady
  BY DEF QuietInv
<1>2. PICK t \in timers : /\ timers' = timers \ {t} /\ pending' = t.track
                          /\ player' = ToAppend(t.track)
  BY <1>1 DEF TimerFires, Send, Steady
<1>3. /\ player.loading = NoTrack
      /\ UNCHANGED <<online, queue, cursor, st, chain, frame, block, recent>>
  BY DEF TimerFires, Undisturbed, account, state
<1>4. timers' = {}
  BY <1>1, <1>2 DEF Steady
<1>5. player.entries \in Seq(AnyTrack) /\ t.track # NoTrack
  BY TracksAreSomething DEF PlaybackTypes, PlayerTypes, Players, MemoryTypes
<1>6. /\ player'.entries = Append(player.entries, t.track) /\ player'.now = player.now
      /\ player'.loading = player.loading /\ player'.status = player.status
  BY <1>2 DEF ToAppend, PlaybackTypes, PlayerTypes, Players
<1>7. Steady'
  BY <1>1, <1>3, <1>4 DEF Steady
<1>8. ASSUME NEW h \in Handlers
      PROVE  Settled(h)' /\ Stage(h)'
  <2>1. Settled(h) /\ Stage(h) /\ block[h].at = "none"
    BY <1>2 DEF QuietInv, Settled
  <2>2. Ahead(h)' = Ahead(h) /\ Soon' = Soon
    BY <1>3 DEF Ahead, Soon
  <2>3. Settled(h)'
    BY <1>3, <2>1 DEF Settled, At
  <2>4. ASSUME Untouched(h)
        PROVE  Untouched(h)'
    <3>1. Plays => player.entries = <<>>
      BY <1>2, <2>4 DEF Untouched, Picking
    <3>2. Append(<<>>, t.track) = <<t.track>>
      OBVIOUS
    <3>3. Plays' = Plays /\ Wanted' = Wanted
      BY <1>6 DEF Plays, Wanted
    <3>4. Plays' => player'.entries = <<pending'>>
      BY <1>2, <1>6, <3>1, <3>2, <3>3
    <3>5. ~Picking(h)'
      BY <1>3, <1>4, <2>1 DEF Picking
    <3>6. QED
      BY <1>3, <1>6, <2>2, <2>4, <3>3, <3>4, <3>5 DEF Untouched, NoErrors
  <2>5. Rests(h) => Rests(h)'
    BY <1>3, <1>6, <2>4 DEF Rests, Wanted, Stands, Followed, NoErrors
  <2>6. Heads(h) => Heads(h)'
    BY <1>3, <2>2, <2>4 DEF Heads, Stands, NoErrors, Followed
  <2>7. ~Loads(h) /\ ~Adopts(h) /\ ~Empties(h)
    BY <1>2, <1>3 DEF Loads, Adopts, Empties
  <2>8. Ended => Ended'
    BY <1>2, <1>3, <1>6 DEF Ended, Plays
  <2>9. Fails(h) => Fails(h)'
    BY <1>3, <1>6, <2>2 DEF Fails, NoErrors
  <2>10. Stage(h)'
    BY <2>1, <2>2, <2>5, <2>6, <2>7, <2>8, <2>9 DEF Stage
  <2>11. QED
    BY <2>3, <2>10
<1>9. QED
  BY <1>7, <1>8 DEF QuietInv

\* A load resolves, after its handler is done.
LEMMA QuietStart ==
  ASSUME Undisturbed, PlaybackTypes, QuietInv, PlayerStarts
  PROVE  QuietInv'
<1>1. /\ player.loading # NoTrack /\ \A h \in Handlers : At(h, "idle")
      /\ UNCHANGED <<online, queue, cursor, pending, timers, mapped, recent, st, chain, frame, block>>
  BY DEF PlayerStarts, Undisturbed, account, memory, state
<1>2. /\ player'.now = player.loading /\ player'.entries = <<>> /\ player'.loading = NoTrack
      /\ player'.status = "playing"
  BY DEF PlayerStarts
<1>3. Steady'
  BY <1>1, SteadyStays DEF QuietInv
<1>4. ASSUME NEW h \in Handlers
      PROVE  Settled(h)' /\ Stage(h)'
  <2>1. Settled(h) /\ Ahead(h) = "idle"
    BY <1>1, Standing DEF QuietInv, At
  <2>2. Rests(h)
    BY <2>1, Known DEF Resting
  <2>3. Ahead(h)' = Ahead(h) /\ Soon' = Soon
    BY <1>1 DEF Ahead, Soon
  <2>4. Settled(h)'
    BY <1>1, <2>1 DEF Settled, At, Ahead
  <2>5. Wanted' = Wanted
    BY <1>1, <1>2 DEF Wanted
  <2>6. Rests(h)'
    BY <1>1, <1>2, <2>2, <2>3, <2>5 DEF Rests, Untouched, Followed, Stands, NoErrors
  <2>7. QED
    BY <2>1, <2>3, <2>4, <2>6 DEF Stage, Resting
<1>5. QED
  BY <1>3, <1>4 DEF QuietInv

\* Nothing else comes from outside.
LEMMA QuietOutside ==
  ASSUME Undisturbed, PlaybackTypes, QuietInv, Age \/ Disconnect \/ UNCHANGED vars
  PROVE  QuietInv'
<1>1. /\ recent' => recent
      /\ UNCHANGED <<online, queue, cursor, pending, timers, mapped, player, st, chain, frame, block>>
  BY DEF Age, Disconnect, Undisturbed, account, prefetch, state, vars
<1>2. Steady'
  BY <1>1, SteadyStays DEF QuietInv
<1>3. ASSUME NEW h \in Handlers
      PROVE  Settled(h)' /\ Stage(h)'
  <2>1. Settled(h) /\ Stage(h)
    BY DEF QuietInv
  <2>2. Ahead(h)' = Ahead(h) /\ Soon' = Soon
    BY <1>1 DEF Ahead, Soon
  <2>3. Settled(h)'
    BY <1>1, <2>1 DEF Settled, At, Ahead
  <2>4. Stage(h)'
    BY <1>1, <2>1, <2>2, StagePasses
  <2>5. QED
    BY <2>3, <2>4
<1>4. QED
  BY <1>2, <1>3 DEF QuietInv

\* Every step keeps the invariant.
LEMMA QuietStep ==
  ASSUME Undisturbed, PlaybackTypes, QuietInv, [Next]_vars
  PROVE  QuietInv'
<1>1. ASSUME NEW h \in Handlers, Resume(h)
      PROVE  QuietInv'
  <2>1. frame[h].at \notin {"report", "reportQueue", "reportPatch", "parkState", "parkPatch"}
    BY Known, Standing
  <2>2. ~(ReportState(h) \/ ReportQueue(h) \/ ReportPatch(h) \/ ParkState(h) \/ ParkPatch(h))
    BY <2>1 DEF ReportState, ReportQueue, ReportPatch, ParkState, ParkPatch, At
  <2>3. QED
    BY <1>1, <2>2, QuietLoads, QuietPlaces, QuietItems, QuietNext, QuietTurns, QuietAdopts,
       QuietFails, QuietEdits, QuietBlocks DEF Resume
<1>2. QED
  BY <1>1, QuietArrival, QuietPatch, QuietTimer, QuietStart, QuietOutside DEF Next

LEMMA QuietInit ==
  ASSUME Init
  PROVE  QuietInv
<1>1. Steady
  BY DEF Init, Steady, OnQueue
<1>2. ASSUME NEW h \in Handlers
      PROVE  Settled(h) /\ Stage(h)
  <2>1. frame[h] = Idle /\ block[h] = NoBlock /\ chain = <<>>
    BY DEF Init
  <2>2. Ahead(h) = "idle" /\ Soon = st /\ block[h].at = "none" /\ frame[h].at = "idle"
    BY <2>1 DEF Ahead, Soon, Idle, NoBlock
  <2>3. player.loading = NoTrack /\ player.now = NoTrack /\ st.state = "stopped"
    BY DEF Init
  <2>4. Rests(h)
    BY <2>2, <2>3 DEF Rests, Untouched, Followed, NoErrors, Plays, Wanted
  <2>5. QED
    BY <2>1, <2>2, <2>4 DEF Settled, Stage, Resting, At
<1>3. QED
  BY <1>1, <1>2 DEF QuietInv


-----------------------------------------------------------------------------
(***************************************************************************)
(* What is buffered is queued.  An edit that removes a track takes it out  *)
(* of mpv's playlist, out of the armed timer and out of the pick that is   *)
(* being made.  playTracks only replaces the queue: there it is the load   *)
(* that makes mpv drop what it had, and a load that fails does not.        *)
(***************************************************************************)

\* playTracks and failures do not come together.
Replaceable == NoErrors \/ "playTracks" \notin Commands

Buffers ==
  /\ player.loading = NoTrack \/ ~NoErrors => ToSet(player.entries) \subseteq TracksOf(queue)
  /\ \A t \in timers : t.track \in TracksOf(queue)
  /\ \A h \in Handlers : block[h].at = "index" => TracksOf(block[h].q) \subseteq TracksOf(queue)

\* Where a handler has changed the queue and not told the player yet.
Replacing(h) ==
  /\ NoErrors
  /\ \/ Ahead(h) \in {"current", "currentIndex"} /\ cursor < Len(queue)
     \/ Ahead(h) \in {"load", "loadPatch", "loadTail"}
Stale(h) == Ahead(h) = "invalidate" \/ Replacing(h)

BufferInv == \A h \in Handlers : Stale(h) \/ Buffers

\* A step that keeps the queue's tracks and buffers no other track.
Lessens ==
  /\ TracksOf(queue) \subseteq TracksOf(queue')
  /\ ToSet(player'.entries) \subseteq ToSet(player.entries)
  /\ \/ player'.loading = player.loading
     \/ player'.loading # NoTrack
     \/ ~NoErrors
     \/ player'.entries = <<>>
  /\ timers' \subseteq timers
  /\ \A g \in Handlers : block'[g].at = "index" => block'[g] = block[g]

LEMMA LessensKeeps ==
  ASSUME Buffers, Lessens
  PROVE  Buffers'
<1>1. player'.loading = NoTrack \/ ~NoErrors => ToSet(player'.entries) \subseteq TracksOf(queue')
  <2>1. ToSet(<<>>) = {}
    BY DEF ToSet
  <2>2. QED
    BY <2>1 DEF Buffers, Lessens
<1>2. \A t \in timers' : t.track \in TracksOf(queue')
  BY DEF Buffers, Lessens
<1>3. \A g \in Handlers : block'[g].at = "index" => TracksOf(block'[g].q) \subseteq TracksOf(queue')
  BY DEF Buffers, Lessens
<1>4. QED
  BY <1>1, <1>2, <1>3, Zenon DEF Buffers, NoErrors, TracksOf

\* Most steps leave the player and the queue alone.
LEMMA LessensNothing ==
  ASSUME UNCHANGED <<queue, player, block>>, timers' = timers \/ ClearTimer
  PROVE  Lessens
  BY DEF Lessens, ClearTimer

\* An item more is no track less.
LEMMA MoreTracks ==
  ASSUME NEW q \in Seq(Item), NEW e \in Item
  PROVE  /\ TracksOf(q) \subseteq TracksOf(Append(q, e))
         /\ \A i \in 1 .. Len(q) + 1 : TracksOf(q) \subseteq TracksOf(InsertAt(q, i, e))
<1>1. Append(q, e) \in Seq(Item) /\ Len(Append(q, e)) = Len(q) + 1
      /\ \A k \in 1 .. Len(q) : Append(q, e)[k] = q[k]
  OBVIOUS
<1>2. ASSUME NEW r \in Seq(Item), Len(r) = Len(q) + 1,
             \A k \in 1 .. Len(q) : \E l \in 1 .. Len(r) : r[l] = q[k]
      PROVE  TracksOf(q) \subseteq TracksOf(r)
  <2>1. DOMAIN q = 1 .. Len(q) /\ DOMAIN r = 1 .. Len(r)
    OBVIOUS
  <2>2. QED
    BY <1>2, <2>1 DEF TracksOf
<1>3. TracksOf(q) \subseteq TracksOf(Append(q, e))
  <2>1. \A k \in 1 .. Len(q) : k \in 1 .. Len(Append(q, e)) /\ Append(q, e)[k] = q[k]
    BY <1>1
  <2>2. QED
    BY <1>1, <1>2, <2>1, Zenon
<1>4. ASSUME NEW i \in 1 .. Len(q) + 1
      PROVE  TracksOf(q) \subseteq TracksOf(InsertAt(q, i, e))
  <2> DEFINE r == InsertAt(q, i, e)
  <2>1. /\ r \in Seq(Item) /\ Len(r) = Len(q) + 1
        /\ \A k \in 1 .. Len(q) + 1 : r[k] = IF k < i THEN q[k] ELSE IF k = i THEN e ELSE q[k - 1]
    BY InsertAdds
  <2> HIDE DEF r
  <2>2. ASSUME NEW k \in 1 .. Len(q)
        PROVE  \E l \in 1 .. Len(r) : r[l] = q[k]
    <3>1. CASE k < i
      <4>1. k \in 1 .. Len(q) + 1 /\ r[k] = q[k]
        BY <2>1, <3>1
      <4>2. QED
        BY <2>1, <4>1
    <3>2. CASE ~(k < i)
      <4>1. k + 1 \in 1 .. Len(q) + 1 /\ ~(k + 1 < i) /\ k + 1 # i /\ (k + 1) - 1 = k
        BY <3>2
      <4>2. r[k + 1] = q[k]
        BY <2>1, <4>1
      <4>3. QED
        BY <2>1, <4>1, <4>2
    <3>3. QED
      BY <3>1, <3>2
  <2>3. TracksOf(q) \subseteq TracksOf(r)
    BY <1>2, <2>1, <2>2
  <2>4. QED
    BY <2>3 DEF r
<1>5. QED
  BY <1>3, <1>4

\* What mpv has not gone on to yet was buffered before.
LEMMA RestIsBuffered ==
  ASSUME PlaybackTypes
  PROVE  ToSet(Rest) \subseteq ToSet(player.entries)
<1>1. player.entries \in Seq(AnyTrack)
  BY DEF PlaybackTypes, PlayerTypes, Players
<1>2. CASE player.entries = <<>>
  BY <1>2 DEF Rest
<1>3. CASE player.entries # <<>>
  <2>1. Rest = Tail(player.entries)
    BY <1>3 DEF Rest
  <2>2. \A k \in DOMAIN Tail(player.entries) :
          k + 1 \in DOMAIN player.entries /\ Tail(player.entries)[k] = player.entries[k + 1]
    BY <1>1, <1>3
  <2>3. QED
    BY <2>1, <2>2 DEF ToSet
<1>4. QED
  BY <1>2, <1>3

\* A command, a natural end or a failure buffers nothing.
LEMMA ArrivalLessens ==
  ASSUME Undisturbed, PlaybackTypes, QuietInv, NEW h \in Handlers, Arrival(h)
  PROVE  Lessens
<1>1. player \in Players /\ online
  BY DEF PlaybackTypes, PlayerTypes, QuietInv, Steady
<1>2. CASE Play(h) \/ NextCommand(h) \/ Previous(h) \/ Mode(h) \/ PlayTracks(h)
           \/ Edit(h) \/ PlayItem(h) \/ Grace(h) \/ Report(h)
  BY <1>2, LessensNothing
     DEF Play, NextCommand, Previous, Mode, PlayTracks, Edit, PlayItem, Grace, Report, Command,
         account, memory
<1>3. CASE Stop(h)
  <2>1. player' = ToStop /\ ClearTimer /\ UNCHANGED <<queue, block>>
    BY <1>1, <1>3 DEF Stop, Send, account
  <2>2. player'.entries = <<>>
    BY <1>1, <2>1 DEF ToStop, ToDropEntries, Players
  <2>3. QED
    BY <2>1, <2>2 DEF Lessens, ClearTimer, ToSet
<1>4. CASE Transport(h)
  <2>1. (\E s : player' = [player EXCEPT !.status = s]) /\ UNCHANGED <<queue, timers, block>>
    BY <1>4, Zenon DEF Transport, account, memory
  <2>2. player'.entries = player.entries /\ player'.loading = player.loading
    BY <1>1, <2>1 DEF Players
  <2>3. QED
    BY <2>1, <2>2 DEF Lessens
<1>5. CASE TrackEnds(h)
  <2>1. player'.entries = Rest /\ player'.loading = player.loading
    BY <1>1, <1>5 DEF TrackEnds, Players
  <2>2. UNCHANGED <<queue, timers, block>>
    BY <1>5 DEF TrackEnds, account, memory
  <2>3. QED
    BY <2>1, <2>2, RestIsBuffered DEF Lessens
<1>6. CASE TrackFails(h)
  <2>1. player'.entries \in {player.entries, Rest}
    BY <1>1, <1>6 DEF TrackFails, Players
  <2>2. ~NoErrors /\ UNCHANGED <<queue, timers, block>>
    BY <1>6 DEF TrackFails, Arrive, NoErrors, account, memory
  <2>3. QED
    BY <2>1, <2>2, RestIsBuffered DEF Lessens
<1>7. QED
  BY <1>2, <1>3, <1>4, <1>5, <1>6 DEF Arrival

\* Neither does a handler that goes on, unless it edits or replaces the queue
\* or makes a pick.
LEMMA ResumeLessens ==
  ASSUME Undisturbed, PlaybackTypes, QuietInv, NEW h \in Handlers, Resume(h)
  PROVE  Lessens \/ EditQueue(h) \/ ReplaceStep(h) \/ BlockQueue(h) \/ BlockIndex(h)
<1>1. player \in Players /\ online /\ QueueTypes /\ block \in [Handlers -> Blocks]
  BY DEF PlaybackTypes, PlayerTypes, QuietInv, Steady, BlockTypes
<1>2. CASE LoadPatch(h) \/ PlaceCurrentStep(h) \/ CurrentQueue(h) \/ CurrentIndex(h)
           \/ ItemQueue(h) \/ ItemIndex(h) \/ ParkState(h) \/ ParkPatch(h)
  BY <1>2, LessensNothing
     DEF LoadPatch, PlaceCurrentStep, CurrentQueue, CurrentIndex, ItemQueue, ItemIndex, ParkState,
         ParkPatch, account, memory, prefetch
<1>3. CASE NextState(h) \/ NextQueue(h) \/ NextIndex(h) \/ SetIndexStep(h) \/ PrevIndex(h) \/ PrevSet(h)
  BY <1>3, LessensNothing
     DEF NextState, NextQueue, NextIndex, SetIndexStep, PrevIndex, PrevSet, account, memory, prefetch
<1>4. CASE Eof(h) \/ AdoptQueue(h) \/ AdoptSet(h) \/ AdoptPatch(h) \/ Error(h) \/ RetryState(h)
           \/ ReportState(h) \/ ReportQueue(h) \/ ReportPatch(h)
  BY <1>4, LessensNothing
     DEF Eof, AdoptQueue, AdoptSet, AdoptPatch, Error, RetryState, ReportState, ReportQueue,
         ReportPatch, account, memory, prefetch
<1>5. CASE SendLoad(h)
  <2>1. player' = ToLoad(frame[h].track) /\ UNCHANGED <<queue, timers, block>> /\ frame[h].at = "load"
    BY <1>1, <1>5 DEF SendLoad, At, Send, account, memory
  <2>2. player'.entries = player.entries /\ player'.loading = frame[h].track
    BY <1>1, <2>1 DEF ToLoad, Players
  <2>3. frame[h].track # NoTrack
    BY <2>1, Standing, Known DEF Heading, Heads
  <2>4. QED
    BY <2>1, <2>2, <2>3 DEF Lessens
<1>6. CASE LoadTail(h) \/ AdoptTail(h) \/ InvalidateState(h)
  <2>1. /\ UNCHANGED <<queue, player>>
        /\ UNCHANGED <<timers, block>> \/ \E t : SchedulePrefetch(h, t)
    BY <1>6 DEF LoadTail, AdoptTail, InvalidateState, account, prefetch
  <2>2. ASSUME NEW t, SchedulePrefetch(h, t)
        PROVE  Lessens
    <3>1. block' = [block EXCEPT ![h] = [NoBlock EXCEPT !.at = "state", !.track = t]] /\ ClearTimer
      BY <2>2 DEF SchedulePrefetch
    <3>2. block'[h].at = "state" /\ \A g \in Handlers : g # h => block'[g] = block[g]
      BY <1>1, <3>1 DEF NoBlock
    <3>3. QED
      BY <2>1, <3>1, <3>2 DEF Lessens, ClearTimer
  <2>3. QED
    BY <2>1, <2>2, LessensNothing
<1>7. CASE Ensure(h)
  <2>1. UNCHANGED <<player, timers, block>> /\ \E seed : queue' \in Refilled(seed)
    BY <1>7 DEF Ensure, memory
  <2>2. queue' = queue \/ \E x \in Recommended : queue' = Append(queue, NewItem(fresh, x))
    <3>1. PICK seed : queue' \in Refilled(seed)
      BY <2>1
    <3>2. QED
      BY <3>1 DEF Refilled
  <2>3. \A x \in Recommended : NewItem(fresh, x) \in Item
    BY <1>1 DEF QueueTypes, NewItem, Item, AnyTrack
  <2>4. TracksOf(queue) \subseteq TracksOf(queue')
    BY <1>1, <2>2, <2>3, MoreTracks DEF QueueTypes
  <2>5. QED
    BY <2>1, <2>4 DEF Lessens
<1>8. CASE InsertStep(h)
  <2> DEFINE e == NewItem(fresh, frame[h].track)
             n == Lesser(cursor, Len(queue)) + 1
  <2>1. /\ UNCHANGED <<player, timers, block>> /\ frame[h].at = "insert"
        /\ queue' = InsertAt(queue, n, e)
    BY <1>8 DEF InsertStep, At, InsertAtCurrent, Ok, prefetch
  <2>2. frame[h].track \in AnyTrack
    BY <2>1 DEF PlaybackTypes, FrameTypes, FrameOf
  <2>3. e \in Item
    BY <1>1, <2>2 DEF QueueTypes, NewItem, Item
  <2>4. n \in 1 .. Len(queue) + 1
    BY <1>1 DEF QueueTypes, Lesser
  <2> HIDE DEF e, n
  <2>5. TracksOf(queue) \subseteq TracksOf(queue')
    BY <1>1, <2>1, <2>3, <2>4, MoreTracks DEF QueueTypes
  <2>6. QED
    BY <2>1, <2>5 DEF Lessens
<1>9. CASE AdvanceStep(h)
  <2>1. UNCHANGED <<queue, timers, block>> /\ player' \in {player, ToStop}
    BY <1>1, <1>9 DEF AdvanceStep, Send, prefetch
  <2>2. CASE player' = ToStop
    <3>1. player'.entries = <<>>
      BY <1>1, <2>2 DEF ToStop, ToDropEntries, Players
    <3>2. QED
      BY <2>1, <3>1 DEF Lessens, ToSet
  <2>3. QED
    BY <2>1, <2>2, LessensNothing
<1>10. CASE Invalidate(h)
  <2>1. UNCHANGED <<queue, block>> /\ ClearTimer /\ player' = ToDropEntries
    BY <1>1, <1>10 DEF Invalidate, Send, account
  <2>2. player'.entries = <<>>
    BY <1>1, <2>1 DEF ToDropEntries, Players
  <2>3. QED
    BY <2>1, <2>2 DEF Lessens, ClearTimer, ToSet
<1>11. CASE BlockState(h)
  <2>1. UNCHANGED <<queue, player, timers>>
    BY <1>11 DEF BlockState, account, memory
  <2>2. /\ block'[h].at \in {"queue", "none"}
        /\ \A g \in Handlers : g # h => block'[g] = block[g]
    BY <1>1, <1>11 DEF BlockState, EndBlock, NoBlock, Blocks
  <2>3. QED
    BY <2>1, <2>2 DEF Lessens
<1>12. QED
  BY <1>2, <1>3, <1>4, <1>5, <1>6, <1>7, <1>8, <1>9, <1>10, <1>11 DEF Resume


\* The step of a handler that stands where the player is to be told.
LEMMA StaleResumes ==
  ASSUME NEW h \in Handlers, Resume(h), block[h].at = "none"
  PROVE  /\ frame[h].at = "invalidate" => Invalidate(h)
         /\ frame[h].at = "current" => CurrentQueue(h)
         /\ frame[h].at = "currentIndex" => CurrentIndex(h)
         /\ frame[h].at = "load" => SendLoad(h)
         /\ frame[h].at = "loadPatch" => LoadPatch(h)
         /\ frame[h].at = "loadTail" => LoadTail(h)
<1>1. ~(BlockState(h) \/ BlockQueue(h) \/ BlockIndex(h))
  BY DEF BlockState, BlockQueue, BlockIndex
<1>2. QED
  BY <1>1, Zenon
     DEF Resume, At, SendLoad, LoadPatch, LoadTail, Ensure, PlaceCurrentStep, InsertStep,
         ReplaceStep, CurrentQueue, CurrentIndex, ItemQueue, ItemIndex, ParkState, ParkPatch,
         NextState, NextQueue, NextIndex, SetIndexStep, AdvanceStep, PrevIndex, PrevSet,
         Eof, AdoptQueue, AdoptSet, AdoptPatch, AdoptTail, Error, RetryState, ReportState,
         ReportQueue, ReportPatch, EditQueue, Invalidate, InvalidateState

\* It tells the player, or comes nearer to it.
LEMMA StaleEnds ==
  ASSUME Undisturbed, PlaybackTypes, QuietInv, NEW h \in Handlers, Stale(h), Resume(h)
  PROVE  Stale(h)' \/ Buffers'
<1>1. /\ player \in Players /\ online /\ QueueTypes /\ block \in [Handlers -> Blocks]
      /\ OneHandler /\ Steady /\ Settled(h)
  BY DEF PlaybackTypes, PlayerTypes, QuietInv, Steady, BlockTypes, Undisturbed
<1>2. block[h].at = "none"
  BY <1>1 DEF Settled, Stale, Replacing
<1>3. frame[h].at # "patching"
  BY <1>2, Zenon
     DEF Resume, At, SendLoad, LoadPatch, LoadTail, Ensure, PlaceCurrentStep, InsertStep,
         ReplaceStep, CurrentQueue, CurrentIndex, ItemQueue, ItemIndex, ParkState, ParkPatch,
         NextState, NextQueue, NextIndex, SetIndexStep, AdvanceStep, PrevIndex, PrevSet,
         Eof, AdoptQueue, AdoptSet, AdoptPatch, AdoptTail, Error, RetryState, ReportState,
         ReportQueue, ReportPatch, EditQueue, Invalidate, InvalidateState,
         BlockState, BlockQueue, BlockIndex
<1>4. chain = <<>> /\ Ahead(h) = frame[h].at
  BY <1>3, Standing
<1>5. CASE frame[h].at = "invalidate"
  <2>1. Invalidate(h)
    BY <1>2, <1>5, StaleResumes
  <2>2. /\ ClearTimer /\ pending' = NoTrack /\ player' = ToDropEntries
        /\ UNCHANGED <<online, queue, cursor, block>>
    BY <1>1, <2>1 DEF Invalidate, Send, account
  <2>3. timers' = {} /\ player'.entries = <<>>
    BY <1>1, <2>2, SteadyClears DEF ToDropEntries, Players
  <2>4. \A g \in Handlers : block'[g].at = "none"
    BY <1>1, <1>2, <2>2 DEF OneHandler
  <2>5. QED
    BY <2>3, <2>4 DEF Buffers, ToSet
<1>6. CASE frame[h].at # "invalidate"
  <2>1. NoErrors
    BY <1>4, <1>6 DEF Stale, Replacing
  <2>2. ASSUME chain' = <<>>, frame'[h].at \in {"load", "loadPatch"}
        PROVE  Stale(h)'
    BY <2>1, <2>2 DEF Stale, Replacing, Ahead, NoErrors
  <2>3. CASE frame[h].at = "current"
    <3>1. CurrentQueue(h) /\ cursor < Len(queue)
      BY <1>2, <1>4, <2>3, StaleResumes DEF Stale, Replacing
    <3>2. /\ GoWith(h, [frame[h] EXCEPT !.at = "currentIndex", !.q = queue])
          /\ UNCHANGED <<queue, cursor, chain>>
      BY <3>1 DEF CurrentQueue, account, state
    <3>3. frame'[h] = [frame[h] EXCEPT !.at = "currentIndex", !.q = queue]
      BY <3>2, HandlerMoves, Zenon
    <3>4. frame'[h].at = "currentIndex"
      BY <3>3 DEF PlaybackTypes, FrameTypes, Frames
    <3>5. QED
      BY <1>4, <2>1, <3>1, <3>2, <3>4 DEF Stale, Replacing, Ahead, NoErrors
  <2>4. CASE frame[h].at = "currentIndex"
    <3>1. CurrentIndex(h) /\ cursor < Len(queue) /\ frame[h].q = queue
      BY <1>2, <1>4, <2>4, StaleResumes, Known DEF Stale, Replacing, Heading, Heads
    <3>2. cursor + 1 \in 1 .. Len(queue) /\ (cursor + 1) - 1 = cursor
      BY <3>1, Held
    <3>3. ItemAt(queue, cursor) # NoItem
      BY <3>2, Held
    <3>4. UNCHANGED chain /\ \E t : GoWith(h, Loading(h, t, FALSE))
      BY <3>1, <3>3 DEF CurrentIndex, state, StartLoad
    <3>5. PICK t : frame'[h] = Loading(h, t, FALSE)
      BY <3>4, HandlerMoves
    <3>6. frame'[h].at = "load"
      BY <3>5 DEF Loading, PlaybackTypes, FrameTypes, Frames
    <3>7. QED
      BY <1>4, <2>2, <3>4, <3>6
  <2>5. CASE frame[h].at = "load"
    <3>1. Go(h, "loadPatch") /\ UNCHANGED chain
      BY <1>1, <1>2, <2>5, StaleResumes DEF SendLoad, state
    <3>2. QED
      BY <1>4, <2>2, <3>1, HandlerMoves
  <2>6. CASE frame[h].at = "loadPatch"
    <3>1. Patch(h, [state |-> "playing", track |-> frame[h].track], "loadTail") /\ UNCHANGED st
          /\ block' = block
      BY <1>2, <2>6, StaleResumes DEF LoadPatch
    <3>2. Ahead(h)' = "loadTail"
      BY <1>2, <1>4, <3>1, PatchWaits
    <3>3. QED
      BY <2>1, <3>2 DEF Stale, Replacing, NoErrors
  <2>7. CASE frame[h].at = "loadTail"
    <3>1. LoadTail(h)
      BY <1>2, <2>7, StaleResumes
    <3>2. player.loading # NoTrack
      BY <1>4, <2>7, Known DEF Arriving, Loads
    <3>3. ClearTimer /\ pending' = NoTrack /\ UNCHANGED <<online, queue, cursor, player>>
      BY <3>1 DEF LoadTail, SchedulePrefetch, account
    <3>4. timers' = {}
      BY <1>1, <3>3, SteadyClears
    <3>5. block'[h].at = "state"
      BY <1>1, <3>1 DEF LoadTail, SchedulePrefetch, NoBlock
    <3>6. \A g \in Handlers : block'[g].at = "state"
      BY <1>1, <3>5 DEF OneHandler
    <3>7. QED
      BY <2>1, <3>2, <3>3, <3>4, <3>6 DEF Buffers, NoErrors
  <2>8. QED
    BY <1>4, <1>6, <2>3, <2>4, <2>5, <2>6, <2>7 DEF Stale, Replacing
<1>7. QED
  BY <1>5, <1>6

\* An edit and a replacement leave what is buffered stale.
LEMMA StaleBegins ==
  ASSUME Undisturbed, Replaceable, PlaybackTypes, QuietInv, NEW h \in Handlers,
         EditQueue(h) \/ ReplaceStep(h)
  PROVE  Stale(h)'
<1>1. CASE EditQueue(h)
  <2>1. frame[h].at = "edit" /\ Go(h, "invalidate") /\ UNCHANGED chain
    BY <1>1 DEF EditQueue, At, state
  <2>2. chain = <<>> /\ frame'[h].at = "invalidate"
    BY <2>1, Standing, HandlerMoves
  <2>3. QED
    BY <2>1, <2>2 DEF Stale, Ahead
<1>2. CASE ReplaceStep(h)
  <2>1. frame[h].at = "replace" /\ Go(h, "current") /\ UNCHANGED chain
    BY <1>2 DEF ReplaceStep, At, state
  <2>2. chain = <<>> /\ Ahead(h) = "replace" /\ frame'[h].at = "current"
    BY <2>1, Standing, HandlerMoves
  <2>3. NoErrors
    BY <2>2, Known DEF Heading, Heads, Replaceable
  <2>4. cursor' < Len(queue')
    BY <1>2, ReplaceShape DEF PlaybackTypes
  <2>5. QED
    BY <2>1, <2>2, <2>3, <2>4 DEF Stale, Replacing, Ahead, NoErrors
<1>3. QED
  BY <1>1, <1>2

\* A pick is an item of the queue, which only grows while the pick is made.
LEMMA PicksAreQueued ==
  ASSUME Undisturbed, PlaybackTypes, QuietInv, Buffers, NEW h \in Handlers,
         BlockQueue(h) \/ BlockIndex(h)
  PROVE  Buffers'
<1>1. OneHandler /\ block \in [Handlers -> Blocks] /\ cursor \in Nat
  BY DEF Undisturbed, PlaybackTypes, BlockTypes, QueueTypes
<1>2. CASE BlockQueue(h)
  <2>1. UNCHANGED <<queue, player, timers>>
    BY <1>2 DEF BlockQueue, account, memory
  <2>2. block'[h].q = queue
    BY <1>1, <1>2 DEF BlockQueue, Blocks
  <2>3. \A g \in Handlers : block'[g].q = queue
    BY <1>1, <2>2 DEF OneHandler
  <2>4. QED
    BY <2>1, <2>3 DEF Buffers, NoErrors, TracksOf
<1>3. CASE BlockIndex(h)
  <2> DEFINE blk == block[h]
  <2>1. /\ UNCHANGED <<queue, player>> /\ blk.at = "index"
        /\ block' = [block EXCEPT ![h] = NoBlock]
        /\ \/ timers' = timers
           \/ \E k \in Picks(blk.q, cursor, blk.s) : \E n : timers' = timers \cup {[id |-> n, track |-> blk.q[k + 1].track]}
    BY <1>3 DEF BlockIndex, EndBlock, account
  <2>2. \A g \in Handlers : block'[g].at = "none"
    BY <1>1, <2>1 DEF OneHandler, NoBlock
  <2>3. blk.q \in Seq(Item)
    BY <1>1 DEF Blocks
  <2>4. ASSUME NEW k \in Picks(blk.q, cursor, blk.s)
        PROVE  blk.q[k + 1].track \in TracksOf(queue)
    <3>1. k + 1 \in 1 .. Len(blk.q)
      BY <1>1, <2>3, <2>4, JumpsArePositions DEF Picks
    <3>2. k + 1 \in DOMAIN blk.q
      BY <2>3, <3>1
    <3>3. blk.q[k + 1].track \in TracksOf(blk.q)
      BY <3>2 DEF TracksOf
    <3>4. QED
      BY <2>1, <3>3 DEF Buffers
  <2>5. \A t \in timers' : t.track \in TracksOf(queue)
    BY <2>1, <2>4 DEF Buffers
  <2>6. QED
    BY <2>1, <2>2, <2>5, Zenon DEF Buffers, NoErrors, TracksOf
<1>4. QED
  BY <1>2, <1>3

\* The timer, the player and time.
LEMMA BufferOutside ==
  ASSUME Undisturbed, PlaybackTypes, QuietInv, BufferInv,
         ApplyPatch \/ TimerFires \/ PlayerStarts \/ Age \/ Disconnect \/ UNCHANGED vars
  PROVE  BufferInv'
<1>1. SUFFICES ASSUME NEW h \in Handlers
               PROVE  Stale(h)' \/ Buffers'
  BY DEF BufferInv
<1>2. Stale(h) \/ Buffers
  BY DEF BufferInv
<1>3. ASSUME Ahead(h)' = Ahead(h), UNCHANGED <<queue, cursor>>, Stale(h)
      PROVE  Stale(h)'
  BY <1>3 DEF Stale, Replacing, NoErrors
<1>4. CASE ApplyPatch
  <2>1. Ahead(h)' = Ahead(h)
    BY <1>4, PatchGoesOn
  <2>2. UNCHANGED <<queue, cursor, player, timers, block>>
    BY <1>4 DEF ApplyPatch, account, memory
  <2>3. QED
    BY <1>2, <1>3, <2>1, <2>2, LessensNothing, LessensKeeps
<1>5. CASE TimerFires
  <2>1. PICK t \in timers : timers' = timers \ {t} /\ player' = ToAppend(t.track)
    BY <1>5 DEF TimerFires, Send, QuietInv, Steady
  <2>2. UNCHANGED <<queue, cursor, chain, frame, block>>
    BY <1>5 DEF TimerFires, account, state
  <2>3. Ahead(h)' = Ahead(h)
    BY <2>2 DEF Ahead
  <2>4. player.entries \in Seq(AnyTrack) /\ t.track \in AnyTrack
    BY DEF PlaybackTypes, PlayerTypes, Players, MemoryTypes
  <2>5. player'.entries = Append(player.entries, t.track) /\ player'.loading = player.loading
    BY <2>1 DEF ToAppend, PlaybackTypes, PlayerTypes, Players
  <2>6. ToSet(player'.entries) \subseteq ToSet(player.entries) \cup {t.track}
    <3> DEFINE s == player.entries
               r == Append(s, t.track)
    <3>1. \A k \in DOMAIN r : (k \in DOMAIN s /\ r[k] = s[k]) \/ r[k] = t.track
      BY <2>4
    <3> HIDE DEF r
    <3>2. ToSet(r) \subseteq ToSet(s) \cup {t.track}
      BY <3>1, Zenon DEF ToSet
    <3>3. QED
      BY <2>5, <3>2 DEF r
  <2>7. ASSUME Buffers
        PROVE  Buffers'
    <3>1. t.track \in TracksOf(queue)
      BY <2>7 DEF Buffers
    <3>2. player'.loading = NoTrack \/ ~NoErrors => ToSet(player'.entries) \subseteq TracksOf(queue)
      BY <2>5, <2>6, <2>7, <3>1 DEF Buffers
    <3>3. \A u \in timers' : u.track \in TracksOf(queue)
      BY <2>1, <2>7 DEF Buffers
    <3>4. \A g \in Handlers : block'[g].at = "index" => TracksOf(block'[g].q) \subseteq TracksOf(queue)
      BY <2>2, <2>7 DEF Buffers
    <3>5. QED
      BY <2>2, <3>2, <3>3, <3>4, Zenon DEF Buffers, NoErrors, TracksOf
  <2>8. QED
    BY <1>2, <1>3, <2>2, <2>3, <2>7
<1>6. CASE PlayerStarts
  <2>1. At(h, "idle") /\ UNCHANGED <<queue, timers, block>> /\ player'.entries = <<>>
    BY <1>6 DEF PlayerStarts, Undisturbed, account, memory
  <2>2. Ahead(h) = "idle"
    BY <2>1, Standing DEF At
  <2>3. Buffers
    BY <1>2, <2>2 DEF Stale, Replacing
  <2>4. QED
    BY <2>1, <2>3, LessensKeeps DEF Lessens, ToSet
<1>7. CASE Age \/ Disconnect \/ UNCHANGED vars
  <2>1. UNCHANGED <<queue, cursor, player, timers, block, chain, frame>>
    BY <1>7 DEF Age, Disconnect, Undisturbed, account, prefetch, state, vars
  <2>2. Ahead(h)' = Ahead(h)
    BY <2>1 DEF Ahead
  <2>3. QED
    BY <1>2, <1>3, <2>1, <2>2, LessensNothing, LessensKeeps
<1>8. QED
  BY <1>4, <1>5, <1>6, <1>7

LEMMA BufferStep ==
  ASSUME Undisturbed, Replaceable, PlaybackTypes, QuietInv, BufferInv, [Next]_vars
  PROVE  BufferInv'
<1>1. ASSUME NEW h \in Handlers, Arrival(h) \/ Resume(h)
      PROVE  BufferInv'
  <2>1. Stale(h) \/ Buffers
    BY DEF BufferInv
  <2>2. CASE Arrival(h)
    <3>1. At(h, "idle")
      BY <2>2 DEF Arrival, Play, NextCommand, Previous, PlayTracks, Edit, PlayItem, Grace, Command,
                  Mode, Stop, Transport, TrackEnds, TrackFails, Report, Arrive
    <3>2. Buffers
      BY <2>1, <3>1, Standing DEF At, Stale, Replacing
    <3>3. QED
      BY <2>2, <3>2, ArrivalLessens, LessensKeeps DEF BufferInv
  <2>3. CASE Resume(h)
    <3>1. Stale(h)' \/ Buffers'
      BY <2>1, <2>3, ResumeLessens, LessensKeeps, StaleEnds, StaleBegins, PicksAreQueued
    <3>2. QED
      BY <3>1 DEF BufferInv, Undisturbed, OneHandler
  <2>4. QED
    BY <1>1, <2>2, <2>3
<1>2. QED
  BY <1>1, BufferOutside DEF Next

-----------------------------------------------------------------------------
(***************************************************************************)
(* The theorems.                                                           *)
(***************************************************************************)
LEMMA QuietAlways ==
  ASSUME Undisturbed
  PROVE  Spec => [](PlaybackTypes /\ QuietInv)
<1>1. Init => PlaybackTypes /\ QuietInv
  BY PlaybackTypesInit, QuietInit
<1>2. PlaybackTypes /\ QuietInv /\ [Next]_vars => (PlaybackTypes /\ QuietInv)'
  BY PlaybackTypesNext, QuietStep
<1>3. QED
  BY <1>1, <1>2, PTL DEF Spec

\* When no handler runs, all of them are at rest.
LEMMA QuietRests ==
  ASSUME QuietInv, Quiet, NEW h \in Handlers
  PROVE  Rests(h) /\ Soon = st /\ block[h].at = "none"
<1>1. frame[h].at = "idle" /\ block[h].at = "none"
  BY DEF Quiet, At
<1>2. Ahead(h) = "idle" /\ Soon = st
  BY <1>1, Standing
<1>3. QED
  BY <1>1, <1>2, Known DEF Resting

\* With nothing from outside, the pick the server holds is what mpv goes on to
\* (pendingNext and mpv's playlist), whatever fails and however the commands
\* follow each other: a natural end adopts the track that is heard.
THEOREM PicksAreBuffered ==
  ASSUME Undisturbed, Handlers # {}
  PROVE  Spec => []PendingIsBuffered
<1>1. ASSUME PlaybackTypes, QuietInv
      PROVE  PendingIsBuffered
  <2>1. SUFFICES ASSUME Quiet, Wanted # NoTrack, pending # NoTrack
                 PROVE  player.entries # <<>> /\ player.entries[1] = pending
    BY DEF PendingIsBuffered
  <2>2. PICK h \in Handlers : TRUE
    OBVIOUS
  <2>3. Rests(h)
    BY <1>1, <2>1, QuietRests
  <2>4. player.entries = <<pending>>
    BY <2>1, <2>3 DEF Rests, Untouched, Followed, NoErrors, Plays, Wanted
  <2>5. QED
    BY <2>4
<1>2. QED
  BY <1>1, QuietAlways, PTL

\* With nothing from outside, mpv goes on to tracks of the queue only: an edit
\* takes the tracks it removes out of mpv's playlist, out of the timer and out
\* of the pick (invalidatePrefetch), as long as playTracks, which leaves that
\* to its load, and loads that fail do not come together.
THEOREM RemovedAreNotBuffered ==
  ASSUME Undisturbed, Replaceable, Handlers # {}
  PROVE  Spec => []BufferedIsQueued
<1>1. Init => BufferInv
  <2>1. Init => Buffers
    BY DEF Init, Buffers, ToSet, NoBlock
  <2>2. QED
    BY <2>1 DEF BufferInv
<1>2. PlaybackTypes /\ QuietInv /\ BufferInv /\ [Next]_vars => BufferInv'
  BY BufferStep
<1>3. ASSUME PlaybackTypes, QuietInv, BufferInv
      PROVE  BufferedIsQueued
  <2>1. SUFFICES ASSUME Quiet, player.loading = NoTrack
                 PROVE  ToSet(player.entries) \subseteq TracksOf(queue)
    BY DEF BufferedIsQueued
  <2>2. PICK h \in Handlers : TRUE
    OBVIOUS
  <2>3. Ahead(h) = "idle"
    BY <1>3, <2>1, Standing DEF Quiet, At
  <2>4. Buffers
    BY <1>3, <2>3 DEF BufferInv, Stale, Replacing
  <2>5. QED
    BY <2>1, <2>4 DEF Buffers
<1>4. QED
  BY <1>1, <1>2, <1>3, QuietAlways, PTL DEF Spec

\* With nothing from outside, retryTrack reloads the track that failed: the
\* device state, from which it takes the track, still names it.
THEOREM FailureIsReloaded ==
  ASSUME Undisturbed
  PROVE  Spec => RetriesSameTrack
<1> DEFINE Reload(h) == At(h, "retryState") /\ frame'[h].at = "load" /\ st.state = "playing" =>
                          frame'[h].track = frame[h].track
<1>1. ASSUME PlaybackTypes, QuietInv, Next
      PROVE  \A h \in Handlers : Reload(h)
  <2>1. SUFFICES ASSUME NEW h \in Handlers, frame[h].at = "retryState", frame'[h].at = "load",
                        st.state = "playing"
                 PROVE  frame'[h].track = frame[h].track
    BY DEF At
  <2>2. Ahead(h) = "retryState" /\ Soon = st /\ block[h].at = "none" /\ chain = <<>>
    BY <1>1, <2>1, Standing
  <2>3. st.track = frame[h].track
    BY <1>1, <2>1, <2>2, Known DEF Failing, Fails
  <2>4. frame' # frame
    BY <2>1, Zenon
  <2>5. RetryState(h)
    <3>1. PICK g \in Handlers : Arrival(g) \/ Resume(g)
      BY <1>1, <2>2, <2>4 DEF Next, ApplyPatch, TimerFires, Age, PlayerStarts, Disconnect
    <3>2. g = h
      BY DEF Undisturbed, OneHandler
    <3>3. ~Arrival(h)
      BY <2>1 DEF Arrival, Play, NextCommand, Previous, PlayTracks, Edit, PlayItem, Grace, Command,
                  Mode, Stop, Transport, TrackEnds, TrackFails, Report, Arrive, At
    <3>4. ~(BlockState(h) \/ BlockQueue(h) \/ BlockIndex(h))
      BY <2>2 DEF BlockState, BlockQueue, BlockIndex
    <3>5. QED
      BY <2>1, <3>1, <3>2, <3>3, <3>4, Zenon
         DEF Resume, At, SendLoad, LoadPatch, LoadTail, Ensure, PlaceCurrentStep, InsertStep,
             ReplaceStep, CurrentQueue, CurrentIndex, ItemQueue, ItemIndex, ParkState, ParkPatch,
             NextState, NextQueue, NextIndex, SetIndexStep, AdvanceStep, PrevIndex, PrevSet,
             Eof, AdoptQueue, AdoptSet, AdoptPatch, AdoptTail, Error, ReportState, ReportQueue,
             ReportPatch, EditQueue, Invalidate, InvalidateState
  <2>6. \/ GoWith(h, Loading(h, st.track, TRUE))
        \/ Go(h, "nextState")
        \/ Patch(h, [state |-> "stopped"], "idle")
    BY <2>5 DEF RetryState
  <2>7. GoWith(h, Loading(h, st.track, TRUE))
    <3>1. ~Go(h, "nextState") /\ ~Go(h, "patching")
      BY <1>1, <2>1, HandlerMoves
    <3>2. QED
      BY <2>6, <3>1 DEF Patch
  <2>8. frame'[h] = Loading(h, st.track, TRUE)
    BY <1>1, <2>7, HandlerMoves
  <2>9. frame'[h].track = st.track
    BY <1>1, <2>8 DEF Loading, PlaybackTypes, FrameTypes, Frames
  <2>10. QED
    BY <2>3, <2>9
<1>2. ASSUME PlaybackTypes, QuietInv, [Next]_vars
      PROVE  [\A h \in Handlers : Reload(h)]_vars
  BY <1>1, <1>2
<1> HIDE DEF Reload
<1>3. Spec => [][\A h \in Handlers : Reload(h)]_vars
  BY <1>2, QuietAlways, PTL DEF Spec
<1>4. QED
  BY <1>3 DEF RetriesSameTrack, Reload

\* With nothing from outside and no failures, the device state in Redis tells
\* what the player does: its track, that it is silent, and that it is paused.
THEOREM StateTellsPlayer ==
  ASSUME Undisturbed, NoErrors, Handlers # {}
  PROVE  Spec => []StateMatchesPlayer
<1>1. ASSUME PlaybackTypes, QuietInv
      PROVE  StateMatchesPlayer
  <2>1. SUFFICES ASSUME Quiet
                 PROVE  /\ st.state = "playing" /\ Wanted # NoTrack => st.track = Wanted
                        /\ st.state = "stopped" => Wanted = NoTrack
                        /\ player.status \in {"paused", "stopped"} => st.state # "playing"
    BY DEF StateMatchesPlayer
  <2>2. PICK h \in Handlers : TRUE
    OBVIOUS
  <2>3. Rests(h) /\ Soon = st
    BY <1>1, <2>1, QuietRests
  <2>4. QED
    BY <2>3 DEF Rests, Untouched
<1>2. QED
  BY <1>1, QuietAlways, PTL

\* With nothing from outside and no failures, the cursor stands on an item of
\* the track that is heard: advance() starts from it, and the UI marks it.
THEOREM CursorStandsOnLoaded ==
  ASSUME Undisturbed, GrowOnly, NoErrors, Handlers # {}
  PROVE  Spec => []CursorIsLoaded
<1>1. ASSUME PlaybackTypes, QuietInv
      PROVE  CursorIsLoaded
  <2>1. SUFFICES ASSUME Quiet, Wanted # NoTrack
                 PROVE  cursor + 1 \in DOMAIN queue /\ queue[cursor + 1].track = Wanted
    BY DEF CursorIsLoaded
  <2>2. PICK h \in Handlers : TRUE
    OBVIOUS
  <2>3. Stands(Wanted)
    BY <1>1, <2>1, QuietRests DEF Rests, Followed
  <2>4. cursor + 1 \in 1 .. Len(queue)
    BY <1>1, <2>2, <2>3, Held DEF Stands
  <2>5. QED
    BY <1>1, <2>2, <2>3, <2>4, Held DEF Stands
<1>2. QED
  BY <1>1, QuietAlways, PTL

=============================================================================
