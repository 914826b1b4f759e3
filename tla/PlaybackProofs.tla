--------------------------- MODULE PlaybackProofs ---------------------------
(***************************************************************************)
(* Theorems about Playback, for any number of handlers, commands, tracks   *)
(* and timers and for any retry limits.                                    *)
(***************************************************************************)
EXTENDS Playback, QueueOpsProofs

-----------------------------------------------------------------------------
(***************************************************************************)
(* The shape of the variables.                                             *)
(***************************************************************************)
Item == [id : Nat, track : AnyTrack, patched : BOOLEAN]
Repeats == {"off", "all", "one"}
DeviceStates == [state : States, track : OptTrack, shuffle : BOOLEAN, repeat : Repeats]
SeenStates == DeviceStates \cup [state : States]
Patches == [shuffle : BOOLEAN] \cup [repeat : Repeats] \cup [state : States]
             \cup [state : States, track : OptTrack]
Waiting == [by : Handlers, patch : Patches, next : {"idle", "loadTail", "adoptTail"}]
Frames == [at : Labels, s : SeenStates, q : Seq(Item), i : Nat, track : OptTrack,
           retry : BOOLEAN, feed : BOOLEAN]
Blocks == [at : {"none", "state", "queue", "index"}, s : SeenStates, q : Seq(Item),
           track : OptTrack]

\* The ids that the queue hands out are new, and no two items share one.
QueueTypes ==
  /\ queue \in Seq(Item)
  /\ cursor \in Nat
  /\ fresh \in Nat
  /\ \A k \in 1 .. Len(queue) : queue[k].id < fresh
  /\ \A j, k \in 1 .. Len(queue) : queue[j].id = queue[k].id => j = k

StateTypes == st \in DeviceStates /\ chain \in Seq(Waiting)

MemoryTypes ==
  /\ pending \in OptTrack
  /\ timers \subseteq [id : 1 .. MaxTimers, track : AnyTrack]
  /\ mapped \in 0 .. MaxTimers
  /\ retries \in [track : OptTrack, count : 0 .. MaxTrackRetries]
  /\ streak \in 0 .. MaxConsecutiveErrors - 1

Players == [now : OptTrack, entries : Seq(AnyTrack), loading : OptTrack,
            id : OptTrack, buffered : OptTrack, status : States]
PlayerTypes == player \in Players

\* A handler that is about to set the cursor chose a position of the queue it
\* read, and one that is about to place a track has a track.
FrameOf(f) ==
  /\ f \in Frames
  /\ f.at = "setIndex" => f.i < Len(f.q)
  /\ f.at \in {"place", "insert", "itemIndex"} => f.track \in AnyTrack

FrameTypes ==
  /\ frame \in [Handlers -> Frames]
  /\ \A h \in Handlers : FrameOf(frame[h])

BlockTypes == block \in [Handlers -> Blocks]

PlaybackTypes ==
  QueueTypes /\ StateTypes /\ MemoryTypes /\ PlayerTypes /\ FrameTypes /\ BlockTypes

\* What stands in a queue has a track.
LEMMA ItemsHaveTracks ==
  ASSUME NEW q \in Seq(Item)
  PROVE  /\ \A k \in DOMAIN q : k \in Nat \ {0} /\ q[k].track \in AnyTrack
         /\ \A i : ItemAt(q, i) # NoItem => ItemAt(q, i).track \in AnyTrack
<1>1. \A k \in DOMAIN q : k \in Nat \ {0} /\ q[k] \in Item
  OBVIOUS
<1>2. \A k \in DOMAIN q : q[k].track \in AnyTrack
  BY <1>1 DEF Item
<1>3. QED
  BY <1>1, <1>2 DEF ItemAt

-----------------------------------------------------------------------------
(***************************************************************************)
(* What the shared pieces of the handlers do to the types.                 *)
(***************************************************************************)

\* Labels at which nothing is known of a handler's locals.
Plain == Labels \ {"setIndex", "place", "insert", "itemIndex"}

LEMMA FrameMoves ==
  ASSUME FrameTypes, NEW h \in Handlers, NEW f, FrameOf(f), GoWith(h, f)
  PROVE  FrameTypes'
  BY DEF FrameTypes, FrameOf, GoWith

\* An idle frame has the shape of a frame.
LEMMA IdleIsFrame == FrameOf(Idle)
  BY DEF FrameOf, Frames, Idle, Labels, SeenStates, States, OptTrack

LEMMA DoneKeeps ==
  ASSUME FrameTypes, NEW h \in Handlers, Done(h)
  PROVE  FrameTypes'
  BY IdleIsFrame, FrameMoves DEF Done, GoWith

LEMMA GoKeeps ==
  ASSUME FrameTypes, NEW h \in Handlers, NEW l \in Plain, Go(h, l)
  PROVE  FrameTypes'
<1>1. FrameOf([frame[h] EXCEPT !.at = l])
  BY DEF FrameTypes, FrameOf, Frames, Plain
<1>2. GoWith(h, [frame[h] EXCEPT !.at = l])
  BY DEF Go, GoWith, FrameTypes
<1>3. QED
  BY <1>1, <1>2, FrameMoves

LEMMA LoadingIsFrame ==
  ASSUME FrameTypes, NEW h \in Handlers, NEW t \in OptTrack, NEW retry \in BOOLEAN
  PROVE  FrameOf(Loading(h, t, retry))
<1>1. frame[h] \in Frames /\ "load" \in Labels
  BY DEF FrameTypes, Labels
<1>2. Loading(h, t, retry) \in Frames
  BY <1>1 DEF Loading, Frames
<1>3. Loading(h, t, retry).at = "load"
  BY <1>1 DEF Loading, Frames
<1>4. QED
  BY <1>2, <1>3 DEF FrameOf

LEMMA LoadKeeps ==
  ASSUME FrameTypes, MemoryTypes, NEW h \in Handlers, NEW t \in OptTrack, StartLoad(h, t)
  PROVE  FrameTypes' /\ retries' \in [track : OptTrack, count : 0 .. MaxTrackRetries]
<1>1. FrameOf(Loading(h, t, FALSE))
  BY LoadingIsFrame
<1>2. NoRetries \in [track : OptTrack, count : 0 .. MaxTrackRetries]
  BY SettingsAreNumbers DEF NoRetries, OptTrack
<1>3. QED
  BY <1>1, <1>2, FrameMoves DEF StartLoad

LEMMA PatchKeeps ==
  ASSUME FrameTypes, StateTypes, NEW h \in Handlers, NEW patch \in Patches,
         NEW l \in {"idle", "loadTail", "adoptTail"}, Patch(h, patch, l)
  PROVE  FrameTypes' /\ chain' \in Seq(Waiting)
<1>1. Go(h, "patching") /\ chain' = Append(chain, [by |-> h, patch |-> patch, next |-> l])
  BY DEF Patch
<1>2. "patching" \in Plain
  BY DEF Plain, Labels
<1>3. [by |-> h, patch |-> patch, next |-> l] \in Waiting
  BY DEF Waiting
<1>4. QED
  BY <1>1, <1>2, <1>3, GoKeeps DEF StateTypes

LEMMA ClearKeeps ==
  ASSUME MemoryTypes, ClearTimer
  PROVE  timers' \subseteq [id : 1 .. MaxTimers, track : AnyTrack] /\ mapped' \in 0 .. MaxTimers
  BY BoundsAreNumbers DEF MemoryTypes, ClearTimer, NoTimer

LEMMA ScheduleKeeps ==
  ASSUME MemoryTypes, BlockTypes, NEW h \in Handlers, NEW t \in OptTrack, SchedulePrefetch(h, t)
  PROVE  /\ timers' \subseteq [id : 1 .. MaxTimers, track : AnyTrack]
         /\ mapped' \in 0 .. MaxTimers
         /\ pending' \in OptTrack
         /\ BlockTypes'
<1>1. NoBlock \in Blocks
  BY DEF NoBlock, Blocks, SeenStates, States, OptTrack
<1>2. [NoBlock EXCEPT !.at = "state", !.track = t] \in Blocks
  BY <1>1 DEF Blocks
<1>3. QED
  BY <1>2, ClearKeeps DEF SchedulePrefetch, BlockTypes, OptTrack

\* Every command leaves the agent's record in shape.
LEMMA SendKeeps ==
  ASSUME PlayerTypes, NEW p, Send(p),
         p \in {ToDropEntries, ToStop} \cup {ToLoad(t) : t \in OptTrack}
                 \cup {ToAppend(t) : t \in AnyTrack}
  PROVE  PlayerTypes'
<1>1. NoTrack \in OptTrack /\ AnyTrack \subseteq OptTrack /\ <<>> \in Seq(AnyTrack)
  BY DEF OptTrack
<1>2. ASSUME NEW r \in Players
      PROVE  [r EXCEPT !.entries = <<>>, !.buffered = NoTrack] \in Players
  BY <1>1 DEF Players
<1>3. ToDropEntries \in Players
  BY <1>2 DEF PlayerTypes, ToDropEntries
<1>4. ToStop \in Players
  BY <1>1, <1>3 DEF ToStop, States, Players
<1>5. ASSUME NEW t \in OptTrack
      PROVE  ToLoad(t) \in Players
  BY DEF PlayerTypes, ToLoad, States, Players
<1>6. ASSUME NEW t \in AnyTrack
      PROVE  ToAppend(t) \in Players
  <2>1. Append(player.entries, t) \in Seq(AnyTrack)
    BY DEF PlayerTypes, Players
  <2>2. QED
    BY <1>1, <2>1 DEF PlayerTypes, ToAppend, Players
<1>7. QED
  BY <1>3, <1>4, <1>5, <1>6 DEF PlayerTypes, Send

\* What a step leaves alone keeps its shape.
LEMMA SameKeeps ==
  /\ QueueTypes /\ UNCHANGED account => QueueTypes'
  /\ StateTypes /\ UNCHANGED state => StateTypes'
  /\ MemoryTypes /\ UNCHANGED memory => MemoryTypes'
  /\ PlayerTypes /\ UNCHANGED player => PlayerTypes'
  /\ FrameTypes /\ UNCHANGED frame => FrameTypes'
  /\ BlockTypes /\ UNCHANGED block => BlockTypes'
<1>1. QueueTypes /\ UNCHANGED account => QueueTypes'
  BY DEF QueueTypes, account
<1>2. StateTypes /\ UNCHANGED state => StateTypes'
  BY DEF StateTypes, state
<1>3. MemoryTypes /\ UNCHANGED memory => MemoryTypes'
  BY DEF MemoryTypes, memory
<1>4. QED
  BY <1>1, <1>2, <1>3 DEF PlayerTypes, FrameTypes, BlockTypes

\* What mpv goes on to is a track, if anything.
LEMMA GoesOnTyped ==
  ASSUME PlayerTypes
  PROVE  EntryUp \in OptTrack /\ Rest \in Seq(AnyTrack) /\ NoTrack \in OptTrack
  BY DEF PlayerTypes, Players, EntryUp, Rest, OptTrack

\* The first step of a handler.
LEMMA ArrivalTypes ==
  ASSUME PlaybackTypes, NEW h \in Handlers, Arrival(h)
  PROVE  PlaybackTypes'
<1> USE DEF PlaybackTypes
<1>0. Labels \ {"setIndex", "place", "insert", "itemIndex"} = Plain
  BY DEF Plain
<1>1. ASSUME NEW kind, NEW l \in Plain, Command(h, kind, l)
      PROVE  PlaybackTypes'
  BY <1>1, GoKeeps, SameKeeps DEF Command
<1>2. CASE Play(h)
  <2>1. PICK t \in Tracks : GoWith(h, [Idle EXCEPT !.at = "place", !.track = t])
    BY <1>2 DEF Play
  <2>2. FrameOf([Idle EXCEPT !.at = "place", !.track = t])
    BY IdleIsFrame DEF FrameOf, Frames, Labels, OptTrack, AnyTrack, Idle
  <2>3. QED
    BY <1>2, <2>1, <2>2, FrameMoves, SameKeeps DEF Play
<1>3. CASE NextCommand(h) \/ Previous(h) \/ PlayTracks(h) \/ Edit(h) \/ PlayItem(h) \/ Grace(h)
  BY <1>1, <1>3 DEF NextCommand, Previous, PlayTracks, Edit, PlayItem, Grace, Plain, Labels
<1>4. CASE Mode(h)
  <2>1. PICK patch \in Patches : Patch(h, patch, "idle")
    BY <1>4 DEF Mode, Patches, Repeats
  <2>2. st' = st
    BY <1>4 DEF Mode
  <2>3. QED
    BY <1>4, <2>1, <2>2, PatchKeeps, SameKeeps DEF Mode, StateTypes
<1>5. CASE Stop(h)
  <2>1. [state |-> "stopped"] \in Patches
    BY DEF Patches, States
  <2>2. FrameTypes' /\ StateTypes'
    BY <1>5, <2>1, PatchKeeps, DoneKeeps DEF Stop, StateTypes
  <2>3. MemoryTypes'
    BY <1>5, ClearKeeps DEF Stop, MemoryTypes, OptTrack
  <2>4. PlayerTypes'
    BY <1>5, SendKeeps DEF Stop
  <2>5. QED
    BY <1>5, <2>2, <2>3, <2>4, SameKeeps DEF Stop
<1>6. CASE Transport(h)
  <2>1. PICK s \in {"paused", "playing"} :
          player' = [player EXCEPT !.status = s] /\ Patch(h, [state |-> s], "idle")
    BY <1>6 DEF Transport
  <2>2. [state |-> s] \in Patches
    BY DEF Patches, States
  <2>3. FrameTypes' /\ StateTypes'
    BY <1>6, <2>1, <2>2, PatchKeeps DEF Transport, StateTypes
  <2>4. PlayerTypes'
    BY <2>1 DEF PlayerTypes, Players, States
  <2>5. QED
    BY <1>6, <2>3, <2>4, SameKeeps DEF Transport
<1>7. CASE TrackEnds(h)
  <2>1. player' \in Players
    BY <1>7, GoesOnTyped DEF TrackEnds, PlayerTypes, Players
  <2>2. FrameOf([Idle EXCEPT !.at = "eof", !.track = player.now])
    BY IdleIsFrame DEF PlayerTypes, Players, FrameOf, Frames, Labels, Idle
  <2>3. QED
    BY <1>7, <2>1, <2>2, FrameMoves, SameKeeps DEF TrackEnds, PlayerTypes
<1>8. CASE TrackFails(h)
  <2>1. PICK t \in OptTrack : GoWith(h, [Idle EXCEPT !.at = "error", !.track = t])
    BY <1>8 DEF TrackFails, PlayerTypes, Players
  <2>2. FrameOf([Idle EXCEPT !.at = "error", !.track = t])
    BY IdleIsFrame DEF FrameOf, Frames, Labels, Idle
  <2>3. player' \in Players
    BY <1>8, GoesOnTyped DEF TrackFails, PlayerTypes, Players
  <2>4. QED
    BY <1>8, <2>1, <2>2, <2>3, FrameMoves, SameKeeps DEF TrackFails, PlayerTypes
<1>9. CASE Report(h)
  <2> DEFINE f == [Idle EXCEPT !.at = "report", !.track = player.id, !.s = [state |-> player.status]]
  <2>1. [state |-> player.status] \in SeenStates
    BY DEF PlayerTypes, Players, SeenStates
  <2>2. FrameOf(f)
    BY <2>1, IdleIsFrame DEF PlayerTypes, Players, FrameOf, Frames, Labels, Idle
  <2>3. GoWith(h, f)
    BY <1>9, Zenon DEF Report
  <2> HIDE DEF f
  <2>4. QED
    BY <1>9, <2>2, <2>3, FrameMoves, SameKeeps DEF Report
<1>10. QED
  BY <1>2, <1>3, <1>4, <1>5, <1>6, <1>7, <1>8, <1>9 DEF Arrival

\* The steps of loadTrack, play, playTracks, the play button of an item and
\* the grace window.
LEMMA LoadTypes ==
  ASSUME PlaybackTypes, NEW h \in Handlers,
         \/ SendLoad(h) \/ LoadPatch(h) \/ LoadTail(h)
         \/ CurrentQueue(h) \/ CurrentIndex(h) \/ ItemQueue(h)
         \/ ParkState(h) \/ ParkPatch(h)
  PROVE  PlaybackTypes'
<1> USE DEF PlaybackTypes
<1>1. frame[h] \in Frames /\ FrameOf(frame[h]) /\ frame[h].track \in OptTrack
  BY DEF FrameTypes, Frames
<1>2. {"loadPatch", "ensure", "parkPatch", "currentIndex", "patching"} \subseteq Plain
  BY DEF Plain, Labels
<1>3. CASE SendLoad(h)
  <2>1. PlayerTypes'
    BY <1>1, <1>3, SendKeeps DEF SendLoad
  <2>2. QED
    BY <1>2, <1>3, <2>1, GoKeeps, DoneKeeps, SameKeeps DEF SendLoad
<1>4. CASE LoadPatch(h)
  <2>1. [state |-> "playing", track |-> frame[h].track] \in Patches
    BY <1>1 DEF Patches, States
  <2>2. QED
    BY <1>4, <2>1, PatchKeeps, SameKeeps DEF LoadPatch, StateTypes
<1>5. CASE LoadTail(h)
  <2>1. MemoryTypes' /\ BlockTypes'
    BY <1>1, <1>5, ScheduleKeeps DEF LoadTail, MemoryTypes
  <2>2. QED
    BY <1>2, <1>5, <2>1, GoKeeps, DoneKeeps, SameKeeps DEF LoadTail
<1>6. CASE CurrentQueue(h)
  <2>1. FrameOf([frame[h] EXCEPT !.at = "currentIndex", !.q = queue])
    BY <1>1 DEF FrameOf, Frames, Labels, QueueTypes
  <2>2. QED
    BY <1>6, <2>1, FrameMoves, SameKeeps DEF CurrentQueue
<1>7. CASE CurrentIndex(h)
  <2>1. CASE ItemAt(frame[h].q, cursor) = NoItem
    BY <1>7, <2>1, DoneKeeps, SameKeeps DEF CurrentIndex, MemoryTypes, memory, prefetch
  <2>2. CASE ItemAt(frame[h].q, cursor) # NoItem
    <3>1. ItemAt(frame[h].q, cursor).track \in OptTrack
      BY <1>1, <2>2, ItemsHaveTracks DEF Frames, OptTrack
    <3>2. QED
      BY <1>7, <2>2, <3>1, LoadKeeps, SameKeeps DEF CurrentIndex, MemoryTypes, prefetch
  <2>3. QED
    BY <2>1, <2>2
<1>8. CASE ItemQueue(h)
  <2>1. ASSUME NEW k \in DOMAIN queue
        PROVE  FrameOf([frame[h] EXCEPT !.at = "itemIndex", !.i = k - 1, !.track = queue[k].track])
    <3>1. k - 1 \in Nat /\ queue[k].track \in AnyTrack
      BY ItemsHaveTracks DEF QueueTypes
    <3>2. QED
      BY <1>1, <3>1 DEF FrameOf, Frames, Labels, OptTrack
  <2>2. QED
    BY <1>8, <2>1, FrameMoves, DoneKeeps, SameKeeps DEF ItemQueue
<1>9. CASE ParkState(h)
  BY <1>2, <1>9, GoKeeps, DoneKeeps, SameKeeps DEF ParkState
<1>10. CASE ParkPatch(h)
  <2>1. [state |-> "paused"] \in Patches
    BY DEF Patches, States
  <2>2. QED
    BY <1>10, <2>1, PatchKeeps, SameKeeps DEF ParkPatch, StateTypes
<1>11. QED
  BY <1>3, <1>4, <1>5, <1>6, <1>7, <1>8, <1>9, <1>10

\* Ids are below n, and no two items share one.
Numbered(q, n) ==
  /\ \A k \in 1 .. Len(q) : q[k].id \in Nat /\ q[k].id < n
  /\ \A j, k \in 1 .. Len(q) : q[j].id = q[k].id => j = k

LEMMA QueueIsNumbered == QueueTypes <=> /\ queue \in Seq(Item) /\ cursor \in Nat /\ fresh \in Nat
                                        /\ Numbered(queue, fresh)
<1>1. queue \in Seq(Item) => \A k \in 1 .. Len(queue) : queue[k] \in Item
  OBVIOUS
<1>2. queue \in Seq(Item) => \A k \in 1 .. Len(queue) : queue[k].id \in Nat
  BY <1>1 DEF Item
<1>3. QED
  BY <1>2 DEF QueueTypes, Numbered

\* splice(i, 0, e) on a queue of items.
LEMMA InsertGrows ==
  ASSUME NEW q \in Seq(Item), NEW i \in 1 .. Len(q) + 1, NEW e \in Item
  PROVE  /\ InsertAt(q, i, e) \in Seq(Item)
         /\ Len(InsertAt(q, i, e)) = Len(q) + 1
         /\ \A k \in 1 .. Len(q) + 1 :
              InsertAt(q, i, e)[k] = IF k < i THEN q[k] ELSE IF k = i THEN e ELSE q[k - 1]
BY InsertAdds

\* An item with the next unused id, put anywhere into the queue.
LEMMA InsertKeepsNumbers ==
  ASSUME NEW q \in Seq(Item), NEW n \in Nat, Numbered(q, n),
         NEW e \in Item, e.id = n, NEW i \in 1 .. Len(q) + 1
  PROVE  Numbered(InsertAt(q, i, e), n + 1)
<1> DEFINE r == InsertAt(q, i, e)
<1> HIDE DEF r
<1>1. /\ Len(r) = Len(q) + 1
      /\ \A k \in 1 .. Len(q) + 1 :
           r[k] = IF k < i THEN q[k] ELSE IF k = i THEN e ELSE q[k - 1]
  <2>1. Len(InsertAt(q, i, e)) = Len(q) + 1
    BY InsertGrows
  <2>2. \A k \in 1 .. Len(q) + 1 :
          InsertAt(q, i, e)[k] = IF k < i THEN q[k] ELSE IF k = i THEN e ELSE q[k - 1]
    BY InsertGrows
  <2>3. QED
    BY <2>1, <2>2, Zenon DEF r
<1>2. ASSUME NEW m \in 1 .. Len(r)
      PROVE  \/ m = i /\ r[m].id = n
             \/ /\ m # i
                /\ \E x \in 1 .. Len(q) : x = (IF m < i THEN m ELSE m - 1) /\ r[m].id = q[x].id
  <2>1. Len(q) \in Nat /\ m \in 1 .. Len(q) + 1 /\ i \in Int /\ m \in Int
    BY <1>1
  <2>2. r[m] = IF m < i THEN q[m] ELSE IF m = i THEN e ELSE q[m - 1]
    BY <1>1, <2>1
  <2>3. CASE m < i
    <3>1. m \in 1 .. Len(q) /\ m # i /\ r[m] = q[m]
      BY <2>1, <2>2, <2>3
    <3>2. QED
      BY <2>3, <3>1
  <2>4. CASE m = i
    <3>1. ~(m < i)
      BY <2>1, <2>4
    <3>2. QED
      BY <2>2, <2>4, <3>1
  <2>5. CASE i < m
    <3>1. m - 1 \in 1 .. Len(q) /\ m # i /\ ~(m < i) /\ r[m] = q[m - 1]
      BY <2>1, <2>2, <2>5
    <3>2. QED
      BY <3>1
  <2>6. QED
    BY <2>1, <2>3, <2>4, <2>5
<1>3. ASSUME NEW m \in 1 .. Len(r)
      PROVE  r[m].id \in Nat /\ r[m].id < n + 1
  <2>1. CASE r[m].id = n
    BY <2>1
  <2>2. ASSUME NEW x \in 1 .. Len(q), r[m].id = q[x].id
        PROVE  r[m].id \in Nat /\ r[m].id < n + 1
    <3>1. q[x].id \in Nat /\ q[x].id < n
      BY DEF Numbered
    <3>2. QED
      BY <2>2, <3>1
  <2>3. QED
    BY <1>2, <2>1, <2>2
<1>4. ASSUME NEW j \in 1 .. Len(r), NEW k \in 1 .. Len(r), r[j].id = r[k].id
      PROVE  j = k
  <2>1. j \in Int /\ k \in Int /\ i \in Int
    BY <1>1
  <2>2. \A x \in 1 .. Len(q) : q[x].id # n
    BY DEF Numbered
  <2>3. CASE j = i \/ k = i
    BY <1>2, <1>4, <2>2, <2>3
  <2>4. CASE j # i /\ k # i
    <3>1. PICK x \in 1 .. Len(q) : x = (IF j < i THEN j ELSE j - 1) /\ r[j].id = q[x].id
      BY <1>2, <2>4
    <3>2. PICK y \in 1 .. Len(q) : y = (IF k < i THEN k ELSE k - 1) /\ r[k].id = q[y].id
      BY <1>2, <2>4
    <3>3. x = y
      BY <1>4, <3>1, <3>2, Zenon DEF Numbered
    <3>4. QED
      BY <2>1, <2>4, <3>1, <3>2, <3>3
  <2>5. QED
    BY <2>3, <2>4
<1>5. QED
  BY <1>3, <1>4 DEF Numbered, r

LEMMA InsertKeeps ==
  ASSUME QueueTypes, NEW t \in AnyTrack, NEW i \in 1 .. Len(queue) + 1,
         queue' = InsertAt(queue, i, NewItem(fresh, t)), fresh' = fresh + 1, cursor' \in Nat
  PROVE  QueueTypes' /\ Len(queue') = Len(queue) + 1
<1>1. NewItem(fresh, t) \in Item /\ NewItem(fresh, t).id = fresh
  BY DEF QueueTypes, NewItem, Item
<1>2. queue \in Seq(Item) /\ fresh \in Nat /\ Numbered(queue, fresh)
  BY QueueIsNumbered
<1>3. queue' \in Seq(Item) /\ Len(queue') = Len(queue) + 1
  <2> DEFINE e == NewItem(fresh, t)
  <2> HIDE DEF e
  <2>1. e \in Item /\ queue' = InsertAt(queue, i, e)
    BY <1>1 DEF e
  <2>2. QED
    BY <1>2, <2>1, InsertGrows
<1>4. Numbered(queue', fresh')
  BY <1>1, <1>2, InsertKeepsNumbers
<1>5. QED
  BY <1>2, <1>3, <1>4 DEF QueueTypes, Numbered

LEMMA AppendKeeps ==
  ASSUME QueueTypes, NEW t \in AnyTrack,
         queue' = Append(queue, NewItem(fresh, t)), fresh' = fresh + 1, cursor' \in Nat
  PROVE  QueueTypes' /\ Len(queue') = Len(queue) + 1
<1> DEFINE e == NewItem(fresh, t)
<1>1. e \in Item /\ e.id = fresh
  BY DEF QueueTypes, NewItem, Item
<1> HIDE DEF e
<1>2. queue \in Seq(Item) /\ fresh \in Nat /\ Numbered(queue, fresh)
  BY QueueIsNumbered
<1>3. queue' = Append(queue, e)
  BY DEF e
<1>4. /\ queue' \in Seq(Item) /\ Len(queue') = Len(queue) + 1
      /\ \A k \in 1 .. Len(queue) : queue'[k] = queue[k]
      /\ queue'[Len(queue) + 1] = e
  BY <1>1, <1>2, <1>3
<1>5. ASSUME NEW k \in 1 .. Len(queue')
      PROVE  \/ k \in 1 .. Len(queue) /\ queue'[k].id = queue[k].id
             \/ k = Len(queue) + 1 /\ queue'[k].id = fresh
  BY <1>1, <1>2, <1>4
<1>6. \A k \in 1 .. Len(queue) : queue[k].id \in Nat /\ queue[k].id < fresh
  BY <1>2 DEF Numbered
<1>7. \A k \in 1 .. Len(queue') : queue'[k].id < fresh'
  BY <1>2, <1>5, <1>6
<1>8. \A j, k \in 1 .. Len(queue') : queue'[j].id = queue'[k].id => j = k
  BY <1>2, <1>5, <1>6 DEF Numbered
<1>9. QED
  BY <1>2, <1>4, <1>7, <1>8 DEF QueueTypes

\* The cursor moves over a queue that stays.
LEMMA CursorKeeps ==
  ASSUME QueueTypes, cursor' \in Nat, UNCHANGED <<queue, fresh>>
  PROVE  QueueTypes'
  BY DEF QueueTypes

\* A refill appends a track, or nothing.
LEMMA RefillKeeps ==
  ASSUME QueueTypes, NEW seed, queue' \in Refilled(seed), cursor' = cursor,
         fresh' = fresh + Len(queue') - Len(queue)
  PROVE  QueueTypes' /\ Len(queue') >= Len(queue)
<1>1. queue \in Seq(Item) /\ cursor \in Nat /\ fresh \in Nat /\ Len(queue) \in Nat
  BY DEF QueueTypes
<1>2. CASE queue' = queue
  <2>1. fresh' = fresh
    BY <1>1, <1>2
  <2>2. QED
    BY <1>1, <1>2, <2>1 DEF QueueTypes
<1>3. CASE queue' # queue
  <2>1. PICK t \in Recommended : queue' = Append(queue, NewItem(fresh, t))
    BY <1>3 DEF Refilled
  <2>2. t \in AnyTrack /\ NewItem(fresh, t) \in Item
    BY <1>1 DEF NewItem, Item, AnyTrack
  <2>3. Len(queue') = Len(queue) + 1
    BY <1>1, <2>1, <2>2
  <2>4. QED
    BY <1>1, <2>1, <2>2, <2>3, AppendKeeps
<1>4. QED
  BY <1>2, <1>3

\* Removing items keeps the ids of the others apart.
LEMMA RemovalKeeps ==
  ASSUME QueueTypes, NEW id, queue' = Without(queue, id), fresh' = fresh + 1, cursor' = cursor
  PROVE  QueueTypes' /\ Len(queue') <= Len(queue)
<1>1. queue \in Seq(Item) /\ cursor \in Nat /\ fresh \in Nat /\ Numbered(queue, fresh)
  BY QueueIsNumbered
<1>2. queue' \in Seq(Item) /\ Len(queue') \in Nat /\ Len(queue') <= Len(queue)
  BY <1>1, WithoutKeeps
<1>3. PICK f \in [1 .. Len(queue') -> 1 .. Len(queue)] :
        /\ \A m \in 1 .. Len(queue') : queue'[m] = queue[f[m]]
        /\ \A l, m \in 1 .. Len(queue') : l < m => f[l] < f[m]
  BY <1>1, WithoutOrders
<1>4. \A k \in 1 .. Len(queue) : queue[k].id \in Nat /\ queue[k].id < fresh
  BY <1>1 DEF Numbered
<1>5. \A m \in 1 .. Len(queue') : f[m] \in 1 .. Len(queue) /\ f[m] \in Int
  BY <1>3
<1>6. \A m \in 1 .. Len(queue') : queue'[m].id < fresh'
  BY <1>1, <1>3, <1>4, <1>5
<1>7. ASSUME NEW l \in 1 .. Len(queue'), NEW m \in 1 .. Len(queue'), queue'[l].id = queue'[m].id
      PROVE  l = m
  <2>1. queue[f[l]].id = queue[f[m]].id
    BY <1>3, <1>7
  <2>2. f[l] = f[m]
    BY <1>1, <1>5, <2>1 DEF Numbered
  <2>3. ~ (l < m) /\ ~ (m < l)
    BY <1>3, <1>5, <2>2
  <2>4. QED
    BY <1>2, <2>3
<1>8. QED
  BY <1>1, <1>2, <1>6, <1>7 DEF QueueTypes

\* r holds the items of q in another order.
Moves(q, r) ==
  /\ r \in Seq(Item) /\ Len(r) = Len(q)
  /\ \E p \in Injection(1 .. Len(q), 1 .. Len(q)) : \A k \in 1 .. Len(q) : r[k] = q[p[k]]

\* A reorder that names each item once moves the items, and nothing else.
LEMMA ReorderMoves ==
  ASSUME QueueTypes, NEW order \in Orders
  PROVE  /\ Reorder(queue, cursor, order).index = cursor
         /\ Moves(queue, Reorder(queue, cursor, order).queue)
<1> DEFINE at(id) == SelectLastInSeq(queue, LAMBDA it : it.id = id)
           r == [k \in DOMAIN order |-> queue[at(order[k])]]
<1>1. queue \in Seq(Item) /\ Len(queue) \in Nat /\ DOMAIN queue = 1 .. Len(queue)
  BY DEF QueueTypes
<1>2. PICK p \in Injection(1 .. Len(queue), 1 .. Len(queue)) :
        order = [k \in 1 .. Len(queue) |-> queue[p[k]].id]
  BY <1>1 DEF Orders
<1>3. p \in [1 .. Len(queue) -> 1 .. Len(queue)]
  BY DEF Injection
<1>4. \A k \in 1 .. Len(queue) : queue[k].id \in Nat
  <2>1. \A k \in 1 .. Len(queue) : queue[k] \in Item
    BY <1>1
  <2>2. QED
    BY <2>1 DEF Item
<1>5. /\ order \in Seq(Nat) /\ Len(order) = Len(queue) /\ DOMAIN order = 1 .. Len(queue)
      /\ \A k \in 1 .. Len(queue) : order[k] = queue[p[k]].id
  <2>1. \A k \in 1 .. Len(queue) : queue[p[k]].id \in Nat
    BY <1>3, <1>4
  <2>2. order \in [1 .. Len(queue) -> Nat]
    BY <1>2, <2>1
  <2>3. order \in Seq(Nat) /\ Len(order) = Len(queue)
    BY <1>1, <2>2
  <2>4. QED
    BY <1>2, <2>2, <2>3
<1>6. ToSet(order) \subseteq IdsOf(queue)
  <2>1. ToSet(order) = {order[k] : k \in 1 .. Len(queue)}
    BY <1>5 DEF ToSet
  <2>2. ASSUME NEW k \in 1 .. Len(queue)
        PROVE  order[k] \in IdsOf(queue)
    BY <1>1, <1>3, <1>5 DEF IdsOf
  <2>3. QED
    BY <2>1, <2>2
<1>7. /\ r \in Seq(Item) /\ Len(r) = Len(queue)
      /\ \A k \in 1 .. Len(queue) : r[k].id = order[k]
  <2>1. queue \in Seq(Item)
    BY <1>1
  <2>2. order \in Seq(Nat)
    BY <1>5
  <2>3. r \in Seq(Item) /\ Len(r) = Len(order) /\ \A k \in 1 .. Len(order) : r[k].id = order[k]
    BY <1>6, <2>1, <2>2, ReorderPicks
  <2> HIDE DEF r
  <2>4. QED
    BY <1>5, <2>3
<1>8. ASSUME NEW k \in 1 .. Len(queue)
      PROVE  r[k] = queue[p[k]]
  <2>1. order[k] \in IdsOf(queue) /\ order[k] = queue[p[k]].id /\ p[k] \in 1 .. Len(queue)
    BY <1>3, <1>5, <1>6 DEF ToSet
  <2>2. at(order[k]) \in 1 .. Len(queue) /\ queue[at(order[k])].id = order[k]
    BY <1>1, <2>1, LastCarriesId
  <2>3. at(order[k]) = p[k]
    <3> HIDE DEF at
    <3>1. QED
      BY <2>1, <2>2 DEF QueueTypes
  <2>4. r[k] = queue[at(order[k])]
    <3> HIDE DEF at
    <3>1. QED
      BY <1>5
  <2>5. QED
    BY <2>3, <2>4
<1>9. Reorder(queue, cursor, order) = Ok(r, cursor, NoItem)
  BY <1>5, <1>6 DEF Reorder
<1> HIDE DEF r
<1>10. QED
  BY <1>7, <1>8, <1>9 DEF Ok, Moves

\* What an edit may do: put one item at the end or behind the cursor, take
\* the items with an id away, clear the queue, or change the order.
LEMMA EditShape ==
  ASSUME QueueTypes, NEW h \in Handlers, EditQueue(h)
  PROVE  /\ fresh' = fresh + 1
         /\ \/ \E t \in AnyTrack :
                 /\ cursor' = cursor
                 /\ \/ queue' = Append(queue, NewItem(fresh, t))
                    \/ queue' = InsertAt(queue, Lesser(cursor + 1, Len(queue)) + 1, NewItem(fresh, t))
            \/ ~GrowOnly /\ cursor' = 0 /\ queue' = <<>>
            \/ ~GrowOnly /\ cursor' = cursor /\ \E id \in IdsOf(queue) : queue' = Without(queue, id)
            \/ ~GrowOnly /\ cursor' = cursor /\ Moves(queue, queue')
<1>1. PICK t \in Tracks :
        \E e \in EditsOf(NewItem(fresh, t)) : queue' = e.queue /\ cursor' = e.index
  BY DEF EditQueue
<1>2. PICK o \in EditsOf(NewItem(fresh, t)) : queue' = o.queue /\ cursor' = o.index
  BY <1>1
<1>3. t \in AnyTrack /\ fresh' = fresh + 1
  BY DEF EditQueue, AnyTrack
<1>4. CASE o = Add(queue, cursor, NewItem(fresh, t))
  BY <1>2, <1>3, <1>4 DEF Add, Ok
<1>5. CASE o = AddNext(queue, cursor, NewItem(fresh, t))
  BY <1>2, <1>3, <1>5 DEF AddNext, Ok
<1>6. CASE ~GrowOnly /\ o = ClearAll(queue, cursor)
  BY <1>2, <1>3, <1>6 DEF ClearAll, Ok
<1>7. CASE ~GrowOnly /\ \E id \in IdsOf(queue) : o = RemoveItem(queue, cursor, id)
  BY <1>2, <1>3, <1>7 DEF RemoveItem, Ok
<1>8. CASE ~GrowOnly /\ \E order \in Orders : o = Reorder(queue, cursor, order)
  <2>1. PICK order \in Orders : o = Reorder(queue, cursor, order)
    BY <1>8
  <2>2. cursor' = cursor /\ Moves(queue, queue')
    BY <1>2, <2>1, ReorderMoves
  <2>3. QED
    BY <1>3, <1>8, <2>2
<1>9. QED
  BY <1>4, <1>5, <1>6, <1>7, <1>8 DEF EditsOf

\* Moving items keeps their ids apart.
LEMMA MovesKeep ==
  ASSUME QueueTypes, Moves(queue, queue'), fresh' = fresh + 1, cursor' = cursor
  PROVE  QueueTypes'
<1>1. queue \in Seq(Item) /\ cursor \in Nat /\ fresh \in Nat /\ Numbered(queue, fresh)
  BY QueueIsNumbered
<1>2. queue' \in Seq(Item) /\ Len(queue') = Len(queue)
  BY DEF Moves
<1>3. PICK p \in Injection(1 .. Len(queue), 1 .. Len(queue)) :
        \A k \in 1 .. Len(queue) : queue'[k] = queue[p[k]]
  BY DEF Moves
<1>4. /\ \A k \in 1 .. Len(queue) : p[k] \in 1 .. Len(queue)
      /\ \A j, k \in 1 .. Len(queue) : p[j] = p[k] => j = k
  BY DEF Injection, IsInjective
<1>5. \A k \in 1 .. Len(queue') : queue'[k].id < fresh'
  <2>1. \A k \in 1 .. Len(queue) : queue[k].id \in Nat /\ queue[k].id < fresh
    BY <1>1 DEF Numbered
  <2>2. QED
    BY <1>1, <1>2, <1>3, <1>4, <2>1
<1>6. ASSUME NEW j \in 1 .. Len(queue'), NEW k \in 1 .. Len(queue'), queue'[j].id = queue'[k].id
      PROVE  j = k
  <2>1. j \in 1 .. Len(queue) /\ k \in 1 .. Len(queue)
    BY <1>2
  <2>2. p[j] \in 1 .. Len(queue) /\ p[k] \in 1 .. Len(queue)
    BY <1>4, <2>1
  <2>3. queue[p[j]].id = queue[p[k]].id
    BY <1>3, <1>6, <2>1
  <2>4. p[j] = p[k]
    BY <1>1, <2>2, <2>3 DEF Numbered
  <2>5. QED
    BY <1>4, <2>1, <2>4
<1>7. fresh' \in Nat /\ cursor' \in Nat
  BY <1>1
<1>8. \A k \in 1 .. Len(queue') : queue'[k] \in Item /\ queue'[k].id < fresh'
  BY <1>2, <1>5
<1>9. QED
  BY <1>2, <1>6, <1>7, <1>8 DEF QueueTypes

\* Every edit keeps the queue's type; one that only adds leaves the cursor.
LEMMA EditKeeps ==
  ASSUME QueueTypes, NEW h \in Handlers, EditQueue(h)
  PROVE  /\ QueueTypes'
         /\ GrowOnly => Len(queue') = Len(queue) + 1 /\ cursor' = cursor
<1>1. queue \in Seq(Item) /\ cursor \in Nat /\ fresh \in Nat /\ Len(queue) \in Nat
  BY DEF QueueTypes
<1>2. fresh' = fresh + 1
  BY EditShape
<1>3. CASE \E t \in AnyTrack : cursor' = cursor /\ queue' = Append(queue, NewItem(fresh, t))
  BY <1>1, <1>2, <1>3, AppendKeeps
<1>4. CASE \E t \in AnyTrack :
             /\ cursor' = cursor
             /\ queue' = InsertAt(queue, Lesser(cursor + 1, Len(queue)) + 1, NewItem(fresh, t))
  <2>1. Lesser(cursor + 1, Len(queue)) + 1 \in 1 .. Len(queue) + 1
    BY <1>1 DEF Lesser
  <2>2. QED
    BY <1>1, <1>2, <1>4, <2>1, InsertKeeps
<1>5. CASE ~GrowOnly /\ cursor' = 0 /\ queue' = <<>>
  BY <1>1, <1>2, <1>5 DEF QueueTypes
<1>6. CASE ~GrowOnly /\ cursor' = cursor /\ \E id \in IdsOf(queue) : queue' = Without(queue, id)
  BY <1>2, <1>6, RemovalKeeps
<1>7. CASE ~GrowOnly /\ cursor' = cursor /\ Moves(queue, queue')
  BY <1>2, <1>7, MovesKeep
<1>8. QED
  BY <1>3, <1>4, <1>5, <1>6, <1>7, EditShape

\* playTracks: a new queue with new ids, from its first item on.
LEMMA ReplaceShape ==
  ASSUME QueueTypes, NEW h \in Handlers, ReplaceStep(h)
  PROVE  \E ts \in Playlists :
           /\ Len(ts) \in Nat \ {0} /\ DOMAIN ts = 1 .. Len(ts)
           /\ \A k \in 1 .. Len(ts) : ts[k] \in Tracks
           /\ queue' = [k \in 1 .. Len(ts) |-> NewItem(fresh + k - 1, ts[k])]
           /\ cursor' = 0 /\ Len(queue') = Len(ts)
           /\ fresh' = fresh + Len(ts)
<1>1. PICK ts \in Playlists :
        LET items == [k \in DOMAIN ts |-> NewItem(fresh + k - 1, ts[k])]
            o == Replace(queue, cursor, items, 0)
        IN  queue' = o.queue /\ cursor' = o.index /\ fresh' = fresh + Len(ts)
  BY DEF ReplaceStep
<1>2. ts \in Seq(Tracks) /\ ts # <<>>
  BY PlaylistsAreLists
<1>3. Len(ts) \in Nat \ {0} /\ DOMAIN ts = 1 .. Len(ts) /\ \A k \in 1 .. Len(ts) : ts[k] \in Tracks
  BY <1>2
<1> DEFINE items == [k \in DOMAIN ts |-> NewItem(fresh + k - 1, ts[k])]
<1>4. items = [k \in 1 .. Len(ts) |-> NewItem(fresh + k - 1, ts[k])]
  BY <1>3
<1>5. Len(items) = Len(ts) /\ items # <<>>
  BY <1>3, <1>4
<1>6. queue' = items /\ cursor' = Lesser(0, Len(items) - 1)
  BY <1>1, <1>5 DEF Replace, Ok
<1> HIDE DEF items
<1>7. cursor' = 0
  BY <1>3, <1>5, <1>6 DEF Lesser
<1>8. Len(queue') = Len(ts)
  BY <1>5, <1>6
<1>9. QED
  BY <1>1, <1>3, <1>4, <1>6, <1>7, <1>8

LEMMA ReplaceKeeps ==
  ASSUME QueueTypes, NEW h \in Handlers, ReplaceStep(h)
  PROVE  QueueTypes'
<1>1. PICK ts \in Playlists :
        /\ Len(ts) \in Nat \ {0} /\ DOMAIN ts = 1 .. Len(ts)
        /\ \A k \in 1 .. Len(ts) : ts[k] \in Tracks
        /\ queue' = [k \in 1 .. Len(ts) |-> NewItem(fresh + k - 1, ts[k])]
        /\ cursor' = 0
        /\ fresh' = fresh + Len(ts)
  BY ReplaceShape
<1>2. fresh \in Nat
  BY DEF QueueTypes
<1>3. ASSUME NEW k \in 1 .. Len(ts)
      PROVE  /\ NewItem(fresh + k - 1, ts[k]) \in Item
             /\ NewItem(fresh + k - 1, ts[k]).id = fresh + k - 1
  <2>1. fresh + k - 1 \in Nat /\ ts[k] \in AnyTrack
    BY <1>1, <1>2 DEF AnyTrack
  <2>2. QED
    BY <2>1 DEF NewItem, Item
<1>4. queue' \in Seq(Item) /\ Len(queue') = Len(ts)
  BY <1>1, <1>3
<1>5. \A k \in 1 .. Len(queue') : queue'[k].id = fresh + k - 1
  BY <1>1, <1>3, <1>4
<1>6. /\ Len(queue') \in Nat
      /\ \A k \in 1 .. Len(queue') : queue'[k].id < fresh'
      /\ \A j, k \in 1 .. Len(queue') : queue'[j].id = queue'[k].id => j = k
  BY <1>1, <1>2, <1>4, <1>5
<1>7. cursor' \in Nat /\ fresh' \in Nat
  BY <1>1, <1>2
<1>8. QED
  BY <1>4, <1>6, <1>7 DEF QueueTypes

\* The steps that write the queue or its cursor.
LEMMA AccountTypes ==
  ASSUME PlaybackTypes, NEW h \in Handlers,
         \/ PlaceCurrentStep(h) \/ InsertStep(h) \/ ReplaceStep(h) \/ ItemIndex(h) \/ Ensure(h)
         \/ SetIndexStep(h) \/ AdvanceStep(h) \/ PrevSet(h) \/ AdoptSet(h) \/ EditQueue(h)
  PROVE  PlaybackTypes'
<1> USE DEF PlaybackTypes
<1>1. /\ FrameOf(frame[h]) /\ frame[h] \in Frames
      /\ frame[h].track \in OptTrack /\ frame[h].i \in Nat /\ frame[h].q \in Seq(Item)
      /\ AnyTrack \subseteq OptTrack
  BY DEF FrameTypes, Frames, OptTrack
<1>2. {"current", "refill", "advanceAgain", "adoptPatch", "invalidate"} \subseteq Plain
  BY DEF Plain, Labels
<1>3. queue \in Seq(Item) /\ cursor \in Nat /\ fresh \in Nat /\ Len(queue) \in Nat
  BY DEF QueueTypes
<1>4. CASE PlaceCurrentStep(h)
  <2>1. cursor' \in Nat
    BY <1>3, <1>4, FirstIsPosition DEF PlaceCurrentStep, PlaceCurrent, Ok
  <2>2. CASE StartLoad(h, frame[h].track)
    BY <1>1, <1>4, <2>1, <2>2, CursorKeeps, LoadKeeps, SameKeeps
       DEF PlaceCurrentStep, MemoryTypes, prefetch
  <2>3. CASE Go(h, "insert") /\ UNCHANGED retries
    <3>1. frame[h].at = "place" /\ FrameOf([frame[h] EXCEPT !.at = "insert"])
      BY <1>1, <1>4 DEF PlaceCurrentStep, At, FrameOf, Frames, Labels
    <3>2. GoWith(h, [frame[h] EXCEPT !.at = "insert"])
      BY <2>3 DEF Go, GoWith, FrameTypes
    <3>3. QED
      BY <1>4, <2>1, <2>3, <3>1, <3>2, CursorKeeps, FrameMoves, SameKeeps
         DEF PlaceCurrentStep, MemoryTypes, prefetch
  <2>4. QED
    BY <1>4, <2>2, <2>3 DEF PlaceCurrentStep
<1>5. CASE InsertStep(h)
  <2>1. frame[h].track \in AnyTrack
    BY <1>1, <1>5 DEF InsertStep, At, FrameOf
  <2>2. Lesser(cursor, Len(queue)) + 1 \in 1 .. Len(queue) + 1
    BY <1>3 DEF Lesser
  <2>3. QueueTypes'
    BY <1>3, <1>5, <2>1, <2>2, InsertKeeps DEF InsertStep, InsertAtCurrent, Ok
  <2>4. QED
    BY <1>1, <1>5, <2>3, LoadKeeps, SameKeeps DEF InsertStep, MemoryTypes, prefetch
<1>6. CASE ReplaceStep(h)
  <2>1. QueueTypes'
    BY <1>6, ReplaceKeeps
  <2>2. QED
    BY <1>2, <1>6, <2>1, GoKeeps, SameKeeps DEF ReplaceStep
<1>7. CASE ItemIndex(h)
  <2>1. FrameOf([frame[h] EXCEPT !.at = "place"])
    BY <1>1, <1>7 DEF ItemIndex, At, FrameOf, Frames, Labels
  <2>2. GoWith(h, [frame[h] EXCEPT !.at = "place"])
    BY <1>7 DEF ItemIndex, Go, GoWith, FrameTypes
  <2>3. cursor' \in Nat
    BY <1>1, <1>7 DEF ItemIndex
  <2>4. QED
    BY <1>7, <2>1, <2>2, <2>3, CursorKeeps, FrameMoves, SameKeeps DEF ItemIndex
<1>8. CASE Ensure(h)
  <2>1. QueueTypes'
    BY <1>8, RefillKeeps DEF Ensure
  <2>2. QED
    BY <1>2, <1>8, <2>1, GoKeeps, DoneKeeps, SameKeeps DEF Ensure
<1>9. CASE SetIndexStep(h)
  <2>1. frame[h].i + 1 \in DOMAIN frame[h].q
    BY <1>1, <1>9 DEF SetIndexStep, At, FrameOf
  <2>2. frame[h].q[frame[h].i + 1].track \in OptTrack
    BY <1>1, <2>1, ItemsHaveTracks
  <2>3. cursor' \in Nat
    BY <1>1, <1>9 DEF SetIndexStep
  <2>4. QED
    BY <1>9, <2>2, <2>3, CursorKeeps, LoadKeeps, SameKeeps DEF SetIndexStep, MemoryTypes, prefetch
<1>10. CASE AdvanceStep(h)
  <2> DEFINE o == Advance(queue, cursor)
  <2>1. /\ o.index \in Nat
        /\ o.item # NoItem => o.item.track \in OptTrack
    BY <1>1, <1>3, ItemsHaveTracks DEF Advance, Ok, Null
  <2> HIDE DEF o
  <2>2. QueueTypes'
    BY <1>10, <2>1, CursorKeeps DEF AdvanceStep, o
  <2>3. CASE o.item # NoItem
    BY <1>10, <2>1, <2>2, <2>3, LoadKeeps, SameKeeps
       DEF AdvanceStep, o, MemoryTypes, StateTypes, prefetch
  <2>4. CASE o.item = NoItem /\ At(h, "advance")
    BY <1>2, <1>10, <2>2, <2>4, GoKeeps, SameKeeps
       DEF AdvanceStep, At, o, MemoryTypes, StateTypes, prefetch
  <2>5. CASE o.item = NoItem /\ At(h, "advanceAgain")
    <3>1. PlayerTypes'
      BY <1>10, <2>5, SendKeeps DEF AdvanceStep, At, o
    <3>2. [state |-> "stopped"] \in Patches
      BY DEF Patches, States
    <3>3. FrameTypes' /\ StateTypes'
      BY <1>10, <2>5, <3>2, PatchKeeps, DoneKeeps DEF AdvanceStep, At, o, StateTypes
    <3>4. QED
      BY <1>10, <2>2, <2>5, <3>1, <3>3, SameKeeps DEF AdvanceStep, At, o, MemoryTypes, prefetch
  <2>6. QED
    BY <1>10, <2>3, <2>4, <2>5 DEF AdvanceStep, At
<1>11. CASE PrevSet(h) \/ AdoptSet(h)
  <2>1. cursor' \in Nat
    BY <1>1, <1>11 DEF PrevSet, AdoptSet
  <2>2. QED
    BY <1>2, <1>11, <2>1, CursorKeeps, GoKeeps, SameKeeps DEF PrevSet, AdoptSet
<1>12. CASE EditQueue(h)
  <2>1. QueueTypes'
    BY <1>12, EditKeeps
  <2>2. QED
    BY <1>2, <1>12, <2>1, GoKeeps, SameKeeps DEF EditQueue
<1>13. QED
  BY <1>4, <1>5, <1>6, <1>7, <1>8, <1>9, <1>10, <1>11, <1>12

\* A handler that moves on with other locals.
LEMMA FrameEdits ==
  ASSUME NEW f \in Frames
  PROVE  /\ \A l \in Plain, s \in SeenStates : FrameOf([f EXCEPT !.at = l, !.s = s])
         /\ \A l \in Plain, q \in Seq(Item) : FrameOf([f EXCEPT !.at = l, !.q = q])
         /\ \A l \in Plain, t \in OptTrack : FrameOf([f EXCEPT !.at = l, !.track = t])
         /\ \A l \in Plain, i \in Nat : FrameOf([f EXCEPT !.at = l, !.i = i])
         /\ \A l \in Plain, i \in Nat : FrameOf([f EXCEPT !.at = l, !.i = i, !.feed = FALSE])
         /\ \A i \in Nat : i < Len(f.q) => FrameOf([f EXCEPT !.at = "setIndex", !.i = i])
<1>1. \A l \in Plain :
        l \in Labels /\ l # "setIndex" /\ l \notin {"place", "insert", "itemIndex"}
  BY DEF Plain
<1>2. "setIndex" \in Labels
  BY DEF Labels
<1>3. ASSUME NEW l \in Plain, NEW s \in SeenStates
      PROVE  FrameOf([f EXCEPT !.at = l, !.s = s])
  BY <1>1 DEF FrameOf, Frames
<1>4. ASSUME NEW l \in Plain, NEW q \in Seq(Item)
      PROVE  FrameOf([f EXCEPT !.at = l, !.q = q])
  BY <1>1 DEF FrameOf, Frames
<1>5. ASSUME NEW l \in Plain, NEW t \in OptTrack
      PROVE  FrameOf([f EXCEPT !.at = l, !.track = t])
  BY <1>1 DEF FrameOf, Frames
<1>6. ASSUME NEW l \in Plain, NEW i \in Nat
      PROVE  /\ FrameOf([f EXCEPT !.at = l, !.i = i])
             /\ FrameOf([f EXCEPT !.at = l, !.i = i, !.feed = FALSE])
  BY <1>1 DEF FrameOf, Frames
<1>7. ASSUME NEW i \in Nat, i < Len(f.q)
      PROVE  FrameOf([f EXCEPT !.at = "setIndex", !.i = i])
  BY <1>2, <1>7 DEF FrameOf, Frames
<1>8. QED
  BY <1>3, <1>4, <1>5, <1>6, <1>7, Zenon

\* Where next() may jump to is a position of the queue it read.
LEMMA JumpsArePositions ==
  ASSUME NEW q \in Seq(Item), NEW i \in Nat, NEW s
  PROVE  /\ Jumps(q, i, s) \subseteq 0 .. Len(q) - 1
         /\ Picks(q, i, s) \subseteq 0 .. Len(q) - 1
<1>1. Len(q) \in Nat
  OBVIOUS
<1>2. Jumps(q, i, s) \subseteq 0 .. Len(q) - 1
  BY <1>1 DEF Jumps
<1>3. QED
  BY <1>1, <1>2 DEF Picks

\* The steps of next() and previous() that write no cursor.
LEMMA NextTypes ==
  ASSUME PlaybackTypes, NEW h \in Handlers,
         NextState(h) \/ NextQueue(h) \/ NextIndex(h) \/ PrevIndex(h)
  PROVE  PlaybackTypes'
<1> USE DEF PlaybackTypes
<1>0. {"nextQueue", "nextIndex", "prevSet", "advance"} \subseteq Plain
  BY DEF Plain, Labels
<1>1. FrameOf(frame[h]) /\ frame[h] \in Frames /\ frame[h].q \in Seq(Item)
  BY DEF FrameTypes, Frames
<1>2. queue \in Seq(Item) /\ cursor \in Nat /\ AnyTrack \subseteq OptTrack /\ NoTrack \in OptTrack
  BY DEF QueueTypes, OptTrack
<1>3. CASE NextState(h)
  <2>1. FrameOf([frame[h] EXCEPT !.at = "nextQueue", !.s = st])
    BY <1>1, <1>0, FrameEdits DEF StateTypes, SeenStates
  <2>2. QED
    BY <1>3, <2>1, FrameMoves, SameKeeps DEF NextState
<1>4. CASE NextQueue(h)
  <2>1. FrameOf([frame[h] EXCEPT !.at = "nextIndex", !.q = queue])
    BY <1>0, <1>1, <1>2, FrameEdits
  <2>2. QED
    BY <1>4, <2>1, FrameMoves, SameKeeps DEF NextQueue
<1>5. CASE NextIndex(h)
  <2> DEFINE f == frame[h]
             item == IF ItemAt(f.q, cursor) # NoItem THEN ItemAt(f.q, cursor)
                     ELSE ItemAt(queue, cursor)
             k == FirstWithTrack(f.q, pending)
  <2>1. ASSUME NEW i \in 0 .. Len(f.q) - 1, GoWith(h, [f EXCEPT !.at = "setIndex", !.i = i])
        PROVE  FrameTypes'
    <3>1. i \in Nat /\ i < Len(f.q)
      BY <1>1
    <3>2. QED
      BY <1>1, <2>1, <3>1, FrameEdits, FrameMoves
  <2>2. ASSUME Turn(h, cursor)
        PROVE  FrameTypes'
    <3>1. CASE Go(h, "advance")
      BY <3>1, GoKeeps DEF Plain, Labels
    <3>2. QED
      BY <1>1, <1>2, <2>1, <2>2, <3>1, JumpsArePositions DEF Turn
  <2>3. item # NoItem => item.track \in OptTrack
    BY <1>1, <1>2, ItemsHaveTracks
  <2>4. k \in -1 .. Len(f.q) - 1
    BY <1>1, FirstIsPosition
  <2> HIDE DEF k, item
  <2>5. CASE item # NoItem /\ StartLoad(h, item.track) /\ UNCHANGED prefetch
    BY <1>5, <2>3, <2>5, LoadKeeps, SameKeeps DEF NextIndex, MemoryTypes, prefetch
  <2>6. CASE /\ pending' = NoTrack /\ ClearTimer /\ UNCHANGED retries
             /\ IF k >= 0 THEN GoWith(h, [f EXCEPT !.at = "setIndex", !.i = k])
                ELSE Turn(h, cursor)
    <3>1. k >= 0 => k \in 0 .. Len(f.q) - 1
      BY <1>1, <2>4
    <3>2. FrameTypes'
      BY <2>1, <2>2, <2>6, <3>1
    <3>3. QED
      BY <1>2, <1>5, <2>6, <3>2, ClearKeeps, SameKeeps DEF NextIndex, MemoryTypes
  <2>7. CASE Turn(h, cursor) /\ UNCHANGED <<prefetch, retries>>
    BY <1>5, <2>2, <2>7, SameKeeps DEF NextIndex, MemoryTypes, prefetch
  <2>8. QED
    BY <1>5, <2>5, <2>6, <2>7 DEF NextIndex, item, k
<1>6. CASE PrevIndex(h)
  <2>1. CASE cursor > 0
    <3>1. cursor - 1 \in Nat
      BY <1>2, <2>1
    <3>2. FrameOf([frame[h] EXCEPT !.at = "prevSet", !.i = cursor - 1, !.feed = FALSE])
      BY <1>0, <1>1, <3>1, FrameEdits
    <3>3. QED
      BY <1>6, <2>1, <3>2, FrameMoves, SameKeeps DEF PrevIndex
  <2>2. QED
    BY <1>6, <2>1, DoneKeeps, SameKeeps DEF PrevIndex
<1>7. QED
  BY <1>3, <1>4, <1>5, <1>6

\* The steps after the end or the failure of a track, of a report and of the
\* edit of the queue, but for those that write the account.
LEMMA EndTypes ==
  ASSUME PlaybackTypes, NEW h \in Handlers,
         \/ Eof(h) \/ AdoptQueue(h) \/ AdoptPatch(h) \/ AdoptTail(h) \/ Error(h) \/ RetryState(h)
         \/ ReportState(h) \/ ReportQueue(h) \/ ReportPatch(h)
         \/ Invalidate(h) \/ InvalidateState(h)
  PROVE  PlaybackTypes'
<1> USE DEF PlaybackTypes
<1>0. /\ {"adoptQueue", "adoptSet", "nextState", "ensure", "retryState"} \subseteq Plain
      /\ {"reportPatch", "reportQueue", "invalidateState"} \subseteq Plain
  BY DEF Plain, Labels
<1>1. FrameOf(frame[h]) /\ frame[h] \in Frames /\ frame[h].track \in OptTrack
  BY DEF FrameTypes, Frames
<1>2. /\ queue \in Seq(Item) /\ AnyTrack \subseteq OptTrack /\ NoTrack \in OptTrack
      /\ st.track \in OptTrack
  BY DEF QueueTypes, OptTrack, StateTypes, DeviceStates
<1>3. CASE Eof(h)
  <2>1. MemoryTypes'
    BY <1>3, SettingsAreNumbers DEF Eof, MemoryTypes, prefetch
  <2>2. pending \in OptTrack
    BY DEF MemoryTypes
  <2>3. FrameTypes'
    BY <1>0, <1>1, <1>3, <2>2, FrameEdits, FrameMoves, GoKeeps, DoneKeeps DEF Eof
  <2>4. QED
    BY <1>3, <2>1, <2>3, SameKeeps DEF Eof
<1>4. CASE AdoptQueue(h)
  <2> DEFINE k == FirstWithTrack(queue, frame[h].track)
  <2>1. k \in -1 .. Len(queue) - 1
    BY <1>2, FirstIsPosition
  <2>2. \/ /\ k >= 0 /\ pending' = NoTrack /\ ClearTimer /\ retries' = NoRetries
           /\ GoWith(h, [frame[h] EXCEPT !.at = "adoptSet", !.i = k])
        \/ Go(h, "nextState") /\ UNCHANGED <<prefetch, retries>>
    BY <1>4 DEF AdoptQueue
  <2> HIDE DEF k
  <2>3. CASE k >= 0 /\ pending' = NoTrack /\ ClearTimer /\ retries' = NoRetries
             /\ GoWith(h, [frame[h] EXCEPT !.at = "adoptSet", !.i = k])
    <3>1. k \in Nat /\ "adoptSet" \in Plain
      BY <1>0, <1>2, <2>1, <2>3
    <3>2. FrameOf([frame[h] EXCEPT !.at = "adoptSet", !.i = k])
      BY <1>1, <3>1, FrameEdits
    <3>3. FrameTypes'
      BY <2>3, <3>2, FrameMoves
    <3>4. MemoryTypes'
      BY <1>2, <1>4, <2>3, ClearKeeps, SettingsAreNumbers DEF AdoptQueue, MemoryTypes, NoRetries
    <3>5. QED
      BY <1>4, <3>3, <3>4, SameKeeps DEF AdoptQueue
  <2>4. CASE Go(h, "nextState") /\ UNCHANGED <<prefetch, retries>>
    <3>1. FrameTypes'
      BY <1>0, <2>4, GoKeeps
    <3>2. MemoryTypes'
      BY <1>4, <2>4 DEF AdoptQueue, MemoryTypes, prefetch
    <3>3. QED
      BY <1>4, <3>1, <3>2, SameKeeps DEF AdoptQueue
  <2>5. QED
    BY <2>2, <2>3, <2>4
<1>5. CASE AdoptPatch(h) \/ ReportPatch(h)
  <2>1. frame[h].s.state \in States
    BY <1>1 DEF Frames, SeenStates, DeviceStates
  <2>2. \A s \in States : [state |-> s, track |-> frame[h].track] \in Patches
    BY <1>1 DEF Patches
  <2>3. PICK s \in States : Patch(h, [state |-> s, track |-> frame[h].track], IF At(h, "adoptPatch") THEN "adoptTail" ELSE "idle")
    BY <1>5, <2>1 DEF AdoptPatch, ReportPatch, At, States
  <2>4. StateTypes' /\ FrameTypes'
    BY <1>5, <2>2, <2>3, PatchKeeps DEF AdoptPatch, ReportPatch, StateTypes
  <2>5. QED
    BY <1>5, <2>4, SameKeeps DEF AdoptPatch, ReportPatch
<1>6. CASE AdoptTail(h)
  <2>1. MemoryTypes' /\ BlockTypes'
    BY <1>1, <1>6, ScheduleKeeps DEF AdoptTail, MemoryTypes
  <2>2. QED
    BY <1>0, <1>6, <2>1, GoKeeps, SameKeeps DEF AdoptTail
<1>7. CASE Error(h)
  BY <1>0, <1>7, GoKeeps, DoneKeeps, SameKeeps DEF Error
<1>8. CASE RetryState(h)
  <2>1. Used \in 0 .. MaxTrackRetries
    BY SettingsAreNumbers DEF Used, MemoryTypes
  <2>2. CASE /\ st.track # NoTrack /\ Used < MaxTrackRetries
             /\ retries' = [track |-> st.track, count |-> Used + 1]
             /\ GoWith(h, Loading(h, st.track, TRUE))
             /\ UNCHANGED <<prefetch, streak, chain>>
    <3>1. FrameTypes'
      BY <1>2, <2>2, LoadingIsFrame, FrameMoves
    <3>2. Used + 1 \in 0 .. MaxTrackRetries
      BY <2>1, <2>2, SettingsAreNumbers
    <3>3. MemoryTypes'
      BY <1>2, <1>8, <2>2, <3>2 DEF RetryState, MemoryTypes, prefetch
    <3>4. QED
      BY <1>8, <2>2, <3>1, <3>3, SameKeeps DEF RetryState, StateTypes
  <2>3. CASE /\ streak + 1 < MaxConsecutiveErrors /\ streak' = streak + 1
             /\ Go(h, "nextState") /\ UNCHANGED <<prefetch, retries, chain>>
    <3>1. MemoryTypes'
      BY <1>8, <2>3, SettingsAreNumbers DEF RetryState, MemoryTypes, prefetch
    <3>2. QED
      BY <1>0, <1>8, <2>3, <3>1, GoKeeps, SameKeeps DEF RetryState, StateTypes
  <2>4. CASE /\ streak' = 0 /\ ClearTimer /\ pending' = NoTrack /\ retries' = NoRetries
             /\ Patch(h, [state |-> "stopped"], "idle")
    <3>1. [state |-> "stopped"] \in Patches
      BY DEF Patches, States
    <3>2. MemoryTypes'
      BY <1>2, <1>8, <2>4, ClearKeeps, SettingsAreNumbers DEF RetryState, MemoryTypes, NoRetries
    <3>3. QED
      BY <1>8, <2>4, <3>1, <3>2, PatchKeeps, SameKeeps DEF RetryState, StateTypes
  <2>5. QED
    BY <1>8, <2>2, <2>3, <2>4 DEF RetryState
<1>9. CASE ReportState(h)
  BY <1>0, <1>9, GoKeeps, SameKeeps DEF ReportState
<1>10. CASE ReportQueue(h)
  <2>1. PICK t \in OptTrack : GoWith(h, [frame[h] EXCEPT !.at = "reportPatch", !.track = t])
    BY <1>1, <1>2, <1>10 DEF ReportQueue
  <2>2. QED
    BY <1>0, <1>1, <1>10, <2>1, FrameEdits, FrameMoves, SameKeeps DEF ReportQueue
<1>11. CASE Invalidate(h)
  <2>1. MemoryTypes'
    BY <1>2, <1>11, ClearKeeps DEF Invalidate, MemoryTypes
  <2>2. PlayerTypes'
    BY <1>11, SendKeeps DEF Invalidate
  <2>3. QED
    BY <1>0, <1>11, <2>1, <2>2, GoKeeps, SameKeeps DEF Invalidate
<1>12. CASE InvalidateState(h)
  <2>1. MemoryTypes' /\ BlockTypes'
    BY <1>2, <1>12, ScheduleKeeps, SameKeeps DEF InvalidateState, MemoryTypes, prefetch
  <2>2. QED
    BY <1>12, <2>1, DoneKeeps, SameKeeps DEF InvalidateState
<1>13. QED
  BY <1>3, <1>4, <1>5, <1>6, <1>7, <1>8, <1>9, <1>10, <1>11, <1>12

\* The steps of a prefetch block.
LEMMA BlockStepTypes ==
  ASSUME PlaybackTypes, NEW h \in Handlers, BlockState(h) \/ BlockQueue(h) \/ BlockIndex(h)
  PROVE  PlaybackTypes'
<1> USE DEF PlaybackTypes
<1>1. /\ block[h] \in Blocks /\ NoBlock \in Blocks
      /\ queue \in Seq(Item) /\ cursor \in Nat /\ st \in SeenStates
  BY DEF BlockTypes, Blocks, NoBlock, SeenStates, States, OptTrack, QueueTypes, StateTypes
<1>2. EndBlock(h) => BlockTypes'
  BY <1>1 DEF EndBlock, BlockTypes
<1>3. CASE BlockState(h)
  <2>1. [block[h] EXCEPT !.at = "queue", !.s = st] \in Blocks
    BY <1>1 DEF Blocks
  <2>2. BlockTypes'
    BY <1>2, <1>3, <2>1 DEF BlockState, BlockTypes
  <2>3. QED
    BY <1>3, <2>2, SameKeeps DEF BlockState
<1>4. CASE BlockQueue(h)
  <2>1. [block[h] EXCEPT !.at = "index", !.q = queue] \in Blocks
    BY <1>1 DEF Blocks
  <2>2. BlockTypes'
    BY <1>4, <2>1 DEF BlockQueue, BlockTypes
  <2>3. QED
    BY <1>4, <2>2, SameKeeps DEF BlockQueue
<1>5. CASE BlockIndex(h)
  <2> DEFINE free == 1 .. MaxTimers \ ({t.id : t \in timers} \cup {mapped})
             picks == Picks(block[h].q, cursor, block[h].s)
  <2>1. free # {} => Min(free) \in 1 .. MaxTimers
    <3>1. free \in SUBSET Nat
      BY BoundsAreNumbers
    <3>2. QED
      BY <3>1, MinIsMember
  <2>2. \A k \in picks : block[h].q[k + 1].track \in AnyTrack
    <3>1. block[h].q \in Seq(Item)
      BY <1>1 DEF Blocks
    <3>2. \A k \in picks : k \in 0 .. Len(block[h].q) - 1
      BY <1>1, <3>1, JumpsArePositions
    <3>3. \A k \in picks : k + 1 \in DOMAIN block[h].q
      BY <3>1, <3>2
    <3>4. QED
      BY <3>1, <3>3, ItemsHaveTracks
  <2>3. \/ UNCHANGED <<timers, mapped>>
        \/ /\ free # {} /\ mapped' = Min(free)
           /\ \E k \in picks :
                timers' = timers \cup {[id |-> Min(free), track |-> block[h].q[k + 1].track]}
    BY <1>5, Zenon DEF BlockIndex
  <2> HIDE DEF free, picks
  <2>4. MemoryTypes'
    <3>1. CASE UNCHANGED <<timers, mapped>>
      BY <1>5, <3>1 DEF BlockIndex, MemoryTypes
    <3>2. ASSUME NEW k \in picks, free # {}, mapped' = Min(free),
                 timers' = timers \cup {[id |-> Min(free), track |-> block[h].q[k + 1].track]}
          PROVE  MemoryTypes'
      <4>1. [id |-> Min(free), track |-> block[h].q[k + 1].track] \in
              [id : 1 .. MaxTimers, track : AnyTrack]
        BY <2>1, <2>2, <3>2
      <4>2. mapped' \in 0 .. MaxTimers
        BY <2>1, <3>2, BoundsAreNumbers
      <4>3. QED
        BY <1>5, <3>2, <4>1, <4>2 DEF BlockIndex, MemoryTypes
    <3>3. QED
      BY <2>3, <3>1, <3>2
  <2>5. QED
    BY <1>2, <1>5, <2>4, SameKeeps DEF BlockIndex
<1>6. QED
  BY <1>3, <1>4, <1>5

\* { ...cur, ...patch } of a device state is a device state.
Spread(s, patch) == [k \in DOMAIN s |-> IF k \in DOMAIN patch THEN patch[k] ELSE s[k]]

LEMMA PatchesApply ==
  ASSUME NEW patch \in Patches, NEW s \in DeviceStates
  PROVE  /\ Spread(s, patch) \in DeviceStates
         /\ Spread(s, patch).track =
              IF "track" \in DOMAIN patch THEN patch.track ELSE s.track
<1>1. s \in [state : States, track : OptTrack, shuffle : BOOLEAN, repeat : Repeats]
  BY DEF DeviceStates
<1>2. CASE patch \in [shuffle : BOOLEAN]
  BY <1>1, <1>2 DEF DeviceStates, Spread
<1>3. CASE patch \in [repeat : Repeats]
  BY <1>1, <1>3 DEF DeviceStates, Spread
<1>4. CASE patch \in [state : States]
  BY <1>1, <1>4 DEF DeviceStates, Spread
<1>5. CASE patch \in [state : States, track : OptTrack]
  BY <1>1, <1>5 DEF DeviceStates, Spread
<1>6. QED
  BY <1>2, <1>3, <1>4, <1>5 DEF Patches

\* The steps of Redis, of the timers, of time and of the player.
LEMMA EnvironmentTypes ==
  ASSUME PlaybackTypes, ApplyPatch \/ TimerFires \/ Age \/ PlayerStarts \/ Disconnect
  PROVE  PlaybackTypes'
<1> USE DEF PlaybackTypes
<1>1. CASE ApplyPatch
  <2> DEFINE p == Head(chain)
  <2>1. /\ p \in Waiting /\ Tail(chain) \in Seq(Waiting)
        /\ chain' = Tail(chain) /\ st' = Spread(st, p.patch)
        /\ frame' = [frame EXCEPT ![p.by] = IF p.next = "idle" THEN Idle
                                            ELSE [@ EXCEPT !.at = p.next]]
    BY <1>1 DEF ApplyPatch, StateTypes, Spread
  <2> HIDE DEF p
  <2>2. p.by \in Handlers /\ p.patch \in Patches /\ p.next \in {"idle", "loadTail", "adoptTail"}
    BY <2>1 DEF Waiting
  <2>3. StateTypes'
    BY <2>1, <2>2, PatchesApply DEF StateTypes
  <2>4. FrameTypes'
    <3>1. CASE p.next = "idle"
      BY <2>1, <2>2, <3>1, DoneKeeps DEF Done
    <3>2. CASE p.next # "idle"
      <4>1. p.next \in Plain
        BY <2>2, <3>2 DEF Plain, Labels
      <4>2. Go(p.by, p.next)
        BY <2>1, <3>2 DEF Go
      <4>3. QED
        BY <2>2, <4>1, <4>2, GoKeeps
    <3>3. QED
      BY <3>1, <3>2
  <2>5. QED
    BY <1>1, <2>3, <2>4, SameKeeps DEF ApplyPatch
<1>2. CASE TimerFires
  <2>1. PICK t \in timers : /\ timers' = timers \ {t}
                            /\ mapped' = IF mapped = t.id THEN NoTimer ELSE mapped
                            /\ pending' = IF online THEN t.track ELSE NoTrack
                            /\ Send(ToAppend(t.track))
    BY <1>2 DEF TimerFires
  <2>2. t.track \in AnyTrack
    BY DEF MemoryTypes
  <2>3. MemoryTypes'
    BY <1>2, <2>1, <2>2, BoundsAreNumbers DEF TimerFires, MemoryTypes, NoTimer, OptTrack
  <2>4. PlayerTypes'
    BY <2>1, <2>2, SendKeeps
  <2>5. QED
    BY <1>2, <2>3, <2>4, SameKeeps DEF TimerFires
<1>3. CASE Age
  BY <1>3, SameKeeps DEF Age, MemoryTypes, prefetch
<1>4. CASE PlayerStarts
  <2>1. player.loading \in OptTrack /\ NoTrack \in OptTrack /\ <<>> \in Seq(AnyTrack)
    BY DEF PlayerTypes, Players, OptTrack
  <2>2. PlayerTypes'
    BY <1>4, <2>1 DEF PlayerStarts, PlayerTypes, Players, States
  <2>3. QED
    BY <1>4, <2>2, SameKeeps DEF PlayerStarts
<1>5. CASE Disconnect
  BY <1>5, SameKeeps DEF Disconnect
<1>6. QED
  BY <1>1, <1>2, <1>3, <1>4, <1>5

\* A queue of StartTracks and nothing in progress.
LEMMA PlaybackTypesInit == Init => PlaybackTypes
<1> SUFFICES ASSUME Init
             PROVE  PlaybackTypes
  OBVIOUS
<1>1. Len(StartTracks) \in Nat /\ DOMAIN StartTracks = 1 .. Len(StartTracks)
  BY StartIsAQueue
<1>2. \A k \in DOMAIN StartTracks :
        NewItem(k, StartTracks[k]) \in Item /\ NewItem(k, StartTracks[k]).id = k
  BY <1>1, StartIsAQueue DEF NewItem, Item, AnyTrack
<1>3. QueueTypes
  <2>1. queue = [k \in 1 .. Len(StartTracks) |-> NewItem(k, StartTracks[k])]
    BY <1>1 DEF Init
  <2>2. queue \in Seq(Item) /\ Len(queue) = Len(StartTracks)
    BY <1>1, <1>2, <2>1
  <2>3. \A k \in 1 .. Len(queue) : queue[k].id = k
    BY <1>1, <1>2, <2>1, <2>2
  <2>4. cursor = 0 /\ fresh = Len(StartTracks) + 1
    BY DEF Init
  <2>5. QED
    BY <1>1, <2>2, <2>3, <2>4 DEF QueueTypes
<1>4. NoTrack \in OptTrack
  BY DEF OptTrack
<1>5. StateTypes /\ MemoryTypes /\ PlayerTypes
  BY <1>4, SettingsAreNumbers, BoundsAreNumbers
     DEF Init, StateTypes, DeviceStates, States, Repeats, MemoryTypes, NoTimer, NoRetries,
         PlayerTypes, Players
<1>6. FrameTypes
  BY IdleIsFrame DEF Init, FrameTypes, FrameOf
<1>7. BlockTypes
  BY <1>4 DEF Init, BlockTypes, Blocks, NoBlock, SeenStates, States
<1>8. QED
  BY <1>3, <1>5, <1>6, <1>7 DEF PlaybackTypes

LEMMA PlaybackTypesNext ==
  ASSUME PlaybackTypes, [Next]_vars
  PROVE  PlaybackTypes'
<1>1. ASSUME NEW h \in Handlers, Arrival(h) \/ Resume(h)
      PROVE  PlaybackTypes'
  BY <1>1, ArrivalTypes, LoadTypes, AccountTypes, NextTypes, EndTypes, BlockStepTypes DEF Resume
<1>2. CASE UNCHANGED vars
  BY <1>2, SameKeeps DEF PlaybackTypes, vars, account, state, memory
<1>3. QED
  BY <1>1, <1>2, EnvironmentTypes DEF Next

\* Ids that differ are as many as the items that carry them.
LEMMA IdsAreCounted ==
  ASSUME QueueTypes
  PROVE  Cardinality(IdsOf(queue)) = Len(queue)
<1> DEFINE D == 1 .. Len(queue)
           f == [k \in D |-> queue[k].id]
<1>1. queue \in Seq(Item) /\ Len(queue) \in Nat /\ DOMAIN queue = D
  BY DEF QueueTypes
<1>2. f \in Bijection(D, IdsOf(queue))
  BY <1>1 DEF QueueTypes, IdsOf, Bijection, Injection, Surjection, IsInjective
<1>3. IsFiniteSet(D) /\ Cardinality(D) = Len(queue)
  BY <1>1, FS_Interval
<1>4. ExistsBijection(D, IdsOf(queue))
  BY <1>2 DEF ExistsBijection
<1> HIDE DEF D
<1>5. QED
  BY <1>3, <1>4, FS_Bijection

\* Whatever arrives and however the handlers interleave, every variable keeps
\* its shape and no two items of the queue ever share an id, also when items
\* are removed and the queue is cleared or replaced under the handlers
\* (playback.service.ts; the ids are those of queue.service.ts).
THEOREM PlaybackTyped == Spec => []TypeOK
<1>1. Spec => []PlaybackTypes
  BY PlaybackTypesInit, PlaybackTypesNext, PTL DEF Spec
<1>2. ASSUME PlaybackTypes
      PROVE  TypeOK
  <2> USE <1>2 DEF PlaybackTypes
  <2>1. \A k \in DOMAIN queue : queue[k].id < fresh /\ queue[k].track \in AnyTrack
    BY ItemsHaveTracks DEF QueueTypes
  <2>2. Cardinality(IdsOf(queue)) = Len(queue) /\ cursor \in Nat
    BY IdsAreCounted DEF QueueTypes
  <2>3. st.state \in States /\ st.track \in OptTrack
    BY DEF StateTypes, DeviceStates
  <2>4. /\ player.status \in States
        /\ {player.now, player.loading, player.id, player.buffered} \subseteq OptTrack
    BY DEF PlayerTypes, Players
  <2>5. \A h \in Handlers : frame[h].at \in Labels
    BY DEF FrameTypes, Frames
  <2>6. \A h \in Handlers : block[h].at \in {"none", "state", "queue", "index"}
    BY DEF BlockTypes, Blocks
  <2>7. /\ pending \in OptTrack /\ mapped \in 0 .. MaxTimers
        /\ \A t \in timers : t.id \in 1 .. MaxTimers /\ t.track \in AnyTrack
        /\ retries.count \in 0 .. MaxTrackRetries /\ streak \in 0 .. MaxConsecutiveErrors - 1
    BY DEF MemoryTypes
  <2>8. QED
    BY <2>1, <2>2, <2>3, <2>4, <2>5, <2>6, <2>7 DEF TypeOK
<1>3. QED
  BY <1>1, <1>2, PTL

-----------------------------------------------------------------------------
(***************************************************************************)
(* The cursor.  Each handler carries positions of a queue that it read     *)
(* some awaits ago.  They stay positions of the queue, because the queue   *)
(* has only grown since; and whatever a handler writes into the cursor is  *)
(* one of them, a position found in the same step, or the cursor itself    *)
(* moved inside the queue.                                                 *)
(***************************************************************************)

\* Where the positions that a handler holds point: n is the queue's length.
PlacedOn(f, n) ==
  /\ f.at \in {"itemIndex", "setIndex", "prevSet", "adoptSet"} => f.i < n
  /\ f.at \in {"nextIndex", "setIndex", "currentIndex"} => Len(f.q) <= n
  /\ f.at # "replace"

OnQueue(c, n) == c = 0 \/ c < n

RangeInv ==
  /\ OnQueue(cursor, Len(queue))
  /\ \A h \in Handlers : PlacedOn(frame[h], Len(queue))

\* Labels at which a handler holds no position.
Unplaced == Labels \ {"itemIndex", "setIndex", "prevSet", "adoptSet", "nextIndex",
                      "currentIndex", "replace"}

\* The queue does not shrink and the cursor ends up on it.
AccountGrows == Len(queue') >= Len(queue) /\ OnQueue(cursor', Len(queue'))

\* A handler moves on and the account at most grows.
LEMMA RangeMoves ==
  ASSUME PlaybackTypes, PlaybackTypes', RangeInv, AccountGrows,
         NEW h \in Handlers, NEW f, GoWith(h, f), PlacedOn(f, Len(queue'))
  PROVE  RangeInv'
<1>1. Len(queue) \in Nat /\ Len(queue') \in Nat /\ Len(queue') >= Len(queue)
  BY DEF PlaybackTypes, QueueTypes, AccountGrows
<1>2. ASSUME NEW g \in Handlers
      PROVE  PlacedOn(frame'[g], Len(queue'))
  <2>1. CASE g = h
    BY <2>1 DEF GoWith, PlaybackTypes, FrameTypes
  <2>2. CASE g # h
    <3>1. frame'[g] = frame[g] /\ PlacedOn(frame[g], Len(queue))
      BY <2>2 DEF GoWith, PlaybackTypes, FrameTypes, RangeInv
    <3>2. frame[g].i \in Nat /\ Len(frame[g].q) \in Nat
      BY DEF PlaybackTypes, FrameTypes, Frames
    <3>3. QED
      BY <1>1, <3>1, <3>2 DEF PlacedOn
  <2>3. QED
    BY <2>1, <2>2
<1>3. QED
  BY <1>2 DEF RangeInv, AccountGrows

\* The ways a handler goes on without holding a position.
LEMMA RangeGoes ==
  ASSUME PlaybackTypes, PlaybackTypes', RangeInv, AccountGrows, NEW h \in Handlers,
         \/ \E l \in Unplaced : Go(h, l)
         \/ Done(h)
         \/ \E t : StartLoad(h, t)
         \/ \E patch, l : Patch(h, patch, l)
  PROVE  RangeInv'
<1>1. ASSUME NEW l \in Unplaced, Go(h, l)
      PROVE  RangeInv'
  <2>1. GoWith(h, [frame[h] EXCEPT !.at = l])
    BY <1>1 DEF Go, GoWith, PlaybackTypes, FrameTypes
  <2>2. [frame[h] EXCEPT !.at = l].at = l
    BY DEF PlaybackTypes, FrameTypes, Frames
  <2>3. PlacedOn([frame[h] EXCEPT !.at = l], Len(queue'))
    BY <2>2 DEF PlacedOn, Unplaced
  <2>4. QED
    BY <2>1, <2>3, RangeMoves
<1>2. CASE Done(h)
  <2>1. GoWith(h, Idle) /\ PlacedOn(Idle, Len(queue'))
    BY <1>2 DEF Done, GoWith, PlacedOn, Idle
  <2>2. QED
    BY <2>1, RangeMoves
<1>3. ASSUME NEW t, StartLoad(h, t)
      PROVE  RangeInv'
  <2>1. GoWith(h, Loading(h, t, FALSE))
    BY <1>3 DEF StartLoad
  <2>2. Loading(h, t, FALSE).at = "load"
    BY DEF Loading, PlaybackTypes, FrameTypes, Frames
  <2>3. PlacedOn(Loading(h, t, FALSE), Len(queue'))
    BY <2>2 DEF PlacedOn
  <2>4. QED
    BY <2>1, <2>3, RangeMoves
<1>4. ASSUME NEW patch, NEW l, Patch(h, patch, l)
      PROVE  RangeInv'
  <2>1. Go(h, "patching") /\ "patching" \in Unplaced
    BY <1>4 DEF Patch, Unplaced, Labels
  <2>2. QED
    BY <1>1, <2>1
<1>5. QED
  BY <1>1, <1>2, <1>3, <1>4

\* Nothing happens to the account.
LEMMA SameAccount ==
  ASSUME PlaybackTypes, RangeInv, UNCHANGED <<queue, cursor>>
  PROVE  AccountGrows /\ (UNCHANGED frame => RangeInv')
  BY DEF AccountGrows, RangeInv, PlaybackTypes, QueueTypes

\* A handler starts without a position.
LEMMA RangeArrival ==
  ASSUME "playTracks" \notin Commands, PlaybackTypes, PlaybackTypes', RangeInv,
         NEW h \in Handlers, Arrival(h)
  PROVE  RangeInv'
<1>1. ~ PlayTracks(h)
  BY DEF PlayTracks, Command, Arrive
<1>2. UNCHANGED account
  BY DEF Arrival, Play, NextCommand, Previous, PlayTracks, Edit, PlayItem, Grace, Command, Mode,
         Stop, Transport, TrackEnds, TrackFails, Report
<1>3. AccountGrows
  BY <1>2, SameAccount DEF account
<1>4. \A t : /\ PlacedOn([Idle EXCEPT !.at = "place", !.track = t], Len(queue'))
             /\ PlacedOn([Idle EXCEPT !.at = "eof", !.track = t], Len(queue'))
             /\ PlacedOn([Idle EXCEPT !.at = "error", !.track = t], Len(queue'))
             /\ \A s : PlacedOn([Idle EXCEPT !.at = "report", !.track = t, !.s = s], Len(queue'))
  BY DEF PlacedOn, Idle
<1>5. CASE Play(h) \/ TrackEnds(h) \/ TrackFails(h) \/ Report(h)
  <2>1. PICK f : GoWith(h, f) /\ PlacedOn(f, Len(queue'))
    <3>1. CASE Play(h)
      BY <1>4, <3>1, Zenon DEF Play
    <3>2. CASE TrackEnds(h)
      BY <1>4, <3>2, Zenon DEF TrackEnds
    <3>3. CASE TrackFails(h)
      BY <1>4, <3>3, Zenon DEF TrackFails
    <3>4. CASE Report(h)
      BY <1>4, <3>4, Zenon DEF Report
    <3>5. QED
      BY <1>5, <3>1, <3>2, <3>3, <3>4
  <2>2. QED
    BY <1>3, <2>1, RangeMoves
<1>6. CASE NextCommand(h) \/ Previous(h) \/ Edit(h) \/ PlayItem(h) \/ Grace(h)
  <2>1. {"nextState", "prevIndex", "edit", "itemQueue", "parkState"} \subseteq Unplaced
    BY DEF Unplaced, Labels
  <2>2. PICK l \in Unplaced : Go(h, l)
    BY <1>6, <2>1 DEF NextCommand, Previous, Edit, PlayItem, Grace, Command
  <2>3. QED
    BY <1>3, <2>2, RangeGoes
<1>7. CASE Mode(h) \/ Stop(h) \/ Transport(h)
  <2>1. Done(h) \/ \E patch, l : Patch(h, patch, l)
    BY <1>7 DEF Mode, Stop, Transport
  <2>2. QED
    BY <1>3, <2>1, RangeGoes
<1>8. QED
  BY <1>1, <1>5, <1>6, <1>7 DEF Arrival

\* The steps that leave the account alone and hold no position afterwards.
LEMMA RangeOthers ==
  ASSUME PlaybackTypes, PlaybackTypes', RangeInv, NEW h \in Handlers,
         \/ SendLoad(h) \/ LoadPatch(h) \/ LoadTail(h) \/ CurrentIndex(h)
         \/ ParkState(h) \/ ParkPatch(h) \/ NextState(h)
         \/ Eof(h) \/ AdoptPatch(h) \/ AdoptTail(h) \/ Error(h) \/ RetryState(h)
         \/ ReportState(h) \/ ReportQueue(h) \/ ReportPatch(h)
         \/ Invalidate(h) \/ InvalidateState(h)
         \/ BlockState(h) \/ BlockQueue(h) \/ BlockIndex(h)
  PROVE  RangeInv'
<1>1. UNCHANGED account
  BY DEF SendLoad, LoadPatch, LoadTail, CurrentIndex, ParkState, ParkPatch, NextState, Eof,
         AdoptPatch, AdoptTail, Error, RetryState, ReportState, ReportQueue, ReportPatch,
         Invalidate, InvalidateState, BlockState, BlockQueue, BlockIndex
<1>2. AccountGrows /\ (UNCHANGED frame => RangeInv')
  BY <1>1, SameAccount DEF account
<1>3. /\ {"loadPatch", "ensure", "parkPatch", "nextState", "retryState"} \subseteq Unplaced
      /\ {"reportPatch", "reportQueue", "invalidateState"} \subseteq Unplaced
  BY DEF Unplaced, Labels
<1>4. frame[h] \in Frames
  BY DEF PlaybackTypes, FrameTypes
<1>5. \A t, s : /\ PlacedOn([frame[h] EXCEPT !.at = "nextQueue", !.s = s], Len(queue'))
                /\ PlacedOn([frame[h] EXCEPT !.at = "adoptQueue", !.track = t], Len(queue'))
                /\ PlacedOn([frame[h] EXCEPT !.at = "reportPatch", !.track = t], Len(queue'))
                /\ PlacedOn(Loading(h, t, TRUE), Len(queue'))
  BY <1>4 DEF PlacedOn, Frames, Loading
<1>6. CASE BlockState(h) \/ BlockQueue(h) \/ BlockIndex(h)
  BY <1>2, <1>6 DEF BlockState, BlockQueue, BlockIndex
<1>7. CASE SendLoad(h) \/ LoadPatch(h) \/ LoadTail(h) \/ CurrentIndex(h)
  <2>1. \/ \E l \in Unplaced : Go(h, l)
        \/ Done(h)
        \/ \E t : StartLoad(h, t)
        \/ \E patch, l : Patch(h, patch, l)
    BY <1>3, <1>7 DEF SendLoad, LoadPatch, LoadTail, CurrentIndex
  <2>2. QED
    BY <1>2, <2>1, RangeGoes
<1>8. CASE ParkState(h) \/ ParkPatch(h) \/ AdoptPatch(h) \/ AdoptTail(h) \/ Error(h)
           \/ ReportState(h) \/ ReportPatch(h) \/ Invalidate(h) \/ InvalidateState(h)
  <2>1. \/ \E l \in Unplaced : Go(h, l)
        \/ Done(h)
        \/ \E patch, l : Patch(h, patch, l)
    BY <1>3, <1>8 DEF ParkState, ParkPatch, AdoptPatch, AdoptTail, Error, ReportState,
                      ReportPatch, Invalidate, InvalidateState
  <2>2. QED
    BY <1>2, <2>1, RangeGoes
<1>9. CASE NextState(h) \/ ReportQueue(h)
  BY <1>2, <1>5, <1>9, RangeMoves, Zenon DEF NextState, ReportQueue
<1>10. CASE Eof(h)
  <2>1. \/ Done(h) \/ Go(h, "nextState")
        \/ GoWith(h, [frame[h] EXCEPT !.at = "adoptQueue", !.track = pending])
    BY <1>10 DEF Eof
  <2>2. QED
    BY <1>2, <1>3, <1>5, <2>1, RangeGoes, RangeMoves, Zenon
<1>11. CASE RetryState(h)
  <2>1. \/ Go(h, "nextState") \/ Patch(h, [state |-> "stopped"], "idle")
        \/ GoWith(h, Loading(h, st.track, TRUE))
    BY <1>11 DEF RetryState
  <2>2. QED
    BY <1>2, <1>3, <1>5, <2>1, RangeGoes, RangeMoves, Zenon
<1>12. QED
  BY <1>6, <1>7, <1>8, <1>9, <1>10, <1>11

\* The steps that read a position or a queue.
LEMMA RangeReads ==
  ASSUME PlaybackTypes, PlaybackTypes', RangeInv, NEW h \in Handlers,
         \/ CurrentQueue(h) \/ ItemQueue(h) \/ NextQueue(h) \/ NextIndex(h)
         \/ PrevIndex(h) \/ AdoptQueue(h)
  PROVE  RangeInv'
<1>1. UNCHANGED account
  BY DEF CurrentQueue, ItemQueue, NextQueue, NextIndex, PrevIndex, AdoptQueue
<1>2. AccountGrows /\ queue' = queue
  BY <1>1, SameAccount DEF account
<1>3. {"advance", "nextState"} \subseteq Unplaced
  BY DEF Unplaced, Labels
<1>4. /\ frame[h] \in Frames /\ frame[h].q \in Seq(Item) /\ PlacedOn(frame[h], Len(queue))
      /\ queue \in Seq(Item) /\ Len(queue) \in Nat /\ cursor \in Nat
      /\ OnQueue(cursor, Len(queue))
  BY DEF PlaybackTypes, FrameTypes, Frames, QueueTypes, RangeInv
<1>5. CASE CurrentQueue(h)
  <2>1. PlacedOn([frame[h] EXCEPT !.at = "currentIndex", !.q = queue], Len(queue'))
    BY <1>2, <1>4 DEF PlacedOn, Frames
  <2>2. QED
    BY <1>2, <1>5, <2>1, RangeMoves DEF CurrentQueue
<1>6. CASE NextQueue(h)
  <2>1. PlacedOn([frame[h] EXCEPT !.at = "nextIndex", !.q = queue], Len(queue'))
    BY <1>2, <1>4 DEF PlacedOn, Frames
  <2>2. QED
    BY <1>2, <1>6, <2>1, RangeMoves DEF NextQueue
<1>7. CASE ItemQueue(h)
  <2>1. ASSUME NEW i \in DOMAIN queue
        PROVE  PlacedOn([frame[h] EXCEPT !.at = "itemIndex", !.i = i - 1,
                                         !.track = queue[i].track], Len(queue'))
    <3>1. i - 1 < Len(queue)
      BY <1>4
    <3>2. QED
      BY <1>2, <1>4, <3>1 DEF PlacedOn, Frames
  <2>2. QED
    BY <1>2, <1>7, <2>1, RangeGoes, RangeMoves DEF ItemQueue
<1>8. CASE NextIndex(h)
  <2> DEFINE f == frame[h]
             k == FirstWithTrack(f.q, pending)
  <2>1. Len(f.q) <= Len(queue)
    BY <1>4, <1>8 DEF NextIndex, At, PlacedOn
  <2>2. ASSUME NEW i \in 0 .. Len(f.q) - 1, GoWith(h, [f EXCEPT !.at = "setIndex", !.i = i])
        PROVE  RangeInv'
    <3>1. PlacedOn([f EXCEPT !.at = "setIndex", !.i = i], Len(queue'))
      BY <1>2, <1>4, <2>1 DEF PlacedOn, Frames
    <3>2. QED
      BY <1>2, <2>2, <3>1, RangeMoves
  <2>3. Turn(h, cursor) => RangeInv'
    <3>1. Jumps(f.q, cursor, f.s) \subseteq 0 .. Len(f.q) - 1
      BY <1>4, JumpsArePositions
    <3>2. QED
      BY <1>2, <1>3, <2>2, <3>1, RangeGoes DEF Turn
  <2>4. k >= 0 => k \in 0 .. Len(f.q) - 1
    BY <1>4, FirstIsPosition
  <2>5. \/ \E t : StartLoad(h, t)
        \/ k >= 0 /\ GoWith(h, [f EXCEPT !.at = "setIndex", !.i = k])
        \/ Turn(h, cursor)
    BY <1>8 DEF NextIndex
  <2> HIDE DEF k
  <2>6. QED
    BY <1>2, <2>2, <2>3, <2>4, <2>5, RangeGoes
<1>9. CASE PrevIndex(h)
  <2>1. CASE cursor > 0
    <3>1. cursor - 1 < Len(queue)
      BY <1>4, <2>1 DEF OnQueue
    <3>2. PlacedOn([frame[h] EXCEPT !.at = "prevSet", !.i = cursor - 1, !.feed = FALSE],
                   Len(queue'))
      BY <1>2, <1>4, <3>1 DEF PlacedOn, Frames
    <3>3. QED
      BY <1>2, <1>9, <2>1, <3>2, RangeMoves DEF PrevIndex
  <2>2. QED
    BY <1>2, <1>9, <2>1, RangeGoes DEF PrevIndex
<1>10. CASE AdoptQueue(h)
  <2> DEFINE k == FirstWithTrack(queue, frame[h].track)
  <2>1. k \in -1 .. Len(queue) - 1
    BY <1>4, FirstIsPosition
  <2>2. \/ k >= 0 /\ GoWith(h, [frame[h] EXCEPT !.at = "adoptSet", !.i = k])
        \/ Go(h, "nextState")
    BY <1>10 DEF AdoptQueue
  <2> HIDE DEF k
  <2>3. k >= 0 => PlacedOn([frame[h] EXCEPT !.at = "adoptSet", !.i = k], Len(queue'))
    BY <1>2, <1>4, <2>1 DEF PlacedOn, Frames
  <2>4. QED
    BY <1>2, <1>3, <2>2, <2>3, RangeGoes, RangeMoves
<1>11. QED
  BY <1>5, <1>6, <1>7, <1>8, <1>9, <1>10

\* The steps that write the cursor or add to the queue.
LEMMA RangeWrites ==
  ASSUME GrowOnly, PlaybackTypes, PlaybackTypes', RangeInv, NEW h \in Handlers,
         \/ PlaceCurrentStep(h) \/ InsertStep(h) \/ ReplaceStep(h) \/ ItemIndex(h) \/ Ensure(h)
         \/ SetIndexStep(h) \/ AdvanceStep(h) \/ PrevSet(h) \/ AdoptSet(h) \/ EditQueue(h)
  PROVE  RangeInv'
<1>1. {"insert", "place", "current", "refill", "advanceAgain", "adoptPatch", "invalidate"}
        \subseteq Unplaced
  BY DEF Unplaced, Labels
<1>2. /\ frame[h] \in Frames /\ PlacedOn(frame[h], Len(queue))
      /\ queue \in Seq(Item) /\ Len(queue) \in Nat /\ cursor \in Nat
      /\ OnQueue(cursor, Len(queue)) /\ QueueTypes
  BY DEF PlaybackTypes, FrameTypes, QueueTypes, RangeInv
<1>3. ~ ReplaceStep(h)
  BY <1>2 DEF ReplaceStep, At, PlacedOn
<1>4. CASE PlaceCurrentStep(h)
  <2>1. FirstWithTrack(queue, frame[h].track) \in -1 .. Len(queue) - 1
    BY <1>2, FirstIsPosition
  <2>2. AccountGrows
    BY <1>2, <1>4, <2>1 DEF PlaceCurrentStep, PlaceCurrent, Ok, AccountGrows, OnQueue
  <2>3. (\E t : StartLoad(h, t)) \/ Go(h, "insert")
    BY <1>4 DEF PlaceCurrentStep
  <2>4. QED
    BY <1>1, <2>2, <2>3, RangeGoes
<1>5. CASE InsertStep(h)
  <2>1. frame[h].track \in AnyTrack
    BY <1>5 DEF InsertStep, At, PlaybackTypes, FrameTypes, FrameOf
  <2>2. Lesser(cursor, Len(queue)) + 1 \in 1 .. Len(queue) + 1
    BY <1>2 DEF Lesser
  <2>3. queue' = InsertAt(queue, Lesser(cursor, Len(queue)) + 1, NewItem(fresh, frame[h].track))
    BY <1>5 DEF InsertStep, InsertAtCurrent, Ok
  <2>4. Len(queue') = Len(queue) + 1
    BY <1>2, <1>5, <2>1, <2>2, <2>3, InsertKeeps DEF InsertStep
  <2>5. AccountGrows
    BY <1>2, <1>5, <2>4 DEF InsertStep, AccountGrows, OnQueue
  <2>6. QED
    BY <1>5, <2>5, RangeGoes DEF InsertStep
<1>6. CASE ItemIndex(h) \/ PrevSet(h) \/ AdoptSet(h)
  <2>1. cursor' < Len(queue') /\ queue' = queue
    BY <1>2, <1>6 DEF ItemIndex, PrevSet, AdoptSet, At, PlacedOn
  <2>2. AccountGrows
    BY <1>2, <2>1 DEF AccountGrows, OnQueue
  <2>3. QED
    BY <1>1, <1>6, <2>2, RangeGoes DEF ItemIndex, PrevSet, AdoptSet
<1>7. CASE SetIndexStep(h)
  <2>1. cursor' < Len(queue') /\ queue' = queue
    BY <1>2, <1>7 DEF SetIndexStep, At, PlacedOn
  <2>2. AccountGrows
    BY <1>2, <2>1 DEF AccountGrows, OnQueue
  <2>3. QED
    BY <1>7, <2>2, RangeGoes DEF SetIndexStep
<1>8. CASE Ensure(h)
  <2>1. Len(queue') >= Len(queue) /\ cursor' = cursor
    BY <1>2, <1>8, RefillKeeps DEF Ensure
  <2>2. AccountGrows
    BY <1>2, <2>1 DEF AccountGrows, OnQueue, PlaybackTypes, QueueTypes
  <2>3. QED
    BY <1>1, <1>8, <2>2, RangeGoes DEF Ensure
<1>9. CASE AdvanceStep(h)
  <2>1. OnQueue(cursor', Len(queue)) /\ queue' = queue
    BY <1>2, <1>9 DEF AdvanceStep, Advance, Ok, Null, OnQueue
  <2>2. AccountGrows
    BY <1>2, <2>1 DEF AccountGrows
  <2>3. \/ \E l \in Unplaced : Go(h, l)
        \/ Done(h)
        \/ \E t : StartLoad(h, t)
        \/ \E patch, l : Patch(h, patch, l)
    BY <1>1, <1>9 DEF AdvanceStep
  <2>4. QED
    BY <2>2, <2>3, RangeGoes
<1>10. CASE EditQueue(h)
  <2>1. Len(queue') = Len(queue) + 1 /\ cursor' = cursor
    BY <1>2, <1>10, EditKeeps
  <2>2. AccountGrows
    BY <1>2, <2>1 DEF AccountGrows, OnQueue
  <2>3. QED
    BY <1>1, <1>10, <2>2, RangeGoes DEF EditQueue
<1>11. QED
  BY <1>3, <1>4, <1>5, <1>6, <1>7, <1>8, <1>9, <1>10

\* The patches of the chain resume handlers that hold no position.
LEMMA RangeEnvironment ==
  ASSUME PlaybackTypes, PlaybackTypes', RangeInv,
         ApplyPatch \/ TimerFires \/ Age \/ PlayerStarts \/ Disconnect \/ UNCHANGED vars
  PROVE  RangeInv'
<1>1. UNCHANGED account
  BY DEF ApplyPatch, TimerFires, Age, PlayerStarts, Disconnect, vars, account
<1>2. AccountGrows /\ (UNCHANGED frame => RangeInv')
  BY <1>1, SameAccount DEF account
<1>3. CASE ApplyPatch
  <2> DEFINE p == Head(chain)
  <2>1. /\ p \in Waiting
        /\ frame' = [frame EXCEPT ![p.by] = IF p.next = "idle" THEN Idle
                                            ELSE [@ EXCEPT !.at = p.next]]
    BY <1>3 DEF ApplyPatch, PlaybackTypes, StateTypes
  <2> HIDE DEF p
  <2>2. p.by \in Handlers /\ p.next \in {"idle", "loadTail", "adoptTail"}
    BY <2>1 DEF Waiting
  <2>3. Done(p.by) \/ (p.next \in Unplaced /\ Go(p.by, p.next))
    <3>1. CASE p.next = "idle"
      BY <2>1, <3>1 DEF Done
    <3>2. CASE p.next # "idle"
      <4>1. p.next \in Unplaced
        BY <2>2, <3>2 DEF Unplaced, Labels
      <4>2. Go(p.by, p.next)
        BY <2>1, <3>2 DEF Go
      <4>3. QED
        BY <4>1, <4>2
    <3>3. QED
      BY <3>1, <3>2
  <2>4. QED
    BY <1>2, <2>2, <2>3, RangeGoes
<1>4. QED
  BY <1>2, <1>3 DEF TimerFires, Age, PlayerStarts, Disconnect, vars

\* Requests of several devices and tabs, events of the player and the refills
\* of the auto-queue interleave at every await; setIndex writes a position that
\* was read before.  As long as nothing shrinks the queue (no clear, remove or
\* playTracks) the cursor never leaves it: PlaybackService.next, previous,
\* play and onTrackEnded, and the play button of a queue item.
THEOREM CursorStaysInRange ==
  ASSUME GrowOnly, "playTracks" \notin Commands
  PROVE  Spec => []CursorInRange
<1>1. Init => PlaybackTypes /\ RangeInv
  <2>1. Init => RangeInv
    BY DEF Init, RangeInv, OnQueue, PlacedOn, Idle
  <2>2. QED
    BY <2>1, PlaybackTypesInit
<1>2. PlaybackTypes /\ RangeInv /\ [Next]_vars => (PlaybackTypes /\ RangeInv)'
  <2> SUFFICES ASSUME PlaybackTypes, RangeInv, [Next]_vars
               PROVE  PlaybackTypes' /\ RangeInv'
    OBVIOUS
  <2>1. PlaybackTypes'
    BY PlaybackTypesNext
  <2>2. ASSUME NEW h \in Handlers, Arrival(h) \/ Resume(h)
        PROVE  RangeInv'
    BY <2>1, <2>2, RangeArrival, RangeOthers, RangeReads, RangeWrites DEF Resume
  <2>3. QED
    BY <2>1, <2>2, RangeEnvironment DEF Next
<1>3. PlaybackTypes /\ RangeInv => CursorInRange
  BY DEF PlaybackTypes, QueueTypes, RangeInv, OnQueue, CursorInRange
<1>4. QED
  BY <1>1, <1>2, <1>3, PTL DEF Spec

-----------------------------------------------------------------------------
(***************************************************************************)
(* The retry budget.  With one handler at a time, the loads sent since the *)
(* last command that starts a track, or natural end, are paid for by the   *)
(* tracks given up, streak of them with MAX_TRACK_RETRIES + 1 loads each,  *)
(* by the load of the track now played, and by the retries spent on it.  A *)
(* track may only be swapped in the device state, which hides the retries  *)
(* spent on it, when none of them is needed to pay: a report swaps it at   *)
(* any time, and is left out.  Queues play no part, so that nothing is     *)
(* assumed of what requests do to them.                                    *)
(***************************************************************************)
OneHandler == \A g, h \in Handlers : g = h

\* What the tracks given up so far pay for.
Paid == streak * (MaxTrackRetries + 1)

\* Labels of a handler that is on its way to a first load of a track, or to
\* another track in the device state.
Fresh == {"place", "insert", "replace", "current", "currentIndex", "itemQueue", "itemIndex",
          "nextState", "nextQueue", "nextIndex", "setIndex", "advance", "refill", "advanceAgain",
          "prevIndex", "prevSet", "adoptQueue", "adoptSet", "adoptPatch",
          "report", "reportQueue", "reportPatch"}

Fields == {"at", "s", "q", "i", "track", "retry", "feed"}
IsFrame(f) == f = [k \in Fields |-> f[k]]

\* n loads are sent, paid is Paid, u retries are spent on the track t.
Spent(f, n, paid, u, t) ==
  /\ n <= paid + 1 + u
  /\ f.at \in Fresh => n <= paid
  /\ f.at = "load" => IF f.retry THEN n <= paid + u /\ f.track = t ELSE n <= paid
  /\ f.at = "loadPatch" => n <= paid + 1 \/ f.track = t

\* A patch that swaps the track costs nothing that is owed.
Owes(patch, n, paid, t) == "track" \in DOMAIN patch => n <= paid + 1 \/ patch.track = t

BudgetTypes ==
  /\ streak \in 0 .. MaxConsecutiveErrors - 1
  /\ retries.count \in 0 .. MaxTrackRetries
  /\ failLoads \in Nat
  /\ st = [k \in {"state", "track", "shuffle", "repeat"} |-> st[k]]
  /\ frame = [h \in Handlers |-> frame[h]]
  /\ \A h \in Handlers : IsFrame(frame[h])

\* The one handler, if it waits, waits for its own patch.
ChainInv ==
  chain # <<>> =>
    /\ chain = <<chain[1]>>
    /\ chain[1].by \in Handlers
    /\ frame[chain[1].by].at = "patching"
    /\ chain[1].next \in {"idle", "loadTail", "adoptTail"}
    /\ Owes(chain[1].patch, failLoads, Paid, st.track)

BudgetInv ==
  /\ BudgetTypes
  /\ failLoads <= Paid + 1 + Used
  /\ \A h \in Handlers : Spent(frame[h], failLoads, Paid, Used, st.track)
  /\ ChainInv

\* The arithmetic of the budget.
LEMMA BudgetNumbers ==
  ASSUME BudgetTypes
  PROVE  /\ Paid \in Nat /\ Used \in 0 .. MaxTrackRetries
         /\ (streak + 1) * (MaxTrackRetries + 1) = Paid + MaxTrackRetries + 1
         /\ 0 * (MaxTrackRetries + 1) = 0
         /\ Paid + 1 + MaxTrackRetries <= (MaxTrackRetries + 1) * MaxConsecutiveErrors
<1>1. /\ streak \in Nat /\ MaxTrackRetries \in Nat /\ MaxConsecutiveErrors \in Nat
      /\ streak + 1 <= MaxConsecutiveErrors
  BY SettingsAreNumbers DEF BudgetTypes
<1>2. Used \in 0 .. MaxTrackRetries
  BY <1>1 DEF Used, BudgetTypes
<1>3. Paid \in Nat
  BY <1>1 DEF Paid
<1>4. (streak + 1) * (MaxTrackRetries + 1) = Paid + MaxTrackRetries + 1
  BY <1>1 DEF Paid
<1>5. (streak + 1) * (MaxTrackRetries + 1) <= MaxConsecutiveErrors * (MaxTrackRetries + 1)
  <2>1. \A x, y, z \in Nat : x <= y => x * z <= y * z
    OBVIOUS
  <2>2. QED
    BY <1>1, <2>1
<1>6. MaxConsecutiveErrors * (MaxTrackRetries + 1) = (MaxTrackRetries + 1) * MaxConsecutiveErrors
  BY <1>1
<1>7. QED
  BY <1>1, <1>2, <1>3, <1>4, <1>5, <1>6

\* A handler moves on, and it is the one that moves.
LEMMA FrameChanges ==
  ASSUME OneHandler, BudgetTypes, NEW h \in Handlers, NEW f, IsFrame(f), GoWith(h, f)
  PROVE  /\ frame' = [g \in Handlers |-> frame'[g]]
         /\ \A g \in Handlers : frame'[g] = f /\ IsFrame(frame'[g])
  BY DEF OneHandler, BudgetTypes, GoWith

\* Go, Done and Loading, seen as the frames they make.
Moved(h, l) == [frame[h] EXCEPT !.at = l]

LEMMA FramesMade ==
  ASSUME BudgetTypes, NEW h \in Handlers
  PROVE  /\ \A l : /\ IsFrame(Moved(h, l))
                   /\ Moved(h, l).at = l
                   /\ Moved(h, l).track = frame[h].track
                   /\ Go(h, l) => GoWith(h, Moved(h, l))
         /\ Done(h) => GoWith(h, Idle)
         /\ IsFrame(Idle) /\ Idle.at = "idle"
         /\ \A t, retry : /\ IsFrame(Loading(h, t, retry))
                          /\ Loading(h, t, retry).at = "load"
                          /\ Loading(h, t, retry).track = t
                          /\ Loading(h, t, retry).retry = retry
<1>1. IsFrame(frame[h]) /\ frame = [g \in Handlers |-> frame[g]]
  BY DEF BudgetTypes
<1>2. ASSUME NEW l
      PROVE  /\ IsFrame(Moved(h, l))
             /\ Moved(h, l).at = l
             /\ Moved(h, l).track = frame[h].track
             /\ Go(h, l) => GoWith(h, Moved(h, l))
  BY <1>1 DEF Moved, Go, GoWith, IsFrame, Fields
<1>3. IsFrame(Idle) /\ Idle.at = "idle"
  BY DEF IsFrame, Fields, Idle
<1>4. ASSUME NEW t, NEW retry
      PROVE  /\ IsFrame(Loading(h, t, retry))
             /\ Loading(h, t, retry).at = "load"
             /\ Loading(h, t, retry).track = t
             /\ Loading(h, t, retry).retry = retry
  BY <1>1 DEF Loading, IsFrame, Fields
<1>5. QED
  BY <1>2, <1>3, <1>4 DEF Done, GoWith

budget == <<st, chain, retries, streak, failLoads>>

\* A handler moves on and nothing of the budget changes.
LEMMA BudgetMoves ==
  ASSUME OneHandler, BudgetInv, UNCHANGED budget, NEW h \in Handlers,
         frame[h].at # "patching", NEW f, IsFrame(f), GoWith(h, f),
         Spent(f, failLoads, Paid, Used, st.track)
  PROVE  BudgetInv'
<1>1. BudgetTypes'
  BY FrameChanges DEF BudgetInv, BudgetTypes, budget
<1>2. Paid' = Paid /\ Used' = Used /\ st.track' = st.track /\ failLoads' = failLoads
  BY DEF Paid, Used, budget
<1>3. \A g \in Handlers : Spent(frame'[g], failLoads', Paid', Used', st.track')
  BY <1>2, FrameChanges DEF BudgetInv
<1>4. chain = <<>> /\ chain' = <<>>
  BY DEF BudgetInv, ChainInv, OneHandler, budget
<1>5. QED
  BY <1>1, <1>2, <1>3, <1>4 DEF BudgetInv, ChainInv

\* Labels that say nothing of the budget.
Free == Labels \ (Fresh \cup {"patching", "load", "loadPatch"})

LEMMA BudgetGoes ==
  ASSUME OneHandler, BudgetInv, UNCHANGED budget, NEW h \in Handlers,
         frame[h].at # "patching", NEW f, IsFrame(f), GoWith(h, f),
         \/ f.at \in Free
         \/ f.at \in Fresh /\ frame[h].at \in Fresh
  PROVE  BudgetInv'
<1>1. failLoads <= Paid + 1 + Used /\ Spent(frame[h], failLoads, Paid, Used, st.track)
  BY DEF BudgetInv
<1>2. f.at \notin {"load", "loadPatch"}
  BY DEF Free, Fresh
<1>3. f.at \in Fresh => failLoads <= Paid
  BY <1>1 DEF Free, Spent
<1>4. Spent(f, failLoads, Paid, Used, st.track)
  BY <1>1, <1>2, <1>3 DEF Spent
<1>5. QED
  BY <1>4, BudgetMoves

\* A first load of a track begins: the retries are reset.
LEMMA BudgetLoads ==
  ASSUME OneHandler, BudgetInv, UNCHANGED <<st, chain, streak, failLoads>>,
         NEW h \in Handlers, frame[h].at \in Fresh, NEW t, StartLoad(h, t)
  PROVE  BudgetInv'
<1> DEFINE f == Loading(h, t, FALSE)
<1>0. BudgetTypes
  BY DEF BudgetInv
<1>1. IsFrame(f) /\ GoWith(h, f) /\ f.at = "load" /\ ~f.retry /\ retries' = NoRetries
  <2>1. GoWith(h, f) /\ retries' = NoRetries
    BY DEF StartLoad
  <2>2. IsFrame(frame[h])
    BY <1>0 DEF BudgetTypes
  <2>3. IsFrame(f) /\ f.at = "load" /\ ~f.retry
    BY <2>2 DEF Loading, IsFrame, Fields
  <2>4. QED
    BY <2>1, <2>3
<1> HIDE DEF f
<1>2. BudgetTypes'
  BY <1>1, FrameChanges, SettingsAreNumbers DEF BudgetInv, BudgetTypes, NoRetries
<1>3. Paid' = Paid /\ Used' = 0 /\ failLoads' = failLoads /\ failLoads <= Paid /\ Paid \in Nat
  BY <1>1, BudgetNumbers DEF Paid, Used, NoRetries, BudgetInv, Spent
<1>4. failLoads \in Nat
  BY DEF BudgetInv, BudgetTypes
<1>5. Spent(f, failLoads', Paid', Used', st.track')
  BY <1>1, <1>3, <1>4 DEF Spent, Fresh
<1>6. \A g \in Handlers : Spent(frame'[g], failLoads', Paid', Used', st.track')
  BY <1>1, <1>5, FrameChanges DEF BudgetInv
<1>7. chain' = <<>>
  BY DEF BudgetInv, ChainInv, OneHandler, Fresh
<1>8. QED
  BY <1>2, <1>3, <1>4, <1>6, <1>7 DEF BudgetInv, ChainInv

\* A patch is queued; one that swaps the track owes nothing.
LEMMA BudgetPatches ==
  ASSUME OneHandler, BudgetInv, UNCHANGED <<st, retries, streak, failLoads>>,
         NEW h \in Handlers, frame[h].at # "patching",
         NEW patch, NEW l \in {"idle", "loadTail", "adoptTail"}, Patch(h, patch, l),
         Owes(patch, failLoads, Paid, st.track)
  PROVE  BudgetInv'
<1> DEFINE f == Moved(h, "patching")
<1>1. IsFrame(f) /\ GoWith(h, f) /\ f.at = "patching"
  BY FramesMade DEF BudgetInv, Patch
<1> HIDE DEF f
<1>2. BudgetTypes'
  BY <1>1, FrameChanges DEF BudgetInv, BudgetTypes
<1>3. Paid' = Paid /\ Used' = Used /\ st.track' = st.track /\ failLoads' = failLoads
      /\ failLoads <= Paid + 1 + Used
  BY DEF Paid, Used, BudgetInv
<1>4. Spent(f, failLoads', Paid', Used', st.track')
  BY <1>1, <1>3 DEF Spent, Fresh
<1>5. \A g \in Handlers : Spent(frame'[g], failLoads', Paid', Used', st.track')
  BY <1>1, <1>4, FrameChanges DEF BudgetInv
<1>6. chain = <<>>
  BY DEF BudgetInv, ChainInv, OneHandler
<1>7. chain' = <<[by |-> h, patch |-> patch, next |-> l]>>
  BY <1>6 DEF Patch
<1>8. frame'[h].at = "patching"
  BY <1>1, FrameChanges DEF BudgetInv
<1>9. ChainInv'
  BY <1>3, <1>7, <1>8 DEF ChainInv
<1>10. QED
  BY <1>2, <1>3, <1>5, <1>9 DEF BudgetInv

\* A command or an event arrives.  One that starts a track opens a new budget;
\* the others cost nothing.
LEMMA BudgetArrival ==
  ASSUME OneHandler, "report" \notin Commands, BudgetInv, NEW h \in Handlers, Arrival(h)
  PROVE  BudgetInv'
<1>1. /\ UNCHANGED <<st, retries, streak>>
      /\ frame[h].at = "idle"
  BY DEF Arrival, Play, NextCommand, Previous, PlayTracks, Edit, PlayItem, Grace, Command, Mode,
         Stop, Transport, TrackEnds, TrackFails, Report, Arrive, At, state, memory
<1>2. BudgetTypes /\ chain = <<>>
  BY <1>1 DEF BudgetInv, ChainInv, OneHandler
<1>3. /\ Paid' = Paid /\ Used' = Used /\ Paid \in Nat /\ Used \in Nat
      /\ failLoads \in Nat /\ failLoads <= Paid + 1 + Used
  <2>1. Paid' = Paid /\ Used' = Used
    BY <1>1 DEF Paid, Used
  <2>2. Paid \in Nat /\ Used \in 0 .. MaxTrackRetries
    BY <1>2, BudgetNumbers
  <2>3. QED
    BY <2>1, <2>2, SettingsAreNumbers DEF BudgetInv, BudgetTypes
<1>4. ASSUME NEW f, IsFrame(f), GoWith(h, f), failLoads' = 0 \/ failLoads' = failLoads,
             Spent(f, failLoads', Paid, Used, st.track), UNCHANGED chain
      PROVE  BudgetInv'
  <2>1. BudgetTypes'
    BY <1>1, <1>2, <1>4, FrameChanges DEF BudgetTypes
  <2>2. \A g \in Handlers : Spent(frame'[g], failLoads', Paid', Used', st.track')
    BY <1>1, <1>2, <1>3, <1>4, FrameChanges
  <2>3. failLoads' <= Paid' + 1 + Used'
    BY <1>3, <1>4
  <2>4. ChainInv'
    BY <1>2, <1>4 DEF ChainInv
  <2>5. QED
    BY <2>1, <2>2, <2>3, <2>4 DEF BudgetInv
<1>5. ASSUME failLoads' = 0, UNCHANGED chain, NEW f, IsFrame(f), f.at # "load", GoWith(h, f)
      PROVE  BudgetInv'
  <2>1. Spent(f, failLoads', Paid, Used, st.track)
    BY <1>3, <1>5 DEF Spent
  <2>2. QED
    BY <1>4, <1>5, <2>1
<1>6. ASSUME UNCHANGED failLoads, UNCHANGED chain, NEW f, IsFrame(f), f.at \in Free, GoWith(h, f)
      PROVE  BudgetInv'
  <2>1. f.at \notin Fresh /\ f.at # "load" /\ f.at # "loadPatch"
    BY <1>6 DEF Free
  <2>2. Spent(f, failLoads', Paid, Used, st.track)
    BY <1>3, <1>6, <2>1 DEF Spent
  <2>3. QED
    BY <1>4, <1>6, <2>2
<1>7. ASSUME UNCHANGED failLoads, NEW patch, Patch(h, patch, "idle"), "track" \notin DOMAIN patch
      PROVE  BudgetInv'
  <2>1. Owes(patch, failLoads, Paid, st.track)
    BY <1>7 DEF Owes
  <2>2. QED
    BY <1>1, <1>7, <2>1, BudgetPatches
<1>8. \A t : /\ IsFrame([Idle EXCEPT !.at = "place", !.track = t])
             /\ IsFrame([Idle EXCEPT !.at = "eof", !.track = t])
             /\ IsFrame([Idle EXCEPT !.at = "error", !.track = t])
  BY Zenon DEF IsFrame, Fields, Idle
<1>9. \A t : /\ [Idle EXCEPT !.at = "place", !.track = t].at = "place"
             /\ [Idle EXCEPT !.at = "eof", !.track = t].at = "eof"
             /\ [Idle EXCEPT !.at = "error", !.track = t].at = "error"
  BY DEF Idle
<1>10. CASE Play(h)
  <2>1. PICK t : GoWith(h, [Idle EXCEPT !.at = "place", !.track = t])
    BY <1>10, Zenon DEF Play
  <2>2. failLoads' = 0
    BY <1>10 DEF Play, Arrive, StartsATrack
  <2>3. UNCHANGED chain
    BY <1>10 DEF Play, state
  <2>4. QED
    BY <1>5, <1>8, <1>9, <2>1, <2>2, <2>3, Zenon
<1>11. CASE TrackEnds(h) \/ TrackFails(h)
  <2>1. PICK f : IsFrame(f) /\ f.at \in {"eof", "error"} /\ GoWith(h, f)
    <3>1. CASE TrackEnds(h)
      BY <1>8, <1>9, <3>1, Zenon DEF TrackEnds
    <3>2. CASE TrackFails(h)
      BY <1>8, <1>9, <3>2, Zenon DEF TrackFails
    <3>3. QED
      BY <1>11, <3>1, <3>2
  <2>2. UNCHANGED failLoads
    BY <1>11 DEF TrackEnds, TrackFails, Arrive, StartsATrack
  <2>3. UNCHANGED chain
    BY <1>11 DEF TrackEnds, TrackFails, state
  <2>4. {"eof", "error"} \subseteq Free
    BY DEF Free, Fresh, Labels
  <2>5. QED
    BY <1>6, <2>1, <2>2, <2>3, <2>4
<1>12. CASE NextCommand(h) \/ Previous(h) \/ PlayTracks(h) \/ PlayItem(h)
  <2>1. PICK l \in {"nextState", "prevIndex", "replace", "itemQueue"} : Go(h, l)
    BY <1>12 DEF NextCommand, Previous, PlayTracks, PlayItem, Command
  <2>2. failLoads' = 0 /\ UNCHANGED chain
    BY <1>12 DEF NextCommand, Previous, PlayTracks, PlayItem, Command, Arrive, StartsATrack, state
  <2>3. IsFrame(Moved(h, l)) /\ Moved(h, l).at = l /\ GoWith(h, Moved(h, l))
    BY <1>2, <2>1, FramesMade
  <2>4. l # "load"
    BY <2>1
  <2>5. QED
    BY <1>5, <2>2, <2>3, <2>4
<1>13. CASE Edit(h) \/ Grace(h)
  <2>1. PICK l \in {"edit", "parkState"} : Go(h, l)
    BY <1>13 DEF Edit, Grace, Command
  <2>2. UNCHANGED failLoads /\ UNCHANGED chain
    BY <1>13 DEF Edit, Grace, Command, Arrive, StartsATrack, state
  <2>3. IsFrame(Moved(h, l)) /\ Moved(h, l).at = l /\ GoWith(h, Moved(h, l))
    BY <1>2, <2>1, FramesMade
  <2>4. l \in Free
    BY <2>1 DEF Free, Fresh, Labels
  <2>5. QED
    BY <1>6, <2>2, <2>3, <2>4
<1>14. CASE Mode(h)
  <2>1. UNCHANGED failLoads
    BY <1>14 DEF Mode, Arrive, StartsATrack
  <2>2. ASSUME NEW on \in BOOLEAN, Patch(h, [shuffle |-> on], "idle")
        PROVE  BudgetInv'
    <3>1. "track" \notin DOMAIN [shuffle |-> on]
      OBVIOUS
    <3>2. QED
      BY <1>7, <2>1, <2>2, <3>1, Zenon
  <2>3. ASSUME NEW r \in {"off", "all", "one"}, Patch(h, [repeat |-> r], "idle")
        PROVE  BudgetInv'
    <3>1. "track" \notin DOMAIN [repeat |-> r]
      OBVIOUS
    <3>2. QED
      BY <1>7, <2>1, <2>3, <3>1, Zenon
  <2>4. \/ \E on \in BOOLEAN : Patch(h, [shuffle |-> on], "idle")
        \/ \E r \in {"off", "all", "one"} : Patch(h, [repeat |-> r], "idle")
    BY <1>14, Zenon DEF Mode
  <2>5. QED
    BY <2>2, <2>3, <2>4, Zenon
<1>15. CASE Transport(h)
  <2>1. UNCHANGED failLoads
    BY <1>15 DEF Transport, Arrive, StartsATrack
  <2>2. PICK patch : Patch(h, patch, "idle") /\ "track" \notin DOMAIN patch
    BY <1>15 DEF Transport
  <2>3. QED
    BY <1>7, <2>1, <2>2
<1>16. CASE Stop(h)
  <2>1. UNCHANGED failLoads
    BY <1>16 DEF Stop, Arrive, StartsATrack
  <2>2. CASE online
    <3>1. PICK patch : Patch(h, patch, "idle") /\ "track" \notin DOMAIN patch
      BY <1>16, <2>2 DEF Stop
    <3>2. QED
      BY <1>7, <2>1, <3>1
  <2>3. CASE ~online
    <3>1. GoWith(h, Idle) /\ IsFrame(Idle) /\ Idle.at = "idle" /\ UNCHANGED chain
      BY <1>2, <1>16, <2>3, FramesMade DEF Stop
    <3>2. Idle.at \in Free
      BY <3>1 DEF Free, Fresh, Labels
    <3>3. QED
      BY <1>6, <2>1, <3>1, <3>2
  <2>4. QED
    BY <2>2, <2>3
<1>17. ~ Report(h)
  BY DEF Report, Arrive
<1>18. QED
  BY <1>10, <1>11, <1>12, <1>13, <1>14, <1>15, <1>16, <1>17 DEF Arrival

\* A handler or a prefetch block goes on.
LEMMA BudgetResume ==
  ASSUME OneHandler, BudgetInv, NEW h \in Handlers, Resume(h)
  PROVE  BudgetInv'
<1>1. /\ BudgetTypes
      /\ IsFrame(frame[h])
      /\ Spent(frame[h], failLoads, Paid, Used, st.track)
      /\ Paid \in Nat /\ Used \in 0 .. MaxTrackRetries /\ Used \in Nat /\ failLoads \in Nat
      /\ failLoads <= Paid + 1 + Used
  BY BudgetNumbers, SettingsAreNumbers DEF BudgetInv, BudgetTypes
<1>2. frame[h].at # "patching" => chain = <<>>
  BY DEF BudgetInv, ChainInv, OneHandler
\* Plain moves.
<1>3. ASSUME UNCHANGED budget, frame[h].at # "patching", NEW l, Go(h, l),
             l \in Free \/ (l \in Fresh /\ frame[h].at \in Fresh)
      PROVE  BudgetInv'
  <2>1. IsFrame(Moved(h, l)) /\ Moved(h, l).at = l /\ GoWith(h, Moved(h, l))
    BY <1>1, <1>3, FramesMade
  <2>2. QED
    BY <1>3, <2>1, BudgetGoes
<1>4. ASSUME UNCHANGED budget, frame[h].at # "patching", Done(h)
      PROVE  BudgetInv'
  <2>1. IsFrame(Idle) /\ Idle.at = "idle" /\ GoWith(h, Idle) /\ "idle" \in Free
    BY <1>1, <1>4, FramesMade DEF Free, Labels, Fresh
  <2>2. QED
    BY <1>4, <2>1, BudgetGoes
<1>5. /\ {"ensure", "parkPatch", "retryState", "invalidate", "invalidateState"} \subseteq Free
      /\ {"advanceAgain", "insert", "current", "place", "refill", "advance", "adoptPatch",
          "reportPatch", "reportQueue", "nextState"} \subseteq Fresh
  BY DEF Free, Labels, Fresh
\* loadTrack and the auto-queue.
<1>6. CASE SendLoad(h)
  <2>1. UNCHANGED <<st, chain, retries, streak>> /\ frame[h].at = "load"
    BY <1>6 DEF SendLoad, state, memory, At
  <2>2. CASE online
    <3> DEFINE f == Moved(h, "loadPatch")
    <3>1. IsFrame(f) /\ f.at = "loadPatch" /\ f.track = frame[h].track /\ GoWith(h, f)
      BY <1>1, <1>6, <2>2, FramesMade DEF SendLoad
    <3> HIDE DEF f
    <3>2. failLoads' = failLoads + 1 /\ Paid' = Paid /\ Used' = Used
      BY <1>6, <2>1, <2>2 DEF SendLoad, Paid, Used
    <3>3. IF frame[h].retry THEN failLoads <= Paid + Used /\ frame[h].track = st.track
                            ELSE failLoads <= Paid
      BY <1>1, <2>1 DEF Spent
    <3>4. failLoads' <= Paid' + 1 + Used'
      BY <1>1, <3>2, <3>3
    <3>5. failLoads' <= Paid' + 1 \/ f.track = st.track
      BY <1>1, <3>1, <3>2, <3>3
    <3>6. Spent(f, failLoads', Paid', Used', st.track)
      BY <3>1, <3>4, <3>5 DEF Spent, Fresh
    <3>7. BudgetTypes'
      BY <1>1, <2>1, <3>1, <3>2, FrameChanges DEF BudgetTypes
    <3>8. \A g \in Handlers : Spent(frame'[g], failLoads', Paid', Used', st.track')
      BY <1>1, <2>1, <3>1, <3>6, FrameChanges
    <3>9. ChainInv'
      BY <1>2, <2>1 DEF ChainInv
    <3>10. QED
      BY <3>4, <3>7, <3>8, <3>9 DEF BudgetInv
  <2>3. CASE ~online
    BY <1>4, <1>6, <2>1, <2>3 DEF SendLoad, budget
  <2>4. QED
    BY <2>2, <2>3
<1>7. CASE LoadPatch(h)
  <2>1. UNCHANGED <<st, retries, streak, failLoads>> /\ frame[h].at = "loadPatch"
    BY <1>7 DEF LoadPatch, memory, At
  <2>2. Owes([state |-> "playing", track |-> frame[h].track], failLoads, Paid, st.track)
    BY <1>1, <2>1 DEF Spent, Owes
  <2>3. Patch(h, [state |-> "playing", track |-> frame[h].track], "loadTail")
    BY <1>7 DEF LoadPatch
  <2>4. QED
    BY <2>1, <2>2, <2>3, BudgetPatches
<1>8. CASE LoadTail(h)
  BY <1>3, <1>4, <1>5, <1>8 DEF LoadTail, At, budget, state
<1>9. CASE Ensure(h)
  <2>1. CASE At(h, "refill")
    <3>1. frame[h].at \in Fresh
      BY <2>1 DEF At, Fresh
    <3>2. QED
      BY <1>3, <1>5, <1>9, <2>1, <3>1 DEF Ensure, At, budget, state, memory
  <2>2. CASE ~At(h, "refill")
    BY <1>4, <1>9, <2>2 DEF Ensure, At, budget, state, memory
  <2>3. QED
    BY <2>1, <2>2
\* play(trackId), playTracks, the queue's own play button, modes.
<1>10. CASE PlaceCurrentStep(h)
  <2>1. UNCHANGED <<st, chain, streak, failLoads>> /\ frame[h].at = "place" /\ "place" \in Fresh
    BY <1>10 DEF PlaceCurrentStep, state, At, Fresh
  <2>2. \/ StartLoad(h, frame[h].track)
        \/ Go(h, "insert") /\ UNCHANGED retries
    BY <1>10 DEF PlaceCurrentStep
  <2>3. QED
    BY <1>3, <1>5, <2>1, <2>2, BudgetLoads DEF budget
<1>11. CASE InsertStep(h)
  BY <1>11, BudgetLoads DEF InsertStep, state, At, Fresh
<1>12. CASE ReplaceStep(h)
  BY <1>3, <1>5, <1>12 DEF ReplaceStep, state, memory, At, Fresh, budget
<1>13. CASE CurrentQueue(h)
  <2> DEFINE f == [frame[h] EXCEPT !.at = "currentIndex", !.q = queue]
  <2>1. UNCHANGED budget /\ frame[h].at = "current" /\ GoWith(h, f)
    BY <1>13 DEF CurrentQueue, budget, state, memory, At
  <2>2. IsFrame(f) /\ f.at = "currentIndex"
    BY <1>1 DEF IsFrame, Fields
  <2> HIDE DEF f
  <2>3. QED
    BY <2>1, <2>2, BudgetGoes DEF Fresh
<1>14. CASE CurrentIndex(h)
  <2>1. /\ UNCHANGED <<st, chain, streak, failLoads>>
        /\ frame[h].at = "currentIndex" /\ "currentIndex" \in Fresh
    BY <1>14 DEF CurrentIndex, state, At, Fresh
  <2>2. (\E t : StartLoad(h, t)) \/ (Done(h) /\ UNCHANGED retries)
    BY <1>14 DEF CurrentIndex
  <2>3. QED
    BY <1>4, <2>1, <2>2, BudgetLoads DEF budget
<1>15. CASE ItemQueue(h)
  <2>1. UNCHANGED budget /\ frame[h].at = "itemQueue"
    BY <1>15 DEF ItemQueue, budget, state, memory, At
  <2>2. ASSUME NEW k \in DOMAIN queue,
               GoWith(h, [frame[h] EXCEPT !.at = "itemIndex", !.i = k - 1,
                                          !.track = queue[k].track])
        PROVE  BudgetInv'
    <3> DEFINE f == [frame[h] EXCEPT !.at = "itemIndex", !.i = k - 1, !.track = queue[k].track]
    <3>1. IsFrame(f) /\ f.at = "itemIndex"
      BY <1>1 DEF IsFrame, Fields
    <3>2. GoWith(h, f)
      BY <2>2
    <3> HIDE DEF f
    <3>3. QED
      BY <2>1, <3>1, <3>2, BudgetGoes DEF Fresh
  <2>3. QED
    BY <1>4, <1>15, <2>1, <2>2 DEF ItemQueue
<1>16. CASE ItemIndex(h)
  BY <1>3, <1>5, <1>16 DEF ItemIndex, state, memory, At, Fresh, budget
<1>17. CASE ParkState(h)
  BY <1>3, <1>4, <1>5, <1>17 DEF ParkState, state, memory, At, budget
<1>18. CASE ParkPatch(h)
  <2>1. UNCHANGED <<st, retries, streak, failLoads>> /\ frame[h].at = "parkPatch"
    BY <1>18 DEF ParkPatch, memory, At
  <2>2. Owes([state |-> "paused"], failLoads, Paid, st.track)
    BY DEF Owes
  <2>3. Patch(h, [state |-> "paused"], "idle")
    BY <1>18 DEF ParkPatch
  <2>4. QED
    BY <2>1, <2>2, <2>3, BudgetPatches
\* next() and previous().
<1>19. CASE NextState(h)
  <2> DEFINE f == [frame[h] EXCEPT !.at = "nextQueue", !.s = st]
  <2>1. UNCHANGED budget /\ frame[h].at = "nextState" /\ GoWith(h, f)
    BY <1>19 DEF NextState, budget, state, memory, At
  <2>2. IsFrame(f) /\ f.at = "nextQueue"
    BY <1>1 DEF IsFrame, Fields
  <2> HIDE DEF f
  <2>3. QED
    BY <2>1, <2>2, BudgetGoes DEF Fresh
<1>20. CASE NextQueue(h)
  <2> DEFINE f == [frame[h] EXCEPT !.at = "nextIndex", !.q = queue]
  <2>1. UNCHANGED budget /\ frame[h].at = "nextQueue" /\ GoWith(h, f)
    BY <1>20 DEF NextQueue, budget, state, memory, At
  <2>2. IsFrame(f) /\ f.at = "nextIndex"
    BY <1>1 DEF IsFrame, Fields
  <2> HIDE DEF f
  <2>3. QED
    BY <2>1, <2>2, BudgetGoes DEF Fresh
<1>21. CASE NextIndex(h)
  <2>1. /\ UNCHANGED <<st, chain, streak, failLoads>>
        /\ frame[h].at = "nextIndex" /\ "nextIndex" \in Fresh
    BY <1>21 DEF NextIndex, state, At, Fresh
  <2>2. \/ \E t : StartLoad(h, t)
        \/ /\ UNCHANGED retries
           /\ \/ \E i : GoWith(h, [frame[h] EXCEPT !.at = "setIndex", !.i = i])
              \/ Go(h, "advance")
    BY <1>21 DEF NextIndex, Turn
  <2>3. ASSUME NEW i, GoWith(h, [frame[h] EXCEPT !.at = "setIndex", !.i = i]), UNCHANGED retries
        PROVE  BudgetInv'
    <3> DEFINE f == [frame[h] EXCEPT !.at = "setIndex", !.i = i]
    <3>1. IsFrame(f) /\ f.at = "setIndex"
      BY <1>1 DEF IsFrame, Fields
    <3>2. GoWith(h, f)
      BY <2>3
    <3> HIDE DEF f
    <3>3. QED
      BY <2>1, <2>3, <3>1, <3>2, BudgetGoes DEF Fresh, budget
  <2>4. QED
    BY <1>3, <1>5, <2>1, <2>2, <2>3, BudgetLoads DEF budget
<1>22. CASE SetIndexStep(h)
  BY <1>22, BudgetLoads DEF SetIndexStep, state, At, Fresh
<1>23. CASE AdvanceStep(h)
  <2>1. UNCHANGED <<st, streak, failLoads>> /\ frame[h].at \in Fresh /\ frame[h].at # "patching"
    BY <1>23 DEF AdvanceStep, At, Fresh
  <2>2. \/ (\E t : StartLoad(h, t)) /\ UNCHANGED chain
        \/ UNCHANGED <<retries, chain>> /\ (Go(h, "refill") \/ Done(h))
        \/ UNCHANGED retries /\ Patch(h, [state |-> "stopped"], "idle")
    BY <1>23 DEF AdvanceStep
  <2>3. Owes([state |-> "stopped"], failLoads, Paid, st.track)
    BY DEF Owes
  <2>4. CASE (\E t : StartLoad(h, t)) /\ UNCHANGED chain
    BY <2>1, <2>4, BudgetLoads
  <2>5. CASE UNCHANGED <<retries, chain>> /\ (Go(h, "refill") \/ Done(h))
    BY <1>3, <1>4, <1>5, <2>1, <2>5 DEF budget
  <2>6. CASE UNCHANGED retries /\ Patch(h, [state |-> "stopped"], "idle")
    BY <2>1, <2>3, <2>6, BudgetPatches
  <2>7. QED
    BY <2>2, <2>4, <2>5, <2>6
<1>24. CASE PrevIndex(h)
  <2> DEFINE f == [frame[h] EXCEPT !.at = "prevSet", !.i = cursor - 1, !.feed = FALSE]
  <2>1. UNCHANGED budget /\ frame[h].at = "prevIndex" /\ (GoWith(h, f) \/ Done(h))
    BY <1>24 DEF PrevIndex, budget, state, memory, At
  <2>2. IsFrame(f) /\ f.at = "prevSet"
    BY <1>1 DEF IsFrame, Fields
  <2> HIDE DEF f
  <2>3. QED
    BY <1>4, <2>1, <2>2, BudgetGoes DEF Fresh
<1>25. CASE PrevSet(h)
  BY <1>3, <1>5, <1>25 DEF PrevSet, state, memory, At, Fresh, budget
\* onTrackEnded and retryTrack.
<1>26. CASE Eof(h)
  <2>1. UNCHANGED <<st, chain, retries>> /\ frame[h].at = "eof"
    BY <1>26 DEF Eof, state, At
  <2>2. CASE Done(h) /\ UNCHANGED <<streak, failLoads>>
    BY <1>4, <2>1, <2>2 DEF budget
  <2>3. CASE streak' = 0 /\ failLoads' = 0 /\ ~recent
    <3>1. failLoads' = 0
      BY <2>3
    <3>2. Paid' = 0 /\ Used' = Used
      BY <1>1, <2>1, <2>3, BudgetNumbers DEF Paid, Used
    <3>3. ASSUME NEW f, IsFrame(f), GoWith(h, f), f.at \in Fresh
          PROVE  BudgetInv'
      <4>1. BudgetTypes'
        BY <1>1, <2>1, <2>3, <3>3, FrameChanges, SettingsAreNumbers DEF BudgetTypes
      <4>2. Spent(f, failLoads', Paid', Used', st.track)
        BY <1>1, <2>1, <3>1, <3>2, <3>3 DEF Spent, Fresh
      <4>3. \A g \in Handlers : Spent(frame'[g], failLoads', Paid', Used', st.track')
        BY <1>1, <2>1, <3>3, <4>2, FrameChanges
      <4>4. ChainInv'
        BY <1>2, <2>1 DEF ChainInv
      <4>5. failLoads' <= Paid' + 1 + Used'
        BY <1>1, <2>1, <3>1, <3>2
      <4>6. QED
        BY <4>1, <4>3, <4>4, <4>5 DEF BudgetInv
    <3>4. CASE pending # NoTrack
      <4> DEFINE f == [frame[h] EXCEPT !.at = "adoptQueue", !.track = pending]
      <4>1. IsFrame(f) /\ f.at = "adoptQueue"
        BY <1>1 DEF IsFrame, Fields
      <4>2. GoWith(h, f)
        BY <1>26, <2>3, <3>4 DEF Eof
      <4> HIDE DEF f
      <4>3. QED
        BY <3>3, <4>1, <4>2 DEF Fresh
    <3>5. CASE pending = NoTrack
      <4>1. Go(h, "nextState")
        BY <1>26, <2>3, <3>5 DEF Eof
      <4>2. IsFrame(Moved(h, "nextState")) /\ Moved(h, "nextState").at = "nextState"
            /\ GoWith(h, Moved(h, "nextState"))
        BY <1>1, <4>1, FramesMade
      <4>3. QED
        BY <1>5, <3>3, <4>2
    <3>6. QED
      BY <3>4, <3>5
  <2>4. QED
    BY <1>26, <2>2, <2>3 DEF Eof
<1>27. CASE AdoptQueue(h)
  <2>1. UNCHANGED <<st, chain, streak, failLoads>> /\ frame[h].at = "adoptQueue"
    BY <1>27 DEF AdoptQueue, state, At
  <2>2. frame[h].at \in Fresh /\ failLoads <= Paid
    BY <1>1, <2>1 DEF Fresh, Spent
  <2>3. ASSUME NEW i, GoWith(h, [frame[h] EXCEPT !.at = "adoptSet", !.i = i]),
               retries' = NoRetries
        PROVE  BudgetInv'
    <3> DEFINE f == [frame[h] EXCEPT !.at = "adoptSet", !.i = i]
    <3>1. IsFrame(f) /\ f.at = "adoptSet"
      BY <1>1 DEF IsFrame, Fields
    <3>2. GoWith(h, f)
      BY <2>3
    <3> HIDE DEF f
    <3>3. BudgetTypes'
      BY <1>1, <2>1, <2>3, <3>1, <3>2, FrameChanges, SettingsAreNumbers
         DEF BudgetTypes, NoRetries
    <3>4. Paid' = Paid /\ Used' = 0
      BY <2>1, <2>3 DEF Paid, Used, NoRetries
    <3>5. Spent(f, failLoads', Paid', Used', st.track)
      BY <1>1, <2>1, <2>2, <3>1, <3>4 DEF Spent
    <3>6. \A g \in Handlers : Spent(frame'[g], failLoads', Paid', Used', st.track')
      BY <1>1, <2>1, <3>1, <3>2, <3>5, FrameChanges
    <3>7. ChainInv' /\ failLoads' <= Paid' + 1 + Used'
      BY <1>1, <1>2, <2>1, <2>2, <3>4 DEF ChainInv
    <3>8. QED
      BY <3>3, <3>6, <3>7 DEF BudgetInv
  <2>4. \/ \E i : GoWith(h, [frame[h] EXCEPT !.at = "adoptSet", !.i = i]) /\ retries' = NoRetries
        \/ Go(h, "nextState") /\ UNCHANGED retries
    BY <1>27 DEF AdoptQueue
  <2>5. QED
    BY <1>3, <1>5, <2>1, <2>2, <2>3, <2>4 DEF budget
<1>28. CASE AdoptSet(h)
  BY <1>3, <1>5, <1>28 DEF AdoptSet, state, memory, At, Fresh, budget
<1>29. CASE AdoptPatch(h)
  <2>1. UNCHANGED <<st, retries, streak, failLoads>> /\ frame[h].at = "adoptPatch"
    BY <1>29 DEF AdoptPatch, memory, At
  <2>2. Owes([state |-> "playing", track |-> frame[h].track], failLoads, Paid, st.track)
    BY <1>1, <2>1 DEF Spent, Owes, Fresh
  <2>3. Patch(h, [state |-> "playing", track |-> frame[h].track], "adoptTail")
    BY <1>29 DEF AdoptPatch
  <2>4. QED
    BY <2>1, <2>2, <2>3, BudgetPatches
<1>30. CASE AdoptTail(h)
  BY <1>3, <1>5, <1>30 DEF AdoptTail, At, budget, state
<1>31. CASE Error(h)
  BY <1>3, <1>4, <1>5, <1>31 DEF Error, At, budget, state, memory
<1>32. CASE RetryState(h)
  <2>1. UNCHANGED st /\ frame[h].at = "retryState" /\ chain = <<>>
    BY <1>2, <1>32 DEF RetryState, At
  <2> DEFINE again == st.track # NoTrack /\ Used < MaxTrackRetries
  <2>2. CASE /\ again /\ retries' = [track |-> st.track, count |-> Used + 1]
             /\ GoWith(h, Loading(h, st.track, TRUE)) /\ UNCHANGED <<streak, failLoads, chain>>
    <3> DEFINE f == Loading(h, st.track, TRUE)
    <3>1. IsFrame(f) /\ f.at = "load" /\ f.retry /\ f.track = st.track
      BY <1>1 DEF Loading, IsFrame, Fields
    <3>2. GoWith(h, f)
      BY <2>2
    <3> HIDE DEF f
    <3>3. Paid' = Paid /\ Used' = Used + 1 /\ failLoads' = failLoads
      BY <2>1, <2>2 DEF Paid, Used
    <3>4. BudgetTypes'
      BY <1>1, <2>1, <2>2, <3>1, <3>2, FrameChanges, SettingsAreNumbers DEF BudgetTypes
    <3>5. Spent(f, failLoads', Paid', Used', st.track)
      BY <1>1, <3>1, <3>3 DEF Spent, Fresh
    <3>6. \A g \in Handlers : Spent(frame'[g], failLoads', Paid', Used', st.track')
      BY <1>1, <2>1, <3>1, <3>2, <3>5, FrameChanges
    <3>7. ChainInv' /\ failLoads' <= Paid' + 1 + Used'
      BY <1>1, <2>1, <2>2, <3>3 DEF ChainInv
    <3>8. QED
      BY <3>4, <3>6, <3>7 DEF BudgetInv
  <2>3. CASE /\ streak + 1 < MaxConsecutiveErrors /\ streak' = streak + 1
             /\ Go(h, "nextState") /\ UNCHANGED <<retries, failLoads, chain>>
    <3> DEFINE f == Moved(h, "nextState")
    <3>1. IsFrame(f) /\ f.at = "nextState" /\ GoWith(h, f)
      BY <1>1, <2>3, FramesMade
    <3> HIDE DEF f
    <3>2. Paid' = Paid + MaxTrackRetries + 1 /\ Used' = Used /\ failLoads' = failLoads
      BY <1>1, <2>1, <2>3, BudgetNumbers DEF Paid, Used
    <3>3. failLoads' <= Paid'
      BY <1>1, <3>2, SettingsAreNumbers
    <3>4. BudgetTypes'
      BY <1>1, <2>1, <2>3, <3>1, FrameChanges, SettingsAreNumbers DEF BudgetTypes
    <3>5. Spent(f, failLoads', Paid', Used', st.track)
      BY <1>1, <3>1, <3>2, <3>3, SettingsAreNumbers DEF Spent
    <3>6. \A g \in Handlers : Spent(frame'[g], failLoads', Paid', Used', st.track')
      BY <1>1, <2>1, <3>1, <3>5, FrameChanges
    <3>7. ChainInv' /\ failLoads' <= Paid' + 1 + Used'
      BY <1>1, <2>1, <2>3, <3>2, <3>3, SettingsAreNumbers DEF ChainInv
    <3>8. QED
      BY <3>4, <3>6, <3>7 DEF BudgetInv
  <2>4. CASE /\ streak' = 0 /\ retries' = NoRetries /\ failLoads' = 0
             /\ Patch(h, [state |-> "stopped"], "idle")
    <3> DEFINE f == Moved(h, "patching")
    <3>1. IsFrame(f) /\ f.at = "patching" /\ GoWith(h, f)
      BY <1>1, <2>4, FramesMade DEF Patch
    <3> HIDE DEF f
    <3>2. Paid' = 0 /\ Used' = 0
      BY <2>1, <2>4, BudgetNumbers, <1>1 DEF Paid, Used, NoRetries
    <3>3. BudgetTypes' /\ frame'[h].at = "patching"
      BY <1>1, <2>1, <2>4, <3>1, FrameChanges, SettingsAreNumbers DEF BudgetTypes, NoRetries
    <3>4. Spent(f, failLoads', Paid', Used', st.track)
      BY <2>4, <3>1, <3>2 DEF Spent, Fresh
    <3>5. \A g \in Handlers : Spent(frame'[g], failLoads', Paid', Used', st.track')
      BY <1>1, <2>1, <3>1, <3>4, FrameChanges
    <3>6. chain' = <<[by |-> h, patch |-> [state |-> "stopped"], next |-> "idle"]>>
      BY <2>1, <2>4 DEF Patch
    <3>7. ChainInv'
      BY <3>3, <3>6 DEF ChainInv, Owes
    <3>8. failLoads' <= Paid' + 1 + Used'
      BY <2>4, <3>2
    <3>9. QED
      BY <3>3, <3>5, <3>7, <3>8 DEF BudgetInv
  <2>5. QED
    BY <1>32, <2>2, <2>3, <2>4 DEF RetryState
\* applyPlayerReport.
<1>33. CASE ReportState(h)
  <2>1. UNCHANGED budget /\ frame[h].at = "report" /\ "report" \in Fresh
    BY <1>33 DEF ReportState, budget, state, memory, At, Fresh
  <2>2. Go(h, "reportPatch") \/ Go(h, "reportQueue")
    BY <1>33 DEF ReportState
  <2>3. QED
    BY <1>3, <1>5, <2>1, <2>2
<1>34. CASE ReportQueue(h)
  <2>1. UNCHANGED budget /\ frame[h].at = "reportQueue"
    BY <1>34 DEF ReportQueue, budget, state, memory, At
  <2>2. PICK t : GoWith(h, [frame[h] EXCEPT !.at = "reportPatch", !.track = t])
    BY <1>34 DEF ReportQueue
  <2> DEFINE f == [frame[h] EXCEPT !.at = "reportPatch", !.track = t]
  <2>3. IsFrame(f) /\ f.at = "reportPatch"
    BY <1>1 DEF IsFrame, Fields
  <2>4. GoWith(h, f)
    BY <2>2
  <2> HIDE DEF f
  <2>5. QED
    BY <2>1, <2>3, <2>4, BudgetGoes DEF Fresh
<1>35. CASE ReportPatch(h)
  <2>1. UNCHANGED <<st, retries, streak, failLoads>> /\ frame[h].at = "reportPatch"
    BY <1>35 DEF ReportPatch, memory, At
  <2>2. Owes([state |-> frame[h].s.state, track |-> frame[h].track], failLoads, Paid, st.track)
    BY <1>1, <2>1 DEF Spent, Owes, Fresh
  <2>3. Patch(h, [state |-> frame[h].s.state, track |-> frame[h].track], "idle")
    BY <1>35 DEF ReportPatch
  <2>4. QED
    BY <2>1, <2>2, <2>3, BudgetPatches
\* Edits of the queue and the prefetch.
<1>36. CASE EditQueue(h)
  BY <1>3, <1>5, <1>36 DEF EditQueue, state, memory, At, budget
<1>37. CASE Invalidate(h)
  BY <1>3, <1>5, <1>37 DEF Invalidate, state, At, budget
<1>38. CASE InvalidateState(h)
  BY <1>4, <1>38 DEF InvalidateState, state, At, budget
<1>39. CASE BlockState(h) \/ BlockQueue(h) \/ BlockIndex(h)
  <2>1. UNCHANGED <<budget, frame>>
    BY <1>39 DEF BlockState, BlockQueue, BlockIndex, budget, state, memory
  <2>2. QED
    BY <2>1 DEF BudgetInv, BudgetTypes, ChainInv, Paid, Used, budget
<1>40. QED
  BY <1>6, <1>7, <1>8, <1>9, <1>10, <1>11, <1>12, <1>13, <1>14, <1>15, <1>16, <1>17, <1>18,
     <1>19, <1>20, <1>21, <1>22, <1>23, <1>24, <1>25, <1>26, <1>27, <1>28, <1>29, <1>30, <1>31,
     <1>32, <1>33, <1>34, <1>35, <1>36, <1>37, <1>38, <1>39 DEF Resume

\* The waiting patch is applied; the other steps leave the budget alone.
LEMMA BudgetEnvironment ==
  ASSUME OneHandler, BudgetInv,
         ApplyPatch \/ TimerFires \/ Age \/ PlayerStarts \/ Disconnect \/ UNCHANGED vars
  PROVE  BudgetInv'
<1>1. BudgetTypes /\ Paid \in Nat /\ Used \in Nat /\ failLoads \in Nat
  BY BudgetNumbers, SettingsAreNumbers DEF BudgetInv, BudgetTypes
<1>2. CASE ApplyPatch
  <2> DEFINE p == chain[1]
             h == p.by
             f == IF p.next = "idle" THEN Idle ELSE Moved(h, p.next)
  <2>1. chain # <<>> /\ UNCHANGED <<retries, streak, failLoads>>
    BY <1>2 DEF ApplyPatch, memory
  <2>2. /\ chain = <<p>> /\ h \in Handlers /\ frame[h].at = "patching"
        /\ p.next \in {"idle", "loadTail", "adoptTail"}
        /\ Owes(p.patch, failLoads, Paid, st.track)
    BY <2>1 DEF BudgetInv, ChainInv
  <2>3. Head(chain) = p /\ Tail(chain) = <<>>
    <3>1. \A x : Head(<<x>>) = x /\ Tail(<<x>>) = <<>>
      OBVIOUS
    <3>2. QED
      BY <2>2, <3>1, Zenon
  <2>4. /\ st' = [k \in DOMAIN st |-> IF k \in DOMAIN p.patch THEN p.patch[k] ELSE st[k]]
        /\ frame' = [frame EXCEPT ![h] = IF p.next = "idle" THEN Idle
                                         ELSE [@ EXCEPT !.at = p.next]]
        /\ chain' = <<>>
    BY <1>2, <2>3 DEF ApplyPatch
  <2>5. GoWith(h, f)
    BY <1>1, <2>2, <2>4 DEF GoWith, Moved, BudgetTypes
  <2>6. IsFrame(f) /\ f.at \in {"idle", "loadTail", "adoptTail"}
    <3>1. IsFrame(Moved(h, p.next)) /\ Moved(h, p.next).at = p.next
      BY <1>1, <2>2, FramesMade
    <3>2. IsFrame(Idle) /\ Idle.at = "idle"
      BY DEF IsFrame, Fields, Idle
    <3>3. QED
      BY <2>2, <3>1, <3>2
  <2>7. /\ st' = [k \in {"state", "track", "shuffle", "repeat"} |-> st'[k]]
        /\ st'.track = IF "track" \in DOMAIN p.patch THEN p.patch.track ELSE st.track
    BY <1>1, <2>4 DEF BudgetTypes
  <2>8. failLoads <= Paid + 1 \/ st'.track = st.track
    BY <2>2, <2>7 DEF Owes
  <2> HIDE DEF f, h, p
  <2>9. BudgetTypes'
    BY <1>1, <2>1, <2>2, <2>5, <2>6, <2>7, FrameChanges DEF BudgetTypes
  <2>10. Paid' = Paid /\ (st'.track = st.track => Used' = Used) /\ Used' \in Nat
    BY <2>1, <2>9, SettingsAreNumbers DEF Paid, Used, BudgetTypes
  <2>11. failLoads' <= Paid' + 1 + Used'
    BY <1>1, <2>1, <2>8, <2>10 DEF BudgetInv
  <2>12. Spent(f, failLoads', Paid', Used', st'.track)
    BY <2>6, <2>11 DEF Spent, Fresh
  <2>13. \A g \in Handlers : Spent(frame'[g], failLoads', Paid', Used', st'.track)
    BY <1>1, <2>2, <2>5, <2>6, <2>12, FrameChanges
  <2>14. ChainInv'
    BY <2>4 DEF ChainInv
  <2>15. QED
    BY <2>9, <2>11, <2>13, <2>14 DEF BudgetInv
<1>3. CASE UNCHANGED <<budget, frame>>
  BY <1>3 DEF BudgetInv, BudgetTypes, ChainInv, Paid, Used, budget
<1>4. QED
  BY <1>2, <1>3 DEF TimerFires, Age, PlayerStarts, Disconnect, vars, budget, state, memory

\* A provider that is broken altogether is given up: whatever is edited, paused,
\* stopped or disconnected in between, retryTrack and onTrackEnded send at most
\* MAX_TRACK_RETRIES + 1 loads for each of MAX_CONSECUTIVE_ERRORS tracks before
\* they surrender, when the handlers of the device do not overlap and the player
\* sends no report that could swap the track of the device state.
THEOREM FailuresStayBounded ==
  ASSUME OneHandler, "report" \notin Commands
  PROVE  Spec => []FailuresAreBounded
<1>1. Init => BudgetInv
  <2>1. Init => BudgetTypes
    <3>1. Init => /\ streak \in 0 .. MaxConsecutiveErrors - 1
                  /\ retries.count \in 0 .. MaxTrackRetries
                  /\ failLoads \in Nat
      BY SettingsAreNumbers DEF Init, NoRetries
    <3>2. Init => st = [k \in {"state", "track", "shuffle", "repeat"} |-> st[k]]
      BY DEF Init
    <3>3. IsFrame(Idle)
      BY DEF Idle, IsFrame, Fields
    <3>4. Init => frame = [h \in Handlers |-> frame[h]] /\ \A h \in Handlers : IsFrame(frame[h])
      BY <3>3 DEF Init
    <3>5. QED
      BY <3>1, <3>2, <3>4 DEF BudgetTypes
  <2>2. Init => /\ chain = <<>> /\ failLoads = 0
                /\ \A h \in Handlers : frame[h].at = "idle"
    BY DEF Init, Idle
  <2>3. ASSUME BudgetTypes, failLoads = 0, NEW h \in Handlers, frame[h].at = "idle"
        PROVE  Spent(frame[h], failLoads, Paid, Used, st.track)
    BY <2>3, BudgetNumbers DEF Spent, Fresh
  <2>4. ASSUME BudgetTypes, failLoads = 0
        PROVE  failLoads <= Paid + 1 + Used
    BY <2>4, BudgetNumbers
  <2>5. QED
    BY <2>1, <2>2, <2>3, <2>4 DEF BudgetInv, ChainInv
<1>2. BudgetInv /\ [Next]_vars => BudgetInv'
  BY BudgetArrival, BudgetResume, BudgetEnvironment DEF Next
<1>3. BudgetInv => FailuresAreBounded
  <2>1. BudgetInv => /\ failLoads <= Paid + 1 + Used /\ Used <= MaxTrackRetries
                     /\ Paid \in Nat /\ Used \in Nat /\ failLoads \in Nat
                     /\ Paid + 1 + MaxTrackRetries <= (MaxTrackRetries + 1) * MaxConsecutiveErrors
    BY BudgetNumbers, SettingsAreNumbers DEF BudgetInv, BudgetTypes
  <2>2. QED
    BY <2>1, SettingsAreNumbers DEF FailuresAreBounded
<1>4. QED
  BY <1>1, <1>2, <1>3, PTL DEF Spec

=============================================================================
