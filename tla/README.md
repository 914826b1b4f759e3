# Formal models of music-connect

music-connect plays music on devices ("players") that are controlled from a web
client through a server. This directory holds TLA+ modules of its core logic,
configurations that model-check them with TLC, and proofs checked with TLAPS.
Every definition is translated from the source in `src/`; `PROJECT.json` names,
for each one, the file and lines it stands for.

Contents: [1 the system](#1-the-system) ·
[2 the modules and how they correspond to the code](#2-the-modules) ·
[3 the runs](#3-the-runs) · [4 the proofs](#4-the-proofs) ·
[5 what is not modelled](#5-what-is-not-modelled) · [6 the plan](#6-the-plan)

## 1 The system

```
 web client --REST, /ws/controller--> server --/ws/player--> player agent --IPC--> mpv
                                      |    \                  |
                                   Redis  MySQL              yt-dlp
```

The server is one Node process. A request, a socket message or a timer starts an
async method that runs to its next `await` undisturbed; between two awaits
everything else may run. Redis holds what must survive a request (queue, cursor,
lock, device state, online set), the process holds what must not (timers, picks,
retry budgets, the registry of sockets). The agent is another Node process next to
mpv, with the same kind of concurrency.

| Component (source) | State | Operations | What is hard | What makes it correct |
|---|---|---|---|---|
| Queue service (`services/queue.service.ts`) | Redis: queue, cursor, lock with a TTL | `add`, `remove`, `clear`, `replace`, `reorder`, `advance`, `placeCurrent`, `insertAtCurrent`, metadata updates, `setIndex` | two keys, several awaits, a lock that expires, one writer without it, crashes | mutual exclusion, no lost update, atomicity of every call, no lock held for good |
| Playback service (`services/playback.service.ts`, called from `api/playback.ts`, `api/queue.ts`, `ws/gateway.ts`) | device state in Redis; in memory: the pick `pendingNext`, prefetch timers, retry budget, error streak, time of the last load, chains of state patches | `play`, `next`, `previous`, `stop`, `pause`, `resume`, modes, `playTracks`, `onTrackEnded`, `applyPlayerReport`, `pauseOnDisconnect`, `invalidatePrefetch`, `transfer` | handlers of one device interleave, timers, stale reports and stale ends, retries that call `next` that loads again | cursor, state and player agree when all is quiet; what the server expects next is what mpv has buffered; failures are answered and bounded |
| Auto-queue (`services/auto-queue.service.ts`) | refills in flight per device | `ensure` | single flight per device, one queue per account, several appends per refill | the queue does not grow beyond a refill per device |
| Gateway and registry (`ws/gateway.ts`, `ws/registry.ts`) | sockets, `players`, grace timers, rate-limit windows | authentication, messages, close | reconnects, answers to look-ups after a close, timers that outlive their reason, restarts | the live socket is the registered one; a dead player is parked, a live one is not |
| Device service (`services/device.service.ts`, `api/devices.ts`) | online set with a TTL, volumes, pairing codes | `markOnline`, `markOffline`, pair | one TTL for all devices, restarts, codes used once | whoever is listed is there |
| Player agent (`apps/player/src/commands.ts`, `index.ts`, `state.ts`, `mpv.ts`) | current and prefetched track id, status, mpv's playlist, watchdog timer | commands, end-file, report tick, watchdog | a resolve takes seconds and nothing waits for it; mpv goes on by itself | the last command wins, reports name what is heard, a load is answered |
| mpv process and connection (`apps/player/src/mpv.ts`) | flags, restart timer, reconnect timer, sockets | `start`, exit, connect, close, `shutdown` | two timers that know nothing of each other | one connection, and again a connection after every loss |
| Volume (`mpv.ts`, `components/Player.vue`) | the ramp's timer; the slider's timer | `setVolumeSmooth`; `volumeInput`, `toggleMute` | an await between cancelling a timer and arming one; a timer that outlives what it was set for | the volume asked for last is the one that stays |
| Stream resolver (`apps/player/src/resolver.ts`) | slots in use, waiters | `resolveStreamUrl` | hand-over of a slot on success and failure | at most the maximum, no slot lost, every waiter runs |
| Agent connection (`apps/player/src/connection.ts`) | the socket, back-off | `connect`, `send`, `stop` | half-open sockets | one socket at a time |
| Catalogue (`providers/`, `services/music.service.ts`) | circuit breaker, caches, single flights | look-ups | calls that end after the circuit changed | a failing provider is left alone and tried again |
| Authentication (`api/auth.ts`, `auth/tokens.ts`, `lib/api.ts`) | refresh tokens, the cookie, access tokens in memory | log-in, refresh, log-out, new password | several tabs refresh at once, answers are lost, pages are loaded anew meanwhile | no refresh is refused unless the session was ended |
| Playlists, favourites, history (`services/*.service.ts`, `api/library.ts`) | database rows | create, add, list | read-then-write positions, open history rows | positions are distinct, one open row per device |
| Web client (`apps/web/src`) | store of devices, queue, state | polls, pushed events, picks | answers overtaken by newer ones, a socket that is down | every tab comes to show the account's device and its state |

Interactions: the playback service mutates the queue through the queue service,
sends commands through the registry and patches the device state through a chain per
device; the agent answers with reports and track ends that come back through the
gateway; the gateway's close handler starts the grace window whose end calls
`pauseOnDisconnect`. `PROJECT.json` lists under "hazards" where each of these is
delicate, with the line, and the properties that watch it.

## 2 The modules

| Module | Models | Uses |
|---|---|---|
| `QueueOps` | the queue operations as pure functions: what each does to queue and cursor and what it answers | |
| `AtomicQueue` | abstract contract: a call takes effect at one instant or is refused | |
| `QueueStore` | `QueueService` over Redis, await by await, with lock, TTL, failures and restart; refines `AtomicQueue` | `QueueOps`, `AtomicQueue` |
| `QueueOpsProofs` | lemmas about positions, insertions, removals and reorders, for the two below | `QueueOps` |
| `QueueStoreProofs` | theorems of `QueueStore` | `QueueStore`, `QueueOpsProofs` |
| `Playback` | `PlaybackService` for one device, await by await, with queue edits, prefetch timers and a well-behaved agent | `QueueOps` |
| `PlaybackProofs` | theorems that hold however handlers interleave, and the bound on failures | `Playback`, `QueueOpsProofs` |
| `PlaybackQuietProofs` | theorems on what queue, state, pick and player agree on when one handler runs at a time | `PlaybackProofs` |
| `PlayerAgent` | the agent's command handlers, mpv's playlist, the report tick, the watchdog | |
| `ResolveSlots` | the semaphore of `resolver.ts` | |
| `MpvProcess` | the mpv process, its timers and its IPC connection | |
| `VolumeRamp` | `setVolumeSmooth` | |
| `PlayerProcess`, `PlayerProcessProofs` | the agent's process: the four parts above side by side, and theorems about each | `ResolveSlots`, `PlayerAgent`, `MpvProcess`, `VolumeRamp` |
| `Presence`, `PresenceProofs` | player sockets, registry, online set, grace windows, and its theorems | |
| `Handoff`, `HandoffProofs` | `transfer` with both agents and their reports, and its theorems | |
| `Sessions` | refresh tokens at the server and in the tabs of a browser | |
| `WebStore` | what the tabs of an account show | |
| `Catalogue` | look-ups: cache, single flight, time limit, circuit breaker | |
| `AutoQueue` | `ensure` for several devices of one account | |
| `Periphery`, `PeripheryProofs` | the four parts above side by side, and theorems about each | `Catalogue`, `Sessions`, `WebStore`, `AutoQueue` |
| `VolumeSlider` | the volume slider of the web client | |
| `MC...` | small instances for TLC | |

### QueueStore

`pc[p]` is the await at which request `p` stands: `lock`, `readQueue`, `readIndex`,
`writeQueue`, `writeIndex` (or `moveIndex` in `advance`), `release`, `return`, and
`setIndex` for the one operation without a lock. `queue`, `index` and `lock` are the
three Redis keys, `readQ`, `readI`, `answer` the locals of the handler. `Acquire` is
`SET NX EX`, `Release` the token-checked script, `Expire` the TTL. Three switches
name what the environment may do: `SlowHolders` lets a lock expire while its holder
works, `RedisMayFail` rejects a command (the handler goes to its `finally`),
`MayCrash` restarts the server. The attempts of the retry loops are constants.

The refinement mapping of `Atomic` moves the cursor's write forward: a mutation takes
effect at the write of the queue, when its cursor is already decided, so the abstract
cursor is the one a handler between its two writes is about to write.

### Playback

`frame[h]` is where handler `h` stands and what it read before its await. A handler
is one HTTP request, one player message or one end of a grace window; the async block
that `schedulePrefetch` leaves running is `block[h]`. Queue operations are single
steps, which `QueueStoreProofs!QueueIsAtomic` justifies, except that `setIndex` is a
bare write. `patchState` is a queue of patches (`chain`): they are written one after
the other, but what a caller read before it queued its patch may be old by then.
`timers` holds every armed prefetch timer, `mapped` the one the map remembers, which
is the only one that can be cancelled. The agent in this module obeys in order; a
newer load supersedes an older one, an append is resolved at once. `PlayerAgent` shows
what it really does. Time enters as `recent` (less than 3 s since the last load) and
as the choice of when a timer fires.

Switches: `OldTrackPlaysOn` (the old track may end while a load resolves),
`SlowResolve` (a load outlasts the handler that sent it), `ShortTracks` (a prefetch
timer may fire while the load resolves), `EarlyFailures` (a track may fail within 3 s),
`MayDisconnect`, `GrowOnly` (requests only add to the queue).

### PlayerAgent

`jobs[n]` is the handler of the n-th command. `ps` is `PlayerState`, `mpv` what mpv
plays and has appended; each appended entry remembers the command that asked for it.
Nothing
keeps commands apart, as in the code: the history variable `met` notes what came while
something else was under way (a load during a load, a clear during a prefetch, the end
of a track during a prefetch, a broken stream in front of an appended entry), and each
property says which of these encounters it does not survive. The server
sends `player.play` right behind each load, so the two are one command.

### Presence

The sockets of a device are numbered in the order in which the agent opens them.
`at` is where the server's handler of a socket stands, `agent` and `open` whether the
two ends consider it open, `closed` whether its close event has been handled.
`AgentDrops` separates the agent's view from the server's, which learns of it later;
`LookupDone` may come for a socket that is closed by then. All grace windows have the
same length, so they end in the order they began. The history variable `usurped`
holds the devices whose registration was last taken by a dead socket; `crashed` says
that a restart has lost the grace timers.

### Handoff

`pc` follows `transfer`: load, patch, wait, then commit or roll-back. The two agents
are those of `PlayerAgent`, reduced to what plays, what resolves, the id they report
and the status; `mail` holds their reports on the way. The retry of a failed load is
one step. `may` is chosen at the start: the set of hazards the behaviour may meet. One
run thus covers every environment from none of them to all, and a property that only
holds under some says so.

### ResolveSlots

`active` and the queue of waiters as in the code; `Wait` and `Acquire` are the two ways
through `acquireResolveSlot`, `GiveBack` and `HandOver` the two ways through
`releaseResolveSlot`.

### MpvProcess

`proc` is what mpv is, `links` the sockets the agent has towards it, `sock` the one it
writes to; `started`, `stopping` and `ipcConnecting` are the flags of the class.
`restartTimer` and the count `retryTimers` are the timers. `Settled` is the one
assumption on time: over the loopback a refusal or a close event is there long before
a timer of a second fires; `SlowSockets` drops it.

### VolumeRamp and VolumeSlider

A call of `setVolumeSmooth` is asked, measured, ramping: between the first two it waits
for mpv, and `rampTimer` is the only timer the field remembers. The arithmetic of the
ramp is the code's, rounding included. `CallsApart` says that no call comes while
another waits for mpv; the history variable `wanted` is the volume asked for last. The
slider is the other end: `volumeTimer` is its throttle, `recent` the 250 ms.

### PlayerProcess and Periphery

Parts of one process, or of one system, that share no variable. A behaviour picks a
`part` and follows it, so one run checks all of them without multiplying their states.
What holds of a part in all its behaviours holds of it in the interleaving of all
parts. `PlayerProcess` extends `ResolveSlots`, and `Periphery` extends `Catalogue`, so
that the properties the runs check are the ones the theorems state.

### Sessions

`db` is the table of refresh tokens: a token that was traded in is good for the reuse
window, then lapsed, and one that a log-out or a new password removed is revoked.
`reqs` are the requests, of which a page load may leave one without a tab (`NoTab`); the
browser shares one `cookie`, each tab keeps its access token. `Rotate` is
`issueRefreshToken`, `Waits` the single flight of `tryRefresh`. The window lasts longer
than any request and than the interval between two polls of an open tab.

### WebStore

An answer under way is a record of what the server knew when it answered; `answers[t]`
is a set, so answers overtake each other. Its kind says what the tab does on arrival:
follow the account's device, ask for a state, tell the server. `Disturb` counts
whatever a user, a player or a fault does; the rest is the tabs' own doing. The state of
a player is a version number.

### Catalogue

`lookups[c]` follows a call from the cache to the provider; `inFlight` is the Map of
the single flight, `failures` and `openFor` the breaker. The ways a call ends are
actions of their own: it finds something, finds nothing (a look-up by id swallows what
fails, and the wrapper takes that for a success), throws, or hangs until its 15 s are
over, also when the provider is up again by then.

### AutoQueue

`ahead` is the number of tracks beyond the cursor, all that the decision depends on;
`refills[r].left` is what a refill's copy of the queue has beyond the cursor of now, so
that the cursor may move while the refill waits.

Definitions named as mutants in their comments are plausible bugs of the definition
below them. They are used by no specification; replacing the definition by its mutant
makes the property that watches it fail, which shows that the property can fail.

## 3 The runs

`tlc -config X.cfg MCModule` runs one. Deadlock is not checked where the
system really stops: when the bound on arrivals is used up or there is nothing left to
do.

| Run | Shows |
|---|---|
| `QueueStore_locked` | two requests, all ten locked mutations, three calls: exclusion, no lost update, refinement of `AtomicQueue`, a reorder without repeated ids keeps the items |
| `QueueStore_faults` | rejected commands, a crash, locks that expire under their holder, `setIndex`: only the owner's release frees a lock, no lock is held for good |
| `Playback_serial` | one handler at a time, user commands and natural ends: cursor, state and player agree when all is quiet |
| `Playback_edits` | edits, prefetches and failures: the server's pick is mpv's next entry, mpv holds no removed track, retries are bounded and of the track that failed |
| `Playback_races` | two interleaved handlers with everything that can go wrong switched on: the cursor stays on a queue that only grows |
| `Playback_interleaved` | violated: the cursor ends on another item than the player's track (see below) |
| `PlayerProcess_parts` | resolver: never more than two of four resolves run, no slot is idle while one waits, every one runs; commands: the last one wins, reports name what is heard, dropped entries stay out, a natural end adopts what mpv plays, a watched load is answered, each under the encounters it names; mpv: one connection at most, and after the last loss one for good; volume: the last target is what stays, when calls come apart |
| `VolumeRamp_overlap` | violated: two ramps, one remembered timer (see below) |
| `Presence_reconnects` | the live socket is the registered one across reconnects and a restart; a device that is gone is parked, one that stays is listed |
| `Handoff_transfer` | a transfer under all 32 sets of hazards: a roll-back leaves the source's player on its track, its state paused only after a time offline, and the shared cursor unless a load failed; the commit is proven and one device plays under the hazards these properties name |
| `Periphery_parts` | sessions: a refresh is refused only for a revoked token; store: when all is quiet every tab shows the account's device and its latest state; catalogue: one call per key, and the circuit closes for good once the provider is up; auto-queue: at most one refill per device too much |
| `VolumeSlider_timer` | violated: an older volume is sent last (see below) |

### Where the code and its comments disagree

`Playback_interleaved` checks what `playback.service.ts:48-50` promises ("serialize
mutating playback commands ... so rapid bursts can't interleave"). Nothing calls
`enqueueCommand`, and TLC finds `play` and `next` interleaved so that the cursor and
the player end on different tracks.

`VolumeRamp_overlap` checks `mpv.ts:378-379` ("A new target ... never fights the previous
ramp"). A call cancels the ramp it knows of, then awaits mpv's volume, then arms a
timer. Of two calls that wait at once both arm one; the field remembers the second,
and the first goes on against it, also after a `stop`. With `CallsApart = TRUE` the
property holds (`PlayerProcess_parts`).

`VolumeSlider_timer` checks what `ws-rate-limit.ts:10-11` relies on ("the web already
debounces them and only the latest value matters"). `volumeInput` clears the timer only
when it sets it anew. A movement 250 ms after the last volume sent is sent at once, and
so is the mute button's volume; a timer left from before then sends its older one.

The other disagreements met while modelling are the conditions under which the
properties above hold. The models reproduce each of them when the condition is
dropped, or the constant named is changed:

* Queue. `setIndex` writes the cursor without the lock and is overwritten by a
  mutation in progress, and a handler that outlives its lock writes over its successor
  (`NoLostUpdate` with the constants of `QueueStore_faults`). An order that repeats an
  id has the right length and drops an item (`ReorderKeepsItems` with
  `RepeatedIds = TRUE`). With the cursor beyond a shrunken queue `insertAtCurrent`
  writes that cursor back, and the inserted item is not the current one.
* Playback. A prefetch block that was reading when `invalidatePrefetch` cancelled the
  timer arms one all the same (`BufferedIsQueued` with two handlers). The prefetch of a
  short track is lost to its own load (`PendingIsBuffered` with `ShortTracks = TRUE`).
  A report read before a pause is written after it (`StateMatchesPlayer` with two handlers
  and the command `report`), and one sent during a load makes the retry reload the old track
  (`RetriesSameTrack` with `report`). The 3 s guard drops an early failure of the new
  track (`EarlyFailures`) and lets through a late end of the old one that comes before
  `lastLoadAt` is written (`OldTrackPlaysOn`). Adoption finds the first item with the
  track's id, and ignores a repeat-one that was set after the prefetch.
* Agent. Of two loads that resolve at once the last to resolve wins; a prefetch that
  resolves after `prefetchClear` is appended all the same; after a broken stream mpv
  goes on to the appended entry under the old id (`LastCommandWins`,
  `DroppedStaysOut`, `IdIsHeard` without their `Apart`). The watchdog can fire during
  the resolve, under the id of the track before, and is not armed again
  (`LoadIsAnswered` for loads that are not `watched`). With `PrefetchEnabled = FALSE`
  the agent adopts an entry that was never appended (`AdoptedIsPlayed`).
* Presence. The answer to the look-up of a dead socket takes the registry from its
  successor (`LiveIsRegistered` for `usurped` devices); a restart loses the grace timer
  (`OfflineIsParked` after `crashed`). The close of an old socket is broadcast as
  "offline" after its successor was announced, the timer of an earlier disconnect is
  not cancelled by a reconnect, and every device's heartbeat renews the TTL that all
  share; no property states these three yet.
* Hand-over. A report of the track before, sent while the target's load resolves, a
  target that was playing already, and the server's own retry each pass for the
  target's start (`CommitIsProven` under "early", "busy", "failing"). The stop of the
  roll-back does not cancel a load that still resolves (`OneDevicePlays` under "late").
* mpv. With `SlowSockets = TRUE` a restart may find the old connection not closed yet
  (`OneConnection`). When the process cannot be started at all, no exit
  event follows and `started` stays set: nothing starts it again. When mpv exits while a
  track plays, it comes back empty, and the agent reports the track as playing all the
  same. No property states the last two.
* Sessions. `tryRefresh` sends the cookie and takes 401 and 403 for final; without a
  cookie the server answers 400, while its log line says 401 (`auth.ts:149-150`), so a tab
  whose cookie another tab's log-out has cleared keeps trying. A log-out that races a
  refresh revokes the old token while the new one is created, and its cookie may arrive
  after the cleared one. The models have both; `NoFalseLogout` is not about them.
* Store. A log-in whose first request after the password fails leaves a tab that is
  logged in without events and polls (`useMusic.ts:21`); `WebStore` leaves it out, since
  `Converges` cannot hold for such a tab. Answers are stored whatever device the tab shows by
  then, also after a log-out; the next poll mends that, and `Converges` says no more.
  `device.selected` goes to every controller (`library.ts:136`), though `registry.ts` has
  `sendToUser`; in `WebStore` there is one account.
* Catalogue. A look-up by id that fails counts as a success and closes the circuit. A
  call that has timed out goes on at the provider, so what `OneFetch` says is of the calls
  that the server waits for.
* Rate limits (not modelled). Comments exempt "seek/volume" (`ws-rate-limit.ts:10`,
  `gateway.ts:81`), but the set names `player.setVolume` and `player.seek`, which are what the
  server sends; a controller's commands are `setVolume` and `seek`.
* Views (not modelled). `Queue.vue:65` says "insert BEFORE the target"; when an item is
  dragged downwards the target's index has already shifted, and it lands behind.
  `Search.vue:23` shows the answer that arrives last, not the one to the last query.

### Bounds

Every bound is a constant with `Max` in its name. Two requests are enough for each
race of the queue and of playback, which are races of a reader and a writer; the
proofs show that for the queue their number does not matter. A queue of two items
grows to three or more by the calls of a run, so there are a first, a last and a middle
item and, where duplicates matter, the same track twice; in `Playback_edits` it starts with
one, and a `play` of the other track or an edit adds to it. Two attempts of a mutation and
three of `advance` reach contention, retry and refusal. The commands of a run
(`MaxCommands`, two to five) are as many as the longest story its properties need: in
`Playback_edits` five suffice for a command, and two tracks that fail with their
retries until the server gives up. Modes and stops are not among them; they are in
`Playback_serial`, and the theorems have them all. Three commands of the agent are a load, a prefetch
and whatever meets them, with one end on its way to the agent at a time. Four resolves and two slots fill the slots and leave a queue of two.
Two exits and a dropped connection reach a restart during a reconnect and during a
restart; three sockets are one more than ever exist at once. The ramps go up, down and
nowhere, in two or more steps; in `VolumeRamp_overlap`, up and down only. Two tabs, two requests and three tokens give the race of
two refreshes and a successor; three events are a page load, a lost answer and an expired
access token, in any mix. In `WebStore` three disturbances are a pick, a change and a fault
around them. Two callers and two failures to open the circuit are enough for a call that
is shared, one that is refused and one that times out late; the
theorem covers any number of callers. Three refills of two devices overlap and follow
one another. Three sockets of a device give one that is closing, one that is
live and one in between. In the transfer one
retry, two tracks in a row and three failed loads reach the retry, the next track and the
surrender, and one report on its way per device is enough for one that is overtaken.

### Fairness

`QueueStore!FairSpec`: a handler that can take its next step takes it, and a TTL ends:
Redis answers or rejects, Node resumes what was awaited. Nothing is assumed of new
calls.

`PlayerProcess!ProcessFairness`, for the resolver (as `ResolveSlots!FairSpec`): yt-dlp
ends, because `execFile` has a timeout, and a resolved promise is resumed; for mpv: timers fire, sockets answer, a process that
was started listens.

The commands of the agent need none: `LoadIsAnswered` says that a load which is watched
and not yet answered has its watchdog armed, and an armed watchdog fires after 10 s.

`Presence!FairSpec`: look-ups are answered, the close of a lost socket is noticed in the
end, timers fire, a connected agent sends its heartbeat (`setInterval`); nothing is
assumed of reconnects, closes by the network or reports.

`Periphery!PeripheryFairness`: a tab polls every 10 s and connects its socket anew after 3 s, requests are answered or fail, time passes for
the breaker and for a call that hangs; nothing is assumed of users, of the provider, or of
look-ups being made.

All of it is weak fairness, but for the start of mpv: a refusal on
its way holds `Start` and `Listens` up for a moment (`Settled`), again and again, so those two
have strong fairness. The timer fires and the process listens all the same.

## 4 The proofs

`tlapm M.tla` checks the proofs of a module. They hold for every value of the
constants that the modules' assumptions allow.

**QueueStoreProofs.** `LockExcludes`: mutual exclusion, from the assumption that no
lock expires under its holder (`~SlowHolders`), also with rejected commands and
crashes. The invariant is exclusion itself, that whoever is inside its critical
section owns the lock key, with the types of `pc` and `lock`.
`NoUpdateIsLost`: what a handler read is what Redis still holds when it writes.
Exclusion alone does not give this, since `setIndex` takes no lock, so the theorem
also assumes that nobody uses it; with the constants of `QueueStore_faults`, which
have both, TLC finds it violated, so neither assumption is idle.
`QueueIsAtomic`: `Spec => Atomic`, the refinement, with Redis answering and the server
staying up (a crash between the two writes leaves a queue without its cursor, which is
no step of the contract). Beyond the invariant of the second theorem it needs that the
outcome a handler holds is the outcome of its call on what it read; each step then maps
to `Call`, `Effect`, `Refuse`, `Return` or a stutter. The lemmas on `CursorOf` deal with
the handler between its two writes, of which exclusion leaves at most one.

`LockGoesWithItsOwner` needs none of these assumptions: whatever expires, fails or
crashes, a lock that goes away went with its owner's release or its TTL. It rests on
the guards of the steps, the token check of the release script first of all, and on
the types of `pc` and `lock`.
`QueueTypes` is the type invariant, in every environment too. To keep the ids of the
queue below the next unused one it says of every place a handler can stand at what it
holds there, its outcome included (`HandlerFits`); the filter of `remove` is
`Without`, written as a function of the positions it keeps, because the provers know
nothing of the library's `SelectSeq`; TLC compares the two (`WithoutFilters`).
`ReorderDropsNothing`: `reorder` compares lengths only, and that a list of the right
length whose ids all are in the queue holds every item is a pigeonhole. It needs that
no request names an id twice (`~RepeatedIds`), or the list is long enough without
covering the queue, and the lock: what was read must still be what Redis holds
(`ReadsHold`, the part of `NoUpdateIsLost` that survives setIndex).

**QueueOpsProofs.** The lemmas on data that these and the theorems of `Playback` share:
that the least and greatest of some positions are positions, that a search answers -1
or a position, what an insertion puts where, that a removal keeps exactly the other
items in their order and that ids stay distinct through each.

**HandoffProofs.** `HandoffTyped`, and `RollbackIsClean`, under every set of hazards: a
transfer that has not committed, or that failed in whatever way, leaves the source's player
on its track and its state naming it. The state says "playing", or "paused" where devices
may go offline (`pauseOnDisconnect`), and the shared cursor stays where it was unless loads
may fail: the recovery from a failed load on the target moves it. It is not inductive as it
stands; the invariant adds that, until the source is stopped, no report of another
track, no load and no failure of the source is on its way.
`SourceStopsLast`: the source is stopped only when the target plays, if the target was silent
before, sends no report while its load resolves, and the load does not fail; the load may
start late and devices may go offline. The server never
sees the target itself, only its reports and the state patched from them, so the
invariant says of every stage what a sign of a start implies (`QuietTarget`). Without the three
conditions the commit is not proven: `CommitIsProven` without its hypothesis is violated
under "busy" as soon as the target was playing.
`ExactlyOnePlays`: once all is over exactly one device plays, under the hazards "busy"
and "early" too, in which the commit comes too soon, if no load fails or comes late and both
devices stay online; the invariant says that from the load on the target plays the track or
will.

**PresenceProofs.** `PresenceTyped` and `CommandsReachTheLiveSocket`: whichever socket is
authenticated and open at both ends, the registry holds it. The answer to the look-up of
an older socket could take its place, so the invariant adds that the agent opens a socket
only when it has given up those before (`OneAtATime`).

**PeripheryProofs.** `RefillsAreBounded`: the queue is ahead by at most a refill per
device. What is ahead now says nothing of the refills under way, and the cursor moves
while they are: the invariant is a bound for every cursor `v` the queue may still move
to, on what is ahead and what the refills may still append counted together
(`Claims`, a set of slots whose cardinality is the sum). It assumes that the account has
finitely many devices. `RefusedMeansRevoked`: a refresh is refused only for a session
that was ended. It assumes `RetriesInTime`, which the code does not guarantee: whoever gets no
answer asks again within the 60 s of the window. The invariant follows each token from its creation to the cookie, to the
requests that carry it, and to the answer that brings its successor.
`LookupsAreShared`: no two calls for one key are under way and whoever joined one has it
to wait for. `OneFetch` is not inductive: that a caller which makes a call is alone
follows from the Map `inFlight`, so the invariant `FlightsAreLed` adds that the Map holds
a key exactly as long as somebody leads a call for it, and that one who joined finds its
key there. The lemmas `AloneMoves`, `LeaderMoves` and `OverMoves` are the three ways a
lookup changes; each action is one of them.
`PeripheryTyped` is the type invariant of the four parts. Its part for the store of the
tabs (`StoreInv`) is more than shapes: a tab that is logged in shows a device, which
depends on what is under way to it (a pick names a device, and what the account has
selected may be stale by the time it arrives), and no state shown or under way is newer
than the number of changes there were.

**PlayerProcessProofs.** Theorems about the agent's process, for any number of commands,
exits, links, calls and volumes. The ones about commands (`LastCommandIsObeyed`,
`ReportsNameWhatIsHeard`, `EndsAdoptWhatPlays`, `DroppedEntriesStayOut`,
`WatchedLoadsAreAnswered`) have the
encounters that the code does not survive in the properties themselves; their invariants
say, for each place a handler can stand at, what it is still going to do to mpv's
playlist, and of the events on their way: the first, if it is a natural end, came with mpv
going on to what the state has noted as buffered, and no natural end waits while a prefetch
is in progress. Loads and stops between an end and its event are covered; a prefetch or a
clear there is not. `EndsAdoptWhatPlays` assumes `PrefetchEnabled`, without which the code
adopts an entry that was never appended. `WatchedLoadsAreAnswered` needs of the state, until
mpv gets the load, that it stands at the start of the load's track while the watchdog is
armed (a report of the track before would have disarmed it), and after that, that every end on
its way is the load's own. `ListensOnce` assumes `~SlowSockets` (over the loopback a
close is there before a timer of a second fires); it needs neither `ipcConnecting` nor
`started`: under that assumption the timers alone keep two attempts apart.
`RampsReachTheLastTarget` assumes `CallsApart`, without which `VolumeRamp_overlap` shows
the violation; its invariant is that the field `rampTimer` knows every ramp that runs.
`SlotsTyped`, `NeverMoreThanMax`, `NoSlotIsWasted` are about the semaphore alone: the
counter is the number of calls that hold a slot, at most the maximum; the queue holds
exactly the calls that wait, each once; nobody waits while a slot is free. One invariant
carries all three: the bound alone is not inductive without knowing that the counter
counts the holders, nor is that without knowing that a waiter is queued once.
`ProcessTyped` and `SlotsOfTheProcess` are the types of all parts and the semaphore's
theorems carried over to the process.

**PlaybackProofs.** `PlaybackTyped`: the types of `PlaybackService`'s variables under any
number of interleaved handlers, with item ids that stay distinct. The invariant types
what each handler holds by the label it stands at, and what each waiting patch will
write. `CursorStaysInRange`: the cursor never leaves the queue, though `setIndex` writes a
position that was read several awaits before, and other requests change the queue in
between. The invariant (`RangeInv`) adds that a handler which holds a position holds one
that the queue still has, and that a queue it read is no longer than the queue of now:
both survive because queues only grow. This theorem assumes `GrowOnly` and that nobody
uses `playTracks`: with a removal in between the cursor does leave the
queue, since `remove` does not adjust it.
`PlaybackTyped` assumes neither: it covers removals, clears and reorders.
`FailuresStayBounded`: however queues are edited, modes change, playback is paused or stopped
and players come and go, failures send at most (`MAX_TRACK_RETRIES` + 1) *
`MAX_CONSECUTIVE_ERRORS` loads from the command or natural end that started a track to the
surrender, for every value of both. None of these starts the count anew. The invariant (`BudgetInv`) is an account: the
loads counted are paid for by the tracks given up, by
the first load of the track now played and by the retries spent on it; each label says
what a handler standing there may still spend, and a patch that swaps the track, which
hides the retries spent on it, may only wait when none of them is needed to pay. It
assumes one handler at a time (`OneHandler`): with a second one TLC finds the bound
exceeded, because the loads of two handlers overlap and the retries of one are counted
against the track the other has put into the state. It also assumes that no report arrives:
one that names another track than the state's swaps the track, and with it the budget of
retries; TLC finds the bound exceeded then.

**PlaybackQuietProofs.** What must agree when all is quiet, for any number of commands,
tracks and timers, any retry limits and any auto-queue, but only where nothing disturbs
the handlers (`Undisturbed`): one handler at a time,
no periodic report, a player that stays connected, loads that outlast their handler, and
ends and failures that belong to the track the server thinks is playing. `resume` is
left out where tracks fail, because a device that is given up after failures says
"stopped" while mpv plays on. Items may be added, removed, cleared and reordered. No
condition is idle: with any one of them dropped, TLC
finds one of the properties violated within five commands, so each names a way in which
the code loses the agreement.
`PicksAreBuffered`: the pick the server holds is what mpv goes on to, so that
the natural end adopts what is heard. `FailureIsReloaded`: retryTrack takes the track from
the device state, and it is the one that failed. Without failures also `StateTellsPlayer`
(the device state tells what the player does) and, where requests only add (`GrowOnly`),
`CursorStandsOnLoaded` (the cursor stands on what is heard; a removal moves it off).
None of them is inductive, since between two handlers' ends the four differ. One invariant (`QuietInv`) carries all: it says of the label a handler stands
at, or will stand at once its patch is written (`Ahead`), how queue, state (`Soon`), pick,
timers and player differ there, in seven stages: at rest, invalidating, heading for a
load, loading, a track's end, adopting, failing. It also says that at most one timer is
armed, that none is beside a pick, and that a handler waits for its own patch only. Each
step is shown to leave the handler in one of the stages.
`RemovedAreNotBuffered`: what mpv holds for the gapless change is in the queue, so that a
track which was removed is not heard. `QuietInv` says nothing of the queue's tracks;
`BufferInv` adds that what mpv has buffered, what a timer is armed for, what a block is about
to pick and the pick itself are tracks of the queue, unless the handler is still on its way
to `invalidatePrefetch`, or to the load that replaces the playlist (`Stale`). It also assumes
that `playTracks` and failing loads do not come together (`Replaceable`): `playTracks` leaves
the clean-up to its load, and when its loads fail until the server gives up, mpv plays on and
has a track of the old queue still buffered. TLC finds that with `MaxConsecutiveErrors = 1`.

Assumptions on constants: "null" is neither a track nor an item; bounds and settings are natural numbers, `MAX_CONSECUTIVE_ERRORS`
is not 0, the start queue is a queue of tracks, names of "nothing" are no process, tab or
call. Each has a name and TLC evaluates it on every run.

Every invariant and action property that a passing run checks is stated by a theorem, some
under the conditions named above: where a run goes beyond them (`Playback_edits` and the like),
its own bounds are what vouches for the property. Only model-checked:

* `LatestIsSent`, which the code violates;
* `WaiterRuns` (`EveryWaiterRuns` of the process), `Reconnects`, `LockIsFreed`, `Converges`, `CircuitRecovers`,
  and of `Presence` `OfflineIsParked` and `LiveIsListed`: liveness under fairness, and
  `ENABLED`, are out of the prover's reach, as are inductions over data and operators declared
  `RECURSIVE`; no module here declares one;
* that `Without` is the filter of the sequences (`WithoutFilters` in `MCQueueStore`), since
  `SelectSeq` is defined by recursion.

## 5 What is not modelled

The components with status `not_modelled` in `PROJECT.json`, with the reason for each.
Within the modelled ones: seek, the stored volumes, metadata enrichment,
history rows, the expiry of a socket's token, the 30 s cache of a device's owner, frame
validation, rate limits, the cache of resolved URLs, the pending requests of the IPC
socket, the state an exit of mpv leaves behind in the agent, sign-up and change of name,
the tab's queue, playlists and favourites, which tracks are recommended. Positions within a track appear only where a decision depends on
them (is it beyond 0?). Wording, logging and metrics are left out. A device has one
account and an account one queue; `Playback` has one device, `Handoff` two.

Some simplifications to keep in mind when reading the results: in `Playback` a queue
call is one step and the agent obeys in order, so its runs show what the server does
wrong on its own; in `PlayerAgent` the server is any sequence of commands; `Handoff`
takes from both only what the transfer depends on. A refill of the auto-queue appends
one track in one step of `Playback`; `AutoQueue` has the refills as they are, with the
queue reduced to a number. `Periphery_parts` and `RefusedMeansRevoked` assume `RetriesInTime`.

## 6 The plan

Done, in this order: `QueueOps`, `QueueStore` with `AtomicQueue` and their proofs;
`Playback`; `ResolveSlots` with proofs; `PlayerAgent`; `Presence`; `Handoff` with proofs;
`MpvProcess`, `VolumeRamp` and `PlayerProcess`; `Sessions`, `WebStore`, `AutoQueue`,
`Catalogue` with a proof, and `Periphery`; `VolumeSlider`. Next, in order of importance:

1. `WsRateLimit`: both windows and the in-flight counter with the gateway's handlers;
   what a refused natural end costs the playback of the device.
2. mpv's state shared by `PlayerAgent` and `MpvProcess`: an exit while a track plays.
3. `Pairing`: code, attempts, expiry, two agents with one code.
4. `History`, `PlaylistStore`.
5. Extensions: item ids and several devices in `Playback`; `closePlayer` and token
   expiry in `Presence`; the owner cache in `QueueStore`.

Proofs to add: `QueueIsAtomic` with rejected commands, against a contract that lets a
mutation lose its cursor's write; the theorems of `PlaybackQuietProofs` with reports that
arrive between handlers.
