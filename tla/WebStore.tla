------------------------------ MODULE WebStore ------------------------------
(***************************************************************************)
(* What the tabs of an account show (apps/web/src/composables/useMusic.ts, *)
(* lib/ws.ts, components/DeviceSelector.vue): the device they have         *)
(* selected, which is one for the account, and the state of its player.    *)
(* Both come as answers, to requests that polls, picks and events make,    *)
(* and as events over the controller WebSocket, which may be down: nothing *)
(* asks again when it is back, only the next poll does.                    *)
(*                                                                         *)
(* An answer holds what the server knew when it was asked, may arrive      *)
(* after any other, and is stored whatever the tab shows by then.  What a  *)
(* tab does when it arrives goes by its kind: a "poll" is followed by      *)
(* "sync", a "transfer" by the selection and a "pick", a "pick" by the     *)
(* "put" that tells the account.  The devices do not change; states are    *)
(* versions, and the queue, which is fetched the same way, is left out.    *)
(***************************************************************************)
EXTENDS Naturals, FiniteSets

CONSTANTS
  Tabs,
  Devices, NoDevice,
  FirstDevice,  \* the account's device at the start
  MaxEvents     \* bound: disturbances of any kind, see Disturb

VARIABLES
  chosen,    \* the account's device (RedisKeys.userSelectedDevice)
  version,   \* version[d]: of the state of device d
  authed,    \* the tabs that are logged in
  selected,  \* selected[t]: store.selectedDevice
  playback,  \* playback[t]: [dev, ver], store.playback
  socket,    \* the tabs whose WebSocket is open
  answers,   \* answers[t]: set of [kind, dev, ver], under way to tab t
  events     \* disturbances so far

vars == <<chosen, version, authed, selected, playback, socket, answers, events>>

NoState == [dev |-> NoDevice, ver |-> 0]

\* Every tab is logged in and shows what is.
Init ==
  /\ chosen = FirstDevice
  /\ version = [d \in Devices |-> 0]
  /\ authed = Tabs /\ socket = Tabs
  /\ selected = [t \in Tabs |-> FirstDevice]
  /\ playback = [t \in Tabs |-> [dev |-> FirstDevice, ver |-> 0]]
  /\ answers = [t \in Tabs |-> {}]
  /\ events = 0

\* A log-in or log-out, a device picked, a change of a player's state, a request
\* that fails, a socket that closes.
Disturb == events < MaxEvents /\ events' = events + 1

\* refreshState: the answer is about the device selected now.
StateOf(kind, d) == [kind |-> kind, dev |-> d, ver |-> version[d]]
Sync == [kind |-> "sync", dev |-> chosen, ver |-> 0]
Of(t, kinds) == {a \in answers[t] : a.kind \in kinds}

-----------------------------------------------------------------------------
\* login, or the restored session: the first online device is selected
\* (refreshDevices), the account's is asked for; events and polls start.  A login
\* whose requests fail is left out: it starts neither.
Login(t, d) ==
  /\ t \notin authed /\ Disturb
  /\ authed' = authed \cup {t}
  /\ selected' = [selected EXCEPT ![t] = d]
  /\ answers' = [answers EXCEPT ![t] = @ \cup {StateOf("state", d), Sync}]
  /\ UNCHANGED <<chosen, version, playback, socket>>

\* Mutant: the socket stays open.
LogoutKeepsSocket(t) ==
  /\ t \in authed /\ Disturb
  /\ authed' = authed \ {t}
  /\ selected' = [selected EXCEPT ![t] = NoDevice]
  /\ playback' = [playback EXCEPT ![t] = NoState]
  /\ UNCHANGED <<chosen, version, socket, answers>>

\* logout: the store is emptied; answers that are under way will still come.
Logout(t) ==
  /\ t \in authed /\ Disturb
  /\ authed' = authed \ {t}
  /\ socket' = socket \ {t}
  /\ selected' = [selected EXCEPT ![t] = NoDevice]
  /\ playback' = [playback EXCEPT ![t] = NoState]
  /\ UNCHANGED <<chosen, version, answers>>

\* pick in the selector: playback moves along, or not (selectDeviceAuto).
Pick(t, d) ==
  /\ t \in authed /\ d # selected[t] /\ Of(t, {"transfer", "pick"}) = {}
  /\ Disturb
  /\ answers' = [answers EXCEPT ![t] = @ \cup {[kind |-> "transfer", dev |-> d, ver |-> 0]}]
  /\ UNCHANGED <<chosen, version, authed, selected, playback, socket>>

\* The 10 s poll, or the tab becomes visible (bound: when no answer is due).
Poll(t) ==
  /\ t \in authed /\ selected[t] # NoDevice /\ answers[t] = {}
  /\ answers' = [answers EXCEPT ![t] = @ \cup {StateOf("poll", selected[t])}]
  /\ UNCHANGED <<chosen, version, authed, selected, playback, socket, events>>

\* ws.onclose; the first connection, and the attempt 3 s later.
WsCloses(t) ==
  /\ t \in socket /\ Disturb
  /\ socket' = socket \ {t}
  /\ UNCHANGED <<chosen, version, authed, selected, playback, answers>>

WsConnects(t) ==
  /\ t \in authed \ socket
  /\ socket' = socket \cup {t}
  /\ UNCHANGED <<chosen, version, authed, selected, playback, answers, events>>

\* A player's state changes: player.state to every tab that shows the device.
Change(d) ==
  /\ Disturb
  /\ version' = [version EXCEPT ![d] = @ + 1]
  /\ playback' = [t \in Tabs |-> IF t \in socket /\ selected[t] = d
                                 THEN [dev |-> d, ver |-> version'[d]] ELSE playback[t]]
  /\ UNCHANGED <<chosen, authed, selected, socket, answers>>

-----------------------------------------------------------------------------
(***************************************************************************)
(* Answers.                                                                *)
(***************************************************************************)

\* The answer a is consumed, and followed by the answers more.
Instead(t, a, more) == answers' = [answers EXCEPT ![t] = (@ \ {a}) \cup more]

\* store.playback = answer: also of a device that is not selected any more, also
\* in a tab that has logged out.
StateArrives(t, a) ==
  /\ a \in Of(t, {"state", "poll", "pick"})
  /\ playback' = [playback EXCEPT ![t] = [dev |-> a.dev, ver |-> a.ver]]
  /\ Instead(t, a, CASE a.kind = "state" -> {}
                     [] a.kind = "poll" -> {Sync}
                     [] a.kind = "pick" -> {[a EXCEPT !.kind = "put"]})
  /\ UNCHANGED <<chosen, version, authed, selected, socket, events>>

\* Mutant: the account's device is not followed.
SyncIgnored(t, a) ==
  /\ a \in Of(t, {"sync"})
  /\ Instead(t, a, {})
  /\ UNCHANGED <<chosen, version, authed, selected, playback, socket, events>>

\* syncSelectedDevice: follow the account's device, if the list knows it (after
\* a log-out the list is empty).
SyncArrives(t, a) ==
  /\ a \in Of(t, {"sync"})
  /\ IF t \in authed /\ a.dev \notin {NoDevice, selected[t]}
     THEN /\ selected' = [selected EXCEPT ![t] = a.dev]
          /\ Instead(t, a, {StateOf("state", a.dev)})
     ELSE UNCHANGED selected /\ Instead(t, a, {})
  /\ UNCHANGED <<chosen, version, authed, playback, socket, events>>

\* selectDevice, once transfer has answered or failed.
Selects(t, a) ==
  /\ a \in Of(t, {"transfer"})
  /\ selected' = [selected EXCEPT ![t] = a.dev]
  /\ Instead(t, a, {StateOf("pick", a.dev)})
  /\ UNCHANGED <<chosen, version, authed, playback, socket, events>>

\* PUT /api/selected-device at the server: it stores the choice and sends
\* device.selected, which every tab that is connected follows.
PutArrives(t, a) ==
  LET followers == {u \in socket : selected[u] # a.dev}
  IN  /\ a \in Of(t, {"put"})
      /\ chosen' = a.dev
      /\ selected' = [u \in Tabs |-> IF u \in followers THEN a.dev ELSE selected[u]]
      /\ answers' = [u \in Tabs |->
                       (answers[u] \ (IF u = t THEN {a} ELSE {}))
                         \cup (IF u \in followers THEN {StateOf("state", a.dev)} ELSE {})]
      /\ UNCHANGED <<version, authed, playback, socket, events>>

\* A request fails: a poll still asks for the selection, a pick tells nobody.
Fails(t, a) ==
  /\ a \in answers[t] /\ a.kind # "transfer"
  /\ Disturb
  /\ Instead(t, a, IF a.kind = "poll" THEN {Sync} ELSE {})
  /\ UNCHANGED <<chosen, version, authed, selected, playback, socket>>

Arrives(t, a) ==
  StateArrives(t, a) \/ SyncArrives(t, a) \/ Selects(t, a) \/ PutArrives(t, a)

Arrival(t) == \E a \in answers[t] : Arrives(t, a)

Next ==
  \/ \E t \in Tabs, d \in Devices : Login(t, d) \/ Pick(t, d)
  \/ \E t \in Tabs : Logout(t) \/ Poll(t) \/ WsCloses(t) \/ WsConnects(t) \/ Arrival(t)
  \/ \E d \in Devices : Change(d)
  \/ \E t \in Tabs : \E a \in answers[t] : Fails(t, a)

Spec == Init /\ [][Next]_vars

-----------------------------------------------------------------------------
TypeOK ==
  /\ chosen \in Devices \cup {NoDevice}
  /\ events \in 0..MaxEvents
  /\ version \in [Devices -> 0..MaxEvents]
  /\ socket \subseteq authed /\ authed \subseteq Tabs
  /\ selected \in [Tabs -> Devices \cup {NoDevice}]
  /\ \A t \in Tabs : t \in authed => selected[t] # NoDevice
  /\ playback \in [Tabs -> [dev : Devices \cup {NoDevice}, ver : 0..MaxEvents]]
  /\ \A t \in Tabs : answers[t] \subseteq
       [kind : {"state", "poll", "sync", "transfer", "pick", "put"},
        dev : Devices \cup {NoDevice}, ver : 0..MaxEvents]

\* What tab t shows is what is.
UpToDate(t) ==
  /\ chosen # NoDevice => selected[t] = chosen
  /\ playback[t] = [dev |-> selected[t], ver |-> version[selected[t]]]

\* "WS push is primary; polling only as safety net" (useMusic.ts:110): once
\* picks, changes and faults stop, every tab that is logged in comes to show the
\* account's device and the latest state of its player, for good.
Converges == <>[](\A t \in authed : UpToDate(t))
=============================================================================
