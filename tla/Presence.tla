------------------------------ MODULE Presence ------------------------------
(***************************************************************************)
(* Who is online: the player sockets of the gateway (ws/gateway.ts), the   *)
(* live registry (ws/registry.ts), the online set in Redis                 *)
(* (device.service.ts) and the grace window after a disconnect.            *)
(*                                                                         *)
(* A device opens one socket after another.  Its sockets are numbered in   *)
(* the order in which the agent opens them; the server learns of a closed  *)
(* socket later than the agent, and the answer to the lookup of a socket's *)
(* credentials is handled even when the socket is closed by then.          *)
(*                                                                         *)
(* Credentials are taken to be right; their expiry, rotation and           *)
(* revocation, and closePlayer with them, are left out.                    *)
(***************************************************************************)
EXTENDS Integers, Sequences, FiniteSets

CONSTANTS
  Devices,
  MaxSockets,   \* bound: sockets a device opens
  SlowLookup,   \* may a socket close, or send another frame, during its lookup?
  MayCrash      \* may the server restart (once)?

ASSUME SocketsAreNumbered == MaxSockets \in Nat

VARIABLES
  socket,     \* socket[d][n]: [at, agent, open, closed]: where its handler
              \* is, is it open for the agent, is its readyState OPEN for the
              \* server, has its close event been handled
  players,    \* the registry: the registered socket of a device, or None
  set,        \* Redis: the online set
  told,       \* what the controllers were last told of a device
  state,      \* the playback state of a device
  timers,     \* grace timers, in the order in which they fire
  usurped,    \* history: the devices whose registration was taken last by
              \* a socket that the agent had given up, or the server closed,
              \* while its lookup was under way
  crashed     \* history: the server has restarted

vars == <<socket, players, set, told, state, timers, usurped, crashed>>

None == 0
Sockets == 1..MaxSockets
Unopened == [at |-> "none", agent |-> FALSE, open |-> FALSE, closed |-> FALSE]

\* The handler of the socket knows its device.
Known == {"greet", "authed"}

Init ==
  /\ socket = [d \in Devices |-> [n \in Sockets |-> Unopened]]
  /\ players = [d \in Devices |-> None]
  /\ set = {}
  /\ told = [d \in Devices |-> FALSE]
  /\ state = [d \in Devices |-> "stopped"]
  /\ timers = <<>>
  /\ usurped = {}
  /\ crashed = FALSE

\* Mutant: readyState is not looked at.
RegisteredAnySocket(d) == players[d] # None

\* isPlayerRegistered(d)
Registered(d) == players[d] # None /\ socket[d][players[d]].open

-----------------------------------------------------------------------------
(***************************************************************************)
(* The agent (connection.ts).                                              *)
(***************************************************************************)

\* connect(): a new socket once the last one is closed, and player.auth.
Connect(d, n) ==
  /\ socket[d][n] = Unopened
  /\ \A m \in Sockets : IF m < n THEN socket[d][m] # Unopened /\ ~socket[d][m].agent
                                ELSE socket[d][m] = Unopened
  /\ socket' = [socket EXCEPT ![d][n] = [at |-> "auth", agent |-> TRUE, open |-> TRUE,
                                         closed |-> FALSE]]
  /\ UNCHANGED <<players, set, told, state, timers, usurped, crashed>>

\* The agent finds its socket closed: a lost network, or the server's close.
AgentDrops(d, n) ==
  /\ socket[d][n].agent
  /\ SlowLookup \/ socket[d][n].at \in Known
  /\ socket' = [socket EXCEPT ![d][n].agent = FALSE]
  /\ UNCHANGED <<players, set, told, state, timers, usurped, crashed>>

-----------------------------------------------------------------------------
(***************************************************************************)
(* The gateway.                                                            *)
(***************************************************************************)

\* Mutant: the socket is registered before its credentials are looked up.
AuthFrameRegisters(d, n) ==
  /\ socket[d][n].at = "auth" /\ ~socket[d][n].closed
  /\ socket' = [socket EXCEPT ![d][n].at = "lookup"]
  /\ players' = [players EXCEPT ![d] = n]
  /\ UNCHANGED <<set, told, state, timers, usurped, crashed>>

\* The first frame carries the credentials: they are looked up.
AuthFrame(d, n) ==
  /\ socket[d][n].at = "auth" /\ ~socket[d][n].closed
  /\ socket' = [socket EXCEPT ![d][n].at = "lookup"]
  /\ UNCHANGED <<players, set, told, state, timers, usurped, crashed>>

\* A heartbeat or report that comes during the lookup is taken for a bad
\* auth frame: AUTH_FIRST.
EarlyFrame(d, n) ==
  /\ SlowLookup
  /\ socket[d][n].at = "lookup" /\ socket[d][n].agent /\ ~socket[d][n].closed
  /\ socket' = [socket EXCEPT ![d][n].open = FALSE]
  /\ UNCHANGED <<players, set, told, state, timers, usurped, crashed>>

\* The lookup is answered: the socket is registered and marked online.
LookupDone(d, n) ==
  /\ socket[d][n].at = "lookup"
  /\ socket' = [socket EXCEPT ![d][n].at = "greet"]
  /\ players' = [players EXCEPT ![d] = n]
  /\ set' = set \cup {d}
  /\ usurped' = IF socket[d][n].agent /\ socket[d][n].open
                THEN usurped \ {d} ELSE usurped \cup {d}
  /\ UNCHANGED <<told, state, timers, crashed>>

\* After markOnline and getVolume the controllers are told.
Greet(d, n) ==
  /\ socket[d][n].at = "greet"
  /\ socket' = [socket EXCEPT ![d][n].at = "authed"]
  /\ told' = [told EXCEPT ![d] = TRUE]
  /\ UNCHANGED <<players, set, state, timers, usurped, crashed>>

Speaks(d, n) == socket[d][n].at \in Known /\ ~socket[d][n].closed

\* Mutant: a heartbeat only refreshes the time of the last one.
HeartbeatSeenOnly(d, n) == Speaks(d, n) /\ UNCHANGED vars

\* markOnline, every 5 s.
Heartbeat(d, n) ==
  /\ Speaks(d, n)
  /\ set' = set \cup {d}
  /\ UNCHANGED <<socket, players, told, state, timers, usurped, crashed>>

\* A report of a playing agent.
Report(d, n) ==
  /\ Speaks(d, n)
  /\ state' = [state EXCEPT ![d] = "playing"]
  /\ UNCHANGED <<socket, players, set, told, timers, usurped, crashed>>

\* Mutant: whoever closes takes the entry along.
UnregisterAnyone(d, n) == players' = [players EXCEPT ![d] = None]

\* unregisterPlayer: only the socket that owns the entry removes it.
Unregister(d, n) == players' = [players EXCEPT ![d] = IF @ = n THEN None ELSE @]

\* The close event: of a socket whose device is known, it ends the presence
\* and starts the grace window.
CloseEvent(d, n) ==
  /\ socket[d][n] # Unopened /\ ~socket[d][n].closed
  /\ ~socket[d][n].agent \/ ~socket[d][n].open
  /\ socket' = [socket EXCEPT ![d][n] = [@ EXCEPT !.open = FALSE, !.closed = TRUE]]
  /\ IF socket[d][n].at \in Known
     THEN /\ Unregister(d, n)
          /\ set' = set \ {d}
          /\ told' = [told EXCEPT ![d] = FALSE]
          /\ timers' = Append(timers, <<d, n>>)
     ELSE UNCHANGED <<players, set, told, timers>>
  /\ UNCHANGED <<state, usurped, crashed>>

\* A grace window is over: playback is parked if the device is offline.  All
\* windows are of the same length, so they end in the order they began.
GraceFires ==
  /\ timers # <<>>
  /\ timers' = Tail(timers)
  /\ LET d == Head(timers)[1]
     IN  state' = [state EXCEPT ![d] = IF ~Registered(d) /\ @ = "playing" THEN "paused" ELSE @]
  /\ UNCHANGED <<socket, players, set, told, usurped, crashed>>

\* The TTL of the set, 120 s, which every heartbeat of every device renews.
SetExpires ==
  /\ set # {}
  /\ \A d \in Devices, n \in Sockets : ~Speaks(d, n)
  /\ set' = {}
  /\ UNCHANGED <<socket, players, told, state, timers, usurped, crashed>>

\* The server restarts: sockets, registry and timers are gone, Redis is not.
Restart ==
  /\ MayCrash /\ ~crashed
  /\ crashed' = TRUE
  /\ socket' = [d \in Devices |-> [n \in Sockets |->
                  IF socket[d][n] = Unopened THEN Unopened
                  ELSE [at |-> "gone", agent |-> FALSE, open |-> FALSE, closed |-> TRUE]]]
  /\ players' = [d \in Devices |-> None]
  /\ timers' = <<>>
  /\ UNCHANGED <<set, told, state, usurped>>

-----------------------------------------------------------------------------
Server(d, n) == AuthFrame(d, n) \/ LookupDone(d, n) \/ Greet(d, n) \/ CloseEvent(d, n)

Next ==
  \/ \E d \in Devices, n \in Sockets :
       \/ Connect(d, n) \/ AgentDrops(d, n)
       \/ Server(d, n) \/ EarlyFrame(d, n)
       \/ Heartbeat(d, n) \/ Report(d, n)
  \/ GraceFires \/ SetExpires \/ Restart

Spec == Init /\ [][Next]_vars

\* Lookups are answered, a lost socket times out in the end, timers fire, an
\* agent that is connected sends its heartbeat.
FairSpec ==
  /\ Spec
  /\ \A d \in Devices, n \in Sockets : WF_vars(Server(d, n)) /\ WF_vars(Heartbeat(d, n))
  /\ WF_vars(GraceFires) /\ WF_vars(SetExpires)

-----------------------------------------------------------------------------
\* Every variable keeps its shape; a registered socket belongs to a handler
\* that knows its device.
TypeOK ==
  /\ \A d \in Devices, n \in Sockets :
       /\ socket[d][n].at \in Known \cup {"none", "auth", "lookup", "gone"}
       /\ socket[d][n].closed => ~socket[d][n].open
  /\ players \in [Devices -> Sockets \cup {None}]
  /\ \A d \in Devices : players[d] # None => socket[d][players[d]].at \in Known
  /\ set \subseteq Devices
  /\ told \in [Devices -> BOOLEAN]
  /\ state \in [Devices -> {"stopped", "playing", "paused"}]
  /\ \A k \in DOMAIN timers : timers[k] \in Devices \X Sockets

\* A socket that is authenticated and open at both ends is the one commands
\* go to: the close of an older one, however late, does not take it out of the
\* registry.  Only the answer to the lookup of a dead socket can, since the
\* handler does not ask whether its socket is still open.
LiveIsRegistered ==
  \A d \in Devices \ usurped, n \in Sockets :
    Speaks(d, n) /\ socket[d][n].agent /\ socket[d][n].open => players[d] = n

Gone(d) == \A n \in Sockets : ~Speaks(d, n)

\* A device that stays offline is not shown as playing for ever, unless a
\* restart loses its grace timer.
OfflineIsParked ==
  \A d \in Devices :
    Gone(d) /\ state[d] = "playing" ~> ~Gone(d) \/ state[d] # "playing" \/ crashed

\* A device that stays connected is listed as online in the end, even when
\* the close of an older socket took it off the list.
LiveIsListed ==
  \A d \in Devices, n \in Sockets : Speaks(d, n) ~> d \in set \/ ~Speaks(d, n)
=============================================================================
