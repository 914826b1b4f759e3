----------------------------- MODULE MpvProcess -----------------------------
(***************************************************************************)
(* The life of the mpv process of a player agent and of the IPC connection *)
(* to it (apps/player/src/mpv.ts, class Mpv).  mpv is started once; when   *)
(* it exits it is started again after 2 s; a connection that fails or is   *)
(* lost is tried again after 1 s, until shutdown.  The two timers know     *)
(* nothing of each other.                                                  *)
(*                                                                         *)
(* A link, a socket of the agent, is "free", an "attempt", "open", or      *)
(* "closing" (its close event is due).  On the loopback a refusal and a    *)
(* close event are there before a timer of a second fires and before a     *)
(* process that starts listens, unless SlowSockets.                        *)
(***************************************************************************)
EXTENDS Naturals, FiniteSets

CONSTANTS
  Links,        \* the sockets that may exist at once
  NoLink,
  MaxCrashes,   \* bound: exits of mpv nobody asked for
  MaxDrops,     \* bound: connections mpv drops
  SlowSockets   \* refusals and close events may come late

VARIABLES
  proc,         \* "none", "booting" or "listening": what mpv is
  started, stopping, ipcConnecting,  \* the flags of the class
  restartTimer, \* is the restart timer armed?
  retryTimers,  \* reconnect timers that are armed
  sock,         \* the socket commands are written to
  links,        \* links[s]
  crashes, drops

vars == <<proc, started, stopping, ipcConnecting, restartTimer, retryTimers,
          sock, links, crashes, drops>>
counts == <<crashes, drops>>

Init ==
  /\ proc = "none" /\ started = FALSE /\ stopping = FALSE /\ ipcConnecting = FALSE
  /\ restartTimer = TRUE   \* the call of start() at boot
  /\ retryTimers = 0
  /\ sock = NoLink
  /\ links = [s \in Links |-> "free"]
  /\ crashes = 0 /\ drops = 0

Are(status) == {s \in Links : links[s] = status}

\* No refusal and no close event is due.
Settled ==
  \/ SlowSockets
  \/ Are("closing") = {} /\ (proc # "listening" => Are("attempt") = {})

\* connectWithRetry: one attempt at a time.
ConnectWithRetry ==
  \/ /\ stopping \/ ipcConnecting
     /\ UNCHANGED <<ipcConnecting, links>>
  \/ /\ ~stopping /\ ~ipcConnecting
     /\ ipcConnecting' = TRUE
     /\ LET s == CHOOSE x \in Are("free") : TRUE
        IN  Are("free") # {} /\ links' = [links EXCEPT ![s] = "attempt"]

\* Mutant: nothing asks whether a timer is armed already.
ScheduleAgain == retryTimers' = IF stopping \/ retryTimers > 1 THEN retryTimers ELSE retryTimers + 1

\* scheduleIpcReconnect: one timer at a time.
ScheduleIpcReconnect == retryTimers' = IF stopping \/ retryTimers > 0 THEN retryTimers ELSE 1

\* start, at boot and when the restart timer fires.
Start ==
  /\ restartTimer /\ Settled
  /\ restartTimer' = FALSE
  /\ IF started \/ stopping
     THEN UNCHANGED <<started, proc, ipcConnecting, links>>
     ELSE started' = TRUE /\ proc' = "booting" /\ ConnectWithRetry
  /\ UNCHANGED <<stopping, retryTimers, sock, counts>>

\* mpv creates its IPC socket.
Listens ==
  /\ proc = "booting" /\ Settled
  /\ proc' = "listening"
  /\ UNCHANGED <<started, stopping, ipcConnecting, restartTimer, retryTimers, sock, links, counts>>

\* What becomes of the sockets when mpv is gone.
Broken == [s \in Links |-> IF links[s] = "open" THEN "closing" ELSE links[s]]

\* Mutant: the exit does not clear the flag that guards start().
ExitStaysStarted ==
  /\ proc # "none"
  /\ IF stopping THEN UNCHANGED crashes ELSE crashes < MaxCrashes /\ crashes' = crashes + 1
  /\ proc' = "none"
  /\ links' = Broken /\ sock' = NoLink
  /\ restartTimer' = (restartTimer \/ ~stopping)
  /\ UNCHANGED <<started, stopping, ipcConnecting, retryTimers, drops>>

\* mpv exits: the socket is destroyed, and unless the agent stops mpv is
\* started again.
Exit ==
  /\ proc # "none"
  /\ IF stopping THEN UNCHANGED crashes ELSE crashes < MaxCrashes /\ crashes' = crashes + 1
  /\ proc' = "none"
  /\ links' = Broken /\ sock' = NoLink
  /\ started' = FALSE
  /\ restartTimer' = (restartTimer \/ ~stopping)
  /\ UNCHANGED <<stopping, ipcConnecting, retryTimers, drops>>

\* The connect event: nothing is done about a socket the agent already has.
Connected(s) ==
  /\ links[s] = "attempt" /\ proc = "listening"
  /\ ipcConnecting' = FALSE
  /\ sock' = s
  /\ links' = [links EXCEPT ![s] = "open"]
  /\ UNCHANGED <<proc, started, stopping, restartTimer, retryTimers, counts>>

\* The error event of an attempt.
Refused(s) ==
  /\ links[s] = "attempt" /\ (proc # "listening" \/ SlowSockets)
  /\ ipcConnecting' = FALSE
  /\ links' = [links EXCEPT ![s] = "free"]
  /\ ScheduleIpcReconnect
  /\ UNCHANGED <<proc, started, stopping, restartTimer, sock, counts>>

\* mpv drops a connection.
Drop(s) ==
  /\ links[s] = "open" /\ drops < MaxDrops
  /\ drops' = drops + 1
  /\ links' = [links EXCEPT ![s] = "closing"]
  /\ UNCHANGED <<proc, started, stopping, ipcConnecting, restartTimer, retryTimers, sock, crashes>>

\* The close event of an open socket; an error event just before does no more.
Closed(s) ==
  /\ links[s] = "closing"
  /\ links' = [links EXCEPT ![s] = "free"]
  /\ sock' = NoLink
  /\ ipcConnecting' = FALSE
  /\ ScheduleIpcReconnect
  /\ UNCHANGED <<proc, started, stopping, restartTimer, counts>>

\* The reconnect timer fires.
Retry ==
  /\ retryTimers > 0 /\ Settled
  /\ retryTimers' = retryTimers - 1
  /\ ConnectWithRetry
  /\ UNCHANGED <<proc, started, stopping, restartTimer, sock, counts>>

\* shutdown: no respawn, no reconnect, and mpv is told to end.
Shutdown ==
  /\ ~stopping
  /\ stopping' = TRUE
  /\ restartTimer' = FALSE /\ retryTimers' = 0
  /\ sock' = NoLink
  /\ links' = IF sock = NoLink THEN links ELSE [links EXCEPT ![sock] = "closing"]
  /\ UNCHANGED <<proc, started, ipcConnecting, counts>>

Agent ==
  \/ Start \/ Retry
  \/ \E s \in Links : Connected(s) \/ Refused(s) \/ Closed(s)

Next == Agent \/ Listens \/ Exit \/ Shutdown \/ \E s \in Links : Drop(s)

Spec == Init /\ [][Next]_vars

-----------------------------------------------------------------------------
TypeOK ==
  /\ proc \in {"none", "booting", "listening"}
  /\ {started, stopping, ipcConnecting, restartTimer} \subseteq BOOLEAN
  /\ retryTimers \in 0..2
  /\ sock \in Links \cup {NoLink}
  /\ links \in [Links -> {"free", "attempt", "open", "closing"}]
  /\ crashes \in 0..MaxCrashes /\ drops \in 0..MaxDrops

\* The agent listens on one connection only ("exactly one mpv process, one IPC
\* connection and one restart timer", mpv.ts:55): on a second one every
\* end-file would be heard, and told to the server, twice.
OneConnection == Cardinality(Are("open")) <= 1

\* Whatever exits and drops came before, once they stop the agent is connected
\* to a running mpv for good, or shut down.
Reconnects == <>[](stopping \/ (sock # NoLink /\ links[sock] = "open" /\ proc = "listening"))
=============================================================================
