--------------------------- MODULE PlayerProcess ---------------------------
(***************************************************************************)
(* The process of a player agent: the slots of its stream resolver         *)
(* (ResolveSlots), its command handlers and mpv's playlist (PlayerAgent),  *)
(* the supervisor of mpv (MpvProcess) and the volume ramps (VolumeRamp).   *)
(* These parts share no state, so a behaviour follows one of them, chosen  *)
(* at the start: what holds of each part in every such behaviour holds of  *)
(* the process, whose behaviours interleave theirs.                        *)
(***************************************************************************)
EXTENDS ResolveSlots

CONSTANTS
  Tracks, MaxCommands, MaxEntries, MaxEnds, PrefetchEnabled, NoTrack,  \* of PlayerAgent
  Links, NoLink, MaxCrashes, MaxDrops, SlowSockets,                    \* of MpvProcess
  Calls, Levels, BootVolume, CallsApart, NoCall, NoLevel               \* of VolumeRamp

ASSUME CommandBound == MaxCommands \in Nat /\ MaxEnds \in Nat
ASSUME NothingIsNoTrack == NoTrack \notin Tracks
ASSUME MpvBounds == MaxCrashes \in Nat /\ MaxDrops \in Nat
ASSUME VolumesAreNumbers ==
  Levels \subseteq Nat /\ BootVolume \in Nat /\ NoCall \notin Calls

VARIABLES
  part,   \* the part this behaviour follows
  jobs, arrived, ps, mpv, ends, watch, dropped, wish, told, met,
  proc, started, stopping, ipcConnecting, restartTimer, retryTimers, sock, links,
  crashes, drops,
  volume, ramps, asking, rampTimer, wanted

Agent == INSTANCE PlayerAgent
Process == INSTANCE MpvProcess
Ramp == INSTANCE VolumeRamp

agentVars == <<jobs, arrived, ps, mpv, ends, watch, dropped, wish, told, met>>
mpvVars == <<proc, started, stopping, ipcConnecting, restartTimer, retryTimers, sock,
             links, crashes, drops>>
rampVars == <<volume, ramps, asking, rampTimer, wanted>>
allVars == <<part, vars, agentVars, mpvVars, rampVars>>

ProcessInit ==
  /\ part \in {"resolver", "commands", "mpv", "volume"}
  /\ Init /\ Agent!Init /\ Process!Init /\ Ramp!Init

\* A step A of a part, while the others stand still.
OfResolver(A) ==
  part = "resolver" /\ A /\ UNCHANGED <<part, agentVars, mpvVars, rampVars>>
OfCommands(A) ==
  part = "commands" /\ A /\ UNCHANGED <<part, vars, mpvVars, rampVars>>
OfMpv(A) ==
  part = "mpv" /\ A /\ UNCHANGED <<part, vars, agentVars, rampVars>>
OfVolume(A) ==
  part = "volume" /\ A /\ UNCHANGED <<part, vars, agentVars, mpvVars>>

ProcessNext ==
  \/ OfResolver(Next)
  \/ OfCommands(Agent!Next)
  \/ OfMpv(Process!Next)
  \/ OfVolume(Ramp!Next)

\* The event loop runs the callbacks and timers that are due, yt-dlp ends or is
\* killed after 20 s, sockets answer, and mpv comes up.  A refusal holds Start
\* and Listens up for a moment only, again and again (Settled): the restart timer
\* fires all the same, hence SF.
ProcessFairness ==
  /\ \A r \in Resolves : WF_allVars(OfResolver(Start(r))) /\ WF_allVars(OfResolver(Finish(r)))
  /\ SF_allVars(OfMpv(Process!Start)) /\ WF_allVars(OfMpv(Process!Retry))
  /\ SF_allVars(OfMpv(Process!Listens))
  /\ \A s \in Links : /\ WF_allVars(OfMpv(Process!Connected(s)))
                      /\ WF_allVars(OfMpv(Process!Refused(s)))
                      /\ WF_allVars(OfMpv(Process!Closed(s)))

ProcessSpec == ProcessInit /\ [][ProcessNext]_allVars /\ ProcessFairness

-----------------------------------------------------------------------------
\* Every variable of the four parts keeps its shape.
ProcessTypeOK == TypeOK /\ Agent!TypeOK /\ Process!TypeOK /\ Ramp!TypeOK

\* The properties of the parts are stated, and explained, in their modules.

\* ResolveSlots: every call that waits for a slot gets it and runs.
EveryWaiterRuns == part = "resolver" => WaiterRuns
\* PlayerAgent: mpv plays what the last load or stop asked for.
LastCommandWins == Agent!LastCommandWins
\* PlayerAgent: the track the agent reports is the track mpv plays.
IdIsHeard == Agent!IdIsHeard
\* PlayerAgent: an entry dropped from mpv's playlist does not come back.
DroppedStaysOut == Agent!DroppedStaysOut
\* PlayerAgent: what the agent adopts at a natural end is what mpv plays.
AdoptedIsPlayed == Agent!AdoptedIsPlayed
\* PlayerAgent: the watchdog stays armed until its load is heard or reported.
LoadIsAnswered == Agent!LoadIsAnswered
\* MpvProcess: the agent never listens to mpv on two connections.
OneConnection == Process!OneConnection
\* MpvProcess: once exits and drops stop the agent is connected again.
Reconnects == part = "mpv" => Process!Reconnects
\* VolumeRamp: when the ramps are over, the last target is what is heard.
LastTargetWins == Ramp!LastTargetWins
=============================================================================
