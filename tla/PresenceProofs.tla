--------------------------- MODULE PresenceProofs ---------------------------
(***************************************************************************)
(* Theorems about Presence, for any devices, any number of sockets, slow   *)
(* lookups or fast ones, with or without a restart of the server.          *)
(***************************************************************************)
EXTENDS Presence, TLAPS

-----------------------------------------------------------------------------
(***************************************************************************)
(* Types.                                                                  *)
(***************************************************************************)
Stages == {"none", "auth", "lookup", "greet", "authed", "gone"}

Handler == [at : Stages, agent : BOOLEAN, open : BOOLEAN, closed : BOOLEAN]

\* The shape of every variable, as the proofs of the invariants need it.
Shape ==
  /\ socket \in [Devices -> [Sockets -> Handler]]
  /\ \A d \in Devices, n \in Sockets : socket[d][n].closed => ~socket[d][n].open
  /\ players \in [Devices -> Sockets \cup {None}]
  /\ \A d \in Devices : players[d] # None => socket[d][players[d]].at \in Known
  /\ set \subseteq Devices
  /\ told \in [Devices -> BOOLEAN]
  /\ state \in [Devices -> {"stopped", "playing", "paused"}]
  /\ timers \in Seq(Devices \X Sockets)

\* No socket has been opened at the start.
LEMMA ShapeInit == Init => Shape
BY DEF Init, Shape, Unopened, Handler, Stages, None

\* A step of one socket changes its own record and no other.
Becomes(d, n, at, agent, open, closed) ==
  /\ socket' \in [Devices -> [Sockets -> Handler]]
  /\ socket'[d][n].at = at
  /\ socket'[d][n].agent <=> agent
  /\ socket'[d][n].open <=> open
  /\ socket'[d][n].closed <=> closed
  /\ \A e \in Devices, m \in Sockets : e # d \/ m # n => socket'[e][m] = socket[e][m]

\* An update of one entry of the table.
LEMMA OneSocketMoves ==
  ASSUME Shape, NEW d \in Devices, NEW n \in Sockets, NEW h \in Handler,
         socket' = [socket EXCEPT ![d][n] = h]
  PROVE  Becomes(d, n, h.at, h.agent, h.open, h.closed)
BY DEF Shape, Becomes

\* What each step of the agent or of the handler makes of the socket.
LEMMA SocketSteps ==
  ASSUME Shape, NEW d \in Devices, NEW n \in Sockets
  PROVE
    /\ Connect(d, n) => Becomes(d, n, "auth", TRUE, TRUE, FALSE)
    /\ AgentDrops(d, n) => Becomes(d, n, socket[d][n].at, FALSE, socket[d][n].open, socket[d][n].closed)
    /\ AuthFrame(d, n) => Becomes(d, n, "lookup", socket[d][n].agent, socket[d][n].open, socket[d][n].closed)
    /\ EarlyFrame(d, n) =>
         Becomes(d, n, socket[d][n].at, socket[d][n].agent, FALSE, socket[d][n].closed)
    /\ LookupDone(d, n) => Becomes(d, n, "greet", socket[d][n].agent, socket[d][n].open, socket[d][n].closed)
    /\ Greet(d, n) => Becomes(d, n, "authed", socket[d][n].agent, socket[d][n].open, socket[d][n].closed)
    /\ CloseEvent(d, n) => Becomes(d, n, socket[d][n].at, socket[d][n].agent, FALSE, TRUE)
<1> DEFINE s == socket[d][n]
<1>1. s \in Handler
  BY DEF Shape
<1> HIDE DEF s
<1>2. Connect(d, n) => Becomes(d, n, "auth", TRUE, TRUE, FALSE)
  <2> DEFINE h == [at |-> "auth", agent |-> TRUE, open |-> TRUE, closed |-> FALSE]
  <2>1. /\ h \in Handler
        /\ h.at = "auth" /\ (h.agent <=> TRUE) /\ (h.open <=> TRUE) /\ (h.closed <=> FALSE)
    BY <1>1 DEF Handler, Stages
  <2>2. Connect(d, n) => socket' = [socket EXCEPT ![d][n] = h]
    BY DEF Connect, Shape
  <2> HIDE DEF h
  <2>3. Connect(d, n) => Becomes(d, n, h.at, h.agent, h.open, h.closed)
    BY <2>1, <2>2, OneSocketMoves
  <2>4. QED
    BY <2>1, <2>3 DEF Becomes
<1>3. AgentDrops(d, n) => Becomes(d, n, s.at, FALSE, s.open, s.closed)
  <2> DEFINE h == [s EXCEPT !.agent = FALSE]
  <2>1. /\ h \in Handler
        /\ h.at = s.at /\ (h.agent <=> FALSE) /\ (h.open <=> s.open) /\ (h.closed <=> s.closed)
    BY <1>1 DEF Handler, Stages
  <2>2. AgentDrops(d, n) => socket' = [socket EXCEPT ![d][n] = h]
    BY DEF AgentDrops, s
  <2> HIDE DEF h
  <2>3. AgentDrops(d, n) => Becomes(d, n, h.at, h.agent, h.open, h.closed)
    BY <2>1, <2>2, OneSocketMoves
  <2>4. QED
    BY <2>1, <2>3 DEF Becomes
<1>4. AuthFrame(d, n) => Becomes(d, n, "lookup", s.agent, s.open, s.closed)
  <2> DEFINE h == [s EXCEPT !.at = "lookup"]
  <2>1. /\ h \in Handler
        /\ h.at = "lookup" /\ (h.agent <=> s.agent) /\ (h.open <=> s.open) /\ (h.closed <=> s.closed)
    BY <1>1 DEF Handler, Stages
  <2>2. AuthFrame(d, n) => socket' = [socket EXCEPT ![d][n] = h]
    BY DEF AuthFrame, s
  <2> HIDE DEF h
  <2>3. AuthFrame(d, n) => Becomes(d, n, h.at, h.agent, h.open, h.closed)
    BY <2>1, <2>2, OneSocketMoves
  <2>4. QED
    BY <2>1, <2>3 DEF Becomes
<1>5. EarlyFrame(d, n) => Becomes(d, n, s.at, s.agent, FALSE, s.closed)
  <2> DEFINE h == [s EXCEPT !.open = FALSE]
  <2>1. /\ h \in Handler
        /\ h.at = s.at /\ (h.agent <=> s.agent) /\ (h.open <=> FALSE) /\ (h.closed <=> s.closed)
    BY <1>1 DEF Handler, Stages
  <2>2. EarlyFrame(d, n) => socket' = [socket EXCEPT ![d][n] = h]
    BY DEF EarlyFrame, s
  <2> HIDE DEF h
  <2>3. EarlyFrame(d, n) => Becomes(d, n, h.at, h.agent, h.open, h.closed)
    BY <2>1, <2>2, OneSocketMoves
  <2>4. QED
    BY <2>1, <2>3 DEF Becomes
<1>6. LookupDone(d, n) => Becomes(d, n, "greet", s.agent, s.open, s.closed)
  <2> DEFINE h == [s EXCEPT !.at = "greet"]
  <2>1. /\ h \in Handler
        /\ h.at = "greet" /\ (h.agent <=> s.agent) /\ (h.open <=> s.open) /\ (h.closed <=> s.closed)
    BY <1>1 DEF Handler, Stages
  <2>2. LookupDone(d, n) => socket' = [socket EXCEPT ![d][n] = h]
    BY DEF LookupDone, s
  <2> HIDE DEF h
  <2>3. LookupDone(d, n) => Becomes(d, n, h.at, h.agent, h.open, h.closed)
    BY <2>1, <2>2, OneSocketMoves
  <2>4. QED
    BY <2>1, <2>3 DEF Becomes
<1>7. Greet(d, n) => Becomes(d, n, "authed", s.agent, s.open, s.closed)
  <2> DEFINE h == [s EXCEPT !.at = "authed"]
  <2>1. /\ h \in Handler
        /\ h.at = "authed" /\ (h.agent <=> s.agent) /\ (h.open <=> s.open) /\ (h.closed <=> s.closed)
    BY <1>1 DEF Handler, Stages
  <2>2. Greet(d, n) => socket' = [socket EXCEPT ![d][n] = h]
    BY DEF Greet, s
  <2> HIDE DEF h
  <2>3. Greet(d, n) => Becomes(d, n, h.at, h.agent, h.open, h.closed)
    BY <2>1, <2>2, OneSocketMoves
  <2>4. QED
    BY <2>1, <2>3 DEF Becomes
<1>8. CloseEvent(d, n) => Becomes(d, n, s.at, s.agent, FALSE, TRUE)
  <2> DEFINE h == [s EXCEPT !.open = FALSE, !.closed = TRUE]
  <2>1. /\ h \in Handler
        /\ h.at = s.at /\ (h.agent <=> s.agent) /\ (h.open <=> FALSE) /\ (h.closed <=> TRUE)
    BY <1>1 DEF Handler, Stages
  <2>2. CloseEvent(d, n) => socket' = [socket EXCEPT ![d][n] = h]
    BY DEF CloseEvent, s
  <2> HIDE DEF h
  <2>3. CloseEvent(d, n) => Becomes(d, n, h.at, h.agent, h.open, h.closed)
    BY <2>1, <2>2, OneSocketMoves
  <2>4. QED
    BY <2>1, <2>3 DEF Becomes
<1>9. QED
  BY <1>2, <1>3, <1>4, <1>5, <1>6, <1>7, <1>8 DEF s

\* A registered socket stays one whose device is known, until a restart takes
\* both away.
LEMMA ShapeNext == Shape /\ [Next]_vars => Shape'
<1> SUFFICES ASSUME Shape, [Next]_vars PROVE Shape'
  OBVIOUS
<1> USE DEF None
<1>1. ASSUME NEW d \in Devices, NEW n \in Sockets, Connect(d, n)
      PROVE  Shape'
  <2>1. Becomes(d, n, "auth", TRUE, TRUE, FALSE)
    BY <1>1, SocketSteps
  <2>2. QED
    BY <1>1, <2>1 DEF Becomes, Shape, Known, Connect, Unopened
<1>2. ASSUME NEW d \in Devices, NEW n \in Sockets, AgentDrops(d, n)
      PROVE  Shape'
  <2>1. Becomes(d, n, socket[d][n].at, FALSE, socket[d][n].open, socket[d][n].closed)
    BY <1>2, SocketSteps
  <2>2. QED
    BY <1>2, <2>1 DEF Becomes, Shape, Known, AgentDrops
<1>3. ASSUME NEW d \in Devices, NEW n \in Sockets, AuthFrame(d, n)
      PROVE  Shape'
  <2>1. Becomes(d, n, "lookup", socket[d][n].agent, socket[d][n].open, socket[d][n].closed)
    BY <1>3, SocketSteps
  <2>2. QED
    BY <1>3, <2>1 DEF Becomes, Shape, Known, AuthFrame
<1>4. ASSUME NEW d \in Devices, NEW n \in Sockets, EarlyFrame(d, n)
      PROVE  Shape'
  <2>1. Becomes(d, n, socket[d][n].at, socket[d][n].agent, FALSE, socket[d][n].closed)
    BY <1>4, SocketSteps
  <2>2. QED
    BY <1>4, <2>1 DEF Becomes, Shape, Known, EarlyFrame
<1>5. ASSUME NEW d \in Devices, NEW n \in Sockets, LookupDone(d, n)
      PROVE  Shape'
  <2>1. Becomes(d, n, "greet", socket[d][n].agent, socket[d][n].open, socket[d][n].closed)
    BY <1>5, SocketSteps
  <2>2. QED
    BY <1>5, <2>1 DEF Becomes, Shape, Known, LookupDone
<1>6. ASSUME NEW d \in Devices, NEW n \in Sockets, Greet(d, n)
      PROVE  Shape'
  <2>1. Becomes(d, n, "authed", socket[d][n].agent, socket[d][n].open, socket[d][n].closed)
    BY <1>6, SocketSteps
  <2>2. QED
    BY <1>6, <2>1 DEF Becomes, Shape, Known, Greet
<1>7. ASSUME NEW d \in Devices, NEW n \in Sockets, CloseEvent(d, n)
      PROVE  Shape'
  <2>1. Becomes(d, n, socket[d][n].at, socket[d][n].agent, FALSE, TRUE)
    BY <1>7, SocketSteps
  <2>2. /\ players' \in [Devices -> Sockets \cup {None}]
        /\ \A e \in Devices : players'[e] # None => players'[e] = players[e]
    BY <1>7 DEF CloseEvent, Unregister, Shape
  <2>3. \A e \in Devices : players'[e] # None => socket'[e][players'[e]].at \in Known
    <3> TAKE e \in Devices
    <3> HAVE players'[e] # None
    <3>1. /\ players[e] # None /\ players[e] \in Sockets /\ players'[e] = players[e]
          /\ socket[e][players[e]].at \in Known
      BY <2>2 DEF Shape
    <3>2. socket'[e][players[e]].at = socket[e][players[e]].at
      BY <2>1, <3>1 DEF Becomes
    <3>3. QED
      BY <3>1, <3>2
  <2>4. \A e \in Devices, m \in Sockets : socket'[e][m].closed => ~socket'[e][m].open
    BY <2>1 DEF Becomes, Shape
  <2>5. /\ told' \in [Devices -> BOOLEAN]
        /\ timers' \in Seq(Devices \X Sockets)
        /\ set' \subseteq Devices
        /\ state' = state
    <3>1. told' \in [Devices -> BOOLEAN]
      BY <1>7, Zenon DEF CloseEvent, Shape
    <3>2. timers' = timers \/ timers' = Append(timers, <<d, n>>)
      BY <1>7 DEF CloseEvent
    <3>3. timers' \in Seq(Devices \X Sockets)
      <4>1. ASSUME NEW P, NEW q \in Seq(P), NEW p \in P
            PROVE  Append(q, p) \in Seq(P)
        OBVIOUS
      <4>2. <<d, n>> \in Devices \X Sockets /\ timers \in Seq(Devices \X Sockets)
        BY DEF Shape
      <4>3. QED
        BY <3>2, <4>1, <4>2
    <3>4. set' \subseteq Devices /\ state' = state
      BY <1>7 DEF CloseEvent, Shape
    <3>5. QED
      BY <3>1, <3>3, <3>4
  <2>6. QED
    BY <2>1, <2>2, <2>3, <2>4, <2>5 DEF Becomes, Shape
<1>8. ASSUME NEW d \in Devices, NEW n \in Sockets, Heartbeat(d, n) \/ Report(d, n)
      PROVE  Shape'
  BY <1>8 DEF Shape, Heartbeat, Report
<1>9. CASE GraceFires \/ SetExpires
  <2>1. CASE GraceFires
    <3>1. timers' \in Seq(Devices \X Sockets) /\ Head(timers)[1] \in Devices
      BY <2>1 DEF GraceFires, Shape
    <3>2. state' \in [Devices -> {"stopped", "playing", "paused"}]
      BY <2>1, <3>1 DEF GraceFires, Shape
    <3>3. QED
      BY <2>1, <3>1, <3>2 DEF GraceFires, Shape
  <2>2. CASE SetExpires
    BY <2>2 DEF Shape, SetExpires
  <2>3. QED
    BY <1>9, <2>1, <2>2
<1>10. CASE Restart
  BY <1>10 DEF Shape, Restart, Unopened, Handler, Stages
<1>11. CASE UNCHANGED vars
  BY <1>11 DEF Shape, vars
<1>12. QED
  BY <1>1, <1>2, <1>3, <1>4, <1>5, <1>6, <1>7, <1>8, <1>9, <1>10, <1>11 DEF Next, Server

\* The registry holds only sockets of handlers that know their device.
THEOREM PresenceTyped == Spec => []TypeOK
<1>1. Shape => TypeOK
  BY DEF Shape, TypeOK, Handler, Stages, Known
<1>2. QED
  BY <1>1, ShapeInit, ShapeNext, PTL DEF Spec

-----------------------------------------------------------------------------
(***************************************************************************)
(* The live socket is the registered one.  By itself that is not           *)
(* inductive: the answer to the lookup of an older socket, which the agent *)
(* still holds open, would take the entry.  The agent holds no older one:  *)
(* it opens a socket only when it has given up those before.               *)
(***************************************************************************)
OneAtATime ==
  \A d \in Devices, n \in Sockets, m \in Sockets :
    socket[d][n].agent /\ n < m => socket[d][m] = Unopened

LiveInv == Shape /\ OneAtATime /\ LiveIsRegistered

\* There is no socket at the start.
LEMMA LiveInvInit == Init => LiveInv
BY ShapeInit DEF LiveInv, OneAtATime, LiveIsRegistered, Init, Unopened, Speaks, Known

\* The agent opens sockets in order, one at a time.
LEMMA OneAtATimeNext == Shape /\ OneAtATime /\ [Next]_vars => OneAtATime'
<1> SUFFICES ASSUME Shape, OneAtATime, [Next]_vars PROVE OneAtATime'
  OBVIOUS
<1> USE SocketsAreNumbered DEF Sockets
<1>1. ASSUME NEW d \in Devices, NEW n \in Sockets, Connect(d, n)
      PROVE  OneAtATime'
  <2>1. Becomes(d, n, "auth", TRUE, TRUE, FALSE)
    BY <1>1, SocketSteps
  <2>2. /\ \A m \in Sockets : m < n => ~socket[d][m].agent
        /\ \A m \in Sockets : ~(m < n) => socket[d][m] = Unopened
        /\ ~Unopened.agent
    BY <1>1 DEF Connect, Unopened
  <2>3. ASSUME NEW e \in Devices, NEW k \in Sockets, NEW m \in Sockets,
               socket'[e][k].agent, k < m
        PROVE  socket'[e][m] = Unopened
    <3>1. CASE e = d
      <4>1. ~(k < n)
        BY <2>1, <2>2, <2>3, <3>1 DEF Becomes
      <4>2. ~(m < n) /\ m # n
        BY <2>3, <4>1
      <4>3. QED
        BY <2>1, <2>2, <3>1, <4>2 DEF Becomes
    <3>2. CASE e # d
      BY <2>1, <2>3, <3>2 DEF Becomes, OneAtATime
    <3>3. QED
      BY <3>1, <3>2
  <2>4. QED
    BY <2>3 DEF OneAtATime, Unopened
<1>2. ASSUME NEW d \in Devices, NEW n \in Sockets, AgentDrops(d, n)
      PROVE  OneAtATime'
  <2>1. Becomes(d, n, socket[d][n].at, FALSE, socket[d][n].open, socket[d][n].closed)
    BY <1>2, SocketSteps
  <2>2. QED
    BY <1>2, <2>1 DEF Becomes, OneAtATime, Unopened, AgentDrops
<1>3. ASSUME NEW d \in Devices, NEW n \in Sockets, AuthFrame(d, n)
      PROVE  OneAtATime'
  <2>1. Becomes(d, n, "lookup", socket[d][n].agent, socket[d][n].open, socket[d][n].closed)
    BY <1>3, SocketSteps
  <2>2. QED
    BY <1>3, <2>1 DEF Becomes, OneAtATime, Unopened, AuthFrame
<1>4. ASSUME NEW d \in Devices, NEW n \in Sockets, EarlyFrame(d, n)
      PROVE  OneAtATime'
  <2>1. Becomes(d, n, socket[d][n].at, socket[d][n].agent, FALSE, socket[d][n].closed)
    BY <1>4, SocketSteps
  <2>2. QED
    BY <1>4, <2>1 DEF Becomes, OneAtATime, Unopened, EarlyFrame
<1>5. ASSUME NEW d \in Devices, NEW n \in Sockets, LookupDone(d, n)
      PROVE  OneAtATime'
  <2>1. Becomes(d, n, "greet", socket[d][n].agent, socket[d][n].open, socket[d][n].closed)
    BY <1>5, SocketSteps
  <2>2. QED
    BY <1>5, <2>1 DEF Becomes, OneAtATime, Unopened, LookupDone
<1>6. ASSUME NEW d \in Devices, NEW n \in Sockets, Greet(d, n)
      PROVE  OneAtATime'
  <2>1. Becomes(d, n, "authed", socket[d][n].agent, socket[d][n].open, socket[d][n].closed)
    BY <1>6, SocketSteps
  <2>2. QED
    BY <1>6, <2>1 DEF Becomes, OneAtATime, Unopened, Greet
<1>7. ASSUME NEW d \in Devices, NEW n \in Sockets, CloseEvent(d, n)
      PROVE  OneAtATime'
  <2>1. Becomes(d, n, socket[d][n].at, socket[d][n].agent, FALSE, TRUE)
    BY <1>7, SocketSteps
  <2>2. QED
    BY <1>7, <2>1 DEF Becomes, OneAtATime, Unopened, CloseEvent
<1>8. ASSUME NEW d \in Devices, NEW n \in Sockets, Heartbeat(d, n) \/ Report(d, n)
      PROVE  OneAtATime'
  BY <1>8 DEF OneAtATime, Heartbeat, Report
<1>9. CASE GraceFires \/ SetExpires \/ UNCHANGED vars
  BY <1>9 DEF OneAtATime, GraceFires, SetExpires, vars
<1>10. CASE Restart
  BY <1>10 DEF OneAtATime, Restart, Unopened
<1>11. QED
  BY <1>1, <1>2, <1>3, <1>4, <1>5, <1>6, <1>7, <1>8, <1>9, <1>10 DEF Next, Server

\* A lookup that registers another socket than the live one is noted as a
\* usurpation, and a close removes only the entry of the socket that closes.
LEMMA LiveInvNext == LiveInv /\ [Next]_vars => LiveInv'
<1> SUFFICES ASSUME Shape, OneAtATime, LiveIsRegistered, [Next]_vars
             PROVE  LiveIsRegistered'
  BY ShapeNext, OneAtATimeNext DEF LiveInv
<1>1. ASSUME NEW d \in Devices, NEW n \in Sockets, Connect(d, n)
      PROVE  LiveIsRegistered'
  <2>1. Becomes(d, n, "auth", TRUE, TRUE, FALSE)
    BY <1>1, SocketSteps
  <2>2. QED
    BY <1>1, <2>1 DEF Becomes, LiveIsRegistered, Speaks, Known, Connect
<1>2. ASSUME NEW d \in Devices, NEW n \in Sockets, AgentDrops(d, n)
      PROVE  LiveIsRegistered'
  <2>1. Becomes(d, n, socket[d][n].at, FALSE, socket[d][n].open, socket[d][n].closed)
    BY <1>2, SocketSteps
  <2>2. QED
    BY <1>2, <2>1 DEF Becomes, LiveIsRegistered, Speaks, Known, AgentDrops
<1>3. ASSUME NEW d \in Devices, NEW n \in Sockets, AuthFrame(d, n)
      PROVE  LiveIsRegistered'
  <2>1. Becomes(d, n, "lookup", socket[d][n].agent, socket[d][n].open, socket[d][n].closed)
    BY <1>3, SocketSteps
  <2>2. QED
    BY <1>3, <2>1 DEF Becomes, LiveIsRegistered, Speaks, Known, AuthFrame
<1>4. ASSUME NEW d \in Devices, NEW n \in Sockets, EarlyFrame(d, n)
      PROVE  LiveIsRegistered'
  <2>1. Becomes(d, n, socket[d][n].at, socket[d][n].agent, FALSE, socket[d][n].closed)
    BY <1>4, SocketSteps
  <2>2. QED
    BY <1>4, <2>1 DEF Becomes, LiveIsRegistered, Speaks, Known, EarlyFrame
<1>5. ASSUME NEW d \in Devices, NEW n \in Sockets, Greet(d, n)
      PROVE  LiveIsRegistered'
  <2>1. Becomes(d, n, "authed", socket[d][n].agent, socket[d][n].open, socket[d][n].closed)
    BY <1>5, SocketSteps
  <2>2. QED
    BY <1>5, <2>1 DEF Becomes, LiveIsRegistered, Speaks, Known, Greet
<1>6. ASSUME NEW d \in Devices, NEW n \in Sockets, LookupDone(d, n)
      PROVE  LiveIsRegistered'
  <2>1. Becomes(d, n, "greet", socket[d][n].agent, socket[d][n].open, socket[d][n].closed)
    BY <1>6, SocketSteps
  <2>2. /\ players' = [players EXCEPT ![d] = n]
        /\ usurped' = IF socket[d][n].agent /\ socket[d][n].open
                      THEN usurped \ {d} ELSE usurped \cup {d}
    BY <1>6 DEF LookupDone
  <2>3. ASSUME NEW m \in Sockets, socket[d][n].agent, socket[d][m].agent
        PROVE  m = n
    <3>1. ~Unopened.agent
      BY DEF Unopened
    <3>2. ~(n < m) /\ ~(m < n)
      BY <2>3, <3>1 DEF OneAtATime
    <3>3. QED
      BY <3>2, SocketsAreNumbered DEF Sockets
  <2>4. ASSUME NEW e \in Devices \ usurped', NEW m \in Sockets,
               Speaks(e, m)', socket'[e][m].agent, socket'[e][m].open
        PROVE  players'[e] = m
    <3>1. CASE e = d
      <4>1. socket[d][n].agent
        BY <2>2, <3>1
      <4>2. socket[d][m].agent
        BY <2>1, <2>4, <3>1 DEF Becomes
      <4>3. QED
        BY <2>2, <2>3, <3>1, <4>1, <4>2 DEF Shape
    <3>2. CASE e # d
      BY <2>1, <2>2, <2>4, <3>2 DEF Becomes, LiveIsRegistered, Speaks, Shape
    <3>3. QED
      BY <3>1, <3>2
  <2>5. QED
    BY <2>4 DEF LiveIsRegistered
<1>7. ASSUME NEW d \in Devices, NEW n \in Sockets, CloseEvent(d, n)
      PROVE  LiveIsRegistered'
  <2>1. Becomes(d, n, socket[d][n].at, socket[d][n].agent, FALSE, TRUE)
    BY <1>7, SocketSteps
  <2>2. QED
    BY <1>7, <2>1 DEF Becomes, LiveIsRegistered, Speaks, Known, Unregister, None, Shape, CloseEvent
<1>8. ASSUME NEW d \in Devices, NEW n \in Sockets, Heartbeat(d, n) \/ Report(d, n)
      PROVE  LiveIsRegistered'
  BY <1>8 DEF LiveIsRegistered, Speaks, Heartbeat, Report
<1>9. CASE GraceFires \/ SetExpires \/ UNCHANGED vars
  BY <1>9 DEF LiveIsRegistered, Speaks, GraceFires, SetExpires, vars
<1>10. CASE Restart
  BY <1>10 DEF LiveIsRegistered, Speaks, Known, Restart, Unopened
<1>11. QED
  BY <1>1, <1>2, <1>3, <1>4, <1>5, <1>6, <1>7, <1>8, <1>9, <1>10 DEF Next, Server

\* Commands reach the socket that is authenticated and open at both ends,
\* however late the sockets before it close, unless the lookup of a dead
\* socket was answered last.
THEOREM CommandsReachTheLiveSocket == Spec => []LiveIsRegistered
<1>1. LiveInv => LiveIsRegistered
  BY DEF LiveInv
<1>2. QED
  BY <1>1, LiveInvInit, LiveInvNext, PTL DEF Spec
=============================================================================
