----------------------------- MODULE Periphery -----------------------------
(***************************************************************************)
(* What surrounds playback: the sessions of the web client (Sessions), what*)
(* its tabs show (WebStore), the look-ups in the catalogue (Catalogue) and *)
(* the auto-queue (AutoQueue).  The models of these parts share no state,  *)
(* so a behaviour follows one of them, chosen at the start, as in          *)
(* PlayerProcess.                                                          *)
(***************************************************************************)
EXTENDS Catalogue, FiniteSets

CONSTANTS
  Tabs, Devices, NoDevice,
  NoTab, MaxTokens, MaxSessionEvents, MaxRequests,
  RetriesInTime,                                      \* of Sessions
  FirstDevice, MaxStoreEvents,                        \* of WebStore
  Refills, RefillThreshold, Batch, MaxEdits           \* of AutoQueue

\* A refill adds nothing if the batch is 0; there is none if the threshold is.
ASSUME RefillConstants == RefillThreshold \in Nat \ {0} /\ Batch \in Nat /\ MaxEdits \in Nat
ASSUME DevicesAreFinite == IsFiniteSet(Devices)
ASSUME SessionConstants ==
  /\ MaxTokens \in Nat /\ MaxRequests \in Nat /\ MaxSessionEvents \in Nat
  /\ NoTab \notin Tabs
ASSUME StoreConstants ==
  FirstDevice \in Devices /\ NoDevice \notin Devices /\ MaxStoreEvents \in Nat
\* One failure at least opens the circuit.
ASSUME CatalogueConstants == Threshold \in Nat \ {0} /\ MaxOutages \in Nat

VARIABLES
  part,   \* the part this behaviour follows
  db, cookie, tabs, reqs, bye, sessionEvents,
  chosen, version, authed, selected, playback, socket, answers, storeEvents,
  ahead, refills, edits

Session == INSTANCE Sessions WITH MaxEvents <- MaxSessionEvents, events <- sessionEvents
Store == INSTANCE WebStore WITH MaxEvents <- MaxStoreEvents, events <- storeEvents
Refiller == INSTANCE AutoQueue WITH Threshold <- RefillThreshold

sessionVars == <<db, cookie, tabs, reqs, bye, sessionEvents>>
storeVars == <<chosen, version, authed, selected, playback, socket, answers, storeEvents>>
autoVars == <<ahead, refills, edits>>
allVars == <<part, sessionVars, storeVars, vars, autoVars>>

PeripheryInit ==
  /\ part \in {"sessions", "store", "catalogue", "auto-queue"}
  /\ Init /\ Session!Init /\ Store!Init /\ Refiller!Init

\* A step A of a part, while the others stand still.
OfSessions(A) ==
  part = "sessions" /\ A /\ UNCHANGED <<part, storeVars, vars, autoVars>>
OfStore(A) ==
  part = "store" /\ A /\ UNCHANGED <<part, sessionVars, vars, autoVars>>
OfCatalogue(A) ==
  part = "catalogue" /\ A /\ UNCHANGED <<part, sessionVars, storeVars, autoVars>>
OfAutoQueue(A) ==
  part = "auto-queue" /\ A /\ UNCHANGED <<part, sessionVars, storeVars, vars>>

PeripheryNext ==
  \/ OfSessions(Session!Next)
  \/ OfStore(Store!Next)
  \/ OfCatalogue(Next)
  \/ OfAutoQueue(Refiller!Next)

\* A tab polls every 10 s and connects its socket anew every 3 s; requests are
\* answered; time passes.
PeripheryFairness ==
  /\ \A t \in Tabs : /\ WF_allVars(OfStore(Store!Poll(t)))
                     /\ WF_allVars(OfStore(Store!WsConnects(t)))
                     /\ WF_allVars(OfStore(Store!Arrival(t)))
  /\ WF_allVars(OfCatalogue(Cools))
  /\ \A c \in Callers : WF_allVars(OfCatalogue(TimesOut(c)))

PeripherySpec == PeripheryInit /\ [][PeripheryNext]_allVars /\ PeripheryFairness

-----------------------------------------------------------------------------
\* Every variable of the four parts keeps its shape.
PeripheryTypeOK == TypeOK /\ Session!TypeOK /\ Store!TypeOK /\ Refiller!TypeOK

\* The properties of the parts are stated, and explained, in their modules; those
\* of Catalogue are OneFetch and CircuitRecovers.

\* Sessions: a refresh is refused only for a token that was revoked, if retries
\* come in time.
NoFalseLogout == Session!NoFalseLogout
\* WebStore: when all is quiet every tab shows the account's device and state.
Converges == part = "store" => Store!Converges
\* AutoQueue: at most one refill per device more than a refill is made for.
RefillBounded == Refiller!RefillBounded
=============================================================================
