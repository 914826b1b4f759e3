----------------------------- MODULE Catalogue -----------------------------
(***************************************************************************)
(* Look-ups in the external music catalogue                                *)
(* (apps/server/src/services/music.service.ts,                             *)
(* providers/resilient-provider.ts, providers/youtube-music.ts).  A look-up*)
(* awaits the cache; on a miss it joins the call that is under way for the *)
(* same key, or makes one.  The provider's wrapper gives every call 15 s,  *)
(* and refuses calls for 30 s after Threshold failures in a row.           *)
(*                                                                         *)
(* A search throws when the provider fails.  A look-up by id, and the      *)
(* recommendations (getUpNext: no cache, no sharing), swallow what fails   *)
(* and find nothing, which the wrapper takes for a success, unless it is   *)
(* the session with the provider that cannot be had.                       *)
(***************************************************************************)
EXTENDS Naturals

CONSTANTS
  Callers,
  Queries, Ids, UpNext,  \* what is looked up
  Threshold,             \* BREAK_THRESHOLD
  MaxOutages             \* bound: how often the provider goes down

VARIABLES
  cached,    \* the keys that Redis holds an answer for
  lookups,   \* lookups[c]: [at, key]
  inFlight,  \* the keys of the Map of the same name
  failures,  \* in a row (bound: counted up to Threshold, only >= is asked)
  openFor,   \* halves of BREAK_MS until openUntil; 0: the circuit is closed
  up,        \* the provider answers
  outages    \* how often it went down

vars == <<cached, lookups, inFlight, failures, openFor, up, outages>>

Shared == Queries \cup Ids
Keys == Shared \cup {UpNext}
Idle == [at |-> "none", key |-> UpNext]

Init ==
  /\ cached = {} /\ inFlight = {}
  /\ lookups = [c \in Callers |-> Idle]
  /\ failures = 0 /\ openFor = 0
  /\ up = TRUE /\ outages = 0

To(c, where) == lookups' = [lookups EXCEPT ![c] = [at |-> where, key |-> lookups[c].key]]

\* search, getTrack, getAlbum, getArtist and getPlaylist await the cache.
Lookup(c, k) ==
  /\ lookups[c].at = "none"
  /\ lookups' = [lookups EXCEPT ![c] = [at |-> IF k = UpNext THEN "missed" ELSE "asks", key |-> k]]
  /\ UNCHANGED <<cached, inFlight, failures, openFor, up, outages>>

\* Redis answers; the caller goes on some time after.
CacheAnswers(c) ==
  /\ lookups[c].at = "asks"
  /\ IF lookups[c].key \in cached THEN lookups' = [lookups EXCEPT ![c] = Idle] ELSE To(c, "missed")
  /\ UNCHANGED <<cached, inFlight, failures, openFor, up, outages>>

\* Mutant: every miss makes a call of its own.
CallAlone(c) ==
  /\ lookups[c].at = "missed" /\ openFor = 0
  /\ To(c, "calls")
  /\ inFlight' = inFlight \cup ({lookups[c].key} \cap Shared)
  /\ UNCHANGED <<cached, failures, openFor, up, outages>>

\* withSingleFlight and run: nobody else's call is under way, the circuit is
\* closed.
Call(c) ==
  /\ lookups[c].at = "missed" /\ lookups[c].key \notin inFlight /\ openFor = 0
  /\ To(c, "calls")
  /\ inFlight' = inFlight \cup ({lookups[c].key} \cap Shared)
  /\ UNCHANGED <<cached, failures, openFor, up, outages>>

Join(c) ==
  /\ lookups[c].at = "missed" /\ lookups[c].key \in inFlight
  /\ To(c, "joined")
  /\ UNCHANGED <<cached, inFlight, failures, openFor, up, outages>>

\* Mutant: a refusal counts as a failure of the provider.
RefuseAndCount(c) ==
  /\ lookups[c].at = "missed" /\ lookups[c].key \notin inFlight /\ openFor > 0
  /\ lookups' = [lookups EXCEPT ![c] = Idle]
  /\ openFor' = 2
  /\ UNCHANGED <<cached, inFlight, failures, up, outages>>

\* PROVIDER_UNAVAILABLE: the circuit is open.
Refuse(c) ==
  /\ lookups[c].at = "missed" /\ lookups[c].key \notin inFlight /\ openFor > 0
  /\ lookups' = [lookups EXCEPT ![c] = Idle]
  /\ UNCHANGED <<cached, inFlight, failures, openFor, up, outages>>

\* The call of c is over, for c and those that joined it.
Over(c) ==
  LET k == lookups[c].key
  IN  /\ inFlight' = inFlight \ {k}
      /\ lookups' = [d \in Callers |->
           IF d = c \/ (lookups[d].at = "joined" /\ lookups[d].key = k) THEN Idle ELSE lookups[d]]

\* A success closes the circuit, whenever its call was made.
Close == failures' = 0 /\ openFor' = 0

\* The provider finds something; it is stored, unless nobody caches it here.
Found(c) ==
  /\ lookups[c].at = "calls" /\ up
  /\ Close
  /\ IF lookups[c].key \in Shared THEN To(c, "stores") /\ UNCHANGED inFlight ELSE Over(c)
  /\ UNCHANGED <<cached, up, outages>>

\* It finds nothing, or fails a look-up that swallows it: not cached.
FoundNothing(c) ==
  /\ lookups[c].at = "calls"
  /\ up \/ lookups[c].key \notin Queries
  /\ Close
  /\ Over(c)
  /\ UNCHANGED <<cached, up, outages>>

\* Every failure from the Threshold-th on opens the circuit anew.
CountFailure ==
  /\ failures' = IF failures < Threshold THEN failures + 1 ELSE failures
  /\ openFor' = IF failures' = Threshold THEN 2 ELSE openFor

\* The search fails, or the session cannot be had.
Throws(c) ==
  /\ lookups[c].at = "calls" /\ ~up
  /\ CountFailure
  /\ Over(c)
  /\ UNCHANGED <<cached, up, outages>>

\* The provider does not answer, also when it is up again by then.
Hangs(c) ==
  /\ lookups[c].at = "calls" /\ ~up
  /\ To(c, "hangs")
  /\ UNCHANGED <<cached, inFlight, failures, openFor, up, outages>>

\* withTimeout: PROVIDER_TIMEOUT after 15 s.
TimesOut(c) ==
  /\ lookups[c].at = "hangs"
  /\ CountFailure
  /\ Over(c)
  /\ UNCHANGED <<cached, up, outages>>

\* redis.set answers, or rejects and with it the look-up.
Stored(c) ==
  /\ lookups[c].at = "stores"
  /\ Over(c)
  /\ \E done \in {{lookups[c].key}, {}} : cached' = cached \cup done
  /\ UNCHANGED <<failures, openFor, up, outages>>

Expires(k) ==
  /\ k \in cached
  /\ cached' = cached \ {k}
  /\ UNCHANGED <<lookups, inFlight, failures, openFor, up, outages>>

\* Half of BREAK_MS passes.
Cools ==
  /\ openFor > 0
  /\ openFor' = openFor - 1
  /\ UNCHANGED <<cached, lookups, inFlight, failures, up, outages>>

GoesDown ==
  /\ up /\ outages < MaxOutages
  /\ up' = FALSE /\ outages' = outages + 1
  /\ UNCHANGED <<cached, lookups, inFlight, failures, openFor>>

ComesUp ==
  /\ ~up /\ up' = TRUE
  /\ UNCHANGED <<cached, lookups, inFlight, failures, openFor, outages>>

Ends(c) == Found(c) \/ FoundNothing(c) \/ Throws(c) \/ TimesOut(c) \/ Stored(c)

Next ==
  \/ \E c \in Callers, k \in Keys : Lookup(c, k)
  \/ \E c \in Callers : CacheAnswers(c) \/ Call(c) \/ Join(c) \/ Refuse(c) \/ Hangs(c) \/ Ends(c)
  \/ \E k \in Shared : Expires(k)
  \/ Cools \/ GoesDown \/ ComesUp

Spec == Init /\ [][Next]_vars

-----------------------------------------------------------------------------
TypeOK ==
  /\ cached \subseteq Shared /\ inFlight \subseteq Shared
  /\ lookups \in [Callers -> [at : {"none", "asks", "missed", "calls", "hangs", "joined", "stores"},
                              key : Keys]]
  /\ failures \in 0..Threshold /\ openFor \in 0..2
  /\ up \in BOOLEAN /\ outages \in 0..MaxOutages

\* "Single-flight: concurrent identical lookups share one provider call"
\* (music.service.ts:20), although each of them awaits the cache first and a
\* call may end in five ways: no two calls for one key, and one that joined has
\* a call to wait for.
OneFetch ==
  LET Leaders(k) == {c \in Callers : lookups[c].key = k /\ lookups[c].at \in {"calls", "hangs", "stores"}}
  IN  \A k \in Shared : \A c \in Callers :
        /\ c \in Leaders(k) => Leaders(k) = {c}
        /\ lookups[c] = [at |-> "joined", key |-> k] => Leaders(k) # {}

\* "OPEN for 30s ... then HALF_OPEN" (resilient-provider.ts:9): once the provider
\* is up for good, the circuit closes for good, however often callers ask
\* meanwhile and whichever calls of the outage time out late.
CircuitRecovers == <>[]up => <>[](openFor = 0)
=============================================================================
