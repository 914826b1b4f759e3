------------------------------ MODULE Sessions ------------------------------
(***************************************************************************)
(* Sessions of the web client (apps/server/src/api/auth.ts and             *)
(* auth/tokens.ts, apps/web/src/lib/api.ts, main.ts).  The tabs of a       *)
(* browser share one cookie, which holds a refresh token; each tab keeps   *)
(* an access token in memory and, when that is about to expire or refused, *)
(* trades the cookie for new ones.  The server rotates: the token it was   *)
(* given stays good for a reuse window (60 s), a new one is stored.        *)
(*                                                                         *)
(* A request is "sent", "found" (its token was looked up), "created" (the  *)
(* answer, with its Set-Cookie, is on its way), "refused" (401) or         *)
(* "missing" (400).  If its tab is NoTab nobody waits for the answer, and  *)
(* the browser drops it.                                                   *)
(*                                                                         *)
(* Time: the twelve hours of an access token pass at any time; the seven   *)
(* days of an unused refresh token never do.  The window is over at any    *)
(* time as well, unless RetriesInTime is assumed: then it outlasts every   *)
(* request and the poll by which an open tab asks again (10 s), and no     *)
(* answer to a page load is lost.  The code does not guarantee this: a tab *)
(* is closed, the browser throttles its timer in the background, the       *)
(* network is away for more than 60 s, or initAuth gives up and shows the  *)
(* log-in form.  Answers may always be lost on their way to an open tab,   *)
(* or dropped because its page is loaded anew.                             *)
(***************************************************************************)
EXTENDS Naturals

CONSTANTS
  Tabs, NoTab,
  MaxTokens,    \* bound: refresh tokens ever issued; 0 is no token
  MaxEvents,    \* bound: page loads, expired access tokens, lost answers,
                \* log-outs and new passwords
  MaxRequests,  \* bound: log-ins and refreshes under way at once
  RetriesInTime \* is it assumed that whoever gets no answer asks again within
                \* the reuse window?

VARIABLES
  db,      \* db[k]: what the RefreshToken table knows of token k
  cookie,  \* the refresh token in the browser's cookie
  tabs,    \* tabs[t]: [at, access]
  reqs,    \* reqs[i]: [at, tab, raw, new], a login or a refresh
  bye,     \* [at, raw]: the log-out request under way (bound: one at a time)
  events   \* how often Disturb

vars == <<db, cookie, tabs, reqs, bye, events>>

NoToken == 0
Tokens == 1..MaxTokens
Requests == 1..MaxRequests
NoRequest == [at |-> "none", tab |-> NoTab, raw |-> NoToken, new |-> NoToken]
NoBye == [at |-> "none", raw |-> NoToken]
Out == [at |-> "out", access |-> "none"]
Starting == [at |-> "starting", access |-> "none"]

Init ==
  /\ db = [k \in Tokens |-> "unused"]
  /\ cookie = NoToken
  /\ tabs = [t \in Tabs |-> Out]
  /\ reqs = [i \in Requests |-> NoRequest]
  /\ bye = NoBye
  /\ events = 0

Disturb == events < MaxEvents /\ events' = events + 1

Sent(t) == [NoRequest EXCEPT !.at = "sent", !.tab = t, !.raw = cookie]

\* The tab's refresh (refreshing is its single flight) or log-in is under way.
Waits(t) == \E i \in Requests : reqs[i].tab = t

Free(i) == reqs[i].at = "none" /\ \A j \in 1..i-1 : reqs[j].at # "none"

-----------------------------------------------------------------------------
(***************************************************************************)
(* The tabs.                                                               *)
(***************************************************************************)

\* login: the password is right, and no token is given up.
Login(t, i) ==
  /\ tabs[t].at = "out" /\ ~Waits(t) /\ Free(i)
  /\ reqs' = [reqs EXCEPT ![i] = [NoRequest EXCEPT !.at = "found", !.tab = t]]
  /\ UNCHANGED <<db, cookie, tabs, bye, events>>

\* The access token is expired or refused: tryRefresh.
Refresh(t, i) ==
  /\ tabs[t] = [at |-> "in", access |-> "stale"] /\ ~Waits(t) /\ Free(i)
  /\ reqs' = [reqs EXCEPT ![i] = Sent(t)]
  /\ UNCHANGED <<db, cookie, tabs, bye, events>>

\* A page load: memory is lost, initAuth refreshes; what was under way is
\* aborted, and goes on at the server.
Load(t, i) ==
  /\ Disturb
  /\ Free(i)
  /\ tabs' = [tabs EXCEPT ![t] = Starting]
  /\ reqs' = [j \in Requests |->
                IF j = i THEN Sent(t)
                ELSE IF reqs[j].tab = t THEN [reqs[j] EXCEPT !.tab = NoTab] ELSE reqs[j]]
  /\ UNCHANGED <<db, cookie, bye>>

AccessExpires(t) ==
  /\ Disturb
  /\ tabs[t].access = "fresh"
  /\ tabs' = [tabs EXCEPT ![t].access = "stale"]
  /\ UNCHANGED <<db, cookie, reqs, bye>>

\* clearTokens sends the log-out request and does not wait for it.
ClearTokens == bye' = IF bye.at = "none" THEN [at |-> "sent", raw |-> cookie] ELSE bye

Logout(t) ==
  /\ Disturb
  /\ tabs[t].at = "in" /\ bye.at = "none"
  /\ ClearTokens
  /\ tabs' = [tabs EXCEPT ![t] = Out]
  /\ UNCHANGED <<db, cookie, reqs>>

\* The answer arrives: the browser stores the cookie, the tab the access token
\* (which a tab that has logged out meanwhile has no use for).
Arrive(i) ==
  LET t == reqs[i].tab
  IN  /\ reqs[i].at = "created"
      /\ IF t = NoTab THEN UNCHANGED <<cookie, tabs>>
         ELSE /\ cookie' = reqs[i].new
              /\ tabs' = IF tabs[t].at = "out" /\ reqs[i].raw # NoToken THEN tabs
                         ELSE [tabs EXCEPT ![t] = [at |-> "in", access |-> "fresh"]]
      /\ reqs' = [reqs EXCEPT ![i] = NoRequest]
      /\ UNCHANGED <<db, bye, events>>

\* 400, or a refusal that meets no open page: initAuth shows the log-in form, a
\* tab that is open tries again with its next request.
Fail(i) ==
  LET t == reqs[i].tab
  IN  /\ reqs[i].at = "missing" \/ (reqs[i].at = "refused" /\ (t # NoTab => tabs[t].at # "in"))
      /\ reqs' = [reqs EXCEPT ![i] = NoRequest]
      /\ tabs' = IF t # NoTab /\ tabs[t].at = "starting" THEN [tabs EXCEPT ![t] = Out] ELSE tabs
      /\ UNCHANGED <<db, cookie, bye, events>>

\* 401 is fatal: redirectToLogin logs out and loads the page anew.
RedirectToLogin(i) ==
  LET t == reqs[i].tab
  IN  /\ reqs[i].at = "refused" /\ t # NoTab /\ tabs[t].at = "in"
      /\ ClearTokens
      /\ tabs' = [tabs EXCEPT ![t] = Starting]
      /\ reqs' = [reqs EXCEPT ![i] = Sent(t)]
      /\ UNCHANGED <<db, cookie, events>>

\* The network fails a tab.  One that is open will ask again; initAuth shows the
\* log-in form.
LoseAnswer(i) ==
  LET t == reqs[i].tab
  IN  /\ Disturb
      /\ t # NoTab
      /\ RetriesInTime => tabs[t].at = "in" \/ reqs[i].raw = NoToken
      /\ reqs' = [reqs EXCEPT ![i].tab = NoTab]
      /\ tabs' = IF tabs[t].at = "starting" THEN [tabs EXCEPT ![t] = Out] ELSE tabs
      /\ UNCHANGED <<db, cookie, bye>>

-----------------------------------------------------------------------------
(***************************************************************************)
(* The server.                                                             *)
(***************************************************************************)
Good(k) == db[k] \in {"live", "window"}

\* /api/auth/refresh up to the lookup of the token by its hash.
Find(i) ==
  /\ reqs[i].at = "sent"
  /\ reqs' = [reqs EXCEPT ![i].at =
       IF reqs[i].raw = NoToken THEN "missing"
       ELSE IF Good(reqs[i].raw) THEN "found" ELSE "refused"]
  /\ UNCHANGED <<db, cookie, tabs, bye, events>>

Unused(k) == db[k] = "unused" /\ \A j \in 1..k-1 : db[j] # "unused"

\* Mutant: rotation deletes the old token.
RotateForGood(i, k) ==
  /\ reqs[i].at = "found" /\ Unused(k)
  /\ db' = [j \in Tokens |-> IF j = k THEN "live"
                             ELSE IF j = reqs[i].raw /\ Good(j) THEN "lapsed" ELSE db[j]]
  /\ reqs' = [reqs EXCEPT ![i].at = "created", ![i].new = k]
  /\ UNCHANGED <<cookie, tabs, bye, events>>

\* issueRefreshToken: the old token's row, if it is still there, gets the
\* window, and the new one's is created.
Rotate(i, k) ==
  /\ reqs[i].at = "found" /\ Unused(k)
  /\ db' = [j \in Tokens |-> IF j = k THEN "live"
                             ELSE IF j = reqs[i].raw /\ Good(j) THEN "window" ELSE db[j]]
  /\ reqs' = [reqs EXCEPT ![i].at = "created", ![i].new = k]
  /\ UNCHANGED <<cookie, tabs, bye, events>>

\* The window is over; the clean-up of expired rows changes nothing more.
Lapse(k) ==
  /\ db[k] = "window"
  /\ RetriesInTime =>
       /\ k \notin {reqs[i].raw : i \in Requests} \cup {bye.raw}
       /\ cookie = k => \A t \in Tabs : tabs[t].access # "stale"
  /\ db' = [db EXCEPT ![k] = "lapsed"]
  /\ UNCHANGED <<cookie, tabs, reqs, bye, events>>

\* /api/auth/logout: the row of the cookie's token is deleted ...
Revoke ==
  /\ bye.at = "sent"
  /\ db' = [k \in Tokens |-> IF k = bye.raw /\ Good(k) THEN "revoked" ELSE db[k]]
  /\ bye' = [bye EXCEPT !.at = "revoked"]
  /\ UNCHANGED <<cookie, tabs, reqs, events>>

\* ... and the answer clears the cookie.
ClearCookie ==
  /\ bye.at = "revoked"
  /\ cookie' = NoToken
  /\ bye' = NoBye
  /\ UNCHANGED <<db, tabs, reqs, events>>

\* /api/auth/password: every session of the account is over.
ChangePassword(t) ==
  /\ Disturb
  /\ tabs[t] = [at |-> "in", access |-> "fresh"]
  /\ db' = [k \in Tokens |-> IF Good(k) THEN "revoked" ELSE db[k]]
  /\ UNCHANGED <<cookie, tabs, reqs, bye>>

Next ==
  \/ \E t \in Tabs, i \in Requests : Login(t, i) \/ Refresh(t, i) \/ Load(t, i)
  \/ \E t \in Tabs : AccessExpires(t) \/ Logout(t) \/ ChangePassword(t)
  \/ \E i \in Requests : Arrive(i) \/ Fail(i) \/ RedirectToLogin(i) \/ LoseAnswer(i) \/ Find(i)
  \/ \E i \in Requests, k \in Tokens : Rotate(i, k)
  \/ \E k \in Tokens : Lapse(k)
  \/ Revoke \/ ClearCookie

Spec == Init /\ [][Next]_vars

-----------------------------------------------------------------------------
TypeOK ==
  /\ db \in [Tokens -> {"unused", "live", "window", "lapsed", "revoked"}]
  /\ cookie \in 0..MaxTokens
  /\ tabs \in [Tabs -> [at : {"out", "in", "starting"}, access : {"none", "fresh", "stale"}]]
  /\ reqs \in [Requests -> [at : {"none", "sent", "found", "created", "refused", "missing"},
                            tab : Tabs \cup {NoTab}, raw : 0..MaxTokens, new : 0..MaxTokens]]
  /\ events \in 0..MaxEvents
  /\ bye \in [at : {"none", "sent", "revoked"}, raw : 0..MaxTokens]

\* "If two tabs (or two devices) refresh concurrently, the first rotation must
\* not logout the second" (auth.ts:67): however refreshes, lost answers, page
\* loads and log-ins of the tabs interleave, a refresh is refused only for a
\* token that a log-out or a new password has revoked.  It takes RetriesInTime:
\* a tab that missed the answer and asks after the window is logged out.
NoFalseLogout ==
  \A i \in Requests : reqs[i].at = "refused" => db[reqs[i].raw] = "revoked"
=============================================================================
