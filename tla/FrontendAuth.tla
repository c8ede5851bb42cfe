---------------------------- MODULE FrontendAuth ----------------------------
(* The session of a page: the axios interceptors that renew an access token *)
(* and hold requests meanwhile (src/src/main.js), and login and logout      *)
(* (src/src/store.js).  One tab.                                            *)
(* Promise callbacks run to the end before the browser handles an answer, a *)
(* click or a timer: what waits for them is guarded by AtRest.              *)
(* A definition named Bug... is a faulty variant of the one that follows    *)
(* it, for checking that the properties notice the fault.                   *)
EXTENDS Naturals

CONSTANTS Request,  \* calls that can be under way at once
          User,
          Nobody

ASSUME FrontendAssumption == Nobody \notin User

VARIABLES storage,  \* localStorage: whose tokens, and what is left of them
          session,  \* store.state.access, axios's default header, isRefreshing
          request,  \* Request -> its call: where, by whom, with whose token
          refresh,  \* the POST to /api/token/refresh/, and whose token it sends
          login,    \* the POST to /api/token/, and whose
          overlap   \* history: a session ended while its refresh was under way

sessionVars == <<storage, session, request, refresh, login, overlap>>

NoSession == [access |-> Nobody, valid |-> FALSE, refresh |-> Nobody, expiring |-> FALSE]
NewSession(u) == [access |-> u, valid |-> TRUE, refresh |-> u, expiring |-> FALSE]
NoCall == [at |-> "idle", by |-> Nobody, as |-> Nobody, config |-> TRUE]
NoPost == [at |-> "none", of |-> Nobody]

\* The module and the store are loaded with what localStorage holds.
Loaded(s) == [user |-> s.access, header |-> s.access, isRefreshing |-> FALSE]

SessionInit ==
  /\ \/ storage = NoSession
     \/ \E u \in User, v, e \in BOOLEAN :
          storage = [NewSession(u) EXCEPT !.valid = v, !.expiring = e]
  /\ session = Loaded(storage)
  /\ request = [q \in Request |-> NoCall]
  /\ refresh = NoPost
  /\ login = NoPost
  /\ overlap = FALSE

At(q, place) == request[q].at = place
failedQueue == {q \in Request : At(q, "queued")}

\* No promise callback is left to run.
AtRest ==
  /\ \A q \in Request : ~At(q, "called") /\ ~At(q, "passed")
  /\ refresh.at # "called"

-----------------------------------------------------------------------------
(* The end of a session.                                                    *)

\* The default header outlives the session.
BugKeepsHeader ==
  /\ storage' = NoSession
  /\ session' = [session EXCEPT !.user = Nobody]
  /\ overlap' = (overlap \/ refresh.at # "none")

EndSession ==
  /\ storage' = NoSession
  /\ session' = [session EXCEPT !.user = Nobody, !.header = Nobody]
  /\ overlap' = (overlap \/ refresh.at # "none")

\* The button of the layout.
Logout ==
  /\ AtRest
  /\ session.user # Nobody
  /\ EndSession
  /\ UNCHANGED <<request, refresh, login>>

-----------------------------------------------------------------------------
(* A call: axios runs the interceptor that was registered last first.       *)

\* A component or a poll calls the API; axios merges its defaults in.
Call(q) ==
  /\ At(q, "idle")
  /\ session.user # Nobody
  /\ request' = [request EXCEPT ![q] =
                   [at |-> "called", by |-> session.user, as |-> session.header, config |-> TRUE]]
  /\ UNCHANGED <<storage, session, refresh, login, overlap>>

AccessGood == storage.access # Nobody /\ storage.valid

PassAccess(q) ==
  /\ At(q, "called")
  /\ AccessGood
  /\ request' = [request EXCEPT ![q].at = "passed"]
  /\ UNCHANGED <<storage, session, refresh, login, overlap>>

Enqueue(q) ==
  /\ At(q, "called")
  /\ ~AccessGood /\ session.isRefreshing
  /\ request' = [request EXCEPT ![q].at = "queued"]
  /\ UNCHANGED <<storage, session, refresh, login, overlap>>

StartRefresh(q) ==
  /\ At(q, "called")
  /\ ~AccessGood /\ ~session.isRefreshing
  /\ session' = [session EXCEPT !.isRefreshing = TRUE]
  /\ refresh' = [at |-> "called", of |-> storage.refresh]
  /\ request' = [request EXCEPT ![q].at = "refresher"]
  /\ UNCHANGED <<storage, login, overlap>>

\* A call with a refresh token near its end goes out all the same.
BugIgnoresExpiry(q) ==
  /\ At(q, "passed")
  /\ request' = [request EXCEPT ![q].at = IF request[q].config THEN "sent" ELSE "malformed"]
  /\ UNCHANGED <<storage, session, refresh, login, overlap>>

\* The interceptor that watches the refresh token logs out and cancels, or
\* lets the call go.  What a failed refresh has put in the place of a config
\* goes on as well, and axios throws a TypeError over it.
CheckRefresh(q) ==
  /\ At(q, "passed")
  /\ IF storage.expiring
     THEN /\ EndSession
          /\ request' = [request EXCEPT ![q] = NoCall]
     ELSE /\ request' = [request EXCEPT ![q].at =
                           IF request[q].config THEN "sent" ELSE "malformed"]
          /\ UNCHANGED <<storage, session, overlap>>
  /\ UNCHANGED <<refresh, login>>

\* The call is answered, fails on the network, or has thrown.
CallSettles(q) ==
  /\ AtRest
  /\ At(q, "sent") \/ At(q, "malformed")
  /\ request' = [request EXCEPT ![q] = NoCall]
  /\ UNCHANGED <<storage, session, refresh, login, overlap>>

-----------------------------------------------------------------------------
(* The refresh, and processQueue.                                           *)

\* The calls that waited go on with the new token, and so does the first.
Released ==
  [q \in Request |->
     IF At(q, "queued") \/ At(q, "refresher")
     THEN [request[q] EXCEPT !.at = "passed", !.as = refresh.of] ELSE request[q]]

\* The first call is rejected; the catch of those that waited returns the
\* error, which takes the place of their config.
Rejected ==
  [q \in Request |->
     IF At(q, "queued") THEN [request[q] EXCEPT !.at = "passed", !.config = FALSE]
     ELSE IF At(q, "refresher") THEN NoCall ELSE request[q]]

\* Its own pass through the interceptors.
PostRefresh ==
  /\ refresh.at = "called"
  /\ IF storage.expiring
     THEN /\ storage' = NoSession
          /\ session' = Loaded(NoSession)
          /\ request' = Rejected
          /\ refresh' = NoPost
     ELSE /\ refresh' = [refresh EXCEPT !.at = "posted"]
          /\ UNCHANGED <<storage, session, request>>
  /\ UNCHANGED <<login, overlap>>

RefreshAnswered ==
  /\ AtRest
  /\ refresh.at = "posted" /\ refresh.of # Nobody
  /\ storage' = [storage EXCEPT !.access = refresh.of, !.valid = TRUE]
  /\ session' = [session EXCEPT !.header = refresh.of, !.isRefreshing = FALSE]
  /\ request' = Released
  /\ refresh' = NoPost
  /\ UNCHANGED <<login, overlap>>

\* Only a refresh that succeeds is over.
BugStaysRefreshing ==
  /\ AtRest
  /\ refresh.at = "posted"
  /\ request' = Rejected
  /\ refresh' = NoPost
  /\ UNCHANGED <<storage, session, login, overlap>>

\* Refused, no refresh token to send, or a network error.
RefreshRefused ==
  /\ AtRest
  /\ refresh.at = "posted"
  /\ session' = [session EXCEPT !.isRefreshing = FALSE]
  /\ request' = Rejected
  /\ refresh' = NoPost
  /\ UNCHANGED <<storage, login, overlap>>

-----------------------------------------------------------------------------
(* Login, which the route guard offers to nobody who is logged in.          *)

\* Nobody is logged in: localStorage holds no refresh token, and the POST
\* passes both interceptors.
Login(u) ==
  /\ AtRest
  /\ session.user = Nobody /\ login.at = "none"
  /\ login' = [at |-> "posted", of |-> u]
  /\ UNCHANGED <<storage, session, request, refresh, overlap>>

LoginAnswered ==
  /\ AtRest
  /\ login.at = "posted"
  /\ storage' = NewSession(login.of)
  /\ session' = [session EXCEPT !.user = login.of, !.header = login.of]
  /\ login' = NoPost
  /\ UNCHANGED <<request, refresh, overlap>>

LoginRefused ==
  /\ AtRest
  /\ login.at = "posted"
  /\ storage' = NoSession
  /\ login' = NoPost
  /\ UNCHANGED <<session, request, refresh, overlap>>

-----------------------------------------------------------------------------
(* Time, and the browser.                                                   *)

AccessExpires ==
  /\ AtRest
  /\ AccessGood
  /\ storage' = [storage EXCEPT !.valid = FALSE]
  /\ UNCHANGED <<session, request, refresh, login, overlap>>

\* Less than a minute is left of the refresh token.
RefreshNearsEnd ==
  /\ AtRest
  /\ storage.refresh # Nobody /\ ~storage.expiring
  /\ storage' = [storage EXCEPT !.expiring = TRUE]
  /\ UNCHANGED <<session, request, refresh, login, overlap>>

Reload ==
  /\ AtRest
  /\ session' = Loaded(storage)
  /\ request' = [q \in Request |-> NoCall]
  /\ refresh' = NoPost
  /\ login' = NoPost
  /\ UNCHANGED <<storage, overlap>>

Callback(q) == PassAccess(q) \/ Enqueue(q) \/ StartRefresh(q) \/ CheckRefresh(q)

SessionNext ==
  \/ \E q \in Request : Call(q) \/ Callback(q) \/ CallSettles(q)
  \/ PostRefresh \/ RefreshAnswered \/ RefreshRefused
  \/ \E u \in User : Login(u)
  \/ LoginAnswered \/ LoginRefused
  \/ Logout \/ AccessExpires \/ RefreshNearsEnd \/ Reload

SessionSpec == SessionInit /\ [][SessionNext]_sessionVars

\* Promise callbacks run, and every call and every refresh is answered or fails.
\* Nobody has to make a call: only the overview polls (ActiveJobsCard.vue:112).
SessionFairness ==
  /\ \A q \in Request : WF_sessionVars(Callback(q)) /\ SF_sessionVars(CallSettles(q))
  /\ WF_sessionVars(PostRefresh)
  /\ SF_sessionVars(RefreshAnswered \/ RefreshRefused)

FairSession == SessionSpec /\ SessionFairness

-----------------------------------------------------------------------------
\* The store, the default header and both tokens in localStorage are of one
\* user, and a call goes out with the token of the user who made it - unless a
\* session ended while its refresh was under way (logout and the interceptors).
SessionIsWhole ==
  ~overlap =>
    /\ session.user = storage.access /\ session.header = storage.access
    /\ storage.refresh = storage.access
    /\ \A q \in Request : At(q, "sent") => request[q].as = request[q].by

\* Every call is answered or rejected: one that waits for a refresh is released
\* once that is over, however it ended and whatever came between (failedQueue,
\* isRefreshing).
EveryCallSettles == \A q \in Request : ~At(q, "idle") ~> At(q, "idle")

\* A session whose refresh token is about to expire ends, whether or not its
\* access token is still good and however the page is reloaded, if the page goes
\* on calling the API (the interceptor that watches refresh tokens): what ends
\* it is a call, and on a page that makes none nothing does.
ExpiredSessionEnds ==
  []<>(\E q \in Request : At(q, "called")) =>
    (session.user # Nobody /\ storage.expiring ~> session.user = Nobody)

\* "A request interceptor has to resolve with a config or reject"
\* (main.js:71-73): the interceptor of a call that waited for a refresh that
\* failed resolves with the error.
ConfigOrReject == \A q \in Request : request[q].config
=============================================================================
