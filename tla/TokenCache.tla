----------------------------- MODULE TokenCache -----------------------------
(***************************************************************************)
(* The salt-api tokens a worker process keeps (api/backend/netapi.py) and  *)
(* the client that carries them (api/backend/salt_api.py).                 *)
(*                                                                         *)
(* One Alcali user is modelled: entries of different users never share a   *)
(* key.  The user's Salt credential (UserSettings.token) is a version      *)
(* number that every renewal moves.  A request thread reads it, looks its  *)
(* token up under _TOKEN_LOCK, judges it outside the lock, logs in if it   *)
(* has to, and makes its calls - sync_keys() and the refreshes make many - *)
(* with the token it judged once; salt-api and the master are external.    *)
(* A definition named Bug... is a faulty variant of the one that follows   *)
(* it, for checking that the properties notice the fault.                  *)
(***************************************************************************)
EXTENDS Naturals, FiniteSets

CONSTANTS
  Process,        \* worker processes, each with a cache of its own
  Request,        \* request threads
  Home,           \* the process each request thread runs in
  Token,          \* identities of tokens the master can issue
  NoToken,        \* no token
  MaxCredential,  \* bound on renewals: versions 1..MaxCredential
  RecursionLimit  \* how deep logins may nest before Python gives up

ASSUME TokenCacheAssumption ==
  /\ Home \in [Request -> Process]
  /\ NoToken \notin Token
  /\ MaxCredential \in Nat \ {0}
  /\ RecursionLimit \in Nat \ {0}

Credential == 1..MaxCredential

(* How much of a token's life is left: well before the expiry margin,      *)
(* within the margin (spent for Alcali, good for the master), past it.     *)
Live == 2
Margin == 1
Expired == 0

VARIABLES
  credential,  \* UserSettings.token: the current version
  bought,      \* Token -> the credential version it was issued for
  left,        \* Token -> Live, Margin or Expired
  honoured,    \* tokens the master still knows
  cache,       \* _TOKEN_CACHE: Process -> cache key -> token or NoToken
  pc,          \* Request -> where the thread is
  kind,        \* Request -> "call" (_json_request) or "stream" (open_stream)
  cred,        \* Request -> the credential api_connect() read
  token,       \* Request -> the token the client carries
  first,       \* Request -> still on the first attempt at this call
  nest,        \* Request -> logins waiting for a nested reauth() to return
  outcome,     \* Request -> how it ended
  hurt         \* history: what would excuse a refusal happened meanwhile

masterVars == <<credential, bought, left, honoured>>
threadVars == <<pc, kind, cred, token, first, nest, outcome, hurt>>
vars == <<masterVars, cache, threadVars>>

Place == {"idle", "lookup", "check", "forget", "login", "again", "store",
          "call", "done"}
Outcome == {"none", "ok", "error", "crash"}

TypeOK ==
  /\ credential \in Credential
  /\ bought \in [Token -> Credential]
  /\ left \in [Token -> {Live, Margin, Expired}]
  /\ honoured \in SUBSET Token
  /\ cache \in [Process -> [Credential -> Token \cup {NoToken}]]
  /\ pc \in [Request -> Place]
  /\ kind \in [Request -> {"call", "stream"}]
  /\ cred \in [Request -> Credential]
  /\ token \in [Request -> Token \cup {NoToken}]
  /\ first \in [Request -> BOOLEAN]
  /\ nest \in [Request -> 0..RecursionLimit]
  /\ outcome \in [Request -> Outcome]
  /\ hurt \in [Request -> BOOLEAN]

Init ==
  /\ credential = 1
  /\ bought = [k \in Token |-> 1]
  /\ left = [k \in Token |-> Expired]
  /\ honoured = {}
  /\ cache = [p \in Process |-> [c \in Credential |-> NoToken]]
  /\ pc = [r \in Request |-> "idle"]
  /\ kind = [r \in Request |-> "call"]
  /\ cred = [r \in Request |-> 1]
  /\ token = [r \in Request |-> NoToken]
  /\ first = [r \in Request |-> TRUE]
  /\ nest = [r \in Request |-> 0]
  /\ outcome = [r \in Request |-> "none"]
  /\ hurt = [r \in Request |-> FALSE]

-----------------------------------------------------------------------------
(* The cache key covers the credential. *)
BugUserKey(c) == 1
CacheKey(c) == c

(* entry["expire"] - _TOKEN_EXPIRY_MARGIN <= time.time() *)
Spent(k) == left[k] # Live

(* A token nobody holds: the identity of the next one issued. *)
Unheld == {k \in Token : /\ \A p \in Process, c \in Credential : cache[p][c] # k
                         /\ \A r \in Request : token[r] # k}

Goto(r, place) == pc' = [pc EXCEPT ![r] = place]

End(r, how) ==
  /\ Goto(r, "done")
  /\ outcome' = [outcome EXCEPT ![r] = how]

(* A request reaches api_connect(), which reads the stored credential.     *)
Begin(r, what) ==
  /\ pc[r] = "idle"
  /\ Goto(r, "lookup")
  /\ kind' = [kind EXCEPT ![r] = what]
  /\ cred' = [cred EXCEPT ![r] = credential]
  /\ UNCHANGED <<masterVars, cache, token, first, nest, outcome, hurt>>

(* _cached_entry(): the read of the cache, under the lock. *)
Lookup(r) ==
  LET held == cache[Home[r]][CacheKey(cred[r])] IN
  /\ pc[r] = "lookup"
  /\ token' = [token EXCEPT ![r] = held]
  /\ Goto(r, IF held = NoToken THEN "login" ELSE "check")
  /\ UNCHANGED <<masterVars, cache, kind, cred, first, nest, outcome, hurt>>

(* _cached_entry(): the expiry check, after the lock was released. *)
Check(r) ==
  /\ pc[r] = "check"
  /\ Goto(r, IF Spent(token[r]) THEN "forget" ELSE "call")
  /\ UNCHANGED <<masterVars, cache, kind, cred, token, first, nest, outcome,
                 hurt>>

(* forget_salt_token(): pops whatever is stored under the key by now.  The  *)
(* thread has given its own token up: what it does next is to log in.      *)
Forget(r) ==
  /\ pc[r] = "forget"
  /\ cache' = [cache EXCEPT ![Home[r]][CacheKey(cred[r])] = NoToken]
  /\ token' = [token EXCEPT ![r] = NoToken]
  /\ Goto(r, "login")
  /\ UNCHANGED <<masterVars, kind, cred, first, nest, outcome, hurt>>

-----------------------------------------------------------------------------
(* The master accepts a login with the credential that is stored now. *)
LoginAccepted(r) ==
  /\ pc[r] \in {"login", "again"}
  /\ cred[r] = credential
  /\ \E k \in Unheld :
       /\ bought' = [bought EXCEPT ![k] = cred[r]]
       /\ left' = [left EXCEPT ![k] = Live]
       /\ honoured' = honoured \cup {k}
       /\ token' = [token EXCEPT ![r] = k]
  /\ Goto(r, "store")
  /\ UNCHANGED <<credential, cache, kind, cred, first, nest, outcome, hurt>>

(* salt-api answers a login with 401.  The login of api_connect() runs     *)
(* before api.reauth is set and is reported.  The login of reauth() goes   *)
(* through _json_request with reauth set and allowed, so it calls          *)
(* reauth() again; only a login retried after that is not.                 *)
LoginRefused(r) ==
  /\ cred[r] # credential
  /\ \/ /\ pc[r] = "login" /\ first[r]
        /\ End(r, "error")
        /\ UNCHANGED nest
     \/ /\ pc[r] = "login" /\ ~first[r] /\ nest[r] < RecursionLimit
        /\ nest' = [nest EXCEPT ![r] = @ + 1]
        /\ Goto(r, "forget")
        /\ UNCHANGED outcome
     \/ /\ pc[r] = "login" /\ ~first[r] /\ nest[r] = RecursionLimit
        /\ End(r, "crash")
        /\ UNCHANGED nest
     \/ /\ pc[r] = "again"
        /\ End(r, "error")
        /\ UNCHANGED nest
  /\ UNCHANGED <<masterVars, cache, kind, cred, token, first, hurt>>

(* _login(): under the lock, clear what is spent and store the new entry.  *)
(* A nested reauth() then has its caller repeat the login it was refused.  *)
Store(r) ==
  LET held == cache[Home[r]] IN
  /\ pc[r] = "store"
  /\ cache' = [cache EXCEPT ![Home[r]] =
                 [c \in Credential |->
                    IF c = CacheKey(cred[r]) THEN token[r]
                    ELSE IF held[c] = NoToken THEN NoToken
                    ELSE IF Spent(held[c]) THEN NoToken ELSE held[c]]]
  /\ nest' = [nest EXCEPT ![r] = IF @ > 0 THEN @ - 1 ELSE 0]
  /\ Goto(r, IF nest[r] > 0 THEN "again" ELSE "call")
  /\ UNCHANGED <<masterVars, kind, cred, token, first, outcome, hurt>>

-----------------------------------------------------------------------------
(* salt-api honours the token the client sends; the request may have more  *)
(* calls to make with the same client, each with a first attempt.          *)
CallAnswered(r) ==
  /\ pc[r] = "call"
  /\ token[r] \in honoured
  /\ \/ End(r, "ok") /\ UNCHANGED first
     \/ /\ kind[r] = "call"
        /\ first' = [first EXCEPT ![r] = TRUE]
        /\ UNCHANGED <<pc, outcome>>
  /\ UNCHANGED <<masterVars, cache, kind, cred, token, nest, hurt>>

(* salt-api answers 401.  _json_request has reauth() forget the entry and  *)
(* log in, once; open_stream has no such path.                             *)
BugNoRetry(r) ==
  /\ pc[r] = "call" /\ token[r] \notin honoured
  /\ End(r, "error")
  /\ UNCHANGED <<masterVars, cache, kind, cred, token, first, nest, hurt>>

CallRefused(r) ==
  /\ pc[r] = "call"
  /\ token[r] \notin honoured
  /\ \/ /\ kind[r] = "call" /\ first[r]
        /\ Goto(r, "forget")
        /\ first' = [first EXCEPT ![r] = FALSE]
        /\ UNCHANGED outcome
     \/ /\ ~(kind[r] = "call" /\ first[r])
        /\ End(r, "error")
        /\ UNCHANGED first
  /\ UNCHANGED <<masterVars, cache, kind, cred, token, nest, hurt>>

(* salt-api cannot be reached, times out or answers 500: not an            *)
(* _is_auth_failure, so it is reported at once, from a login or a call.    *)
Unreachable(r) ==
  /\ pc[r] \in {"login", "again", "call"}
  /\ End(r, "error")
  /\ hurt' = [hurt EXCEPT ![r] = TRUE]
  /\ UNCHANGED <<masterVars, cache, kind, cred, token, first, nest>>

(* The response is sent; the thread is free for another request. *)
Finish(r) ==
  /\ pc[r] = "done"
  /\ Goto(r, "idle")
  /\ token' = [token EXCEPT ![r] = NoToken]
  /\ first' = [first EXCEPT ![r] = TRUE]
  /\ nest' = [nest EXCEPT ![r] = 0]
  /\ outcome' = [outcome EXCEPT ![r] = "none"]
  /\ hurt' = [hurt EXCEPT ![r] = FALSE]
  /\ UNCHANGED <<masterVars, cache, kind, cred>>

-----------------------------------------------------------------------------
(* manage_token: the stored credential moves on, whoever is mid-request.   *)
Renew ==
  /\ credential < MaxCredential
  /\ credential' = credential + 1
  /\ hurt' = [r \in Request |-> pc[r] # "idle"]
  /\ UNCHANGED <<bought, left, honoured, cache, pc, kind, cred, token, first,
                 nest, outcome>>

(* Threads that have just bought token k for themselves: losing it before  *)
(* the call is not something a retry can help.                             *)
Buyer(r) == pc[r] \in {"store", "again"} \/ (pc[r] = "call" /\ ~first[r])

(* Time passes for a token somebody holds, whatever is under way with it:  *)
(* a request may make its calls for longer than the margin, and            *)
(* SALT_TIMEOUT bounds a call's silences, not the call.                    *)
Age(k) ==
  /\ left[k] # Expired
  /\ k \notin Unheld
  /\ left' = [left EXCEPT ![k] = @ - 1]
  /\ honoured' = IF left[k] = Margin THEN honoured \ {k} ELSE honoured
  /\ hurt' = [r \in Request |->
               hurt[r] \/ (Buyer(r) /\ token[r] = k /\ left[k] = Margin)]
  /\ UNCHANGED <<credential, bought, cache, pc, kind, cred, token, first, nest,
                 outcome>>

(* The master restarts: every token is forgotten before it said so. *)
MasterForgets ==
  /\ honoured # {}
  /\ honoured' = {}
  /\ hurt' = [r \in Request |-> hurt[r] \/ Buyer(r)]
  /\ UNCHANGED <<credential, bought, left, cache, pc, kind, cred, token,
                 first, nest, outcome>>

Thread(r) ==
  \/ Lookup(r) \/ Check(r) \/ Forget(r)
  \/ LoginAccepted(r) \/ LoginRefused(r) \/ Store(r)
  \/ CallAnswered(r) \/ CallRefused(r) \/ Unreachable(r)
  \/ Finish(r)

Next ==
  \/ \E r \in Request : Thread(r)
  \/ \E r \in Request, what \in {"call", "stream"} : Begin(r, what)
  \/ \E k \in Token : Age(k)
  \/ Renew
  \/ MasterForgets

Spec == Init /\ [][Next]_vars

-----------------------------------------------------------------------------
(* Regenerating a Salt token stops the token issued for the old one from   *)
(* being reused (netapi.py, comment on the cache): what is stored under a  *)
(* credential was bought with it, and a client only ever carries a token   *)
(* bought with the credential its own request read.                        *)
BoughtWithOwnCredential ==
  /\ \A p \in Process, c \in Credential :
       cache[p][c] # NoToken => bought[cache[p][c]] = c
  /\ \A r \in Request :
       pc[r] \in {"check", "store", "call"} => bought[token[r]] = cred[r]

(* A call the master refuses only because a cached token has expired or    *)
(* been forgotten, before the request's first call or between two of them, *)
(* is retried and does not surface: an error needs a renewal while the     *)
(* request ran, an unreachable master, or the loss of a token the request  *)
(* had just bought for this very call.                                     *)
ErrorHasCause ==
  \A r \in Request :
    pc[r] = "done" /\ kind[r] = "call" /\ outcome[r] # "ok" => hurt[r]

(* Promises the code does not keep, which no run checks.  "a call cannot   *)
(* be issued with one that expires in flight" (_TOKEN_EXPIRY_MARGIN): only *)
(* the first of a request's calls is made within sight of the check.       *)
(* "`_allow_reauth` stops a persistently refused credential from           *)
(* recursing" (_json_request): a login made by reauth() calls reauth().    *)
NoExpiryInFlight == \A r \in Request : pc[r] = "call" => left[token[r]] # Expired
RefusedLoginDoesNotRecurse == \A r \in Request : nest[r] = 0
=============================================================================
