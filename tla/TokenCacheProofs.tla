-------------------------- MODULE TokenCacheProofs --------------------------
(***************************************************************************)
(* Proofs about TokenCache for any workers, threads, tokens and bounds.    *)
(***************************************************************************)
EXTENDS TokenCache, TLAPS

(* Every variable keeps its type (all of netapi.py's token cache).         *)
THEOREM TypeCorrect == Spec => []TypeOK
<1> USE TokenCacheAssumption
<1>1. Init => TypeOK
  BY DEF Init, TypeOK, Credential, Place, Outcome, Live, Margin, Expired
<1>2. ASSUME TypeOK, [Next]_vars
      PROVE  TypeOK'
  <2> USE <1>2 DEF TypeOK, Place, Outcome, Goto, End, masterVars, threadVars
  <2>1. ASSUME NEW r \in Request, NEW what \in {"call", "stream"},
               Begin(r, what)
        PROVE  TypeOK'
    BY <2>1 DEF Begin
  <2>2. ASSUME NEW r \in Request, Lookup(r)
        PROVE  TypeOK'
    <3>1. cache[Home[r]][CacheKey(cred[r])] \in Token \cup {NoToken}
      BY DEF CacheKey
    <3>. QED BY <2>2, <3>1 DEF Lookup
  <2>3. ASSUME NEW r \in Request, Check(r)
        PROVE  TypeOK'
    BY <2>3 DEF Check
  <2>4. ASSUME NEW r \in Request, Forget(r)
        PROVE  TypeOK'
    BY <2>4 DEF Forget
  <2>5. ASSUME NEW r \in Request, LoginAccepted(r)
        PROVE  TypeOK'
    BY <2>5 DEF LoginAccepted, Unheld, Live
  <2>6. ASSUME NEW r \in Request, LoginRefused(r)
        PROVE  TypeOK'
    <3>1. nest' \in [Request -> 0..RecursionLimit]
      <4>1. nest[r] \in 0..RecursionLimit /\ RecursionLimit \in Nat
        OBVIOUS
      <4>2. CASE nest' = nest
        BY <4>2
      <4>3. CASE nest[r] < RecursionLimit /\ nest' = [nest EXCEPT ![r] = @ + 1]
        BY <4>1, <4>3
      <4>. QED BY <2>6, <4>2, <4>3 DEF LoginRefused
    <3>2. /\ pc' \in [Request -> Place]
          /\ outcome' \in [Request -> Outcome]
      BY <2>6 DEF LoginRefused
    <3>. QED BY <2>6, <3>1, <3>2 DEF LoginRefused
  <2>7. ASSUME NEW r \in Request, Store(r)
        PROVE  TypeOK'
    BY <2>7 DEF Store
  <2>8. ASSUME NEW r \in Request,
               CallAnswered(r) \/ CallRefused(r) \/ Unreachable(r)
        PROVE  TypeOK'
    BY <2>8 DEF CallAnswered, CallRefused, Unreachable
  <2>9. ASSUME NEW r \in Request, Finish(r)
        PROVE  TypeOK'
    BY <2>9 DEF Finish
  <2>10. CASE Renew
    BY <2>10 DEF Renew, Credential
  <2>11. ASSUME NEW k \in Token, Age(k)
         PROVE  TypeOK'
    BY <2>11 DEF Age, Buyer, Live, Margin, Expired
  <2>12. CASE MasterForgets
    BY <2>12 DEF MasterForgets, Buyer
  <2>13. CASE UNCHANGED vars
    BY <2>13 DEF vars
  <2>. QED
    BY <2>1, <2>2, <2>3, <2>4, <2>5, <2>6, <2>7, <2>8, <2>9, <2>10, <2>11,
       <2>12, <2>13 DEF Next, Thread
<1>. QED BY <1>1, <1>2, PTL DEF Spec

-----------------------------------------------------------------------------
(* BoughtWithOwnCredential is not inductive alone: where a thread is about *)
(* to use its token it has to hold one, so that a token issued meanwhile,  *)
(* which nobody holds, is another one.                                     *)
HoldsToken ==
  \A r \in Request : pc[r] \in {"check", "store", "call"} => token[r] \in Token

OwnCredential == BoughtWithOwnCredential /\ HoldsToken

(* A token issued to one thread disturbs no entry and no other thread: it  *)
(* is one that nobody held (netapi.py, _login).                            *)
LEMMA LoginKeepsCredential ==
  ASSUME TypeOK, OwnCredential, NEW r \in Request, LoginAccepted(r)
  PROVE  OwnCredential'
<1> USE TokenCacheAssumption
<1>1. PICK k \in Unheld :
        /\ bought' = [bought EXCEPT ![k] = cred[r]]
        /\ token' = [token EXCEPT ![r] = k]
        /\ pc' = [pc EXCEPT ![r] = "store"]
        /\ cache' = cache /\ cred' = cred
  BY DEF LoginAccepted, Goto
<1>2. k \in Token
  BY DEF Unheld
<1>3. ASSUME NEW p \in Process, NEW c \in Credential, cache'[p][c] # NoToken
      PROVE  bought'[cache'[p][c]] = c
  <2>1. cache[p][c] \in Token /\ cache[p][c] # k
    BY <1>1, <1>3 DEF Unheld, TypeOK
  <2>. QED BY <1>1, <1>2, <1>3, <2>1
       DEF OwnCredential, BoughtWithOwnCredential, TypeOK
<1>4. ASSUME NEW q \in Request, pc'[q] \in {"check", "store", "call"}
      PROVE  bought'[token'[q]] = cred'[q] /\ token'[q] \in Token
  <2>1. CASE q = r
    BY <1>1, <1>2, <2>1 DEF TypeOK
  <2>2. CASE q # r
    <3>1. pc[q] \in {"check", "store", "call"} /\ token'[q] = token[q]
      BY <1>1, <1>4, <2>2 DEF TypeOK
    <3>2. token[q] \in Token /\ bought[token[q]] = cred[q]
      BY <3>1 DEF OwnCredential, BoughtWithOwnCredential, HoldsToken
    <3>3. token[q] # k
      BY <1>1 DEF Unheld
    <3>. QED BY <1>1, <1>2, <3>1, <3>2, <3>3 DEF TypeOK
  <2>. QED BY <2>1, <2>2
<1>. QED BY <1>3, <1>4
     DEF OwnCredential, BoughtWithOwnCredential, HoldsToken

(* Storing an entry under the key of the credential it was bought with and *)
(* clearing spent ones leaves every entry under its own credential.        *)
LEMMA StoreKeepsCredential ==
  ASSUME TypeOK, OwnCredential, NEW r \in Request, Store(r)
  PROVE  OwnCredential'
<1> USE TokenCacheAssumption
<1>1. /\ bought' = bought /\ cred' = cred /\ token' = token
      /\ pc[r] = "store"
      /\ \A q \in Request : q # r => pc'[q] = pc[q]
  BY DEF Store, Goto, masterVars, TypeOK
<1>2. ASSUME NEW p \in Process, NEW c \in Credential, cache'[p][c] # NoToken
      PROVE  bought'[cache'[p][c]] = c
  <2>1. \/ cache'[p][c] = cache[p][c]
        \/ c = cred[r] /\ cache'[p][c] = token[r]
    BY <1>2 DEF Store, CacheKey, TypeOK
  <2>. QED BY <1>1, <1>2, <2>1
       DEF OwnCredential, BoughtWithOwnCredential, HoldsToken
<1>3. ASSUME NEW q \in Request, pc'[q] \in {"check", "store", "call"}
      PROVE  bought'[token'[q]] = cred'[q] /\ token'[q] \in Token
  <2>1. pc[q] \in {"check", "store", "call"}
    BY <1>1, <1>3
  <2>. QED BY <1>1, <2>1
       DEF OwnCredential, BoughtWithOwnCredential, HoldsToken
<1>. QED BY <1>2, <1>3
     DEF OwnCredential, BoughtWithOwnCredential, HoldsToken

(* The promise of the cache's comment in netapi.py, for every number of    *)
(* workers and threads: what is stored under a credential was bought with  *)
(* it, and a request carries no token bought with any other.               *)
THEOREM CredentialCorrect == Spec => []BoughtWithOwnCredential
<1> USE TokenCacheAssumption
<1>1. Init => OwnCredential
  BY DEF Init, OwnCredential, BoughtWithOwnCredential, HoldsToken
<1>2. ASSUME TypeOK, OwnCredential, [Next]_vars
      PROVE  OwnCredential'
  <2> USE <1>2 DEF Goto, End, masterVars, threadVars
  <2>1. ASSUME NEW r \in Request, NEW what \in {"call", "stream"},
               Begin(r, what)
        PROVE  OwnCredential'
    BY <2>1 DEF Begin, OwnCredential, BoughtWithOwnCredential, HoldsToken,
                TypeOK
  <2>2. ASSUME NEW r \in Request, Lookup(r)
        PROVE  OwnCredential'
    BY <2>2 DEF Lookup, CacheKey, OwnCredential, BoughtWithOwnCredential,
                HoldsToken, TypeOK
  <2>3. ASSUME NEW r \in Request,
               \/ Check(r) \/ LoginRefused(r) \/ CallAnswered(r)
               \/ CallRefused(r) \/ Unreachable(r)
        PROVE  OwnCredential'
    <3>1. UNCHANGED <<bought, cache, cred, token>>
      BY <2>3 DEF Check, LoginRefused, CallAnswered, CallRefused, Unreachable
    <3>2. \A q \in Request :
            pc'[q] \in {"check", "store", "call"} =>
              pc[q] \in {"check", "store", "call"}
      <4>1. CASE Check(r)
        BY <4>1 DEF Check, TypeOK
      <4>2. CASE LoginRefused(r)
        BY <4>2 DEF LoginRefused, TypeOK
      <4>3. CASE CallAnswered(r) \/ CallRefused(r) \/ Unreachable(r)
        BY <4>3 DEF CallAnswered, CallRefused, Unreachable, TypeOK
      <4>. QED BY <2>3, <4>1, <4>2, <4>3
    <3>. QED BY <3>1, <3>2
         DEF OwnCredential, BoughtWithOwnCredential, HoldsToken
  <2>9. ASSUME NEW r \in Request, Finish(r)
        PROVE  OwnCredential'
    BY <2>9 DEF Finish, OwnCredential, BoughtWithOwnCredential, HoldsToken,
                TypeOK
  <2>4. ASSUME NEW r \in Request, Forget(r)
        PROVE  OwnCredential'
    BY <2>4 DEF Forget, OwnCredential, BoughtWithOwnCredential, HoldsToken,
                TypeOK
  <2>5. ASSUME NEW r \in Request, LoginAccepted(r)
        PROVE  OwnCredential'
    BY <2>5, LoginKeepsCredential
  <2>6. ASSUME NEW r \in Request, Store(r)
        PROVE  OwnCredential'
    BY <2>6, StoreKeepsCredential
  <2>7. CASE Renew \/ MasterForgets \/ \E k \in Token : Age(k)
    BY <2>7 DEF Renew, MasterForgets, Age, OwnCredential,
                BoughtWithOwnCredential, HoldsToken
  <2>8. CASE UNCHANGED vars
    BY <2>8 DEF vars, OwnCredential, BoughtWithOwnCredential, HoldsToken
  <2>. QED
    BY <2>1, <2>2, <2>3, <2>4, <2>5, <2>6, <2>7, <2>8, <2>9 DEF Next, Thread
<1>3. OwnCredential => BoughtWithOwnCredential
  BY DEF OwnCredential
<1>. QED BY <1>1, <1>2, <1>3, TypeCorrect, PTL DEF Spec
-----------------------------------------------------------------------------
(* What a thread needs to have gone wrong before it may fail: a credential *)
(* that has moved on since it was read, or the loss of a token it has      *)
(* bought itself, has hurt it.                                             *)
Causes ==
  \A r \in Request :
    /\ pc[r] \in {"idle", "lookup", "check"} => first[r]
    /\ pc[r] # "idle" /\ cred[r] # credential => hurt[r]
    /\ pc[r] = "store" \/ (pc[r] = "call" /\ ~first[r]) =>
         token[r] \in honoured \/ hurt[r]
    /\ pc[r] = "done" /\ kind[r] = "call" /\ outcome[r] # "ok" => hurt[r]

(* A thread's own steps: every end but a good one has a cause.             *)
LEMMA ThreadKeepsCauses ==
  ASSUME TypeOK, Causes, NEW r \in Request,
         \/ \E what \in {"call", "stream"} : Begin(r, what)
         \/ Thread(r)
  PROVE  Causes'
<1> USE DEF Goto, End, masterVars
<1>1. /\ credential' = credential /\ honoured \subseteq honoured'
      /\ \A q \in Request : q # r =>
           /\ pc'[q] = pc[q] /\ first'[q] = first[q] /\ cred'[q] = cred[q]
           /\ token'[q] = token[q] /\ kind'[q] = kind[q]
           /\ outcome'[q] = outcome[q] /\ hurt'[q] = hurt[q]
  <2>1. CASE \/ \E what \in {"call", "stream"} : Begin(r, what)
             \/ Lookup(r) \/ Check(r) \/ Forget(r)
    BY <2>1 DEF Begin, Lookup, Check, Forget, TypeOK
  <2>2. CASE LoginAccepted(r) \/ LoginRefused(r) \/ Store(r)
    BY <2>2 DEF LoginAccepted, LoginRefused, Store, TypeOK
  <2>3. CASE CallAnswered(r) \/ CallRefused(r) \/ Unreachable(r) \/ Finish(r)
    BY <2>3 DEF CallAnswered, CallRefused, Unreachable, Finish, TypeOK
  <2> QED
    BY <2>1, <2>2, <2>3 DEF Thread
<1>2. /\ pc'[r] \in {"idle", "lookup", "check"} => first'[r]
      /\ pc'[r] # "idle" /\ cred'[r] # credential' => hurt'[r]
      /\ pc'[r] = "store" \/ (pc'[r] = "call" /\ ~first'[r]) =>
           token'[r] \in honoured' \/ hurt'[r]
      /\ pc'[r] = "done" /\ kind'[r] = "call" /\ outcome'[r] # "ok" => hurt'[r]
  <2>1. CASE \E what \in {"call", "stream"} : Begin(r, what)
    BY <2>1 DEF Begin, Causes, TypeOK
  <2>2. CASE Lookup(r) \/ Check(r) \/ Forget(r)
    BY <2>2 DEF Lookup, Check, Forget, Causes, TypeOK
  <2>3. CASE LoginAccepted(r)
    BY <2>3 DEF LoginAccepted, Causes, TypeOK
  <2>4. CASE LoginRefused(r)
    BY <2>4 DEF LoginRefused, Causes, TypeOK
  <2>5. CASE Store(r)
    BY <2>5 DEF Store, Causes, TypeOK
  <2>6. CASE CallAnswered(r)
    BY <2>6 DEF CallAnswered, Causes, TypeOK
  <2>7. CASE CallRefused(r)
    BY <2>7 DEF CallRefused, Causes, TypeOK
  <2>8. CASE Unreachable(r)
    BY <2>8 DEF Unreachable, Causes, TypeOK
  <2>9. CASE Finish(r)
    BY <2>9 DEF Finish, Causes, TypeOK
  <2> QED
    BY <2>1, <2>2, <2>3, <2>4, <2>5, <2>6, <2>7, <2>8, <2>9 DEF Thread
<1> QED
  BY <1>1, <1>2 DEF Causes

(* The end of a token's life hurts the threads that had just bought it.    *)
LEMMA AgeKeepsCauses ==
  ASSUME TypeOK, Causes, NEW k \in Token, Age(k)
  PROVE  Causes'
<1>1. /\ UNCHANGED <<credential, pc, kind, cred, token, first, outcome>>
      /\ honoured' = IF left[k] = Margin THEN honoured \ {k} ELSE honoured
      /\ hurt' = [r \in Request |->
                   hurt[r] \/ (Buyer(r) /\ token[r] = k /\ left[k] = Margin)]
  BY DEF Age
<1>2. ASSUME NEW r \in Request, pc[r] = "store" \/ (pc[r] = "call" /\ ~first[r])
      PROVE  token[r] \in honoured' \/ hurt'[r]
  BY <1>1, <1>2 DEF Causes, Buyer
<1>3. \A r \in Request : hurt[r] => hurt'[r]
  BY <1>1
<1> QED
  BY <1>1, <1>2, <1>3 DEF Causes

(* A request that fails has a reason that a retry could not have mended: a *)
(* renewal while it ran, an unreachable master, or the loss of a token it  *)
(* had just bought (_json_request, reauth), for any number of threads.     *)
THEOREM CauseCorrect == Spec => []ErrorHasCause
<1>1. Init => Causes
  BY DEF Init, Causes
<1>2. ASSUME TypeOK, Causes, [Next]_vars
      PROVE  Causes'
  <2>1. CASE \E r \in Request : \/ \E what \in {"call", "stream"} : Begin(r, what)
                                \/ Thread(r)
    BY <1>2, <2>1, ThreadKeepsCauses
  <2>2. CASE \E k \in Token : Age(k)
    BY <1>2, <2>2, AgeKeepsCauses
  <2>3. CASE Renew
    BY <1>2, <2>3 DEF Renew, Causes, TypeOK
  <2>4. CASE MasterForgets
    BY <1>2, <2>4 DEF MasterForgets, Buyer, Causes, TypeOK
  <2>5. CASE UNCHANGED vars
    BY <1>2, <2>5 DEF vars, masterVars, threadVars, Causes
  <2> QED
    BY <1>2, <2>1, <2>2, <2>3, <2>4, <2>5 DEF Next
<1>3. Causes => ErrorHasCause
  BY DEF Causes, ErrorHasCause
<1> QED
  BY <1>1, <1>2, <1>3, TypeCorrect, PTL DEF Spec
=============================================================================
