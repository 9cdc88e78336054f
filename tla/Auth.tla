-------------------------------- MODULE Auth --------------------------------
(***************************************************************************)
(* Login, refresh and logout: services/auth_service.py over the Redis keys *)
(* of core/security.py.  login_fail:{ip} counts the failures of an address *)
(* refresh_token:{jti} exists while a refresh token may be used, and       *)
(* user_tokens:{user} lists the tokens of a user for the day they all have *)
(* to be revoked.                                                          *)
(*                                                                         *)
(* Each call to Redis or to the database is a step of its own: the         *)
(* handlers await every one of them, and several workers run handlers.     *)
(* A pipeline is one step: redis-py sends it as MULTI/EXEC.                *)
(***************************************************************************)
EXTENDS Integers, FiniteSets

CONSTANTS
  Users, Ips,
  Requests,    \* slots for requests in flight at the same time
  Tokens,      \* jti values; their number bounds the tokens ever signed
  Correct,     \* whether a presented password is right: subset of BOOLEAN
  Crashes,     \* whether a handler may end between two awaits
  IpFailMax,   \* _IP_FAIL_MAX, 5 in the code
  NoRequest, NoToken

VARIABLES
  fails,       \* login_fail:{ip}, 0 when the key does not exist
  timed,       \* addresses whose login_fail key has a time to live
  live,        \* tokens whose refresh_token:{jti} exists
  family,      \* user_tokens:{user}
  active,      \* users with is_active
  req,         \* slot -> what a request in flight does next
  minted,      \* jti -> owner and, as history, the token it was rotated from
  handed,      \* tokens some client has received
  lapsed       \* tokens past their 7 days

redis  == <<fails, timed, live, family>>
vars   == <<redis, active, req, minted, handed, lapsed>>
tokens == <<live, family, minted, handed, lapsed>>

LoginRequest  == [at : {"account", "count", "expire", "clear"}, user : Users, ip : Ips]
TokenRequest  == [at : {"select", "drop"}, user : Users, token : Tokens]
StoreRequest  == [at : {"store"}, user : Users, token : Tokens \union {NoToken}]
AnswerRequest == [at : {"answer"}, user : Users, token : Tokens]
RevokeRequest == [at : {"members", "purge"}, user : Users, seen : SUBSET Tokens]
Request == LoginRequest \union TokenRequest \union StoreRequest
             \union AnswerRequest \union RevokeRequest

ASSUME BoundsAssumption ==
  IpFailMax \in Nat \ {0} /\ IsFiniteSet(Requests)
ASSUME ChoicesAssumption == Correct \subseteq BOOLEAN /\ Crashes \in BOOLEAN
ASSUME NullsAssumption == NoRequest \notin Request /\ NoToken \notin Tokens

Init ==
  /\ fails = [ip \in Ips |-> 0]
  /\ timed = {}
  /\ live = {}
  /\ family = [u \in Users |-> {}]
  /\ active = Users
  /\ req = [r \in Requests |-> NoRequest]
  /\ minted = [j \in {} |-> {}]
  /\ handed = {}
  /\ lapsed = {}

At(r, at) == req[r] # NoRequest /\ req[r].at = at
Go(r, q)  == req' = [req EXCEPT ![r] = q]
End(r)    == req' = [req EXCEPT ![r] = NoRequest]

-----------------------------------------------------------------------------
(* login                                                                   *)

LoginAt(at, u, ip) == [at |-> at, user |-> u, ip |-> ip]

\* Mutant: the limit is off by one.
CheckIpLoose(r, u, ip) ==
  /\ req[r] = NoRequest
  /\ fails[ip] <= IpFailMax
  /\ Go(r, LoginAt("account", u, ip))
  /\ UNCHANGED <<redis, active, minted, handed, lapsed>>

CheckIp(r, u, ip) ==
  /\ req[r] = NoRequest
  /\ fails[ip] < IpFailMax
  /\ Go(r, LoginAt("account", u, ip))
  /\ UNCHANGED <<redis, active, minted, handed, lapsed>>

Authenticate(r, right) ==
  /\ At(r, "account")
  /\ LET q == req[r]
     IN  Go(r, LoginAt(IF right /\ q.user \in active THEN "clear" ELSE "count", q.user, q.ip))
  /\ UNCHANGED <<redis, active, minted, handed, lapsed>>

CountFailure(r) ==
  /\ At(r, "count")
  /\ fails' = [fails EXCEPT ![req[r].ip] = @ + 1]
  /\ Go(r, LoginAt("expire", req[r].user, req[r].ip))
  /\ UNCHANGED <<timed, active, tokens>>

\* Mutant: only the first failure sets the time to live.
ExpireFirstFailure(r) ==
  /\ At(r, "expire")
  /\ timed' = IF fails[req[r].ip] = 1 THEN timed \union {req[r].ip} ELSE timed
  /\ End(r)
  /\ UNCHANGED <<fails, active, tokens>>

\* EXPIRE does nothing when a success has deleted the counter meanwhile.
ExpireFailures(r) ==
  /\ At(r, "expire")
  /\ timed' = IF fails[req[r].ip] > 0 THEN timed \union {req[r].ip} ELSE timed
  /\ End(r)
  /\ UNCHANGED <<fails, active, tokens>>

\* Mutant: a success takes one failure back.
ForgetOne(ip) ==
  /\ fails' = [fails EXCEPT ![ip] = @ - 1]
  /\ timed' = timed \ {ip}

Forget(ip) ==
  /\ fails' = [fails EXCEPT ![ip] = 0]
  /\ timed' = timed \ {ip}

ClearFailures(r) ==
  /\ At(r, "clear")
  /\ Forget(req[r].ip)
  /\ Go(r, [at |-> "store", user |-> req[r].user, token |-> NoToken])
  /\ UNCHANGED <<active, tokens>>

-----------------------------------------------------------------------------
(* Storing and returning a new token, for login and refresh.               *)

StoreToken(r, j) ==
  /\ At(r, "store")
  /\ j \notin DOMAIN minted
  /\ LET u == req[r].user
     IN  /\ minted' = [k \in DOMAIN minted \union {j} |->
                         IF k = j THEN [user |-> u, parent |-> req[r].token] ELSE minted[k]]
         /\ live' = live \union {j}
         /\ family' = [family EXCEPT ![u] = @ \union {j}]
         /\ Go(r, [at |-> "answer", user |-> u, token |-> j])
  /\ UNCHANGED <<fails, timed, active, handed, lapsed>>

\* The commit of the audit row of a login, then the response.
Deliver(r) ==
  /\ At(r, "answer")
  /\ handed' = handed \union {req[r].token}
  /\ End(r)
  /\ UNCHANGED <<redis, active, minted, lapsed>>

-----------------------------------------------------------------------------
(* refresh                                                                 *)

\* A token past its 7 days does not decode: 401 and nothing else.
VerifyToken(r, j) ==
  /\ req[r] = NoRequest
  /\ j \in handed \ lapsed
  /\ LET u == minted[j].user
     IN  Go(r, IF j \in live THEN [at |-> "select", user |-> u, token |-> j]
                             ELSE [at |-> "members", user |-> u, seen |-> {}])
  /\ UNCHANGED <<redis, active, minted, handed, lapsed>>

\* Mutant: refresh stores a new token and keeps the old one.
SelectUserKeepOld(r) ==
  /\ At(r, "select")
  /\ IF req[r].user \in active
       THEN Go(r, [at |-> "store", user |-> req[r].user, token |-> req[r].token])
       ELSE End(r)
  /\ UNCHANGED <<redis, active, minted, handed, lapsed>>

\* Mutant: a token in use gets a new time to live.
SelectUserRenewing(r) ==
  /\ At(r, "select")
  /\ live' = live \union {req[r].token}
  /\ IF req[r].user \in active
       THEN Go(r, [at |-> "drop", user |-> req[r].user, token |-> req[r].token])
       ELSE End(r)
  /\ UNCHANGED <<fails, timed, family, active, minted, handed, lapsed>>

SelectUser(r) ==
  /\ At(r, "select")
  /\ IF req[r].user \in active
       THEN Go(r, [at |-> "drop", user |-> req[r].user, token |-> req[r].token])
       ELSE End(r)
  /\ UNCHANGED <<redis, active, minted, handed, lapsed>>

\* Mutant: the token is taken off the list of its user only.
ForgottenListOnly(j) ==
  /\ live' = live
  /\ family' = [family EXCEPT ![minted[j].user] = @ \ {j}]

Forgotten(j) ==
  /\ live' = live \ {j}
  /\ family' = [family EXCEPT ![minted[j].user] = @ \ {j}]

DropOld(r) ==
  /\ At(r, "drop")
  /\ Forgotten(req[r].token)
  /\ Go(r, [at |-> "store", user |-> req[r].user, token |-> req[r].token])
  /\ UNCHANGED <<fails, timed, active, minted, handed, lapsed>>

\* revoke_all_user_tokens, SMEMBERS and then one pipeline.
ListTokens(r) ==
  /\ At(r, "members")
  /\ LET seen == family[req[r].user]
     IN  IF seen = {} THEN End(r)
                      ELSE Go(r, [at |-> "purge", user |-> req[r].user, seen |-> seen])
  /\ UNCHANGED <<redis, active, minted, handed, lapsed>>

PurgeTokens(r) ==
  /\ At(r, "purge")
  /\ live' = live \ req[r].seen
  /\ family' = [family EXCEPT ![req[r].user] = {}]
  /\ End(r)
  /\ UNCHANGED <<fails, timed, active, minted, handed, lapsed>>

-----------------------------------------------------------------------------
(* logout, and what happens outside the handlers.                          *)

\* With a token of another user, or one past its 7 days, nothing changes.
Logout(j) ==
  /\ j \in handed \ lapsed
  /\ Forgotten(j)
  /\ UNCHANGED <<fails, timed, active, req, minted, handed, lapsed>>

\* update_user, deactivate_user and delete_user do not touch Redis.
SetActive(u) ==
  /\ active' = IF u \in active THEN active \ {u} ELSE active \union {u}
  /\ UNCHANGED <<redis, req, minted, handed, lapsed>>

CounterLapses(ip) ==
  /\ ip \in timed
  /\ Forget(ip)
  /\ UNCHANGED <<active, req, tokens>>

TokenLapses(j) ==
  /\ j \in DOMAIN minted \ lapsed
  /\ lapsed' = lapsed \union {j}
  /\ live' = live \ {j}
  /\ UNCHANGED <<fails, timed, family, active, req, minted, handed>>

\* Every store renews user_tokens:{user}, so it outlives the tokens.
FamilyLapses(u) ==
  /\ family[u] # {}
  /\ \A j \in live : minted[j].user # u
  /\ family' = [family EXCEPT ![u] = {}]
  /\ UNCHANGED <<fails, timed, live, active, req, minted, handed, lapsed>>

Abort(r) ==
  /\ Crashes
  /\ req[r] # NoRequest
  /\ End(r)
  /\ UNCHANGED <<redis, active, minted, handed, lapsed>>

-----------------------------------------------------------------------------
Begin(r) ==
  \/ \E u \in Users, ip \in Ips : CheckIp(r, u, ip)
  \/ \E j \in Tokens : VerifyToken(r, j)

Continue(r) ==
  \/ \E right \in Correct : Authenticate(r, right)
  \/ CountFailure(r)
  \/ ExpireFailures(r)
  \/ ClearFailures(r)
  \/ \E j \in Tokens : StoreToken(r, j)
  \/ Deliver(r)
  \/ SelectUser(r)
  \/ DropOld(r)
  \/ ListTokens(r)
  \/ PurgeTokens(r)

Outside ==
  \/ \E j \in Tokens : Logout(j) \/ TokenLapses(j)
  \/ \E u \in Users : SetActive(u) \/ FamilyLapses(u)
  \/ \E ip \in Ips : CounterLapses(ip)

Next == Outside \/ \E r \in Requests : Begin(r) \/ Continue(r) \/ Abort(r)

Spec == Init /\ [][Next]_vars

\* A handler that runs goes on, and Redis expires a key that is due.
FairSpec ==
  /\ Spec
  /\ \A r \in Requests : WF_vars(Continue(r))
  /\ \A ip \in Ips : WF_vars(CounterLapses(ip))
-----------------------------------------------------------------------------
(* Properties.                                                             *)

\* Keys, requests and tokens have their shape; every token of the key space is
\* one that was signed, listed under its owner.
TypeOK ==
  /\ fails \in [Ips -> Nat]
  /\ timed \subseteq Ips
  /\ DOMAIN minted \subseteq Tokens
  /\ minted \in [DOMAIN minted -> [user : Users, parent : Tokens \union {NoToken}]]
  /\ live \subseteq DOMAIN minted
  /\ family \in [Users -> SUBSET DOMAIN minted]
  /\ \A u \in Users : \A j \in family[u] : minted[j].user = u
  /\ active \subseteq Users
  /\ req \in [Requests -> Request \union {NoRequest}]
  /\ handed \subseteq DOMAIN minted
  /\ lapsed \subseteq DOMAIN minted

\* The counter check is a GET and the count an INCR several awaits later, so
\* concurrent attempts pass the limit together; still the counter of an address
\* exceeds _IP_FAIL_MAX by less than the requests in flight, however failures,
\* successes and expiries interleave.
FailuresBounded ==
  \A ip \in Ips : fails[ip] < IpFailMax + Cardinality(Requests)

\* A token that was used, logged out, revoked or has expired never works again,
\* whatever a request that verified it earlier still does.
DeadStaysDead ==
  [][\A j \in DOMAIN minted : j \notin live => j \notin live']_vars

\* A token that was exchanged for a new one is dead before the new one exists,
\* also when the rotation is interrupted.
ExchangedTokensAreDead ==
  \A j \in DOMAIN minted : minted[j].parent # NoToken => minted[j].parent \notin live

Exchanges(j) == {k \in DOMAIN minted : minted[k].parent = j}

\* The EXISTS that verifies a refresh token and the DEL that exchanges it are
\* two calls with a SELECT in between, and nobody looks at the result of the
\* DEL: concurrent refreshes with one token all get a new one.  But no token is
\* ever exchanged more often than requests run at the same time, whatever ends,
\* expires, is logged out or revoked in between and however often it is sent
\* again: with one request at a time, once.
ExchangesBounded ==
  \A j \in Tokens : Cardinality(Exchanges(j)) <= Cardinality(Requests)

\* A blocked address is let in again: the counter of a blocked address lapses.
BlockLifts ==
  \A ip \in Ips : fails[ip] >= IpFailMax ~> fails[ip] < IpFailMax

(* A property of one request at a time, which concurrent requests break.   *)

\* core/security.py:105, "재사용 감지 시 해당 유저 전체 세션 강제 만료": when the
\* reuse of a dead token has been handled, no token of its user works.
ReuseEndsEverySession ==
  [][\A r \in Requests :
       (ListTokens(r) \/ PurgeTokens(r)) /\ req'[r] = NoRequest
         => \A j \in live' : minted[j].user # req[r].user]_vars
=============================================================================
