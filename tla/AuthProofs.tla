----------------------------- MODULE AuthProofs -----------------------------
(***************************************************************************)
(* Proofs about login, refresh and logout, for any number of requests in   *)
(* flight, users, addresses and tokens.                                    *)
(***************************************************************************)
EXTENDS Auth, FiniteSetTheorems, TLAPS

(***************************************************************************)
(* What a request in flight knows of its token: it exists and, once it is  *)
(* about to be exchanged, it is dead and nothing revives it.               *)
(***************************************************************************)
RequestOK(q, signed, usable) ==
  /\ q \in TokenRequest \union AnswerRequest =>
       q.token \in DOMAIN signed /\ signed[q.token].user = q.user
  /\ q \in StoreRequest =>
       q.token = NoToken \/ q.token \in DOMAIN signed \ usable
  /\ q \in RevokeRequest => q.seen \subseteq DOMAIN signed

RequestsOK == \A r \in Requests : RequestOK(req[r], minted, live)

ParentsOK ==
  \A j \in DOMAIN minted :
    minted[j].parent = NoToken \/ minted[j].parent \in DOMAIN minted \ live

IInv == TypeOK /\ RequestsOK /\ ParentsOK

\* The stage of a request tells its kind.
LEMMA Stages ==
  ASSUME NEW q \in Request \union {NoRequest}, q # NoRequest
  PROVE  /\ q.at \in {"account", "count", "expire", "clear"} => q \in LoginRequest
         /\ q.at \in {"select", "drop"} => q \in TokenRequest
         /\ q.at = "store" => q \in StoreRequest
         /\ q.at = "answer" => q \in AnswerRequest
         /\ q.at \in {"members", "purge"} => q \in RevokeRequest
BY DEF Request, LoginRequest, TokenRequest, StoreRequest, AnswerRequest, RevokeRequest

LEMMA InitIInv == Init => IInv
<1> SUFFICES ASSUME Init PROVE IInv
  OBVIOUS
<1>1. TypeOK
  BY DEF Init, TypeOK
<1>2. RequestsOK
  BY NullsAssumption DEF Init, RequestsOK, RequestOK, Request
<1> QED
  BY <1>1, <1>2 DEF IInv, Init, ParentsOK

\* A step that signs no token, revives none and leaves only requests that are
\* right keeps the invariant.
LEMMA NothingStoredIInv ==
  ASSUME IInv, UNCHANGED minted, live' \subseteq live,
         req' \in [Requests -> Request \union {NoRequest}],
         \A r \in Requests : req'[r] = req[r] \/ RequestOK(req'[r], minted, live'),
         fails' \in [Ips -> Nat], timed' \subseteq Ips, active' \subseteq Users,
         handed' \subseteq DOMAIN minted, lapsed' \subseteq DOMAIN minted,
         family' \in [Users -> SUBSET DOMAIN minted],
         \A u \in Users : family'[u] \subseteq family[u]
  PROVE  IInv'
<1>1. TypeOK'
  BY DEF IInv, TypeOK
<1>2. ASSUME NEW r \in Requests PROVE RequestOK(req'[r], minted, live')
  BY DEF IInv, RequestsOK, RequestOK
<1>3. RequestsOK'
  BY <1>2 DEF RequestsOK
<1> QED
  BY <1>1, <1>3 DEF IInv, ParentsOK

\* In particular a step that only moves one request on, or ends it.
LEMMA PutIInv ==
  ASSUME IInv, NEW r \in Requests, NEW q \in Request \union {NoRequest},
         RequestOK(q, minted, live), req' = [req EXCEPT ![r] = q],
         fails' \in [Ips -> Nat], timed' \subseteq Ips,
         UNCHANGED <<live, family, active, minted, lapsed>>,
         handed' \subseteq DOMAIN minted
  PROVE  IInv'
<1>1. /\ req' \in [Requests -> Request \union {NoRequest}]
      /\ \A r2 \in Requests : req'[r2] = req[r2] \/ RequestOK(req'[r2], minted, live')
  BY DEF IInv, TypeOK
<1>2. /\ live' \subseteq live /\ active' \subseteq Users /\ lapsed' \subseteq DOMAIN minted
      /\ family' \in [Users -> SUBSET DOMAIN minted]
      /\ \A u \in Users : family'[u] \subseteq family[u]
  BY DEF IInv, TypeOK
<1> QED
  BY <1>1, <1>2, NothingStoredIInv

LEMMA NoRequestOK == RequestOK(NoRequest, minted, live) /\ NoRequest \in Request \union {NoRequest}
BY NullsAssumption DEF RequestOK, Request

\* The steps of login up to the storing of a token.
LEMMA LoginIInv ==
  ASSUME IInv, NEW r \in Requests,
         \/ \E u \in Users, ip \in Ips : CheckIp(r, u, ip)
         \/ \E right \in Correct : Authenticate(r, right)
         \/ CountFailure(r)
         \/ ExpireFailures(r)
         \/ ClearFailures(r)
  PROVE  IInv'
<1> DEFINE q == req[r]
<1>1. q \in Request \union {NoRequest} /\ fails \in [Ips -> Nat] /\ timed \subseteq Ips
      /\ handed \subseteq DOMAIN minted
  BY DEF IInv, TypeOK
<1>2. ASSUME NEW at \in {"account", "count", "expire", "clear"}, NEW u \in Users, NEW ip \in Ips
      PROVE  /\ LoginAt(at, u, ip) \in Request \union {NoRequest}
             /\ RequestOK(LoginAt(at, u, ip), minted, live)
  BY DEF LoginAt, Request, LoginRequest, RequestOK, TokenRequest, AnswerRequest, StoreRequest,
         RevokeRequest
<1>3. ASSUME NEW u \in Users, NEW ip \in Ips, CheckIp(r, u, ip)
      PROVE  IInv'
  BY <1>1, <1>2, <1>3, PutIInv DEF CheckIp, Go, redis
<1>4. ASSUME q # NoRequest, q.at \in {"account", "count", "expire", "clear"}
      PROVE  q.user \in Users /\ q.ip \in Ips
  BY <1>1, <1>4, Stages DEF LoginRequest
<1>5. ASSUME NEW right \in Correct, Authenticate(r, right)
      PROVE  IInv'
  <2> DEFINE new == LoginAt(IF right /\ q.user \in active THEN "clear" ELSE "count", q.user, q.ip)
  <2>1. q.user \in Users /\ q.ip \in Ips
    BY <1>4, <1>5 DEF Authenticate, At
  <2>2. new \in Request \union {NoRequest} /\ RequestOK(new, minted, live)
    BY <2>1, <1>2
  <2>3. req' = [req EXCEPT ![r] = new] /\ UNCHANGED <<redis, active, minted, handed, lapsed>>
    BY <1>5 DEF Authenticate, Go
  <2> HIDE DEF new
  <2> QED
    BY <1>1, <2>2, <2>3, PutIInv DEF redis
<1>6. CASE CountFailure(r)
  <2>1. q.user \in Users /\ q.ip \in Ips
    BY <1>4, <1>6 DEF CountFailure, At
  <2>2. fails' \in [Ips -> Nat]
    BY <1>1, <1>6, <2>1 DEF CountFailure
  <2> QED
    BY <1>1, <1>2, <1>6, <2>1, <2>2, PutIInv DEF CountFailure, Go, tokens
<1>7. CASE ExpireFailures(r)
  <2>1. q.user \in Users /\ q.ip \in Ips
    BY <1>4, <1>7 DEF ExpireFailures, At
  <2> QED
    BY <1>1, <1>7, <2>1, PutIInv, NoRequestOK DEF ExpireFailures, End, tokens
<1>8. CASE ClearFailures(r)
  <2>1. q.user \in Users /\ q.ip \in Ips
    BY <1>4, <1>8 DEF ClearFailures, At
  <2> DEFINE new == [at |-> "store", user |-> q.user, token |-> NoToken]
  <2>2. new \in Request \union {NoRequest} /\ RequestOK(new, minted, live)
    BY <2>1 DEF Request, LoginRequest, RequestOK, TokenRequest, AnswerRequest, StoreRequest,
                RevokeRequest
  <2>3. fails' \in [Ips -> Nat] /\ timed' \subseteq Ips
    BY <1>1, <1>8, <2>1 DEF ClearFailures, Forget
  <2>4. req' = [req EXCEPT ![r] = new] /\ UNCHANGED <<active, tokens>>
    BY <1>8 DEF ClearFailures, Go
  <2> HIDE DEF new
  <2> QED
    BY <1>1, <2>2, <2>3, <2>4, PutIInv DEF tokens
<1> QED
  BY <1>3, <1>5, <1>6, <1>7, <1>8

\* The steps of refresh that store nothing, and the response.
LEMMA RefreshIInv ==
  ASSUME IInv, NEW r \in Requests,
         \/ \E j \in Tokens : VerifyToken(r, j)
         \/ SelectUser(r)
         \/ ListTokens(r)
         \/ Deliver(r)
         \/ Abort(r)
  PROVE  IInv'
<1> DEFINE q == req[r]
<1>1. /\ q \in Request \union {NoRequest} /\ fails \in [Ips -> Nat] /\ timed \subseteq Ips
      /\ handed \subseteq DOMAIN minted /\ DOMAIN minted \subseteq Tokens
      /\ minted \in [DOMAIN minted -> [user : Users, parent : Tokens \union {NoToken}]]
      /\ family \in [Users -> SUBSET DOMAIN minted]
      /\ RequestOK(q, minted, live)
  BY DEF IInv, TypeOK, RequestsOK
<1>2. ASSUME NEW at \in {"select", "drop"}, NEW j \in DOMAIN minted
      PROVE  LET new == [at |-> at, user |-> minted[j].user, token |-> j]
             IN  new \in Request \union {NoRequest} /\ RequestOK(new, minted, live)
  BY <1>1 DEF Request, LoginRequest, TokenRequest, AnswerRequest, StoreRequest,
              RevokeRequest, RequestOK
<1>3. ASSUME NEW at \in {"members", "purge"}, NEW u \in Users, NEW seen \in SUBSET DOMAIN minted
      PROVE  LET new == [at |-> at, user |-> u, seen |-> seen]
             IN  new \in Request \union {NoRequest} /\ RequestOK(new, minted, live)
  BY <1>1 DEF Request, LoginRequest, TokenRequest, AnswerRequest, StoreRequest,
              RevokeRequest, RequestOK
<1>4. ASSUME NEW j \in Tokens, VerifyToken(r, j)
      PROVE  IInv'
  <2>1. j \in DOMAIN minted /\ minted[j].user \in Users
    BY <1>1, <1>4 DEF VerifyToken
  <2>2. CASE j \in live
    BY <1>1, <1>2, <1>4, <2>1, <2>2, PutIInv DEF VerifyToken, Go, redis
  <2>3. CASE j \notin live
    BY <1>1, <1>3, <1>4, <2>1, <2>3, PutIInv DEF VerifyToken, Go, redis
  <2> QED
    BY <2>2, <2>3
<1>5. CASE SelectUser(r)
  <2>1. q \in TokenRequest /\ q.token \in DOMAIN minted /\ q.user = minted[q.token].user
    BY <1>1, <1>5, Stages DEF SelectUser, At, RequestOK
  <2>2. CASE q.user \in active
    BY <1>1, <1>2, <1>5, <2>1, <2>2, PutIInv DEF SelectUser, Go, redis
  <2>3. CASE q.user \notin active
    BY <1>1, <1>5, <2>3, PutIInv, NoRequestOK DEF SelectUser, End, redis
  <2> QED
    BY <2>2, <2>3
<1>6. CASE ListTokens(r)
  <2>1. q \in RevokeRequest /\ q.user \in Users /\ family[q.user] \in SUBSET DOMAIN minted
    BY <1>1, <1>6, Stages DEF ListTokens, At, RevokeRequest
  <2>2. CASE family[q.user] = {}
    BY <1>1, <1>6, <2>2, PutIInv, NoRequestOK DEF ListTokens, End, redis
  <2>3. CASE family[q.user] # {}
    BY <1>1, <1>3, <1>6, <2>1, <2>3, PutIInv DEF ListTokens, Go, redis
  <2> QED
    BY <2>2, <2>3
<1>7. CASE Deliver(r)
  <2>1. q.token \in DOMAIN minted
    BY <1>1, <1>7, Stages DEF Deliver, At, RequestOK
  <2> QED
    BY <1>1, <1>7, <2>1, PutIInv, NoRequestOK DEF Deliver, End, redis
<1>8. CASE Abort(r)
  BY <1>1, <1>8, PutIInv, NoRequestOK DEF Abort, End, redis
<1> QED
  BY <1>4, <1>5, <1>6, <1>7, <1>8

\* The steps that delete tokens in Redis.
LEMMA DeleteIInv ==
  ASSUME IInv, NEW r \in Requests, DropOld(r) \/ PurgeTokens(r)
  PROVE  IInv'
<1> DEFINE q == req[r]
<1>1. /\ q \in Request \union {NoRequest} /\ req \in [Requests -> Request \union {NoRequest}]
      /\ fails \in [Ips -> Nat] /\ timed \subseteq Ips /\ active \subseteq Users
      /\ handed \subseteq DOMAIN minted /\ DOMAIN minted \subseteq Tokens
      /\ lapsed \subseteq DOMAIN minted
      /\ family \in [Users -> SUBSET DOMAIN minted]
      /\ RequestOK(q, minted, live)
  BY DEF IInv, TypeOK, RequestsOK
<1>2. CASE DropOld(r)
  <2> DEFINE new == [at |-> "store", user |-> q.user, token |-> q.token]
  <2>1. q \in TokenRequest /\ q.token \in DOMAIN minted /\ q.user \in Users
    BY <1>1, <1>2, Stages DEF DropOld, At, RequestOK, TokenRequest
  <2>2. live' = live \ {q.token} /\ req' = [req EXCEPT ![r] = new]
        /\ family' = [family EXCEPT ![minted[q.token].user] = @ \ {q.token}]
        /\ UNCHANGED <<fails, timed, active, minted, handed, lapsed>>
    BY <1>2 DEF DropOld, Forgotten, Go
  <2>3. new \in Request /\ RequestOK(new, minted, live')
    BY <1>1, <2>1, <2>2 DEF Request, LoginRequest, TokenRequest, AnswerRequest, StoreRequest,
                            RevokeRequest, RequestOK
  <2> HIDE DEF new
  <2>4. /\ family' \in [Users -> SUBSET DOMAIN minted]
        /\ \A u \in Users : family'[u] \subseteq family[u]
    BY <1>1, <2>2
  <2>5. /\ req' \in [Requests -> Request \union {NoRequest}]
        /\ \A r2 \in Requests : req'[r2] = req[r2] \/ RequestOK(req'[r2], minted, live')
    BY <1>1, <2>2, <2>3
  <2> QED
    BY <1>1, <2>2, <2>4, <2>5, NothingStoredIInv
<1>3. CASE PurgeTokens(r)
  <2>1. /\ live' = live \ q.seen /\ req' = [req EXCEPT ![r] = NoRequest]
        /\ family' = [family EXCEPT ![q.user] = {}]
        /\ UNCHANGED <<fails, timed, active, minted, handed, lapsed>>
    BY <1>3 DEF PurgeTokens, End
  <2>2. /\ family' \in [Users -> SUBSET DOMAIN minted]
        /\ \A u \in Users : family'[u] \subseteq family[u]
    BY <1>1, <2>1
  <2>3. RequestOK(NoRequest, minted, live')
    BY NullsAssumption DEF RequestOK, Request
  <2>4. /\ req' \in [Requests -> Request \union {NoRequest}]
        /\ \A r2 \in Requests : req'[r2] = req[r2] \/ RequestOK(req'[r2], minted, live')
    BY <1>1, <2>1, <2>3
  <2> QED
    BY <1>1, <2>1, <2>2, <2>4, NothingStoredIInv
<1> QED
  BY <1>2, <1>3

\* Logout, the users and the clock.
LEMMA OutsideIInv ==
  ASSUME IInv, Outside
  PROVE  IInv'
<1>1. /\ req \in [Requests -> Request \union {NoRequest}]
      /\ fails \in [Ips -> Nat] /\ timed \subseteq Ips /\ active \subseteq Users
      /\ handed \subseteq DOMAIN minted /\ lapsed \subseteq DOMAIN minted
      /\ family \in [Users -> SUBSET DOMAIN minted]
  BY DEF IInv, TypeOK
<1>2. ASSUME NEW j \in Tokens, Logout(j) PROVE IInv'
  <2>1. /\ family' \in [Users -> SUBSET DOMAIN minted]
        /\ \A u \in Users : family'[u] \subseteq family[u]
    BY <1>1, <1>2 DEF Logout, Forgotten
  <2> QED
    BY <1>1, <1>2, <2>1, NothingStoredIInv DEF Logout, Forgotten
<1>3. ASSUME NEW j \in Tokens, TokenLapses(j) PROVE IInv'
  BY <1>1, <1>3, NothingStoredIInv DEF TokenLapses
<1>4. ASSUME NEW u \in Users, SetActive(u) PROVE IInv'
  BY <1>1, <1>4, NothingStoredIInv DEF SetActive, redis
<1>5. ASSUME NEW u \in Users, FamilyLapses(u) PROVE IInv'
  <2>1. /\ family' \in [Users -> SUBSET DOMAIN minted]
        /\ \A u2 \in Users : family'[u2] \subseteq family[u2]
    BY <1>1, <1>5 DEF FamilyLapses
  <2> QED
    BY <1>1, <1>5, <2>1, NothingStoredIInv DEF FamilyLapses
<1>6. ASSUME NEW ip \in Ips, CounterLapses(ip) PROVE IInv'
  <2>1. fails' \in [Ips -> Nat] /\ timed' \subseteq Ips
    BY <1>1, <1>6 DEF CounterLapses, Forget
  <2> QED
    BY <1>1, <1>6, <2>1, NothingStoredIInv DEF CounterLapses, tokens
<1> QED
  BY <1>2, <1>3, <1>4, <1>5, <1>6 DEF Outside

\* The one step that signs a token: it is new, so no parent and no token about
\* to be exchanged is revived.
LEMMA StoreIInv ==
  ASSUME IInv, NEW r \in Requests, NEW j \in Tokens, StoreToken(r, j)
  PROVE  IInv'
<1> DEFINE q == req[r]
           new == [at |-> "answer", user |-> q.user, token |-> j]
<1>1. /\ q \in Request \union {NoRequest} /\ req \in [Requests -> Request \union {NoRequest}]
      /\ DOMAIN minted \subseteq Tokens
      /\ minted \in [DOMAIN minted -> [user : Users, parent : Tokens \union {NoToken}]]
      /\ live \subseteq DOMAIN minted
      /\ family \in [Users -> SUBSET DOMAIN minted]
      /\ RequestsOK /\ RequestOK(q, minted, live)
  BY DEF IInv, TypeOK, RequestsOK
<1>2. /\ q \in StoreRequest /\ q.user \in Users /\ j \notin DOMAIN minted
      /\ q.token = NoToken \/ q.token \in DOMAIN minted \ live
  BY <1>1, Stages DEF StoreToken, At, StoreRequest, RequestOK
<1>3. /\ DOMAIN minted' = DOMAIN minted \union {j}
      /\ minted'[j] = [user |-> q.user, parent |-> q.token]
      /\ \A k \in DOMAIN minted : minted'[k] = minted[k]
      /\ minted' \in [DOMAIN minted' -> [user : Users, parent : Tokens \union {NoToken}]]
  BY <1>1, <1>2 DEF StoreToken, StoreRequest
<1>4. /\ live' = live \union {j}
      /\ family' = [family EXCEPT ![q.user] = @ \union {j}]
      /\ req' = [req EXCEPT ![r] = new]
      /\ UNCHANGED <<fails, timed, active, handed, lapsed>>
  BY DEF StoreToken, Go
<1>5. new \in Request /\ RequestOK(new, minted', live')
  BY <1>2, <1>3 DEF Request, LoginRequest, TokenRequest, AnswerRequest, StoreRequest,
                    RevokeRequest, RequestOK
<1> HIDE DEF new
<1>6. TypeOK'
  <2>1. /\ family' \in [Users -> SUBSET DOMAIN minted']
        /\ \A u \in Users : \A k \in family'[u] : minted'[k].user = u
    BY <1>1, <1>2, <1>3, <1>4 DEF IInv, TypeOK
  <2>2. req' \in [Requests -> Request \union {NoRequest}]
    BY <1>1, <1>4, <1>5
  <2> QED
    BY <1>1, <1>3, <1>4, <2>1, <2>2 DEF IInv, TypeOK
<1>7. ASSUME NEW r2 \in Requests PROVE RequestOK(req'[r2], minted', live')
  <2>1. CASE r2 = r
    BY <1>1, <1>4, <1>5, <2>1
  <2>2. CASE r2 # r
    <3>1. req'[r2] = req[r2] /\ RequestOK(req[r2], minted, live)
      BY <1>1, <1>4, <2>2 DEF RequestsOK
    <3> QED
      BY <1>2, <1>3, <1>4, <3>1 DEF RequestOK
  <2> QED
    BY <2>1, <2>2
<1>8. RequestsOK'
  BY <1>7 DEF RequestsOK
<1>9. ParentsOK'
  BY <1>2, <1>3, <1>4 DEF IInv, ParentsOK
<1> QED
  BY <1>6, <1>8, <1>9 DEF IInv

LEMMA NextIInv == IInv /\ [Next]_vars => IInv'
<1> SUFFICES ASSUME IInv, [Next]_vars PROVE IInv'
  OBVIOUS
<1>1. CASE Outside
  BY <1>1, OutsideIInv
<1>2. ASSUME NEW r \in Requests, Begin(r) \/ Continue(r) \/ Abort(r)
      PROVE  IInv'
  BY <1>2, LoginIInv, RefreshIInv, DeleteIInv, StoreIInv DEF Begin, Continue
<1>3. CASE UNCHANGED vars
  BY <1>3 DEF vars, redis, IInv, TypeOK, RequestsOK, ParentsOK
<1> QED
  BY <1>1, <1>2, <1>3 DEF Next

THEOREM Invariance == Spec => []IInv
BY InitIInv, NextIInv, PTL DEF Spec

\* Keys, requests and tokens keep their shape, and every token is listed under
\* its owner only.
THEOREM TypeCorrect == Spec => []TypeOK
BY Invariance, PTL DEF IInv

\* The old token of an exchange is dead before the new one exists.
THEOREM ExchangeKills == Spec => []ExchangedTokensAreDead
<1>1. IInv => ExchangedTokensAreDead
  BY DEF IInv, ParentsOK, ExchangedTokensAreDead
<1> QED
  BY <1>1, Invariance, PTL

\* No step revives a token, for any number of requests in flight.
THEOREM NothingComesBack == Spec => DeadStaysDead
<1>1. ASSUME IInv, Next
      PROVE  \A j \in DOMAIN minted : j \notin live => j \notin live'
  <2>1. ASSUME NEW r \in Requests, NEW j \in Tokens, StoreToken(r, j)
        PROVE  \A k \in DOMAIN minted : k \notin live => k \notin live'
    BY <2>1 DEF StoreToken
  <2>2. CASE live' \subseteq live
    BY <2>2
  <2>3. ASSUME Outside PROVE live' \subseteq live
    BY <2>3 DEF Outside, Logout, Forgotten, TokenLapses, SetActive, FamilyLapses, CounterLapses,
                redis, tokens
  <2>4. ASSUME NEW r \in Requests, Begin(r) \/ Abort(r) PROVE live' \subseteq live
    BY <2>4 DEF Begin, CheckIp, VerifyToken, Abort, redis
  <2>5. ASSUME NEW r \in Requests, Continue(r), \A j \in Tokens : ~StoreToken(r, j)
        PROVE  live' \subseteq live
    BY <2>5 DEF Continue, Authenticate, CountFailure, ExpireFailures, ClearFailures, Deliver,
                SelectUser, DropOld, Forgotten, ListTokens, PurgeTokens, redis, tokens
  <2> QED
    BY <1>1, <2>1, <2>2, <2>3, <2>4, <2>5 DEF Next
<1>2. ASSUME IInv, [Next]_vars
      PROVE  [\A j \in DOMAIN minted : j \notin live => j \notin live']_vars
  BY <1>1, <1>2
<1> QED
  BY <1>2, Invariance, PTL DEF Spec, DeadStaysDead

-----------------------------------------------------------------------------
(***************************************************************************)
(* The counter of failures.  Attempts that passed the check and are not    *)
(* counted yet are at most the requests in flight.                         *)
(***************************************************************************)
Pending(ip) ==
  {r \in Requests : (At(r, "account") \/ At(r, "count")) /\ req[r].ip = ip}

CountInv ==
  \A ip \in Ips : fails[ip] + Cardinality(Pending(ip)) < IpFailMax + Cardinality(Requests)

LEMMA PendingSize ==
  ASSUME NEW ip
  PROVE  /\ IsFiniteSet(Pending(ip)) /\ Cardinality(Pending(ip)) \in Nat
         /\ Cardinality(Requests) \in Nat
         /\ Cardinality(Pending(ip)) <= Cardinality(Requests)
BY BoundsAssumption, FS_Subset, FS_CardinalityType DEF Pending

\* No new attempt of this address and no new failure.
LEMMA CountShrinks ==
  ASSUME IInv, CountInv, NEW ip \in Ips,
         fails'[ip] \in Nat, fails'[ip] <= fails[ip], Pending(ip)' \subseteq Pending(ip)
  PROVE  fails'[ip] + Cardinality(Pending(ip)') < IpFailMax + Cardinality(Requests)
<1>1. /\ IsFiniteSet(Pending(ip)) /\ Cardinality(Pending(ip)) \in Nat
      /\ Cardinality(Requests) \in Nat
  BY PendingSize
<1>2. Cardinality(Pending(ip)') \in Nat /\ Cardinality(Pending(ip)') <= Cardinality(Pending(ip))
  BY <1>1, FS_Subset, FS_CardinalityType
<1>3. fails[ip] \in Nat /\ fails[ip] + Cardinality(Pending(ip)) < IpFailMax + Cardinality(Requests)
  BY DEF IInv, TypeOK, CountInv
<1> QED
  BY <1>1, <1>2, <1>3, BoundsAssumption

\* The attempt of one request leaves the pending ones, or stays there.
LEMMA PendingShrinks ==
  ASSUME IInv, NEW r \in Requests, NEW q, req' = [req EXCEPT ![r] = q],
         \/ q = NoRequest
         \/ q.at \notin {"account", "count"}
         \/ (At(r, "account") \/ At(r, "count")) /\ q.ip = req[r].ip
  PROVE  \A ip \in Ips : Pending(ip)' \subseteq Pending(ip)
<1>1. \A r2 \in Requests : req'[r2] = IF r2 = r THEN q ELSE req[r2]
  BY DEF IInv, TypeOK
<1> QED
  BY <1>1 DEF Pending, At

\* No address counts _IP_FAIL_MAX failures and as many more as requests run at
\* the same time, for any limit and any number of requests.
THEOREM FailuresAreBounded == Spec => []FailuresBounded
<1>1. Init => CountInv
  <2> SUFFICES ASSUME Init PROVE CountInv
    OBVIOUS
  <2>1. \A ip \in Ips : fails[ip] = 0 /\ Pending(ip) = {}
    BY DEF Init, Pending, At
  <2>2. \A ip \in Ips : Cardinality(Pending(ip)) = 0
    BY <2>1, FS_EmptySet
  <2>3. Cardinality(Requests) \in Nat
    BY BoundsAssumption, FS_CardinalityType
  <2> QED
    BY <2>1, <2>2, <2>3, BoundsAssumption DEF CountInv
<1>2. ASSUME IInv, CountInv, [Next]_vars PROVE CountInv'
  <2>1. /\ fails \in [Ips -> Nat] /\ req \in [Requests -> Request \union {NoRequest}]
    BY <1>2 DEF IInv, TypeOK
  <2>2. ASSUME \A ip \in Ips : /\ fails'[ip] \in Nat /\ fails'[ip] <= fails[ip]
                               /\ Pending(ip)' \subseteq Pending(ip)
        PROVE  CountInv'
    BY <1>2, <2>2, CountShrinks DEF CountInv
  <2>0. ASSUME UNCHANGED fails, \A ip \in Ips : Pending(ip)' \subseteq Pending(ip)
        PROVE  CountInv'
    <3>1. \A ip \in Ips : fails'[ip] \in Nat /\ fails'[ip] <= fails[ip]
      BY <2>0, <2>1
    <3> QED
      BY <2>0, <2>2, <3>1
  <2>3. CASE UNCHANGED vars
    BY <2>0, <2>3 DEF vars, redis, Pending, At
  <2>4. CASE Outside
    <3>1. /\ \A ip \in Ips : fails'[ip] \in Nat /\ fails'[ip] <= fails[ip]
          /\ UNCHANGED req
      BY <2>1, <2>4 DEF Outside, Logout, TokenLapses, SetActive, FamilyLapses, CounterLapses,
                        Forget, redis, tokens
    <3> QED
      BY <2>2, <3>1 DEF Pending, At
  <2>5. ASSUME NEW r \in Requests, NEW u \in Users, NEW a \in Ips, CheckIp(r, u, a)
        PROVE  CountInv'
    <3> SUFFICES ASSUME NEW ip \in Ips
                 PROVE  fails'[ip] + Cardinality(Pending(ip)') < IpFailMax + Cardinality(Requests)
      BY DEF CountInv
    <3>1. CASE ip = a
      <4>1. fails'[ip] < IpFailMax /\ fails'[ip] \in Nat
        BY <2>1, <2>5, <3>1 DEF CheckIp, redis
      <4>2. /\ Cardinality(Pending(ip)') \in Nat /\ Cardinality(Requests) \in Nat
            /\ Cardinality(Pending(ip)') <= Cardinality(Requests)
        BY BoundsAssumption, FS_Subset, FS_CardinalityType DEF Pending
      <4> QED
        BY <4>1, <4>2, BoundsAssumption
    <3>2. CASE ip # a
      <4>1. fails'[ip] = fails[ip] /\ fails[ip] \in Nat
        BY <2>1, <2>5 DEF CheckIp, redis
      <4>2. Pending(ip)' \subseteq Pending(ip)
        BY <2>1, <2>5, <3>2 DEF CheckIp, Go, LoginAt, Pending, At
      <4> QED
        BY <1>2, <4>1, <4>2, CountShrinks
    <3> QED
      BY <3>1, <3>2
  <2>6. ASSUME NEW r \in Requests, CountFailure(r)
        PROVE  CountInv'
    <3> DEFINE q == req[r]
               new == LoginAt("expire", q.user, q.ip)
    <3>1. /\ At(r, "count") /\ q \in LoginRequest /\ q.ip \in Ips
          /\ fails' = [fails EXCEPT ![q.ip] = @ + 1]
          /\ req' = [req EXCEPT ![r] = new]
      BY <2>1, <2>6, Stages DEF CountFailure, Go, At, LoginRequest
    <3>2. new.at = "expire"
      BY DEF LoginAt
    <3> HIDE DEF new
    <3>3. \A ip \in Ips : Pending(ip)' \subseteq Pending(ip)
      BY <1>2, <3>1, <3>2, PendingShrinks
    <3> SUFFICES ASSUME NEW ip \in Ips
                 PROVE  fails'[ip] + Cardinality(Pending(ip)') < IpFailMax + Cardinality(Requests)
      BY DEF CountInv
    <3>4. CASE ip # q.ip
      BY <1>2, <2>1, <3>1, <3>3, <3>4, CountShrinks
    <3>5. CASE ip = q.ip
      <4>1. r \in Pending(ip) /\ r \notin Pending(ip)'
        BY <2>1, <3>1, <3>2, <3>5 DEF Pending, At
      <4>2. Pending(ip)' \subseteq Pending(ip) \ {r}
        BY <3>3, <4>1
      <4>3. /\ IsFiniteSet(Pending(ip)) /\ Cardinality(Pending(ip)) \in Nat
            /\ Cardinality(Requests) \in Nat
        BY PendingSize
      <4>4. /\ Cardinality(Pending(ip)') \in Nat
            /\ Cardinality(Pending(ip)') <= Cardinality(Pending(ip)) - 1
        BY <4>1, <4>2, <4>3, FS_RemoveElement, FS_Subset, FS_CardinalityType
      <4>5. fails'[ip] = fails[ip] + 1 /\ fails[ip] \in Nat
        BY <2>1, <3>1, <3>5
      <4> QED
        BY <1>2, <4>3, <4>4, <4>5, BoundsAssumption DEF CountInv
    <3> QED
      BY <3>4, <3>5
  <2>7. ASSUME NEW r \in Requests, NEW j \in Tokens, VerifyToken(r, j) PROVE CountInv'
    <3> DEFINE new == IF j \in live
                       THEN [at |-> "select", user |-> minted[j].user, token |-> j]
                       ELSE [at |-> "members", user |-> minted[j].user, seen |-> {}]
    <3>1. req' = [req EXCEPT ![r] = new] /\ UNCHANGED fails
      BY <2>7 DEF VerifyToken, Go, redis
    <3>2. new.at \notin {"account", "count"}
      OBVIOUS
    <3> HIDE DEF new
    <3> QED
      BY <1>2, <2>0, <3>1, <3>2, PendingShrinks
  <2>8. ASSUME NEW r \in Requests, NEW right \in Correct, Authenticate(r, right) PROVE CountInv'
    <3> DEFINE new == LoginAt(IF right /\ req[r].user \in active THEN "clear" ELSE "count",
                              req[r].user, req[r].ip)
    <3>1. req' = [req EXCEPT ![r] = new] /\ UNCHANGED fails /\ At(r, "account")
      BY <2>8 DEF Authenticate, Go, redis
    <3>2. new.ip = req[r].ip
      BY DEF LoginAt
    <3> HIDE DEF new
    <3> QED
      BY <1>2, <2>0, <3>1, <3>2, PendingShrinks
  <2>9. ASSUME NEW r \in Requests,
               \/ ExpireFailures(r) \/ Deliver(r) \/ PurgeTokens(r) \/ Abort(r)
        PROVE  CountInv'
    <3>1. req' = [req EXCEPT ![r] = NoRequest] /\ UNCHANGED fails
      BY <2>9 DEF ExpireFailures, Deliver, PurgeTokens, Abort, End, redis
    <3> QED
      BY <1>2, <2>0, <3>1, PendingShrinks
  <2>10. ASSUME NEW r \in Requests, ClearFailures(r) PROVE CountInv'
    <3> DEFINE new == [at |-> "store", user |-> req[r].user, token |-> NoToken]
    <3>1. /\ req' = [req EXCEPT ![r] = new]
          /\ \A ip \in Ips : fails'[ip] \in Nat /\ fails'[ip] <= fails[ip]
      BY <2>1, <2>10 DEF ClearFailures, Forget, Go
    <3>2. new.at \notin {"account", "count"}
      OBVIOUS
    <3> HIDE DEF new
    <3> QED
      BY <1>2, <2>2, <3>1, <3>2, PendingShrinks
  <2>11. ASSUME NEW r \in Requests, NEW j \in Tokens, StoreToken(r, j) PROVE CountInv'
    <3> DEFINE new == [at |-> "answer", user |-> req[r].user, token |-> j]
    <3>1. req' = [req EXCEPT ![r] = new] /\ UNCHANGED fails
      BY <2>11 DEF StoreToken, Go
    <3>2. new.at \notin {"account", "count"}
      OBVIOUS
    <3> HIDE DEF new
    <3> QED
      BY <1>2, <2>0, <3>1, <3>2, PendingShrinks
  <2>12. ASSUME NEW r \in Requests, SelectUser(r) \/ DropOld(r) \/ ListTokens(r) PROVE CountInv'
    <3>1. PICK new : /\ req' = [req EXCEPT ![r] = new] /\ UNCHANGED fails
                     /\ new = NoRequest \/ new.at \notin {"account", "count"}
      BY <2>12 DEF SelectUser, DropOld, ListTokens, Go, End, redis
    <3> QED
      BY <1>2, <2>0, <3>1, PendingShrinks
  <2> QED
    BY <1>2, <2>3, <2>4, <2>5, <2>6, <2>7, <2>8, <2>9, <2>10, <2>11, <2>12
    DEF Next, Begin, Continue
<1>3. IInv /\ CountInv => FailuresBounded
  <2> SUFFICES ASSUME IInv, CountInv, NEW ip \in Ips
               PROVE  fails[ip] < IpFailMax + Cardinality(Requests)
    BY DEF FailuresBounded
  <2>1. fails[ip] \in Nat /\ Cardinality(Pending(ip)) \in Nat /\ Cardinality(Requests) \in Nat
    BY PendingSize DEF IInv, TypeOK
  <2> QED
    BY <2>1, BoundsAssumption DEF CountInv
<1> QED
  BY <1>1, <1>2, <1>3, Invariance, PTL DEF Spec

-----------------------------------------------------------------------------
(***************************************************************************)
(* The exchanges of a token.  Requests that verified it and have not       *)
(* stored its successor yet are at most the requests in flight, and once   *)
(* one of them has deleted it nobody verifies it again.                    *)
(***************************************************************************)
Holding(j) ==
  {r \in Requests : (At(r, "select") \/ At(r, "drop") \/ At(r, "store")) /\ req[r].token = j}

ExchangeInv ==
  \A j \in Tokens :
    /\ IsFiniteSet(Exchanges(j))
    /\ Cardinality(Exchanges(j)) + Cardinality(Holding(j)) <= Cardinality(Requests)

\* With no new exchange and no new holder the sum does not grow.
LEMMA HoldingShrinks ==
  ASSUME IInv, ExchangeInv, NEW j \in Tokens,
         Exchanges(j)' = Exchanges(j), Holding(j)' \subseteq Holding(j)
  PROVE  /\ IsFiniteSet(Exchanges(j)')
         /\ Cardinality(Exchanges(j)') + Cardinality(Holding(j)') <= Cardinality(Requests)
<1>1. IsFiniteSet(Holding(j)) /\ Cardinality(Holding(j)) \in Nat /\ Cardinality(Requests) \in Nat
  BY BoundsAssumption, FS_Subset, FS_CardinalityType DEF Holding
<1>2. Cardinality(Holding(j)') \in Nat /\ Cardinality(Holding(j)') <= Cardinality(Holding(j))
  BY <1>1, FS_Subset, FS_CardinalityType
<1>3. IsFiniteSet(Exchanges(j)) /\ Cardinality(Exchanges(j)) \in Nat
  BY FS_CardinalityType DEF ExchangeInv
<1>4. Cardinality(Exchanges(j)) + Cardinality(Holding(j)) <= Cardinality(Requests)
  BY DEF ExchangeInv
<1>5. IsFiniteSet(Exchanges(j)') /\ Cardinality(Exchanges(j)') = Cardinality(Exchanges(j))
  BY <1>3
<1> QED
  BY <1>1, <1>2, <1>3, <1>4, <1>5

\* A request leaves the holders of a token, or goes on holding the same one.
LEMMA HoldersShrink ==
  ASSUME IInv, ExchangeInv, NEW r \in Requests, NEW q, req' = [req EXCEPT ![r] = q],
         UNCHANGED minted,
         \/ q = NoRequest
         \/ q.at \notin {"select", "drop", "store"}
         \/ q.token = NoToken
         \/ (At(r, "select") \/ At(r, "drop") \/ At(r, "store")) /\ q.token = req[r].token
  PROVE  ExchangeInv'
<1>1. \A r2 \in Requests : req'[r2] = IF r2 = r THEN q ELSE req[r2]
  BY DEF IInv, TypeOK
<1>2. \A j \in Tokens : Holding(j)' \subseteq Holding(j)
  BY <1>1, NullsAssumption DEF Holding, At
<1>3. \A j \in Tokens : Exchanges(j)' = Exchanges(j)
  BY DEF Exchanges
<1> QED
  BY <1>2, <1>3, HoldingShrinks DEF ExchangeInv

\* A token is exchanged at most as often as requests run at the same time, for
\* any number of requests, also when handlers end between two awaits.
THEOREM ExchangesAreBounded == Spec => []ExchangesBounded
<1>1. Init => ExchangeInv
  <2> SUFFICES ASSUME Init PROVE ExchangeInv
    OBVIOUS
  <2>1. \A j \in Tokens : Exchanges(j) = {} /\ Holding(j) = {}
    BY DEF Init, Exchanges, Holding, At
  <2>2. \A j \in Tokens : /\ IsFiniteSet(Exchanges(j)) /\ Cardinality(Exchanges(j)) = 0
                          /\ Cardinality(Holding(j)) = 0
    BY <2>1, FS_EmptySet
  <2>3. Cardinality(Requests) \in Nat
    BY BoundsAssumption, FS_CardinalityType
  <2> QED
    BY <2>2, <2>3 DEF ExchangeInv
<1>2. ASSUME IInv, ExchangeInv, [Next]_vars PROVE ExchangeInv'
  <2>1. /\ req \in [Requests -> Request \union {NoRequest}]
        /\ DOMAIN minted \subseteq Tokens /\ ParentsOK
    BY <1>2 DEF IInv, TypeOK
  <2>2. ASSUME UNCHANGED <<req, minted>> PROVE ExchangeInv'
    <3>1. \A j \in Tokens : Exchanges(j)' = Exchanges(j) /\ Holding(j)' = Holding(j)
      BY <2>2 DEF Exchanges, Holding, At
    <3> QED
      BY <1>2, <3>1, HoldingShrinks DEF ExchangeInv
  <2>3. CASE UNCHANGED vars
    BY <2>2, <2>3 DEF vars
  <2>4. CASE Outside
    BY <2>2, <2>4 DEF Outside, Logout, TokenLapses, SetActive, FamilyLapses, CounterLapses, tokens
  <2>5. ASSUME NEW r \in Requests, NEW u \in Users, NEW a \in Ips, CheckIp(r, u, a)
        PROVE  ExchangeInv'
    <3> DEFINE new == LoginAt("account", u, a)
    <3>1. req' = [req EXCEPT ![r] = new] /\ UNCHANGED minted /\ new.at = "account"
      BY <2>5 DEF CheckIp, Go, LoginAt
    <3> HIDE DEF new
    <3> QED
      BY <1>2, <3>1, HoldersShrink
  <2>6. ASSUME NEW r \in Requests, NEW right \in Correct, Authenticate(r, right)
        PROVE  ExchangeInv'
    <3> DEFINE new == LoginAt(IF right /\ req[r].user \in active THEN "clear" ELSE "count",
                              req[r].user, req[r].ip)
    <3>1. /\ req' = [req EXCEPT ![r] = new] /\ UNCHANGED minted
          /\ new.at \notin {"select", "drop", "store"}
      BY <2>6 DEF Authenticate, Go, LoginAt
    <3> HIDE DEF new
    <3> QED
      BY <1>2, <3>1, HoldersShrink
  <2>7. ASSUME NEW r \in Requests, CountFailure(r) PROVE ExchangeInv'
    <3> DEFINE new == LoginAt("expire", req[r].user, req[r].ip)
    <3>1. req' = [req EXCEPT ![r] = new] /\ UNCHANGED minted /\ new.at = "expire"
      BY <2>7 DEF CountFailure, Go, LoginAt, tokens
    <3> HIDE DEF new
    <3> QED
      BY <1>2, <3>1, HoldersShrink
  <2>8. ASSUME NEW r \in Requests,
               \/ ExpireFailures(r) \/ Deliver(r) \/ PurgeTokens(r) \/ Abort(r)
        PROVE  ExchangeInv'
    <3>1. req' = [req EXCEPT ![r] = NoRequest] /\ UNCHANGED minted
      BY <2>8 DEF ExpireFailures, Deliver, PurgeTokens, Abort, End, tokens
    <3> QED
      BY <1>2, <3>1, HoldersShrink
  <2>9. ASSUME NEW r \in Requests, ClearFailures(r) PROVE ExchangeInv'
    <3> DEFINE new == [at |-> "store", user |-> req[r].user, token |-> NoToken]
    <3>1. req' = [req EXCEPT ![r] = new] /\ UNCHANGED minted /\ new.token = NoToken
      BY <2>9 DEF ClearFailures, Go, tokens
    <3> HIDE DEF new
    <3> QED
      BY <1>2, <3>1, HoldersShrink
  <2>10. ASSUME NEW r \in Requests, SelectUser(r) \/ DropOld(r) \/ ListTokens(r)
         PROVE  ExchangeInv'
    <3>1. PICK new :
            /\ req' = [req EXCEPT ![r] = new] /\ UNCHANGED minted
            /\ \/ new = NoRequest
               \/ new.at \notin {"select", "drop", "store"}
               \/ (At(r, "select") \/ At(r, "drop")) /\ new.token = req[r].token
      BY <2>10 DEF SelectUser, DropOld, ListTokens, Go, End
    <3> QED
      BY <1>2, <3>1, HoldersShrink
  <2>11. ASSUME NEW r \in Requests, NEW t \in Tokens, VerifyToken(r, t) PROVE ExchangeInv'
    <3>1. CASE t \notin live
      <4> DEFINE new == [at |-> "members", user |-> minted[t].user, seen |-> {}]
      <4>1. req' = [req EXCEPT ![r] = new] /\ UNCHANGED minted /\ new.at = "members"
        BY <2>11, <3>1 DEF VerifyToken, Go
      <4> HIDE DEF new
      <4> QED
        BY <1>2, <4>1, HoldersShrink
    <3>2. CASE t \in live
      <4>1. /\ \A r2 \in Requests :
                 req'[r2] = IF r2 = r THEN [at |-> "select", user |-> minted[t].user, token |-> t]
                                      ELSE req[r2]
            /\ UNCHANGED minted
        BY <2>1, <2>11, <3>2 DEF VerifyToken, Go
      <4>2. \A j \in Tokens : Exchanges(j)' = Exchanges(j)
        BY <4>1 DEF Exchanges
      <4> SUFFICES ASSUME NEW j \in Tokens
                   PROVE  /\ IsFiniteSet(Exchanges(j)')
                          /\ Cardinality(Exchanges(j)') + Cardinality(Holding(j)')
                               <= Cardinality(Requests)
        BY DEF ExchangeInv
      <4>3. CASE j = t
        <5>1. Exchanges(j)' = {}
          BY <2>1, <3>2, <4>2, <4>3, NullsAssumption DEF Exchanges, ParentsOK
        <5>2. IsFiniteSet(Exchanges(j)') /\ Cardinality(Exchanges(j)') = 0
          BY <5>1, FS_EmptySet
        <5>3. /\ Cardinality(Holding(j)') \in Nat /\ Cardinality(Requests) \in Nat
              /\ Cardinality(Holding(j)') <= Cardinality(Requests)
          BY BoundsAssumption, FS_Subset, FS_CardinalityType DEF Holding
        <5> QED
          BY <5>2, <5>3
      <4>4. CASE j # t
        <5>1. Holding(j)' \subseteq Holding(j)
          BY <4>1, <4>4 DEF Holding, At
        <5> QED
          BY <1>2, <4>2, <5>1, HoldingShrinks
      <4> QED
        BY <4>3, <4>4
    <3> QED
      BY <3>1, <3>2
  <2>12. ASSUME NEW r \in Requests, NEW t \in Tokens, StoreToken(r, t) PROVE ExchangeInv'
    <3>1. PICK old : old = req[r].token
      OBVIOUS
    <3>2. /\ At(r, "store") /\ t \notin DOMAIN minted
          /\ \A r2 \in Requests :
               req'[r2] = IF r2 = r THEN [at |-> "answer", user |-> req[r].user, token |-> t]
                                    ELSE req[r2]
          /\ DOMAIN minted' = DOMAIN minted \union {t}
          /\ minted'[t].parent = old
          /\ \A k \in DOMAIN minted : minted'[k] = minted[k]
      BY <2>1, <2>12, <3>1 DEF StoreToken, Go
    <3> SUFFICES ASSUME NEW j \in Tokens
                 PROVE  /\ IsFiniteSet(Exchanges(j)')
                        /\ Cardinality(Exchanges(j)') + Cardinality(Holding(j)')
                             <= Cardinality(Requests)
      BY DEF ExchangeInv
    <3>3. Holding(j)' \subseteq Holding(j) \ {r}
      BY <3>2 DEF Holding, At
    <3>4. CASE j # old
      <4>1. Exchanges(j)' = Exchanges(j)
        BY <3>2, <3>4 DEF Exchanges
      <4> QED
        BY <1>2, <3>3, <4>1, HoldingShrinks
    <3>5. CASE j = old
      <4>1. Exchanges(j)' = Exchanges(j) \union {t} /\ t \notin Exchanges(j)
        BY <3>2, <3>5 DEF Exchanges
      <4>2. /\ IsFiniteSet(Exchanges(j)) /\ Cardinality(Exchanges(j)) \in Nat
            /\ Cardinality(Exchanges(j)) + Cardinality(Holding(j)) <= Cardinality(Requests)
        BY <1>2, FS_CardinalityType DEF ExchangeInv
      <4>3. /\ IsFiniteSet(Exchanges(j)')
            /\ Cardinality(Exchanges(j)') = Cardinality(Exchanges(j)) + 1
        BY <4>1, <4>2, FS_AddElement
      <4>4. r \in Holding(j)
        BY <3>1, <3>2, <3>5 DEF Holding
      <4>5. /\ IsFiniteSet(Holding(j)) /\ Cardinality(Holding(j)) \in Nat
            /\ Cardinality(Requests) \in Nat
        BY BoundsAssumption, FS_Subset, FS_CardinalityType DEF Holding
      <4>6. /\ Cardinality(Holding(j)') \in Nat
            /\ Cardinality(Holding(j)') <= Cardinality(Holding(j)) - 1
        BY <3>3, <4>4, <4>5, FS_RemoveElement, FS_Subset, FS_CardinalityType
      <4> QED
        BY <4>2, <4>3, <4>5, <4>6
    <3> QED
      BY <3>4, <3>5
  <2> QED
    BY <1>2, <2>3, <2>4, <2>5, <2>6, <2>7, <2>8, <2>9, <2>10, <2>11, <2>12
    DEF Next, Begin, Continue
<1>3. ExchangeInv => ExchangesBounded
  <2> SUFFICES ASSUME ExchangeInv, NEW j \in Tokens
               PROVE  Cardinality(Exchanges(j)) <= Cardinality(Requests)
    BY DEF ExchangesBounded
  <2>1. /\ Cardinality(Exchanges(j)) \in Nat /\ Cardinality(Holding(j)) \in Nat
        /\ Cardinality(Requests) \in Nat
    BY BoundsAssumption, FS_Subset, FS_CardinalityType DEF ExchangeInv, Holding
  <2> QED
    BY <2>1 DEF ExchangeInv
<1> QED
  BY <1>1, <1>2, <1>3, Invariance, PTL DEF Spec

-----------------------------------------------------------------------------
(***************************************************************************)
(* One request at a time.  Every usable token is on the list of its user,  *)
(* and what SMEMBERS returned still covers that list when the pipeline     *)
(* runs.                                                                   *)
(***************************************************************************)
OneAtATime == \A r1, r2 \in Requests : r1 = r2

Listed == \A j \in live : j \in family[minted[j].user]

PurgeSeesAll ==
  \A r \in Requests : At(r, "purge") => family[req[r].user] \subseteq req[r].seen

SerialInv == Listed /\ PurgeSeesAll

\* A step that stores no token adds nothing to the lists.
LEMMA SerialStepNoStore ==
  ASSUME OneAtATime, IInv, SerialInv, Next,
         \A r \in Requests, j \in Tokens : ~StoreToken(r, j)
  PROVE  SerialInv'
<1>1. /\ req \in [Requests -> Request \union {NoRequest}]
      /\ family \in [Users -> SUBSET DOMAIN minted] /\ live \subseteq DOMAIN minted
      /\ \A u \in Users : \A j \in family[u] : minted[j].user = u
      /\ \A j \in DOMAIN minted : minted[j].user \in Users
      /\ ParentsOK /\ RequestsOK
  BY DEF IInv, TypeOK
<1>2. UNCHANGED minted
  BY DEF Next, Outside, Logout, TokenLapses, SetActive, FamilyLapses, CounterLapses, Begin,
         CheckIp, VerifyToken, Continue, Authenticate, CountFailure, ExpireFailures,
         ClearFailures, Deliver, SelectUser, DropOld, ListTokens, PurgeTokens, Abort, tokens
<1>3. Listed' /\ PurgeSeesAll'
  <2>1. ASSUME Outside PROVE Listed' /\ PurgeSeesAll'
    <3>1. UNCHANGED req /\ \A u \in Users : family'[u] \subseteq family[u]
      BY <1>1, <2>1 DEF Outside, Logout, Forgotten, TokenLapses, SetActive, FamilyLapses,
                        CounterLapses, redis, tokens
    <3>3. PurgeSeesAll'
      <4>1. ASSUME NEW r \in Requests, At(r, "purge") PROVE req[r].user \in Users
        BY <1>1, <4>1, Stages DEF At, RevokeRequest
      <4> QED
        BY <3>1, <4>1 DEF SerialInv, PurgeSeesAll, At
    <3>4. Listed'
      <4>1. ASSUME NEW j \in Tokens, Logout(j) PROVE Listed'
        BY <1>1, <4>1 DEF Logout, Forgotten, SerialInv, Listed
      <4>2. ASSUME NEW j \in Tokens, TokenLapses(j) PROVE Listed'
        BY <1>1, <4>2 DEF TokenLapses, SerialInv, Listed
      <4>3. ASSUME NEW u \in Users, FamilyLapses(u) PROVE Listed'
        BY <1>1, <4>3 DEF FamilyLapses, SerialInv, Listed
      <4>4. CASE UNCHANGED <<live, family, minted>>
        BY <4>4 DEF SerialInv, Listed
      <4> QED
        BY <2>1, <4>1, <4>2, <4>3, <4>4 DEF Outside, SetActive, CounterLapses, redis, tokens
    <3> QED
      BY <3>3, <3>4
  <2>2. ASSUME NEW r \in Requests, Begin(r) \/ Continue(r) \/ Abort(r)
        PROVE  Listed' /\ PurgeSeesAll'
    <3>1. Requests = {r}
      BY DEF OneAtATime
    <3> DEFINE q == req[r]
    <3>2. q \in Request \union {NoRequest} /\ RequestOK(q, minted, live)
      BY <1>1 DEF RequestsOK
    <3>3. /\ UNCHANGED <<live, family>>
          /\ ~At(r, "purge")'
          => Listed' /\ PurgeSeesAll'
      BY <1>2, <3>1 DEF SerialInv, Listed, PurgeSeesAll
    <3>4. ASSUME NEW u \in Users, NEW ip \in Ips, CheckIp(r, u, ip)
          PROVE  Listed' /\ PurgeSeesAll'
      BY <1>1, <3>3, <3>4 DEF CheckIp, Go, LoginAt, At, redis
    <3>5. ASSUME NEW right \in Correct, Authenticate(r, right)
          PROVE  Listed' /\ PurgeSeesAll'
      BY <1>1, <3>3, <3>5 DEF Authenticate, Go, LoginAt, At, redis
    <3>6. CASE CountFailure(r) \/ ExpireFailures(r) \/ ClearFailures(r) \/ Deliver(r) \/ Abort(r)
      BY <1>1, <3>3, <3>6 DEF CountFailure, ExpireFailures, ClearFailures, Deliver, Abort, Go, End,
                              LoginAt, At, redis, tokens
    <3>7. ASSUME NEW j \in Tokens, VerifyToken(r, j)
          PROVE  Listed' /\ PurgeSeesAll'
      <4>1. /\ req'[r] = IF j \in live
                           THEN [at |-> "select", user |-> minted[j].user, token |-> j]
                           ELSE [at |-> "members", user |-> minted[j].user, seen |-> {}]
            /\ UNCHANGED <<live, family>>
        BY <1>1, <3>7 DEF VerifyToken, Go, redis
      <4>2. Listed' /\ PurgeSeesAll'
        BY <1>2, <3>1, <4>1 DEF SerialInv, Listed, PurgeSeesAll, At
      <4> QED
        BY <4>2
    <3>8. CASE SelectUser(r)
      <4>1. /\ At(r, "select") /\ UNCHANGED <<live, family>>
            /\ \/ req'[r] = [at |-> "drop", user |-> q.user, token |-> q.token]
               \/ req'[r] = NoRequest
        BY <1>1, <3>8 DEF SelectUser, Go, End, redis
      <4> QED
        BY <1>2, <3>1, <4>1 DEF SerialInv, Listed, PurgeSeesAll, At
    <3>9. CASE DropOld(r)
      <4>1. /\ At(r, "drop") /\ live' = live \ {q.token}
            /\ family' = [family EXCEPT ![minted[q.token].user] = @ \ {q.token}]
            /\ req'[r] = [at |-> "store", user |-> q.user, token |-> q.token]
        BY <1>1, <3>9 DEF DropOld, Forgotten, Go
      <4>3. Listed'
        BY <1>1, <1>2, <4>1 DEF SerialInv, Listed
      <4> QED
        BY <1>2, <3>1, <4>1, <4>3 DEF PurgeSeesAll, At
    <3>10. CASE ListTokens(r)
      <4>1. /\ UNCHANGED <<live, family>>
            /\ \/ req'[r] = NoRequest
               \/ req'[r] = [at |-> "purge", user |-> q.user, seen |-> family[q.user]]
        BY <1>1, <3>10 DEF ListTokens, Go, End, redis
      <4> QED
        BY <1>2, <3>1, <4>1 DEF SerialInv, Listed, PurgeSeesAll, At
    <3>11. CASE PurgeTokens(r)
      <4>1. /\ At(r, "purge") /\ live' = live \ q.seen
            /\ family' = [family EXCEPT ![q.user] = {}] /\ req'[r] = NoRequest
        BY <1>1, <3>11 DEF PurgeTokens, End
      <4>2. family[q.user] \subseteq q.seen
        BY <4>1 DEF SerialInv, PurgeSeesAll
      <4>3. Listed'
        BY <1>1, <1>2, <4>1, <4>2 DEF SerialInv, Listed
      <4> QED
        BY <3>1, <4>1, <4>3 DEF PurgeSeesAll, At
    <3> QED
      BY <2>2, <3>4, <3>5, <3>6, <3>7, <3>8, <3>9, <3>10, <3>11 DEF Begin, Continue
  <2> QED
    BY <2>1, <2>2 DEF Next
<1> QED
  BY <1>3 DEF SerialInv

LEMMA SerialStore ==
  ASSUME OneAtATime, IInv, SerialInv, NEW r \in Requests, NEW j \in Tokens, StoreToken(r, j)
  PROVE  SerialInv'
<1> DEFINE q == req[r]
<1>1. /\ q \in Request \union {NoRequest} /\ req \in [Requests -> Request \union {NoRequest}]
      /\ family \in [Users -> SUBSET DOMAIN minted] /\ live \subseteq DOMAIN minted
      /\ \A k \in DOMAIN minted : minted[k].user \in Users
      /\ ParentsOK /\ Requests = {r}
  BY DEF IInv, TypeOK, OneAtATime
<1>2. q \in StoreRequest /\ q.user \in Users /\ At(r, "store") /\ j \notin DOMAIN minted
  BY <1>1, Stages DEF StoreToken, At, StoreRequest
<1>3. /\ DOMAIN minted' = DOMAIN minted \union {j}
      /\ minted'[j] = [user |-> q.user, parent |-> q.token]
      /\ \A k \in DOMAIN minted : minted'[k] = minted[k]
      /\ live' = live \union {j}
      /\ family' = [family EXCEPT ![q.user] = @ \union {j}]
      /\ req'[r] = [at |-> "answer", user |-> q.user, token |-> j]
  BY <1>1, <1>2 DEF StoreToken, Go
<1>4. Listed'
  BY <1>1, <1>2, <1>3 DEF SerialInv, Listed
<1>5. PurgeSeesAll'
  BY <1>1, <1>3 DEF PurgeSeesAll, At
<1> QED
  BY <1>4, <1>5 DEF SerialInv

LEMMA SerialInvariance == OneAtATime => (Spec => []SerialInv)
<1> SUFFICES ASSUME OneAtATime PROVE Spec => []SerialInv
  OBVIOUS
<1>1. Init => SerialInv
  BY DEF Init, SerialInv, Listed, PurgeSeesAll, At
<1>2. ASSUME IInv, SerialInv, [Next]_vars PROVE SerialInv'
  <2>1. CASE UNCHANGED vars
    BY <1>2, <2>1 DEF vars, redis, SerialInv, Listed, PurgeSeesAll, At
  <2>2. CASE Next
    BY <1>2, <2>2, SerialStore, SerialStepNoStore
  <2> QED
    BY <1>2, <2>1, <2>2
<1> QED
  BY <1>1, <1>2, Invariance, PTL DEF Spec

\* With one request at a time the handling of a reused token leaves its user no
\* token that works.
THEOREM SerialReuse == OneAtATime => (Spec => ReuseEndsEverySession)
<1> SUFFICES ASSUME OneAtATime PROVE Spec => ReuseEndsEverySession
  OBVIOUS
<1>1. ASSUME IInv, SerialInv, [Next]_vars
      PROVE  [\A r \in Requests :
                (ListTokens(r) \/ PurgeTokens(r)) /\ req'[r] = NoRequest
                  => \A j \in live' : minted[j].user # req[r].user]_vars
  <2> SUFFICES ASSUME NEW r \in Requests, ListTokens(r) \/ PurgeTokens(r), req'[r] = NoRequest,
                      NEW j \in live'
               PROVE  minted[j].user # req[r].user
    OBVIOUS
  <2>1. j \in live
    BY DEF ListTokens, PurgeTokens, redis
  <2>2. j \in family[minted[j].user]
    BY <1>1, <2>1 DEF SerialInv, Listed
  <2>3. CASE ListTokens(r)
    <3>1. family[req[r].user] = {}
      <4>1. /\ req \in [Requests -> Request \union {NoRequest}] /\ At(r, "members")
            /\ family \in [Users -> SUBSET DOMAIN minted] /\ DOMAIN minted \subseteq Tokens
        BY <1>1, <2>3 DEF ListTokens, IInv, TypeOK
      <4>2. req[r].user \in Users
        BY <4>1, Stages DEF At, RevokeRequest
      <4>3. [at |-> "purge", user |-> req[r].user, seen |-> family[req[r].user]] \in Request
        BY <4>1, <4>2 DEF Request, RevokeRequest
      <4> QED
        BY <2>3, <4>1, <4>3, NullsAssumption DEF ListTokens, Go
    <3> QED
      BY <2>2, <3>1
  <2>4. CASE PurgeTokens(r)
    BY <1>1, <2>2, <2>4 DEF PurgeTokens, SerialInv, PurgeSeesAll
  <2> QED
    BY <2>3, <2>4
<1> QED
  BY <1>1, Invariance, SerialInvariance, PTL DEF Spec, ReuseEndsEverySession
=============================================================================
