-------------------------- MODULE TenantPoolProofs --------------------------
(***************************************************************************)
(* Proofs about TenantPool, for any number of tenants, requests, rows and  *)
(* connections.                                                            *)
(***************************************************************************)
EXTENDS TenantPool, TLAPS

\* A request that goes on to its queries holds a connection on which its own
\* tenant is SET.
OwnSetting ==
  \A r \in Requests :
    req[r] # NoRequest /\ req[r].at = "set" /\ req[r].who \in Tenants
      => conns[req[r].conn].now = req[r].who

IInv == TypeOK /\ SeesOwnTenantOnly /\ OwnSetting

-----------------------------------------------------------------------------
(* The pool.                                                               *)

\* What TypeOK says of one request that holds a connection.
LEMMA Holding ==
  ASSUME TypeOK, NEW r \in Requests, req[r] # NoRequest, req[r].at \notin {"begun", "committed"}
  PROVE  /\ req[r] \in Request
         /\ req[r].conn \in DOMAIN conns
         /\ conns[req[r].conn] \in Conn
         /\ \A q \in Requests \ {r} : req[q] # NoRequest => req[q].conn # req[r].conn
BY DEF TypeOK

\* A connection that is given back is kept with one setting or is closed, and
\* the others stay as they are.
LEMMA GivenBack ==
  ASSUME TypeOK, NEW c \in DOMAIN conns, NEW setting \in Setting, GiveBack(c, setting)
  PROVE  /\ DOMAIN conns' \subseteq DOMAIN conns
         /\ DOMAIN conns \ {c} \subseteq DOMAIN conns'
         /\ \A d \in DOMAIN conns \ {c} : conns'[d] = conns[d]
         /\ conns' \in [DOMAIN conns' -> Conn]
<1> USE DEF TypeOK, GiveBack
<1>1. CASE conns' = Without(c)
  BY <1>1 DEF Without
<1>2. CASE conns' = [conns EXCEPT ![c] = [kept |-> setting, now |-> setting]]
  <2>1. [kept |-> setting, now |-> setting] \in Conn
    BY DEF Conn
  <2> QED BY <1>2, <2>1
<1> QED BY <1>1, <1>2

\* A connection that is taken was held by nobody, and the others stay as they are.
LEMMA Taken ==
  ASSUME TypeOK, NEW r \in Requests, req[r] # NoRequest, NEW c \in Connections,
         NEW at \in {"connected", "again"}, Connect(r, c, at)
  PROVE  /\ DOMAIN conns' = DOMAIN conns \union {c}
         /\ c \notin Held
         /\ \A d \in DOMAIN conns \ {c} : conns'[d] = conns[d]
         /\ conns' \in [DOMAIN conns' -> Conn]
         /\ [req[r] EXCEPT !.at = at, !.conn = c] \in Request
<1>1. c \notin Held
  <2> SUFFICES ASSUME c \in Held PROVE FALSE OBVIOUS
  <2>1. PICK q \in Requests : req[q] # NoRequest /\ req[q].conn = c
    BY DEF Held
  <2>2. c \in DOMAIN conns
    BY <2>1, NullAssumption DEF TypeOK
  <2>3. c \in Idle
    BY <2>2 DEF Connect
  <2> QED BY <2>3 DEF Idle
<1>2. PICK setting \in {Unset} \union {conns[d].kept : d \in DOMAIN conns \intersect {c}} :
        conns' = [d \in DOMAIN conns \union {c} |->
                    IF d = c THEN [kept |-> setting, now |-> setting] ELSE conns[d]]
  BY DEF Connect
<1>3. setting \in Setting
  BY <1>2 DEF TypeOK, Conn, Setting
<1>4. [kept |-> setting, now |-> setting] \in Conn
  BY <1>3 DEF Conn
<1>5. conns' \in [DOMAIN conns \union {c} -> Conn]
  BY <1>2, <1>4 DEF TypeOK
<1>6. [req[r] EXCEPT !.at = at, !.conn = c] \in Request
  BY DEF TypeOK, Request
<1> QED BY <1>1, <1>2, <1>5, <1>6 DEF Connect, Set

-----------------------------------------------------------------------------
LEMMA Starts == Init => IInv
<1> SUFFICES ASSUME Init PROVE IInv OBVIOUS
<1>1. TypeOK
  BY BoundAssumption DEF Init, TypeOK
<1> QED BY <1>1 DEF Init, IInv, SeesOwnTenantOnly, OwnSetting

\* Every step of a slot keeps TypeOK.
LEMMA TypeKept == TypeOK /\ [Next]_vars => TypeOK'
<1> SUFFICES ASSUME TypeOK, [Next]_vars PROVE TypeOK' OBVIOUS
<1> USE NullAssumption, BoundAssumption
<1>1. ASSUME NEW r \in Requests, NEW who \in Setting, Begin(r, who) PROVE TypeOK'
  <2>1. [who |-> who, at |-> "begun", conn |-> NoConnection, seen |-> {}, wrote |-> {}]
          \in Request
    BY DEF Request
  <2>2. asked' \in 0..MaxAsked
    BY <1>1 DEF Begin, TypeOK
  <2> QED BY <1>1, <2>1, <2>2 DEF Begin, Set, TypeOK, Request
<1>2. ASSUME NEW r \in Requests, NEW c \in Connections,
             NEW at \in {"connected", "again"}, req[r] # NoRequest, Connect(r, c, at)
      PROVE  TypeOK'
  <2>1. /\ DOMAIN conns' = DOMAIN conns \union {c}
        /\ conns' \in [DOMAIN conns' -> Conn]
        /\ c \notin Held
    BY <1>2, Taken
  <2>10. [req[r] EXCEPT !.at = at, !.conn = c] \in Request
    BY <1>2, Taken
  <2>11. req' = [req EXCEPT ![r] = [req[r] EXCEPT !.at = at, !.conn = c]]
    BY <1>2 DEF Connect, Set
  <2>2. \A q \in Requests : req[q] # NoRequest => req[q].conn # c
    BY <2>1 DEF Held
  <2>3. req[r] \in Request
    BY <1>2 DEF TypeOK
  <2>4. req'[r].conn = c /\ req'[r].at = at /\ req'[r] # NoRequest
    BY <2>10, <2>11, <2>3 DEF TypeOK, Request
  <2>5. \A q \in Requests \ {r} : req'[q] = req[q]
    BY <2>11 DEF TypeOK
  <2>6. rows' = rows /\ asked' = asked
    BY <1>2 DEF Connect
  <2>7. req' \in [Requests -> Request \union {NoRequest}]
    BY <2>10, <2>11 DEF TypeOK
  <2>8. ASSUME NEW q \in Requests, req'[q] # NoRequest
        PROVE  /\ req'[q].conn = NoConnection => req'[q].at \in {"begun", "committed"}
               /\ req'[q].conn # NoConnection =>
                    /\ req'[q].conn \in DOMAIN conns'
                    /\ \A p \in Requests \ {q} : req'[p] # NoRequest => req'[p].conn # req'[q].conn
    BY <2>1, <2>2, <2>4, <2>5, <2>8 DEF TypeOK
  <2>9. DOMAIN conns' \subseteq Connections
    BY <2>1 DEF TypeOK
  <2> QED BY <2>1, <2>6, <2>7, <2>8, <2>9 DEF TypeOK
<1>3. ASSUME NEW r \in Requests, SetTenant(r) PROVE TypeOK'
  <2>1. req[r] \in Request /\ req[r].conn \in DOMAIN conns /\ conns[req[r].conn] \in Conn
    BY <1>3, Holding DEF SetTenant, At
  <2>2. [req[r] EXCEPT !.at = "set"] \in Request
    BY <2>1 DEF Request
  <2>3. [conns[req[r].conn] EXCEPT !.now = req[r].who] \in Conn
    BY <2>1 DEF Request, Conn
  <2>4. conns' \in [DOMAIN conns -> Conn]
    BY <1>3, <2>1, <2>3 DEF SetTenant, TypeOK
  <2> QED BY <1>3, <2>1, <2>2, <2>4 DEF SetTenant, At, Set, TypeOK, Request
<1>4. ASSUME NEW r \in Requests, Select(r) PROVE TypeOK'
  <2>1. req[r] \in Request /\ req[r] # NoRequest
    BY <1>4, Holding DEF Select, At
  <2> DEFINE seen == {rows[i] : i \in {j \in DOMAIN rows : Visible(conns[req[r].conn].now, rows[j])}}
  <2>2. seen \subseteq Tenants
    BY DEF TypeOK
  <2>3. req' = [req EXCEPT ![r] = [req[r] EXCEPT !.seen = @ \union seen]]
    BY <1>4 DEF Select, Set
  <2> HIDE DEF seen
  <2>4. [req[r] EXCEPT !.seen = @ \union seen] \in Request
    BY <2>1, <2>2 DEF Request
  <2> QED BY <1>4, <2>1, <2>3, <2>4 DEF Select, TypeOK, Request
<1>5. ASSUME NEW r \in Requests, NEW i \in RowIds, NEW tenant \in Tenants, Insert(r, i, tenant)
      PROVE  TypeOK'
  <2>1. req[r] \in Request /\ req[r] # NoRequest
    BY <1>5, Holding DEF Insert, At
  <2>2. [req[r] EXCEPT !.wrote = {[id |-> i, tenant |-> tenant]}] \in Request
    BY <2>1 DEF Request, Row
  <2> QED BY <1>5, <2>1, <2>2 DEF Insert, Set, TypeOK, Request
<1>6. ASSUME NEW r \in Requests, NEW goesOn \in BOOLEAN, Commit(r, goesOn) PROVE TypeOK'
  <2>1. req[r] \in Request /\ req[r].conn \in DOMAIN conns /\ conns[req[r].conn] \in Conn
    BY <1>6, Holding DEF Commit, At
  <2>2. conns[req[r].conn].now \in Setting
    BY <2>1 DEF Conn
  <2>3. /\ DOMAIN conns' \subseteq DOMAIN conns
        /\ DOMAIN conns \ {req[r].conn} \subseteq DOMAIN conns'
        /\ conns' \in [DOMAIN conns' -> Conn]
    BY <1>6, <2>1, <2>2, GivenBack DEF Commit
  <2>4. DOMAIN rows' \subseteq RowIds /\ rows' \in [DOMAIN rows' -> Tenants]
    <3>1. req[r].wrote \subseteq Row
      BY <2>1 DEF Request
    <3>2. rows' = [i \in DOMAIN rows \union {row.id : row \in req[r].wrote} |->
                     IF i \in DOMAIN rows THEN rows[i]
                       ELSE (CHOOSE row \in req[r].wrote : row.id = i).tenant]
      BY <1>6 DEF Commit, Stored
    <3>3. ASSUME NEW i \in DOMAIN rows', i \notin DOMAIN rows
          PROVE  (CHOOSE row \in req[r].wrote : row.id = i) \in Row /\ i \in RowIds
      <4>1. PICK row \in req[r].wrote : row.id = i
        BY <3>2, <3>3
      <4> QED BY <3>1, <4>1 DEF Row
    <3>4. \A i \in DOMAIN rows' : i \in RowIds /\ rows'[i] \in Tenants
      BY <3>2, <3>3 DEF TypeOK, Row
    <3> QED BY <3>2, <3>4
  <2> DEFINE q == IF goesOn
                    THEN [req[r] EXCEPT !.at = "committed", !.conn = NoConnection]
                    ELSE NoRequest
  <2>5. req' = [req EXCEPT ![r] = q]
    BY <1>6 DEF Commit, Set, Done
  <2>6. /\ q \in Request \union {NoRequest}
        /\ q # NoRequest => q.conn = NoConnection /\ q.at = "committed"
    BY <2>1 DEF Request
  <2> HIDE DEF q
  <2>7. DOMAIN conns' \subseteq Connections /\ asked' \in 0..MaxAsked
    BY <1>6, <2>3 DEF Commit, TypeOK
  <2>8. req' \in [Requests -> Request \union {NoRequest}]
    BY <2>5, <2>6 DEF TypeOK
  <2>9. ASSUME NEW p \in Requests, req'[p] # NoRequest
        PROVE  /\ req'[p].conn = NoConnection => req'[p].at \in {"begun", "committed"}
               /\ req'[p].conn # NoConnection =>
                    /\ req'[p].conn \in DOMAIN conns'
                    /\ \A o \in Requests \ {p} : req'[o] # NoRequest => req'[o].conn # req'[p].conn
    BY <2>1, <2>3, <2>5, <2>6, <2>9 DEF TypeOK
  <2> QED BY <2>3, <2>4, <2>7, <2>8, <2>9 DEF TypeOK
<1>7. ASSUME NEW r \in Requests, NEW setting \in Setting, req[r] # NoRequest,
             req[r].at \notin {"begun", "committed"}, GiveBack(req[r].conn, setting),
             Done(r), UNCHANGED <<rows, asked>>
      PROVE  TypeOK'
  <2>1. req[r].conn \in DOMAIN conns
    BY <1>7, Holding
  <2>2. /\ DOMAIN conns' \subseteq DOMAIN conns
        /\ DOMAIN conns \ {req[r].conn} \subseteq DOMAIN conns'
        /\ conns' \in [DOMAIN conns' -> Conn]
    BY <1>7, <2>1, GivenBack
  <2> QED BY <1>7, <2>1, <2>2 DEF Done, Set, TypeOK
<1>8. ASSUME NEW r \in Requests, Refresh(r) PROVE TypeOK'
  <2>1. req[r] # NoRequest /\ req[r].at = "again" /\ conns[req[r].conn] \in Conn
    BY <1>8, Holding DEF Refresh, At
  <2> QED BY <1>7, <1>8, <2>1 DEF Refresh, Conn
<1>9. ASSUME NEW r \in Requests, Rollback(r) PROVE TypeOK'
  <2>1. req[r] # NoRequest /\ req[r].at \in {"connected", "set", "again"} /\ conns[req[r].conn] \in Conn
    BY <1>9, Holding DEF Rollback, At
  <2> QED BY <1>7, <1>9, <2>1 DEF Rollback, Conn
<1>10. ASSUME NEW r \in Requests, GiveUp(r) PROVE TypeOK'
  BY <1>10 DEF GiveUp, Done, Set, TypeOK
<1>11. ASSUME NEW r \in Requests, NEW c \in Connections, TakeConnection(r, c) PROVE TypeOK'
  BY <1>2, <1>11 DEF TakeConnection, At
<1>12. ASSUME NEW r \in Requests, NEW c \in Connections, TakeAnother(r, c) PROVE TypeOK'
  BY <1>2, <1>12 DEF TakeAnother, At
<1>13. CASE UNCHANGED vars
  BY <1>13 DEF vars, TypeOK
<1> QED BY <1>1, <1>3, <1>4, <1>5, <1>6, <1>8, <1>9, <1>10, <1>11, <1>12, <1>13 DEF Next, Proceed

\* A setting changes under nobody's hands, and a SELECT shows what the setting
\* lets it.
LEMMA SettingKept == IInv /\ [Next]_vars => SeesOwnTenantOnly' /\ OwnSetting'
<1> SUFFICES ASSUME IInv, [Next]_vars PROVE SeesOwnTenantOnly' /\ OwnSetting' OBVIOUS
<1> USE NullAssumption DEF IInv
<1>1. ASSUME NEW r \in Requests, \A q \in Requests \ {r} : req'[q] = req[q],
             req'[r] # NoRequest /\ req'[r].who \in Tenants =>
               /\ req'[r].seen \subseteq {req'[r].who}
               /\ req'[r].at = "set" => conns'[req'[r].conn].now = req'[r].who,
             \A q \in Requests \ {r} : req[q] # NoRequest /\ req[q].at = "set"
               => conns'[req[q].conn] = conns[req[q].conn]
      PROVE  SeesOwnTenantOnly' /\ OwnSetting'
  BY <1>1 DEF SeesOwnTenantOnly, OwnSetting
<1>2. ASSUME NEW r \in Requests, NEW who \in Setting, Begin(r, who)
      PROVE  SeesOwnTenantOnly' /\ OwnSetting'
  <2>1. /\ \A q \in Requests \ {r} : req'[q] = req[q]
        /\ conns' = conns
        /\ req'[r].at = "begun" /\ req'[r].seen = {}
    BY <1>2 DEF Begin, Set, TypeOK
  <2> QED BY <1>1, <2>1
<1>3. ASSUME NEW r \in Requests, NEW c \in Connections,
             NEW at \in {"connected", "again"}, req[r] # NoRequest, Connect(r, c, at)
      PROVE  SeesOwnTenantOnly' /\ OwnSetting'
  <2>1. c \notin Held /\ \A d \in DOMAIN conns \ {c} : conns'[d] = conns[d]
    BY <1>3, Taken
  <2>2. req' = [req EXCEPT ![r] = [req[r] EXCEPT !.at = at, !.conn = c]]
    BY <1>3 DEF Connect, Set
  <2>3. req[r] \in Request
    BY <1>3 DEF TypeOK
  <2>4. req'[r].at # "set" /\ req'[r].seen = req[r].seen /\ req'[r].who = req[r].who
    BY <2>2, <2>3 DEF TypeOK, Request
  <2>5. req'[r].who \in Tenants => req'[r].seen \subseteq {req'[r].who}
    BY <1>3, <2>4 DEF SeesOwnTenantOnly
  <2>6. \A q \in Requests \ {r} : req'[q] = req[q]
    BY <2>2 DEF TypeOK
  <2>7. ASSUME NEW q \in Requests \ {r}, req[q] # NoRequest, req[q].at = "set"
        PROVE  conns'[req[q].conn] = conns[req[q].conn]
    <3>1. req[q].conn \in DOMAIN conns
      BY <2>7, Holding
    <3>2. req[q].conn # c
      BY <2>1, <2>7 DEF Held
    <3> QED BY <2>1, <3>1, <3>2
  <2> QED BY <1>1, <2>4, <2>5, <2>6, <2>7
<1>4. ASSUME NEW r \in Requests, SetTenant(r) PROVE SeesOwnTenantOnly' /\ OwnSetting'
  <2>1. /\ req[r] \in Request /\ req[r] # NoRequest
        /\ req[r].conn \in DOMAIN conns /\ conns[req[r].conn] \in Conn
        /\ \A q \in Requests \ {r} : req[q] # NoRequest => req[q].conn # req[r].conn
    BY <1>4, Holding DEF SetTenant, At
  <2>2. req' = [req EXCEPT ![r] = [req[r] EXCEPT !.at = "set"]]
    BY <1>4 DEF SetTenant, Set
  <2>3. /\ req'[r].seen = req[r].seen /\ req'[r].who = req[r].who
        /\ req'[r].conn = req[r].conn
    BY <2>1, <2>2 DEF TypeOK, Request
  <2>4. \A q \in Requests \ {r} : req'[q] = req[q]
    BY <2>2 DEF TypeOK
  <2>5. req[r].who \in Tenants => conns'[req[r].conn].now = req[r].who
    BY <1>4, <2>1, SettingAssumption DEF SetTenant, TypeOK, Conn
  <2>6. \A q \in Requests \ {r} : req[q] # NoRequest /\ req[q].at = "set"
          => conns'[req[q].conn] = conns[req[q].conn]
    BY <1>4, <2>1 DEF SetTenant, TypeOK
  <2>7. req[r].who \in Tenants => req[r].seen \subseteq {req[r].who}
    BY <2>1 DEF SeesOwnTenantOnly
  <2> QED BY <1>1, <2>3, <2>4, <2>5, <2>6, <2>7
<1>5. ASSUME NEW r \in Requests, Select(r) PROVE SeesOwnTenantOnly' /\ OwnSetting'
  <2>1. req[r] \in Request /\ req[r] # NoRequest /\ req[r].at = "set"
    BY <1>5, Holding DEF Select, At
  <2> DEFINE seen == {rows[i] : i \in {j \in DOMAIN rows : Visible(conns[req[r].conn].now, rows[j])}}
  <2>2. req[r].who \in Tenants => seen \subseteq {req[r].who}
    BY <2>1, SettingAssumption DEF OwnSetting, Visible
  <2>3. req' = [req EXCEPT ![r] = [req[r] EXCEPT !.seen = @ \union seen]]
    BY <1>5 DEF Select, Set
  <2> HIDE DEF seen
  <2>4. /\ req'[r].seen = req[r].seen \union seen /\ req'[r].who = req[r].who
        /\ req'[r].conn = req[r].conn
    BY <2>1, <2>3 DEF TypeOK, Request
  <2>5. \A q \in Requests \ {r} : req'[q] = req[q]
    BY <2>3 DEF TypeOK
  <2>6. req[r].who \in Tenants =>
          /\ req[r].seen \subseteq {req[r].who}
          /\ conns[req[r].conn].now = req[r].who
    BY <2>1 DEF SeesOwnTenantOnly, OwnSetting
  <2>7. conns' = conns
    BY <1>5 DEF Select
  <2> QED BY <1>1, <2>2, <2>4, <2>5, <2>6, <2>7
<1>6. ASSUME NEW r \in Requests, NEW i \in RowIds, NEW tenant \in Tenants, Insert(r, i, tenant)
      PROVE  SeesOwnTenantOnly' /\ OwnSetting'
  <2>1. req[r] \in Request /\ req[r] # NoRequest
    BY <1>6, Holding DEF Insert, At
  <2>2. /\ req'[r].seen = req[r].seen /\ req'[r].who = req[r].who
        /\ req'[r].conn = req[r].conn /\ req'[r].at = req[r].at
        /\ \A q \in Requests \ {r} : req'[q] = req[q]
        /\ conns' = conns
    BY <1>6, <2>1 DEF Insert, Set, TypeOK, Request
  <2>3. req[r].who \in Tenants =>
          /\ req[r].seen \subseteq {req[r].who}
          /\ req[r].at = "set" => conns[req[r].conn].now = req[r].who
    BY <2>1 DEF SeesOwnTenantOnly, OwnSetting
  <2> QED BY <1>1, <2>2, <2>3
<1>7. ASSUME NEW r \in Requests, NEW setting \in Setting, req[r] # NoRequest,
             req[r].at \notin {"begun", "committed"}, GiveBack(req[r].conn, setting),
             \A q \in Requests \ {r} : req'[q] = req[q],
             \/ req'[r] = NoRequest
             \/ req'[r] = [req[r] EXCEPT !.at = "committed", !.conn = NoConnection]
      PROVE  SeesOwnTenantOnly' /\ OwnSetting'
  <2>1. /\ req[r] \in Request /\ req[r].conn \in DOMAIN conns
        /\ \A q \in Requests \ {r} : req[q] # NoRequest => req[q].conn # req[r].conn
    BY <1>7, Holding
  <2>2. \A d \in DOMAIN conns \ {req[r].conn} : conns'[d] = conns[d]
    BY <1>7, <2>1, GivenBack
  <2>3. ASSUME NEW q \in Requests \ {r}, req[q] # NoRequest, req[q].at = "set"
        PROVE  conns'[req[q].conn] = conns[req[q].conn]
    <3>1. req[q].conn \in DOMAIN conns
      BY <2>3, Holding
    <3> QED BY <2>1, <2>2, <2>3, <3>1
  <2>4. req[r].who \in Tenants => req[r].seen \subseteq {req[r].who}
    BY <1>7 DEF SeesOwnTenantOnly
  <2>5. req'[r] # NoRequest =>
          req'[r].seen = req[r].seen /\ req'[r].who = req[r].who /\ req'[r].at = "committed"
    BY <1>7, <2>1 DEF Request
  <2> QED BY <1>1, <1>7, <2>3, <2>4, <2>5
<1>8. ASSUME NEW r \in Requests, NEW goesOn \in BOOLEAN, Commit(r, goesOn)
      PROVE  SeesOwnTenantOnly' /\ OwnSetting'
  <2>1. /\ req[r] # NoRequest /\ req[r].at = "set"
        /\ conns[req[r].conn] \in Conn /\ req \in [Requests -> Request \union {NoRequest}]
    BY <1>8, Holding DEF Commit, At, TypeOK
  <2>2. /\ \A q \in Requests \ {r} : req'[q] = req[q]
        /\ \/ req'[r] = NoRequest
           \/ req'[r] = [req[r] EXCEPT !.at = "committed", !.conn = NoConnection]
    BY <1>8, <2>1 DEF Commit, Set, Done
  <2> QED BY <1>7, <1>8, <2>1, <2>2 DEF Commit, Conn
<1>9. ASSUME NEW r \in Requests, Refresh(r) PROVE SeesOwnTenantOnly' /\ OwnSetting'
  <2>1. /\ req[r] # NoRequest /\ req[r].at = "again" /\ conns[req[r].conn] \in Conn
        /\ req \in [Requests -> Request \union {NoRequest}]
    BY <1>9, Holding DEF Refresh, At, TypeOK
  <2> QED BY <1>7, <1>9, <2>1 DEF Refresh, Conn, Done, Set
<1>10. ASSUME NEW r \in Requests, Rollback(r) PROVE SeesOwnTenantOnly' /\ OwnSetting'
  <2>1. /\ req[r] # NoRequest /\ req[r].at \in {"connected", "set", "again"}
        /\ conns[req[r].conn] \in Conn /\ req \in [Requests -> Request \union {NoRequest}]
    BY <1>10, Holding DEF Rollback, At, TypeOK
  <2> QED BY <1>7, <1>10, <2>1 DEF Rollback, Conn, Done, Set
<1>11. ASSUME NEW r \in Requests, GiveUp(r) PROVE SeesOwnTenantOnly' /\ OwnSetting'
  BY <1>1, <1>11 DEF GiveUp, Done, Set, TypeOK
<1>12. ASSUME NEW r \in Requests, NEW c \in Connections, TakeConnection(r, c)
       PROVE  SeesOwnTenantOnly' /\ OwnSetting'
  BY <1>3, <1>12 DEF TakeConnection, At
<1>13. ASSUME NEW r \in Requests, NEW c \in Connections, TakeAnother(r, c)
       PROVE  SeesOwnTenantOnly' /\ OwnSetting'
  BY <1>3, <1>13 DEF TakeAnother, At
<1>14. CASE UNCHANGED vars
  BY <1>14 DEF vars, SeesOwnTenantOnly, OwnSetting
<1> QED
  BY <1>2, <1>4, <1>5, <1>6, <1>8, <1>9, <1>10, <1>11, <1>12, <1>13, <1>14 DEF Next, Proceed

LEMMA Invariant == Spec => []IInv
<1>1. IInv /\ [Next]_vars => IInv'
  BY TypeKept, SettingKept DEF IInv
<1> QED BY Starts, <1>1, PTL DEF Spec

\* Rows, connections and requests keep their shape, and a connection is held by
\* one request.
THEOREM TypeCorrect == Spec => []TypeOK
<1>1. IInv => TypeOK
  BY DEF IInv
<1> QED BY Invariant, <1>1, PTL

\* A request with a tenant's token is shown rows of that tenant only, whatever
\* settings other requests have left on the connections of the pool.
THEOREM TenantsAreIsolated == Spec => []SeesOwnTenantOnly
<1>1. IInv => SeesOwnTenantOnly
  BY DEF IInv
<1> QED BY Invariant, <1>1, PTL
=============================================================================
