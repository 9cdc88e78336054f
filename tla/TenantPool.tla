------------------------------ MODULE TenantPool ------------------------------
(***************************************************************************)
(* The row policies and the connections they look at: core/tenant.py,      *)
(* core/database.py and the policies of the initial migration, for a       *)
(* database role that is subject to them.                                  *)
(*                                                                         *)
(* A session takes a connection of the pool with its first statement and   *)
(* gives it back with its commit or rollback.  SET app.current_tenant is   *)
(* a setting of the connection: a commit keeps it, for whoever takes the   *)
(* connection next, and a rollback takes it back.  Requests with a token   *)
(* SET their tenant first; login and registration SET nothing.  A handler  *)
(* that refreshes an object after its commit takes another connection and  *)
(* does not SET the tenant again.                                          *)
(***************************************************************************)
EXTENDS Integers, FiniteSets

CONSTANTS
  Tenants,
  All,          \* the setting of the platform operator
  Unset,        \* a connection on which nothing was SET; nobody's token
  RowIds,
  Connections,  \* pool_size and max_overflow together
  PoolSize,     \* connections the pool keeps when they are given back
  Requests,     \* slots for requests in flight at the same time
  MaxAsked,     \* bound of the requests sent
  NoRequest, NoConnection

VARIABLES
  rows,         \* the tables: id -> tenant of the row
  conns,        \* connection that is open -> setting kept and setting now
  asked,        \* how many requests have been sent
  req           \* slot -> the request in flight

vars == <<rows, conns, asked, req>>

Setting == Tenants \union {All, Unset}
Conn    == [kept : Setting, now : Setting]

Row     == [id : RowIds, tenant : Tenants]

\* who is the tenant of the token, All for the platform operator and Unset for
\* login and registration; seen are the tenants whose rows it was shown, wrote
\* the row it inserted.
Request == [who : Setting, at : {"begun", "connected", "set", "committed", "again"},
            conn : Connections \union {NoConnection},
            seen : SUBSET Tenants, wrote : SUBSET Row]

ASSUME SettingAssumption == All \notin Tenants /\ Unset \notin Tenants \union {All}
ASSUME BoundAssumption   == PoolSize \in Nat /\ MaxAsked \in Nat /\ IsFiniteSet(Connections)
ASSUME NullAssumption    == NoRequest \notin Request /\ NoConnection \notin Connections

-----------------------------------------------------------------------------
Held == {req[r].conn : r \in {q \in Requests : req[q] # NoRequest}}

\* Mutant: the pool hands out a connection that is held.
IdleOrHeld == DOMAIN conns

\* Open connections nobody holds.
Idle == DOMAIN conns \ Held

Without(c) == [d \in DOMAIN conns \ {c} |-> conns[d]]

\* POLICY tenant_isolation, for rows that are read and rows that are written;
\* a setting that was never SET is NULL and equals nothing.
Visible(setting, tenant) == setting = All \/ setting = tenant

Set(r, q) == req' = [req EXCEPT ![r] = q]
Done(r)   == Set(r, NoRequest)

\* The connection goes back to the pool, which closes it when it is full.
GiveBack(c, setting) ==
  conns' = IF Cardinality(Idle) < PoolSize
             THEN [conns EXCEPT ![c] = [kept |-> setting, now |-> setting]]
             ELSE Without(c)

-----------------------------------------------------------------------------
Init ==
  /\ rows = [i \in {} |-> {}]
  /\ conns = [c \in {} |-> {}]
  /\ asked = 0
  /\ req = [r \in Requests |-> NoRequest]

Begin(r, who) ==
  /\ req[r] = NoRequest /\ asked < MaxAsked
  /\ asked' = asked + 1
  /\ Set(r, [who |-> who, at |-> "begun", conn |-> NoConnection, seen |-> {}, wrote |-> {}])
  /\ UNCHANGED <<rows, conns>>

\* An idle connection or, when there is none, a new one.  An idle one that is
\* found broken is opened again.
Connect(r, c, at) ==
  /\ c \in Idle \/ (Idle = {} /\ c \in Connections \ DOMAIN conns)
  /\ \E setting \in {Unset} \union {conns[d].kept : d \in DOMAIN conns \intersect {c}} :
       conns' = [d \in DOMAIN conns \union {c} |->
                   IF d = c THEN [kept |-> setting, now |-> setting] ELSE conns[d]]
  /\ Set(r, [req[r] EXCEPT !.at = at, !.conn = c])
  /\ UNCHANGED <<rows, asked>>

At(r, at) == req[r] # NoRequest /\ req[r].at = at

TakeConnection(r, c) ==
  /\ At(r, "begun")
  /\ Connect(r, c, "connected")

\* Mutant: a connection that has a setting is not SET again.
SetTenantOnce(r) ==
  /\ At(r, "connected")
  /\ conns' = IF req[r].who = Unset \/ conns[req[r].conn].now # Unset
                THEN conns ELSE [conns EXCEPT ![req[r].conn].now = req[r].who]
  /\ Set(r, [req[r] EXCEPT !.at = "set"])
  /\ UNCHANGED <<rows, asked>>

\* get_tenant_db, or get_db alone for login and registration.
SetTenant(r) ==
  /\ At(r, "connected")
  /\ conns' = IF req[r].who = Unset
                THEN conns ELSE [conns EXCEPT ![req[r].conn].now = req[r].who]
  /\ Set(r, [req[r] EXCEPT !.at = "set"])
  /\ UNCHANGED <<rows, asked>>

\* A SELECT without any condition.
Select(r) ==
  /\ At(r, "set")
  /\ Set(r, [req[r] EXCEPT !.seen = @ \union
       {rows[i] : i \in {j \in DOMAIN rows : Visible(conns[req[r].conn].now, rows[j])}}])
  /\ UNCHANGED <<rows, conns, asked>>

\* The operator writes a row of any tenant, a registration one of a new tenant,
\* everybody else one of the own; a row the policy refuses is an exception.
Insert(r, i, tenant) ==
  /\ At(r, "set") /\ req[r].wrote = {}
  /\ i \notin DOMAIN rows
  /\ \A q \in Requests : req[q] # NoRequest => \A row \in req[q].wrote : row.id # i
  /\ req[r].who \in {tenant, All, Unset}
  /\ Visible(conns[req[r].conn].now, tenant)
  /\ Set(r, [req[r] EXCEPT !.wrote = {[id |-> i, tenant |-> tenant]}])
  /\ UNCHANGED <<rows, conns, asked>>

Stored(written) ==
  rows' = [i \in DOMAIN rows \union {row.id : row \in written} |->
             IF i \in DOMAIN rows THEN rows[i] ELSE (CHOOSE row \in written : row.id = i).tenant]

\* Mutant: the connection stays with the session that goes on.
CommitKeeping(r, goesOn) ==
  /\ At(r, "set")
  /\ Stored(req[r].wrote)
  /\ IF goesOn
       THEN Set(r, [req[r] EXCEPT !.at = "committed"]) /\ UNCHANGED conns
       ELSE Done(r) /\ GiveBack(req[r].conn, conns[req[r].conn].now)
  /\ UNCHANGED asked

\* A handler that has written a row and returns it goes on to refresh it.
Commit(r, goesOn) ==
  /\ At(r, "set")
  /\ goesOn => req[r].wrote # {}
  /\ Stored(req[r].wrote)
  /\ GiveBack(req[r].conn, conns[req[r].conn].now)
  /\ IF goesOn
       THEN Set(r, [req[r] EXCEPT !.at = "committed", !.conn = NoConnection])
       ELSE Done(r)
  /\ UNCHANGED asked

TakeAnother(r, c) ==
  /\ At(r, "committed")
  /\ Connect(r, c, "again")

\* session.refresh: the row by its key, or an exception when it is not visible.
Refresh(r) ==
  /\ At(r, "again")
  /\ GiveBack(req[r].conn, conns[req[r].conn].now)
  /\ Done(r)
  /\ UNCHANGED <<rows, asked>>

\* An exception: the rollback takes the SET back with everything else.
Rollback(r) ==
  /\ At(r, "connected") \/ At(r, "set") \/ At(r, "again")
  /\ GiveBack(req[r].conn, conns[req[r].conn].kept)
  /\ Done(r)
  /\ UNCHANGED <<rows, asked>>

\* The pool makes nobody wait for more than 30 seconds.
GiveUp(r) ==
  /\ At(r, "begun") \/ At(r, "committed")
  /\ Done(r)
  /\ UNCHANGED <<rows, conns, asked>>

-----------------------------------------------------------------------------
Proceed(r) ==
  \/ \E c \in Connections : TakeConnection(r, c) \/ TakeAnother(r, c)
  \/ SetTenant(r)
  \/ Select(r)
  \/ \E i \in RowIds, tenant \in Tenants : Insert(r, i, tenant)
  \/ \E goesOn \in BOOLEAN : Commit(r, goesOn)
  \/ Refresh(r)
  \/ Rollback(r)

Next ==
  \E r \in Requests : (\E who \in Setting : Begin(r, who)) \/ Proceed(r) \/ GiveUp(r)

Spec == Init /\ [][Next]_vars

\* A handler goes on; it need not give up.
FairSpec == Spec /\ \A r \in Requests : WF_vars(Proceed(r))
-----------------------------------------------------------------------------
(* Properties.                                                             *)

\* Connections that are held are open, and held by one request.
TypeOK ==
  /\ DOMAIN rows \subseteq RowIds /\ rows \in [DOMAIN rows -> Tenants]
  /\ DOMAIN conns \subseteq Connections /\ conns \in [DOMAIN conns -> Conn]
  /\ asked \in 0..MaxAsked
  /\ req \in [Requests -> Request \union {NoRequest}]
  /\ \A r \in Requests :
       req[r] # NoRequest =>
         /\ req[r].conn = NoConnection => req[r].at \in {"begun", "committed"}
         /\ req[r].conn # NoConnection =>
              /\ req[r].conn \in DOMAIN conns
              /\ \A q \in Requests \ {r} : req[q] # NoRequest => req[q].conn # req[r].conn

\* README.md:99, "DB 레벨 RLS 정책으로 테넌트 격리를 보장": whatever condition a SELECT
\* forgets, a request with a tenant's token is shown rows of that tenant only,
\* on whichever connection another request has left its own setting.
SeesOwnTenantOnly ==
  \A r \in Requests :
    req[r] # NoRequest /\ req[r].who \in Tenants => req[r].seen \subseteq {req[r].who}

\* No request waits for ever, not even for its second connection while all
\* connections are taken.
RequestsEnd == \A r \in Requests : req[r] # NoRequest ~> req[r] = NoRequest
=============================================================================
