------------------------------ MODULE StaffProofs ------------------------------
(***************************************************************************)
(* Proofs about Staff, for any number of organisations, accounts, tokens   *)
(* and requests.                                                           *)
(***************************************************************************)
EXTENDS Staff, TLAPS

UserRequest == UpdateRequest \union RetireRequest \union TransferRequest

\* The rows a request names exist, those of accounts in one organisation, and a
\* transfer makes its target an administrator and does nothing else to it.
RequestOK(q) ==
  /\ q \in TenantRequest => q.on \in DOMAIN tenants
  /\ q \in UserRequest =>
       /\ q.by \in DOMAIN users /\ q.on \in DOMAIN users
       /\ users[q.by].tenant = users[q.on].tenant
  /\ q \in TransferRequest =>
       /\ q.by # q.on
       /\ q.set.active = {} /\ q.set.role \subseteq {"tenant_admin"} /\ q.me.active = {}

RequestsOK == \A r \in Requests : RequestOK(req[r])

\* Tokens are of accounts, and so are assignments.
Known ==
  /\ \A token \in tokens : token.user \in DOMAIN users
  /\ \A u \in Emails \ DOMAIN users : assigned[u] = {}

IInv == TypeOK /\ RequestsOK /\ Known /\ RegistrationIsWhole /\ ChangesAreOnRecord

\* No row disappears, an account stays with its organisation, and business units
\* come with the registration only.
RowsKept ==
  /\ DOMAIN users \subseteq DOMAIN users'
  /\ \A u \in DOMAIN users : users'[u].tenant = users[u].tenant
  /\ DOMAIN tenants \subseteq DOMAIN tenants'

-----------------------------------------------------------------------------
(* Columns.                                                                *)

LEMMA ColumnValues ==
  /\ \A x, stored : Column({x}, stored) = x
  /\ \A stored : Column({}, stored) = stored
<1>1. ASSUME NEW x, NEW stored PROVE Column({x}, stored) = x
  <2>1. {x} # {}
    OBVIOUS
  <2>2. Column({x}, stored) = CHOOSE value \in {x} : TRUE
    BY <2>1, Zenon DEF Column
  <2>3. (CHOOSE value \in {x} : TRUE) \in {x}
    BY Zenon
  <2> QED BY <2>2, <2>3
<1>2. \A stored : Column({}, stored) = stored
  BY DEF Column
<1> QED BY <1>1, <1>2

LEMMA ActiveColumn ==
  ASSUME NEW sent \in {{}, {TRUE}, {FALSE}}, NEW stored \in BOOLEAN
  PROVE  Column(sent, stored) \in BOOLEAN
<1>1. CASE sent = {}
  BY <1>1, ColumnValues
<1>2. CASE sent = {TRUE}
  BY <1>2, ColumnValues
<1>3. CASE sent = {FALSE}
  BY <1>3, ColumnValues
<1> QED BY <1>1, <1>2, <1>3

\* An account that is updated keeps its organisation.
LEMMA UpdatedRow ==
  ASSUME NEW row \in User, NEW set \in Columns
  PROVE  /\ Updated(row, set) \in User
         /\ Updated(row, set).tenant = row.tenant
         /\ Updated(row, set).role = Column(set.role, row.role)
         /\ Updated(row, set).active = Column(set.active, row.active)
<1>1. Column(set.role, row.role) \in Role
  <2>1. CASE set.role = {}
    BY <2>1, ColumnValues DEF User
  <2>2. CASE set.role # {}
    <3>1. PICK role \in Role : set.role = {role}
      BY <2>2 DEF Columns
    <3> QED BY <3>1, ColumnValues
  <2> QED BY <2>1, <2>2
<1>2. Column(set.active, row.active) \in BOOLEAN
  BY ColumnValues DEF Columns, User
<1> QED BY <1>1, <1>2 DEF Updated, User

LEMMA ChangedColumns ==
  /\ \A found : \A role \in Role : Changed(found, role) \in {{}} \union {{r} : r \in Role}
  /\ \A found : \A value \in BOOLEAN : Changed(found, value) \in {{}, {TRUE}, {FALSE}}
  /\ \A found : \A name \in Names : Changed(found, name) \in {{}} \union {{n} : n \in Names}
BY DEF Changed

LEMMA RoleNames == "tenant_admin" \in Role /\ "social_worker" \in Role
BY DEF Role

-----------------------------------------------------------------------------
(* Requests.                                                               *)

\* Requests of different kinds are told apart by their operation.
LEMMA Kinds ==
  ASSUME NEW q \in Request
  PROVE  /\ q # NoRequest
         /\ q \in TenantRequest => q \notin UserRequest \union RegisterRequest
         /\ q \in UserRequest => q \notin RegisterRequest
         /\ q \in UpdateRequest => q \notin RetireRequest \union TransferRequest
         /\ q \in RetireRequest => q \notin TransferRequest
<1>1. q # NoRequest
  BY NullAssumption
<1>2. /\ q \in TenantRequest => q.op \in {"update_tenant", "delete_tenant"}
      /\ q \in RegisterRequest => q.op = "register"
      /\ q \in UpdateRequest => q.op = "update_user"
      /\ q \in RetireRequest => q.op \in {"deactivate_user", "delete_user"}
      /\ q \in TransferRequest => q.op = "transfer_admin"
  BY DEF TenantRequest, RegisterRequest, UpdateRequest, RetireRequest, TransferRequest
<1> QED BY <1>1, <1>2 DEF UserRequest

LEMMA NoRequestOK == RequestOK(NoRequest)
<1>1. NoRequest \notin Request
  BY NullAssumption
<1> QED BY <1>1 DEF RequestOK, UserRequest, Request

\* A step that keeps the rows and changes one slot need only be right about it.
LEMMA OneSlot ==
  ASSUME TypeOK, RequestsOK, RowsKept, NEW r \in Requests, NEW q, Set(r, q), RequestOK(q)'
  PROVE  RequestsOK'
<1> SUFFICES ASSUME NEW s \in Requests PROVE RequestOK(req[s])'
  BY DEF RequestsOK
<1>1. req' = [req EXCEPT ![r] = q] /\ req \in [Requests -> Request \union {NoRequest}]
  BY DEF Set, TypeOK
<1>2. CASE s = r
  BY <1>1, <1>2 DEF RequestOK
<1>3. CASE s # r
  <2>1. req'[s] = req[s]
    BY <1>1, <1>3
  <2>2. RequestOK(req[s])
    BY DEF RequestsOK
  <2> QED BY <2>1, <2>2 DEF RequestOK, RowsKept
<1> QED BY <1>2, <1>3

\* A step that only looks, with a request that is right.
LEMMA Looking ==
  ASSUME IInv, NEW r \in Requests, NEW q \in Request \union {NoRequest}, Look(r, q), RequestOK(q)
  PROVE  IInv'
<1>1. UNCHANGED <<tenants, users, assigned, tokens, audited>> /\ req' = [req EXCEPT ![r] = q]
  BY DEF Look, Set
<1>2. TypeOK'
  BY <1>1 DEF IInv, TypeOK
<1>3. RequestsOK'
  <2>1. RowsKept /\ RequestOK(q)'
    BY <1>1 DEF RowsKept, RequestOK
  <2> QED BY <2>1, OneSlot DEF IInv, Look
<1>4. Known' /\ RegistrationIsWhole' /\ ChangesAreOnRecord'
  BY <1>1 DEF IInv, Known, RegistrationIsWhole, ChangesAreOnRecord
<1> QED BY <1>2, <1>3, <1>4 DEF IInv

-----------------------------------------------------------------------------
(* Steps.                                                                  *)

LEMMA Starts == Init => IInv
<1> SUFFICES ASSUME Init PROVE IInv
  OBVIOUS
<1>1. TypeOK
  BY DEF Init, TypeOK
<1>2. RequestsOK
  BY NoRequestOK DEF Init, RequestsOK
<1>3. Known /\ RegistrationIsWhole /\ ChangesAreOnRecord
  BY DEF Init, Known, RegistrationIsWhole, ChangesAreOnRecord
<1> QED BY <1>1, <1>2, <1>3 DEF IInv

\* Signing a token and its expiry touch nothing else.
LEMMA Signing ==
  ASSUME IInv, UNCHANGED <<tenants, users, assigned, audited, req>>, tokens' \subseteq Token,
         \A token \in tokens' : token.user \in DOMAIN users
  PROVE  IInv'
<1>1. TypeOK'
  BY DEF IInv, TypeOK
<1>2. RequestsOK'
  BY DEF IInv, RequestsOK, RequestOK
<1>3. Known' /\ RegistrationIsWhole' /\ ChangesAreOnRecord'
  BY DEF IInv, Known, RegistrationIsWhole, ChangesAreOnRecord
<1> QED BY <1>1, <1>2, <1>3 DEF IInv

LEMMA Timing ==
  ASSUME IInv, Time
  PROVE  IInv'
<1>1. ASSUME NEW u \in Emails, SignToken(u) PROVE IInv'
  <2>1. [user |-> u, role |-> users[u].role] \in Token
    BY <1>1 DEF SignToken, IInv, TypeOK, User, Token
  <2> QED BY <1>1, <2>1, Signing DEF SignToken, IInv, TypeOK, Known
<1>2. ASSUME NEW token \in Token, TokenExpires(token) PROVE IInv'
  BY <1>2, Signing DEF TokenExpires, IInv, TypeOK, Known
<1> QED BY <1>1, <1>2 DEF Time

\* A step that gives nobody a new account and ends the request.
LEMMA Founding ==
  ASSUME IInv, NEW r \in Requests, Set(r, NoRequest) \/ UNCHANGED req,
         UNCHANGED <<users, assigned, tokens, audited>>,
         DOMAIN tenants \subseteq DOMAIN tenants', DOMAIN tenants' \subseteq TenantIds,
         tenants' \in [DOMAIN tenants' -> Tenant],
         \A t \in DOMAIN tenants' :
           tenants'[t].types = {} \/ (t \in DOMAIN tenants /\ tenants'[t].types = tenants[t].types)
  PROVE  IInv'
<1>1. TypeOK'
  BY DEF IInv, TypeOK, Set
<1>2. RequestsOK'
  <2>1. RowsKept
    BY DEF RowsKept
  <2>2. CASE Set(r, NoRequest)
    <3>1. RequestOK(NoRequest)'
      BY NullAssumption DEF RequestOK, UserRequest, Request
    <3> QED BY <2>1, <2>2, <3>1, OneSlot DEF IInv
  <2>3. CASE UNCHANGED req
    BY <2>1, <2>3 DEF IInv, RequestsOK, RequestOK, RowsKept
  <2> QED BY <2>2, <2>3
<1>3. Known' /\ RegistrationIsWhole' /\ ChangesAreOnRecord'
  BY DEF IInv, Known, RegistrationIsWhole, ChangesAreOnRecord
<1> QED BY <1>1, <1>2, <1>3 DEF IInv

\* A new account, alone or with its organisation.
LEMMA Joining ==
  ASSUME IInv, NEW r \in Requests, Set(r, NoRequest) \/ UNCHANGED req,
         UNCHANGED <<tokens, audited>>,
         NEW u \in Emails \ DOMAIN users, NEW row \in User, row.active,
         users' = With(users, u, row),
         assigned' \in [Emails -> SUBSET UnitIds],
         \A v \in Emails \ {u} : assigned'[v] = assigned[v],
         DOMAIN tenants \subseteq DOMAIN tenants', DOMAIN tenants' \subseteq TenantIds,
         tenants' \in [DOMAIN tenants' -> Tenant],
         \A t \in DOMAIN tenants' :
           \/ t = row.tenant
           \/ t \in DOMAIN tenants /\ tenants'[t].types = tenants[t].types
  PROVE  IInv'
<1>1. /\ DOMAIN users' = DOMAIN users \union {u}
      /\ users'[u] = row
      /\ \A v \in DOMAIN users : users'[v] = users[v]
  BY DEF With
<1>2. TypeOK'
  <2>1. users' \in [DOMAIN users' -> User]
    BY <1>1 DEF With, IInv, TypeOK
  <2> QED BY <1>1, <2>1 DEF IInv, TypeOK, Set
<1>3. RequestsOK'
  <2>1. RowsKept
    BY <1>1 DEF RowsKept
  <2>2. CASE Set(r, NoRequest)
    <3>1. RequestOK(NoRequest)'
      BY NullAssumption DEF RequestOK, UserRequest, Request
    <3> QED BY <2>1, <2>2, <3>1, OneSlot DEF IInv
  <2>3. CASE UNCHANGED req
    BY <2>1, <2>3 DEF IInv, RequestsOK, RequestOK, RowsKept
  <2> QED BY <2>2, <2>3
<1>4. Known'
  BY <1>1 DEF IInv, Known
<1>5. RegistrationIsWhole'
  BY <1>1 DEF IInv, RegistrationIsWhole
<1>6. ChangesAreOnRecord'
  BY <1>1 DEF IInv, ChangesAreOnRecord
<1> QED BY <1>2, <1>3, <1>4, <1>5, <1>6 DEF IInv

\* The commit of a request about accounts, which lets out its target at most.
LEMMA Updating ==
  ASSUME IInv, NEW r \in Requests, req[r] \in UserRequest, Done(r), Audit(req[r].on, req[r].by),
         UNCHANGED <<tenants, tokens>>,
         DOMAIN users' = DOMAIN users, users' \in [DOMAIN users -> User],
         \A u \in DOMAIN users : /\ users'[u].tenant = users[u].tenant
                                 /\ ~users'[u].active => ~users[u].active \/ u = req[r].on,
         assigned' \in [Emails -> SUBSET UnitIds],
         \A u \in Emails \ DOMAIN users : assigned'[u] = assigned[u]
  PROVE  IInv'
<1>1. /\ req[r].by \in DOMAIN users /\ req[r].on \in DOMAIN users
      /\ users[req[r].by].tenant = users[req[r].on].tenant
  BY DEF IInv, RequestsOK, RequestOK
<1>2. [on |-> req[r].on, tenant |-> users[req[r].by].tenant] \in Entry
  BY <1>1 DEF IInv, TypeOK, User, Entry
<1>3. TypeOK'
  BY <1>2 DEF IInv, TypeOK, Done, Set, Audit
<1>4. RequestsOK'
  <2>1. RowsKept
    BY DEF RowsKept
  <2>2. RequestOK(NoRequest)'
    BY NullAssumption DEF RequestOK, UserRequest, Request
  <2> QED BY <2>1, <2>2, OneSlot DEF IInv, Done
<1>5. Known'
  BY DEF IInv, Known
<1>6. RegistrationIsWhole'
  BY DEF IInv, RegistrationIsWhole
<1>7. ChangesAreOnRecord'
  <2> SUFFICES ASSUME NEW u \in DOMAIN users, ~users'[u].active
               PROVE  [on |-> u, tenant |-> users'[u].tenant] \in audited'
    BY DEF ChangesAreOnRecord
  <2>1. CASE u = req[r].on
    BY <2>1, <1>1 DEF Audit
  <2>2. CASE u # req[r].on
    BY <2>2 DEF IInv, ChangesAreOnRecord, Audit
  <2> QED BY <2>1, <2>2
<1> QED BY <1>3, <1>4, <1>5, <1>6, <1>7 DEF IInv

\* What TypeOK says of a request about accounts that may commit.
LEMMA CommitFound ==
  ASSUME IInv, NEW r \in Requests, req[r] \in UserRequest
  PROVE  /\ users[req[r].on] \in User /\ users[req[r].by] \in User
         /\ req[r].on \in DOMAIN users /\ req[r].by \in DOMAIN users
         /\ req[r].set \in Columns
<1>1. req[r].on \in DOMAIN users /\ req[r].by \in DOMAIN users
  BY DEF IInv, RequestsOK, RequestOK
<1>2. req[r].set \in Columns
  BY DEF UserRequest, UpdateRequest, RetireRequest, TransferRequest
<1> QED BY <1>1, <1>2 DEF IInv, TypeOK

\* A request about an account of the organisation of a token.
LEMMA AskFound ==
  ASSUME IInv, NEW token \in tokens, NEW u \in Emails, UserFound(token.user, u)
  PROVE  /\ token.user \in DOMAIN users /\ u \in DOMAIN users /\ token.user \in Emails
         /\ users[token.user].tenant = users[u].tenant
         /\ users[u] \in User
BY DEF IInv, TypeOK, Known, UserFound

LEMMA Registering ==
  ASSUME IInv, NEW r \in Requests
  PROVE  /\ \A u \in Emails, name \in Names, types \in (SUBSET Types) \ {{}} :
              Register(r, u, name, types) => IInv'
         /\ CheckName(r) => IInv'
         /\ \A t \in TenantIds : CommitRegister(r, t) => IInv'
<1>1. ASSUME NEW u \in Emails, NEW name \in Names, NEW types \in (SUBSET Types) \ {{}},
             Register(r, u, name, types)
      PROVE  IInv'
  <2> DEFINE q == [op |-> "register", at |-> "email", email |-> u, name |-> name, types |-> types]
  <2>1. q \in RegisterRequest
    BY DEF RegisterRequest
  <2>2. q \in Request
    BY <2>1 DEF Request
  <2>3. RequestOK(q)
    BY <2>1, <2>2, Kinds DEF RequestOK, UserRequest
  <2> QED BY <1>1, <2>2, <2>3, Looking DEF Register
<1>2. ASSUME CheckName(r) PROVE IInv'
  <2> DEFINE q == [req[r] EXCEPT !.at = "name"]
  <2>1. q \in RegisterRequest
    BY <1>2 DEF CheckName, RegisterRequest
  <2>2. q \in Request
    BY <2>1 DEF Request
  <2>3. RequestOK(q)
    BY <2>1, <2>2, Kinds DEF RequestOK, UserRequest
  <2> QED BY <1>2, <2>2, <2>3, NoRequestOK, Looking DEF CheckName
<1>3. ASSUME NEW t \in TenantIds, CommitRegister(r, t) PROVE IInv'
  <2> DEFINE row == [tenant |-> t, role |-> "tenant_admin", active |-> TRUE]
  <2>1. row \in User
    BY RoleNames DEF User
  <2>2. Founded(req[r]) \in Tenant /\ req[r].email \in Emails
    BY <1>3 DEF CommitRegister, RegisterRequest, Founded, Tenant
  <2>3. /\ DOMAIN tenants' = DOMAIN tenants \union {t}
        /\ tenants' \in [DOMAIN tenants' -> Tenant]
        /\ \A o \in DOMAIN tenants : tenants'[o] = tenants[o]
    BY <1>3, <2>2 DEF CommitRegister, With, IInv, TypeOK
  <2>4. users' = With(users, req[r].email, row) /\ req[r].email \notin DOMAIN users /\ row.active
    BY <1>3 DEF CommitRegister
  <2>5. UNCHANGED <<assigned, tokens, audited>> /\ Set(r, NoRequest)
    BY <1>3 DEF CommitRegister, Done
  <2>6. DOMAIN tenants' \subseteq TenantIds /\ assigned' \in [Emails -> SUBSET UnitIds]
    BY <2>3, <2>5 DEF IInv, TypeOK
  <2>7. row.tenant = t
    OBVIOUS
  <2> HIDE DEF row
  <2> QED BY <2>1, <2>2, <2>3, <2>4, <2>5, <2>6, <2>7, Joining
<1> QED BY <1>1, <1>2, <1>3

LEMMA Operating ==
  ASSUME IInv, NEW r \in Requests
  PROVE  /\ AskAsOperator(r) => IInv'
         /\ CommitTenant(r) => IInv'
<1>1. ASSUME NEW t \in TenantIds, NEW name \in Names, CreateTenant(r, t, name) PROVE IInv'
  <2>1. [name |-> name, active |-> TRUE, types |-> {}] \in Tenant
    BY DEF Tenant
  <2>2. /\ DOMAIN tenants' = DOMAIN tenants \union {t}
        /\ tenants' \in [DOMAIN tenants \union {t} -> Tenant]
        /\ tenants'[t].types = {}
        /\ \A o \in DOMAIN tenants : tenants'[o] = tenants[o]
    BY <1>1, <2>1 DEF CreateTenant, With, IInv, TypeOK
  <2>3. UNCHANGED <<users, assigned, tokens, audited, req>> /\ DOMAIN tenants' \subseteq TenantIds
    BY <1>1, <2>2 DEF CreateTenant, IInv, TypeOK
  <2>4. \A o \in DOMAIN tenants' :
          tenants'[o].types = {} \/ (o \in DOMAIN tenants /\ tenants'[o].types = tenants[o].types)
    <3> SUFFICES ASSUME NEW o \in DOMAIN tenants'
                 PROVE  \/ tenants'[o].types = {}
                        \/ o \in DOMAIN tenants /\ tenants'[o].types = tenants[o].types
      OBVIOUS
    <3>1. CASE o = t
      BY <2>2, <3>1
    <3>2. CASE o # t
      <4>1. o \in DOMAIN tenants
        BY <2>2, <3>2
      <4>2. tenants'[o] = tenants[o]
        BY <2>2, <4>1
      <4> QED BY <4>1, <4>2
    <3> QED BY <3>1, <3>2
  <2>5. DOMAIN tenants \subseteq DOMAIN tenants' /\ tenants' \in [DOMAIN tenants' -> Tenant]
    BY <2>2
  <2>6. UNCHANGED req /\ UNCHANGED <<users, assigned, tokens, audited>>
    BY <2>3
  <2> QED BY <2>3, <2>4, <2>5, <2>6, Founding
<1>2. ASSUME NEW q \in TenantRequest, q.on \in DOMAIN tenants, Look(r, q) PROVE IInv'
  <2>1. q \in Request
    BY DEF Request
  <2>2. RequestOK(q)
    BY <1>2, <2>1, Kinds DEF RequestOK, UserRequest
  <2> QED BY <1>2, <2>1, <2>2, Looking
<1>3. ASSUME NEW t \in TenantIds, NEW name \in Names, NEW active \in BOOLEAN,
             UpdateTenant(r, t, name, active)
      PROVE  IInv'
  <2> DEFINE set == [name |-> Changed(tenants[t].name, name),
                     active |-> Changed(tenants[t].active, active)]
  <2>1. set \in TenantColumns
    BY ChangedColumns DEF TenantColumns
  <2>2. [op |-> "update_tenant", on |-> t, set |-> set] \in TenantRequest
    BY <2>1 DEF TenantRequest
  <2> QED BY <1>2, <1>3, <2>2 DEF UpdateTenant
<1>4. ASSUME NEW t \in TenantIds, DeleteTenant(r, t) PROVE IInv'
  <2> DEFINE set == [name |-> {}, active |-> Changed(tenants[t].active, FALSE)]
  <2>1. set \in TenantColumns
    BY ChangedColumns DEF TenantColumns
  <2>2. [op |-> "delete_tenant", on |-> t, set |-> set] \in TenantRequest
    BY <2>1 DEF TenantRequest
  <2> QED BY <1>2, <1>4, <2>2 DEF DeleteTenant
<1>5. ASSUME CommitTenant(r) PROVE IInv'
  <2>1. req[r].on \in DOMAIN tenants /\ req[r].set \in TenantColumns
    BY <1>5 DEF CommitTenant, IInv, RequestsOK, RequestOK, TenantRequest
  <2> DEFINE row == tenants[req[r].on]
  <2>2. row \in Tenant
    BY <2>1 DEF IInv, TypeOK
  <2>3. Column(req[r].set.name, row.name) \in Names
    <3>1. CASE req[r].set.name = {}
      BY <2>2, <3>1, ColumnValues DEF Tenant
    <3>2. CASE req[r].set.name # {}
      <4>1. PICK name \in Names : req[r].set.name = {name}
        BY <2>1, <3>2 DEF TenantColumns
      <4> QED BY <4>1, ColumnValues
    <3> QED BY <3>1, <3>2
  <2>4. Column(req[r].set.active, row.active) \in BOOLEAN
    <3>1. row.active \in BOOLEAN /\ req[r].set.active \in {{}, {TRUE}, {FALSE}}
      BY <2>1, <2>2 DEF TenantColumns, Tenant
    <3> QED BY <3>1, ActiveColumn
  <2>5. /\ DOMAIN tenants' = DOMAIN tenants
        /\ tenants' \in [DOMAIN tenants -> Tenant]
        /\ \A t \in DOMAIN tenants : tenants'[t].types = tenants[t].types
    BY <1>5, <2>1, <2>2, <2>3, <2>4 DEF CommitTenant, IInv, TypeOK, Tenant
  <2> QED BY <1>5, <2>5, Founding DEF CommitTenant, Done, IInv, TypeOK
<1> QED BY <1>1, <1>3, <1>4, <1>5 DEF AskAsOperator

\* A request on an account is right when it names two accounts of one organisation.
LEMMA AskingAbout ==
  ASSUME IInv, NEW r \in Requests, NEW q \in UpdateRequest \union RetireRequest, Look(r, q),
         q.by \in DOMAIN users, q.on \in DOMAIN users,
         users[q.by].tenant = users[q.on].tenant
  PROVE  IInv'
<1>1. q \in Request /\ q \in UserRequest
  BY DEF Request, UserRequest
<1>2. RequestOK(q)
  BY <1>1, Kinds DEF RequestOK
<1> QED BY <1>1, <1>2, Looking

LEMMA Retiring ==
  ASSUME IInv, NEW r \in Requests
  PROVE  /\ \A token \in tokens, u \in Emails :
              DeactivateUser(r, token.user, u) \/ DeleteUser(r, token.user, u) => IInv'
         /\ CommitRetire(r) => IInv'
<1>1. ASSUME NEW token \in tokens, NEW u \in Emails, UserFound(token.user, u),
             NEW op \in {"deactivate_user", "delete_user"},
             Look(r, [op |-> op, by |-> token.user, on |-> u, set |-> Deactivated(users[u])])
      PROVE  IInv'
  <2>1. Deactivated(users[u]) \in Columns
    BY ChangedColumns DEF Deactivated, Columns
  <2>2. [op |-> op, by |-> token.user, on |-> u, set |-> Deactivated(users[u])] \in RetireRequest
    BY <1>1, <2>1, AskFound DEF RetireRequest
  <2> QED BY <1>1, <2>2, AskFound, AskingAbout
<1>2. ASSUME CommitRetire(r) PROVE IInv'
  <2>1. req[r] \in UserRequest
    BY <1>2 DEF CommitRetire, UserRequest
  <2>2. /\ Updated(users[req[r].on], req[r].set) \in User
        /\ Updated(users[req[r].on], req[r].set).tenant = users[req[r].on].tenant
    BY <2>1, CommitFound, UpdatedRow
  <2>3. /\ DOMAIN users' = DOMAIN users /\ users' \in [DOMAIN users -> User]
        /\ \A u \in DOMAIN users : /\ users'[u].tenant = users[u].tenant
                                   /\ u # req[r].on => users'[u] = users[u]
    BY <1>2, <2>1, <2>2, CommitFound DEF CommitRetire, IInv, TypeOK
  <2> QED BY <1>2, <2>1, <2>3, Updating DEF CommitRetire, IInv, TypeOK
<1> QED BY <1>1, <1>2 DEF DeactivateUser, DeleteUser

LEMMA Employing ==
  ASSUME IInv, NEW r \in Requests, NEW token \in tokens, NEW u \in Emails
  PROVE  \A role \in RolesSent, units \in SUBSET UnitIds :
           CreateUser(r, token.user, u, role, units) => IInv'
<1> SUFFICES ASSUME NEW role \in RolesSent, NEW units \in SUBSET UnitIds,
                    CreateUser(r, token.user, u, role, units)
             PROVE  IInv'
  OBVIOUS
<1> DEFINE row == [tenant |-> users[token.user].tenant, role |-> role, active |-> TRUE]
<1>1. row \in User
  BY BoundAssumption DEF IInv, TypeOK, Known, User
<1>2. users' = With(users, u, row) /\ u \in Emails \ DOMAIN users /\ row.active
  BY DEF CreateUser
<1>3. /\ assigned' \in [Emails -> SUBSET UnitIds]
      /\ \A v \in Emails \ {u} : assigned'[v] = assigned[v]
  BY DEF CreateUser, IInv, TypeOK
<1>4. UNCHANGED req /\ UNCHANGED <<tokens, audited>> /\ UNCHANGED tenants
  BY DEF CreateUser
<1>5. /\ DOMAIN tenants \subseteq DOMAIN tenants' /\ DOMAIN tenants' \subseteq TenantIds
      /\ tenants' \in [DOMAIN tenants' -> Tenant]
      /\ \A t \in DOMAIN tenants' :
           \/ t = row.tenant
           \/ t \in DOMAIN tenants /\ tenants'[t].types = tenants[t].types
  BY <1>4 DEF IInv, TypeOK
<1> HIDE DEF row
<1> QED BY <1>1, <1>2, <1>3, <1>4, <1>5, Joining

LEMMA Editing ==
  ASSUME IInv, NEW r \in Requests
  PROVE  /\ \A token \in tokens, u \in Emails, role \in Role, active \in BOOLEAN,
              units \in (SUBSET UnitIds) \union {Unsent} :
              UpdateUser(r, token.user, u, role, active, units) => IInv'
         /\ ListAssigned(r) => IInv'
         /\ CommitUpdateUser(r) => IInv'
<1>1. ASSUME NEW token \in tokens, NEW u \in Emails, NEW role \in Role, NEW active \in BOOLEAN,
             NEW units \in (SUBSET UnitIds) \union {Unsent},
             UpdateUser(r, token.user, u, role, active, units)
      PROVE  IInv'
  <2> DEFINE set == [role |-> Changed(users[u].role, role),
                     active |-> Changed(users[u].active, active)]
             q == [op |-> "update_user", at |-> IF units = Unsent THEN "listed" ELSE "selected",
                   by |-> token.user, on |-> u, set |-> set, units |-> units, listed |-> {}]
  <2>1. set \in Columns
    BY ChangedColumns DEF Columns
  <2>2. UserFound(token.user, u) /\ Look(r, q)
    BY <1>1 DEF UpdateUser
  <2>3. token.user \in Emails
    BY <2>2, AskFound
  <2>4. q \in UpdateRequest
    BY <2>1, <2>3 DEF UpdateRequest
  <2>5. q.by = token.user /\ q.on = u
    OBVIOUS
  <2> HIDE DEF q
  <2> QED BY <2>2, <2>4, <2>5, AskFound, AskingAbout
<1>2. ASSUME ListAssigned(r) PROVE IInv'
  <2> DEFINE q == [req[r] EXCEPT !.at = "listed", !.listed = assigned[req[r].on]]
  <2>1. req[r] \in UpdateRequest /\ req[r] \in UserRequest /\ Look(r, q)
    BY <1>2 DEF ListAssigned, UserRequest
  <2>2. assigned[req[r].on] \in SUBSET UnitIds
    BY <2>1 DEF IInv, TypeOK, UpdateRequest
  <2>3. q \in UpdateRequest /\ q.by = req[r].by /\ q.on = req[r].on
    BY <2>1, <2>2 DEF UpdateRequest
  <2>4. /\ req[r].by \in DOMAIN users /\ req[r].on \in DOMAIN users
        /\ users[req[r].by].tenant = users[req[r].on].tenant
    BY <2>1 DEF IInv, RequestsOK, RequestOK
  <2> HIDE DEF q
  <2> QED BY <2>1, <2>3, <2>4, AskingAbout
<1>3. ASSUME CommitUpdateUser(r) PROVE IInv'
  <2>1. req[r] \in UpdateRequest /\ req[r] \in UserRequest
    BY <1>3 DEF CommitUpdateUser, UserRequest
  <2>2. /\ Updated(users[req[r].on], req[r].set) \in User
        /\ Updated(users[req[r].on], req[r].set).tenant = users[req[r].on].tenant
    BY <2>1, CommitFound, UpdatedRow
  <2>3. /\ DOMAIN users' = DOMAIN users /\ users' \in [DOMAIN users -> User]
        /\ \A u \in DOMAIN users : /\ users'[u].tenant = users[u].tenant
                                   /\ u # req[r].on => users'[u] = users[u]
    BY <1>3, <2>1, <2>2, CommitFound DEF CommitUpdateUser, IInv, TypeOK
  <2>4. Sent(req[r]) \in SUBSET UnitIds /\ req[r].listed \in SUBSET UnitIds
    BY <2>1 DEF Sent, UpdateRequest
  <2>5. Replaced(req[r], assigned[req[r].on]) \in SUBSET UnitIds
    <3>1. assigned[req[r].on] \in SUBSET UnitIds
      BY <2>1 DEF UpdateRequest, IInv, TypeOK
    <3> QED BY <2>4, <3>1 DEF Replaced
  <2>6. /\ assigned' \in [Emails -> SUBSET UnitIds]
        /\ \A u \in Emails \ DOMAIN users : assigned'[u] = assigned[u]
    BY <1>3, <2>1, <2>5, CommitFound DEF CommitUpdateUser, IInv, TypeOK
  <2> QED BY <1>3, <2>1, <2>3, <2>6, Updating DEF CommitUpdateUser
<1> QED BY <1>1, <1>2, <1>3

\* A transfer is right when it also says no more than what it makes of both.
LEMMA AskingTransfer ==
  ASSUME IInv, NEW r \in Requests, NEW q \in TransferRequest, Look(r, q),
         q.by \in DOMAIN users, q.on \in DOMAIN users,
         q.by # q.on, users[q.by].tenant = users[q.on].tenant,
         q.set.active = {}, q.set.role \subseteq {"tenant_admin"}, q.me.active = {}
  PROVE  IInv'
<1>1. q \in Request /\ q \in UserRequest
  BY DEF Request, UserRequest
<1>2. RequestOK(q)
  BY <1>1, Kinds DEF RequestOK
<1> QED BY <1>1, <1>2, Looking

LEMMA MadeColumns ==
  ASSUME NEW role \in Role, NEW row
  PROVE  /\ Made(role, row) \in Columns
         /\ Made(role, row).active = {} /\ Made(role, row).role \subseteq {role}
BY ChangedColumns DEF Made, Columns, Changed

LEMMA Transferring ==
  ASSUME IInv, NEW r \in Requests
  PROVE  /\ \A token \in tokens, u \in Emails : TransferAdmin(r, token.user, u) => IInv'
         /\ SelectMe(r) => IInv'
         /\ CommitTransfer(r) => IInv'
<1>1. ASSUME NEW token \in tokens, NEW u \in Emails, TransferAdmin(r, token.user, u) PROVE IInv'
  <2> DEFINE q == [op |-> "transfer_admin", at |-> "target", by |-> token.user, on |-> u,
                   set |-> Made("tenant_admin", users[u]), me |-> NoColumn]
  <2>1. u # token.user /\ UserFound(token.user, u) /\ Look(r, q)
    BY <1>1 DEF TransferAdmin
  <2>2. token.user \in Emails
    BY <2>1, AskFound
  <2>3. NoColumn \in Columns /\ NoColumn.active = {}
    BY DEF NoColumn, Columns
  <2>4. q \in TransferRequest
    BY <2>2, <2>3, MadeColumns, RoleNames DEF TransferRequest
  <2>5. /\ q.by = token.user /\ q.on = u /\ q.set.active = {} /\ q.me.active = {}
        /\ q.set.role \subseteq {"tenant_admin"}
    BY <2>3, MadeColumns, RoleNames
  <2> HIDE DEF q
  <2> QED BY <2>1, <2>4, <2>5, AskFound, AskingTransfer
<1>2. ASSUME SelectMe(r) PROVE IInv'
  <2> DEFINE me == Made("social_worker", users[req[r].by])
             q == [req[r] EXCEPT !.at = "me", !.me = me]
  <2>1. req[r] \in TransferRequest /\ req[r] \in UserRequest /\ Look(r, q)
    BY <1>2 DEF SelectMe, UserRequest
  <2>2. me \in Columns /\ me.active = {}
    BY MadeColumns, RoleNames
  <2>3. /\ q \in TransferRequest /\ q.by = req[r].by /\ q.on = req[r].on
        /\ q.set = req[r].set /\ q.me.active = {}
    BY <2>1, <2>2 DEF TransferRequest
  <2>4. /\ req[r].by \in DOMAIN users /\ req[r].on \in DOMAIN users
        /\ users[req[r].by].tenant = users[req[r].on].tenant
        /\ req[r].by # req[r].on
        /\ req[r].set.active = {} /\ req[r].set.role \subseteq {"tenant_admin"}
    BY <2>1 DEF IInv, RequestsOK, RequestOK
  <2> HIDE DEF q
  <2> QED BY <2>1, <2>3, <2>4, AskingTransfer
<1>3. ASSUME CommitTransfer(r) PROVE IInv'
  <2> DEFINE by == req[r].by
             on == req[r].on
             once == Updated(users[by], req[r].me)
  <2>1. req[r] \in TransferRequest /\ req[r] \in UserRequest
    BY <1>3 DEF CommitTransfer, UserRequest
  <2>2. req[r].me \in Columns /\ req[r].me.active = {} /\ by # on
    BY <2>1 DEF TransferRequest, IInv, RequestsOK, RequestOK
  <2>3. once \in User /\ once.tenant = users[by].tenant /\ once.active = users[by].active
    <3>1. users[by] \in User
      BY <2>1, CommitFound
    <3>2. once.active = Column({}, users[by].active)
      BY <2>2, <3>1, UpdatedRow
    <3> QED BY <2>2, <3>1, <3>2, UpdatedRow, ColumnValues
  <2>4. /\ Updated(users[on], req[r].set) \in User
        /\ Updated(users[on], req[r].set).tenant = users[on].tenant
    BY <2>1, CommitFound, UpdatedRow
  <2>5. users' = [users EXCEPT ![by] = Updated(@, req[r].me), ![on] = Updated(@, req[r].set)]
    BY <1>3 DEF CommitTransfer
  <2>6. /\ DOMAIN users' = DOMAIN users
        /\ \A u \in DOMAIN users :
             users'[u] = IF u = by THEN once ELSE IF u = on THEN Updated(users[on], req[r].set)
                         ELSE users[u]
    BY <2>1, <2>2, <2>5, CommitFound
  <2>7. users' \in [DOMAIN users -> User]
    BY <2>2, <2>3, <2>4, <2>5, CommitFound DEF IInv, TypeOK
  <2>8. \A u \in DOMAIN users : /\ users'[u].tenant = users[u].tenant
                                /\ ~users'[u].active => ~users[u].active \/ u = req[r].on
    BY <2>3, <2>4, <2>6
  <2> QED BY <1>3, <2>1, <2>6, <2>7, <2>8, Updating DEF CommitTransfer, IInv, TypeOK
<1> QED BY <1>1, <1>2, <1>3

LEMMA Aborting ==
  ASSUME IInv, NEW r \in Requests, Abort(r)
  PROVE  IInv'
BY NoRequestOK, Looking DEF Abort

LEMMA Invariant == Spec => []IInv
<1>1. IInv /\ [Next]_vars => IInv'
  <2> SUFFICES ASSUME IInv, [Next]_vars PROVE IInv'
    OBVIOUS
  <2>1. CASE Time
    BY <2>1, Timing
  <2>2. ASSUME NEW r \in Requests, Ask(r) PROVE IInv'
    <3>1. CASE AskAsOperator(r)
      BY <3>1, Operating
    <3>2. CASE AskAsManager(r)
      BY <3>2, Employing, Editing, Retiring, Transferring DEF AskAsManager
    <3>3. CASE \E u \in Emails, name \in Names, types \in (SUBSET Types) \ {{}} :
                 Register(r, u, name, types)
      BY <3>3, Registering
    <3> QED BY <2>2, <3>1, <3>2, <3>3 DEF Ask
  <2>3. ASSUME NEW r \in Requests, Proceed(r) PROVE IInv'
    BY <2>3, Registering, Operating, Editing, Retiring, Transferring, Aborting DEF Proceed
  <2>4. CASE UNCHANGED vars
    BY <2>4 DEF vars, IInv, TypeOK, RequestsOK, RequestOK, Known, RegistrationIsWhole,
                ChangesAreOnRecord
  <2> QED BY <2>1, <2>2, <2>3, <2>4 DEF Next
<1> QED BY Starts, <1>1, PTL DEF Spec
-----------------------------------------------------------------------------
(* Results.                                                                *)

\* Rows, tokens and requests keep the shape of their tables, for any number of them.
THEOREM TypeCorrect == Spec => []TypeOK
<1>1. IInv => TypeOK
  BY DEF IInv
<1> QED BY Invariant, <1>1, PTL

\* However registrations race, an organisation with business units has an account.
THEOREM RegistrationsAreWhole == Spec => []RegistrationIsWhole
<1>1. IInv => RegistrationIsWhole
  BY DEF IInv
<1> QED BY Invariant, <1>1, PTL

\* An inactive account was let out by a request of its own organisation, on record.
THEOREM DeparturesAreOnRecord == Spec => []ChangesAreOnRecord
<1>1. IInv => ChangesAreOnRecord
  BY DEF IInv
<1> QED BY Invariant, <1>1, PTL

LEMMA ManagersRemain ==
  ASSUME NEW t, NEW v, v \in DOMAIN users', users'[v].tenant = t, users'[v].active,
         users'[v].role \in Managers
  PROVE  Administered(t)'
BY DEF Administered

\* What an update and a retirement leave of an organisation they have no
\* outdated token for, and do not touch the own account in.
LEMMA OthersGo ==
  ASSUME IInv, NEW r \in Requests, req[r] \in UpdateRequest \union RetireRequest,
         users' = [users EXCEPT ![req[r].on] = Updated(@, req[r].set)],
         NEW t, Administered(t), ~Administered(t)'
  PROVE  req[r].by = req[r].on \/ Outdated(req[r])
<1> DEFINE by == req[r].by
           on == req[r].on
<1> SUFFICES ASSUME by # on, users[by].active, users[by].role \in Managers
             PROVE  FALSE
  BY DEF Outdated
<1>1. by \in DOMAIN users /\ on \in DOMAIN users /\ users[by].tenant = users[on].tenant
  BY DEF IInv, RequestsOK, RequestOK, UserRequest
<1>2. DOMAIN users' = DOMAIN users /\ \A v \in DOMAIN users : v # on => users'[v] = users[v]
  OBVIOUS
<1>3. PICK v \in DOMAIN users : users[v].tenant = t /\ users[v].active /\ users[v].role \in Managers
  BY DEF Administered
<1>4. v = on
  BY <1>2, <1>3, ManagersRemain
<1>5. users'[by] = users[by] /\ users[by].tenant = t
  BY <1>1, <1>2, <1>3, <1>4
<1> QED BY <1>1, <1>2, <1>5, ManagersRemain

LEMMA TransferGoes ==
  ASSUME IInv, NEW r \in Requests, CommitTransfer(r), NEW t, Administered(t), ~Administered(t)'
  PROVE  Overtaken(req[r])
<1> DEFINE by == req[r].by
           on == req[r].on
           q == req[r]
<1>1. q \in TransferRequest /\ q \in UserRequest
  BY DEF CommitTransfer, UserRequest
<1>2. /\ by \in DOMAIN users /\ on \in DOMAIN users /\ by # on
      /\ users[by].tenant = users[on].tenant
      /\ q.set.active = {} /\ q.set.role \subseteq {"tenant_admin"}
  BY <1>1 DEF IInv, RequestsOK, RequestOK
<1>3. users' = [users EXCEPT ![by] = Updated(@, q.me), ![on] = Updated(@, q.set)]
  BY DEF CommitTransfer
<1>4. /\ DOMAIN users' = DOMAIN users
      /\ users'[on] = Updated(users[on], q.set)
      /\ \A v \in DOMAIN users : v \notin {by, on} => users'[v] = users[v]
  BY <1>2, <1>3
<1>5. PICK v \in DOMAIN users : users[v].tenant = t /\ users[v].active /\ users[v].role \in Managers
  BY DEF Administered
<1>6. v \in {by, on}
  BY <1>4, <1>5, ManagersRemain
<1>7. users[on].tenant = t
  BY <1>2, <1>5, <1>6
<1>8. /\ users'[on].tenant = t
      /\ users'[on].role = Column(q.set.role, users[on].role)
      /\ users'[on].active = Column({}, users[on].active)
  <2>1. users[on] \in User /\ q.set \in Columns
    BY <1>1, CommitFound
  <2>2. /\ Updated(users[on], q.set).tenant = users[on].tenant
        /\ Updated(users[on], q.set).role = Column(q.set.role, users[on].role)
        /\ Updated(users[on], q.set).active = Column(q.set.active, users[on].active)
    BY <2>1, UpdatedRow
  <2> HIDE DEF on, q
  <2> QED BY <1>2, <1>4, <1>7, <2>2, Zenon
<1>9. users'[on].active = users[on].active
  BY <1>8, ColumnValues
<1> SUFFICES ASSUME users[on].active, q.set.role # {} \/ users[on].role = "tenant_admin"
             PROVE  FALSE
  BY DEF Overtaken
<1>10. users'[on].role = "tenant_admin"
  <2>1. CASE q.set.role = {}
    BY <1>8, <2>1, ColumnValues
  <2>2. CASE q.set.role # {}
    <3>1. q.set.role = {"tenant_admin"}
      BY <1>2, <2>2
    <3>2. Column({"tenant_admin"}, users[on].role) = "tenant_admin"
      BY ColumnValues
    <3> QED BY <1>8, <3>1, <3>2
  <2> QED BY <2>1, <2>2
<1> QED BY <1>2, <1>4, <1>8, <1>9, <1>10, ManagersRemain DEF Managers

Ended(r) ==
  /\ req[r] \in UserRequest /\ req'[r] = NoRequest
  /\ \/ req[r].by = req[r].on
     \/ Outdated(req[r])
     \/ req[r] \in TransferRequest /\ Overtaken(req[r])

LEMMA AdministrationStep ==
  ASSUME IInv, [Next]_vars, NEW t, Administered(t), ~Administered(t)'
  PROVE  \E r \in Requests : Ended(r)
<1>1. ~UNCHANGED users
  BY DEF Administered
<1>2. ASSUME NEW u, NEW row, u \notin DOMAIN users, users' = With(users, u, row) PROVE FALSE
  BY <1>2 DEF Administered, With
<1>3. CASE Time
  BY <1>1, <1>3 DEF Time, SignToken, TokenExpires
<1>4. ASSUME NEW r \in Requests, Ask(r) PROVE FALSE
  BY <1>1, <1>2, <1>4 DEF Ask, Register, AskAsOperator, CreateTenant, UpdateTenant, DeleteTenant,
       AskAsManager, CreateUser, UpdateUser, DeactivateUser, DeleteUser, TransferAdmin, Look
<1>5. ASSUME NEW r \in Requests, Proceed(r)
      PROVE  CommitUpdateUser(r) \/ CommitRetire(r) \/ CommitTransfer(r)
  <2>1. ASSUME NEW o \in TenantIds, CommitRegister(r, o) PROVE FALSE
    BY <1>2, <2>1 DEF CommitRegister
  <2> QED BY <1>1, <1>5, <2>1 DEF Proceed, CheckName, CommitTenant, ListAssigned, SelectMe, Abort, Look
<1>6. ASSUME NEW r \in Requests, CommitUpdateUser(r) PROVE Ended(r)
  <2>1. /\ req[r] \in UpdateRequest
        /\ users' = [users EXCEPT ![req[r].on] = Updated(@, req[r].set)]
        /\ req'[r] = NoRequest
    BY <1>6 DEF CommitUpdateUser, Done, Set, IInv, TypeOK
  <2> QED BY <2>1, OthersGo DEF Ended, UserRequest
<1>7. ASSUME NEW r \in Requests, CommitRetire(r) PROVE Ended(r)
  <2>1. /\ req[r] \in RetireRequest
        /\ users' = [users EXCEPT ![req[r].on] = Updated(@, req[r].set)]
        /\ req'[r] = NoRequest
    BY <1>7 DEF CommitRetire, Done, Set, IInv, TypeOK
  <2> QED BY <2>1, OthersGo DEF Ended, UserRequest
<1>8. ASSUME NEW r \in Requests, CommitTransfer(r) PROVE Ended(r)
  <2>1. req[r] \in TransferRequest /\ req'[r] = NoRequest
    BY <1>8 DEF CommitTransfer, Done, Set, IInv, TypeOK
  <2> QED BY <1>8, <2>1, TransferGoes DEF Ended, UserRequest
<1>9. CASE UNCHANGED vars
  BY <1>1, <1>9 DEF vars
<1> QED BY <1>3, <1>4, <1>5, <1>6, <1>7, <1>8, <1>9 DEF Next

\* An organisation loses its last administrator only by that administrator, by a
\* token that is out of date, or by a transfer that was overtaken.
THEOREM AdministrationIsKept == Spec => LastAdministratorGoesAlone
<1>1. IInv /\ [Next]_vars =>
        [\A t \in DOMAIN tenants : Administered(t) /\ ~Administered(t)' =>
           \E r \in Requests :
             /\ req[r] \in UpdateRequest \union RetireRequest \union TransferRequest
             /\ req'[r] = NoRequest
             /\ \/ req[r].by = req[r].on
                \/ Outdated(req[r])
                \/ req[r] \in TransferRequest /\ Overtaken(req[r])]_users
  BY AdministrationStep DEF Ended, UserRequest
<1> QED BY Invariant, <1>1, PTL DEF Spec, LastAdministratorGoesAlone
=============================================================================
