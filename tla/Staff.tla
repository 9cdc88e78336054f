--------------------------------- MODULE Staff ---------------------------------
(***************************************************************************)
(* Organisations and their staff: routers/register.py, routers/tenants.py  *)
(* and routers/users.py, behind core/permissions.py.                       *)
(*                                                                         *)
(* Who may do what is decided by the role in the access token, which was   *)
(* read from the users table when the token was signed and lives for an    *)
(* hour whatever becomes of the account.  A request SELECTs, assigns and   *)
(* commits as in WorkRecords; the transfer of the administration SELECTs   *)
(* two users one after the other, an update that sends business units      *)
(* SELECTs the assignments after the user, and a registration looks up the *)
(* email and then the name.  An account is identified by its email, which  *)
(* is unique over all organisations and never changes.                     *)
(***************************************************************************)
EXTENDS Integers, FiniteSets

CONSTANTS
  TenantIds, Names,
  Emails,       \* accounts, by their email
  UnitIds,      \* business units that can be assigned to an account
  Types,        \* types of business units an organisation can register
  Requests,     \* slots for requests in flight at the same time
  RolesSent,    \* roles a client gives an account
  FieldsSent,   \* bound of the fields an update sends at once
  MaxTokens,    \* bound of the access tokens alive at once
  Unsent,       \* for business_unit_ids left out of an update: no set of units
  NoRequest     \* an empty slot

VARIABLES
  tenants,      \* id -> row of tenants, with the types of its business units
  users,        \* email -> row of users
  assigned,     \* user_business_units: email -> units
  tokens,       \* access tokens that have not expired
  audited,      \* audit_logs: the (user, organisation) of each UPDATE and DELETE of a user
  req           \* slot -> the request in flight

vars == <<tenants, users, assigned, tokens, audited, req>>

\* social_worker stands for approver, auditor and viewer too.
Role     == {"platform_admin", "tenant_admin", "social_worker"}
Managers == {"platform_admin", "tenant_admin"}

Tenant == [name : Names, active : BOOLEAN, types : SUBSET Types]
User   == [tenant : TenantIds, role : Role, active : BOOLEAN]
Token  == [user : Emails, role : Role]
Entry  == [on : Emails, tenant : TenantIds]

\* The columns an UPDATE carries: those in which the ORM object differs from the
\* row it was SELECTed from.  A set with the new value, or none.
Columns == [role : {{}} \union {{role} : role \in Role}, active : {{}, {TRUE}, {FALSE}}]
TenantColumns == [name : {{}} \union {{name} : name \in Names}, active : {{}, {TRUE}, {FALSE}}]

RegisterRequest == [op : {"register"}, at : {"email", "name"}, email : Emails, name : Names,
                    types : (SUBSET Types) \ {{}}]
TenantRequest   == [op : {"update_tenant", "delete_tenant"}, on : TenantIds, set : TenantColumns]
UpdateRequest   == [op : {"update_user"}, at : {"selected", "listed"}, by : Emails, on : Emails,
                    set : Columns, units : (SUBSET UnitIds) \union {Unsent},
                    listed : SUBSET UnitIds]
RetireRequest   == [op : {"deactivate_user", "delete_user"}, by : Emails, on : Emails,
                    set : Columns]
TransferRequest == [op : {"transfer_admin"}, at : {"target", "me"}, by : Emails, on : Emails,
                    set : Columns, me : Columns]
Request == RegisterRequest \union TenantRequest \union UpdateRequest
             \union RetireRequest \union TransferRequest

ASSUME BoundAssumption == RolesSent \subseteq Role /\ FieldsSent \in Nat /\ MaxTokens \in Nat
ASSUME NullAssumption == NoRequest \notin Request /\ Unsent \notin SUBSET UnitIds

-----------------------------------------------------------------------------
With(rows, id, row) == [i \in DOMAIN rows \union {id} |-> IF i = id THEN row ELSE rows[i]]

\* A column goes into the UPDATE only when the handler changed it.
Changed(found, value) == IF value = found THEN {} ELSE {value}

Column(sent, stored) == IF sent = {} THEN stored ELSE CHOOSE value \in sent : TRUE

Updated(row, set) ==
  [row EXCEPT !.role = Column(set.role, @), !.active = Column(set.active, @)]

\* Mutant: an account of any organisation is found.
UserFoundAnywhere(by, u) == u \in DOMAIN users

\* tenant_id of a token is that of its user, which never changes.
UserFound(by, u) == u \in DOMAIN users /\ users[u].tenant = users[by].tenant

-----------------------------------------------------------------------------
Init ==
  /\ tenants = [t \in {} |-> {}]
  /\ users = [u \in {} |-> {}]
  /\ assigned = [u \in Emails |-> {}]
  /\ tokens = {}
  /\ audited = {}
  /\ req = [r \in Requests |-> NoRequest]

\* Mutant: the account and the organisation of an entry change places.
AuditSwapped(u, by) == audited' = audited \union {[on |-> users[by].tenant, tenant |-> u]}

\* The organisation of an entry is that of the token.
Audit(u, by) == audited' = audited \union {[on |-> u, tenant |-> users[by].tenant]}
Set(r, q)  == req' = [req EXCEPT ![r] = q]
Done(r)    == Set(r, NoRequest)
Look(r, q) == Set(r, q) /\ UNCHANGED <<tenants, users, assigned, tokens, audited>>

(* Tokens, which Auth models with the refresh tokens they come from.       *)

\* A login or a refresh of an active account.  Its organisation is not looked at.
SignToken(u) ==
  /\ u \in DOMAIN users /\ users[u].active
  /\ Cardinality(tokens) < MaxTokens
  /\ tokens' = tokens \union {[user |-> u, role |-> users[u].role]}
  /\ UNCHANGED <<tenants, users, assigned, audited, req>>

TokenExpires(token) ==
  /\ token \in tokens
  /\ tokens' = tokens \ {token}
  /\ UNCHANGED <<tenants, users, assigned, audited, req>>

(* Registration, which needs no token.                                     *)

\* An email in use is refused with 409.
Register(r, u, name, types) ==
  /\ req[r] = NoRequest
  /\ u \notin DOMAIN users
  /\ Look(r, [op |-> "register", at |-> "email", email |-> u, name |-> name, types |-> types])

NameTaken(name) == \E t \in DOMAIN tenants : tenants[t].name = name

\* A name in use is refused with 409, and with 500 when two rows have it.
CheckName(r) ==
  /\ req[r] \in RegisterRequest /\ req[r].at = "email"
  /\ Look(r, IF NameTaken(req[r].name) THEN NoRequest ELSE [req[r] EXCEPT !.at = "name"])

Founded(q) == [name |-> q.name, active |-> TRUE, types |-> q.types]

\* Mutant: the organisation is committed before its administrator is inserted.
CommitTenantFirst(r, t) ==
  /\ req[r] \in RegisterRequest /\ req[r].at = "name"
  /\ t \notin DOMAIN tenants
  /\ tenants' = With(tenants, t, Founded(req[r]))
  /\ users' = IF req[r].email \in DOMAIN users THEN users
              ELSE With(users, req[r].email,
                        [tenant |-> t, role |-> "tenant_admin", active |-> TRUE])
  /\ Done(r)
  /\ UNCHANGED <<assigned, tokens, audited>>

\* Organisation, business units and administrator in one transaction.
CommitRegister(r, t) ==
  /\ req[r] \in RegisterRequest /\ req[r].at = "name"
  /\ t \notin DOMAIN tenants
  /\ req[r].email \notin DOMAIN users
  /\ tenants' = With(tenants, t, Founded(req[r]))
  /\ users' = With(users, req[r].email, [tenant |-> t, role |-> "tenant_admin", active |-> TRUE])
  /\ Done(r)
  /\ UNCHANGED <<assigned, tokens, audited>>

(* Organisations, for the operator of the platform, whose own account is in *)
(* the seed and not modelled.                                               *)

CreateTenant(r, t, name) ==
  /\ req[r] = NoRequest
  /\ t \notin DOMAIN tenants
  /\ tenants' = With(tenants, t, [name |-> name, active |-> TRUE, types |-> {}])
  /\ UNCHANGED <<users, assigned, tokens, audited, req>>

UpdateTenant(r, t, name, active) ==
  /\ req[r] = NoRequest
  /\ t \in DOMAIN tenants
  /\ Look(r, [op |-> "update_tenant", on |-> t,
              set |-> [name |-> Changed(tenants[t].name, name),
                       active |-> Changed(tenants[t].active, active)]])

DeleteTenant(r, t) ==
  /\ req[r] = NoRequest
  /\ t \in DOMAIN tenants
  /\ Look(r, [op |-> "delete_tenant", on |-> t,
              set |-> [name |-> {}, active |-> Changed(tenants[t].active, FALSE)]])

CommitTenant(r) ==
  /\ req[r] \in TenantRequest
  /\ tenants' = [tenants EXCEPT ![req[r].on].name = Column(req[r].set.name, @),
                                ![req[r].on].active = Column(req[r].set.active, @)]
  /\ Done(r)
  /\ UNCHANGED <<users, assigned, tokens, audited>>

(* Accounts.                                                               *)

\* An email in use is an IntegrityError nobody catches: 500.
CreateUser(r, by, u, role, units) ==
  /\ req[r] = NoRequest
  /\ u \notin DOMAIN users
  /\ users' = With(users, u, [tenant |-> users[by].tenant, role |-> role, active |-> TRUE])
  /\ assigned' = [assigned EXCEPT ![u] = units]
  /\ UNCHANGED <<tenants, tokens, audited, req>>

\* A field the client leaves out is the one it found.
UpdateUser(r, by, u, role, active, units) ==
  /\ req[r] = NoRequest
  /\ UserFound(by, u)
  /\ Look(r, [op |-> "update_user", at |-> IF units = Unsent THEN "listed" ELSE "selected",
              by |-> by, on |-> u, set |-> [role |-> Changed(users[u].role, role),
                                            active |-> Changed(users[u].active, active)],
              units |-> units, listed |-> {}])

ListAssigned(r) ==
  /\ req[r] \in UpdateRequest /\ req[r].at = "selected"
  /\ Look(r, [req[r] EXCEPT !.at = "listed", !.listed = assigned[req[r].on]])

Sent(q) == IF q.units = Unsent THEN {} ELSE q.units

\* A row that is listed and sent again is left alone, wherever it is by now, and
\* a row that is listed, not sent and gone is not missed.
Replaced(q, stored) == (stored \ (q.listed \ Sent(q))) \union (Sent(q) \ q.listed)

\* The INSERT of an assignment that somebody else has inserted fails with 500.
CommitUpdateUser(r) ==
  /\ req[r] \in UpdateRequest /\ req[r].at = "listed"
  /\ LET q == req[r]
     IN  /\ (Sent(q) \ q.listed) \intersect assigned[q.on] = {}
         /\ assigned' = [assigned EXCEPT ![q.on] = Replaced(q, @)]
         /\ users' = [users EXCEPT ![q.on] = Updated(@, q.set)]
         /\ Audit(q.on, q.by)
  /\ Done(r)
  /\ UNCHANGED <<tenants, tokens>>

Deactivated(row) == [role |-> {}, active |-> Changed(row.active, FALSE)]

\* The own account and an inactive one are refused with 400.
DeactivateUser(r, by, u) ==
  /\ req[r] = NoRequest
  /\ u # by
  /\ UserFound(by, u) /\ users[u].active
  /\ Look(r, [op |-> "deactivate_user", by |-> by, on |-> u,
              set |-> Deactivated(users[u])])

\* Neither is refused here.
DeleteUser(r, by, u) ==
  /\ req[r] = NoRequest
  /\ UserFound(by, u)
  /\ Look(r, [op |-> "delete_user", by |-> by, on |-> u,
              set |-> Deactivated(users[u])])

CommitRetire(r) ==
  /\ req[r] \in RetireRequest
  /\ LET q == req[r]
     IN  /\ users' = [users EXCEPT ![q.on] = Updated(@, q.set)]
         /\ Audit(q.on, q.by)
  /\ Done(r)
  /\ UNCHANGED <<tenants, assigned, tokens>>

NoColumn == [role |-> {}, active |-> {}]

Made(role, row) == [role |-> Changed(row.role, role), active |-> {}]

\* The own account is refused with 400, an inactive one with 404.
TransferAdmin(r, by, u) ==
  /\ req[r] = NoRequest
  /\ u # by
  /\ UserFound(by, u) /\ users[u].active
  /\ Look(r, [op |-> "transfer_admin", at |-> "target", by |-> by, on |-> u,
              set |-> Made("tenant_admin", users[u]), me |-> NoColumn])

\* The second SELECT.  That the own role is still a manager's is not checked.
SelectMe(r) ==
  /\ req[r] \in TransferRequest /\ req[r].at = "target"
  /\ Look(r, [req[r] EXCEPT !.at = "me", !.me = Made("social_worker", users[req[r].by])])

\* Mutant: the demotion is committed before the promotion.
CommitDemotionFirst(r) ==
  /\ req[r] \in TransferRequest /\ req[r].at = "me"
  /\ LET q == req[r]
     IN  IF q.me = NoColumn
           THEN users' = [users EXCEPT ![q.on] = Updated(@, q.set)] /\ Done(r)
           ELSE users' = [users EXCEPT ![q.by] = Updated(@, q.me)]
                  /\ Set(r, [q EXCEPT !.me = NoColumn])
  /\ Audit(req[r].on, req[r].by)
  /\ UNCHANGED <<tenants, assigned, tokens>>

CommitTransfer(r) ==
  /\ req[r] \in TransferRequest /\ req[r].at = "me"
  /\ LET q == req[r]
     IN  /\ users' = [users EXCEPT ![q.by] = Updated(@, q.me), ![q.on] = Updated(@, q.set)]
         /\ Audit(q.on, q.by)
  /\ Done(r)
  /\ UNCHANGED <<tenants, assigned, tokens>>

\* The process dies, the connection breaks or a constraint fails the commit.
Abort(r) ==
  /\ req[r] # NoRequest
  /\ Look(r, NoRequest)

-----------------------------------------------------------------------------
AskAsOperator(r) ==
  \E t \in TenantIds :
    \/ \E name \in Names : \/ CreateTenant(r, t, name)
                           \/ \E active \in BOOLEAN : UpdateTenant(r, t, name, active)
    \/ DeleteTenant(r, t)

FewFields(u, role, active, units) ==
  /\ u \in DOMAIN users
  /\ role \in RolesSent \union {users[u].role}
  /\ Cardinality({f \in {"role", "active", "units"} :
                     \/ f = "role" /\ role # users[u].role
                     \/ f = "active" /\ active # users[u].active
                     \/ f = "units" /\ units # Unsent}) <= FieldsSent

\* MANAGE_USERS and RequireTenantAdmin admit the same roles, those of the token.
AskAsManager(r) ==
  \E token \in tokens, u \in Emails :
    /\ token.role \in Managers
    /\ \/ \E role \in RolesSent, units \in SUBSET UnitIds : CreateUser(r, token.user, u, role, units)
       \/ \E role \in Role, active \in BOOLEAN, units \in (SUBSET UnitIds) \union {Unsent} :
            FewFields(u, role, active, units) /\ UpdateUser(r, token.user, u, role, active, units)
       \/ DeactivateUser(r, token.user, u)
       \/ DeleteUser(r, token.user, u)
       \/ TransferAdmin(r, token.user, u)

Ask(r) ==
  \/ \E u \in Emails, name \in Names, types \in (SUBSET Types) \ {{}} : Register(r, u, name, types)
  \/ AskAsOperator(r)
  \/ AskAsManager(r)

Proceed(r) ==
  \/ CheckName(r)
  \/ \E t \in TenantIds : CommitRegister(r, t)
  \/ CommitTenant(r)
  \/ ListAssigned(r)
  \/ CommitUpdateUser(r)
  \/ CommitRetire(r)
  \/ SelectMe(r)
  \/ CommitTransfer(r)
  \/ Abort(r)

Time ==
  \/ \E u \in Emails : SignToken(u)
  \/ \E token \in Token : TokenExpires(token)

Next == Time \/ \E r \in Requests : Ask(r) \/ Proceed(r)

Spec == Init /\ [][Next]_vars
-----------------------------------------------------------------------------
(* Properties.                                                             *)

\* Rows, tokens and requests in flight have the shape of their tables.
TypeOK ==
  /\ DOMAIN tenants \subseteq TenantIds /\ tenants \in [DOMAIN tenants -> Tenant]
  /\ DOMAIN users \subseteq Emails /\ users \in [DOMAIN users -> User]
  /\ assigned \in [Emails -> SUBSET UnitIds]
  /\ tokens \subseteq Token
  /\ audited \subseteq Entry
  /\ req \in [Requests -> Request \union {NoRequest}]

\* routers/register.py:32: a registration creates the organisation, its
\* business units and its administrator at one stroke.  An organisation that
\* has business units has an account, however registrations of one email race.
RegistrationIsWhole ==
  \A t \in DOMAIN tenants :
    tenants[t].types # {} => \E u \in DOMAIN users : users[u].tenant = t

\* An account that is not active was let out on record: by an entry of the
\* audit log, of the organisation of that account.
ChangesAreOnRecord ==
  \A u \in DOMAIN users :
    ~users[u].active => [on |-> u, tenant |-> users[u].tenant] \in audited

Administered(t) ==
  \E u \in DOMAIN users : users[u].tenant = t /\ users[u].active /\ users[u].role \in Managers

\* The role in the token of the request is no longer that of its account.
Outdated(q) == ~users[q.by].active \/ users[q.by].role \notin Managers

\* The target of a transfer is no longer active, or no longer the administrator
\* it was when it was looked up.
Overtaken(q) == ~users[q.on].active \/ (q.set.role = {} /\ users[q.on].role # "tenant_admin")

\* An organisation loses its last administrator only by a request of that
\* administrator on the own account (PUT and DELETE allow it, deactivate does
\* not), by one whose token is out of date, or by a transfer whose target has
\* been changed since it was looked up.
LastAdministratorGoesAlone ==
  [][\A t \in DOMAIN tenants :
       Administered(t) /\ ~Administered(t)' =>
         \E r \in Requests :
           /\ req[r] \in UpdateRequest \union RetireRequest \union TransferRequest
           /\ req'[r] = NoRequest
           /\ \/ req[r].by = req[r].on
              \/ Outdated(req[r])
              \/ req[r] \in TransferRequest /\ Overtaken(req[r])]_users

(* What the documentation says and the code does not keep.                 *)

\* routers/users.py:151, "기존 배정 전체 삭제 후 재등록": an update that sends business
\* units leaves the employee with those and no others.
AssignmentsAreReplaced ==
  [][\A r \in Requests :
       CommitUpdateUser(r) /\ req[r].units # Unsent
         => assigned'[req[r].on] = req[r].units]_vars
=============================================================================
