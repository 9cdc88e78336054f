------------------------------- MODULE Budgets -------------------------------
(***************************************************************************)
(* Business units, their annual budgets and the expenditures charged to    *)
(* them: services/business_unit_service.py and services/budget_service.py  *)
(* behind their routers.                                                   *)
(*                                                                         *)
(* As in WorkRecords a request SELECTs, then writes and commits, and other *)
(* requests commit in between.  delete_business_unit takes two more looks: *)
(* it lists the budgets of the unit and then counts their expenditures.    *)
(* create_expenditure sums its category after inserting its row, but the   *)
(* warning it returns is dropped by the router, so the sum is left out.  A *)
(* request that reads nothing before it writes is one step.  An annual     *)
(* budget is created without a look at its business unit, which only the   *)
(* foreign key checks.                                                     *)
(***************************************************************************)
EXTENDS Integers, FiniteSets

CONSTANTS
  Tenants, Users, UnitIds, BudgetIds, ExpIds,
  Years, Categories,
  Requests,     \* slots for requests in flight at the same time
  UserTenant,   \* tenant_id of a user's token
  Admins,       \* users whose role has MANAGE_BUDGET and is at least TENANT_ADMIN
  Kinds,        \* types of a business unit whose hours the policy fixes
  Plans,        \* values of the hour columns of a business unit
  DefaultPlan,  \* TYPE_DEFAULTS: the plan of each type in Kinds
  Market,       \* the type whose hours the administrator sets
  Limits,       \* budget of a category a client may send
  Amounts,      \* amount of an expenditure a client may send
  RowSecurity,  \* whether the database role is subject to the row policies
  NoRequest     \* an empty slot

VARIABLES
  units,        \* business_units: id -> row
  budgets,      \* annual_budgets: id -> row
  exps,         \* budget_expenditures: id -> row
  audited,      \* audit_logs, as the set of its (action, table row, user)
  req           \* slot -> the request in flight

vars == <<units, budgets, exps, audited, req>>

Unit   == [tenant : Tenants, kind : Kinds \union {Market}, plan : Plans, active : BOOLEAN]
Limit  == [Categories -> Limits]
Budget == [tenant : Tenants, unit : UnitIds, year : Years, limit : Limit]
Exp    == [tenant : Tenants, budget : BudgetIds, category : Categories,
           amount : Amounts, deleted : BOOLEAN]

Entry == [op : {"create_budget", "update_budget"}, user : Users, id : BudgetIds]
           \union [op : {"create_expenditure", "delete_expenditure"}, user : Users, id : ExpIds]

\* found is the row as SELECTed, set the ORM object after the assignments;
\* known is history: the expenditures when the deletion began.
UpdateUnitRequest == [op : {"update_unit"}, user : Users, unit : UnitIds,
                      found : Unit, set : Unit]
DeleteUnitRequest == [op : {"delete_unit"}, user : Users, unit : UnitIds, found : Unit,
                      at : {"selected", "listed", "counted"}, list : SUBSET BudgetIds,
                      known : SUBSET ExpIds]
BudgetRequest     == [op : {"update_budget"}, user : Users, budget : BudgetIds,
                      found : Limit, set : Limit]
SpendRequest      == [op : {"create_expenditure"}, user : Users, row : Exp]
FlushedRequest    == [op : {"insert_expenditure"}, user : Users, row : Exp, id : ExpIds]
RefundRequest     == [op : {"delete_expenditure"}, user : Users, exp : ExpIds]
Request == UpdateUnitRequest \union DeleteUnitRequest \union BudgetRequest
             \union SpendRequest \union FlushedRequest \union RefundRequest

ASSUME TenancyAssumption == UserTenant \in [Users -> Tenants] /\ Admins \subseteq Users
ASSUME PlanAssumption    == DefaultPlan \in [Kinds -> Plans] /\ Market \notin Kinds
ASSUME DataAssumption    == Limits \subseteq Int /\ Amounts \subseteq Int /\ RowSecurity \in BOOLEAN
ASSUME NullAssumption    == NoRequest \notin Request

-----------------------------------------------------------------------------
(* What the database checks and what the ORM writes.                       *)

With(rows, id, row) == [i \in DOMAIN rows \union {id} |-> IF i = id THEN row ELSE rows[i]]

\* Mutant: the UPDATE carries every column of the ORM object.
WrittenWhole(found, set, stored) == set

\* A column goes into the UPDATE only when the handler changed it.
Written(found, set, stored) == IF set # found THEN set ELSE stored

\* The unique constraint uq_annual_budgets_unit_year would refuse (unit, year).
SlotTaken(unit, year) ==
  \E b \in DOMAIN budgets : budgets[b].unit = unit /\ budgets[b].year = year

\* The row policy tenant_isolation, for a connection of the user's tenant.
Visible(u, row) == RowSecurity => row.tenant = UserTenant[u]

UnitFound(u, n) == n \in DOMAIN units /\ units[n].tenant = UserTenant[u]

\* Mutant: the budget is looked up by its id only.
BudgetFoundAnywhere(u, b) == b \in DOMAIN budgets

BudgetFound(u, b) == b \in DOMAIN budgets /\ budgets[b].tenant = UserTenant[u]

ExpFound(u, e) == e \in DOMAIN exps /\ ~exps[e].deleted /\ exps[e].tenant = UserTenant[u]

\* Expenditures that are not deleted, soft-deleted rows being filtered out.
Charged(rows, b) == {e \in DOMAIN rows : rows[e].budget = b /\ ~rows[e].deleted}

-----------------------------------------------------------------------------
Init ==
  /\ units = [n \in {} |-> {}]
  /\ budgets = [b \in {} |-> {}]
  /\ exps = [e \in {} |-> {}]
  /\ audited = {}
  /\ req = [r \in Requests |-> NoRequest]

Audit(op, u, id) == audited' = audited \union {[op |-> op, user |-> u, id |-> id]}
Set(r, q)  == req' = [req EXCEPT ![r] = q]
Done(r)    == Set(r, NoRequest)
Look(r, q) == Set(r, q) /\ UNCHANGED <<units, budgets, exps, audited>>

(* Business units, which leave no audit entry.                             *)

CreateUnit(r, u, n, kind, plan) ==
  /\ req[r] = NoRequest
  /\ n \notin DOMAIN units
  /\ kind \in Kinds => plan = DefaultPlan[kind]
  /\ units' = With(units, n, [tenant |-> UserTenant[u], kind |-> kind, plan |-> plan,
                              active |-> TRUE])
  /\ UNCHANGED <<budgets, exps, audited, req>>

\* Mutant: the hours of every type can be updated.
UpdateUnitHours(r, u, n, plan, active) ==
  /\ req[r] = NoRequest
  /\ UnitFound(u, n)
  /\ Look(r, [op |-> "update_unit", user |-> u, unit |-> n, found |-> units[n],
             set |-> [units[n] EXCEPT !.plan = plan, !.active = active]])

\* A field the client leaves out is the one it found.
UpdateUnit(r, u, n, plan, active) ==
  /\ req[r] = NoRequest
  /\ UnitFound(u, n)
  /\ Look(r, [op |-> "update_unit", user |-> u, unit |-> n, found |-> units[n],
             set |-> [units[n] EXCEPT !.plan = IF units[n].kind = Market THEN plan ELSE @,
                                      !.active = active]])

CommitUpdateUnit(r) ==
  /\ req[r] \in UpdateUnitRequest
  /\ units' = [units EXCEPT
       ![req[r].unit].plan   = Written(req[r].found.plan, req[r].set.plan, @),
       ![req[r].unit].active = Written(req[r].found.active, req[r].set.active, @)]
  /\ Done(r)
  /\ UNCHANGED <<budgets, exps, audited>>

DeleteUnit(r, u, n) ==
  /\ req[r] = NoRequest
  /\ UnitFound(u, n)
  /\ Look(r, [op |-> "delete_unit", user |-> u, unit |-> n, found |-> units[n],
             at |-> "selected", list |-> {}, known |-> DOMAIN exps])

ListBudgets(r) ==
  /\ req[r] \in DeleteUnitRequest /\ req[r].at = "selected"
  /\ Look(r, [req[r] EXCEPT !.at = "listed",
               !.list = {b \in DOMAIN budgets : /\ budgets[b].unit = req[r].unit
                                                /\ Visible(req[r].user, budgets[b])}])

\* Mutant: the count is not looked at.
CountAnyway(r) ==
  /\ req[r] \in DeleteUnitRequest /\ req[r].at = "listed"
  /\ Look(r, [req[r] EXCEPT !.at = "counted"])

\* The unit with expenditures is refused with 400.
CountExpenditures(r) ==
  /\ req[r] \in DeleteUnitRequest /\ req[r].at = "listed"
  /\ IF \A b \in req[r].list : \A e \in Charged(exps, b) : ~Visible(req[r].user, exps[e])
       THEN Look(r, [req[r] EXCEPT !.at = "counted"])
       ELSE Look(r, NoRequest)

CommitDeleteUnit(r) ==
  /\ req[r] \in DeleteUnitRequest /\ req[r].at = "counted"
  /\ units' = [units EXCEPT ![req[r].unit].active = Written(req[r].found.active, FALSE, @)]
  /\ Done(r)
  /\ UNCHANGED <<budgets, exps, audited>>

(* Annual budgets.                                                         *)

\* Mutant: the unit and the year change places.
CreateBudgetSwapped(r, u, b, n, year, limit) ==
  /\ req[r] = NoRequest
  /\ n \in DOMAIN units
  /\ b \notin DOMAIN budgets
  /\ ~SlotTaken(n, year)
  /\ budgets' = With(budgets, b, [tenant |-> UserTenant[u], unit |-> year, year |-> n,
                                  limit |-> limit])
  /\ Audit("create_budget", u, b)
  /\ UNCHANGED <<units, exps, req>>

\* A budget that exists already is an IntegrityError nobody catches: 500.
CreateBudget(r, u, b, n, year, limit) ==
  /\ req[r] = NoRequest
  /\ n \in DOMAIN units
  /\ b \notin DOMAIN budgets
  /\ ~SlotTaken(n, year)
  /\ budgets' = With(budgets, b, [tenant |-> UserTenant[u], unit |-> n, year |-> year,
                                  limit |-> limit])
  /\ Audit("create_budget", u, b)
  /\ UNCHANGED <<units, exps, req>>

UpdateBudget(r, u, b, limit) ==
  /\ req[r] = NoRequest
  /\ BudgetFound(u, b)
  /\ Look(r, [op |-> "update_budget", user |-> u, budget |-> b,
             found |-> budgets[b].limit, set |-> limit])

CommitUpdateBudget(r) ==
  /\ req[r] \in BudgetRequest
  /\ budgets' = [budgets EXCEPT ![req[r].budget].limit =
       [c \in Categories |-> Written(req[r].found[c], req[r].set[c], @[c])]]
  /\ Audit("update_budget", req[r].user, req[r].budget)
  /\ Done(r)
  /\ UNCHANGED <<units, exps>>

(* Expenditures.                                                           *)

CreateExpenditure(r, u, b, c, amount) ==
  /\ req[r] = NoRequest
  /\ BudgetFound(u, b)
  /\ Look(r, [op |-> "create_expenditure", user |-> u,
             row |-> [tenant |-> UserTenant[u], budget |-> b, category |-> c,
                      amount |-> amount, deleted |-> FALSE]])

Fresh(id) ==
  /\ id \notin DOMAIN exps
  /\ \A r \in Requests : req[r] \in FlushedRequest => req[r].id # id

\* The INSERT, seen by this transaction only.
FlushExpenditure(r, id) ==
  /\ req[r] \in SpendRequest
  /\ Fresh(id)
  /\ Look(r, [op |-> "insert_expenditure", user |-> req[r].user, row |-> req[r].row, id |-> id])

CommitExpenditure(r) ==
  /\ req[r] \in FlushedRequest
  /\ exps' = With(exps, req[r].id, req[r].row)
  /\ Audit("create_expenditure", req[r].user, req[r].id)
  /\ Done(r)
  /\ UNCHANGED <<units, budgets>>

DeleteExpenditure(r, u, e) ==
  /\ req[r] = NoRequest
  /\ ExpFound(u, e)
  /\ Look(r, [op |-> "delete_expenditure", user |-> u, exp |-> e])

CommitDeleteExpenditure(r) ==
  /\ req[r] \in RefundRequest
  /\ exps' = [exps EXCEPT ![req[r].exp].deleted = TRUE]
  /\ Audit("delete_expenditure", req[r].user, req[r].exp)
  /\ Done(r)
  /\ UNCHANGED <<units, budgets>>

\* The process dies or the connection breaks before the commit.
Abort(r) ==
  /\ req[r] # NoRequest
  /\ Look(r, NoRequest)

-----------------------------------------------------------------------------
Ask(r) ==
  \E u \in Admins :
    \/ \E n \in UnitIds :
         \/ \E kind \in Kinds \union {Market}, plan \in Plans : CreateUnit(r, u, n, kind, plan)
         \/ \E plan \in Plans, active \in BOOLEAN : UpdateUnit(r, u, n, plan, active)
         \/ DeleteUnit(r, u, n)
    \/ \E b \in BudgetIds :
         \/ \E n \in UnitIds, year \in Years, limit \in Limit :
              CreateBudget(r, u, b, n, year, limit)
         \/ \E limit \in Limit : UpdateBudget(r, u, b, limit)
         \/ \E c \in Categories, amount \in Amounts : CreateExpenditure(r, u, b, c, amount)
    \/ \E e \in ExpIds : DeleteExpenditure(r, u, e)

Proceed(r) ==
  \/ CommitUpdateUnit(r)
  \/ ListBudgets(r)
  \/ CountExpenditures(r)
  \/ CommitDeleteUnit(r)
  \/ CommitUpdateBudget(r)
  \/ \E id \in ExpIds : FlushExpenditure(r, id)
  \/ CommitExpenditure(r)
  \/ CommitDeleteExpenditure(r)
  \/ Abort(r)

Next == \E r \in Requests : Ask(r) \/ Proceed(r)

Spec == Init /\ [][Next]_vars
-----------------------------------------------------------------------------
(* Properties.                                                             *)

\* Rows, requests in flight and audit entries have the shape of their tables.
TypeOK ==
  /\ DOMAIN units \subseteq UnitIds /\ units \in [DOMAIN units -> Unit]
  /\ DOMAIN budgets \subseteq BudgetIds /\ budgets \in [DOMAIN budgets -> Budget]
  /\ DOMAIN exps \subseteq ExpIds /\ exps \in [DOMAIN exps -> Exp]
  /\ audited \subseteq Entry
  /\ req \in [Requests -> Request \union {NoRequest}]

\* A business unit has at most one budget of a year, of whatever tenant, so
\* that get_budget finds one row or none and never MultipleResultsFound.
OneBudgetPerUnitYear ==
  \A a, b \in DOMAIN budgets :
    budgets[a].unit = budgets[b].unit /\ budgets[a].year = budgets[b].year => a = b

LoggedAt(log, tenant, op, id) ==
  \E u \in Users :
    UserTenant[u] = tenant /\ [op |-> op, user |-> u, id |-> id] \in log

\* Money is spent within a tenant: an expenditure, its budget and every user
\* in the audit entries of either are of one tenant, and an expenditure was
\* created, and if it is deleted was deleted, by an entry of the audit log.
SpendingStaysInTenant ==
  /\ \A e \in DOMAIN exps :
       /\ exps[e].budget \in DOMAIN budgets
       /\ budgets[exps[e].budget].tenant = exps[e].tenant
       /\ LoggedAt(audited, exps[e].tenant, "create_expenditure", e)
       /\ exps[e].deleted => LoggedAt(audited, exps[e].tenant, "delete_expenditure", e)
  /\ \A a \in audited :
       a.op = "update_budget" =>
         a.id \in DOMAIN budgets /\ budgets[a.id].tenant = UserTenant[a.user]

\* The hours of a unit whose type the policy fixes are those of TYPE_DEFAULTS,
\* whatever updates were sent and however they interleaved.
PolicyPlansStand ==
  \A n \in DOMAIN units :
    units[n].kind \in Kinds => units[n].plan = DefaultPlan[units[n].kind]

\* The budget of a category is changed only by a request that sent another
\* value for that category than it found: of two concurrent updates of
\* different categories neither takes the other one back.
OnlySentLimitsChange ==
  [][\A b \in DOMAIN budgets : \A c \in Categories :
       budgets'[b].limit[c] # budgets[b].limit[c] =>
         \E r \in Requests :
           /\ req[r] \in BudgetRequest /\ req[r].budget = b
           /\ req[r].found[c] # req[r].set[c]
           /\ req[r].set[c] = budgets'[b].limit[c]]_budgets

\* Nothing of e stands in the way of the deletion q.
Spared(q, e) ==
  \/ exps[e].deleted
  \/ budgets[exps[e].budget].unit # q.unit
  \/ ~Visible(q.user, exps[e])

\* An expenditure that was there when the deletion of its unit began, and still
\* stands when that is committed, keeps the unit: whatever budgets and
\* expenditures others create, update and delete between the three SELECTs.
EarlierSpendingKeepsUnit ==
  [][\A r \in Requests :
       /\ req[r] \in DeleteUnitRequest
       /\ req'[r] = NoRequest
       /\ units[req[r].unit].active /\ ~units'[req[r].unit].active
       => \A e \in req[r].known : Spared(req[r], e)]_units
=============================================================================
