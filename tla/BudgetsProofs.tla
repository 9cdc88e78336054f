---------------------------- MODULE BudgetsProofs ----------------------------
(***************************************************************************)
(* Proofs about business units, budgets and expenditures, for any number   *)
(* of tenants, rows and requests in flight.                                *)
(***************************************************************************)
EXTENDS Budgets, TLAPS

(***************************************************************************)
(* The inductive invariant: what a request in flight knows about rows that *)
(* may have changed since it SELECTed them.  Rows are never removed, and a *)
(* row keeps its tenant, its kind and the budget it is charged to.         *)
(***************************************************************************)
UpdateUnitOK(q) ==
  /\ q.unit \in DOMAIN units
  /\ q.set.kind = units[q.unit].kind
  /\ q.set.kind \in Kinds => q.set.plan = DefaultPlan[q.set.kind]

BudgetRequestOK(q) ==
  q.budget \in DOMAIN budgets /\ budgets[q.budget].tenant = UserTenant[q.user]

SpendOK(q) ==
  /\ ~q.row.deleted
  /\ q.row.tenant = UserTenant[q.user]
  /\ q.row.budget \in DOMAIN budgets
  /\ budgets[q.row.budget].tenant = q.row.tenant

RequestOK(q) ==
  /\ q \in UpdateUnitRequest => UpdateUnitOK(q)
  /\ q \in DeleteUnitRequest => q.unit \in DOMAIN units
  /\ q \in BudgetRequest => BudgetRequestOK(q)
  /\ q \in SpendRequest \union FlushedRequest => SpendOK(q)
  /\ q \in FlushedRequest => q.id \notin DOMAIN exps
  /\ q \in RefundRequest =>
       q.exp \in DOMAIN exps /\ exps[q.exp].tenant = UserTenant[q.user]

RequestsOK == \A r \in Requests : RequestOK(req[r])

\* Rows that were flushed and not committed yet have ids of their own.
IdsApart ==
  \A r, s \in Requests :
    req[r] \in FlushedRequest /\ req[s] \in FlushedRequest /\ req[r].id = req[s].id => r = s

IInv == TypeOK /\ RequestsOK /\ IdsApart /\ PolicyPlansStand

-----------------------------------------------------------------------------
(* Operators.                                                              *)

LEMMA RequestFields ==
  /\ \A q \in UpdateUnitRequest :
       q.op = "update_unit" /\ q.user \in Users /\ q.unit \in UnitIds
         /\ q.found \in Unit /\ q.set \in Unit
  /\ \A q \in DeleteUnitRequest :
       q.op = "delete_unit" /\ q.user \in Users /\ q.unit \in UnitIds /\ q.found \in Unit
         /\ q.list \in SUBSET BudgetIds /\ q.known \in SUBSET ExpIds
  /\ \A q \in BudgetRequest :
       q.op = "update_budget" /\ q.user \in Users /\ q.budget \in BudgetIds
         /\ q.found \in Limit /\ q.set \in Limit
  /\ \A q \in SpendRequest :
       q.op = "create_expenditure" /\ q.user \in Users /\ q.row \in Exp
  /\ \A q \in FlushedRequest :
       q.op = "insert_expenditure" /\ q.user \in Users /\ q.row \in Exp /\ q.id \in ExpIds
  /\ \A q \in RefundRequest :
       q.op = "delete_expenditure" /\ q.user \in Users /\ q.exp \in ExpIds
BY DEF UpdateUnitRequest, DeleteUnitRequest, BudgetRequest, SpendRequest, FlushedRequest,
       RefundRequest

LEMMA InitIInv == Init => IInv
<1> SUFFICES ASSUME Init PROVE IInv
  OBVIOUS
<1>1. TypeOK
  BY DEF Init, TypeOK
<1>2. RequestsOK /\ IdsApart
  BY NullAssumption DEF Init, RequestsOK, RequestOK, IdsApart, Request
<1>3. PolicyPlansStand
  BY DEF Init, PolicyPlansStand
<1> QED
  BY <1>1, <1>2, <1>3 DEF IInv

LEMMA NoRequestOK == RequestOK(NoRequest) /\ NoRequest \notin FlushedRequest
BY NullAssumption DEF RequestOK, Request

-----------------------------------------------------------------------------
(* The steps.                                                              *)

\* A look of a request at the tables leaves it with something it may rely on.
LEMMA LookIInv ==
  ASSUME IInv, NEW r \in Requests, NEW q \in Request \union {NoRequest}, Look(r, q),
         RequestOK(q), q \in FlushedRequest => Fresh(q.id)
  PROVE  IInv'
<1> USE DEF IInv
<1>1. TypeOK'
  BY DEF Look, Set, TypeOK
<1>2. RequestsOK'
  <2>1. \A p : RequestOK(p) => RequestOK(p)'
    BY DEF Look, RequestOK, UpdateUnitOK, BudgetRequestOK, SpendOK
  <2> QED
    BY <2>1 DEF Look, Set, RequestsOK, TypeOK
<1>3. IdsApart'
  BY DEF Look, Set, IdsApart, Fresh, TypeOK
<1>4. PolicyPlansStand'
  BY DEF Look, PolicyPlansStand
<1> QED
  BY <1>1, <1>2, <1>3, <1>4

\* Requests stay right while rows stay and keep what identifies them, and the
\* id of no other flushed row is taken.
LEMMA RequestsStay ==
  ASSUME IInv, NEW r \in Requests,
         req' = req \/ Done(r),
         \A n \in DOMAIN units : n \in DOMAIN units' /\ units'[n].kind = units[n].kind,
         \A b \in DOMAIN budgets : b \in DOMAIN budgets' /\ budgets'[b].tenant = budgets[b].tenant,
         \A e \in DOMAIN exps : e \in DOMAIN exps' /\ exps'[e].tenant = exps[e].tenant,
         \A s \in Requests : req'[s] \in FlushedRequest => req'[s].id \notin DOMAIN exps'
  PROVE  RequestsOK' /\ IdsApart'
<1> USE DEF IInv
<1>1. \A s \in Requests : req'[s] = req[s] \/ req'[s] = NoRequest
  BY DEF Done, Set, TypeOK
<1>2. IdsApart'
  BY <1>1, NoRequestOK DEF IdsApart
<1>3. ASSUME NEW s \in Requests PROVE RequestOK(req[s])' 
  <2>1. CASE req'[s] = NoRequest
    BY <2>1, NullAssumption DEF RequestOK, Request
  <2>2. CASE req'[s] = req[s]
    <3>1. RequestOK(req[s])
      BY DEF RequestsOK
    <3> QED
      BY <2>2, <3>1 DEF RequestOK, UpdateUnitOK, BudgetRequestOK, SpendOK
  <2> QED
    BY <1>1, <2>1, <2>2
<1> QED
  BY <1>2, <1>3 DEF RequestsOK

LEMMA CreateUnitIInv ==
  ASSUME IInv, NEW r \in Requests, NEW u \in Admins, NEW n \in UnitIds,
         NEW kind \in Kinds \union {Market}, NEW plan \in Plans, CreateUnit(r, u, n, kind, plan)
  PROVE  IInv'
<1> USE DEF IInv
<1> DEFINE row == [tenant |-> UserTenant[u], kind |-> kind, plan |-> plan, active |-> TRUE]
<1>1. row \in Unit
  BY TenancyAssumption DEF Unit
<1>2. /\ units' = With(units, n, row) /\ n \notin DOMAIN units
      /\ units \in [DOMAIN units -> Unit]
      /\ UNCHANGED <<budgets, exps, audited, req>>
  BY DEF CreateUnit, TypeOK
<1>3. /\ DOMAIN units' = DOMAIN units \union {n}
      /\ units' \in [DOMAIN units' -> Unit]
      /\ units'[n] = row
      /\ \A i \in DOMAIN units : units'[i] = units[i]
  BY <1>1, <1>2 DEF With
<1>4. TypeOK'
  BY <1>2, <1>3 DEF TypeOK
<1>5. RequestsOK' /\ IdsApart'
  BY <1>2, <1>3, RequestsStay DEF RequestsOK, RequestOK
<1>6. PolicyPlansStand'
  <2> SUFFICES ASSUME NEW i \in DOMAIN units', units'[i].kind \in Kinds
               PROVE  units'[i].plan = DefaultPlan[units'[i].kind]
    BY DEF PolicyPlansStand
  <2>1. CASE i = n
    BY <1>3, <2>1 DEF CreateUnit
  <2>2. CASE i # n
    BY <1>3, <2>2 DEF PolicyPlansStand
  <2> QED
    BY <2>1, <2>2
<1> QED
  BY <1>4, <1>5, <1>6

\* Both commits of a business unit write a plan the type allows.
LEMMA UnitWriteIInv ==
  ASSUME IInv, NEW r \in Requests, NEW n \in DOMAIN units, Done(r),
         UNCHANGED <<budgets, exps, audited>>, NEW row \in Unit,
         units' = [units EXCEPT ![n] = row],
         row.kind = units[n].kind,
         row.kind \in Kinds => row.plan = DefaultPlan[row.kind]
  PROVE  IInv'
<1> USE DEF IInv
<1>1. /\ DOMAIN units' = DOMAIN units
      /\ units'[n] = row
      /\ \A i \in DOMAIN units : i # n => units'[i] = units[i]
  BY DEF TypeOK
<1>2. TypeOK'
  BY <1>1 DEF TypeOK, Done, Set
<1>3. RequestsOK' /\ IdsApart'
  <2>1. \A s \in Requests : req'[s] \in FlushedRequest => req'[s] = req[s]
    BY NoRequestOK DEF Done, Set, TypeOK
  <2>2. \A s \in Requests : req'[s] \in FlushedRequest => req'[s].id \notin DOMAIN exps'
    BY <2>1 DEF RequestsOK, RequestOK
  <2>3. \A i \in DOMAIN units : i \in DOMAIN units' /\ units'[i].kind = units[i].kind
    BY <1>1
  <2> QED
    BY <2>2, <2>3, RequestsStay
<1>4. PolicyPlansStand'
  BY <1>1 DEF PolicyPlansStand
<1> QED
  BY <1>2, <1>3, <1>4

LEMMA CommitUpdateUnitIInv ==
  ASSUME IInv, NEW r \in Requests, CommitUpdateUnit(r)
  PROVE  IInv'
<1> DEFINE q == req[r]
           old == units[q.unit]
           row == [old EXCEPT !.plan = Written(q.found.plan, q.set.plan, @),
                              !.active = Written(q.found.active, q.set.active, @)]
<1>1. /\ q \in UpdateUnitRequest /\ UpdateUnitOK(q) /\ q.found \in Unit /\ q.set \in Unit
      /\ q.unit \in DOMAIN units /\ old \in Unit
  BY RequestFields DEF CommitUpdateUnit, IInv, RequestsOK, RequestOK, UpdateUnitOK, TypeOK
<1>2. row \in Unit /\ row.kind = old.kind /\ row.plan \in {old.plan, q.set.plan}
  BY <1>1 DEF Unit, Written
<1>3. row.kind \in Kinds => row.plan = DefaultPlan[row.kind]
  BY <1>1, <1>2 DEF UpdateUnitOK, IInv, PolicyPlansStand
<1>4. units' = [units EXCEPT ![q.unit] = row]
  BY <1>1 DEF CommitUpdateUnit, Unit
<1> QED
  BY <1>1, <1>2, <1>3, <1>4, UnitWriteIInv DEF CommitUpdateUnit

LEMMA CommitDeleteUnitIInv ==
  ASSUME IInv, NEW r \in Requests, CommitDeleteUnit(r)
  PROVE  IInv'
<1> DEFINE q == req[r]
           old == units[q.unit]
           row == [old EXCEPT !.active = Written(q.found.active, FALSE, @)]
<1>1. /\ q \in DeleteUnitRequest /\ q.found \in Unit /\ q.unit \in DOMAIN units /\ old \in Unit
  BY RequestFields DEF CommitDeleteUnit, IInv, RequestsOK, RequestOK, TypeOK
<1>2. row \in Unit /\ row.kind = old.kind /\ row.plan = old.plan
  BY <1>1 DEF Unit, Written
<1>3. row.kind \in Kinds => row.plan = DefaultPlan[row.kind]
  BY <1>1, <1>2 DEF IInv, PolicyPlansStand
<1>4. units' = [units EXCEPT ![q.unit] = row]
  BY <1>1 DEF CommitDeleteUnit, Unit
<1> QED
  BY <1>1, <1>2, <1>3, <1>4, UnitWriteIInv DEF CommitDeleteUnit

LEMMA CreateBudgetIInv ==
  ASSUME IInv, NEW r \in Requests, NEW u \in Admins, NEW b \in BudgetIds, NEW n \in UnitIds,
         NEW year \in Years, NEW limit \in Limit, CreateBudget(r, u, b, n, year, limit)
  PROVE  IInv'
<1> USE DEF IInv
<1> DEFINE row == [tenant |-> UserTenant[u], unit |-> n, year |-> year, limit |-> limit]
           entry == [op |-> "create_budget", user |-> u, id |-> b]
<1>1. row \in Budget /\ entry \in Entry
  BY TenancyAssumption DEF Budget, Entry
<1>2. /\ budgets' = With(budgets, b, row) /\ b \notin DOMAIN budgets
      /\ budgets \in [DOMAIN budgets -> Budget]
      /\ audited' = audited \union {entry}
      /\ UNCHANGED <<units, exps, req>>
  BY DEF CreateBudget, Audit, TypeOK
<1>3. /\ DOMAIN budgets' = DOMAIN budgets \union {b}
      /\ budgets' \in [DOMAIN budgets' -> Budget]
      /\ \A i \in DOMAIN budgets : budgets'[i] = budgets[i]
  BY <1>1, <1>2 DEF With
<1>4. TypeOK'
  BY <1>1, <1>2, <1>3 DEF TypeOK
<1>5. RequestsOK' /\ IdsApart'
  BY <1>2, <1>3, RequestsStay DEF RequestsOK, RequestOK
<1>6. PolicyPlansStand'
  BY <1>2 DEF PolicyPlansStand
<1> QED
  BY <1>4, <1>5, <1>6

LEMMA CommitUpdateBudgetIInv ==
  ASSUME IInv, NEW r \in Requests, CommitUpdateBudget(r)
  PROVE  IInv'
<1> USE DEF IInv
<1> DEFINE q == req[r]
           old == budgets[q.budget]
           limit == [c \in Categories |-> Written(q.found[c], q.set[c], old.limit[c])]
           row == [old EXCEPT !.limit = limit]
           entry == [op |-> "update_budget", user |-> q.user, id |-> q.budget]
<1>1. /\ q \in BudgetRequest /\ q.user \in Users /\ q.budget \in BudgetIds
      /\ q.found \in Limit /\ q.set \in Limit
      /\ q.budget \in DOMAIN budgets /\ old \in Budget
  BY RequestFields DEF CommitUpdateBudget, RequestsOK, RequestOK, BudgetRequestOK, TypeOK
<1>2. limit \in Limit
  BY <1>1 DEF Limit, Budget, Written
<1>3. row \in Budget /\ row.tenant = old.tenant /\ entry \in Entry
  BY <1>1, <1>2 DEF Budget, Entry
<1>4. /\ budgets' = [budgets EXCEPT ![q.budget] = row]
      /\ audited' = audited \union {entry} /\ Done(r) /\ UNCHANGED <<units, exps>>
  BY <1>1 DEF CommitUpdateBudget, Audit, Budget
<1>5. /\ DOMAIN budgets' = DOMAIN budgets
      /\ \A b \in DOMAIN budgets : budgets'[b].tenant = budgets[b].tenant
      /\ budgets' \in [DOMAIN budgets -> Budget]
  BY <1>1, <1>3, <1>4 DEF TypeOK
<1>6. TypeOK'
  BY <1>3, <1>4, <1>5 DEF TypeOK, Done, Set
<1>7. RequestsOK' /\ IdsApart'
  <2>1. \A s \in Requests : req'[s] \in FlushedRequest => req'[s] = req[s]
    BY <1>4, NoRequestOK DEF Done, Set, TypeOK
  <2>2. \A s \in Requests : req'[s] \in FlushedRequest => req'[s].id \notin DOMAIN exps'
    BY <1>4, <2>1 DEF RequestsOK, RequestOK
  <2> QED
    BY <1>4, <1>5, <2>2, RequestsStay
<1>8. PolicyPlansStand'
  BY <1>4 DEF PolicyPlansStand
<1> QED
  BY <1>6, <1>7, <1>8

LEMMA CommitExpenditureIInv ==
  ASSUME IInv, NEW r \in Requests, CommitExpenditure(r)
  PROVE  IInv'
<1> USE DEF IInv
<1> DEFINE q == req[r]
           entry == [op |-> "create_expenditure", user |-> q.user, id |-> q.id]
<1>1. /\ q \in FlushedRequest /\ q.user \in Users /\ q.row \in Exp /\ q.id \in ExpIds
      /\ q.id \notin DOMAIN exps
  BY RequestFields DEF CommitExpenditure, RequestsOK, RequestOK
<1>2. entry \in Entry
  BY <1>1 DEF Entry
<1>3. /\ exps' = With(exps, q.id, q.row)
      /\ audited' = audited \union {entry} /\ Done(r) /\ UNCHANGED <<units, budgets>>
  BY DEF CommitExpenditure, Audit
<1>4. /\ DOMAIN exps' = DOMAIN exps \union {q.id}
      /\ exps' \in [DOMAIN exps' -> Exp]
      /\ \A e \in DOMAIN exps : exps'[e] = exps[e]
  BY <1>1, <1>3 DEF With, TypeOK
<1>5. TypeOK'
  BY <1>1, <1>2, <1>3, <1>4 DEF TypeOK, Done, Set
<1>6. RequestsOK' /\ IdsApart'
  <2>1. \A s \in Requests : req'[s] \in FlushedRequest => s # r /\ req'[s] = req[s]
    BY <1>3, NoRequestOK DEF Done, Set, TypeOK
  <2>2. \A s \in Requests : req'[s] \in FlushedRequest => req'[s].id \notin DOMAIN exps'
    BY <1>1, <1>4, <2>1 DEF RequestsOK, RequestOK, IdsApart
  <2> QED
    BY <1>3, <1>4, <2>2, RequestsStay
<1>7. PolicyPlansStand'
  BY <1>3 DEF PolicyPlansStand
<1> QED
  BY <1>5, <1>6, <1>7

LEMMA CommitDeleteExpenditureIInv ==
  ASSUME IInv, NEW r \in Requests, CommitDeleteExpenditure(r)
  PROVE  IInv'
<1> USE DEF IInv
<1> DEFINE q == req[r]
           row == [exps[q.exp] EXCEPT !.deleted = TRUE]
           entry == [op |-> "delete_expenditure", user |-> q.user, id |-> q.exp]
<1>1. /\ q \in RefundRequest /\ q.user \in Users /\ q.exp \in ExpIds
      /\ q.exp \in DOMAIN exps /\ exps[q.exp] \in Exp
  BY RequestFields DEF CommitDeleteExpenditure, RequestsOK, RequestOK, TypeOK
<1>2. row \in Exp /\ row.tenant = exps[q.exp].tenant /\ entry \in Entry
  BY <1>1 DEF Exp, Entry
<1>3. /\ exps' = [exps EXCEPT ![q.exp] = row]
      /\ audited' = audited \union {entry} /\ Done(r) /\ UNCHANGED <<units, budgets>>
  BY <1>1 DEF CommitDeleteExpenditure, Audit, Exp
<1>4. /\ DOMAIN exps' = DOMAIN exps
      /\ exps' \in [DOMAIN exps -> Exp]
      /\ \A e \in DOMAIN exps : exps'[e].tenant = exps[e].tenant
  BY <1>1, <1>2, <1>3 DEF TypeOK
<1>5. TypeOK'
  BY <1>2, <1>3, <1>4 DEF TypeOK, Done, Set
<1>6. RequestsOK' /\ IdsApart'
  <2>1. \A s \in Requests : req'[s] \in FlushedRequest => req'[s] = req[s]
    BY <1>3, NoRequestOK DEF Done, Set, TypeOK
  <2>2. \A s \in Requests : req'[s] \in FlushedRequest => req'[s].id \notin DOMAIN exps'
    BY <1>4, <2>1 DEF RequestsOK, RequestOK
  <2> QED
    BY <1>3, <1>4, <2>2, RequestsStay
<1>7. PolicyPlansStand'
  BY <1>3 DEF PolicyPlansStand
<1> QED
  BY <1>5, <1>6, <1>7

-----------------------------------------------------------------------------
(* The looks.                                                              *)

\* What a handler holds after a SELECT that found its row.
Holds(r) ==
  \E q \in Request \union {NoRequest} :
    Look(r, q) /\ RequestOK(q) /\ (q \in FlushedRequest => Fresh(q.id))

LEMMA AskHolds ==
  ASSUME IInv, NEW r \in Requests, NEW u \in Admins
  PROVE  /\ \A n \in UnitIds, plan \in Plans, active \in BOOLEAN :
              UpdateUnit(r, u, n, plan, active) => Holds(r)
         /\ \A n \in UnitIds : DeleteUnit(r, u, n) => Holds(r)
         /\ \A b \in BudgetIds, limit \in Limit : UpdateBudget(r, u, b, limit) => Holds(r)
         /\ \A b \in BudgetIds, c \in Categories, amount \in Amounts :
              CreateExpenditure(r, u, b, c, amount) => Holds(r)
         /\ \A e \in ExpIds : DeleteExpenditure(r, u, e) => Holds(r)
<1>1. u \in Users /\ UserTenant[u] \in Tenants
  BY TenancyAssumption
<1>2. ASSUME NEW n \in UnitIds, NEW plan \in Plans, NEW active \in BOOLEAN,
             UpdateUnit(r, u, n, plan, active)
      PROVE  Holds(r)
  <2> DEFINE new == [units[n] EXCEPT !.plan = IF units[n].kind = Market THEN plan ELSE @,
                                     !.active = active]
             q == [op |-> "update_unit", user |-> u, unit |-> n, found |-> units[n], set |-> new]
  <2>1. n \in DOMAIN units /\ units[n] \in Unit /\ Look(r, q)
    BY <1>2 DEF UpdateUnit, UnitFound, IInv, TypeOK
  <2>2. /\ new \in Unit /\ new.kind = units[n].kind
        /\ new.plan = IF units[n].kind = Market THEN plan ELSE units[n].plan
    BY <2>1 DEF Unit
  <2>3. new.kind \in Kinds => new.plan = DefaultPlan[new.kind]
    BY <2>1, <2>2, PlanAssumption DEF IInv, PolicyPlansStand
  <2>4. q \in UpdateUnitRequest
    BY <1>1, <2>1, <2>2 DEF UpdateUnitRequest
  <2>5. q \notin DeleteUnitRequest /\ q \notin BudgetRequest /\ q \notin SpendRequest
        /\ q \notin FlushedRequest /\ q \notin RefundRequest
    BY RequestFields
  <2>6. RequestOK(q)
    BY <2>1, <2>2, <2>3, <2>5 DEF RequestOK, UpdateUnitOK
  <2> QED
    BY <2>1, <2>4, <2>5, <2>6 DEF Holds, Request
<1>3. ASSUME NEW n \in UnitIds, DeleteUnit(r, u, n) PROVE Holds(r)
  <2> DEFINE q == [op |-> "delete_unit", user |-> u, unit |-> n, found |-> units[n],
                   at |-> "selected", list |-> {}, known |-> DOMAIN exps]
  <2>1. /\ n \in DOMAIN units /\ units[n] \in Unit /\ Look(r, q)
        /\ DOMAIN exps \in SUBSET ExpIds
    BY <1>3 DEF DeleteUnit, UnitFound, IInv, TypeOK
  <2>2. q \in DeleteUnitRequest
    BY <1>1, <2>1 DEF DeleteUnitRequest
  <2>3. q \notin UpdateUnitRequest /\ q \notin BudgetRequest /\ q \notin SpendRequest
        /\ q \notin FlushedRequest /\ q \notin RefundRequest
    BY RequestFields
  <2> QED
    BY <2>1, <2>2, <2>3 DEF Holds, Request, RequestOK
<1>4. ASSUME NEW b \in BudgetIds, NEW limit \in Limit, UpdateBudget(r, u, b, limit)
      PROVE  Holds(r)
  <2> DEFINE q == [op |-> "update_budget", user |-> u, budget |-> b,
                   found |-> budgets[b].limit, set |-> limit]
  <2>1. /\ b \in DOMAIN budgets /\ budgets[b] \in Budget /\ Look(r, q)
        /\ budgets[b].tenant = UserTenant[u]
    BY <1>4 DEF UpdateBudget, BudgetFound, IInv, TypeOK
  <2>2. q \in BudgetRequest
    BY <1>1, <2>1 DEF BudgetRequest, Budget
  <2>3. q \notin UpdateUnitRequest /\ q \notin DeleteUnitRequest /\ q \notin SpendRequest
        /\ q \notin FlushedRequest /\ q \notin RefundRequest
    BY RequestFields
  <2> QED
    BY <2>1, <2>2, <2>3 DEF Holds, Request, RequestOK, BudgetRequestOK
<1>5. ASSUME NEW b \in BudgetIds, NEW c \in Categories, NEW amount \in Amounts,
             CreateExpenditure(r, u, b, c, amount)
      PROVE  Holds(r)
  <2> DEFINE row == [tenant |-> UserTenant[u], budget |-> b, category |-> c,
                     amount |-> amount, deleted |-> FALSE]
             q == [op |-> "create_expenditure", user |-> u, row |-> row]
  <2>1. /\ b \in DOMAIN budgets /\ budgets[b] \in Budget /\ Look(r, q)
        /\ budgets[b].tenant = UserTenant[u]
    BY <1>5 DEF CreateExpenditure, BudgetFound, IInv, TypeOK
  <2>2. row \in Exp
    BY <1>1, <2>1 DEF Exp
  <2>3. q \in SpendRequest
    BY <1>1, <2>2 DEF SpendRequest
  <2>4. q \notin UpdateUnitRequest /\ q \notin DeleteUnitRequest /\ q \notin BudgetRequest
        /\ q \notin FlushedRequest /\ q \notin RefundRequest
    BY RequestFields
  <2> QED
    BY <2>1, <2>3, <2>4 DEF Holds, Request, RequestOK, SpendOK
<1>6. ASSUME NEW e \in ExpIds, DeleteExpenditure(r, u, e) PROVE Holds(r)
  <2> DEFINE q == [op |-> "delete_expenditure", user |-> u, exp |-> e]
  <2>1. e \in DOMAIN exps /\ exps[e].tenant = UserTenant[u] /\ Look(r, q)
    BY <1>6 DEF DeleteExpenditure, ExpFound
  <2>2. q \in RefundRequest
    BY <1>1 DEF RefundRequest
  <2>3. q \notin UpdateUnitRequest /\ q \notin DeleteUnitRequest /\ q \notin BudgetRequest
        /\ q \notin SpendRequest /\ q \notin FlushedRequest
    BY RequestFields
  <2> QED
    BY <2>1, <2>2, <2>3 DEF Holds, Request, RequestOK
<1> QED
  BY <1>2, <1>3, <1>4, <1>5, <1>6

LEMMA ProceedHolds ==
  ASSUME IInv, NEW r \in Requests
  PROVE  /\ ListBudgets(r) \/ CountExpenditures(r) \/ Abort(r) => Holds(r)
         /\ \A id \in ExpIds : FlushExpenditure(r, id) => Holds(r)
<1> DEFINE q == req[r]
<1>1. Look(r, NoRequest) => Holds(r)
  BY NoRequestOK DEF Holds
<1>2. ASSUME NEW p \in DeleteUnitRequest, Look(r, p), p.unit \in DOMAIN units
      PROVE  Holds(r)
  <2>1. p \notin UpdateUnitRequest /\ p \notin BudgetRequest /\ p \notin SpendRequest
        /\ p \notin FlushedRequest /\ p \notin RefundRequest
    BY RequestFields
  <2> QED
    BY <1>2, <2>1 DEF Holds, Request, RequestOK
<1>3. q \in DeleteUnitRequest => q.unit \in DOMAIN units
  BY DEF IInv, RequestsOK, RequestOK
<1>4. ASSUME ListBudgets(r) PROVE Holds(r)
  <2> DEFINE list == {b \in DOMAIN budgets : /\ budgets[b].unit = q.unit
                                             /\ Visible(q.user, budgets[b])}
             p == [q EXCEPT !.at = "listed", !.list = list]
  <2>1. q \in DeleteUnitRequest /\ Look(r, p)
    BY <1>4 DEF ListBudgets
  <2>2. list \in SUBSET BudgetIds
    BY DEF IInv, TypeOK
  <2>3. p \in DeleteUnitRequest /\ p.unit = q.unit
    BY <2>1, <2>2 DEF DeleteUnitRequest
  <2> QED
    BY <1>2, <1>3, <2>1, <2>3
<1>5. ASSUME CountExpenditures(r) PROVE Holds(r)
  <2> DEFINE p == [q EXCEPT !.at = "counted"]
  <2>1. q \in DeleteUnitRequest /\ (Look(r, p) \/ Look(r, NoRequest))
    BY <1>5 DEF CountExpenditures
  <2>2. p \in DeleteUnitRequest /\ p.unit = q.unit
    BY <2>1 DEF DeleteUnitRequest
  <2> QED
    BY <1>1, <1>2, <1>3, <2>1, <2>2
<1>6. Abort(r) => Holds(r)
  BY <1>1 DEF Abort
<1>7. ASSUME NEW id \in ExpIds, FlushExpenditure(r, id) PROVE Holds(r)
  <2> DEFINE p == [op |-> "insert_expenditure", user |-> q.user, row |-> q.row, id |-> id]
  <2>1. q \in SpendRequest /\ Fresh(id) /\ Look(r, p)
    BY <1>7 DEF FlushExpenditure
  <2>2. SpendOK(q)
    BY <2>1 DEF IInv, RequestsOK, RequestOK
  <2>3. p \in FlushedRequest /\ p.id = id /\ p.row = q.row /\ p.user = q.user
    BY <2>1, RequestFields DEF FlushedRequest
  <2>4. p \notin UpdateUnitRequest /\ p \notin DeleteUnitRequest /\ p \notin BudgetRequest
        /\ p \notin SpendRequest /\ p \notin RefundRequest
    BY RequestFields
  <2>5. RequestOK(p)
    BY <2>1, <2>2, <2>3, <2>4 DEF RequestOK, SpendOK, Fresh
  <2> QED
    BY <2>1, <2>3, <2>5 DEF Holds, Request
<1> QED
  BY <1>4, <1>5, <1>6, <1>7

-----------------------------------------------------------------------------
\* Every step writes one of the tables or is a look of a request.
LEMMA StepCases ==
  ASSUME IInv, Next
  PROVE  \E r \in Requests :
           \/ Holds(r)
           \/ \E u \in Admins, n \in UnitIds, kind \in Kinds \union {Market}, plan \in Plans :
                CreateUnit(r, u, n, kind, plan)
           \/ CommitUpdateUnit(r)
           \/ CommitDeleteUnit(r)
           \/ \E u \in Admins, b \in BudgetIds, n \in UnitIds, year \in Years, limit \in Limit :
                CreateBudget(r, u, b, n, year, limit)
           \/ CommitUpdateBudget(r)
           \/ CommitExpenditure(r)
           \/ CommitDeleteExpenditure(r)
<1> PICK r \in Requests : Ask(r) \/ Proceed(r)
  BY DEF Next
<1>1. CASE Ask(r)
  BY <1>1, AskHolds DEF Ask
<1>2. CASE Proceed(r)
  BY <1>2, ProceedHolds DEF Proceed
<1> QED
  BY <1>1, <1>2

LEMMA NextIInv == IInv /\ [Next]_vars => IInv'
<1> SUFFICES ASSUME IInv, [Next]_vars PROVE IInv'
  OBVIOUS
<1>1. CASE UNCHANGED vars
  BY <1>1 DEF vars, IInv, TypeOK, RequestsOK, RequestOK, UpdateUnitOK, BudgetRequestOK,
              SpendOK, IdsApart, PolicyPlansStand
<1>2. CASE Next
  <2>1. ASSUME NEW r \in Requests, Holds(r) PROVE IInv'
    BY <2>1, LookIInv DEF Holds
  <2> QED
    BY <1>2, <2>1, StepCases, CreateUnitIInv, CommitUpdateUnitIInv, CommitDeleteUnitIInv,
       CreateBudgetIInv, CommitUpdateBudgetIInv, CommitExpenditureIInv,
       CommitDeleteExpenditureIInv
<1> QED
  BY <1>1, <1>2

THEOREM Invariance == Spec => []IInv
BY InitIInv, NextIInv, PTL DEF Spec

\* Rows, requests in flight and audit entries keep the shape of their tables.
THEOREM TypeCorrect == Spec => []TypeOK
<1>1. IInv => TypeOK
  BY DEF IInv
<1> QED
  BY <1>1, Invariance, PTL

\* A unit of a type the policy fixes has the hours of TYPE_DEFAULTS, however
\* updates and deletions of it interleave.
THEOREM PlansStand == Spec => []PolicyPlansStand
<1>1. IInv => PolicyPlansStand
  BY DEF IInv
<1> QED
  BY <1>1, Invariance, PTL

-----------------------------------------------------------------------------
(* What a step may change in each table.                                   *)

LEMMA TableSteps ==
  ASSUME IInv, [Next]_vars
  PROVE  /\ \/ UNCHANGED units
            \/ \E r \in Requests, u \in Admins, n \in UnitIds, kind \in Kinds \union {Market},
                  plan \in Plans : CreateUnit(r, u, n, kind, plan)
            \/ \E r \in Requests : CommitUpdateUnit(r) \/ CommitDeleteUnit(r)
         /\ \/ UNCHANGED budgets
            \/ \E r \in Requests, u \in Admins, b \in BudgetIds, n \in UnitIds, year \in Years,
                  limit \in Limit : CreateBudget(r, u, b, n, year, limit)
            \/ \E r \in Requests : CommitUpdateBudget(r)
         /\ \/ UNCHANGED exps
            \/ \E r \in Requests : CommitExpenditure(r) \/ CommitDeleteExpenditure(r)
         /\ \/ UNCHANGED audited
            \/ \E r \in Requests, u \in Admins, b \in BudgetIds, n \in UnitIds, year \in Years,
                  limit \in Limit : CreateBudget(r, u, b, n, year, limit)
            \/ \E r \in Requests : CommitUpdateBudget(r)
            \/ \E r \in Requests : CommitExpenditure(r) \/ CommitDeleteExpenditure(r)
<1>1. CASE UNCHANGED vars
  BY <1>1 DEF vars
<1>2. CASE Next
  <2>1. ASSUME NEW r \in Requests, Holds(r) PROVE UNCHANGED <<units, budgets, exps, audited>>
    BY <2>1 DEF Holds, Look
  <2>2. ASSUME NEW r, NEW u, NEW n, NEW kind, NEW plan, CreateUnit(r, u, n, kind, plan)
        PROVE  UNCHANGED <<budgets, exps, audited>>
    BY <2>2 DEF CreateUnit
  <2>3. ASSUME NEW r, CommitUpdateUnit(r) \/ CommitDeleteUnit(r)
        PROVE  UNCHANGED <<budgets, exps, audited>>
    BY <2>3 DEF CommitUpdateUnit, CommitDeleteUnit
  <2>4. ASSUME NEW r, NEW u, NEW b, NEW n, NEW year, NEW limit,
               CreateBudget(r, u, b, n, year, limit)
        PROVE  UNCHANGED <<units, exps>>
    BY <2>4 DEF CreateBudget
  <2>5. ASSUME NEW r, CommitUpdateBudget(r) PROVE UNCHANGED <<units, exps>>
    BY <2>5 DEF CommitUpdateBudget
  <2>6. ASSUME NEW r, CommitExpenditure(r) \/ CommitDeleteExpenditure(r)
        PROVE  UNCHANGED <<units, budgets>>
    BY <2>6 DEF CommitExpenditure, CommitDeleteExpenditure
  <2> QED
    BY <1>2, <2>1, <2>2, <2>3, <2>4, <2>5, <2>6, StepCases
<1> QED
  BY <1>1, <1>2

LEMMA BudgetWritten ==
  ASSUME IInv, NEW r \in Requests, CommitUpdateBudget(r)
  PROVE  LET q == req[r]
         IN  /\ q \in BudgetRequest /\ BudgetRequestOK(q) /\ q.user \in Users
             /\ q.found \in Limit /\ q.set \in Limit
             /\ DOMAIN budgets' = DOMAIN budgets
             /\ \A b \in DOMAIN budgets : b # q.budget => budgets'[b] = budgets[b]
             /\ budgets'[q.budget].tenant = budgets[q.budget].tenant
             /\ budgets'[q.budget].unit = budgets[q.budget].unit
             /\ budgets'[q.budget].year = budgets[q.budget].year
             /\ \A c \in Categories :
                  budgets'[q.budget].limit[c] =
                    Written(q.found[c], q.set[c], budgets[q.budget].limit[c])
<1>1. /\ req[r] \in BudgetRequest /\ BudgetRequestOK(req[r]) /\ req[r].user \in Users
      /\ req[r].found \in Limit /\ req[r].set \in Limit
      /\ req[r].budget \in DOMAIN budgets /\ budgets[req[r].budget] \in Budget
      /\ budgets \in [DOMAIN budgets -> Budget]
  BY RequestFields DEF CommitUpdateBudget, IInv, RequestsOK, RequestOK, BudgetRequestOK, TypeOK
<1> QED
  BY <1>1 DEF CommitUpdateBudget, Budget

LEMMA BudgetCreated ==
  ASSUME IInv, NEW r \in Requests, NEW u \in Admins, NEW b \in BudgetIds, NEW n \in UnitIds,
         NEW year \in Years, NEW limit \in Limit, CreateBudget(r, u, b, n, year, limit)
  PROVE  /\ b \notin DOMAIN budgets /\ DOMAIN budgets' = DOMAIN budgets \union {b}
         /\ budgets'[b].unit = n /\ budgets'[b].year = year
         /\ \A i \in DOMAIN budgets : budgets'[i] = budgets[i]
         /\ audited' = audited \union {[op |-> "create_budget", user |-> u, id |-> b]}
         /\ UNCHANGED exps
BY DEF CreateBudget, With, Audit

LEMMA ExpCommitted ==
  ASSUME IInv, NEW r \in Requests, CommitExpenditure(r)
  PROVE  LET q == req[r]
         IN  /\ q \in FlushedRequest /\ SpendOK(q) /\ q.user \in Users
             /\ q.id \notin DOMAIN exps /\ DOMAIN exps' = DOMAIN exps \union {q.id}
             /\ exps'[q.id] = q.row
             /\ \A e \in DOMAIN exps : exps'[e] = exps[e]
             /\ audited' = audited \union
                  {[op |-> "create_expenditure", user |-> q.user, id |-> q.id]}
             /\ UNCHANGED <<units, budgets>>
BY RequestFields DEF CommitExpenditure, IInv, RequestsOK, RequestOK, With, Audit

LEMMA ExpDeleted ==
  ASSUME IInv, NEW r \in Requests, CommitDeleteExpenditure(r)
  PROVE  LET q == req[r]
         IN  /\ q \in RefundRequest /\ q.user \in Users
             /\ q.exp \in DOMAIN exps /\ exps[q.exp].tenant = UserTenant[q.user]
             /\ DOMAIN exps' = DOMAIN exps
             /\ \A e \in DOMAIN exps : e # q.exp => exps'[e] = exps[e]
             /\ exps'[q.exp].tenant = exps[q.exp].tenant
             /\ exps'[q.exp].budget = exps[q.exp].budget
             /\ audited' = audited \union
                  {[op |-> "delete_expenditure", user |-> q.user, id |-> q.exp]}
             /\ UNCHANGED <<units, budgets>>
<1>1. /\ req[r] \in RefundRequest /\ req[r].user \in Users
      /\ req[r].exp \in DOMAIN exps /\ exps[req[r].exp] \in Exp
      /\ exps[req[r].exp].tenant = UserTenant[req[r].user]
      /\ exps \in [DOMAIN exps -> Exp]
  BY RequestFields DEF CommitDeleteExpenditure, IInv, RequestsOK, RequestOK, TypeOK
<1> QED
  BY <1>1 DEF CommitDeleteExpenditure, Exp, Audit

-----------------------------------------------------------------------------
\* A business unit has at most one budget of a year, for any number of requests
\* in flight: the unique constraint is checked where a budget is inserted and
\* no update moves one to another unit or year.
THEOREM AtMostOneBudget == Spec => []OneBudgetPerUnitYear
<1>1. Init => OneBudgetPerUnitYear
  BY DEF Init, OneBudgetPerUnitYear
<1>2. ASSUME IInv, OneBudgetPerUnitYear, [Next]_vars PROVE OneBudgetPerUnitYear'
  <2>1. CASE UNCHANGED budgets
    BY <1>2, <2>1 DEF OneBudgetPerUnitYear
  <2>2. ASSUME NEW r \in Requests, NEW u \in Admins, NEW b \in BudgetIds, NEW n \in UnitIds,
               NEW year \in Years, NEW limit \in Limit, CreateBudget(r, u, b, n, year, limit)
        PROVE  OneBudgetPerUnitYear'
    <3>1. ~SlotTaken(n, year)
      BY <2>2 DEF CreateBudget
    <3>2. /\ b \notin DOMAIN budgets /\ DOMAIN budgets' = DOMAIN budgets \union {b}
          /\ budgets'[b].unit = n /\ budgets'[b].year = year
          /\ \A i \in DOMAIN budgets : budgets'[i] = budgets[i]
      BY <2>2 DEF CreateBudget, With
    <3>3. \A i \in DOMAIN budgets : ~(budgets[i].unit = n /\ budgets[i].year = year)
      BY <3>1 DEF SlotTaken
    <3> SUFFICES ASSUME NEW i \in DOMAIN budgets', NEW j \in DOMAIN budgets',
                        budgets'[i].unit = budgets'[j].unit, budgets'[i].year = budgets'[j].year
                 PROVE  i = j
      BY DEF OneBudgetPerUnitYear
    <3>4. CASE i \in DOMAIN budgets /\ j \in DOMAIN budgets
      BY <1>2, <3>2, <3>4 DEF OneBudgetPerUnitYear
    <3>5. CASE i = b \/ j = b
      BY <3>2, <3>3, <3>5
    <3> QED
      BY <3>2, <3>4, <3>5
  <2>3. ASSUME NEW r \in Requests, CommitUpdateBudget(r) PROVE OneBudgetPerUnitYear'
    <3>1. /\ DOMAIN budgets' = DOMAIN budgets
          /\ \A b \in DOMAIN budgets : /\ budgets'[b].unit = budgets[b].unit
                                       /\ budgets'[b].year = budgets[b].year
      BY <1>2, <2>3, BudgetWritten
    <3> QED
      BY <1>2, <3>1 DEF OneBudgetPerUnitYear
  <2> QED
    BY <1>2, <2>1, <2>2, <2>3, TableSteps
<1> QED
  BY <1>1, <1>2, Invariance, PTL DEF Spec

\* An update of a budget changes the categories it was sent another value for
\* and no others, whatever was committed since it SELECTed the budget.
THEOREM UpdatesMerge == Spec => OnlySentLimitsChange
<1>1. ASSUME IInv, [Next]_vars
      PROVE  [\A b \in DOMAIN budgets : \A c \in Categories :
                budgets'[b].limit[c] # budgets[b].limit[c] =>
                  \E r \in Requests :
                    /\ req[r] \in BudgetRequest /\ req[r].budget = b
                    /\ req[r].found[c] # req[r].set[c]
                    /\ req[r].set[c] = budgets'[b].limit[c]]_budgets
  <2> SUFFICES ASSUME NEW b \in DOMAIN budgets, NEW c \in Categories,
                      budgets'[b].limit[c] # budgets[b].limit[c]
               PROVE  \E r \in Requests :
                        /\ req[r] \in BudgetRequest /\ req[r].budget = b
                        /\ req[r].found[c] # req[r].set[c]
                        /\ req[r].set[c] = budgets'[b].limit[c]
    OBVIOUS
  <2>1. ASSUME NEW r \in Requests, NEW u \in Admins, NEW i \in BudgetIds, NEW n \in UnitIds,
               NEW year \in Years, NEW limit \in Limit, CreateBudget(r, u, i, n, year, limit)
        PROVE  FALSE
    BY <1>1, <2>1, BudgetCreated
  <2>2. ASSUME NEW r \in Requests, CommitUpdateBudget(r)
        PROVE  /\ req[r] \in BudgetRequest /\ req[r].budget = b
               /\ req[r].found[c] # req[r].set[c]
               /\ req[r].set[c] = budgets'[b].limit[c]
    BY <1>1, <2>2, BudgetWritten DEF Written
  <2> QED
    BY <1>1, <2>1, <2>2, TableSteps
<1> QED
  BY <1>1, Invariance, PTL DEF Spec, OnlySentLimitsChange

LEMMA LogGrows ==
  ASSUME NEW entry, audited' = audited \union {entry}
  PROVE  \A t, op, id : LoggedAt(audited, t, op, id) => LoggedAt(audited', t, op, id)
BY DEF LoggedAt

LEMMA EntryLogged ==
  ASSUME NEW op, NEW u \in Users, NEW id,
         audited' = audited \union {[op |-> op, user |-> u, id |-> id]}
  PROVE  LoggedAt(audited', UserTenant[u], op, id)
BY DEF LoggedAt

\* An expenditure, its budget and the users who created and deleted it are of
\* one tenant, for any number of tenants and requests in flight.
THEOREM TenantSpending == Spec => []SpendingStaysInTenant
<1>1. Init => SpendingStaysInTenant
  BY DEF Init, SpendingStaysInTenant
<1>2. ASSUME IInv, SpendingStaysInTenant, [Next]_vars PROVE SpendingStaysInTenant'
  <2>1. CASE UNCHANGED <<budgets, exps, audited>>
    BY <1>2, <2>1 DEF SpendingStaysInTenant
  <2>2. ASSUME NEW r \in Requests, NEW u \in Admins, NEW b \in BudgetIds, NEW n \in UnitIds,
               NEW year \in Years, NEW limit \in Limit, CreateBudget(r, u, b, n, year, limit)
        PROVE  SpendingStaysInTenant'
    <3>1. /\ \A i \in DOMAIN budgets : i \in DOMAIN budgets' /\ budgets'[i] = budgets[i]
          /\ UNCHANGED exps
          /\ audited' = audited \union {[op |-> "create_budget", user |-> u, id |-> b]}
      BY <1>2, <2>2, BudgetCreated
    <3>2. \A t, op, id : LoggedAt(audited, t, op, id) => LoggedAt(audited', t, op, id)
      BY <3>1, LogGrows
    <3>3. \A a \in audited' : a.op = "update_budget" => a \in audited
      BY <3>1
    <3> QED
      BY <1>2, <3>1, <3>2, <3>3 DEF SpendingStaysInTenant
  <2>3. ASSUME NEW r \in Requests, CommitUpdateBudget(r) PROVE SpendingStaysInTenant'
    <3>1. /\ \A i \in DOMAIN budgets : i \in DOMAIN budgets' /\ budgets'[i].tenant = budgets[i].tenant
          /\ UNCHANGED exps
          /\ audited' = audited \union
               {[op |-> "update_budget", user |-> req[r].user, id |-> req[r].budget]}
          /\ BudgetRequestOK(req[r])
      BY <1>2, <2>3, BudgetWritten DEF CommitUpdateBudget, Audit
    <3> DEFINE entry == [op |-> "update_budget", user |-> req[r].user, id |-> req[r].budget]
    <3>2. \A t, op, id : LoggedAt(audited, t, op, id) => LoggedAt(audited', t, op, id)
      BY <3>1, LogGrows
    <3>3. entry.id \in DOMAIN budgets /\ budgets[entry.id].tenant = UserTenant[entry.user]
      BY <3>1 DEF BudgetRequestOK
    <3> QED
      BY <1>2, <3>1, <3>2, <3>3 DEF SpendingStaysInTenant
  <2>4. ASSUME NEW r \in Requests, CommitExpenditure(r) PROVE SpendingStaysInTenant'
    <3> DEFINE q == req[r]
               entry == [op |-> "create_expenditure", user |-> q.user, id |-> q.id]
    <3>1. /\ SpendOK(q) /\ q.user \in Users
          /\ q.id \notin DOMAIN exps /\ DOMAIN exps' = DOMAIN exps \union {q.id}
          /\ exps'[q.id] = q.row
          /\ \A e \in DOMAIN exps : exps'[e] = exps[e]
          /\ audited' = audited \union {entry}
          /\ UNCHANGED <<units, budgets>>
      BY <1>2, <2>4, ExpCommitted
    <3>2. LoggedAt(audited', UserTenant[q.user], "create_expenditure", q.id)
      BY <3>1, EntryLogged
    <3>3. \A t, op, id : LoggedAt(audited, t, op, id) => LoggedAt(audited', t, op, id)
      BY <3>1, LogGrows
    <3>4. \A a \in audited' : a.op = "update_budget" => a \in audited
      BY <3>1
    <3> HIDE DEF entry
    <3> QED
      BY <1>2, <3>1, <3>2, <3>3, <3>4 DEF SpendingStaysInTenant, SpendOK
  <2>5. ASSUME NEW r \in Requests, CommitDeleteExpenditure(r) PROVE SpendingStaysInTenant'
    <3> DEFINE q == req[r]
               entry == [op |-> "delete_expenditure", user |-> q.user, id |-> q.exp]
    <3>1. /\ q.user \in Users
          /\ q.exp \in DOMAIN exps /\ exps[q.exp].tenant = UserTenant[q.user]
          /\ DOMAIN exps' = DOMAIN exps
          /\ \A e \in DOMAIN exps : e # q.exp => exps'[e] = exps[e]
          /\ exps'[q.exp].tenant = exps[q.exp].tenant
          /\ exps'[q.exp].budget = exps[q.exp].budget
          /\ audited' = audited \union {entry}
          /\ UNCHANGED <<units, budgets>>
      BY <1>2, <2>5, ExpDeleted
    <3>2. LoggedAt(audited', UserTenant[q.user], "delete_expenditure", q.exp)
      BY <3>1, EntryLogged
    <3>3. \A t, op, id : LoggedAt(audited, t, op, id) => LoggedAt(audited', t, op, id)
      BY <3>1, LogGrows
    <3>4. \A a \in audited' : a.op = "update_budget" => a \in audited
      BY <3>1
    <3> HIDE DEF entry
    <3> QED
      BY <1>2, <3>1, <3>2, <3>3, <3>4 DEF SpendingStaysInTenant
  <2> QED
    BY <1>2, <2>1, <2>2, <2>3, <2>4, <2>5, TableSteps
<1> QED
  BY <1>1, <1>2, Invariance, PTL DEF Spec

-----------------------------------------------------------------------------
(***************************************************************************)
(* The deletion of a unit.  What it knows at each of its steps about the   *)
(* expenditures that were there when it began, however old that knowledge  *)
(* is: rows are never removed, deleted ones do not come back, and a budget *)
(* stays with its unit.                                                    *)
(***************************************************************************)
DeletionOK(q) ==
  /\ q.known \subseteq DOMAIN exps
  /\ q.at = "listed" => \A e \in q.known : Spared(q, e) \/ exps[e].budget \in q.list
  /\ q.at = "counted" => \A e \in q.known : Spared(q, e)

DeletionsOK == \A r \in Requests : req[r] \in DeleteUnitRequest => DeletionOK(req[r])

\* The rows are there tomorrow, and nothing that stood in no way does.
RowsStay ==
  /\ \A e \in DOMAIN exps : e \in DOMAIN exps' /\ exps'[e].budget = exps[e].budget
  /\ \A e \in DOMAIN exps : \A q : Spared(q, e) => Spared(q, e)'

LEMMA TablesStay == IInv /\ SpendingStaysInTenant /\ [Next]_vars => RowsStay
<1> SUFFICES ASSUME IInv, SpendingStaysInTenant, [Next]_vars PROVE RowsStay
  OBVIOUS
<1>1. \A b \in DOMAIN budgets : b \in DOMAIN budgets' /\ budgets'[b].unit = budgets[b].unit
  <2>1. ASSUME NEW r \in Requests, NEW u \in Admins, NEW b \in BudgetIds, NEW n \in UnitIds,
               NEW year \in Years, NEW limit \in Limit, CreateBudget(r, u, b, n, year, limit)
        PROVE  \A i \in DOMAIN budgets : i \in DOMAIN budgets' /\ budgets'[i] = budgets[i]
    BY <2>1, BudgetCreated
  <2>2. ASSUME NEW r \in Requests, CommitUpdateBudget(r)
        PROVE  \A b \in DOMAIN budgets :
                 b \in DOMAIN budgets' /\ budgets'[b].unit = budgets[b].unit
    BY <2>2, BudgetWritten
  <2> QED
    BY <2>1, <2>2, TableSteps
<1>2. \A e \in DOMAIN exps :
        /\ e \in DOMAIN exps' /\ exps'[e].budget = exps[e].budget
        /\ exps'[e].tenant = exps[e].tenant /\ (exps[e].deleted => exps'[e].deleted)
  <2>1. ASSUME NEW r \in Requests, CommitExpenditure(r)
        PROVE  \A e \in DOMAIN exps : e \in DOMAIN exps' /\ exps'[e] = exps[e]
    BY <2>1, ExpCommitted
  <2>2. ASSUME NEW r \in Requests, CommitDeleteExpenditure(r)
        PROVE  \A e \in DOMAIN exps :
                 /\ e \in DOMAIN exps' /\ exps'[e].budget = exps[e].budget
                 /\ exps'[e].tenant = exps[e].tenant /\ (exps[e].deleted => exps'[e].deleted)
    <3>1. req[r].exp \in DOMAIN exps /\ exps[req[r].exp] \in Exp
      BY <2>2, ExpDeleted DEF IInv, TypeOK
    <3>2. exps'[req[r].exp].deleted
      BY <2>2, <3>1 DEF CommitDeleteExpenditure, Exp
    <3> QED
      BY <2>2, <3>2, ExpDeleted
  <2> QED
    BY <2>1, <2>2, TableSteps
<1>3. ASSUME NEW e \in DOMAIN exps, NEW q, Spared(q, e) PROVE Spared(q, e)'
  <2>1. exps[e].budget \in DOMAIN budgets
    BY DEF SpendingStaysInTenant
  <2> QED
    BY <1>1, <1>2, <1>3, <2>1 DEF Spared, Visible
<1> QED
  BY <1>2, <1>3 DEF RowsStay

\* Knowledge does not go stale.
LEMMA DeletionStays ==
  ASSUME NEW q \in DeleteUnitRequest, DeletionOK(q), RowsStay
  PROVE  DeletionOK(q)'
BY DEF DeletionOK, RowsStay

\* A look that leaves a request which deletes a unit.
LEMMA DeletionLook ==
  ASSUME IInv, SpendingStaysInTenant, DeletionsOK, RowsStay, NEW r \in Requests,
         NEW q, Look(r, q), q \in DeleteUnitRequest => DeletionOK(q)
  PROVE  DeletionsOK'
<1>1. \A p \in DeleteUnitRequest : DeletionOK(p) => DeletionOK(p)'
  BY DeletionStays
<1> QED
  BY <1>1 DEF Look, Set, DeletionsOK, IInv, TypeOK

LEMMA NoRequestNoDeletion == NoRequest \notin DeleteUnitRequest
BY NullAssumption DEF Request

LEMMA DeletionAsk ==
  ASSUME IInv, SpendingStaysInTenant, DeletionsOK, RowsStay, NEW r \in Requests, Ask(r)
  PROVE  DeletionsOK'
<1> PICK u \in Admins :
      \/ \E n \in UnitIds :
           \/ \E kind \in Kinds \union {Market}, plan \in Plans : CreateUnit(r, u, n, kind, plan)
           \/ \E plan \in Plans, active \in BOOLEAN : UpdateUnit(r, u, n, plan, active)
           \/ DeleteUnit(r, u, n)
      \/ \E b \in BudgetIds :
           \/ \E n \in UnitIds, year \in Years, limit \in Limit :
                CreateBudget(r, u, b, n, year, limit)
           \/ \E limit \in Limit : UpdateBudget(r, u, b, limit)
           \/ \E c \in Categories, amount \in Amounts : CreateExpenditure(r, u, b, c, amount)
      \/ \E e \in ExpIds : DeleteExpenditure(r, u, e)
  BY DEF Ask
<1>1. ASSUME NEW q, Look(r, q),
             q.op \in {"update_unit", "update_budget", "create_expenditure", "delete_expenditure"}
      PROVE  DeletionsOK'
  BY <1>1, RequestFields, DeletionLook
<1>2. ASSUME UNCHANGED req PROVE DeletionsOK'
  BY <1>2, DeletionStays DEF DeletionsOK
<1>3. ASSUME NEW n \in UnitIds, NEW kind, NEW plan, CreateUnit(r, u, n, kind, plan)
      PROVE  DeletionsOK'
  BY <1>2, <1>3 DEF CreateUnit
<1>4. ASSUME NEW n \in UnitIds, NEW plan \in Plans, NEW active \in BOOLEAN,
             UpdateUnit(r, u, n, plan, active)
      PROVE  DeletionsOK'
  BY <1>1, <1>4 DEF UpdateUnit
<1>5. ASSUME NEW n \in UnitIds, DeleteUnit(r, u, n) PROVE DeletionsOK'
  <2> DEFINE q == [op |-> "delete_unit", user |-> u, unit |-> n, found |-> units[n],
                   at |-> "selected", list |-> {}, known |-> DOMAIN exps]
  <2>1. Look(r, q) /\ q.at = "selected" /\ q.known = DOMAIN exps
    BY <1>5 DEF DeleteUnit
  <2>2. DeletionOK(q)
    BY <2>1 DEF DeletionOK
  <2> QED
    BY <2>1, <2>2, DeletionLook
<1>6. ASSUME NEW b, NEW n, NEW year, NEW limit, CreateBudget(r, u, b, n, year, limit)
      PROVE  DeletionsOK'
  BY <1>2, <1>6 DEF CreateBudget
<1>7. ASSUME NEW b \in BudgetIds, NEW limit \in Limit, UpdateBudget(r, u, b, limit)
      PROVE  DeletionsOK'
  BY <1>1, <1>7 DEF UpdateBudget
<1>8. ASSUME NEW b \in BudgetIds, NEW c \in Categories, NEW amount \in Amounts,
             CreateExpenditure(r, u, b, c, amount)
      PROVE  DeletionsOK'
  BY <1>1, <1>8 DEF CreateExpenditure
<1>9. ASSUME NEW e \in ExpIds, DeleteExpenditure(r, u, e) PROVE DeletionsOK'
  BY <1>1, <1>9 DEF DeleteExpenditure
<1> QED
  BY <1>3, <1>4, <1>5, <1>6, <1>7, <1>8, <1>9

LEMMA DeletionProceeds ==
  ASSUME IInv, SpendingStaysInTenant, DeletionsOK, RowsStay, NEW r \in Requests, Proceed(r)
  PROVE  DeletionsOK'
<1> DEFINE q == req[r]
<1>1. q \in DeleteUnitRequest => DeletionOK(q)
  BY DEF DeletionsOK
<1>2. Look(r, NoRequest) => DeletionsOK'
  BY NoRequestNoDeletion, DeletionLook
<1>3. Done(r) => DeletionsOK'
  <2>1. \A p \in DeleteUnitRequest : DeletionOK(p) => DeletionOK(p)'
    BY DeletionStays
  <2> QED
    BY <2>1, NoRequestNoDeletion DEF Done, Set, DeletionsOK, IInv, TypeOK
<1>4. ASSUME ListBudgets(r) PROVE DeletionsOK'
  <2> DEFINE list == {b \in DOMAIN budgets : /\ budgets[b].unit = q.unit
                                             /\ Visible(q.user, budgets[b])}
             p == [q EXCEPT !.at = "listed", !.list = list]
  <2>1. q \in DeleteUnitRequest /\ Look(r, p)
    BY <1>4 DEF ListBudgets
  <2>2. p.at = "listed" /\ p.list = list /\ p.unit = q.unit /\ p.user = q.user /\ p.known = q.known
    BY <2>1 DEF DeleteUnitRequest
  <2>3. q.known \subseteq DOMAIN exps
    BY <1>1, <2>1 DEF DeletionOK
  <2>4. ASSUME NEW e \in q.known PROVE Spared(p, e) \/ exps[e].budget \in p.list
    <3>1. /\ exps[e].budget \in DOMAIN budgets
          /\ budgets[exps[e].budget].tenant = exps[e].tenant
      BY <2>3 DEF SpendingStaysInTenant
    <3> HIDE DEF p
    <3> QED
      BY <2>2, <3>1 DEF Spared, Visible
  <2> HIDE DEF p
  <2>5. DeletionOK(p)
    BY <2>2, <2>3, <2>4 DEF DeletionOK
  <2> QED
    BY <2>1, <2>5, DeletionLook
<1>5. ASSUME CountExpenditures(r) PROVE DeletionsOK'
  <2> DEFINE p == [q EXCEPT !.at = "counted"]
  <2>1. /\ q \in DeleteUnitRequest /\ q.at = "listed"
        /\ \/ /\ \A b \in q.list : \A e \in Charged(exps, b) : ~Visible(q.user, exps[e])
              /\ Look(r, p)
           \/ Look(r, NoRequest)
    BY <1>5 DEF CountExpenditures
  <2>2. p.at = "counted" /\ p.unit = q.unit /\ p.user = q.user /\ p.known = q.known
    BY <2>1 DEF DeleteUnitRequest
  <2> HIDE DEF p
  <2>3. ASSUME \A b \in q.list : \A e \in Charged(exps, b) : ~Visible(q.user, exps[e])
        PROVE  DeletionOK(p)
    BY <1>1, <2>1, <2>2, <2>3 DEF DeletionOK, Spared, Charged
  <2> QED
    BY <1>2, <2>1, <2>3, DeletionLook
<1>6. ASSUME NEW id \in ExpIds, FlushExpenditure(r, id) PROVE DeletionsOK'
  <2> DEFINE p == [op |-> "insert_expenditure", user |-> q.user, row |-> q.row, id |-> id]
  <2>1. Look(r, p)
    BY <1>6 DEF FlushExpenditure
  <2>2. p \notin DeleteUnitRequest
    BY RequestFields
  <2> QED
    BY <2>1, <2>2, DeletionLook
<1>7. CASE \/ CommitUpdateUnit(r) \/ CommitDeleteUnit(r) \/ CommitUpdateBudget(r)
           \/ CommitExpenditure(r) \/ CommitDeleteExpenditure(r)
  BY <1>3, <1>7 DEF CommitUpdateUnit, CommitDeleteUnit, CommitUpdateBudget, CommitExpenditure,
                    CommitDeleteExpenditure
<1>8. Abort(r) => DeletionsOK'
  BY <1>2 DEF Abort
<1> QED
  BY <1>4, <1>5, <1>6, <1>7, <1>8 DEF Proceed

LEMMA DeletionInvariance == Spec => []DeletionsOK
<1>1. Init => DeletionsOK
  BY NoRequestNoDeletion DEF Init, DeletionsOK
<1>2. ASSUME IInv, SpendingStaysInTenant, DeletionsOK, [Next]_vars PROVE DeletionsOK'
  <2>1. RowsStay
    BY <1>2, TablesStay
  <2>2. CASE UNCHANGED vars
    BY <1>2, <2>2 DEF vars, DeletionsOK, DeletionOK, Spared, Visible
  <2>3. CASE Next
    BY <1>2, <2>1, <2>3, DeletionAsk, DeletionProceeds DEF Next
  <2> QED
    BY <1>2, <2>2, <2>3
<1> QED
  BY <1>1, <1>2, Invariance, TenantSpending, PTL DEF Spec

\* An expenditure that was there when the deletion of its unit began, and is
\* not deleted when that commits, keeps the unit, for any number of requests
\* in flight.
THEOREM SpendingKeepsUnits == Spec => EarlierSpendingKeepsUnit
<1>1. ASSUME IInv, DeletionsOK, [Next]_vars
      PROVE  [\A r \in Requests :
                /\ req[r] \in DeleteUnitRequest
                /\ req'[r] = NoRequest
                /\ units[req[r].unit].active /\ ~units'[req[r].unit].active
                => \A e \in req[r].known : Spared(req[r], e)]_units
  <2> SUFFICES ASSUME units' # units, NEW r \in Requests, req[r] \in DeleteUnitRequest,
                      req'[r] = NoRequest
               PROVE  \A e \in req[r].known : Spared(req[r], e)
    OBVIOUS
  <2>1. req[r] # NoRequest
    BY NoRequestNoDeletion
  <2>2. CommitDeleteUnit(r)
    <3>1. ASSUME NEW s, NEW u, NEW n, NEW kind, NEW plan, CreateUnit(s, u, n, kind, plan)
          PROVE  FALSE
      BY <2>1, <3>1 DEF CreateUnit
    <3>2. PICK s \in Requests : CommitUpdateUnit(s) \/ CommitDeleteUnit(s)
      BY <1>1, <3>1, TableSteps
    <3>3. s = r
      <4>1. Done(s)
        BY <3>2 DEF CommitUpdateUnit, CommitDeleteUnit
      <4> QED
        BY <1>1, <2>1, <4>1 DEF Done, Set, IInv, TypeOK
    <3>4. req[r] \notin UpdateUnitRequest
      BY RequestFields
    <3> QED
      BY <3>2, <3>3, <3>4 DEF CommitUpdateUnit
  <2> QED
    BY <1>1, <2>2 DEF CommitDeleteUnit, DeletionsOK, DeletionOK
<1> QED
  BY <1>1, Invariance, DeletionInvariance, PTL DEF Spec, EarlierSpendingKeepsUnit
=============================================================================
