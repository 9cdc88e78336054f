------------------------------ MODULE Dashboard ------------------------------
(***************************************************************************)
(* The figures of the dashboard over the tables of Budgets: get_summary    *)
(* and get_alerts of services/dashboard_service.py for one type of         *)
(* business unit and one year.  The year of a unit, which no update        *)
(* changes, is given with its id; its budgets may be of another year.  A   *)
(* report is read in several SELECTs, each of which sees what is committed *)
(* by then, while budgets, expenditures and units go on changing: no       *)
(* transaction of the service reads a snapshot.                            *)
(*                                                                         *)
(* The summary takes the wages of seniors from the approved work records,  *)
(* of which only the sum of a unit in its year matters here, and leaves    *)
(* out what was charged to the category of wages.  The alerts count every  *)
(* expenditure and no work record.                                         *)
(***************************************************************************)
EXTENDS Budgets, Functions

CONSTANTS
  UnitYear,     \* year of a business unit
  Wage,         \* the category the summary does not read expenditures of
  Wages,        \* sums of approved wages of a unit
  NoReport

VARIABLES
  wages,        \* unit -> sum of amount_paid of the APPROVED records
  report        \* the report being read, or just read

dashboard == <<vars, wages, report>>

Op == {"summary", "alerts"}

\* floor and steady are history: the money when the report began, and whether
\* no budget and no payment has fallen, disappeared or been below 0 since.
Report == [op : Op, user : Users, kind : Kinds \union {Market}, year : Years,
           at : {"units", "budgets", "wages", "spending", "done"},
           units : SUBSET UnitIds, list : SUBSET BudgetIds, unread : SUBSET Categories,
           total : Int, spent : Int, alert : BOOLEAN,
           floor : [total : Int, spent : Int], steady : BOOLEAN]

ASSUME YearAssumption == UnitYear \in [UnitIds -> Years]
ASSUME WageAssumption == IsFiniteSet(Categories) /\ Wage \in Categories
                           /\ Wages \subseteq Int /\ 0 \in Wages
ASSUME NoReportAssumption == NoReport \notin Report

-----------------------------------------------------------------------------
(* The same money, looked up in one state.                                 *)

OpenUnits(tenant, kind, year) ==
  {n \in DOMAIN units : /\ units[n].tenant = tenant /\ units[n].kind = kind
                        /\ UnitYear[n] = year /\ units[n].active}

BudgetsOf(tenant, ns, year) ==
  {b \in DOMAIN budgets : /\ budgets[b].unit \in ns /\ budgets[b].year = year
                          /\ budgets[b].tenant = tenant}

LimitOf == [b \in DOMAIN budgets |-> SumFunctionOnSet(budgets[b].limit, Categories)]
LimitsOf(bs) == SumFunctionOnSet(LimitOf, bs)

WagesOf(ns) == SumFunctionOnSet(wages, ns)

Amount == [e \in DOMAIN exps |-> exps[e].amount]

\* Mutant: deleted expenditures are summed too.
ChargedEver(tenant, bs, cs) ==
  SumFunctionOnSet(Amount, {e \in DOMAIN exps :
    exps[e].budget \in bs /\ exps[e].category \in cs /\ exps[e].tenant = tenant})

ChargedTo(tenant, bs, cs) ==
  SumFunctionOnSet(Amount, {e \in DOMAIN exps :
    /\ exps[e].budget \in bs /\ exps[e].category \in cs /\ exps[e].tenant = tenant
    /\ ~exps[e].deleted})

MoneyOf(op, tenant, ns, year) ==
  LET own == {e \in DOMAIN exps : /\ ~exps[e].deleted /\ exps[e].tenant = tenant
                                  /\ budgets[exps[e].budget].unit \in ns
                                  /\ budgets[exps[e].budget].year = year
                                  /\ op = "summary" => exps[e].category # Wage}
  IN  [total |-> LimitsOf(BudgetsOf(tenant, ns, year)),
       spent |-> SumFunctionOnSet(Amount, own) + (IF op = "summary" THEN WagesOf(ns) ELSE 0)]

Money(op, tenant, kind, year) == MoneyOf(op, tenant, OpenUnits(tenant, kind, year), year)

-----------------------------------------------------------------------------
DashboardInit ==
  /\ Init
  /\ wages = [n \in UnitIds |-> 0]
  /\ report = NoReport

\* No schema and no constraint refuses a budget or a payment below 0.
NoneNegative ==
  /\ \A b \in DOMAIN budgets : \A c \in Categories : budgets[b].limit[c] >= 0
  /\ \A e \in DOMAIN exps : exps[e].amount >= 0
  /\ \A n \in UnitIds : wages[n] >= 0

\* Nothing fell or disappeared in this step.
Grows ==
  /\ \A n \in DOMAIN units : units[n].active => units'[n].active
  /\ \A b \in DOMAIN budgets : \A c \in Categories :
       budgets'[b].limit[c] >= budgets[b].limit[c]
  /\ \A e \in DOMAIN exps : exps'[e].deleted = exps[e].deleted
  /\ \A n \in UnitIds : wages'[n] >= wages[n]
  /\ NoneNegative'

Ready == report # NoReport => report.at = "done"

\* What happens after the answer does not concern it.
Observed == report' = IF Ready THEN NoReport ELSE [report EXCEPT !.steady = @ /\ Grows]

\* Approvals add to the sum; a deleted record, or senior, is taken off it.
PayWages(n, sum) ==
  /\ n \in DOMAIN units
  /\ wages' = [wages EXCEPT ![n] = sum]
  /\ UNCHANGED vars
  /\ Observed

Read(q) == report' = q /\ UNCHANGED <<vars, wages>>
Reading(at) == report # NoReport /\ report.at = at

\* Every user of the tenant may look; get_alerts starts like get_summary.
BeginReport(op, u, kind, year) ==
  /\ Ready
  /\ Read([op |-> op, user |-> u, kind |-> kind, year |-> year, at |-> "units",
           units |-> {}, list |-> {},
           unread |-> IF op = "summary" THEN Categories \ {Wage} ELSE Categories,
           total |-> 0, spent |-> 0, alert |-> FALSE,
           floor |-> Money(op, UserTenant[u], kind, year), steady |-> NoneNegative])

\* Without an active unit every figure is 0.
ReadUnits ==
  /\ Reading("units")
  /\ LET ns == OpenUnits(UserTenant[report.user], report.kind, report.year)
     IN  Read([report EXCEPT !.units = ns, !.at = IF ns = {} THEN "done" ELSE "budgets"])

ReadBudgets ==
  /\ Reading("budgets")
  /\ LET bs == BudgetsOf(UserTenant[report.user], report.units, report.year)
     IN  Read([report EXCEPT !.list = bs, !.total = LimitsOf(bs),
                 !.at = IF report.op = "summary" THEN "wages"
                        ELSE IF bs = {} THEN "done" ELSE "spending"])

ReadWages ==
  /\ Reading("wages")
  /\ Read([report EXCEPT !.spent = WagesOf(report.units),
             !.at = IF report.list = {} THEN "done" ELSE "spending"])

\* Mutant: only what is overspent is reported.
AlertedWhenOver(spent, total) == total > 0 /\ spent > total

\* round(spent / total * 100) >= 90, half to even, in whole numbers.
Alerted(spent, total) == total > 0 /\ 200 * spent >= 179 * total

\* The summary has a query for each category, the alerts one for all.
ReadSpending(cs) ==
  /\ Reading("spending")
  /\ cs # {} /\ cs \subseteq report.unread
  /\ IF report.op = "summary" THEN Cardinality(cs) = 1 ELSE cs = report.unread
  /\ LET spent == report.spent + ChargedTo(UserTenant[report.user], report.list, cs)
     IN  Read([report EXCEPT
           !.spent = spent, !.unread = @ \ cs,
           !.alert = report.op = "alerts" /\ Alerted(spent, report.total),
           !.at = IF cs = report.unread THEN "done" ELSE "spending"])

DashboardNext ==
  \/ Next /\ UNCHANGED wages /\ Observed
  \/ \E n \in UnitIds, sum \in Wages : PayWages(n, sum)
  \/ \E op \in Op, u \in Users, kind \in Kinds \union {Market}, year \in Years :
       BeginReport(op, u, kind, year)
  \/ ReadUnits
  \/ ReadBudgets
  \/ ReadWages
  \/ \E cs \in SUBSET Categories : ReadSpending(cs)

DashboardSpec == DashboardInit /\ [][DashboardNext]_dashboard

-----------------------------------------------------------------------------
(* Properties.                                                             *)

\* The tables, and a report being read, have their shape.
DashboardTypeOK ==
  /\ TypeOK
  /\ wages \in [UnitIds -> Wages]
  /\ report \in Report \union {NoReport}

\* A report read while money is only added shows at least what there was when
\* it began and at most what there is when it ends, in all its figures; and so
\* exactly what there is when nothing changed meanwhile.
ReportLiesBetween ==
  report # NoReport /\ report.at = "done" /\ report.steady =>
    LET now == Money(report.op, UserTenant[report.user], report.kind, report.year)
    IN  /\ report.floor.total <= report.total /\ report.total <= now.total
        /\ report.floor.spent <= report.spent /\ report.spent <= now.spent

\* dashboard_service.py:159, "예산 90% 이상 소진": nine tenths of the budgets that were
\* spent when the alerts began to be read raise one, unless budgets were raised
\* or payments taken back in the meantime.
AlertsCatchNinetyPercent ==
  report # NoReport /\ report.at = "done" /\ report.steady /\ report.op = "alerts" =>
    LET total == Money("alerts", UserTenant[report.user], report.kind, report.year).total
    IN  total > 0 /\ total = report.floor.total /\ 10 * report.floor.spent >= 9 * total
          => report.alert

=============================================================================
