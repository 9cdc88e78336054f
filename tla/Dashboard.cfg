\* One request in flight at a time, and a report that is read meanwhile.
SPECIFICATION DashboardSpec
CONSTANTS
  t1 = t1
  t2 = t2
  admin = admin
  stranger = stranger
  plan = plan
  Tenants = {t1, t2}
  Users = {admin, stranger}
  UserTenant <- MCUserTenant
  Admins = {admin, stranger}
  UnitIds = {n1}
  BudgetIds = {b1}
  ExpIds = {e1, e2}
  Years = {2025, 2026}
  Categories = {wage, operation}
  Requests = {r1}
  Kinds = {}
  Plans = {plan}
  DefaultPlan <- MCDefaultPlan
  Market = market
  Limits = {1, 2}
  Amounts = {1}
  RowSecurity = TRUE
  NoRequest = NoRequest
  UnitYear <- MCUnitYear
  Wage = wage
  Wages = {0, 1}
  NoReport = NoReport
SYMMETRY MCSymmetry
INVARIANTS
  ReportLiesBetween
  AlertsCatchNinetyPercent
