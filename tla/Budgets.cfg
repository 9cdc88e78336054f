\* Two requests in flight at a time on one business unit and its budget.
SPECIFICATION Spec
CONSTANTS
  t1 = t1
  t2 = t2
  admin = admin
  stranger = stranger
  public = public
  p1 = p1
  p2 = p2
  Tenants = {t1, t2}
  Users = {admin, stranger}
  UserTenant <- MCUserTenant
  Admins = {admin, stranger}
  UnitIds = {n1}
  BudgetIds = {b1, b2}
  ExpIds = {e1}
  Years = {2026}
  Categories = {wage, operation}
  Requests = {r1, r2}
  Kinds = {public}
  Plans = {p1, p2}
  DefaultPlan <- MCDefaultPlan
  Market = market
  Limits = {1, 2}
  Amounts = {2}
  RowSecurity = FALSE
  NoRequest = NoRequest
SYMMETRY MCSymmetry
INVARIANTS
  TypeOK
  SpendingStaysInTenant
  PolicyPlansStand
PROPERTIES
  OnlySentLimitsChange
  EarlierSpendingKeepsUnit
