\* Two updates replace the business units of one employee.
SPECIFICATION Spec
CONSTANTS
  TenantIds = {t1}
  Names = {a}
  Emails = {u1}
  UnitIds = {n1, n2}
  Types = {public}
  Requests = {r1, r2}
  RolesSent = {"tenant_admin", "social_worker"}
  FieldsSent = 1
  MaxTokens = 1
  Unsent = {nothing}
  NoRequest = NoRequest
SYMMETRY MCSymmetry
PROPERTY
  AssignmentsAreReplaced
\* Organisations run out of identifiers and accounts out of emails: the bounds stop them.
CHECK_DEADLOCK FALSE
