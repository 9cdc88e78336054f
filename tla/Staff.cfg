\* Two requests in flight, of any account of two organisations.
SPECIFICATION Spec
CONSTANTS
  TenantIds = {t1, t2}
  Names = {a}
  Emails = {u1, u2}
  UnitIds = {n1}
  Types = {public}
  Requests = {r1, r2}
  RolesSent = {"tenant_admin", "social_worker"}
  FieldsSent = 1
  MaxTokens = 1
  Unsent = {nothing}
  NoRequest = NoRequest
SYMMETRY MCSymmetry
INVARIANTS
  TypeOK
  RegistrationIsWhole
  ChangesAreOnRecord
PROPERTY
  LastAdministratorGoesAlone
\* Organisations run out of identifiers and accounts out of emails: the bounds stop them.
CHECK_DEADLOCK FALSE
