\* Two requests in flight at a time, on the records of one senior and month,
\* with a user and a senior of another tenant, the deletion of seniors, and hours
\* the CHECK of the table refuses.
SPECIFICATION Spec
CONSTANTS
  t1 = t1
  t2 = t2
  worker = worker
  admin = admin
  stranger = stranger
  s1 = s1
  s2 = s2
  Tenants = {t1, t2}
  Users <- MCUsers
  UserTenant <- MCUserTenant
  Seniors = {s1, s2}
  SeniorTenant <- MCSeniorTenant
  RecordIds = {x1, x2}
  Months = {1}
  Requests = {r1, r2}
  Editors = {worker, stranger}
  Approvers = {admin}
  SeniorKeepers = {admin}
  Hours = {390, 400, 425}
  Amounts = {1}
  ReasonSent = {TRUE}
  NoUser = NoUser
  NoRequest = NoRequest
  MaxTrail = 5
SYMMETRY MCSymmetry
INVARIANTS
  TypeOK
  OneLiveRecordPerMonth
  DecisionsFollowSubmission
  StatusIsTheLastAudited
  TenantsStayApart
PROPERTIES
  NothingIsUndone
  ImplementsWorkflow
