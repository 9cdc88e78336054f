\* An edit that SELECTed the draft commits after its submission.
SPECIFICATION Spec
CONSTANTS
  t1 = t1
  t2 = t2
  worker = worker
  admin = admin
  stranger = stranger
  s1 = s1
  s2 = s2
  Tenants = {t1, t2}
  Users <- MCUsers
  UserTenant <- MCUserTenant
  Seniors = {s1, s2}
  SeniorTenant <- MCSeniorTenant
  RecordIds = {x1, x2}
  Months = {1}
  Requests = {r1, r2}
  Editors = {worker, stranger}
  Approvers = {admin}
  SeniorKeepers = {}
  Hours = {400}
  Amounts = {1, 2}
  ReasonSent = {FALSE}
  NoUser = NoUser
  NoRequest = NoRequest
  MaxTrail = 6
PROPERTY
  OnlyDraftsAreEdited
