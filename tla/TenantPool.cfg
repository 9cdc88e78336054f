\* Two requests at a time and two connections, of which the pool keeps one.
SPECIFICATION FairSpec
CONSTANTS
  Tenants = {t1, t2}
  All = All
  Unset = Unset
  RowIds = {i1, i2}
  Connections = {c1, c2}
  PoolSize = 1
  Requests = {r1, r2}
  MaxAsked = 4
  NoRequest = NoRequest
  NoConnection = NoConnection
INVARIANTS
  TypeOK
  SeesOwnTenantOnly
PROPERTY
  RequestsEnd
\* The bound stops the requests.
CHECK_DEADLOCK FALSE
