\* A task that two workers may run at once, a request beside them, two tenants.
SPECIFICATION FairSpec
CONSTANTS
  Tenants = {t1, t2}
  LogIds = {l1}
  Contents = {c1, c2}
  Units = {n1}
  Tasks = {k1}
  Workers = {w1, w2}
  Requests = {r1}
  Clock = {1}
  MaxAsked = 3
  MaxReturned = 1
  NoTask = NoTask
  Idle = Idle
  NoRequest = NoRequest
INVARIANTS
  TypeOK
  RecordedFilesAreStored
  ExportsAreOnRecord
  SuccessIsComplete
  RecordedOncePerDelivery
PROPERTY
  TasksEnd
\* Identifiers are used up: the bounds stop the requests.
CHECK_DEADLOCK FALSE
