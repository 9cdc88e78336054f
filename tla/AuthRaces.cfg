\* Two requests in flight at a time, of one user; no handler ends between two awaits.
SPECIFICATION FairSpec
CONSTANTS
  Users = {u1}
  Ips = {a1}
  Requests = {r1, r2}
  Tokens = {j1, j2, j3}
  Correct = {TRUE, FALSE}
  Crashes = FALSE
  IpFailMax = 2
  NoRequest = NoRequest
  NoToken = NoToken
INVARIANTS
  TypeOK
  FailuresBounded
PROPERTY
  BlockLifts
\* Handlers wait for a token to sign when all Tokens are used: the bound stops them.
CHECK_DEADLOCK FALSE
