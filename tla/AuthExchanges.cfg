\* Two requests in flight at a time, of one user who always knows the password;
\* handlers may end between any two awaits.
SPECIFICATION Spec
CONSTANTS
  Users = {u1}
  Ips = {a1}
  Requests = {r1, r2}
  Tokens = {j1, j2, j3, j4}
  Correct = {TRUE}
  Crashes = TRUE
  IpFailMax = 1
  NoRequest = NoRequest
  NoToken = NoToken
SYMMETRY MCSymmetry
INVARIANTS
  ExchangesBounded
  ExchangedTokensAreDead
PROPERTY
  DeadStaysDead
\* Handlers wait for a token to sign when all Tokens are used: the bound stops them.
CHECK_DEADLOCK FALSE
