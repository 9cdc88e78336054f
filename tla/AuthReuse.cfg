\* A login stores its token while another request revokes all tokens of the user.
SPECIFICATION Spec
CONSTANTS
  Users = {u1}
  Ips = {a1}
  Requests = {r1, r2}
  Tokens = {j1, j2, j3}
  Correct = {TRUE, FALSE}
  Crashes = FALSE
  IpFailMax = 2
  NoRequest = NoRequest
  NoToken = NoToken
PROPERTY
  ReuseEndsEverySession
\* Handlers wait for a token to sign when all Tokens are used: the bound stops them.
CHECK_DEADLOCK FALSE
