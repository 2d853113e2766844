SPECIFICATION ClaimedSpec
CONSTANTS
  a = a
  b = b
  home = home
  mesh = mesh
  p = p
  q = q
  r1 = r1
  r2 = r2
  Users = {a}
  Macs = {home, mesh}
  Phones = {p}
  Tokens <- NoTokens
  Holder <- NoHolder
  NoToken = NoToken
  None = None
  MaxDevices = 2
  Requests = {r1, r2}
SYMMETRY Symmetry
INVARIANTS
  NoOrphanRow
PROPERTIES
  ImplementsMembership
