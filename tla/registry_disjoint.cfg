SPECIFICATION DisjointSpec
CONSTANTS
  a = a
  b = b
  home = home
  mesh = mesh
  p = p
  q = q
  r1 = r1
  r2 = r2
  Users = {a, b}
  Macs = {home, mesh}
  Phones = {p}
  Tokens <- SingleToken
  Holder <- SingleHolder
  NoToken = NoToken
  None = None
  MaxDevices = 2
  Requests = {r1, r2}
SYMMETRY Symmetry
INVARIANTS
  OneRowPerInstall
PROPERTIES
  RowsSayWhatWasReported
  RemovedByItsAdmin
