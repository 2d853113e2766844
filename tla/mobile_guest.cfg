SPECIFICATION ClaimedSpec
CONSTANTS
  None = None
  a = a
  home = home
  mesh = mesh
  c1 = c1
  c2 = c2
  Users = {a}
  Bssids = {home, mesh}
  Places = {home, mesh, None}
  Calls = {c1, c2}
  MaxSignIns = 1
  MaxRows = 3
  MaxTroubles = 1
PROPERTY GuestKeepsCredential
