SPECIFICATION UpSpec
CONSTANTS
  a = a
  b = b
  home = home
  mesh = mesh
  p = p
  q = q
  r1 = r1
  r2 = r2
  Users = {a}
  Macs = {home}
  Phones = {p}
  Tokens <- SingleToken
  Holder <- SingleHolder
  NoToken = NoToken
  None = None
  MaxDevices = 2
  Requests = {r1, r2}
PROPERTIES
  RequestsEnd
  KnownBecomesStored
