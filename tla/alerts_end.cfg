SPECIFICATION TwoAlertsSpec
CONSTANTS
  a = a
  b = b
  home = home
  mesh = mesh
  p = p
  q = q
  r1 = r1
  r2 = r2
  Users = {a}
  Macs = {home}
  Phones = {p, q}
  Tokens <- HomeTokens
  Holder <- HomeHolder
  NoToken = NoToken
  None = None
  MaxDevices = 2
  MaxAlerts = 2
  MaxTries = 2
  PushLimit = 1
  Requests = {r1, r2}
PROPERTIES
  AlertsEnd
