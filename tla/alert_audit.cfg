SPECIFICATION HouseholdSpec
CONSTANTS
  a = a
  b = b
  home = home
  mesh = mesh
  p = p
  q = q
  r1 = r1
  r2 = r2
  Users = {a, b}
  Macs = {home}
  Phones = {p, q}
  Tokens <- HomeTokens
  Holder <- HomeHolder
  NoToken = NoToken
  None = None
  MaxDevices = 2
  MaxAlerts = 1
  MaxTries = 2
  PushLimit = 2
  Requests = {r1, r2}
SYMMETRY Symmetry
INVARIANTS
  AlertTypeOK
  AuditIsTruthful
  SenderStaysAdmin
PROPERTIES
  ClearedOnRecord
  OnlyDeadTokensAreCleared
  ImplementsLedger
