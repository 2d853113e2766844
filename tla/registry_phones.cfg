SPECIFICATION RegistrySpec
CONSTANTS
  a = a
  b = b
  home = home
  mesh = mesh
  p = p
  q = q
  r1 = r1
  r2 = r2
  Users = {a, b}
  Macs = {home}
  Phones = {p, q}
  Tokens <- TwoPhoneTokens
  Holder <- TwoPhoneHolder
  NoToken = NoToken
  None = None
  MaxDevices = 2
  Requests = {r1, r2}
SYMMETRY Symmetry
INVARIANTS
  TypeOK
  OnlyOwnRow
PROPERTIES
  NetworkKeepsOwner
  InstallIsKept
