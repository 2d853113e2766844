SPECIFICATION WebSpec
CONSTANTS
  c1 = c1
  c2 = c2
  t1 = t1
  t2 = t2
  Tabs = {t1, t2}
  Nobody = Nobody
  Calls = {c1, c2}
  MaxLogins = 2
  MaxMishaps = 1
  Devices = {"d1", "d2"}
  Guests = {"d2"}
  NoDevice = NoDevice
  Requests = {c1, c2}
  MaxEvents = 2
  MaxWishes = 2
  Targets = {"d1", "d2"}
  Absent = Absent
  Reads = {c1, c2}
  PageSize = 1
  SampleSize = 3
  Days = 2
  MaxAlerts = 3
  MaxMoves = 2
  MaxMidnights = 1
  Keys = {"sound", "silent"}
  Observed = {"o1", "o2"}
  Nothing = Nothing
  Asks = {c1, c2}
  MaxElsewhere = 1
  MaxPresses = 3
PROPERTY
  RefusalsAreShown
SYMMETRY WebSymmetry
CHECK_DEADLOCK FALSE
