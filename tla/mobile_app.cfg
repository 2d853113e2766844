SPECIFICATION AppSpec
CONSTANTS
  a1 = a1
  a2 = a2
  None = None
  Phones = {"p1", "p2"}
  Asks = {a1, a2}
  MaxChanges = 2
  MaxSends = 1
  LastHost = 3
  Width = 2
  Names = {"Office printer"}
  TypeHint <- MCTypeHint
  Key = {"enabled", "sound", "silent"}
  MasterKey = "enabled"
  SilentKey = "silent"
  Defaults <- MCDefaults
  Jobs = {a1, a2}
  NoJob = NoJob
  MaxSaves = 2
  Accounts = {"ann", "bob"}
  Runs = {a1, a2}
  Unknown = Unknown
  MaxSubmits = 3
  Banners = {"dashboard", "settings"}
  AutoClose = 3
  ToastTime = 2
  MaxNews = 3
  Players = {"n1", "n2", "n3"}
  Silent = Silent
  MaxBuzzes = 3
INVARIANTS
  AppTypeOK
  ListCatchesUp
  
  ScanIsComplete
  OnlyWhatWasChosen
  BoxShowsEdit
  OneAccount
  MessagesKeepTime
  AlertsRingOut
PROPERTY
  OneSendItsDialog
SYMMETRY AppSymmetry
