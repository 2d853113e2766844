SPECIFICATION MCSpec
CONSTANTS
  Browsers = {"tab"}
  Handsets = {"phone"}
  Sockets = {1, 2, 3}
  Casts = {"b1"}
  Nil = Nil
  MaxAttempts = 1
  MaxSignIns = 2
  MaxMishaps = 2
  MaxSteady = 1
  MaxCasts = 1
INVARIANT
  OneFeedEach
PROPERTY
  FeedComesBack
CHECK_DEADLOCK FALSE
