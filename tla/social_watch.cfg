SPECIFICATION WatchSpec
CONSTANTS
  Users = {u1, u2}
  Pollers = {u1}
  Handlers = {h1, h2}
  Sessions = {s1}
  ONLINE_FOR = 2
  MAX_WAIT = 1
  Waits = {0, 2}
  SHIFT = 65536
  MaxEvents = 2
  MaxTicks = 2
  MaxBoth = 3
  None = None
INVARIANTS
  FriendsAgreed
  OneSidedOnlyAfterBreak
  NoCrossedRequests
  QuietMeansCurrent
  NoMissedWakeUp
  WaitingMeansOnline
SYMMETRY Symmetry
CHECK_DEADLOCK FALSE
