\* The services around trips and money, each with the smallest crowd that overlaps.
SPECIFICATION ServicesSpec
CONSTANTS
  Processes = {s1, s2}
  Calls = {c1, c2, c3}
  Keys = {k1}
  NoKey = nokey
  Bodies = {b1, b2}
  Limit = 2
  MaxGuardEvents = 2
  Logins = {c1, c2, c3}
  MaxFailed = 3
  RequireVerification = TRUE
  MaxCounted = 4
  Clerks = {s1, s2}
  Reviewers = {b1, b2}
  MaxHandled = 4
  Sharers = {s1, s2}
  Departures = {1, 2}
  Before = 1
  After = 0
  Retention = 2
  MaxTime = 3
  MaxWrites = 3
  Writers = {s1, s2}
  Sockets = {b1, b2}
  Servers = {p1, p2}
  MaxMessages = 1
  MaxSeen = 2
  MaxOutages = 1
SYMMETRY Symmetry
INVARIANTS
  ServicesTypeOK
  AdmissionsArePaid CounterExpires  ExecutionsAreBounded
  GuessesAreBounded
  RevokedTokenStaysDead
  AnnouncedIsCommitted QuietSocketHasAll ManagerIsExact
PROPERTIES
   NewLinkWorks
CHECK_DEADLOCK FALSE
