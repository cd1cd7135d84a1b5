SPECIFICATION AppSpec
CONSTANTS
  Profiles <- SomeProfiles
  AclRoutes = {"bypass-lan"}
  STAT_PORTS <- Ports
  Conns = {c1, c2}
  MaxSessions = 2
  MaxHandlers = 2
  MaxClicks = 3
  None = None
CHECK_DEADLOCK FALSE
INVARIANT DestroyedIsDown
INVARIANT FailedStartIsUndone
INVARIANT ListExact
INVARIANT FreshStats
INVARIANT OnePoller
INVARIANT PollerEndsWithPage
INVARIANT UpIsShown
PROPERTY NoBlackHole
PROPERTY StopTakesDown
