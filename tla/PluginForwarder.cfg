SPECIFICATION Spec
CONSTANTS
  Strings <- Words
  Lower <- InSmall
  Requests <- SomeRequests
  Conns = {c1, c2, c3}
  MaxFds = 3
  MaxHiccups = 2
  Server = "server"
  Bare = "(bare)"
  NoPlugin = NoPlugin
CHECK_DEADLOCK FALSE
INVARIANT RelayedAsAsked
INVARIANT ListenerKept
PROPERTY PendingTaken
PROPERTY GivesUp
PROPERTY Unjams
