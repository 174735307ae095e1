CONSTANTS
  Views = {"main", "log"}
  RefViews = {"main", "log"}
  IndexViews = {"main"}
  IndexKinds = {"unstaged"}
  RefKinds = {"head", "refs"}
  NoView = "none"
  PollModes = {"periodic", "auto"}
  Branches = {"a", "b"}
  Nested = {"b"}
  Interval = 2
  MaxTime = 7
  MaxChanges = 2
SPECIFICATION Spec
INVARIANT NothingUsedUp
INVARIANT ToldInTime
CHECK_DEADLOCK FALSE
