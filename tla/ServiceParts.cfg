SPECIFICATION PartsSpec
CONSTANTS
  MaxUses = 2
  MaxConn = 3
  MaxDisturbances = 2
  x1 = x1
  x2 = x2
  Plugins = {x1, x2}
  Needs <- MCNeeds
  Legacy = {x2}
  MaxTasks = 3
  MaxScans = 1
  ExamConfigs <- MCConfigs
  Corrections <- MCCorrections
  MaxTime = 5
  MaxTimerDelay = 3
  d1 = d1
  n1 = n1
  n2 = n2
  p1 = p1
  p2 = p2
  v = v
  w = w
  Devices = {d1}
  Nodes = {n1, n2}
  Policies = {p1, p2}
  Values = {v, w}
  None = None
  Root = Root
  Gone = Gone
  Rank <- MCRank
  FirstParent <- MCParent
  FirstPolicy <- MCPolicy
  Rows <- MCRows
  Selections <- MCSelections
  Places <- MCPlaces
  MaxRequests = 2
  MaxAtOnce = 2
INVARIANT PartsTypeOK
INVARIANT LinkIsHonest
INVARIANT PoliciesArrive
INVARIANT HostIsTrue
INVARIANT TasksAreKept
INVARIANT ScreenFollows
PROPERTY ComesOnline
PROPERTY DependentsStopFirst
PROPERTY NeverEarly
CHECK_DEADLOCK FALSE
