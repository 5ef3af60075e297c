SPECIFICATION FairSpec
CONSTANTS
  c1 = c1
  c2 = c2
  n1 = n1
  n2 = n2
  api = api
  bg = bg
  root = root
  sub = sub
  Conns = {c1}
  Nodes = {n1}
  Paths = {root, sub}
  PathsOf <- MCPathsOfOne
  NodeOf <- MCNodeOfOne
  Covers <- MCCovers
  Api = api
  Background = {bg}
  UpdateCap = 1
  MaxUps = 2
  Changed = {c1}
  MaxChanges = 1
  DockerSlow = FALSE
  DockerFails = FALSE
  None = None
CHECK_DEADLOCK FALSE
INVARIANT ServedRuns
PROPERTIES TasksEnd RedeployedUnlessUpset
