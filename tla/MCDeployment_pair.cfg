SPECIFICATION Spec
CONSTANTS
  c1 = c1
  c2 = c2
  n1 = n1
  n2 = n2
  api = api
  bg = bg
  root = root
  sub = sub
  Conns = {c1, c2}
  Nodes = {n1, n2}
  Paths = {root, sub}
  PathsOf <- MCPathsOf
  NodeOf <- MCNodeOf
  Covers <- MCCovers
  Api = api
  Background = {bg}
  UpdateCap = 1
  MaxUps = 1
  Changed = {c1}
  MaxChanges = 1
  DockerSlow = TRUE
  DockerFails = FALSE
  None = None
CHECK_DEADLOCK FALSE
INVARIANTS TypeOK Agreement
