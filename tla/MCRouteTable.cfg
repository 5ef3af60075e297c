SPECIFICATION Spec
CONSTANTS
  Chars <- MCChars
  Paths <- MCPaths
  Ports = {p1, p2}
  Hosts = {here, elsewhere}
  Domain = here
  AdminPrefix <- MCAdminPrefix
  AdminSlash <- MCAdminSlash
  MaxRoutes = 3
  None = None
  NotFound = NotFound
  Panel = Panel
INVARIANTS LongestPrefix OwnPath
