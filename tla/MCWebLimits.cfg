SPECIFICATION MCSpec
CONSTANTS
  Calls <- MCCalls
  MaxRedirects = 1
  Entity <- MCEntity
  Old <- MCOld
  Parts <- MCParts
  MaxParts = 1
  MaxTypes = 1
  DefaultTypes <- NoTypes
  Urls <- MCUrls
  SetCookies <- MCSetCookies
  MaxRequests = 2
  Sends <- OverLimitSends
  Chains <- BareChain
  MaxKeepAlive = 3
  ReadLimit = 4
  Keys = {k1, k2}
  Limit = 2
  Window = 2
  Horizon = 5
  Patterns <- MCPatterns
  Mounts <- MCMounts
  Methods = {"GET", "*"}
  Paths <- MCPaths
  MaxRoutes = 3
  Services = {"a", "b"}
  Names = {"", "k"}
  Shapes <- MCShapes
  Factories <- MCFactories
  MaxDiCalls = 0
INVARIANT LimitStatus
CHECK_DEADLOCK FALSE
