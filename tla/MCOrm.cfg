CONSTANTS
  Conn = {main, iso}
  Main = main
  Isolated = iso
  Drivers = {"sqlite", "postgres", "mysql"}
  FileBacked = TRUE
  MaxFaults = 1
  MaxWrites = 2
  MaxCalls = 3
  Options <- MCOptions
  Table = "t"
  Joined = {"j"}
  Aliases = {"x"}
  MaxBuild = 3
  Keys = {1, 2}
  Values = {"p", "q"}
  MaxParams <- MCMaxParams
  MaxRows = 3
  Sizes = {0, 1, 2}
  OwnerKeys = {o1, o2}
  RelatedKeys = {r1, r2}
  Null = null
  MaxOwners = 3
  MaxLinks = 2
  MaxRelated = 2
SPECIFICATION MCSpec
INVARIANTS
  
  
  
  
  
  DeleteIsGuarded
  
  RelationsMatch
CHECK_DEADLOCK FALSE
