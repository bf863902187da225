CONSTANTS
  Procs = {1, 2, 3}
  Ids = {1, 2, 3, 4, 5, 6, 7, 8, 9}
  Root = 1
  Tree <- MCTree
  Props <- MCProps
  Bytes <- MCBytes
  UserGroups <- MCUserGroups
  LongNames = {"long"}
  Docs = {3, 6}
  Feed = 2
  Year <- MCYear
  ThisYear = 2
  YearName <- MCYearName
  Inodes = {1, 2, 3, 4, 5, 6}
  Load <- MCLoad
  MaxFaults <- MCMaxFaults
  MaxRestarts <- MCMaxRestarts
SPECIFICATION Spec
CHECK_DEADLOCK FALSE
INVARIANTS
  NodeIsFound
  
  
  
  

  
