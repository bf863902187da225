CONSTANTS
  p1 = p1
  p2 = p2
  Procs = {p1, p2}
  Wfs = {"w1", "w2", "n1", "n2"}
  NewWf <- MCNewWf
  BufCap = 1
  MaxJob = 5
  MaxTicks = 2
  MaxKept = 2
  Text <- MCText
  WorkflowCases <- MCWorkflowCases
  AccountCases <- MCAccountCases
  BootCases <- MCBootCases
  Cmds = {"c1", "c2"}
  MaxStops = 2
  MaxActs = 2
  NoWorkflows <- MCNoWorkflows
  MaxFaults <- MCMaxFaults
SPECIFICATION Spec
CHECK_DEADLOCK FALSE
INVARIANTS
  
  DeletionIsComplete
  CopiesAgree
  ReadyIsComplete
PROPERTIES
  JobIsNotLost
  ServerAnswers
