\* One plugin in five packages, two threads of requests, a restart.
SPECIFICATION Spec
CONSTANTS
  Names = {"p"}
  Roots <- TwoRoots
  Versions <- Packages
  Shipped <- AtFirst
  Module <- OwnModule
  Threads = {t1, t2}
  Values = {"default", "float"}
  MaxEdits = 1
  MaxRequests = 3
  MaxRestarts = 1
SYMMETRY Interchangeable
CHECK_DEADLOCK FALSE
INVARIANTS
  
  KeptAgentIsCurrent
