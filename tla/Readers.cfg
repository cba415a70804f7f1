\* Two attempts of three records, read by a stream, a pager or two ledger requests; a run graph of six facts.
SPECIFICATION Spec
CONSTANTS
  Rounds = {1}
  MaxRecords = 3
  MaxDeltas = 2
  PageLimit = 2
  MaxConnections = 2
  Block = 2
  Limit = 1
  MaxPages = 4
  Askers = {b1, b2}
  MaxAsks = 3
  CacheLimit = 2
  main = main
  helper = helper
  Agents = {main, helper}
  NoOne = none
  Parents <- MCParents
  MaxFacts = 6
SYMMETRY AskerSymmetry
CHECK_DEADLOCK FALSE
INVARIANTS
  
  
  
  
  EventsInOrder
