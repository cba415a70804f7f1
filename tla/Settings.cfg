\* Four requests about two Sessions, one of them of the old index, with two edits of a connector.
SPECIFICATION Spec
CONSTANTS
  Ids = {a, b, o}
  Odd = {o}
  Jobs = {j1, j2}
  MaxCalls = 4
  MaxCrashes = 1
  MaxFaults = 1
  Connectors = {"c"}
  Clerks = {k1}
  Runners = {r1}
  MaxEdits = 2
SYMMETRY SettingsSymmetry
CHECK_DEADLOCK FALSE
INVARIANTS
  
  FilesBelongToSession
  NewKeyNeverGoesToOldEndpoint
