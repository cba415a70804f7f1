\* Two workers for the plans of two Agents, with edits beside them and a failed save.
SPECIFICATION PlanSpec
CONSTANTS
  tp = tp
  tx = tx
  Tasks = {tp, tx}
  Owners = {main, worker}
  First = main
  Assignments = {a1, a2}
  Root = root
  Absent = absent
  NoAssignment = none
  Shapes <- MCShapes
  Given <- MCGiven
  MaxTools = 1
  MaxFailedSaves = 1
SYMMETRY AssignmentSymmetry
CHECK_DEADLOCK FALSE
INVARIANTS
  ParentsDerived
  NoBindingWithoutWorker
  ReportReachesPlan
