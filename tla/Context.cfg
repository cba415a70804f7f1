\* Three messages, two tool calls at once, an import, a compaction and a crash.
SPECIFICATION Spec
CONSTANTS
  Tools = {e1, e2}
  Batches <- MCBatches
  MaxTexts = 3
  MaxRevisions = 3
  MaxCompactions = 1
  MaxImports = 1
  MaxCrashes = 1
  MaxFaults = 1
SYMMETRY ToolSymmetry
CHECK_DEADLOCK FALSE

  
PROPERTIES
  EditsFollowEachOther
  
  SavedMessagesSurvive
