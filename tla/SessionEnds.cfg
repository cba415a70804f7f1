\* A deletion and the shutdown of the host, under fair scheduling.
SPECIFICATION FairSpec
CONSTANTS
  MaxStarts = 2
  MaxStops = 0
  MaxControls = 0
  MaxMaint = 0
  MaxDeletes = 1
  MaxHostStops = 1
CHECK_DEADLOCK FALSE

  
  
PROPERTIES
  StopIsHonoured
  DeletionEnds
