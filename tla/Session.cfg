\* Starts, stops, Agent control and topology edits of one Session.
SPECIFICATION Spec
CONSTANTS
  MaxStarts = 2
  MaxStops = 1
  MaxControls = 1
  MaxMaint = 1
  MaxDeletes = 0
  MaxHostStops = 0
CHECK_DEADLOCK FALSE
INVARIANTS
  OneLiveRun
  RunControlOfCurrent
PROPERTY
  AttemptsKeepLifecycle
