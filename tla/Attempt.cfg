\* Races of one attempt's threads, with failing writes, a crash and fair scheduling.
SPECIFICATION FairSpec
CONSTANTS
  Generations = {g1, g2}
  NoGen = NoGen
  MaxStops = 1
  MaxFaults = 1
  MaxCrashes = 1
CHECK_DEADLOCK FALSE
INVARIANTS
  AcceptedStopDecidesOutcome
  InterruptionEndsLifecycle
  AnnouncedIsDurable
PROPERTIES
  ImplementsLifecycle
  WaitersReleased
  ShutdownEnds
