\* Edits of the topology of one Session beside runs, rebuilds, a failed save and a crash.
SPECIFICATION Spec
CONSTANTS
  Workers = {w1, w2}
  Coordinator = coordinator
  Stored <- MCStored
  MaxEdits = 2
  MaxFaults = 1
  MaxBuilds = 1
  MaxCrashes = 1
SYMMETRY WorkerSymmetry
CHECK_DEADLOCK FALSE
INVARIANT
  CopiesAgree
PROPERTY
  ImplementsAtomicGraph
