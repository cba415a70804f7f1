\* Flushes that fail half way and are tried again.
SPECIFICATION FairBufferSpec
CONSTANTS
  FlushAt = 2
  MaxRecords = 5
  MaxFailures = 2
CHECK_DEADLOCK FALSE
INVARIANT
  TraceSplitsAtCommitted

  
