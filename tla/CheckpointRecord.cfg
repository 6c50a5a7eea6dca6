SPECIFICATION Spec
CONSTANTS
  MaxTxns = 2
  MaxPage = 6
  MaxFaults = 1
  MaxCrashes = 0
INVARIANT CheckpointRecordIsLast
