SPECIFICATION Spec
CONSTANTS
  MaxTxns = 2
  MaxPage = 6
  MaxFaults = 2
  MaxCrashes = 2
INVARIANTS
  
  ReplayedOnce
  FreePagesUnused
PROPERTIES
  RecoveryIdempotent
  Returns
