SPECIFICATION Spec
CONSTANTS
  Threads = {t1, t2}
  Pages = {p1, p2}
  NoPage = NoPage
  PoolSize = 2
  Spare = 1
  Retries = 0
  MaxWrites = 1
  MaxVersion = 1
  MaxFaults = 1
CONSTRAINT Unharmed
SYMMETRY Symmetry
INVARIANTS  NoLostWrite OptimisticReadsCurrent  
CHECK_DEADLOCK FALSE
