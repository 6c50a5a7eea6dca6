SPECIFICATION Spec
SYMMETRY Symmetry
CONSTANTS
  Conns = {c1, c2}
  Keys = {k1, k2}
  Vals = {v1, v2}
  VecCap = 2
  Settings = {FALSE, TRUE}
  Faults = {"append", "index", "log"}
  MaxTxns = 3
  MaxRows = 3
  MaxRowsMulti = 2
  MaxStmts = 2
  NoOne = NoOne
  Checkpointing = Checkpointing
  Dead = Dead
INVARIANT SnapshotReads
INVARIANT KeyIndexExact
INVARIANT UniqueKeys
INVARIANT NoLostUpdate
CONSTRAINT Untainted
