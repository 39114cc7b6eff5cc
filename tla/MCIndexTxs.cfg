SPECIFICATION SafetySpec
CONSTANTS
  NULL = NULL
  NoRow = NoRow
  InitialRows = {NoRow}
  InitialHeaders = {{}}
  MaxBlock = 3
  MaxLag = 1
  Faults = {}
  MaxFaults = 1
  BatchSize = 2
  MaxRetries = 2
  ShouldIndexTxs = TRUE
  TxBlocks = {2}
  Cursors = {NULL}
  ChunkSize = 2
  OverflowChecks = TRUE
  Watermarks = {}
  StartOffsets = {NULL}
  SafetyOffset = 1
  BehindThreshold = 1
  SampleSize = 2
INVARIANT
  IndexesTransactions
