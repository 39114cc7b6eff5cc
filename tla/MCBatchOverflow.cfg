SPECIFICATION BatchSafetySpec
CONSTANTS
  InitialRows = {NoRow}
  NULL = NULL
  NoRow = NoRow
  MaxBlock = 1
  MaxLag = 0
  Faults = {"rpcBlock"}
  MaxFaults = 10
  BatchSize = 2
  MaxRetries = 10
  ShouldIndexTxs = FALSE
  TxBlocks = {}
  ChunkSize = 2
  OverflowChecks = TRUE
  Watermarks = {1}
  Cursors = {NULL}
PROPERTY
  BatchAbsorbsFaults
