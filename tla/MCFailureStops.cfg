SPECIFICATION Spec
CONSTANTS
  NULL = NULL
  NoRow = NoRow
  InitialRows = {NoRow}
  InitialHeaders = {{}}
  MaxBlock = 2
  MaxLag = 1
  Faults = {"rpcTip"}
  MaxFaults = 1
  BatchSize = 2
  MaxRetries = 2
  ShouldIndexTxs = FALSE
  TxBlocks = {}
  Cursors = {NULL}
  ChunkSize = 2
  OverflowChecks = TRUE
  Watermarks = {}
  StartOffsets = {NULL}
  SafetyOffset = 1
  BehindThreshold = 1
  SampleSize = 2
PROPERTY
  FailureStopsProcess
