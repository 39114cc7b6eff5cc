SPECIFICATION SafetySpec
CONSTANTS
  NULL = NULL
  NoRow = NoRow
  InitialRows <- MCInitialRows
  InitialHeaders = {{}}
  MaxBlock = 3
  MaxLag = 1
  Faults = {"rpcTip", "rpcBlock", "dbRead", "dbWrite", "lostAck", "router", "crash"}
  MaxFaults = 1
  BatchSize = 2
  MaxRetries = 2
  ShouldIndexTxs = FALSE
  TxBlocks = {}
  Cursors <- MCCursors
  ChunkSize = 2
  OverflowChecks = TRUE
  Watermarks = {0, 1, 2, 3, 4}
  StartOffsets = {NULL, 2}
  SafetyOffset = 1
  BehindThreshold = 1
  SampleSize = 2
INVARIANTS
  TypeOK
  NoBlockLost
  FlagHonest
PROPERTIES
  WatermarkMonotone
  ImplementsHeaderIndex
  RespectsQuickIndexer
  RespectsBatchIndexer
  ExitHonest
