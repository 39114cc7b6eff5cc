SPECIFICATION BatchSpec
CONSTANTS
  InitialRows = {NoRow}
  NULL = NULL
  NoRow = NoRow
  MaxBlock = 3
  MaxLag = 0
  Faults = {"rpcBlock", "dbRead", "dbWrite", "lostAck", "crash"}
  MaxFaults = 2
  BatchSize = 2
  MaxRetries = 2
  ShouldIndexTxs = TRUE
  TxBlocks = {1}
  ChunkSize = 2
  OverflowChecks = TRUE
  Watermarks = {1, 3}
  Cursors = {2, NULL}
INVARIANTS
  BatchTypeOK
  BatchDoneMeansComplete
  BatchOneCycle
PROPERTIES
  BatchReportsHonestly
  BatchStaysInRange
  BatchAbsorbsFaults
  BatchWorkDrops
  BatchFinishes
