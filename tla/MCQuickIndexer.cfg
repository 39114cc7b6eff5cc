SPECIFICATION QuickSpec
CONSTANTS
  InitialRows = {NoRow}
  NULL = NULL
  NoRow = NoRow
  MaxBlock = 3
  MaxLag = 1
  Faults = {"rpcTip", "rpcBlock", "dbRead", "dbWrite", "lostAck", "crash"}
  MaxFaults = 2
  BatchSize = 2
  MaxRetries = 2
  ShouldIndexTxs = FALSE
  TxBlocks = {}
  Cursors = {NULL}
INVARIANTS
  QuickTypeOK
  QuickContiguous
  QuickNotAhead
PROPERTIES
  QuickMonotone
  QuickAbsorbsFaults
  QuickCycleEnds
  QuickStops
  QuickCatchesUp
