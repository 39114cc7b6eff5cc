SPECIFICATION QuickSafetySpec
CONSTANTS
  InitialRows = {NoRow}
  NULL = NULL
  NoRow = NoRow
  MaxBlock = 3
  MaxLag = 1
  Faults = {"rpcTip"}
  MaxFaults = 1
  BatchSize = 2
  MaxRetries = 2
  ShouldIndexTxs = FALSE
  TxBlocks = {}
  Cursors = {NULL}
INVARIANT
  QuickFaultTolerant
