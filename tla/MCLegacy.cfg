SPECIFICATION LegacySpec
CONSTANTS
  InitialRows = {NoRow}
  NULL = NULL
  NoRow = NoRow
  MaxBlock = 3
  MaxLag = 1
  Faults = {"rpcTip", "rpcBlock", "dbRead", "dbWrite", "lostAck", "router", "crash", "timeout"}
  MaxFaults = 2
  BatchSize = 2
  MaxRetries = 2
  ShouldIndexTxs = FALSE
  TxBlocks = {}
  Cursors = {}
  TaskTimeout = 300
  FirstPartial = 3
  SpanSize = 3
  GapLimit = 2
  Starts = {NULL, 1}
  Ends = {NULL, 3}
INVARIANTS
  LegacyTypeOK
  UpdateHolesReported
  UpdateNotAhead
  FillSkipsNothing
  FillRepairsRows
  GapRangesExact
  GapSearchesAgree
PROPERTIES
  FixTerminates
  LegacyStops
