SPECIFICATION RpcSpec
CONSTANTS
  NULL = NULL
  Requests = {1, 2, 3}
  Numbers = {1, 2}
  Permits = 2
  TaskTimeout = 5
  RpcTimeout = 2
  MaxRetries = 2
  Horizon = 14
INVARIANTS
  RpcTypeOK
  PermitsRespected
  RoundBounded
PROPERTIES
  RoundEnds
  FetchesHeaders
