SPECIFICATION TcpFairSpec
CONSTANTS
  NoClient = NoClient
  a = a
  b = b
  Clients = {a}
  SeqHalf = 8
  Iss = {14, 6}
  Windows = {0, 1, 2, 3, 4, 9}
  Totals = {1, 2, 3, 4}
  PageLen = 4
  Lens = {0, 1}
  MSS = 1
  CWND = 3
  RTO_BASE_MS = 1
  RTO_MAX_MS = 1
  MAX_CONN_MS = 4
  MAX_RTO_ATTEMPTS = 2
  MaxRouted = 2
  ClientIss = 15
  RcvWindow = 9
  Envs <- LiveEnvs
  Paths <- OrderedPaths
CHECK_DEADLOCK FALSE
PROPERTIES ConnReleased TransferCompletes FetchCompletes
