SPECIFICATION TcpSpec
CONSTANTS
  NoClient = NoClient
  a = a
  b = b
  Clients = {a, b}
  SeqHalf = 8
  Iss = {14, 4}
  Windows = {0, 1, 2, 3, 9}
  Totals = {1, 2, 3}
  Lens = {0, 1}
  MSS = 1
  CWND = 2
  RTO_BASE_MS = 1
  RTO_MAX_MS = 1
  MAX_CONN_MS = 1
  MAX_RTO_ATTEMPTS = 1
  MaxRouted = 2
  ClientIss = 15
  RcvWindow = 9
  PageLen = 3
  Paths <- UnorderedPaths
  Envs <- SafetyEnvs
CHECK_DEADLOCK FALSE
INVARIANTS TypeOK SendOrder CwndBound StreamIntegrity ResponseIsPrefix
PROPERTIES EmissionOK FreedOnlyWhenDelivered DeliversByteStream
