SPECIFICATION ProxyOnly
CONSTANTS
  a = a
  b = b
  Peers = {a, b}
  None = None
  MAX_TRIES = 2
  TX_QUEUE_MAX = 3
  USIZE_MAX = 2
  Ptrs = {1, 2, 3, 4, 5, 6, 7, 8}
  TunMax = 4
  Circumstances <- MCCircumstances
  east = east
  west = west
  query = query
  answer = answer
  Lans = {east, west}
  Repeaters = {west}
  Payloads <- MCPayloads
  DEDUP_MAX = 2
  Sendings = 2
  Users = {a, b}
  PROXY_MSS = 2
  FETCH_CAP = 4
  ProxyCases <- MCProxyCases
CHECK_DEADLOCK FALSE
PROPERTY StreamsBack
