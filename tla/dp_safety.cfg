SPECIFICATION Spec
CONSTANTS
  a = a
  b = b
  Nodes = {a, b}
  lan = lan
  wan = wan
  Paths = {lan, wan}
  MAX_TUNNELS = 2
  MAX_HS_RETRIES = 1
  PENDING_TIMEOUT_TICKS = 1
  MAX_STRIKES = 2
  MaxIndex = 4
  MaxMoves = 1
  Worlds <- SafetyWorlds
CHECK_DEADLOCK FALSE
INVARIANTS TunnelsDistinct KeysAgree
