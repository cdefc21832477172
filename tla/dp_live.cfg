SPECIFICATION FairSpec
CONSTANTS
  a = a
  b = b
  Nodes = {a, b}
  lan = lan
  wan = wan
  Paths = {lan, wan}
  MAX_TUNNELS = 2
  MAX_HS_RETRIES = 1
  PENDING_TIMEOUT_TICKS = 3
  MAX_STRIKES = 2
  MaxIndex = 6
  MaxMoves = 2
  Worlds <- LiveWorlds
CHECK_DEADLOCK FALSE
PROPERTIES SlotFreed Connects RoamingFollowed
