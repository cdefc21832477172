SPECIFICATION Programs
CONSTANTS
    Width = 5
    Mantissa = 3
    SizeOfValue = 2
    Interval = 3
    Never <- MCNever
    Env <- MCEnv
    Sites <- MCSites
    Json <- MCJson
    Sources <- MCSources
    AllLimits <- MCLimits
    Bodies <- AllDocs
    Paths <- AllPaths
    Blocks = {1, 3}
    MAX_BUFFER = 20
    MAX_LINE = 2
    MaxRequests = 4
    Sessions <- AllSessions
CHECK_DEADLOCK FALSE
INVARIANTS OnlyGapsDiffer EvaluatorsAgree LimitsHold ReturnsMeaning GetIsMeaning FetchFinds LagBounded
PROPERTY LinkServes
