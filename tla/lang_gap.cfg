SPECIFICATION SpellSpec
CONSTANTS
    Width = 5
    Mantissa = 3
    SizeOfValue = 2
    Interval = 3
    Never <- MCNever
    Env <- MCEnv
    Sites <- MCSites
    Json <- MCJson
    Sources <- MCSources
    AllLimits <- MCLimits
CHECK_DEADLOCK FALSE
INVARIANT FrontEndsAgree
