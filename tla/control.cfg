SPECIFICATION Spec
CONSTANTS
    AddrBits = 3
    Own = 4
    Truncated = 2
    StartOps = {"register", "fetch_map", "update_endpoints", "session", "register_once"}
    Netmaps <- MCNetmaps
    StreamWindow = 5
    ConnWindow = 6
    MaxFrame = 5
    Prefix = 2
    HeadMax = 3
    ScanTries = 2
    AccMax = 2
    AccKeep = 2
    Nonces = 2
    Ahead = 2
    Extras = 1
INVARIANTS
    BodyIsResponse
    AddressIsOwn
    FilterIsAcl
    NoStall
