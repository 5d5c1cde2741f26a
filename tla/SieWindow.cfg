SPECIFICATION Spec
CONSTANTS
    r1 = r1
    r2 = r2
    r3 = r3
    Requests = {r1, r2, r3}
    NoRequest = NoRequest
    NoEntry = NoEntry
    Menu <- OneRequest
    StreamPrompts <- StreamPrompt
    CacheStreams = TRUE
    Sizes <- OneSize
    TTL = 1
    Jitter = 0
    SWR = 0
    SIE = 1
    MaxEntries = 2
    MaxBody = 2
    MaxTotal = 0
    MaxTime = 3
    MaxClears = 0
SYMMETRY Symmetric
INVARIANT
    SieWithinWindow
