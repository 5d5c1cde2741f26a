SPECIFICATION Spec
CONSTANTS
    r1 = r1
    r2 = r2
    r3 = r3
    Requests = {r1, r2, r3}
    NoRequest = NoRequest
    NoEntry = NoEntry
    Menu <- OnePrompt
    StreamPrompts <- StreamPrompt
    CacheStreams = TRUE
    Sizes <- OneSize
    TTL = 2
    Jitter = 1
    SWR = 1
    SIE = 2
    MaxEntries = 2
    MaxBody = 2
    MaxTotal = 0
    MaxTime = 3
    MaxClears = 1
SYMMETRY Symmetric
INVARIANTS
    FreshAnswers
PROPERTIES
    NoRegress
