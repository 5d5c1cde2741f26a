SPECIFICATION Spec
CONSTANTS
    r1 = r1
    r2 = r2
    r3 = r3
    Requests = {r1, r2, r3}
    NoRequest = NoRequest
    NoEntry = NoEntry
    Menu <- ThreeKeys
    StreamPrompts <- StreamPrompt
    CacheStreams = TRUE
    Sizes <- ThreeSizes
    TTL = 1
    Jitter = 2
    SWR = 1
    SIE = 0
    MaxEntries = 2
    MaxBody = 2
    MaxTotal = 3
    MaxTime = 1
    MaxClears = 0
SYMMETRY Symmetric
INVARIANTS
    TypeOK
    CacheCoherent
    OwnAnswers
PROPERTIES
    PutSurvives
