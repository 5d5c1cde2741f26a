SPECIFICATION FairSpec
CONSTANTS
    alice = alice
    bob = bob
    Sessions <- MCSessions
    NoEvent = NoEvent
    None = None
    Worlds <- MCWorlds
    Streams <- MCStreams
    MaxLines = 2
    MaxClears = 1
INVARIANTS
    TypeOK
    MessagesArriveWhole
    ChunksMakeNoDifference
    KeptAsSent
    ReplayIsTheStream
    OneLeader
    UpstreamAccepts
PROPERTIES
    RequestsEnd
CHECK_DEADLOCK FALSE
