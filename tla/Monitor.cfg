SPECIFICATION FairSpec
CONSTANTS
    mine = mine
    yours = yours
    Secrets <- MCSecrets
    Generated = Generated
    Empty = Empty
    NoFile = NoFile
    Main = Main
    Panels = {p1, p2}
    Bodies <- MCBodies
    FirstFiles <- MCFirstFiles
    MaxLoops = 2
    MaxCalls = 3
    MaxFaults = 1
INVARIANTS
    TypeOK
    SecretSurvives
    NothingInTheClear
    RunningHasThread
PROPERTY
    StopEndsThreads
CHECK_DEADLOCK FALSE
