SPECIFICATION Spec
CONSTANTS
    mine = mine
    yours = yours
    Secrets <- MCSecrets
    Generated = Generated
    Empty = Empty
    NoFile = NoFile
    Main = Main
    Panels = {p1}
    Bodies <- MCBodies
    FirstFiles <- MCFirstFiles
    MaxLoops = 1
    MaxCalls = 1
    MaxFaults = 0
INVARIANT
    TriggerIsPrompt
CHECK_DEADLOCK FALSE
