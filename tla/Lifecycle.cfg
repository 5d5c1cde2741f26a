SPECIFICATION FairSpec
CONSTANTS
    Ops = {t1, t2}
    NoOp = NoOp
    MaxOps = 3
    GatewayModes = {TRUE, FALSE}
    Foreign = "none"
INVARIANTS
    TypeOK
    NoChildForgotten
    RunsItsConfig
PROPERTIES
    ChildrenSupervised
    GatewaysSupervised
    ComesToRest
CHECK_DEADLOCK FALSE
