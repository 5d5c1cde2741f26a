SPECIFICATION Spec
CONSTANTS
    Ops = {t1, t2}
    NoOp = NoOp
    MaxOps = 2
    GatewayModes = {TRUE}
    Foreign = "none"
INVARIANT
    ConfigOutlivesReader
CHECK_DEADLOCK FALSE
