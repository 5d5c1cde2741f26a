SPECIFICATION Spec
CONSTANTS
    h1 = h1
    h2 = h2
    h3 = h3
    alice = alice
    bob = bob
    Handlers = {h1, h2, h3}
    Clients = {alice, bob}
    NoClient = NoClient
    Limit = 2
    RPM = 0
    Window = 4
    TicksPerSecond = 2
    MaxTracked = 2
    MaxTime = 0
    MaxResets = 1
SYMMETRY Symmetric
INVARIANT
    InFlightWithinLimit
