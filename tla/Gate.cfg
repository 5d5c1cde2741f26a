SPECIFICATION FairSpec
CONSTANTS
    h1 = h1
    h2 = h2
    h3 = h3
    alice = alice
    bob = bob
    Handlers = {h1, h2, h3}
    Clients = {alice, bob}
    NoClient = NoClient
    Limit = 2
    RPM = 2
    Window = 3
    TicksPerSecond = 2
    MaxTracked = 1
    MaxTime = 3
    MaxResets = 1
INVARIANTS
    TypeOK
    NoPhantomSlots
    ExactWhenClean
    QuotaHolds
    RetryAfterSuffices
    TableBounded
PROPERTY
    Recovers
