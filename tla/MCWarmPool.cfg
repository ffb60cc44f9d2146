SPECIFICATION Spec
CONSTANTS
    Slots = {s1, s2}
    Clients = {c0, c1}
    Starter = c0
    Browsers = {b1, b2, b3}
    NoBrowser = NoBrowser
    NoClient = NoClient
    NoSlot = NoSlot
    MaxRetries = 2
SYMMETRY Symmetry
INVARIANTS
    TypeOK
    BrowserOwned
    OfferedHasOwnBrowser
    TenantIsolation
    RecyclingHasWorker
    DrainLeavesNothing
PROPERTIES
    ImplementsLifecycle

\* A start() that raises ends the application.
CHECK_DEADLOCK FALSE
