SPECIFICATION Spec
CONSTANTS
    Sessions = {x1, x2}
    Requests = {r1}
    Operators = {o1}
    OperatorCalls = {"reserve", "busy", "cancel", "release"}
    Reaper = reaper
    Main = main
    Modes = {"hybrid", "warm_only", "cold_only"}
    Restartable = TRUE
    Slots = {w1}
    Browsers = {b1, b2}
    NoBrowser = NoBrowser
    NoClient = NoClient
    NoSlot = NoSlot
    NoSession = NoSession
    MaxRetries = 1
SYMMETRY Symmetry
VIEW View
INVARIANTS
    TypeOK
    ActiveCountExact
    NoLeakedBrowser
    NoLeakedVnc
    GoneHoldsNothing
    WorkstationExclusive
    ReservationHasOwner
    StopLeavesNothing

\* A failed start() or stop() ends the runner.
CHECK_DEADLOCK FALSE
