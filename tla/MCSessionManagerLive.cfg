SPECIFICATION FairSpec
CONSTANTS
    Sessions = {x1}
    Requests = {r1}
    Operators = {o1}
    OperatorCalls = {"reserve", "cancel", "release", "restart", "enable", "drain_slot"}
    Reaper = reaper
    Main = main
    Modes = {"hybrid"}
    Restartable = FALSE
    Slots = {w1}
    Browsers = {b1}
    NoBrowser = NoBrowser
    NoClient = NoClient
    NoSlot = NoSlot
    NoSession = NoSession
    MaxRetries = 2
PROPERTIES
    IdleSessionEnds
    LockReleased
    SlotCallsReturn
    SlotRecyclingEnds

\* The runner ends stopped.
CHECK_DEADLOCK FALSE
