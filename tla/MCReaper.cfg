SPECIFICATION FairSpec
CONSTANTS
    Sessions = {x1, x2}
    Requests = {r1}
    Operators = {}
    OperatorCalls = {"reserve", "busy", "cancel", "release", "restart", "enable", "drain_slot"}
    Reaper = reaper
    Main = main
    Modes = {"warm_only"}
    Restartable = FALSE
    Slots = {w1}
    Browsers = {b1}
    NoBrowser = NoBrowser
    NoClient = NoClient
    NoSlot = NoSlot
    NoSession = NoSession
    MaxRetries = 1
PROPERTIES
    ExpiredSessionEnds
CHECK_DEADLOCK FALSE
