SPECIFICATION Spec
CONSTANTS
    Sessions = {x1}
    Requests = {r1}
    Operators = {}
    OperatorCalls = {"reserve", "busy", "cancel", "release", "restart", "enable", "drain_slot"}
    Reaper = reaper
    Main = main
    Modes = {"cold_only"}
    Restartable = FALSE
    Slots = {w1}
    Browsers = {b1, b2}
    NoBrowser = NoBrowser
    NoClient = NoClient
    NoSlot = NoSlot
    NoSession = NoSession
    MaxRetries = 1
PROPERTIES
    SweepEndsIdleSessions
CHECK_DEADLOCK FALSE
