SPECIFICATION FairSpec
CONSTANTS
    Runners = {r1, r2}
    Configured = {r1}
    Sessions = {x1}
    Tasks = {t1, t2}
    NoRunner = NoRunner
    NoSession = NoSession
INVARIANTS
    TypeOK
    BindingsHaveSessions
    OrphansAreKnown
PROPERTIES
    RemovedRunnersLeave
