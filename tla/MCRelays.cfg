SPECIFICATION Spec
CONSTANTS
    Relays = {r1, r2}
    Kinds = {"vnc", "http", "control", "worker"}
\* Every relay ends: the system stops when all have.
CHECK_DEADLOCK FALSE
INVARIANTS
    EndedHoldsNothing
    ToldUnlessEscaped
PROPERTIES
    RunnerCloseReachesClient
