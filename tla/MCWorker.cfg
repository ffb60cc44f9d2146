SPECIFICATION Spec
CONSTANTS
    Backends = {"memory", "redis", "amqp"}
    Consumers = {c1, c2}
    Jobs <- MCJobs
    Order <- MCOrder
    Mode <- MCMode
    Key <- MCKey
    NoKey = "nokey"
    MaxAttempts = 2
    MaxFaults = 1
    Ids = {s1, s2}
    NoId = NoId
    Retries = 1
    Proxied = {"o"}
CHECK_DEADLOCK FALSE
INVARIANTS
    JobsAccountedFor
    AckedWorkWasDone
    RunsMatchBackend
    LeftoversExplained
PROPERTIES
    JobsSettle
    ImplementsLifecycle
