\* FailuresAreRetried is violated: a broker job that fails is not queued again.
SPECIFICATION Spec
CONSTANTS
    Backends = {"amqp"}
    Consumers = {c1}
    Jobs <- MCJobs
    Order <- MCOrder
    Mode <- MCMode
    Key <- MCKey
    NoKey = "nokey"
    MaxAttempts = 2
    MaxFaults = 0
    Ids = {s1, s2}
    NoId = NoId
    Retries = 1
    Proxied = {"o"}
CHECK_DEADLOCK FALSE
INVARIANTS
    FailuresAreRetried
