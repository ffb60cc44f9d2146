SPECIFICATION Spec
CONSTANTS
    Sessions = {a, b}
    Streams = {x1, x2}
    NoStream = NoStream
    MaxRetries = 1
    MaxEvents = 2
INVARIANTS
    StreamsAreTails
    OneStream
    DivergenceExplained
PROPERTIES
    CacheCatchesUp
