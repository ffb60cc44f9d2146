SPECIFICATION Spec
CONSTANTS
    Runners = {r1, r2, r3}
    Configured = {r1}
SYMMETRY Symmetry
INVARIANTS
    TypeOK
    TurnsAreFair
