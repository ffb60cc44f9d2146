SPECIFICATION Spec
CONSTANTS
    Callers = {c1, c2, c3}
    NumDisplays = 2
    NumPorts = 3
    NumWsPorts = 2
SYMMETRY Symmetry
INVARIANTS
    Conserved
    PipelinesHaveOwners
CHECK_DEADLOCK FALSE
