\* Two requests at a time, and a cache that may be behind.
SPECIFICATION Spec
CONSTANTS
    Names = {n1, n2, n3}
    MaxInFlight = 2
    Lag = TRUE
INVARIANTS OnlyOneUnlessRaced ReadyUnlessRaced
SYMMETRY Symmetry
