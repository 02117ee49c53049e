\* Two requests at a time.
SPECIFICATION Spec
CONSTANTS
    Names = {n1, n2, n3}
    MaxInFlight = 2
    Lag = FALSE
INVARIANTS OnlyOne
SYMMETRY Symmetry
