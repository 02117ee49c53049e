\* The cache of DBInstances lags.
SPECIFICATION Spec
CONSTANTS
    Params <- OneInstance
    Passwords = {p1}
    Lagging = {"db"}
    Events = {}
    Faults = {}
    MaxFaults = 0
INVARIANTS DeletedIsDeleted
