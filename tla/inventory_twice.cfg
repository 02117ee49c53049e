\* The cache of AdoptedResources lags.
SPECIFICATION Spec
CONSTANTS
    DBIds = {i1}
    MaxCopies = 2
    Creds = {c1}
    Passwords = {p1}
    Lagging = {"adopted"}
    Events = {}
    Faults = {}
    MaxFaults = 0
INVARIANTS AdoptOnce
